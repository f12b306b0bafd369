----------------------------- MODULE AuditExport -----------------------------
(***************************************************************************)
(* The audit lines one process ships to an index (audit-export/elastic.ts):*)
(* a queue, a timer, flushes that wait for the batch in flight, three      *)
(* attempts, and a count of what became of every line.                     *)
(***************************************************************************)
EXTENDS Naturals, Sequences, FiniteSets

CONSTANTS
  Lines,       \* the lines of a behaviour, each written once
  Batch,       \* AUDIT_ELASTIC_BATCH
  MaxQueue,    \* MAX_QUEUE
  MaxAttempts, \* MAX_ATTEMPTS
  Flushes,     \* bound: flushes under way at once
  NoFlush

VARIABLES
  queue,
  timer,     \* a timer is set
  inFlight,  \* s.inFlight, by the flush that sends
  flush,     \* each flush: what it awaits, what it sends, at which attempt
  indexed,   \* external: the lines the index holds
  counted    \* what each line was counted as

exportVars == <<queue, timer, inFlight, flush, indexed, counted>>

NoWork == [phase |-> "over", awaits |-> NoFlush, lines |-> {}, attempt |-> 0]

ExportTypeOK ==
  /\ queue \in Seq(Lines) /\ Len(queue) <= MaxQueue
  /\ timer \in BOOLEAN
  /\ inFlight \in Flushes \cup {NoFlush}
  /\ flush \in [Flushes -> [phase: {"over", "waiting", "sending", "resting"}, awaits: Flushes \cup {NoFlush},
                            lines: SUBSET Lines, attempt: 0..MaxAttempts]]
  /\ indexed \subseteq Lines
  /\ counted \in [Lines -> SUBSET {"shipped", "failed", "dropped"}]

Init ==
  /\ queue = <<>> /\ timer = FALSE
  /\ inFlight = NoFlush /\ flush = [f \in Flushes |-> NoWork]
  /\ indexed = {} /\ counted = [l \in Lines |-> {}]

-----------------------------------------------------------------------------
InQueue(l) == \E i \in DOMAIN queue : queue[i] = l
Sends(f) == flush[f].phase \in {"sending", "resting"}
New(l) == ~InQueue(l) /\ counted[l] = {} /\ \A f \in Flushes : l \notin flush[f].lines

Counts(lines, outcome) == counted' = [l \in Lines |-> IF l \in lines THEN counted[l] \cup {outcome} ELSE counted[l]]
Held(q) == {q[i] : i \in DOMAIN q}

(* A slip: the batch is sent from the queue and stays in it. *)
SpliceCopies(f, q) ==
  /\ queue' = q
  /\ IF q = <<>> THEN UNCHANGED inFlight /\ flush' = [flush EXCEPT ![f] = NoWork]
     ELSE /\ inFlight' = f
          /\ flush' = [flush EXCEPT ![f] = [NoWork EXCEPT !.phase = "sending", !.lines = Held(q), !.attempt = 1]]

(* The rest of a flush once nothing is in flight: the whole queue is one batch. *)
Splice(f, q) ==
  /\ queue' = <<>>
  /\ IF q = <<>> THEN UNCHANGED inFlight /\ flush' = [flush EXCEPT ![f] = NoWork]
     ELSE /\ inFlight' = f
          /\ flush' = [flush EXCEPT ![f] = [NoWork EXCEPT !.phase = "sending", !.lines = Held(q), !.attempt = 1]]

Free(f) == flush[f].phase = "over" /\ \A g \in Flushes : flush[g].awaits # f

(* A slip: a flush that finds a batch in flight leaves the queue to it. *)
FlushLeaves(f, q) ==
  /\ Free(f)
  /\ timer' = FALSE
  /\ IF inFlight = NoFlush THEN Splice(f, q) ELSE queue' = q /\ UNCHANGED <<inFlight, flush>>
FlushAuditExport(f, q) ==
  /\ Free(f)
  /\ timer' = FALSE
  /\ IF inFlight = NoFlush THEN Splice(f, q)
     ELSE /\ queue' = q
          /\ flush' = [flush EXCEPT ![f] = [NoWork EXCEPT !.phase = "waiting", !.awaits = inFlight]]
          /\ UNCHANGED inFlight

(* enqueueAuditExport: the oldest line makes room; a full batch is flushed, else a timer is set. *)
Enqueue ==
  LET l == CHOOSE l \in Lines : New(l)   \* a fresh id
      full == Len(queue) >= MaxQueue
      room == IF full THEN Tail(queue) ELSE queue
      q == Append(room, l)
  IN /\ \E n \in Lines : New(n)
     /\ IF full THEN Counts({Head(queue)}, "dropped") ELSE UNCHANGED counted
     /\ IF Len(q) >= Batch THEN \E f \in Flushes : FlushAuditExport(f, q)
        ELSE queue' = q /\ timer' = TRUE /\ UNCHANGED <<inFlight, flush>>
     /\ UNCHANGED indexed

TimerFires ==
  /\ timer
  /\ \E f \in Flushes : FlushAuditExport(f, queue)
  /\ UNCHANGED <<indexed, counted>>

(* The awaited batch is over; its finally cleared inFlight first. *)
Resume(f) ==
  /\ flush[f].phase = "waiting" /\ ~Sends(flush[f].awaits)
  /\ Splice(f, queue)
  /\ UNCHANGED <<timer, indexed, counted>>

Settles(f) ==
  /\ inFlight' = NoFlush
  /\ flush' = [flush EXCEPT ![f] = NoWork]

(* The index answers: a line it holds already (409) is taken as shipped, others may be rejected. *)
Answered(f) ==
  /\ flush[f].phase = "sending"
  /\ \E rejected \in SUBSET (flush[f].lines \ indexed) :
       LET kept == flush[f].lines \ rejected
       IN /\ indexed' = indexed \cup kept
          /\ counted' = [l \in Lines |-> IF l \in kept THEN counted[l] \cup {"shipped"}
                                          ELSE IF l \in rejected THEN counted[l] \cup {"failed"} ELSE counted[l]]
  /\ Settles(f)
  /\ UNCHANGED <<queue, timer>>

(* No answer, or an HTTP failure: any of the lines may be indexed all the same. *)
Throws(f) ==
  /\ flush[f].phase = "sending"
  /\ \E some \in SUBSET flush[f].lines : indexed' = indexed \cup some
  /\ IF flush[f].attempt >= MaxAttempts THEN Counts(flush[f].lines, "failed") /\ Settles(f)
     ELSE flush' = [flush EXCEPT ![f].phase = "resting"] /\ UNCHANGED <<inFlight, counted>>
  /\ UNCHANGED <<queue, timer>>

Retry(f) ==
  /\ flush[f].phase = "resting"
  /\ flush' = [flush EXCEPT ![f] = [flush[f] EXCEPT !.phase = "sending", !.attempt = flush[f].attempt + 1]]
  /\ UNCHANGED <<queue, timer, inFlight, indexed, counted>>

Next ==
  \/ Enqueue \/ TimerFires
  \/ \E f \in Flushes : Resume(f) \/ Answered(f) \/ Throws(f) \/ Retry(f)

Spec == Init /\ [][Next]_exportVars

-----------------------------------------------------------------------------
(* No line is left in the queue with nothing that will flush it. *)
NothingStranded == queue # <<>> => timer \/ \E f \in Flushes : flush[f].phase = "waiting"

(* Whatever flushes, failures and overflows meet, a line is in one place: once in the *)
(* queue, in one batch, or counted as one thing; and what counts as shipped is indexed. *)
CountedOnce ==
  \A l \in Lines :
    /\ \A i, j \in DOMAIN queue : queue[i] = l /\ queue[j] = l => i = j
    /\ \A f, g \in Flushes : l \in flush[f].lines \cap flush[g].lines => f = g
    /\ InQueue(l) => counted[l] = {} /\ \A f \in Flushes : l \notin flush[f].lines
    /\ (\E f \in Flushes : l \in flush[f].lines) => counted[l] = {}
    /\ \A a, b \in counted[l] : a = b
    /\ "shipped" \in counted[l] => l \in indexed
=============================================================================
