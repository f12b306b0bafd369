------------------------------ MODULE AgentRuns ------------------------------
(***************************************************************************)
(* One agent run: its ledger, the drives that carry it and the calls that   *)
(* cancel it (src/lib/agent/run-store.ts, run-service.ts, runtime.ts and    *)
(* the loop of investigation.ts), in one process that may stop and come     *)
(* back.  Every action ends at an await; what a drive read before it is     *)
(* kept in its record.  The ledger is kept as the fold every reader makes   *)
(* of it; an entry no fold keeps (a draft, a notice, the model's prose) is  *)
(* only the check its append makes.                                         *)
(***************************************************************************)
EXTENDS Naturals, FiniteSets

CONSTANTS
  Drives,    \* calls of driveAgentRun: the start's own, and the drive route's, each used again and again
  Cancels,   \* calls of cancel
  Steps,     \* the step ids the model may derive
  Turns,     \* maxTurns of a drive
  Faults     \* bound: times the process stops or the store refuses a call

ASSUME AgentNaturals == Turns \in Nat /\ Faults \in Nat
ASSUME AgentActors == Drives \cap Cancels = {}

VARIABLES
  ledger,   \* the fold: status, stop (a cancellation is recorded), invoked, settled
  shut,     \* the backend's stream is closed: a write succeeds and is never read
  closed,   \* closedStreams of this process holds the run
  driven,   \* activeDrives of this process holds the run
  live,     \* activeExecutions of the run's account
  actor,    \* what each drive and each cancel is at
  sent,     \* history: the steps whose statement was sent to the database
  again,    \* history: those sent a second time
  revived,  \* history: a start was appended to a run that had ended
  crossed,  \* history: two of them stood between reading the status and writing one
  faults

vars == <<ledger, shut, closed, driven, live, actor, sent, again, revived, crossed, faults>>

Actors == Drives \cup Cancels
Terminal == {"succeeded", "failed", "cancelled"}
Statuses == {"queued", "running"} \cup Terminal
EndPhases == {"finishing", "ending", "closing", "shutting"}
Phases ==
  {"idle", "resolving", "claiming", "marking", "starting", "introducing", "checking", "turning",
   "calling", "invoking", "executing", "sent", "settling", "asking"} \cup EndPhases

Resting ==
  [phase |-> "idle", claimed |-> FALSE, seen |-> "queued", turns |-> 0, calls |-> {},
   step |-> {}, owes |-> FALSE, ending |-> "failed"]

TypeOK ==
  /\ ledger \in [status : Statuses, stop : BOOLEAN, invoked : SUBSET Steps, settled : SUBSET Steps]
  /\ shut \in BOOLEAN /\ closed \in BOOLEAN /\ driven \in BOOLEAN /\ live \in Nat
  /\ actor \in [Actors -> [phase : Phases, claimed : BOOLEAN, seen : Statuses, turns : 0..Turns,
                           calls : SUBSET Steps, step : SUBSET Steps, owes : BOOLEAN,
                           ending : Terminal]]
  /\ sent \subseteq Steps /\ again \subseteq Steps
  /\ revived \in BOOLEAN /\ crossed \in BOOLEAN
  /\ faults \in 0..Faults

(* openRun: the header is on the ledger, nobody drives it yet. *)
Init ==
  /\ ledger = [status |-> "queued", stop |-> FALSE, invoked |-> {}, settled |-> {}]
  /\ shut = FALSE /\ closed = FALSE /\ driven = FALSE /\ live = 0
  /\ actor = [a \in Actors |-> Resting]
  /\ sent = {} /\ again = {}
  /\ revived = FALSE /\ crossed = FALSE /\ faults = 0

-----------------------------------------------------------------------------
Ended == ledger.status \in Terminal
In(a, phase) == actor[a].phase = phase
Puts(a, record) == actor' = [actor EXCEPT ![a] = record]
Goes(a, phase) == Puts(a, [actor[a] EXCEPT !.phase = phase])

(* append: refused where this process closed the stream, lost where the backend did. *)
Writes(entry) == ~closed /\ ledger' = IF shut THEN ledger ELSE entry

(* A throw that keeps the claim. *)
ThrowsHolding(a) ==
  /\ Puts(a, IF a \in Cancels \/ actor[a].phase \in EndPhases THEN Resting
             ELSE [Resting EXCEPT !.phase = "finishing"])
  /\ UNCHANGED driven

(* A throw. A drive that carries the run releases it (finally), then it, like one  *)
(* that never claimed it, records the failure; a throw of that recording, or of a   *)
(* cancel, ends there.                                                              *)
Throws(a) ==
  LET recording == a \in Cancels \/ (actor[a].phase \in EndPhases /\ ~actor[a].claimed) IN
    /\ Puts(a, IF recording THEN Resting ELSE [Resting EXCEPT !.phase = "finishing"])
    /\ driven' = (driven /\ ~actor[a].claimed)

(* The loop is left with the run still claimed. *)
Ends(a, phase, status) ==
  Puts(a, [Resting EXCEPT !.phase = phase, !.ending = status, !.claimed = actor[a].claimed])
Concludes(a, status) == Ends(a, "finishing", status)

-----------------------------------------------------------------------------
(* driveAgentRun up to runInvestigation's claim *)

(* The start drives the run once, in its own process; after that it is driven when somebody *)
(* calls the drive route, which nothing is bound to do.                                      *)
Deliver(d) ==
  /\ In(d, "idle") /\ Goes(d, "resolving")
  /\ UNCHANGED <<ledger, shut, closed, driven, live, sent, again, revived>>

(* The connection, the provider or the model cannot be resolved. *)
ResolveFails(d) ==
  /\ In(d, "resolving") /\ Throws(d)
  /\ UNCHANGED <<ledger, shut, closed, live, sent, again, revived>>

Resume(d) ==
  /\ In(d, "resolving")
  /\ \/ Ended /\ Throws(d)
     \/ /\ ~Ended /\ UNCHANGED driven
        /\ Puts(d, [actor[d] EXCEPT !.phase = "claiming", !.seen = ledger.status])
  /\ UNCHANGED <<ledger, shut, closed, live, sent, again, revived>>

(* RUN_ALREADY_DRIVEN is the one refusal nothing is recorded for. *)
Claim(d) ==
  /\ In(d, "claiming")
  /\ \/ driven /\ Puts(d, Resting) /\ UNCHANGED driven
     \/ /\ ~driven /\ driven' = TRUE
        /\ Puts(d, [actor[d] EXCEPT !.claimed = TRUE, !.seen = "queued",
                       !.phase = IF actor[d].seen = "queued" THEN "marking" ELSE "introducing"])
  /\ UNCHANGED <<ledger, shut, closed, live, sent, again, revived>>

MarkRead(d) ==
  /\ In(d, "marking")
  /\ \/ ledger.status = "queued" /\ Goes(d, "starting") /\ UNCHANGED driven
     \/ ledger.status # "queued" /\ Throws(d)
  /\ UNCHANGED <<ledger, shut, closed, live, sent, again, revived>>

MarkRunning(d) ==
  /\ In(d, "starting")
  /\ \/ /\ Writes([ledger EXCEPT !.status = "running"])
        /\ revived' = (revived \/ (Ended /\ ~shut))
        /\ Goes(d, "introducing") /\ UNCHANGED driven
     \/ closed /\ Throws(d) /\ UNCHANGED <<ledger, revived>>
  /\ UNCHANGED <<shut, closed, live, sent, again>>

(* recordDriver: its read and its append, which no fold keeps. *)
RecordDriver(d) ==
  /\ In(d, "introducing")
  /\ \/ ledger.status = "running" /\ ~closed /\ Goes(d, "checking") /\ UNCHANGED driven
     \/ (ledger.status # "running" \/ closed) /\ Throws(d)
  /\ UNCHANGED <<ledger, shut, closed, live, sent, again, revived>>

-----------------------------------------------------------------------------
(* The loop *)

TurnsLeft(d) == actor[d].turns < Turns

Check(d) ==
  /\ In(d, "checking")
  /\ \/ ledger.stop /\ Concludes(d, "cancelled")
     \/ ~ledger.stop /\ Concludes(d, "failed")                          \* the deadline passed
     \/ ~ledger.stop /\ ~TurnsLeft(d) /\ Concludes(d, "failed")
     \/ /\ ~ledger.stop /\ TurnsLeft(d)
        /\ Puts(d, [actor[d] EXCEPT !.phase = "turning", !.turns = @ + 1])
  /\ UNCHANGED <<ledger, shut, closed, driven, live, sent, again, revived>>

(* The model answers with calls, stops, or cannot be reached. *)
Answer(d) ==
  /\ In(d, "turning")
  /\ \/ /\ \E calls \in SUBSET Steps :
             Puts(d, [actor[d] EXCEPT !.phase = "calling", !.calls = calls])
        /\ UNCHANGED driven
     \/ Concludes(d, "succeeded") /\ UNCHANGED driven
     \/ Throws(d)
  /\ UNCHANGED <<ledger, shut, closed, live, sent, again, revived>>

CallsDone(d) ==
  /\ In(d, "calling") /\ actor[d].calls = {} /\ Goes(d, "checking")
  /\ UNCHANGED <<ledger, shut, closed, driven, live, sent, again, revived>>

(* composeReport reads the run again, and an accepted report ends it. *)
Report(d) ==
  /\ In(d, "calling")
  /\ \/ ~Ended /\ Concludes(d, "succeeded") /\ UNCHANGED driven
     \/ Ended /\ Throws(d)
  /\ UNCHANGED <<ledger, shut, closed, live, sent, again, revived>>

KnownSettled(s) == s \in ledger.settled

(* runStep's answer for a step the ledger knows: replayed, or indeterminate. *)
Known(s) == s \in ledger.invoked \cup ledger.settled

StepRead(d, s) ==
  /\ In(d, "calling") /\ s \in actor[d].calls
  /\ \/ ledger.status # "running" /\ Throws(d)
     \/ ledger.status = "running" /\ ledger.stop /\ live > 0 /\ Throws(d)
     \/ /\ ledger.status = "running" /\ ledger.stop /\ live = 0 /\ UNCHANGED driven
        /\ Ends(d, "ending", "cancelled")
     \/ /\ ledger.status = "running" /\ ~ledger.stop /\ UNCHANGED driven
        /\ \/ Known(s) /\ Puts(d, [actor[d] EXCEPT !.calls = @ \ {s}])
           \/ /\ ~Known(s)
              /\ Puts(d, [actor[d] EXCEPT !.calls = @ \ {s}, !.step = {s}, !.phase = "invoking"])
  /\ UNCHANGED <<ledger, shut, closed, live, sent, again, revived>>

Invoke(d) ==
  /\ In(d, "invoking")
  /\ \/ /\ Writes([ledger EXCEPT !.invoked = @ \cup actor[d].step])
        /\ Goes(d, "executing") /\ UNCHANGED driven
     \/ closed /\ Throws(d) /\ UNCHANGED ledger
  /\ UNCHANGED <<shut, closed, live, sent, again, revived>>

(* The policy denies the call, or the tool gives up before it: a refusal to settle, or nothing. *)
Refuse(d) ==
  /\ In(d, "executing")
  /\ \E owes \in BOOLEAN :
       Puts(d, [actor[d] EXCEPT !.phase = "settling", !.owes = owes])
  /\ UNCHANGED <<ledger, shut, closed, driven, live, sent, again, revived>>

(* executeAuditedOperation allows one execution of a run at a time. *)
Send(d) ==
  /\ In(d, "executing") /\ live = 0
  /\ live' = live + 1
  /\ sent' = sent \cup actor[d].step /\ again' = again \cup (actor[d].step \cap sent)
  /\ Goes(d, "sent")
  /\ UNCHANGED <<ledger, shut, closed, driven, revived>>

Return(d) ==
  /\ In(d, "sent") /\ live > 0
  /\ live' = live - 1
  /\ \/ /\ \E owes \in BOOLEAN :
             Puts(d, [actor[d] EXCEPT !.phase = "settling", !.owes = owes])
        /\ UNCHANGED driven
     \/ Throws(d)
  /\ UNCHANGED <<ledger, shut, closed, sent, again, revived>>

Called(d) ==
  Puts(d, [actor[d] EXCEPT !.phase = "calling", !.step = {}, !.owes = FALSE])

Settle(d) ==
  /\ In(d, "settling")
  /\ \/ /\ actor[d].owes /\ Writes([ledger EXCEPT !.settled = @ \cup actor[d].step])
        /\ Called(d) /\ UNCHANGED driven
     \/ actor[d].owes /\ closed /\ Throws(d) /\ UNCHANGED ledger
     \/ ~actor[d].owes /\ Called(d) /\ UNCHANGED <<driven, ledger>>
  /\ UNCHANGED <<shut, closed, live, sent, again, revived>>

-----------------------------------------------------------------------------
(* finish and finalize *)

MayFinishUnread == live = 0

MayFinish == ~Ended /\ live = 0

FinishRead(a) ==
  /\ In(a, "finishing")
  /\ \/ MayFinish /\ Goes(a, "ending") /\ UNCHANGED driven
     \/ ~MayFinish /\ Throws(a)
  /\ UNCHANGED <<ledger, shut, closed, live, sent, again, revived>>

AppendFinished(a) ==
  /\ In(a, "ending")
  /\ \/ /\ Writes([ledger EXCEPT !.status = actor[a].ending])
        /\ Puts(a, [actor[a] EXCEPT !.phase = "closing", !.ending = "failed"])
        /\ UNCHANGED driven
     \/ closed /\ Throws(a) /\ UNCHANGED ledger
  /\ UNCHANGED <<shut, closed, live, sent, again, revived>>

(* releaseExecutionRun may refuse; the process's mark is set in either case. *)
MarkClosed(a) ==
  /\ In(a, "closing") /\ Goes(a, "shutting") /\ closed' = TRUE
  /\ UNCHANGED <<ledger, shut, driven, live, sent, again, revived>>

CloseStream(a) ==
  /\ In(a, "shutting") /\ shut' = TRUE
  /\ Puts(a, Resting)
  /\ driven' = (driven /\ ~actor[a].claimed)
  /\ UNCHANGED <<ledger, closed, live, sent, again, revived>>

(* cancel *)
CancelRead(c) ==
  /\ In(c, "idle") /\ ~Ended
  /\ \/ /\ ledger.status = "queued" /\ live = 0
        /\ Ends(c, "ending", "cancelled")
     \/ ledger.status = "running" /\ Goes(c, "asking")
  /\ UNCHANGED <<ledger, shut, closed, driven, live, sent, again, revived>>

(* The catch only looks again at what the caller is told. *)
RequestCancellation(c) ==
  /\ In(c, "asking")
  /\ \/ Writes([ledger EXCEPT !.stop = TRUE])
     \/ closed /\ UNCHANGED ledger
  /\ Goes(c, "idle")
  /\ UNCHANGED <<shut, closed, driven, live, sent, again, revived>>

-----------------------------------------------------------------------------
(* The store refuses what a drive or a cancel awaits; a statement in flight has its own throw. *)
StoreRefuses(a) ==
  /\ faults < Faults /\ faults' = faults + 1
  /\ actor[a].phase \notin {"idle", "executing", "sent", "closing"} /\ Throws(a)
  /\ UNCHANGED <<ledger, shut, closed, live, sent, again, revived>>

(* The process stops and comes back: closedStreams, activeDrives and the accounts are gone. *)
Stop ==
  /\ faults < Faults /\ faults' = faults + 1
  /\ actor' = [a \in Actors |-> Resting]
  /\ closed' = FALSE /\ driven' = FALSE /\ live' = 0
  /\ UNCHANGED <<ledger, shut, sent, again, revived>>

StartStep(d) == Resume(d) \/ Claim(d) \/ MarkRead(d) \/ MarkRunning(d) \/ RecordDriver(d)
CallStep(d) ==
  \/ CallsDone(d) \/ Report(d) \/ \E s \in Steps : StepRead(d, s)
  \/ Invoke(d) \/ Refuse(d) \/ Send(d) \/ Return(d) \/ Settle(d)
EndStep(a) == FinishRead(a) \/ AppendFinished(a) \/ MarkClosed(a) \/ CloseStream(a)
CarryOn(d) ==
  ResolveFails(d) \/ StartStep(d) \/ Check(d) \/ Answer(d) \/ CallStep(d) \/ EndStep(d)
DriveStep(d) == Deliver(d) \/ CarryOn(d)
CancelStep(c) == CancelRead(c) \/ RequestCancellation(c) \/ EndStep(c)

(* Those that read a status and are about to append one. *)
Between == {a \in Actors : actor[a].phase \in {"starting", "ending"}}
Crosses == crossed' = (crossed \/ \E a, b \in Between' : a # b)

Next ==
  /\ \/ /\ \/ \E d \in Drives : DriveStep(d)
           \/ \E c \in Cancels : CancelStep(c)
        /\ UNCHANGED faults
     \/ \E a \in Actors : StoreRefuses(a)
     \/ Stop
  /\ Crosses

Spec == Init /\ [][Next]_vars

(* A drive goes on while its process does. That there is one is nobody's promise: a run *)
(* whose process stopped stays as it is until the drive route is called.                *)
FairSpec ==
  /\ Spec
  /\ \A d \in Drives : WF_vars(CarryOn(d) /\ Crosses /\ UNCHANGED faults)
  /\ \A c \in Cancels : WF_vars(EndStep(c) /\ Crosses /\ UNCHANGED faults)

-----------------------------------------------------------------------------
(* A step's statement reaches the database at most once, however often the process stops  *)
(* and the run is driven again, and never without the ledger naming it first (runStep's   *)
(* order, claimDrive). It holds as long as nobody started the run after it had ended:     *)
(* its stream is then closed, an invocation written there is lost and repeated.           *)
StepOnce == ~revived => again = {} /\ sent \subseteq ledger.invoked

(* The outcome a run ended with stays, as long as no two of its drives and cancels stood  *)
(* between reading its status and writing one: the single writer run-service.ts asks for. *)
EndStaysAlone == [][Ended /\ ~crossed' => ledger'.status = ledger.status]_vars

(* An ended run is not resurrected: what drive/route.ts says of a later delivery.          *)
EndStays == [][Ended => ledger'.status \in Terminal]_vars

(* A running run that a drive carries comes to an end, whatever its turns, its other drives *)
(* and its cancels do, unless its process stops or the store refuses a call (or it was       *)
(* resurrected): no drive leaves it running with the claim kept and nobody to carry it.      *)
Carried == \E d \in Drives : ~In(d, "idle")
RunEnds ==
  \A f \in 0..Faults :
    (ledger.status = "running" /\ Carried /\ faults = f) ~> (Ended \/ revived \/ faults > f)

=============================================================================
