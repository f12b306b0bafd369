---------------------------- MODULE AgentFollower ----------------------------
(***************************************************************************)
(* The agent panel: the one run it opens and follows                       *)
(* (components/agent/use-agent-run.ts), its Stop, and the replacement of   *)
(* the open run by another (beginRun, components/agent/AgentRail.tsx).     *)
(* A run is named by the start that opens it.  An aborted request answers  *)
(* nothing but its abort.                                                  *)
(***************************************************************************)
EXTENDS Naturals, FiniteSets

CONSTANTS
  MaxStarts,   \* bound: starts
  MaxAsks      \* bound: requests to stop

Starts == 1..MaxStarts
Asks == 1..MaxAsks

VARIABLES
  server,                  \* the runs as the server records them
  start, latest,           \* how far each start is; the last one
  runId, busy, stopping,   \* the hook's state; runId and error are 0 for none
  error,                   \* the start whose failure is shown
  status,                  \* the status of the run followed, as the ledger's entries told it
  ask,                     \* the requests to stop
  severed,                 \* a start's answer, or a ledger before its last entry, was lost
  met                      \* a start aborted a request to stop

followerVars == <<server, start, latest, runId, busy, stopping, error, status, ask, severed, met>>

NoAsk == [stage |-> "idle", of |-> 0, replaces |-> FALSE]

FollowerTypeOK ==
  /\ server \in [Starts -> {"none", "live", "stopping", "ended"}]
  /\ start \in [Starts -> {"idle", "posting", "opened", "following", "aborted", "over"}]
  /\ latest \in 0..MaxStarts /\ runId \in 0..MaxStarts /\ error \in 0..MaxStarts
  /\ {busy, stopping, severed, met} \subseteq BOOLEAN /\ status \in {"none", "live", "stopping", "ended"}
  /\ ask \in [Asks -> [stage: {"idle", "asking", "accepted", "aborted", "over"}, of: 0..MaxStarts, replaces: BOOLEAN]]

Init ==
  /\ server = [s \in Starts |-> "none"] /\ start = [s \in Starts |-> "idle"] /\ latest = 0
  /\ runId = 0 /\ busy = FALSE /\ stopping = FALSE /\ error = 0 /\ status = "none"
  /\ ask = [a \in Asks |-> NoAsk] /\ severed = FALSE /\ met = FALSE

(* A start aborts what the one before it has under way, its requests to stop included; asks is *)
(* what the requests are when it begins.                                                      *)
Starting(asks) ==
  /\ latest < MaxStarts /\ latest' = latest + 1
  /\ start' = [s \in Starts |->
       IF s = latest' THEN "posting" ELSE IF start[s] \in {"posting", "opened", "following"} THEN "aborted" ELSE start[s]]
  /\ ask' = [a \in Asks |-> IF asks[a].stage \in {"asking", "accepted"} THEN [asks[a] EXCEPT !.stage = "aborted"] ELSE asks[a]]
  /\ met' = (met \/ \E a \in Asks : asks[a].stage \in {"asking", "accepted"})
  /\ busy' = TRUE /\ stopping' = FALSE /\ error' = 0 /\ runId' = 0 /\ status' = "none"
  /\ UNCHANGED <<server, severed>>

Begin == ~busy /\ Starting(ask)

ServerOpens(s) ==
  /\ start[s] = "posting" /\ server[s] = "none"
  /\ server' = [server EXCEPT ![s] = "live"] /\ start' = [start EXCEPT ![s] = "opened"]
  /\ UNCHANGED <<latest, runId, busy, stopping, error, status, ask, severed, met>>

StartAnswered(s) ==
  /\ start[s] = "opened" /\ start' = [start EXCEPT ![s] = "following"] /\ runId' = s
  /\ UNCHANGED <<server, latest, busy, stopping, error, status, ask, severed, met>>

StartFails(s) ==
  /\ start[s] \in {"posting", "opened"} /\ start' = [start EXCEPT ![s] = "over"]
  /\ severed' = (severed \/ start[s] = "opened") /\ busy' = FALSE /\ error' = s
  /\ UNCHANGED <<server, latest, runId, stopping, status, ask, met>>

LedgerTells(s) ==
  /\ start[s] = "following" /\ status # server[s] /\ status' = server[s]
  /\ UNCHANGED <<server, start, latest, runId, busy, stopping, error, ask, severed, met>>

(* Whole or cut short; a failure is shown. *)
LedgerEnds(s) ==
  /\ start[s] = "following" /\ start' = [start EXCEPT ![s] = "over"] /\ busy' = FALSE
  /\ severed' = (severed \/ status # "ended") /\ error' \in {error, s}
  /\ UNCHANGED <<server, latest, runId, stopping, status, ask, met>>

(* A slip: the abort of a start shown as a failure of the last one. *)
AbortShown(s) == busy' = FALSE /\ error' = s
AbortPassedOver(s) == UNCHANGED <<busy, error>>

StartAborted(s) ==
  /\ start[s] = "aborted" /\ start' = [start EXCEPT ![s] = "over"] /\ AbortPassedOver(s)
  /\ UNCHANGED <<server, latest, runId, stopping, status, ask, severed, met>>

(* Stop, of a run whose ledger tells no stop; or a replacement of the open run. *)
Ask(a, replaces) ==
  /\ ask[a].stage = "idle" /\ \A b \in 1..(a - 1) : ask[b].stage # "idle"
  /\ runId # 0 /\ (IF replaces THEN status \in {"live", "stopping"} ELSE status = "live" /\ ~stopping)
  /\ ask' = [ask EXCEPT ![a] = [stage |-> "asking", of |-> runId, replaces |-> replaces]]
  /\ stopping' = TRUE /\ error' = 0
  /\ UNCHANGED <<server, start, latest, runId, busy, status, severed, met>>

StopRecorded(a) ==
  /\ ask[a].stage = "asking" /\ server[ask[a].of] \in {"live", "stopping"}
  /\ server' = [server EXCEPT ![ask[a].of] = "stopping"] /\ ask' = [ask EXCEPT ![a].stage = "accepted"]
  /\ UNCHANGED <<start, latest, runId, busy, stopping, error, status, severed, met>>

Over(a) == [ask EXCEPT ![a].stage = "over"]

Accepted(a) ==
  /\ ask[a].stage = "accepted"
  /\ IF ask[a].replaces THEN Starting(Over(a))
     ELSE ask' = Over(a) /\ UNCHANGED <<server, start, latest, runId, busy, stopping, error, status, severed, met>>

(* A slip: the replacement opened whatever became of the stop. *)
OpensAnyway(a) == ask[a].replaces /\ Starting(Over(a))
OpensNothing(a) ==
  /\ ask' = Over(a) /\ error' = ask[a].of /\ stopping' = FALSE
  /\ UNCHANGED <<server, start, latest, runId, busy, status, severed, met>>

(* The refusal of a stop, or its answer lost, or aborted by a later start: no start is *)
(* aborted at present, and the failure is shown.                                       *)
Refused(a) == ask[a].stage \in {"asking", "accepted", "aborted"} /\ OpensNothing(a)

ServerEnds(s) ==
  /\ server[s] \in {"live", "stopping"} /\ server' = [server EXCEPT ![s] = "ended"]
  /\ UNCHANGED <<start, latest, runId, busy, stopping, error, status, ask, severed, met>>

Next ==
  \/ Begin
  \/ \E s \in Starts :
       \/ ServerOpens(s) \/ StartAnswered(s) \/ StartFails(s) \/ StartAborted(s)
       \/ LedgerTells(s) \/ LedgerEnds(s) \/ ServerEnds(s)
  \/ \E a \in Asks : (\E replaces \in BOOLEAN : Ask(a, replaces)) \/ StopRecorded(a) \/ Accepted(a) \/ Refused(a)

Spec == Init /\ [][Next]_followerVars

-----------------------------------------------------------------------------
(* "The replacement is opened only if that stop was accepted": while no answer was lost, one *)
(* run at most goes on unasked to stop.                                                      *)
OneUnstopped == ~severed => Cardinality({s \in Starts : server[s] = "live"}) <= 1

(* The panel is busy exactly while its last start is under way: what an earlier one comes to  *)
(* does not free it.                                                                          *)
BusyWithLast == busy <=> latest # 0 /\ start[latest] \in {"posting", "opened", "following"}

(* The failure shown is of the last start, unless it aborted a request to stop: that abort is *)
(* shown as its own.                                                                          *)
ErrorOfLast == ~met => error \in {0, latest}
=============================================================================
