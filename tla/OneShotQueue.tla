---------------------------- MODULE OneShotQueue ----------------------------
(***************************************************************************)
(* What the queue promises a job that is allowed one attempt: it is given  *)
(* to a worker at most once, and never comes back.  Nothing is promised of *)
(* its end: the worker may drop it, and the lost handler may be told of it *)
(* while the worker still runs it.                                         *)
(***************************************************************************)
CONSTANT Jobs

VARIABLES
  phase,     \* none, queued or taken
  inFlight,  \* the jobs a worker holds: claimed, or with a handler running
  told       \* the jobs whose lost handler has run

queueVars == <<phase, inFlight, told>>

Init ==
  /\ phase = [j \in Jobs |-> "none"]
  /\ inFlight = {}
  /\ told = {}

Submit(j) ==
  /\ phase[j] = "none"
  /\ phase' = [phase EXCEPT ![j] = "queued"]
  /\ UNCHANGED <<inFlight, told>>

Take(j) ==
  /\ phase[j] = "queued"
  /\ phase' = [phase EXCEPT ![j] = "taken"]
  /\ inFlight' = inFlight \cup {j}
  /\ UNCHANGED told

(* Handlers end, or their process dies: one job or several leave at once. *)
Release(S) ==
  /\ S # {} /\ S \subseteq inFlight
  /\ inFlight' = inFlight \ S
  /\ UNCHANGED <<phase, told>>

Tell(j) ==
  /\ phase[j] = "taken"
  /\ told' = told \cup {j}
  /\ UNCHANGED <<phase, inFlight>>

Next ==
  \/ \E j \in Jobs : Submit(j) \/ Take(j) \/ Tell(j)
  \/ \E S \in SUBSET Jobs : Release(S)

Spec == Init /\ [][Next]_queueVars

(* Some worker polls, and no handler runs forever. *)
FairSpec ==
  /\ Spec
  /\ \A j \in Jobs : WF_queueVars(Take(j))
  /\ \A j \in Jobs : WF_queueVars(\E S \in SUBSET Jobs : j \in S /\ Release(S))
=============================================================================
