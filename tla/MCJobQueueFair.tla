--------------------------- MODULE MCJobQueueFair ---------------------------
(***************************************************************************)
(* The fair queue, an instance followed in two ways: "processes", two of   *)
(* them with the job that is tried once, pruning included; "retries", one  *)
(* process with a second job that is tried twice.                          *)
(***************************************************************************)
EXTENDS MCJobQueue

CONSTANT r3   \* the run that only "processes" has

VARIABLE followed

InBounds ==
  /\ UNCHANGED followed
  /\ IF followed = "processes" THEN jobs'[j2].status = "none"
     ELSE /\ pass'[b1].phase = "idle" /\ run'[r3].phase = "idle"
          /\ \A j \in Jobs : jobs'[j].status # "pruned"

FollowInit == Init /\ followed \in {"processes", "retries"}

FollowNext == Next /\ InBounds

(* Next and Fairness of JobQueue, of the steps within the bounds. *)
FollowSpec ==
  /\ FollowInit /\ [][FollowNext]_<<vars, followed>>
  /\ WF_vars(Tick /\ InBounds)
  /\ \A p \in Passes : WF_vars(PassStep(p) /\ InBounds)
  /\ \A r \in Runs : WF_vars(RunEnds(r) /\ InBounds)
=============================================================================
