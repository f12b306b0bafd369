----------------------------- MODULE MCJobQueue -----------------------------
(* Instances of JobQueue for TLC: functions over the constants. *)
EXTENDS JobQueue, TLC

CONSTANTS w1, w2, a1, b1, j1, j2

(* One loop per process, one pass of it at a time. *)
OnePassEach == (a1 :> w1) @@ (b1 :> w2)

OnceAndTwice == [j \in Jobs |-> IF j = j1 THEN 1 ELSE 2]
=============================================================================
