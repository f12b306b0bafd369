---------------------------- MODULE MCExecutions ----------------------------
(* Instances of Executions for TLC: what a request needs. *)
EXTENDS Executions

CONSTANTS r1

OneReviewer == [r \in Requests |-> 1]
TwoReviewers == [r \in Requests |-> 2]
Script == [r \in Requests |-> 2]
Single == [r \in Requests |-> 1]
=============================================================================
