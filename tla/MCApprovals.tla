----------------------------- MODULE MCApprovals -----------------------------
(* Instances of ApprovalsInTurn for TLC: who asks for what, and symmetry. *)
EXTENDS ApprovalsInTurn, TLC

CONSTANTS v, w, ann, bob, eve

(* ann, a reviewer herself, asks for windows v and w. *)
AskedBy == [r \in Requests |-> ann]
TwoThenOne == [r \in Requests |-> IF r = v THEN 2 ELSE 1]

OthersAlike == Permutations({bob, eve})
=============================================================================
