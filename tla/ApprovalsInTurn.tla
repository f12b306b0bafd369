--------------------------- MODULE ApprovalsInTurn ---------------------------
(***************************************************************************)
(* Approvals, and whether its calls came one after the other.  What the    *)
(* store's read, await and put keep is said of those behaviours; Approvals *)
(* itself lets the calls overlap.                                          *)
(***************************************************************************)
EXTENDS Approvals

VARIABLE met  \* history: two calls were open at the same time

turnVars == <<approvalVars, met>>

TurnInit == Init /\ met = FALSE
TurnNext == Next /\ met' = (met \/ \E c, d \in Calls : c # d /\ call'[c].phase # "idle" /\ call'[d].phase # "idle")
TurnSpec == TurnInit /\ [][TurnNext]_turnVars

-----------------------------------------------------------------------------
(* What the store's copies keep as long as the calls came one after the other. *)

(* "One per pair": a person who retries a refused write has one request waiting. *)
OnePendingInTurn == met \/ OnePending

(* "A rejection by either ends it": a rejected request is not approved after all, the end *)
(* of a request is final, and no write takes an approval back.                            *)
DecisionsStandInTurn ==
  /\ [](met \/ RejectionEnds)
  /\ [][~met' => DecisionStays /\ ApprovalsGrow]_turnVars
=============================================================================
