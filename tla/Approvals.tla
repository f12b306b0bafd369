------------------------------ MODULE Approvals ------------------------------
(***************************************************************************)
(* Approval requests (approvals/store.ts): a person refused a write asks   *)
(* for a window, a program's statement waits for a decision, reviewers     *)
(* decide, and whoever reads an overdue request expires it.  A request is  *)
(* one record, read whole and written whole: every call reads it, awaits,  *)
(* and puts back a copy of what it read.  A call is cut at every await.    *)
(***************************************************************************)
EXTENDS Naturals, FiniteSets

CONSTANTS
  Requests,   \* request identifiers (randomUUID: never minted twice)
  Executions, \* the requests of kind `execution`; the others ask for a window
  Needed,     \* distinct reviewers a request needs; 0: allowed by policy as it is
  Requester,  \* who asked; NULL for a program, which reviews nothing
  Reviewers,  \* who may review these requests (canReview), requesters included
  Calls,      \* server calls that can be in flight at the same time
  Carried,    \* what other parts keep on a record: carried along, never read here
  Nothing,    \* what a new record carries
  NULL

ASSUME ApprovalsAssumption ==
  /\ Executions \subseteq Requests
  /\ Needed \in [Requests -> 0..2] /\ \A r \in Requests \ Executions : Needed[r] > 0
  /\ Requester \in [Requests -> Reviewers \cup {NULL}]
  /\ IsFiniteSet(Reviewers) /\ NULL \notin Reviewers
  /\ Nothing \in Carried

VARIABLES
  record,    \* the table approval_requests
  call,      \* the calls in flight
  overdue,   \* the requests older than APPROVAL_TTL_HOURS
  lapsed,    \* the windows past their windowUntil
  approvers, \* history: who approved a request, and saw the approval stored
  rejected   \* history: the requests somebody rejected, and saw it stored

approvalVars == <<record, call, overdue, lapsed, approvers, rejected>>

-----------------------------------------------------------------------------
Statuses == {"none", "pending", "approved", "rejected", "expired"}

Record == [status: Statuses, reviewer: Reviewers \cup {NULL}, approvals: SUBSET Reviewers,
           window: BOOLEAN, carried: Carried]

(* A call holds the record it read (`seen`) until it puts a copy of it. *)
Call == [phase: {"idle", "expiring", "gated", "asking", "deciding"},
         request: Requests \cup {NULL}, who: Reviewers \cup {NULL},
         verdict: {"approve", "reject"}, seen: Record]

NewRecord(status) ==
  [status |-> status, reviewer |-> NULL, approvals |-> {}, window |-> FALSE, carried |-> Nothing]
IdleCall ==
  [phase |-> "idle", request |-> NULL, who |-> NULL, verdict |-> "reject", seen |-> NewRecord("none")]

TypeOK ==
  /\ record \in [Requests -> Record]
  /\ \A r \in Requests : /\ record[r].window => record[r].status = "approved" /\ r \notin Executions
                         /\ record[r].approvals # {} => Needed[r] = 2
  /\ call \in [Calls -> Call]
  /\ \A c \in Calls : call[c].phase \in {"expiring", "deciding"} => call[c].request \in Requests
  /\ \A c \in Calls : call[c].phase = "deciding" => call[c].who \in Reviewers
  /\ overdue \subseteq Requests /\ lapsed \subseteq Requests /\ rejected \subseteq Requests
  /\ approvers \in [Requests -> SUBSET Reviewers]

Init ==
  /\ record = [r \in Requests |-> NewRecord("none")]
  /\ call = [c \in Calls |-> IdleCall]
  /\ overdue = {} /\ lapsed = {} /\ rejected = {}
  /\ approvers = [r \in Requests |-> {}]

Idle(c) == call[c].phase = "idle"
Put(r, rec) == record' = [record EXCEPT ![r] = rec]
Ends(c) == call' = [call EXCEPT ![c] = IdleCall]

-----------------------------------------------------------------------------
(* Expiry: whoever reads a request settles it, in a write of its own. *)

(* A slip: the instant alone decides, whatever was decided meanwhile. *)
ExpiredWhateverStatus(r) == r \in overdue /\ record[r].status # "none"

Expired(r) == r \in overdue /\ record[r].status = "pending"

(* getApproval, listForReviewer, listMine, waitForExecution: only an overdue request is written. *)
Read(c, r) ==
  /\ Idle(c)
  /\ Expired(r)
  /\ call' = [call EXCEPT ![c] = [IdleCall EXCEPT !.phase = "expiring", !.request = r, !.seen = record[r]]]
  /\ UNCHANGED <<record, overdue, lapsed, approvers, rejected>>

(* The write of settleExpiry.  A call that came to ask goes on to ask. *)
Expire(c) ==
  /\ call[c].phase = "expiring"
  /\ Put(call[c].request, [call[c].seen EXCEPT !.status = "expired"])
  /\ call' = [call EXCEPT ![c] =
       IF call[c].who = NULL THEN IdleCall ELSE [IdleCall EXCEPT !.phase = "asking", !.who = call[c].who]]
  /\ UNCHANGED <<overdue, lapsed, approvers, rejected>>

-----------------------------------------------------------------------------
(* The write gate: an open window lets the person write, else the write becomes a request. *)

Of(p) == {r \in Requests \ Executions : Requester[r] = p}

IsWindowOpen(r) == record[r].status = "approved" /\ record[r].window /\ r \notin lapsed

(* findOpenWindow found none. *)
GateRefuses(c, p) ==
  /\ Idle(c)
  /\ \A r \in Of(p) : ~IsWindowOpen(r)
  /\ call' = [call EXCEPT ![c] = [IdleCall EXCEPT !.phase = "gated", !.who = p]]
  /\ UNCHANGED <<record, overdue, lapsed, approvers, rejected>>

(* A slip: the requests waiting for a second reviewer are not seen as pending. *)
PendingUntouched(p) == {r \in Of(p) : record[r].status = "pending" /\ record[r].approvals = {}}

PendingOf(p) == {r \in Of(p) : record[r].status = "pending"}

(* requestApproval reads the person's pending request.  Of two, which is newer is left open. *)
FindPending(c) ==
  /\ call[c].phase = "gated"
  /\ \/ /\ PendingOf(call[c].who) = {}
        /\ call' = [call EXCEPT ![c].phase = "asking"]
     \/ \E r \in PendingOf(call[c].who) :
          \/ ~Expired(r) /\ Ends(c)
          \/ /\ Expired(r)
             /\ call' = [call EXCEPT ![c].phase = "expiring", ![c].request = r, ![c].seen = record[r]]
  /\ UNCHANGED <<record, overdue, lapsed, approvers, rejected>>

Ask(c, r) ==
  /\ call[c].phase = "asking"
  /\ r \in Of(call[c].who) /\ record[r].status = "none"
  /\ Put(r, NewRecord("pending"))
  /\ Ends(c)
  /\ UNCHANGED <<overdue, lapsed, approvers, rejected>>

-----------------------------------------------------------------------------
(* decideApproval. *)

(* Slips: a requester reviews their own request; a decided one is decided again. *)
MayDecideOwn(r, who, verdict) ==
  /\ record[r].status = "pending"
  /\ r \notin overdue
  /\ verdict = "approve" /\ Needed[r] > 1 => who \notin record[r].approvals
MayDecideAgain(r, who, verdict) ==
  /\ record[r].status \in {"pending", "approved", "rejected"}
  /\ r \notin overdue
  /\ who # Requester[r]
  /\ verdict = "approve" /\ Needed[r] > 1 => who \notin record[r].approvals

MayDecide(r, who, verdict) ==
  /\ record[r].status = "pending"
  /\ r \notin overdue
  /\ who # Requester[r]
  /\ verdict = "approve" /\ Needed[r] > 1 => who \notin record[r].approvals

(* Everything read and checked; what is left is the write.  An overdue request is a Read. *)
DecideRead(c, r, who, verdict) ==
  /\ Idle(c)
  /\ MayDecide(r, who, verdict)
  /\ call' = [call EXCEPT ![c] = [phase |-> "deciding", request |-> r, who |-> who,
                                  verdict |-> verdict, seen |-> record[r]]]
  /\ UNCHANGED <<record, overdue, lapsed, approvers, rejected>>

(* A slip: the second approval replaces the first. *)
ApprovalsReplaced(d) ==
  IF d.verdict = "approve" /\ Needed[d.request] > 1 THEN {d.who} ELSE d.seen.approvals

(* The approvals the copy carries: only a request for two reviewers lists them. *)
Approvals(d) ==
  IF d.verdict = "approve" /\ Needed[d.request] > 1 THEN d.seen.approvals \cup {d.who} ELSE d.seen.approvals

StillWaiting(d) ==
  d.verdict = "approve" /\ Needed[d.request] > 1 /\ Cardinality(Approvals(d)) < Needed[d.request]

(* An approval opens a window, but not an execution's: that one runs instead. *)
Window(d) == d.verdict = "approve" /\ d.request \notin Executions

(* The copy that is put: waiting for a second reviewer, or decided. *)
Decided(d) ==
  IF StillWaiting(d) THEN [d.seen EXCEPT !.approvals = Approvals(d)]
  ELSE [d.seen EXCEPT !.status = IF d.verdict = "approve" THEN "approved" ELSE "rejected",
                      !.reviewer = d.who, !.approvals = Approvals(d),
                      !.window = Window(d)]

DecidePut(c) ==
  LET d == call[c]
  IN /\ d.phase = "deciding"
     /\ Put(d.request, Decided(d))
     /\ Ends(c)
     /\ lapsed' = lapsed \ {d.request}
     /\ approvers' = IF d.verdict = "approve"
                     THEN [approvers EXCEPT ![d.request] = @ \cup {d.who}] ELSE approvers
     /\ rejected' = IF d.verdict = "reject" THEN rejected \cup {d.request} ELSE rejected
     /\ UNCHANGED overdue

-----------------------------------------------------------------------------
(* The call's process dies, or the store refuses the call: it ends without its write. *)
Interrupted(c) ==
  /\ ~Idle(c)
  /\ Ends(c)
  /\ UNCHANGED <<record, overdue, lapsed, approvers, rejected>>

(* Time passes the request's TTL, or the end of its window. *)
PassTtl(r) ==
  /\ record[r].status # "none" /\ r \notin overdue
  /\ overdue' = overdue \cup {r}
  /\ UNCHANGED <<record, call, lapsed, approvers, rejected>>

PassWindow(r) ==
  /\ IsWindowOpen(r)
  /\ lapsed' = lapsed \cup {r}
  /\ UNCHANGED <<record, call, overdue, approvers, rejected>>

Next ==
  \/ \E c \in Calls :
       \/ \E r \in Requests : Read(c, r) \/ Ask(c, r)
       \/ \E p \in Reviewers : GateRefuses(c, p)
       \/ \E r \in Requests, who \in Reviewers, verdict \in {"approve", "reject"} :
            DecideRead(c, r, who, verdict)
       \/ Expire(c) \/ FindPending(c) \/ DecidePut(c) \/ Interrupted(c)
  \/ \E r \in Requests : PassTtl(r) \/ PassWindow(r)

Spec == Init /\ [][Next]_approvalVars

-----------------------------------------------------------------------------
(* Four eyes and two reviewers: an approved request has as many distinct    *)
(* approvers as it needs and its requester is none of them, however the    *)
(* calls that read and wrote it overlapped.                                *)
Reviewed == \A r \in Requests : record[r].status = "approved" =>
  /\ Cardinality(approvers[r]) >= Needed[r]
  /\ Requester[r] \notin approvers[r]

(* The end of a request is final: approved, rejected or expired, it stays so. *)
DecisionStays ==
  \A r \in Requests : record[r].status \in {"approved", "rejected", "expired"} => record'[r].status = record[r].status

(* "The first approval is kept on the record": no write takes an approval back. *)
ApprovalsGrow == \A r \in Requests : record[r].approvals \subseteq record'[r].approvals

(* "One per pair": a person who retries a refused write has one request waiting. *)
OnePending ==
  \A p \in Reviewers :
    Cardinality({r \in Of(p) : record[r].status = "pending" /\ r \notin overdue}) <= 1

(* "A rejection by either ends it": a rejected request is not approved after all. *)
RejectionEnds == \A r \in rejected : record[r].status # "approved"

(* "A pending one past its time is expired": nothing but a pending request expires. *)
OnlyPendingExpires ==
  [][\A r \in Requests : record'[r].status = "expired" /\ record[r].status # "expired"
       => record[r].status = "pending"]_approvalVars
=============================================================================
