----------------------------- MODULE Executions -----------------------------
(***************************************************************************)
(* Statements a program asks to run (executions/store.ts): submitted,      *)
(* reviewed (Approvals), handed to the queue (OneShotQueue), run by a      *)
(* worker as the token that asked, the outcome put on the record, and      *)
(* marked lost when the worker died.  The studio's call, the worker's      *)
(* handler and the lost handler each put back the whole record as they     *)
(* read it; each is cut at its awaits.                                     *)
(***************************************************************************)
EXTENDS Naturals, FiniteSets

CONSTANTS
  Requests,      \* executions asked for, by one service token
  Needed,        \* reviewers each needs
  Waivable,      \* the requests the policy may allow as they are
  Length,        \* statements of each request's script
  Writes,        \* the requests with a statement that writes
  Reviewers,
  Calls,         \* studio calls in flight at the same time
  Jobs,
  Breaks,        \* what may fail: a "call", a "worker" (dies), a "handler" (its store call)
  NULL

ASSUME ExecutionsAssumption ==
  /\ Needed \in [Requests -> 0..2] /\ IsFiniteSet(Reviewers)
  /\ Length \in [Requests -> Nat \ {0}] /\ Writes \subseteq Requests
  /\ Waivable \subseteq Requests /\ Breaks \subseteq {"call", "worker", "handler"}

VARIABLES
  record, call, overdue, lapsed, approvers, rejected,  \* Approvals
  phase, inFlight, told,                               \* OneShotQueue
  hand,      \* what a studio call does after the decision: settleDecision, enqueueExecution
  payload,   \* the request a job names
  handler,   \* runExecutionJob of each job
  lost,      \* markExecutionLost of each job
  effects,   \* statements of a job's run that took effect on the database
  announced, \* what the asking thread was told of a request
  token,     \* TRUE until the service token is revoked
  frozen,    \* a freeze window is open, as the process that checks reads it
  waived,    \* the requests this behaviour's policy allows as they are
  barred,    \* history: the jobs not yet taken when the token was revoked
  shut,      \* history: the jobs taken in a freeze window that is still open
  hasty,     \* history: the jobs taken before their record named them, or told lost while they ran
  broken     \* history: the requests a call or a handler left behind when it broke

approvalVars == <<record, call, overdue, lapsed, approvers, rejected>>
queueVars == <<phase, inFlight, told>>
workVars == <<handler, lost, effects>>
worldVars == <<token, frozen, waived, barred, shut, hasty, broken>>
vars == <<approvalVars, queueVars, workVars, worldVars, hand, payload, announced>>

-----------------------------------------------------------------------------
Outcomes == {"done", "failed", "lost", "token_revoked", "freeze_window"}
ASSUME NullAssumption == NULL \notin Outcomes \cup Requests

(* The part of the record this component keeps: jobId and execution. *)
Work == [job: Jobs \cup {NULL}, outcome: Outcomes \cup {NULL}, count: Nat]
NoWork == [job |-> NULL, outcome |-> NULL, count |-> 0]

Approval == INSTANCE Approvals WITH Executions <- Requests, Requester <- [r \in Requests |-> NULL],
                                    Carried <- Work, Nothing <- NoWork
Queue == INSTANCE OneShotQueue

Outcome(r) == record[r].carried.outcome
NoRecord == Approval!NewRecord("none")

Hand == [phase: {"idle", "settling", "failing", "handing", "recording"},
         request: Requests \cup {NULL}, seen: Approval!Record, job: Jobs \cup {NULL}]
Handler == [phase: {"none", "called", "read", "admitted", "running", "ending", "ended", "died", "over"},
            seen: Approval!Record, outcome: Outcomes \cup {NULL}, count: Nat]
Lost == [phase: {"none", "read", "over"}, seen: Approval!Record]

IdleHand == [phase |-> "idle", request |-> NULL, seen |-> NoRecord, job |-> NULL]
NoHandler == [phase |-> "none", seen |-> NoRecord, outcome |-> NULL, count |-> 0]

TypeOK ==
  /\ Approval!TypeOK
  /\ hand \in [Calls -> Hand]
  /\ payload \in [Jobs -> Requests \cup {NULL}]
  /\ handler \in [Jobs -> Handler]
  /\ \A j \in Jobs : handler[j].seen # NoRecord =>
       handler[j].phase \in {"read", "admitted", "running", "ending"} /\ handler[j].seen.carried.outcome = NULL
  /\ lost \in [Jobs -> Lost]
  /\ effects \in [Jobs -> Nat]
  /\ announced \in [Requests -> SUBSET (Outcomes \cup {"rejected"})]
  /\ token \in BOOLEAN /\ frozen \in BOOLEAN
  /\ waived \subseteq Waivable /\ broken \subseteq Requests
  /\ barred \subseteq Jobs /\ shut \subseteq Jobs /\ hasty \subseteq Jobs
  /\ \A j \in Jobs : phase[j] = "none" <=> payload[j] = NULL

Init ==
  /\ Approval!Init
  /\ Queue!Init
  /\ hand = [c \in Calls |-> IdleHand]
  /\ payload = [j \in Jobs |-> NULL]
  /\ handler = [j \in Jobs |-> NoHandler]
  /\ lost = [j \in Jobs |-> [phase |-> "none", seen |-> NoRecord]]
  /\ effects = [j \in Jobs |-> 0]
  /\ announced = [r \in Requests |-> {}]
  /\ token = TRUE /\ frozen = FALSE
  /\ waived \in SUBSET Waivable
  /\ barred = {} /\ shut = {} /\ hasty = {} /\ broken = {}

Free(c) == call[c].phase = "idle" /\ hand[c].phase = "idle"
Announce(r, what) == announced' = [announced EXCEPT ![r] = @ \cup {what}]

(* A record put with an outcome, over whatever it is by now. *)
PutOutcome(r, seen, outcome, count) ==
  /\ record' = [record EXCEPT ![r] = [seen EXCEPT !.carried.outcome = outcome, !.carried.count = count]]
  /\ Announce(r, outcome)
  /\ UNCHANGED <<call, overdue, lapsed, approvers, rejected>>

-----------------------------------------------------------------------------
(* submitExecution: judged against the token and the freeze windows, then stored. *)

Accepted(r) == record[r].status = "none" /\ token /\ (r \in Writes => ~frozen)

SubmitForReview(r) ==
  /\ Accepted(r) /\ r \notin waived
  /\ Approval!Put(r, Approval!NewRecord("pending"))
  /\ UNCHANGED <<call, overdue, lapsed, approvers, rejected>>
  /\ UNCHANGED <<queueVars, workVars, worldVars, hand, payload, announced>>

SubmitAllowed(c, r) ==
  /\ Free(c)
  /\ Accepted(r) /\ r \in waived
  /\ Approval!Put(r, Approval!NewRecord("approved"))
  /\ hand' = [hand EXCEPT ![c] = [IdleHand EXCEPT !.phase = "handing", !.request = r,
                                                  !.seen = Approval!NewRecord("approved")]]
  /\ UNCHANGED <<call, overdue, lapsed, approvers, rejected>>
  /\ UNCHANGED <<queueVars, workVars, worldVars, payload, announced>>

-----------------------------------------------------------------------------
(* A reviewer's call: decideApproval, then settleDecision, then enqueueExecution. *)

Reading(c, r) ==
  /\ Free(c)
  /\ \/ Approval!Read(c, r)
     \/ \E who \in Reviewers, verdict \in {"approve", "reject"} : Approval!DecideRead(c, r, who, verdict)
  /\ UNCHANGED <<queueVars, workVars, worldVars, hand, payload, announced>>

Expiring(c) ==
  /\ Approval!Expire(c)
  /\ UNCHANGED <<queueVars, workVars, worldVars, hand, payload, announced>>

(* A slip: the first of two approvals goes to the queue. *)
GoesOnWhilePending(status) == status \in {"approved", "pending"}
GoesOn(status) == status = "approved"

Decide(c) ==
  LET r == call[c].request
      decided == Approval!Decided(call[c])
  IN /\ Approval!DecidePut(c)
     /\ IF GoesOn(decided.status)
        THEN hand' = [hand EXCEPT ![c] = [IdleHand EXCEPT !.phase = "settling", !.request = r, !.seen = decided]]
        ELSE UNCHANGED hand
     /\ IF decided.status = "rejected" THEN Announce(r, "rejected") ELSE UNCHANGED announced
     /\ UNCHANGED <<queueVars, workVars, worldVars, payload>>

SettleToken(c) ==
  /\ hand[c].phase = "settling"
  /\ hand' = [hand EXCEPT ![c].phase = IF token THEN "handing" ELSE "failing"]
  /\ UNCHANGED <<approvalVars, queueVars, workVars, worldVars, payload, announced>>

FailWithout(c) ==
  /\ hand[c].phase = "failing"
  /\ PutOutcome(hand[c].request, hand[c].seen, "token_revoked", 0)
  /\ hand' = [hand EXCEPT ![c] = IdleHand]
  /\ UNCHANGED <<queueVars, workVars, worldVars, payload>>

HandOver(c, j) ==
  /\ hand[c].phase = "handing"
  /\ Queue!Submit(j)
  /\ payload' = [payload EXCEPT ![j] = hand[c].request]
  /\ hand' = [hand EXCEPT ![c].phase = "recording", ![c].job = j]
  /\ UNCHANGED <<approvalVars, workVars, worldVars, announced>>

(* The record is put with its jobId as it was before the job existed. *)
RecordJob(c) ==
  /\ hand[c].phase = "recording"
  /\ Approval!Put(hand[c].request, [hand[c].seen EXCEPT !.carried.job = hand[c].job])
  /\ hand' = [hand EXCEPT ![c] = IdleHand]
  /\ UNCHANGED <<call, overdue, lapsed, approvers, rejected>>
  /\ UNCHANGED <<queueVars, workVars, worldVars, payload, announced>>

(* The call's process dies or the store refuses it, at any of its awaits. *)
CallBreaks(c) ==
  /\ "call" \in Breaks
  /\ ~Free(c)
  /\ broken' = IF hand[c].phase = "idle" THEN broken ELSE broken \cup {hand[c].request}
  /\ call' = [call EXCEPT ![c] = Approval!IdleCall]
  /\ hand' = [hand EXCEPT ![c] = IdleHand]
  /\ UNCHANGED <<record, overdue, lapsed, approvers, rejected>>
  /\ UNCHANGED <<queueVars, workVars, token, frozen, waived, barred, shut, hasty, payload, announced>>

-----------------------------------------------------------------------------
(* The worker: runExecutionJob and runExecution. *)

HandlerIn(j, p) == handler[j].phase = p
Ending(j, outcome, count) ==
  handler' = [handler EXCEPT ![j].phase = "ending", ![j].outcome = outcome, ![j].count = count]
Leaves(j, p) == handler' = [handler EXCEPT ![j] = [NoHandler EXCEPT !.phase = p]]

Take(j) ==
  /\ Queue!Take(j)
  /\ handler' = [handler EXCEPT ![j].phase = "called"]
  /\ shut' = IF frozen THEN shut \cup {j} ELSE shut
  /\ hasty' = IF \E c \in Calls : hand[c].phase = "recording" /\ hand[c].job = j THEN hasty \cup {j} ELSE hasty
  /\ UNCHANGED <<approvalVars, lost, effects, token, frozen, waived, barred, broken, hand, payload, announced>>

(* Slips: a request that already ran is run again; one with no reviewer is left alone. *)
RunsAgain(r) == TRUE
RunsReviewedOnly(r) == Outcome(r) = NULL /\ record[r].reviewer # NULL
StillToRun(r) == Outcome(r) = NULL

(* An overdue pending request is settled by its reader first: an Expiring step. *)
HandlerReads(j) ==
  /\ HandlerIn(j, "called")
  /\ ~Approval!Expired(payload[j])
  /\ IF StillToRun(payload[j])
     THEN handler' = [handler EXCEPT ![j].phase = "read", ![j].seen = record[payload[j]]]
     ELSE Leaves(j, "ended")
  /\ UNCHANGED <<approvalVars, queueVars, lost, effects, worldVars, hand, payload, announced>>

(* A slip: the token is taken as it was when the request was made. *)
IdentityAsAsked == TRUE
Identity == token

HandlerIdentifies(j) ==
  /\ HandlerIn(j, "read")
  /\ IF Identity THEN handler' = [handler EXCEPT ![j].phase = "admitted"] ELSE Ending(j, "token_revoked", 0)
  /\ UNCHANGED <<approvalVars, queueVars, lost, effects, worldVars, hand, payload, announced>>

(* A slip: an approved request runs in a freeze window. *)
HoldsUnapproved(r) == frozen /\ r \in Writes /\ record[r].status # "approved"
Holds(r) == frozen /\ r \in Writes

(* The freeze window, then the datasource, its provider and its object rules, any of which may refuse. *)
HandlerAdmits(j) ==
  /\ HandlerIn(j, "admitted")
  /\ \/ Holds(payload[j]) /\ Ending(j, "freeze_window", 0)
     \/ Ending(j, "failed", 0)
     \/ ~Holds(payload[j]) /\ handler' = [handler EXCEPT ![j].phase = "running"]
  /\ UNCHANGED <<approvalVars, queueVars, lost, effects, worldVars, hand, payload, announced>>

(* A slip: the script goes on after a statement that failed. *)
AfterFailureGoesOn(j) ==
  IF handler[j].count + 1 < Length[payload[j]] THEN handler' = [handler EXCEPT ![j].count = @ + 1]
  ELSE Ending(j, "done", handler[j].count + 1)
AfterFailure(j) == Ending(j, "failed", handler[j].count)

(* One statement: it succeeds, fails, or fails once it took effect (its answer lost, its masking refused). *)
HandlerStatement(j) ==
  LET done == handler[j].count + 1
  IN /\ HandlerIn(j, "running")
     /\ \/ /\ effects' = [effects EXCEPT ![j] = @ + 1]
           /\ IF done < Length[payload[j]] THEN handler' = [handler EXCEPT ![j].count = done]
              ELSE Ending(j, "done", done)
        \/ /\ \E took \in {0, 1} : effects' = [effects EXCEPT ![j] = @ + took]
           /\ AfterFailure(j)
     /\ UNCHANGED <<approvalVars, queueVars, lost, worldVars, hand, payload, announced>>

HandlerPuts(j) ==
  /\ HandlerIn(j, "ending")
  /\ PutOutcome(payload[j], handler[j].seen, handler[j].outcome, handler[j].count)
  /\ Leaves(j, "ended")
  /\ UNCHANGED <<queueVars, lost, effects, worldVars, hand, payload>>

HandlerReturns(j) ==
  /\ HandlerIn(j, "ended")
  /\ Queue!Release({j})
  /\ Leaves(j, "over")
  /\ UNCHANGED <<approvalVars, lost, effects, worldVars, hand, payload, announced>>

(* The store refuses the handler's call: the job is failed, and only a lost job is told. *)
HandlerBreaks(j) ==
  /\ "handler" \in Breaks
  /\ \E p \in {"called", "read", "ending"} : HandlerIn(j, p)
  /\ Queue!Release({j})
  /\ Leaves(j, "over")
  /\ broken' = broken \cup {payload[j]}
  /\ UNCHANGED <<approvalVars, lost, effects, token, frozen, waived, barred, shut, hasty, hand, payload, announced>>

WorkerDies(j) ==
  /\ "worker" \in Breaks
  /\ Queue!Release({j})
  /\ Leaves(j, "died")
  /\ UNCHANGED <<approvalVars, lost, effects, worldVars, hand, payload, announced>>

(* markExecutionLost: a lapsed lease says the worker died; it may only be late. *)
LostReads(j) ==
  /\ j \in inFlight \/ HandlerIn(j, "died")
  /\ lost[j].phase = "none" /\ ~Approval!Expired(payload[j])
  /\ Queue!Tell(j)
  /\ lost' = [lost EXCEPT ![j] = IF StillToRun(payload[j])
                THEN [phase |-> "read", seen |-> record[payload[j]]] ELSE [@ EXCEPT !.phase = "over"]]
  /\ hasty' = IF HandlerIn(j, "died") THEN hasty ELSE hasty \cup {j}
  /\ UNCHANGED <<approvalVars, handler, effects, token, frozen, waived, barred, shut, broken, hand, payload, announced>>

LostPuts(j) ==
  /\ lost[j].phase = "read"
  /\ PutOutcome(payload[j], lost[j].seen, "lost", 0)
  /\ lost' = [lost EXCEPT ![j] = [phase |-> "over", seen |-> NoRecord]]
  /\ UNCHANGED <<queueVars, handler, effects, worldVars, hand, payload>>

-----------------------------------------------------------------------------
(* Administrators and time. *)

Revoke ==
  /\ token
  /\ token' = FALSE
  /\ barred' = {j \in Jobs : phase[j] # "taken"}
  /\ UNCHANGED <<approvalVars, queueVars, workVars, frozen, waived, shut, hasty, broken, hand, payload, announced>>

(* Where no request writes, freeze windows change nothing and none is opened. *)
Freeze ==
  /\ ~frozen /\ Writes # {}
  /\ frozen' = TRUE
  /\ UNCHANGED <<approvalVars, queueVars, workVars, token, waived, barred, shut, hasty, broken, hand, payload, announced>>

Thaw ==
  /\ frozen
  /\ frozen' = FALSE /\ shut' = {}
  /\ UNCHANGED <<approvalVars, queueVars, workVars, token, waived, barred, hasty, broken, hand, payload, announced>>

PassTtl(r) ==
  /\ Approval!PassTtl(r)
  /\ UNCHANGED <<queueVars, workVars, worldVars, hand, payload, announced>>

HandStep(c) ==
  \/ Expiring(c) \/ Decide(c) \/ SettleToken(c) \/ FailWithout(c) \/ RecordJob(c)
  \/ \E j \in Jobs : HandOver(c, j)

WorkStep(j) ==
  \/ HandlerReads(j) \/ HandlerIdentifies(j) \/ HandlerAdmits(j) \/ HandlerStatement(j)
  \/ HandlerPuts(j) \/ HandlerReturns(j)

LostStep(j) == LostReads(j) \/ LostPuts(j)

Next ==
  \/ \E r \in Requests : SubmitForReview(r) \/ PassTtl(r) \/ \E c \in Calls : SubmitAllowed(c, r) \/ Reading(c, r)
  \/ \E c \in Calls : HandStep(c) \/ CallBreaks(c)
  \/ \E j \in Jobs : Take(j) \/ WorkStep(j) \/ LostStep(j) \/ HandlerBreaks(j) \/ WorkerDies(j)
  \/ Revoke \/ Freeze \/ Thaw

Spec == Init /\ [][Next]_vars

(* Calls go on, some worker polls (OneShotQueue), handlers end, a dead worker's job is told of. *)
FairSpec ==
  /\ Spec
  /\ \A c \in Calls : WF_vars(HandStep(c))
  /\ \A j \in Jobs : WF_vars(Take(j)) /\ WF_vars(WorkStep(j)) /\ WF_vars(LostStep(j))

-----------------------------------------------------------------------------
JobsOf(r) == {j \in Jobs : payload[j] = r}
Ran(j) == effects[j] > 0

(* No statement touches the database before as many distinct reviewers as    *)
(* its request needs approved it, however the calls overlapped.              *)
RunsReviewed ==
  \A j \in Jobs : Ran(j) /\ payload[j] \notin waived => Cardinality(approvers[payload[j]]) >= Needed[payload[j]]

(* A token revoked before a worker took the job runs nothing. *)
RevokedRunsNothing == \A j \in barred : ~Ran(j)

(* A job taken inside a freeze window writes nothing while the window lasts. *)
FrozenRunsNothing == \A j \in shut : payload[j] \in Writes => ~Ran(j)

(* "Approving it runs the stored statement once": one job of a request at most touches the database. *)
RunsOnce == \A r \in Requests : Cardinality({j \in JobsOf(r) : Ran(j)}) <= 1

(* No job of the request was taken before its record named it, or told lost while it ran: *)
(* nobody put the record from a copy older than its outcome.                              *)
Undisturbed(r) == JobsOf(r) \cap hasty = {}

(* An outcome, once on such a record, stays there. *)
OutcomeStays ==
  [][\A r \in Requests : Outcome(r) # NULL /\ Undisturbed(r)' => record'[r].carried.outcome = Outcome(r)]_vars

(* The outcome stored there is what happened: a done script took effect whole, a      *)
(* failed one up to its executedCount or one statement past it, a refused one not at all. *)
OutcomeTrue ==
  \A r \in {r \in Requests : Undisturbed(r)} :
    /\ Outcome(r) = "done" => \E j \in JobsOf(r) : effects[j] = Length[r]
    /\ Outcome(r) = "failed" =>
         \E j \in JobsOf(r) : effects[j] \in {record[r].carried.count, record[r].carried.count + 1}
    /\ Outcome(r) \in {"token_revoked", "freeze_window"} => \A j \in JobsOf(r) : ~Ran(j)

(* The thread is told what that record says, and nothing else. *)
ToldAsRecorded ==
  \A r \in {r \in Requests : Undisturbed(r)} :
    announced[r] \subseteq IF record[r].status = "rejected" THEN {"rejected"} ELSE {Outcome(r)}

(* What the record and the thread say of an execution is what happened to it. *)
OutcomeTold == OutcomeTrue /\ ToldAsRecorded

(* An approved execution gets an outcome though its worker dies, unless the call that *)
(* hands it over or the handler's own store call broke.                               *)
Answered ==
  \A r \in Requests :
    record[r].status = "approved" ~> (Outcome(r) # NULL \/ r \in broken \/ ~Undisturbed(r))
=============================================================================
