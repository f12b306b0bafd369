--------------------------- MODULE ApprovalsProofs ---------------------------
(***************************************************************************)
(* Four eyes and distinct reviewers hold for any number of requests,       *)
(* reviewers and overlapping calls.  Reviewed is not inductive: a call      *)
(* puts back a copy it read earlier, so what makes a record sound has to    *)
(* hold of every copy a call still holds.  What calls that overlap may     *)
(* break is proved of the calls that come one after the other.             *)
(***************************************************************************)
EXTENDS ApprovalsInTurn, FiniteSetTheorems, TLAPS

(* A copy of request r, wherever it is kept, when `given` approved r so far: its    *)
(* approvals were all stored once, and an approved one has as many as it needs.     *)
Sound(r, rec, given) ==
  /\ rec.approvals \subseteq given
  /\ rec.approvals # {} => Needed[r] = 2
  /\ rec.window => rec.status = "approved" /\ r \notin Executions
  /\ rec.status = "approved" /\ Needed[r] = 1 => given # {}
  /\ rec.status = "approved" /\ Needed[r] = 2 => Cardinality(rec.approvals) >= 2

(* A copy a call will put back was pending when it was read. *)
HeldSound(d) ==
  d.phase \in {"expiring", "deciding"} =>
    d.seen.status = "pending" /\ Sound(d.request, d.seen, approvers[d.request])

(* The requester neither approved nor is about to decide. *)
FourEyes ==
  /\ \A r \in Requests : Requester[r] \notin approvers[r]
  /\ \A c \in Calls : call[c].phase = "deciding" => call[c].who # Requester[call[c].request]

IInv ==
  /\ TypeOK
  /\ FourEyes
  /\ \A r \in Requests : Sound(r, record[r], approvers[r])
  /\ \A c \in Calls : HeldSound(call[c])

-----------------------------------------------------------------------------
(* The records and calls a step makes are well formed. *)
LEMMA NewTypes ==
  /\ \A s \in Statuses : NewRecord(s) \in Record /\ NewRecord(s).status = s
                         /\ NewRecord(s).approvals = {} /\ NewRecord(s).window = FALSE
  /\ IdleCall \in Call /\ IdleCall.phase = "idle"
<1>1. \A s \in Statuses : NewRecord(s) \in Record /\ NewRecord(s).status = s
                          /\ NewRecord(s).approvals = {} /\ NewRecord(s).window = FALSE
  BY ApprovalsAssumption DEF NewRecord, Record
<1>2. QED
  BY <1>1 DEF IdleCall, Call, Statuses

(* More approvers never make a copy unsound. *)
LEMMA SoundGrows ==
  ASSUME NEW r, NEW rec, NEW S, NEW T, S \subseteq T, Sound(r, rec, S)
  PROVE  Sound(r, rec, T)
BY DEF Sound

(* A step that leaves the records, the approvers and the rejections alone, and *)
(* one call well formed, sound and by another's eyes.                          *)
LEMMA CallStep ==
  ASSUME IInv, NEW c \in Calls, NEW d \in Call,
         call' = [call EXCEPT ![c] = d],
         d.phase \in {"expiring", "deciding"} => d.request \in Requests,
         d.phase = "deciding" => d.who \in Reviewers /\ d.who # Requester[d.request],
         HeldSound(d),
         UNCHANGED <<record, overdue, lapsed, approvers, rejected>>
  PROVE  IInv'
<1>1. \A k \in Calls : call'[k] = IF k = c THEN d ELSE call[k]
  BY DEF IInv, TypeOK
<1>2. TypeOK'
  BY <1>1 DEF IInv, TypeOK
<1>3. FourEyes'
  BY <1>1 DEF IInv, FourEyes
<1>4. \A k \in Calls : HeldSound(call[k])'
  BY <1>1 DEF IInv, HeldSound
<1>5. QED
  BY <1>2, <1>3, <1>4 DEF IInv

(* A step that puts a sound copy of one request, ends or moves on one call, and *)
(* adds approvers that are not the requester.                                   *)
LEMMA PutStep ==
  ASSUME IInv, NEW c \in Calls, NEW r \in Requests, NEW rec \in Record, NEW d \in Call,
         Put(r, rec), call' = [call EXCEPT ![c] = d], d.phase \in {"idle", "asking"},
         NEW G \in SUBSET Reviewers, approvers[r] \subseteq G, Requester[r] \notin G,
         approvers' = [approvers EXCEPT ![r] = G],
         Sound(r, rec, G),
         overdue' \subseteq Requests, lapsed' \subseteq Requests, rejected' \subseteq Requests
  PROVE  IInv'
<1>1. \A k \in Requests : /\ record'[k] = IF k = r THEN rec ELSE record[k]
                          /\ approvers'[k] = IF k = r THEN G ELSE approvers[k]
  BY DEF IInv, TypeOK, Put
<1>2. \A k \in Calls : call'[k] = IF k = c THEN d ELSE call[k]
  BY DEF IInv, TypeOK
<1>3. record' \in [Requests -> Record] /\ approvers' \in [Requests -> SUBSET Reviewers]
  BY DEF IInv, TypeOK, Put
<1>4. \A k \in Requests : Sound(k, record'[k], approvers'[k])
  BY <1>1 DEF IInv
<1>5. TypeOK'
  <2>1. \A k \in Requests : /\ record'[k].window => record'[k].status = "approved" /\ k \notin Executions
                            /\ record'[k].approvals # {} => Needed[k] = 2
    BY <1>4 DEF Sound
  <2>2. QED
    BY <1>2, <1>3, <2>1 DEF IInv, TypeOK
<1>6. FourEyes'
  BY <1>1, <1>2 DEF IInv, FourEyes
<1>7. ASSUME NEW k \in Calls, call'[k].phase \in {"expiring", "deciding"}
      PROVE  /\ call'[k].seen.status = "pending"
             /\ Sound(call'[k].request, call'[k].seen, approvers'[call'[k].request])
  <2>1. k # c /\ call'[k] = call[k] /\ call[k].request \in Requests
    BY <1>2, <1>7 DEF IInv, TypeOK
  <2>2. /\ call[k].seen.status = "pending"
        /\ Sound(call[k].request, call[k].seen, approvers[call[k].request])
    BY <1>7, <2>1 DEF IInv, HeldSound
  <2>3. approvers[call[k].request] \subseteq approvers'[call[k].request]
    BY <1>1, <2>1
  <2>4. QED
    BY <2>1, <2>2, <2>3, SoundGrows
<1>8. QED
  BY <1>4, <1>5, <1>6, <1>7 DEF IInv, HeldSound

(* What a decision puts is a sound copy, approved by those who approved before and by the reviewer. *)
LEMMA DecidedSound ==
  ASSUME IInv, NEW c \in Calls, call[c].phase = "deciding",
         NEW G, approvers[call[c].request] \subseteq G,
         call[c].verdict = "approve" => call[c].who \in G
  PROVE  Decided(call[c]) \in Record /\ Sound(call[c].request, Decided(call[c]), G)
<1> DEFINE d == call[c]
<1>1. /\ d \in Call /\ d.request \in Requests /\ d.who \in Reviewers /\ Needed[d.request] \in 0..2
      /\ d.seen \in Record /\ d.verdict \in {"approve", "reject"}
  BY ApprovalsAssumption DEF IInv, TypeOK, Call
<1>2. d.seen.status = "pending" /\ Sound(d.request, d.seen, approvers[d.request])
  BY DEF IInv, HeldSound
<1>3. Window(d) \in BOOLEAN /\ (Window(d) => d.verdict = "approve" /\ d.request \notin Executions)
  BY DEF Window
<1>4. /\ Approvals(d) \in SUBSET Reviewers
      /\ Approvals(d) \subseteq G
      /\ Approvals(d) # {} => Needed[d.request] = 2
  BY <1>1, <1>2 DEF Approvals, Sound, Record
<1>5. Cardinality(Approvals(d)) \in Nat
  <2>1. IsFiniteSet(Approvals(d))
    BY <1>4, ApprovalsAssumption, FS_Subset
  <2>2. QED
    BY <2>1, FS_CardinalityType
<1>6. CASE StillWaiting(d)
  <2>1. Decided(d) = [d.seen EXCEPT !.approvals = Approvals(d)]
    BY <1>6 DEF Decided
  <2>2. QED
    BY <1>1, <1>2, <1>4, <2>1 DEF Sound, Record
<1>7. CASE ~StillWaiting(d)
  <2> DEFINE s == IF d.verdict = "approve" THEN "approved" ELSE "rejected"
  <2>1. Decided(d) = [d.seen EXCEPT !.status = s, !.reviewer = d.who,
                                    !.approvals = Approvals(d), !.window = Window(d)]
    BY <1>7 DEF Decided
  <2>2. Decided(d) \in Record
    BY <1>1, <1>3, <1>4, <2>1 DEF Record, Statuses
  <2>3. /\ Decided(d).status = s /\ Decided(d).approvals = Approvals(d) /\ Decided(d).window = Window(d)
    BY <1>1, <2>1 DEF Record
  <2>4. s = "approved" /\ Needed[d.request] = 2 => Cardinality(Approvals(d)) >= 2
    BY <1>5, <1>7 DEF StillWaiting
  <2>5. s = "approved" => G # {}
    OBVIOUS
  <2>6. QED
    BY <1>3, <1>4, <2>2, <2>3, <2>4, <2>5 DEF Sound
<1>8. QED
  BY <1>6, <1>7

LEMMA InvStep == IInv /\ [Next]_approvalVars => IInv'
<1> SUFFICES ASSUME IInv, [Next]_approvalVars PROVE IInv'
  OBVIOUS
<1> USE NewTypes
<1>1. ASSUME NEW c \in Calls, NEW r \in Requests, Read(c, r) PROVE IInv'
  <2> DEFINE d == [IdleCall EXCEPT !.phase = "expiring", !.request = r, !.seen = record[r]]
  <2>1. record[r] \in Record /\ record[r].status = "pending" /\ Sound(r, record[r], approvers[r])
    BY <1>1 DEF Read, Expired, IInv, TypeOK
  <2>2. d \in Call /\ d.phase = "expiring" /\ d.request = r /\ d.seen = record[r]
    BY <2>1 DEF Call
  <2>3. HeldSound(d)
    BY <2>1, <2>2 DEF HeldSound
  <2>4. call' = [call EXCEPT ![c] = d] /\ UNCHANGED <<record, overdue, lapsed, approvers, rejected>>
    BY <1>1 DEF Read
  <2> HIDE DEF d
  <2>5. QED
    BY <2>2, <2>3, <2>4, CallStep
<1>2. ASSUME NEW c \in Calls, Expire(c) PROVE IInv'
  <2> DEFINE r == call[c].request
             rec == [call[c].seen EXCEPT !.status = "expired"]
             d == IF call[c].who = NULL THEN IdleCall
                  ELSE [IdleCall EXCEPT !.phase = "asking", !.who = call[c].who]
             G == approvers[r]
  <2>1. call[c] \in Call /\ call[c].phase = "expiring" /\ r \in Requests
    BY <1>2 DEF Expire, IInv, TypeOK
  <2>2. call[c].seen \in Record /\ call[c].seen.status = "pending" /\ Sound(r, call[c].seen, approvers[r])
    BY <2>1 DEF IInv, HeldSound, Call
  <2>3. rec \in Record /\ Sound(r, rec, G)
    BY <2>2 DEF Record, Statuses, Sound
  <2>4. d \in Call /\ d.phase \in {"idle", "asking"}
    BY <2>1 DEF Call
  <2>5. /\ G \in SUBSET Reviewers /\ approvers[r] \subseteq G /\ Requester[r] \notin G
        /\ approvers' = [approvers EXCEPT ![r] = G]
    BY <1>2, <2>1 DEF Expire, IInv, TypeOK, FourEyes
  <2>6. Put(r, rec) /\ call' = [call EXCEPT ![c] = d]
    BY <1>2 DEF Expire
  <2>7. overdue' \subseteq Requests /\ lapsed' \subseteq Requests /\ rejected' \subseteq Requests
    BY <1>2 DEF Expire, IInv, TypeOK
  <2> HIDE DEF rec, d, G
  <2>8. QED
    BY <2>1, <2>3, <2>4, <2>5, <2>6, <2>7, PutStep
<1>3. ASSUME NEW c \in Calls, NEW p \in Reviewers, GateRefuses(c, p) PROVE IInv'
  <2> DEFINE d == [IdleCall EXCEPT !.phase = "gated", !.who = p]
  <2>1. d \in Call /\ d.phase = "gated"
    BY DEF Call
  <2>2. call' = [call EXCEPT ![c] = d] /\ UNCHANGED <<record, overdue, lapsed, approvers, rejected>>
    BY <1>3 DEF GateRefuses
  <2> HIDE DEF d
  <2>3. QED
    BY <2>1, <2>2, CallStep DEF HeldSound
<1>4. ASSUME NEW c \in Calls, FindPending(c) PROVE IInv'
  <2>1. call[c] \in Call /\ call[c].phase = "gated"
    BY <1>4 DEF FindPending, IInv, TypeOK
  <2>2. UNCHANGED <<record, overdue, lapsed, approvers, rejected>>
    BY <1>4 DEF FindPending
  <2>3. CASE Ends(c)
    BY <2>2, <2>3, CallStep DEF Ends, HeldSound
  <2>4. CASE call' = [call EXCEPT ![c].phase = "asking"]
    <3> DEFINE d == [call[c] EXCEPT !.phase = "asking"]
    <3>1. d \in Call /\ d.phase = "asking" /\ call' = [call EXCEPT ![c] = d]
      BY <2>1, <2>4 DEF Call
    <3> HIDE DEF d
    <3>2. QED
      BY <2>2, <3>1, CallStep DEF HeldSound
  <2>5. ASSUME NEW r \in PendingOf(call[c].who), Expired(r),
               call' = [call EXCEPT ![c].phase = "expiring", ![c].request = r, ![c].seen = record[r]]
        PROVE  IInv'
    <3> DEFINE d == [call[c] EXCEPT !.phase = "expiring", !.request = r, !.seen = record[r]]
    <3>1. /\ r \in Requests /\ record[r] \in Record /\ record[r].status = "pending"
          /\ Sound(r, record[r], approvers[r])
      BY <2>5 DEF PendingOf, Of, IInv, TypeOK
    <3>2. d \in Call /\ d.phase = "expiring" /\ d.request = r /\ d.seen = record[r]
      BY <2>1, <3>1 DEF Call
    <3>3. call' = [call EXCEPT ![c] = d]
      BY <2>1, <2>5 DEF IInv, TypeOK
    <3> HIDE DEF d
    <3>4. HeldSound(d)
      BY <3>1, <3>2 DEF HeldSound
    <3>5. QED
      BY <2>2, <3>1, <3>2, <3>3, <3>4, CallStep
  <2>6. QED
    BY <1>4, <2>3, <2>4, <2>5 DEF FindPending
<1>5. ASSUME NEW c \in Calls, NEW r \in Requests, Ask(c, r) PROVE IInv'
  <2>1. /\ NewRecord("pending") \in Record /\ NewRecord("pending").status = "pending"
        /\ NewRecord("pending").approvals = {} /\ NewRecord("pending").window = FALSE
    BY DEF Statuses
  <2>2. Sound(r, NewRecord("pending"), approvers[r])
    BY <2>1 DEF Sound
  <2>3. approvers[r] \in SUBSET Reviewers /\ approvers' = [approvers EXCEPT ![r] = approvers[r]]
    BY <1>5 DEF Ask, IInv, TypeOK
  <2>4. Requester[r] \notin approvers[r]
    BY DEF IInv, FourEyes
  <2>5. Put(r, NewRecord("pending")) /\ call' = [call EXCEPT ![c] = IdleCall]
    BY <1>5 DEF Ask, Ends
  <2>6. overdue' \subseteq Requests /\ lapsed' \subseteq Requests /\ rejected' \subseteq Requests
    BY <1>5 DEF Ask, IInv, TypeOK
  <2>7. QED
    BY <2>1, <2>2, <2>3, <2>4, <2>5, <2>6, PutStep
<1>6. ASSUME NEW c \in Calls, NEW r \in Requests, NEW who \in Reviewers,
             NEW verdict \in {"approve", "reject"}, DecideRead(c, r, who, verdict)
      PROVE  IInv'
  <2> DEFINE d == [phase |-> "deciding", request |-> r, who |-> who, verdict |-> verdict, seen |-> record[r]]
  <2>1. record[r] \in Record /\ record[r].status = "pending" /\ Sound(r, record[r], approvers[r])
    BY <1>6 DEF DecideRead, MayDecide, IInv, TypeOK
  <2>2. d \in Call /\ d.phase = "deciding" /\ d.request = r /\ d.who = who /\ d.seen = record[r]
    BY <2>1 DEF Call
  <2>3. who # Requester[r] /\ call' = [call EXCEPT ![c] = d]
        /\ UNCHANGED <<record, overdue, lapsed, approvers, rejected>>
    BY <1>6 DEF DecideRead, MayDecide
  <2> HIDE DEF d
  <2>4. HeldSound(d)
    BY <2>1, <2>2 DEF HeldSound
  <2>5. QED
    BY <2>2, <2>3, <2>4, CallStep
<1>7. ASSUME NEW c \in Calls, DecidePut(c) PROVE IInv'
  <2> DEFINE d == call[c]
             r == d.request
             G == IF d.verdict = "approve" THEN approvers[r] \cup {d.who} ELSE approvers[r]
  <2>1. d \in Call /\ d.phase = "deciding" /\ r \in Requests /\ d.who \in Reviewers
    BY <1>7 DEF DecidePut, IInv, TypeOK
  <2>2. d.who # Requester[r] /\ Requester[r] \notin approvers[r]
    BY <2>1 DEF IInv, FourEyes
  <2>3. approvers[r] \in SUBSET Reviewers
    BY <2>1 DEF IInv, TypeOK
  <2>4. G \in SUBSET Reviewers /\ approvers[r] \subseteq G /\ Requester[r] \notin G
    BY <2>1, <2>2, <2>3
  <2>5. approvers' = [approvers EXCEPT ![r] = G]
    BY <1>7, <2>1 DEF DecidePut, IInv, TypeOK
  <2>6. Decided(d) \in Record /\ Sound(r, Decided(d), G)
    BY <2>1, <2>4, DecidedSound
  <2>7. Put(r, Decided(d)) /\ call' = [call EXCEPT ![c] = IdleCall]
    BY <1>7 DEF DecidePut, Ends
  <2>8. overdue' \subseteq Requests /\ lapsed' \subseteq Requests /\ rejected' \subseteq Requests
    BY <1>7, <2>1 DEF DecidePut, IInv, TypeOK
  <2> HIDE DEF G
  <2>9. QED
    BY <2>1, <2>4, <2>5, <2>6, <2>7, <2>8, PutStep
<1>8. ASSUME NEW c \in Calls, Interrupted(c) PROVE IInv'
  BY <1>8, CallStep DEF Interrupted, Ends, HeldSound
<1>9. ASSUME NEW r \in Requests, PassTtl(r) \/ PassWindow(r) PROVE IInv'
  BY <1>9 DEF PassTtl, PassWindow, IInv, TypeOK, FourEyes, HeldSound
<1>10. CASE UNCHANGED approvalVars
  BY <1>10 DEF approvalVars, IInv, TypeOK, FourEyes, HeldSound
<1>11. QED
  BY <1>1, <1>2, <1>3, <1>4, <1>5, <1>6, <1>7, <1>8, <1>9, <1>10 DEF Next

LEMMA InvInit == Init => IInv
<1> SUFFICES ASSUME Init PROVE IInv
  OBVIOUS
<1>1. "none" \in Statuses
  BY DEF Statuses
<1>2. TypeOK
  BY <1>1, NewTypes DEF Init, TypeOK
<1>3. FourEyes
  BY NewTypes DEF Init, FourEyes
<1>4. \A r \in Requests : Sound(r, record[r], approvers[r])
  BY <1>1, NewTypes DEF Init, Sound
<1>5. \A c \in Calls : HeldSound(call[c])
  BY NewTypes DEF Init, HeldSound
<1>6. QED
  BY <1>2, <1>3, <1>4, <1>5 DEF IInv

(* An approved request has as many approvers as it needs: the distinct ones its record lists. *)
LEMMA InvReviewed == IInv => Reviewed
<1> SUFFICES ASSUME IInv, NEW r \in Requests, record[r].status = "approved"
             PROVE  Cardinality(approvers[r]) >= Needed[r] /\ Requester[r] \notin approvers[r]
  BY DEF Reviewed
<1>1. Sound(r, record[r], approvers[r]) /\ Requester[r] \notin approvers[r] /\ Needed[r] \in 0..2
  BY ApprovalsAssumption DEF IInv, FourEyes
<1>2. IsFiniteSet(approvers[r])
  BY ApprovalsAssumption, FS_Subset DEF IInv, TypeOK
<1>3. Cardinality(approvers[r]) \in Nat
  BY <1>2, FS_CardinalityType
<1>4. CASE Needed[r] = 0
  BY <1>1, <1>3, <1>4
<1>5. CASE Needed[r] = 1
  <2>1. Cardinality(approvers[r]) # 0
    BY <1>1, <1>2, <1>5, FS_EmptySet DEF Sound
  <2>2. QED
    BY <1>1, <1>3, <1>5, <2>1
<1>6. CASE Needed[r] = 2
  <2>1. record[r].approvals \subseteq approvers[r] /\ Cardinality(record[r].approvals) >= 2
    BY <1>1, <1>6 DEF Sound
  <2>2. Cardinality(record[r].approvals) <= Cardinality(approvers[r])
    BY <1>2, <2>1, FS_Subset
  <2>3. Cardinality(record[r].approvals) \in Nat
    BY <1>2, <2>1, FS_Subset, FS_CardinalityType
  <2>4. QED
    BY <1>1, <1>3, <1>6, <2>1, <2>2, <2>3
<1>7. QED
  BY <1>1, <1>4, <1>5, <1>6

-----------------------------------------------------------------------------
(* Every reachable state of the approvals is well formed: a window only on an *)
(* approved request, a list of approvals only where two are needed.           *)
THEOREM TypeCorrect == Spec => []TypeOK
<1>1. IInv => TypeOK
  BY DEF IInv
<1>2. QED
  BY InvInit, InvStep, <1>1, PTL DEF Spec

(* Four eyes and two reviewers (decideApproval), whatever calls overlap, for any *)
(* requests and reviewers: the races lose approvals, they never invent one.     *)
THEOREM ReviewedHolds == Spec => []Reviewed
<1>1. QED
  BY InvInit, InvStep, InvReviewed, PTL DEF Spec

-----------------------------------------------------------------------------
(* While no two calls were open together: one call is busy at most, the copy it holds *)
(* is what the record still is, and a person has one request pending, none once a     *)
(* call is about to ask for one.                                                      *)

OneBusy == \A c, d \in Calls : Idle(c) \/ Idle(d) \/ c = d
CopyCurrent == \A c \in Calls : call[c].phase \in {"expiring", "deciding"} => record[call[c].request] = call[c].seen
OneEach == \A p \in Reviewers : \A r, s \in PendingOf(p) : r = s
RoomToAsk ==
  \A c \in Calls :
    /\ call[c].phase \in {"gated", "asking"} => call[c].who \in Reviewers
    /\ call[c].phase = "asking" => PendingOf(call[c].who) = {}
    /\ call[c].phase = "expiring" /\ call[c].who # NULL => call[c].request \in PendingOf(call[c].who)
RejectedStay == \A r \in rejected : record[r].status = "rejected"
NewUnapproved == \A r \in Requests : record[r].status = "none" => record[r].approvals = {}

InTurn == OneBusy /\ CopyCurrent /\ OneEach /\ RoomToAsk /\ RejectedStay /\ NewUnapproved

TurnInv == IInv /\ met \in BOOLEAN /\ (met \/ InTurn)

(* What a step may do to the records: put one request's, from pending or from nothing. *)
Moves ==
  \A r \in Requests :
    \/ record'[r] = record[r]
    \/ /\ record[r].status \in {"none", "pending"}
       /\ record[r].approvals \subseteq record'[r].approvals

(* A step that leaves the records and the rejections alone, in turn. *)
LEMMA QuietTurn ==
  ASSUME IInv, IInv', InTurn, OneBusy', NEW c \in Calls, NEW d \in Call, call' = [call EXCEPT ![c] = d],
         record' = record, rejected' = rejected,
         d.phase \in {"expiring", "deciding"} => record[d.request] = d.seen,
         d.phase \in {"gated", "asking"} => d.who \in Reviewers,
         d.phase = "asking" => PendingOf(d.who) = {},
         d.phase = "expiring" /\ d.who # NULL => d.request \in PendingOf(d.who)
  PROVE  InTurn' /\ Moves
<1>1. \A k \in Calls : call'[k] = IF k = c THEN d ELSE call[k]
  BY DEF IInv, TypeOK
<1>2. \A p : PendingOf(p)' = PendingOf(p)
  BY DEF PendingOf, Of
<1>3. CopyCurrent'
  BY <1>1 DEF InTurn, CopyCurrent
<1>4. OneEach'
  BY <1>2 DEF InTurn, OneEach
<1>5. RoomToAsk'
  BY <1>1, <1>2 DEF InTurn, RoomToAsk
<1>6. RejectedStay' /\ NewUnapproved'
  BY DEF InTurn, RejectedStay, NewUnapproved
<1>7. QED
  BY <1>3, <1>4, <1>5, <1>6 DEF InTurn, Moves

(* A step of the busy call that puts one request's record, in turn: no other call is open. *)
LEMMA PutTurn ==
  ASSUME IInv, IInv', InTurn, OneBusy', NEW c \in Calls, ~Idle(c), NEW d \in Call,
         call' = [call EXCEPT ![c] = d],
         NEW r \in Requests, NEW rec \in Record, Put(r, rec),
         record[r].status \in {"none", "pending"}, record[r].approvals \subseteq rec.approvals,
         rec.status # "none",
         record[r].status = "none" => rec.status = "pending" /\ PendingOf(Requester[r]) = {},
         d.phase \in {"idle", "asking"},
         d.phase = "asking" => d.who \in Reviewers /\ PendingOf(d.who) \subseteq {r} /\ rec.status # "pending",
         rejected' = rejected \/ (rejected' = rejected \cup {r} /\ rec.status = "rejected")
  PROVE  InTurn' /\ Moves
<1>1. \A k \in Calls : call'[k] = IF k = c THEN d ELSE call[k]
  BY DEF IInv, TypeOK
<1>2. \A k \in Requests : record'[k] = IF k = r THEN rec ELSE record[k]
  BY DEF IInv, TypeOK, Put
<1>3. \A k \in Calls : k # c => call'[k].phase = "idle"
  BY <1>1 DEF InTurn, OneBusy, Idle
<1>4. CopyCurrent'
  BY <1>1, <1>3 DEF CopyCurrent
<1>5. \A p \in Reviewers : PendingOf(p)' \subseteq PendingOf(p) \cup {r}
  BY <1>2 DEF PendingOf, Of
<1>6. ASSUME NEW p \in Reviewers, NEW k \in PendingOf(p)', NEW s \in PendingOf(p)' PROVE k = s
  <2>1. CASE k \in PendingOf(p) /\ s \in PendingOf(p)
    BY <2>1 DEF InTurn, OneEach
  <2>2. CASE r \in PendingOf(p)' /\ r \notin PendingOf(p)
    <3>1. Requester[r] = p /\ record[r].status # "pending"
      BY <2>2, <1>2 DEF PendingOf, Of
    <3>2. PendingOf(p) = {}
      BY <3>1
    <3>3. QED
      BY <3>2, <1>5
  <2>3. QED
    BY <1>5, <2>1, <2>2
<1>7. RoomToAsk'
  <2>1. ASSUME d.phase = "asking" PROVE PendingOf(d.who)' = {}
    <3>1. r \notin PendingOf(d.who)'
      BY <1>2, <2>1 DEF PendingOf, Of
    <3>2. QED
      BY <1>5, <2>1, <3>1
  <2>2. QED
    BY <1>1, <1>3, <2>1 DEF RoomToAsk
<1>8. RejectedStay'
  <2>1. \A k \in rejected : k \in Requests /\ k # r
    BY DEF InTurn, RejectedStay, IInv, TypeOK
  <2>2. \A k \in rejected : record'[k].status = "rejected"
    BY <1>2, <2>1 DEF InTurn, RejectedStay
  <2>3. QED
    BY <1>2, <2>2 DEF RejectedStay
<1>9. NewUnapproved'
  BY <1>2 DEF InTurn, NewUnapproved
<1>10. QED
  BY <1>2, <1>4, <1>6, <1>7, <1>8, <1>9 DEF InTurn, OneEach, Moves

LEMMA TurnMoves ==
  ASSUME TurnInv, TurnNext, ~met'
  PROVE  InTurn' /\ Moves
<1>1. IInv /\ InTurn /\ Next /\ ~met
  BY DEF TurnInv, TurnNext
<1>2. IInv'
  BY <1>1, InvStep
<1>3. OneBusy'
  BY DEF TurnNext, OneBusy, Idle
<1> USE <1>1, <1>2, <1>3, NewTypes
<1>4. ASSUME NEW c \in Calls, NEW r \in Requests, Read(c, r) PROVE InTurn' /\ Moves
  <2> DEFINE d == [IdleCall EXCEPT !.phase = "expiring", !.request = r, !.seen = record[r]]
  <2>1. d \in Call /\ d.phase = "expiring" /\ d.who = NULL /\ d.request = r /\ d.seen = record[r]
    BY <1>4 DEF Read, IInv, TypeOK, IdleCall, Call
  <2>2. call' = [call EXCEPT ![c] = d] /\ record' = record /\ rejected' = rejected
    BY <1>4 DEF Read
  <2> HIDE DEF d
  <2>3. QED
    BY <2>1, <2>2, QuietTurn
<1>5. ASSUME NEW c \in Calls, Expire(c) PROVE InTurn' /\ Moves
  <2> DEFINE r == call[c].request
             rec == [call[c].seen EXCEPT !.status = "expired"]
             d == IF call[c].who = NULL THEN IdleCall
                  ELSE [IdleCall EXCEPT !.phase = "asking", !.who = call[c].who]
  <2>1. call[c] \in Call /\ call[c].phase = "expiring" /\ r \in Requests /\ ~Idle(c)
    BY <1>5 DEF Expire, IInv, TypeOK, Idle
  <2>2. record[r] = call[c].seen /\ record[r].status = "pending" /\ record[r] \in Record
    BY <2>1 DEF InTurn, CopyCurrent, IInv, HeldSound, TypeOK
  <2>3. rec \in Record /\ rec.status = "expired" /\ rec.approvals = record[r].approvals
    BY <2>2 DEF Record, Statuses
  <2>4. d \in Call /\ d.phase \in {"idle", "asking"}
        /\ (d.phase = "asking" => d.who = call[c].who /\ d.who \in Reviewers /\ call[c].who # NULL)
    BY <2>1 DEF Call, IdleCall
  <2>5. call[c].who # NULL => PendingOf(call[c].who) \subseteq {r}
    <3>1. CASE call[c].who # NULL
      <4>1. r \in PendingOf(call[c].who) /\ call[c].who \in Reviewers
        BY <2>1, <3>1 DEF InTurn, RoomToAsk, Call
      <4>2. QED
        BY <4>1 DEF InTurn, OneEach
    <3>2. QED
      BY <3>1
  <2>6. Put(r, rec) /\ call' = [call EXCEPT ![c] = d] /\ rejected' = rejected
    BY <1>5 DEF Expire
  <2> HIDE DEF r, rec, d
  <2>7. record[r].approvals \subseteq rec.approvals
    BY <2>3
  <2>8. d.phase = "asking" => d.who \in Reviewers /\ PendingOf(d.who) \subseteq {r} /\ rec.status # "pending"
    BY <2>3, <2>4, <2>5
  <2>9. QED
    BY <2>1, <2>2, <2>3, <2>4, <2>6, <2>7, <2>8, PutTurn
<1>6. ASSUME NEW c \in Calls, NEW p \in Reviewers, GateRefuses(c, p) PROVE InTurn' /\ Moves
  <2> DEFINE d == [IdleCall EXCEPT !.phase = "gated", !.who = p]
  <2>1. d \in Call /\ d.phase = "gated" /\ d.who = p
    BY DEF Call, IdleCall
  <2>2. call' = [call EXCEPT ![c] = d] /\ record' = record /\ rejected' = rejected
    BY <1>6 DEF GateRefuses
  <2> HIDE DEF d
  <2>3. QED
    BY <2>1, <2>2, QuietTurn
<1>7. ASSUME NEW c \in Calls, FindPending(c) PROVE InTurn' /\ Moves
  <2>1. call[c] \in Call /\ call[c].phase = "gated" /\ record' = record /\ rejected' = rejected
    BY <1>7 DEF FindPending, IInv, TypeOK
  <2>2. call[c].who \in Reviewers
    BY <2>1 DEF InTurn, RoomToAsk
  <2>3. CASE Ends(c)
    BY <2>1, <2>3, QuietTurn DEF Ends
  <2>4. CASE PendingOf(call[c].who) = {} /\ call' = [call EXCEPT ![c].phase = "asking"]
    <3> DEFINE d == [call[c] EXCEPT !.phase = "asking"]
    <3>1. d \in Call /\ d.phase = "asking" /\ d.who = call[c].who /\ call' = [call EXCEPT ![c] = d]
      BY <2>1, <2>4 DEF Call
    <3> HIDE DEF d
    <3>2. QED
      BY <2>1, <2>2, <2>4, <3>1, QuietTurn
  <2>5. ASSUME NEW r \in PendingOf(call[c].who),
               call' = [call EXCEPT ![c].phase = "expiring", ![c].request = r, ![c].seen = record[r]]
        PROVE  InTurn' /\ Moves
    <3> DEFINE d == [call[c] EXCEPT !.phase = "expiring", !.request = r, !.seen = record[r]]
    <3>1. r \in Requests /\ record[r] \in Record
      BY <2>5 DEF PendingOf, Of, IInv, TypeOK
    <3>2. d \in Call /\ d.phase = "expiring" /\ d.request = r /\ d.seen = record[r] /\ d.who = call[c].who
      BY <2>1, <3>1 DEF Call
    <3>3. call' = [call EXCEPT ![c] = d]
      BY <2>1, <2>5 DEF IInv, TypeOK
    <3> HIDE DEF d
    <3>4. QED
      BY <2>1, <2>5, <3>2, <3>3, QuietTurn
  <2>6. QED
    BY <1>7, <2>3, <2>4, <2>5 DEF FindPending
<1>8. ASSUME NEW c \in Calls, NEW r \in Requests, Ask(c, r) PROVE InTurn' /\ Moves
  <2>1. /\ NewRecord("pending") \in Record /\ NewRecord("pending").status = "pending"
        /\ NewRecord("pending").approvals = {}
    BY DEF Statuses
  <2>2. /\ call[c].phase = "asking" /\ call[c].who \in Reviewers /\ Requester[r] = call[c].who
        /\ record[r].status = "none" /\ PendingOf(call[c].who) = {} /\ ~Idle(c)
    BY <1>8 DEF Ask, Of, InTurn, RoomToAsk, Idle
  <2>3. record[r].approvals = {}
    BY <2>2 DEF InTurn, NewUnapproved
  <2>4. Put(r, NewRecord("pending")) /\ call' = [call EXCEPT ![c] = IdleCall] /\ rejected' = rejected
    BY <1>8 DEF Ask, Ends
  <2>5. record[r].approvals \subseteq NewRecord("pending").approvals
    BY <2>3
  <2>6. QED
    BY <2>1, <2>2, <2>4, <2>5, PutTurn
<1>9. ASSUME NEW c \in Calls, NEW r \in Requests, NEW who \in Reviewers,
             NEW verdict \in {"approve", "reject"}, DecideRead(c, r, who, verdict)
      PROVE  InTurn' /\ Moves
  <2> DEFINE d == [phase |-> "deciding", request |-> r, who |-> who, verdict |-> verdict, seen |-> record[r]]
  <2>1. d \in Call /\ d.phase = "deciding" /\ d.request = r /\ d.seen = record[r]
    BY DEF Call, IInv, TypeOK
  <2>2. call' = [call EXCEPT ![c] = d] /\ record' = record /\ rejected' = rejected
    BY <1>9 DEF DecideRead
  <2> HIDE DEF d
  <2>3. QED
    BY <2>1, <2>2, QuietTurn
<1>10. ASSUME NEW c \in Calls, DecidePut(c) PROVE InTurn' /\ Moves
  <2> DEFINE d == call[c]
             r == d.request
  <2>1. /\ d \in Call /\ d.phase = "deciding" /\ r \in Requests /\ ~Idle(c)
        /\ d.verdict \in {"approve", "reject"} /\ d.who \in Reviewers
    BY <1>10 DEF DecidePut, IInv, TypeOK, Idle, Call
  <2>2. record[r] = d.seen /\ record[r].status = "pending" /\ record[r] \in Record
    BY <2>1 DEF InTurn, CopyCurrent, IInv, HeldSound, TypeOK
  <2>3. Decided(d) \in Record
    <3>1. call[c].verdict = "approve" => call[c].who \in approvers[r] \cup {call[c].who}
      OBVIOUS
    <3>2. QED
      BY <2>1, <3>1, DecidedSound
  <2>4. d.seen.approvals \subseteq Approvals(d)
    BY DEF Approvals
  <2>5. /\ Decided(d).approvals = Approvals(d)
        /\ Decided(d).status \in {"pending", "approved", "rejected"}
        /\ d.verdict = "reject" => Decided(d).status = "rejected"
    BY <2>2 DEF Decided, StillWaiting, Record
  <2>6. Put(r, Decided(d)) /\ call' = [call EXCEPT ![c] = IdleCall]
    BY <1>10 DEF DecidePut, Ends
  <2>7. rejected' = rejected \/ (rejected' = rejected \cup {r} /\ Decided(d).status = "rejected")
    BY <1>10, <2>5 DEF DecidePut
  <2>8. record[r].approvals \subseteq Decided(d).approvals
    BY <2>2, <2>4, <2>5
  <2> HIDE DEF r, d
  <2>9. QED
    BY <2>1, <2>2, <2>3, <2>5, <2>6, <2>7, <2>8, PutTurn
<1>11. ASSUME NEW c \in Calls, Interrupted(c) PROVE InTurn' /\ Moves
  BY <1>11, QuietTurn DEF Interrupted, Ends
<1>12. ASSUME NEW r \in Requests, PassTtl(r) \/ PassWindow(r) PROVE InTurn' /\ Moves
  <2>1. UNCHANGED <<record, call, rejected>>
    BY <1>12 DEF PassTtl, PassWindow
  <2>2. QED
    BY <2>1 DEF InTurn, CopyCurrent, OneEach, RoomToAsk, RejectedStay, NewUnapproved, PendingOf, Of, Moves
<1>13. QED
  BY <1>4, <1>5, <1>6, <1>7, <1>8, <1>9, <1>10, <1>11, <1>12 DEF Next

LEMMA TurnStep == TurnInv /\ [TurnNext]_turnVars => TurnInv'
<1>1. ASSUME TurnInv, TurnNext PROVE TurnInv'
  <2>1. IInv' /\ met' \in BOOLEAN
    BY <1>1, InvStep DEF TurnInv, TurnNext
  <2>2. CASE met'
    BY <2>1, <2>2 DEF TurnInv
  <2>3. CASE ~met'
    BY <1>1, <2>1, <2>3, TurnMoves DEF TurnInv
  <2>4. QED
    BY <2>2, <2>3
<1>2. ASSUME TurnInv, UNCHANGED turnVars PROVE TurnInv'
  <2>1. UNCHANGED approvalVars /\ met' = met
    BY <1>2 DEF turnVars
  <2>2. IInv'
    BY <1>2, <2>1, InvStep DEF TurnInv
  <2>3. QED
    BY <1>2, <2>1, <2>2 DEF approvalVars, TurnInv, InTurn, OneBusy, Idle, CopyCurrent, OneEach, RoomToAsk,
       RejectedStay, NewUnapproved, PendingOf, Of
<1>3. QED
  BY <1>1, <1>2

LEMMA TurnStart == TurnInit => TurnInv
<1> SUFFICES ASSUME TurnInit PROVE TurnInv
  OBVIOUS
<1>1. Init /\ IInv
  BY InvInit DEF TurnInit
<1>2. "none" \in Statuses
  BY DEF Statuses
<1>3. \A p : PendingOf(p) = {}
  BY <1>1, <1>2, NewTypes DEF Init, PendingOf, Of
<1>4. InTurn
  BY <1>1, <1>2, <1>3, NewTypes DEF Init, InTurn, OneBusy, Idle, CopyCurrent, OneEach, RoomToAsk, RejectedStay,
     NewUnapproved
<1>5. QED
  BY <1>1, <1>4 DEF TurnInv, TurnInit

(* "One per pair" (requestApproval), for any number of people, requests and reviewers, *)
(* whatever expires, lapses or breaks off, as long as no two calls overlap.            *)
THEOREM OnePendingInTurnHolds == TurnSpec => []OnePendingInTurn
<1>1. TurnInv => OnePendingInTurn
  <2> SUFFICES ASSUME TurnInv, ~met, NEW p \in Reviewers
               PROVE  Cardinality({r \in Of(p) : record[r].status = "pending" /\ r \notin overdue}) <= 1
    BY DEF OnePendingInTurn, OnePending
  <2> DEFINE S == {r \in Of(p) : record[r].status = "pending" /\ r \notin overdue}
  <2>1. \A r, s \in S : r = s
    BY DEF TurnInv, InTurn, OneEach, PendingOf
  <2>2. CASE S = {}
    BY <2>2, FS_EmptySet
  <2>3. ASSUME NEW r \in S PROVE Cardinality(S) <= 1
    <3>1. S = {r}
      BY <2>1
    <3> HIDE DEF S
    <3>2. Cardinality({r}) = 1
      BY FS_Singleton
    <3>3. QED
      BY <3>1, <3>2
  <2>4. QED
    BY <2>2, <2>3
<1>2. QED
  BY <1>1, TurnStart, TurnStep, PTL DEF TurnSpec

(* "A rejection by either ends it", a decision is final and an approval stays listed *)
(* (decideApproval, settleExpiry), for any calls that come one after the other.      *)
THEOREM DecisionsStandInTurnHolds == TurnSpec => DecisionsStandInTurn
<1>1. TurnInv => (met \/ RejectionEnds)
  BY DEF TurnInv, InTurn, RejectedStay, RejectionEnds
<1>2. TurnInv /\ [TurnNext]_turnVars => [~met' => DecisionStays /\ ApprovalsGrow]_turnVars
  <2>1. ASSUME TurnInv, TurnNext, ~met' PROVE DecisionStays /\ ApprovalsGrow
    <3>1. Moves
      BY <2>1, TurnMoves
    <3>2. QED
      BY <3>1 DEF Moves, DecisionStays, ApprovalsGrow
  <2>2. QED
    BY <2>1
<1>3. QED
  BY <1>1, <1>2, TurnStart, TurnStep, PTL DEF TurnSpec, DecisionsStandInTurn
=============================================================================
