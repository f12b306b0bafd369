--------------------------- MODULE ExecutionsProofs ---------------------------
(***************************************************************************)
(* What reaches the database was reviewed, was asked by a token that still *)
(* stood and passed the freeze windows, for any number of requests,         *)
(* reviewers, calls and jobs, whatever breaks.                             *)
(***************************************************************************)
EXTENDS Executions, FiniteSetTheorems, TLAPS

Record == Approval!Record
Phases == {"none", "queued", "taken"}

(* What the steps need to know of the shape of the state. *)
Typed ==
  /\ record \in [Requests -> Record] /\ approvers \in [Requests -> SUBSET Reviewers]
  /\ call \in [Calls -> Approval!Call] /\ hand \in [Calls -> Hand]
  /\ \A c \in Calls : /\ call[c].phase \in {"expiring", "deciding"} => call[c].request \in Requests
                      /\ call[c].phase = "deciding" => call[c].who \in Reviewers
                      /\ hand[c].phase # "idle" => hand[c].request \in Requests
  /\ phase \in [Jobs -> Phases] /\ payload \in [Jobs -> Requests \cup {NULL}]
  /\ handler \in [Jobs -> Handler] /\ lost \in [Jobs -> Lost] /\ effects \in [Jobs -> Nat]

(* A job in somebody's hands was taken, and a job that was handed over names its request. *)
Placed ==
  /\ inFlight \subseteq {j \in Jobs : phase[j] = "taken"}
  /\ \A j \in Jobs : /\ phase[j] # "none" => payload[j] \in Requests
                     /\ handler[j].phase # "none" \/ lost[j].phase # "none" => phase[j] = "taken"
                     /\ handler[j].phase = "none" => handler[j] = NoHandler /\ effects[j] = 0
                     /\ lost[j].phase = "none" => lost[j].seen.approvals = {}

(* Every approval on a copy of a record was stored once. *)
Kept(r, rec) == rec.approvals \subseteq approvers[r]
Enough(r) == r \notin waived => Cardinality(approvers[r]) >= Needed[r]

CopiesKept ==
  /\ \A r \in Requests : Kept(r, record[r])
  /\ \A c \in Calls : /\ call[c].phase \in {"expiring", "deciding"} => Kept(call[c].request, call[c].seen)
                      /\ call[c].phase = "deciding" => call[c].seen.status = "pending"
                      /\ hand[c].phase # "idle" => Kept(hand[c].request, hand[c].seen)
  /\ \A j \in Jobs : /\ handler[j].phase # "none" => Kept(payload[j], handler[j].seen)
                     /\ lost[j].phase # "none" => Kept(payload[j], lost[j].seen)

(* What is being handed over, or was, has the reviewers it needs. *)
HandedReviewed ==
  /\ \A c \in Calls : hand[c].phase # "idle" => Enough(hand[c].request)
  /\ \A j \in Jobs : phase[j] # "none" => Enough(payload[j])

(* A barred job never passes the token's check, a shut one never the windows'. *)
Refused ==
  /\ barred \subseteq Jobs /\ shut \subseteq Jobs
  /\ barred # {} => ~token
  /\ shut # {} => frozen
  /\ \A j \in barred : handler[j].phase \notin {"admitted", "running"} /\ effects[j] = 0
  /\ \A j \in shut : payload[j] \in Writes => handler[j].phase # "running" /\ effects[j] = 0

-----------------------------------------------------------------------------
(* Records and copies: what a put leaves of them. *)
LEMMA NoRecordTyped ==
  /\ \A s \in Approval!Statuses : /\ Approval!NewRecord(s) \in Record /\ Approval!NewRecord(s).approvals = {}
                                  /\ Approval!NewRecord(s).status = s
  /\ NoRecord \in Record /\ NoRecord.approvals = {}
BY DEF NoRecord, Record, Approval!Record, Approval!NewRecord, Approval!Statuses, NoWork, Work

WithOutcome(s, o, n) == [s EXCEPT !.carried.outcome = o, !.carried.count = n]

LEMMA OutcomeTyped ==
  ASSUME NEW s \in Record, NEW o \in Outcomes \cup {NULL}, NEW n \in Nat
  PROVE  WithOutcome(s, o, n) \in Record /\ WithOutcome(s, o, n).approvals = s.approvals
<1>1. s.carried \in Work
  BY DEF Record, Approval!Record
<1>2. [s.carried EXCEPT !.outcome = o] \in Work
  BY <1>1 DEF Work
<1>3. [[s.carried EXCEPT !.outcome = o] EXCEPT !.count = n] \in Work
  BY <1>2 DEF Work
<1>4. [s EXCEPT !.carried.outcome = o] \in Record
  BY <1>2 DEF Record, Approval!Record
<1>5. WithOutcome(s, o, n) = [s EXCEPT !.carried = [[s.carried EXCEPT !.outcome = o] EXCEPT !.count = n]]
  BY <1>1 DEF WithOutcome, Record, Approval!Record
<1>6. QED
  BY <1>3, <1>5 DEF Record, Approval!Record

LEMMA JobTyped ==
  ASSUME NEW s \in Record, NEW j \in Jobs \cup {NULL}
  PROVE  LET rec == [s EXCEPT !.carried.job = j]
         IN rec \in Record /\ rec.approvals = s.approvals /\ rec.status = s.status
<1>1. [s.carried EXCEPT !.job = j] \in Work
  BY DEF Record, Approval!Record, Work
<1>2. QED
  BY <1>1 DEF Record, Approval!Record

(* A request with enough reviewers keeps them, since approvals are only added. *)
LEMMA EnoughGrows ==
  ASSUME Typed, NEW r \in Requests, approvers' \in [Requests -> SUBSET Reviewers],
         approvers[r] \subseteq approvers'[r], Enough(r), UNCHANGED waived
  PROVE  Enough(r)'
<1>1. IsFiniteSet(approvers'[r]) /\ IsFiniteSet(approvers[r])
  BY ExecutionsAssumption, FS_Subset DEF Typed
<1>2. Cardinality(approvers[r]) <= Cardinality(approvers'[r])
  BY <1>1, FS_Subset
<1>3. Cardinality(approvers[r]) \in Nat /\ Cardinality(approvers'[r]) \in Nat /\ Needed[r] \in Nat
  BY <1>1, FS_CardinalityType, ExecutionsAssumption
<1>4. QED
  BY <1>2, <1>3 DEF Enough

IInv == Typed /\ Placed /\ CopiesKept /\ HandedReviewed /\ Refused

(* A step of a call: what it holds is a record it read, and what it hands over is reviewed. *)
LEMMA CallStep ==
  ASSUME IInv, NEW c \in Calls, NEW d \in Approval!Call, NEW h \in Hand,
         call' = [call EXCEPT ![c] = d], hand' = [hand EXCEPT ![c] = h],
         d.phase \in {"expiring", "deciding"} => d.request \in Requests /\ Kept(d.request, d.seen)',
         d.phase = "deciding" => d.who \in Reviewers /\ d.seen.status = "pending",
         h.phase # "idle" => h.request \in Requests /\ Kept(h.request, h.seen)' /\ Enough(h.request)',
         record' \in [Requests -> Record], \A r \in Requests : Kept(r, record[r])',
         approvers' \in [Requests -> SUBSET Reviewers],
         \A r \in Requests : approvers[r] \subseteq approvers'[r],
         UNCHANGED <<queueVars, workVars, token, frozen, waived, barred, shut, payload>>
  PROVE  IInv'
<1> USE DEF IInv, queueVars, workVars
<1>1. \A k \in Calls : call'[k] = (IF k = c THEN d ELSE call[k]) /\ hand'[k] = (IF k = c THEN h ELSE hand[k])
  BY DEF Typed
<1>2. Typed'
  BY <1>1 DEF Typed
<1>3. Placed' /\ Refused'
  BY DEF Placed, Refused
<1>4. CopiesKept'
  <2>1. ASSUME NEW k \in Calls
        PROVE  /\ call'[k].phase \in {"expiring", "deciding"} => Kept(call[k].request, call[k].seen)'
               /\ call'[k].phase = "deciding" => call'[k].seen.status = "pending"
               /\ hand'[k].phase # "idle" => Kept(hand[k].request, hand[k].seen)'
    BY <1>1 DEF Typed, CopiesKept, Kept
  <2>2. ASSUME NEW j \in Jobs
        PROVE  /\ handler'[j].phase # "none" => Kept(payload[j], handler[j].seen)'
               /\ lost'[j].phase # "none" => Kept(payload[j], lost[j].seen)'
    BY DEF CopiesKept, Kept, Placed
  <2>3. QED
    BY <2>1, <2>2 DEF CopiesKept
<1>5. HandedReviewed'
  <2>1. \A r \in Requests : Enough(r) => Enough(r)'
    BY EnoughGrows
  <2>2. (\A k \in Calls : hand[k].phase # "idle" => Enough(hand[k].request))'
    BY <1>1, <2>1 DEF HandedReviewed, Typed, Enough
  <2>3. (\A j \in Jobs : phase[j] # "none" => Enough(payload[j]))'
    BY <2>1 DEF HandedReviewed, Placed, Enough
  <2>4. QED
    BY <2>2, <2>3 DEF HandedReviewed
<1>6. QED
  BY <1>2, <1>3, <1>4, <1>5

(* A step of a job's handler: it holds a record it read, and touches the database only past the checks. *)
LEMMA WorkerStep ==
  ASSUME IInv, NEW j \in Jobs, NEW h \in Handler, NEW n \in Nat,
         phase[j] = "taken", handler' = [handler EXCEPT ![j] = h], effects' = [effects EXCEPT ![j] = n],
         h.phase # "none", Kept(payload[j], h.seen),
         j \in barred => h.phase \notin {"admitted", "running"} /\ n = 0,
         j \in shut /\ payload[j] \in Writes => h.phase # "running" /\ n = 0,
         record' \in [Requests -> Record], \A r \in Requests : Kept(r, record'[r]),
         inFlight' \subseteq inFlight,
         UNCHANGED <<call, hand, approvers, phase, payload, lost, token, frozen, waived, barred, shut>>
  PROVE  IInv'
<1> USE DEF IInv
<1>1. \A k \in Jobs : /\ handler'[k] = IF k = j THEN h ELSE handler[k]
                      /\ effects'[k] = IF k = j THEN n ELSE effects[k]
  BY DEF Typed
<1>2. Typed'
  BY <1>1 DEF Typed
<1>3. Placed'
  BY <1>1 DEF Placed
<1>4. CopiesKept'
  BY <1>1 DEF CopiesKept, Kept
<1>5. HandedReviewed'
  BY DEF HandedReviewed, Enough
<1>6. Refused'
  BY <1>1 DEF Refused
<1>7. QED
  BY <1>2, <1>3, <1>4, <1>5, <1>6

(* A record put from a copy that was read keeps the records well formed. *)
LEMMA PutKept ==
  ASSUME IInv, NEW r \in Requests, NEW rec \in Record, Kept(r, rec),
         record' = [record EXCEPT ![r] = rec]
  PROVE  record' \in [Requests -> Record] /\ \A k \in Requests : Kept(k, record'[k])
BY DEF IInv, Typed, CopiesKept, Kept

-----------------------------------------------------------------------------
LEMMA IdleTyped ==
  /\ IdleHand \in Hand /\ IdleHand.phase = "idle" /\ IdleHand.job = NULL
  /\ Approval!IdleCall \in Approval!Call /\ Approval!IdleCall.phase = "idle"
  /\ NoHandler \in Handler /\ NoHandler.seen = NoRecord
BY NoRecordTyped DEF IdleHand, Hand, Record, Approval!IdleCall, Approval!Call, Approval!Statuses, NoHandler, Handler, NoRecord

(* Approvals counts with the same Cardinality. *)
LEMMA SameCardinality == ASSUME NEW S PROVE Approval!Cardinality(S) = Cardinality(S)
BY DEF Approval!Cardinality, Cardinality

(* What a decision puts was approved by those who approved before and by the reviewer; *)
(* approved, it has as many approvers as it needs.                                     *)
LEMMA DecidedKept ==
  ASSUME IInv, NEW c \in Calls, call[c].phase = "deciding",
         NEW G \in SUBSET Reviewers, approvers[call[c].request] \subseteq G,
         call[c].verdict = "approve" => call[c].who \in G
  PROVE  LET d == call[c]  rec == Approval!Decided(d)
         IN /\ rec \in Record /\ rec.approvals \subseteq G
            /\ rec.status = "approved" => Cardinality(G) >= Needed[d.request]
<1> DEFINE d == call[c]
           rec == Approval!Decided(d)
<1>1. /\ d \in Approval!Call /\ d.request \in Requests /\ d.who \in Reviewers /\ Needed[d.request] \in 0..2
      /\ d.seen \in Record /\ d.verdict \in {"approve", "reject"} /\ d.seen.status = "pending"
      /\ d.seen.approvals \subseteq G
  BY ExecutionsAssumption DEF IInv, Typed, CopiesKept, Kept, Approval!Call, Record
<1>2. Approval!Approvals(d) \in SUBSET Reviewers /\ Approval!Approvals(d) \subseteq G
  BY <1>1 DEF Approval!Approvals, Record, Approval!Record
<1>3. IsFiniteSet(G) /\ IsFiniteSet(Approval!Approvals(d))
  BY <1>2, ExecutionsAssumption, FS_Subset
<1>4. /\ Cardinality(G) \in Nat /\ Cardinality(Approval!Approvals(d)) \in Nat
      /\ Cardinality(Approval!Approvals(d)) <= Cardinality(G)
  BY <1>2, <1>3, FS_CardinalityType, FS_Subset
<1>5. CASE Approval!StillWaiting(d)
  <2>1. rec = [d.seen EXCEPT !.approvals = Approval!Approvals(d)]
    BY <1>5 DEF Approval!Decided
  <2>2. QED
    BY <1>1, <1>2, <2>1 DEF Record, Approval!Record
<1>6. CASE ~Approval!StillWaiting(d)
  <2> DEFINE s == IF d.verdict = "approve" THEN "approved" ELSE "rejected"
  <2>1. rec = [d.seen EXCEPT !.status = s, !.reviewer = d.who,
                             !.approvals = Approval!Approvals(d), !.window = Approval!Window(d)]
    BY <1>6 DEF Approval!Decided
  <2>2. Approval!Window(d) \in BOOLEAN
    BY DEF Approval!Window
  <2>3. rec \in Record /\ rec.approvals = Approval!Approvals(d) /\ rec.status = s
    BY <1>1, <1>2, <2>1, <2>2 DEF Record, Approval!Record, Approval!Statuses
  <2>4. s = "approved" => Cardinality(G) >= Needed[d.request]
    <3>1. CASE Needed[d.request] > 1
      <4>1. Approval!Cardinality(Approval!Approvals(d)) = Cardinality(Approval!Approvals(d))
        BY SameCardinality
      <4>2. QED
        BY <1>1, <1>4, <1>6, <3>1, <4>1 DEF Approval!StillWaiting
    <3>2. CASE Needed[d.request] <= 1
      <4>1. s = "approved" => Cardinality(G) # 0
        BY <1>3, FS_EmptySet
      <4>2. QED
        BY <1>1, <1>4, <3>2, <4>1
    <3>3. QED
      BY <1>1, <3>1, <3>2
  <2>5. QED
    BY <1>2, <2>3, <2>4
<1>7. QED
  BY <1>5, <1>6

-----------------------------------------------------------------------------
(* Submissions, reads and expiries, and time. *)
LEMMA AskSteps ==
  ASSUME IInv, NEW r \in Requests,
         SubmitForReview(r) \/ PassTtl(r) \/ \E c \in Calls : SubmitAllowed(c, r) \/ Reading(c, r)
  PROVE  IInv'
<1> USE NoRecordTyped, IdleTyped
<1>1. CASE SubmitForReview(r)
  <2> DEFINE rec == Approval!NewRecord("pending")
  <2>1. rec \in Record /\ Kept(r, rec)
    BY DEF Kept, Approval!Statuses
  <2>2. record' \in [Requests -> Record] /\ \A k \in Requests : Kept(k, record'[k])
    BY <1>1, <2>1, PutKept DEF SubmitForReview, Approval!Put
  <2>3. QED
    BY <1>1, <2>2 DEF SubmitForReview, IInv, Typed, Placed, CopiesKept, Kept, HandedReviewed, Enough, Refused,
                      queueVars, workVars, worldVars
<1>2. CASE PassTtl(r)
  BY <1>2 DEF PassTtl, Approval!PassTtl, IInv, Typed, Placed, CopiesKept, Kept, HandedReviewed, Enough, Refused,
              queueVars, workVars, worldVars
<1>3. ASSUME NEW c \in Calls, SubmitAllowed(c, r) PROVE IInv'
  <2> DEFINE rec == Approval!NewRecord("approved")
             h == [IdleHand EXCEPT !.phase = "handing", !.request = r, !.seen = rec]
  <2>1. rec \in Record /\ rec.approvals = {}
    BY DEF Approval!Statuses
  <2>2. h \in Hand /\ h.phase = "handing" /\ h.request = r /\ h.seen = rec
    BY <2>1 DEF Hand, Record
  <2>3. record' \in [Requests -> Record] /\ \A k \in Requests : Kept(k, record'[k])
    BY <1>3, <2>1, PutKept DEF SubmitAllowed, Approval!Put, Kept
  <2>4. call' = [call EXCEPT ![c] = call[c]] /\ hand' = [hand EXCEPT ![c] = h]
        /\ call[c] \in Approval!Call /\ call[c].phase = "idle"
    BY <1>3 DEF SubmitAllowed, Free, IInv, Typed
  <2>5. r \in waived /\ waived' = waived /\ approvers' = approvers
    BY <1>3 DEF SubmitAllowed, Accepted, worldVars
  <2>6. UNCHANGED <<queueVars, workVars, token, frozen, waived, barred, shut, payload>>
    BY <1>3 DEF SubmitAllowed, worldVars
  <2>7. approvers' \in [Requests -> SUBSET Reviewers]
    BY <2>5 DEF IInv, Typed
  <2>8. (\A k \in Requests : Kept(k, record[k]))' /\ Kept(h.request, h.seen)' /\ Enough(h.request)'
    BY <2>1, <2>2, <2>3, <2>5 DEF Kept, Enough
  <2> HIDE DEF h, rec
  <2>9. QED
    BY <2>2, <2>3, <2>4, <2>5, <2>6, <2>7, <2>8, CallStep
<1>4. ASSUME NEW c \in Calls, Reading(c, r) PROVE IInv'
  <2>1. PICK d \in Approval!Call : /\ call' = [call EXCEPT ![c] = d] /\ d.request = r /\ d.seen = record[r]
                                   /\ d.seen.status = "pending" /\ (d.phase = "deciding" => d.who \in Reviewers)
    <3> DEFINE e == [Approval!IdleCall EXCEPT !.phase = "expiring", !.request = r, !.seen = record[r]]
    <3>1. record[r] \in Record
      BY DEF IInv, Typed
    <3>2. CASE Approval!Read(c, r)
      <4>1. e \in Approval!Call /\ e.phase = "expiring" /\ e.request = r /\ e.seen = record[r]
        BY <3>1 DEF Approval!Call, Record
      <4>2. call' = [call EXCEPT ![c] = e] /\ record[r].status = "pending"
        BY <3>2 DEF Approval!Read, Approval!Expired
      <4> HIDE DEF e
      <4>3. QED
        BY <4>1, <4>2
    <3>3. ASSUME NEW who \in Reviewers, NEW verdict \in {"approve", "reject"}, Approval!DecideRead(c, r, who, verdict)
          PROVE  \E d \in Approval!Call : /\ call' = [call EXCEPT ![c] = d] /\ d.request = r /\ d.seen = record[r]
                                   /\ d.seen.status = "pending" /\ (d.phase = "deciding" => d.who \in Reviewers)
      <4> DEFINE f == [phase |-> "deciding", request |-> r, who |-> who, verdict |-> verdict, seen |-> record[r]]
      <4>1. f \in Approval!Call
        BY <3>1 DEF Approval!Call, Record
      <4>2. call' = [call EXCEPT ![c] = f] /\ record[r].status = "pending"
        BY <3>3 DEF Approval!DecideRead, Approval!MayDecide
      <4>3. QED
        BY <4>1, <4>2
    <3>4. QED
      BY <1>4, <3>2, <3>3 DEF Reading
  <2>2. hand' = [hand EXCEPT ![c] = hand[c]] /\ hand[c] \in Hand /\ hand[c].phase = "idle"
    BY <1>4 DEF Reading, Free, IInv, Typed
  <2>3. UNCHANGED <<record, approvers, queueVars, workVars, token, frozen, waived, barred, shut, payload>>
    BY <1>4 DEF Reading, worldVars, Approval!Read, Approval!DecideRead
  <2>4. record' \in [Requests -> Record] /\ approvers' \in [Requests -> SUBSET Reviewers]
    BY <2>3 DEF IInv, Typed
  <2>5. (\A k \in Requests : Kept(k, record[k]))' /\ Kept(d.request, d.seen)'
    BY <2>1, <2>3 DEF IInv, CopiesKept, Kept
  <2>6. QED
    BY <2>1, <2>2, <2>3, <2>4, <2>5, CallStep
<1>5. QED
  BY <1>1, <1>2, <1>3, <1>4

(* A hand that rests holds nothing. *)
LEMMA HandRests ==
  ASSUME IInv, NEW c \in Calls, hand' = [hand EXCEPT ![c] = IdleHand],
         call' = call \/ call' = [call EXCEPT ![c] = Approval!IdleCall],
         record' \in [Requests -> Record], \A k \in Requests : Kept(k, record'[k]),
         approvers' = approvers,
         UNCHANGED <<queueVars, workVars, token, frozen, waived, barred, shut, payload>>
  PROVE  IInv'
<1> USE IdleTyped
<1>1. PICK d \in Approval!Call : /\ call' = [call EXCEPT ![c] = d]
                                 /\ d.phase \in {"expiring", "deciding"} => d.request \in Requests /\ Kept(d.request, d.seen)
                                 /\ d.phase = "deciding" => d.who \in Reviewers /\ d.seen.status = "pending"
  <2>1. CASE call' = call
    <3>1. call[c] \in Approval!Call /\ call' = [call EXCEPT ![c] = call[c]]
      BY <2>1 DEF IInv, Typed
    <3>2. /\ call[c].phase \in {"expiring", "deciding"} => call[c].request \in Requests /\ Kept(call[c].request, call[c].seen)
          /\ call[c].phase = "deciding" => call[c].who \in Reviewers /\ call[c].seen.status = "pending"
      BY DEF IInv, Typed, CopiesKept
    <3>3. QED
      BY <3>1, <3>2
  <2>2. CASE call' = [call EXCEPT ![c] = Approval!IdleCall]
    BY <2>2
  <2>3. QED
    BY <2>1, <2>2
<1>2. PICK h \in Hand : h = IdleHand
  OBVIOUS
<1>3. approvers' \in [Requests -> SUBSET Reviewers] /\ \A k \in Requests : approvers[k] \subseteq approvers'[k]
  BY DEF IInv, Typed
<1>4. (\A k \in Requests : Kept(k, record[k]))' /\ (Kept(d.request, d.seen) => Kept(d.request, d.seen)')
  BY DEF Kept
<1>5. QED
  BY <1>1, <1>2, <1>3, <1>4, CallStep

(* The steps of a reviewer's call and of what follows its decision. *)
LEMMA HandSteps ==
  ASSUME IInv, NEW c \in Calls,
         Expiring(c) \/ Decide(c) \/ SettleToken(c) \/ FailWithout(c) \/ RecordJob(c) \/ CallBreaks(c)
  PROVE  IInv'
<1> USE NoRecordTyped, IdleTyped
<1>0. /\ call[c] \in Approval!Call /\ hand[c] \in Hand
      /\ \A r \in Requests : record[r] \in Record /\ approvers[r] \in SUBSET Reviewers
      /\ call = [call EXCEPT ![c] = call[c]] /\ hand = [hand EXCEPT ![c] = hand[c]]
      /\ record \in [Requests -> Record] /\ approvers \in [Requests -> SUBSET Reviewers]
      /\ \A r \in Requests : Kept(r, record[r])
  BY DEF IInv, Typed, CopiesKept
<1>1. CASE Expiring(c)
  <2> DEFINE old == call[c]
             put == [old.seen EXCEPT !.status = "expired"]
             next == IF old.who = NULL THEN Approval!IdleCall
                     ELSE [Approval!IdleCall EXCEPT !.phase = "asking", !.who = old.who]
  <2>1. old.phase = "expiring" /\ record' = [record EXCEPT ![old.request] = put] /\ call' = [call EXCEPT ![c] = next]
    BY <1>1 DEF Expiring, Approval!Expire, Approval!Put
  <2>2. old.request \in Requests /\ old.seen \in Record /\ Kept(old.request, old.seen)
    BY <1>0, <2>1 DEF IInv, Typed, CopiesKept, Approval!Call, Record
  <2>3. put \in Record /\ Kept(old.request, put)
    BY <2>2 DEF Kept, Record, Approval!Record, Approval!Statuses
  <2>4. next \in Approval!Call /\ next.phase \in {"idle", "asking"}
    BY <1>0 DEF Approval!Call
  <2>5. PICK d \in Approval!Call, h \in Hand, r \in Requests, rec \in Record :
          /\ d = next /\ h = hand[c] /\ r = old.request /\ rec = put
    BY <1>0, <2>2, <2>3, <2>4
  <2>6. UNCHANGED <<approvers, hand>> /\ UNCHANGED <<queueVars, workVars, token, frozen, waived, barred, shut, payload>>
    BY <1>1 DEF Expiring, Approval!Expire, worldVars
  <2>7. record' \in [Requests -> Record] /\ \A k \in Requests : Kept(k, record'[k])
    BY <2>1, <2>3, <2>5, PutKept
  <2>8. (\A k \in Requests : Kept(k, record[k]))'
    BY <2>6, <2>7 DEF Kept
  <2>9. h.phase # "idle" => h.request \in Requests /\ Kept(h.request, h.seen)' /\ Enough(h.request)'
    BY <2>5, <2>6 DEF IInv, Typed, CopiesKept, HandedReviewed, Kept, Enough
  <2>10. /\ hand' = [hand EXCEPT ![c] = h] /\ call' = [call EXCEPT ![c] = d] /\ d.phase \in {"idle", "asking"}
         /\ approvers' \in [Requests -> SUBSET Reviewers] /\ \A k \in Requests : approvers[k] \subseteq approvers'[k]
    BY <1>0, <2>1, <2>4, <2>5, <2>6
  <2>11. d.phase \notin {"expiring", "deciding"}
    BY <2>10
  <2>12. /\ d.phase \in {"expiring", "deciding"} => d.request \in Requests /\ Kept(d.request, d.seen)'
         /\ d.phase = "deciding" => d.who \in Reviewers /\ d.seen.status = "pending"
    BY <2>11
  <2>13. UNCHANGED <<queueVars, workVars, token, frozen, waived, barred, shut, payload>>
    BY <2>6
  <2> HIDE DEF old, put, next
  <2>14. QED
    BY <2>7, <2>8, <2>9, <2>10, <2>12, <2>13, CallStep
<1>2. CASE Decide(c)
  <2> DEFINE old == call[c]
             put == Approval!Decided(old)
             given == IF old.verdict = "approve" THEN approvers[old.request] \cup {old.who} ELSE approvers[old.request]
             goes == [IdleHand EXCEPT !.phase = "settling", !.request = old.request, !.seen = put]
  <2>1. old.phase = "deciding" /\ old.request \in Requests /\ old.who \in Reviewers
    BY <1>2 DEF Decide, Approval!DecidePut, IInv, Typed
  <2>2. given \in SUBSET Reviewers /\ approvers[old.request] \subseteq given
    BY <1>0, <2>1
  <2>3. /\ put \in Record /\ put.approvals \subseteq given
        /\ put.status = "approved" => Cardinality(given) >= Needed[old.request]
    BY <2>1, <2>2, DecidedKept
  <2>4. PICK r \in Requests, rec \in Record, G \in SUBSET Reviewers : r = old.request /\ rec = put /\ G = given
    BY <2>1, <2>2, <2>3
  <2>5. /\ record' = [record EXCEPT ![r] = rec] /\ call' = [call EXCEPT ![c] = Approval!IdleCall]
        /\ approvers' = [approvers EXCEPT ![r] = G]
    BY <1>0, <1>2, <2>1, <2>4 DEF Decide, Approval!DecidePut, Approval!Put, Approval!Ends
  <2>6. UNCHANGED <<queueVars, workVars, token, frozen, waived, barred, shut, payload>>
    BY <1>2 DEF Decide, worldVars
  <2>7. hand' = IF rec.status = "approved"
                THEN [hand EXCEPT ![c] = [IdleHand EXCEPT !.phase = "settling", !.request = r, !.seen = rec]] ELSE hand
    BY <1>2, <2>4 DEF Decide, GoesOn
  <2>8. approvers[r] \subseteq G /\ rec.approvals \subseteq G /\ (rec.status = "approved" => Cardinality(G) >= Needed[r])
    BY <2>2, <2>3, <2>4
  <2> HIDE DEF old, put, given
  <2>9. \A k \in Requests : /\ approvers'[k] = IF k = r THEN G ELSE approvers[k]
                            /\ record'[k] = IF k = r THEN rec ELSE record[k]
    BY <1>0, <2>5
  <2>10. /\ approvers' \in [Requests -> SUBSET Reviewers] /\ record' \in [Requests -> Record]
         /\ \A k \in Requests : approvers[k] \subseteq approvers'[k]
    BY <1>0, <2>5, <2>8, <2>9
  <2>11. (\A k \in Requests : Kept(k, record[k]))'
    BY <1>0, <2>8, <2>9 DEF Kept
  <2>12. PICK h \in Hand : /\ hand' = [hand EXCEPT ![c] = h]
                           /\ h.phase # "idle" => h.request \in Requests /\ Kept(h.request, h.seen)' /\ Enough(h.request)'
    <3>1. CASE rec.status = "approved"
      <4> DEFINE h == [IdleHand EXCEPT !.phase = "settling", !.request = r, !.seen = rec]
      <4>1. h \in Hand /\ h.request = r /\ h.seen = rec
        BY DEF Hand, Record
      <4>2. Kept(r, rec)' /\ Enough(r)'
        BY <2>8, <2>9, <3>1 DEF Kept, Enough
      <4>3. Kept(h.request, h.seen)' /\ Enough(h.request)' /\ hand' = [hand EXCEPT ![c] = h]
        BY <2>7, <3>1, <4>1, <4>2 DEF Kept, Enough
      <4> HIDE DEF h
      <4>4. QED
        BY <4>1, <4>3
    <3>2. CASE rec.status # "approved"
      <4>1. PICK h \in Hand : h = hand[c]
        BY <1>0
      <4>2. h.phase # "idle" => h.request \in Requests /\ Kept(h.request, h.seen) /\ Enough(h.request)
        BY <4>1 DEF IInv, Typed, CopiesKept, HandedReviewed
      <4>3. h.request \in Requests /\ Enough(h.request) => Enough(h.request)'
        BY <2>6, <2>10, EnoughGrows DEF IInv
      <4>4. h.request \in Requests /\ Kept(h.request, h.seen) => Kept(h.request, h.seen)'
        BY <2>10 DEF Kept
      <4>5. hand' = [hand EXCEPT ![c] = h]
        BY <1>0, <2>7, <3>2, <4>1
      <4>6. QED
        BY <4>2, <4>3, <4>4, <4>5
    <3>3. QED
      BY <3>1, <3>2
  <2>13. QED
    BY <2>5, <2>6, <2>10, <2>11, <2>12, CallStep
<1>3. ASSUME SettleToken(c) \/ FailWithout(c) \/ RecordJob(c) \/ CallBreaks(c) PROVE IInv'
  <2>1. PICK h \in Hand : h = hand[c]
    BY <1>0
  <2>2. h.phase # "idle" => h.request \in Requests /\ Kept(h.request, h.seen) /\ Enough(h.request)
    BY <2>1 DEF IInv, Typed, CopiesKept, HandedReviewed
  <2>3. h.seen \in Record /\ h.job \in Jobs \cup {NULL}
    BY DEF Hand, Record
  <2>4. approvers' = approvers /\ UNCHANGED <<queueVars, workVars, token, frozen, waived, barred, shut, payload>>
    BY <1>3 DEF SettleToken, FailWithout, RecordJob, CallBreaks, PutOutcome, approvalVars, worldVars
  <2>5. /\ approvers' \in [Requests -> SUBSET Reviewers] /\ \A k \in Requests : approvers[k] \subseteq approvers'[k]
        /\ \A r, rec : Kept(r, rec)' = Kept(r, rec) /\ Enough(r)' = Enough(r)
    BY <1>0, <2>4 DEF Kept, Enough
  <2>6. CASE SettleToken(c)
    <3>1. PICK q \in {"handing", "failing"} : hand' = [hand EXCEPT ![c].phase = q] /\ h.phase = "settling"
      BY <1>0, <2>1, <2>6 DEF SettleToken
    <3> DEFINE g == [h EXCEPT !.phase = q]
    <3>2. g \in Hand /\ g.request = h.request /\ g.seen = h.seen /\ hand' = [hand EXCEPT ![c] = g]
      BY <1>0, <2>1, <3>1 DEF Hand
    <3>3. call' = call /\ record' = record
      BY <2>6 DEF SettleToken, approvalVars
    <3>4. PICK d \in Approval!Call : /\ d = call[c] /\ call' = [call EXCEPT ![c] = d]
                                     /\ d.phase \in {"expiring", "deciding"} => d.request \in Requests /\ Kept(d.request, d.seen)
                                     /\ d.phase = "deciding" => d.who \in Reviewers /\ d.seen.status = "pending"
      BY <1>0, <3>3 DEF IInv, Typed, CopiesKept
    <3>5. g.phase # "idle" => g.request \in Requests /\ Kept(g.request, g.seen)' /\ Enough(g.request)'
      BY <2>2, <2>5, <3>1, <3>2
    <3>6. record' \in [Requests -> Record] /\ (\A k \in Requests : Kept(k, record[k]))'
      BY <1>0, <2>4, <3>3 DEF Kept
    <3> HIDE DEF g
    <3>7. QED
      BY <2>4, <2>5, <3>2, <3>4, <3>5, <3>6, CallStep
  <2>7. CASE RecordJob(c)
    <3> DEFINE put == [h.seen EXCEPT !.carried.job = h.job]
    <3>1. put \in Record /\ put.approvals = h.seen.approvals
      BY <2>3, JobTyped
    <3>2. h.phase = "recording" /\ record' = [record EXCEPT ![h.request] = put] /\ hand' = [hand EXCEPT ![c] = IdleHand]
      BY <2>1, <2>7 DEF RecordJob, Approval!Put
    <3>3. Kept(h.request, put)
      BY <2>2, <3>1, <3>2 DEF Kept
    <3>4. call' = call
      BY <2>7 DEF RecordJob
    <3> HIDE DEF put
    <3>5. record' \in [Requests -> Record] /\ \A k \in Requests : Kept(k, record'[k])
      BY <2>2, <3>1, <3>2, <3>3, PutKept
    <3>6. QED
      BY <1>0, <2>4, <2>5, <3>2, <3>4, <3>5, HandRests
  <2>8. CASE FailWithout(c)
    <3> DEFINE put == WithOutcome(h.seen, "token_revoked", 0)
    <3>1. put \in Record /\ put.approvals = h.seen.approvals
      <4>1. "token_revoked" \in Outcomes \cup {NULL} /\ 0 \in Nat
        BY DEF Outcomes
      <4>2. QED
        BY <2>3, <4>1, OutcomeTyped
    <3>2. h.phase = "failing" /\ record' = [record EXCEPT ![h.request] = put] /\ hand' = [hand EXCEPT ![c] = IdleHand]
      BY <2>1, <2>8 DEF FailWithout, PutOutcome, WithOutcome
    <3>3. Kept(h.request, put)
      BY <2>2, <3>1, <3>2 DEF Kept
    <3>4. call' = call
      BY <2>8 DEF FailWithout, PutOutcome
    <3> HIDE DEF put
    <3>5. record' \in [Requests -> Record] /\ \A k \in Requests : Kept(k, record'[k])
      BY <2>2, <3>1, <3>2, <3>3, PutKept
    <3>6. QED
      BY <1>0, <2>4, <2>5, <3>2, <3>4, <3>5, HandRests
  <2>9. CASE CallBreaks(c)
    <3>1. call' = [call EXCEPT ![c] = Approval!IdleCall] /\ record' = record /\ hand' = [hand EXCEPT ![c] = IdleHand]
      BY <2>9 DEF CallBreaks
    <3>2. record' \in [Requests -> Record] /\ \A k \in Requests : Kept(k, record'[k])
      BY <1>0, <3>1
    <3>3. QED
      BY <1>0, <2>4, <2>5, <3>1, <3>2, HandRests
  <2>10. QED
    BY <1>3, <2>6, <2>7, <2>8, <2>9
<1>4. QED
  BY <1>1, <1>2, <1>3

(* The hand-over: a job that was in nobody's hands names a reviewed request. *)
LEMMA HandOverStep ==
  ASSUME IInv, NEW c \in Calls, NEW j \in Jobs, HandOver(c, j)
  PROVE  IInv'
<1>1. PICK h \in Hand : h = hand[c] /\ h.phase = "handing" /\ h.request \in Requests /\ Enough(h.request) /\ Kept(h.request, h.seen)
  BY DEF HandOver, IInv, Typed, CopiesKept, HandedReviewed
<1>2. /\ phase[j] = "none" /\ \A k \in Jobs : /\ phase'[k] = IF k = j THEN "queued" ELSE phase[k]
                                              /\ payload'[k] = IF k = j THEN h.request ELSE payload[k]
      /\ phase' \in [Jobs -> Phases] /\ payload' \in [Jobs -> Requests \cup {NULL}]
  BY <1>1 DEF HandOver, Queue!Submit, IInv, Typed, Phases
<1>3. UNCHANGED <<record, call, approvers, handler, lost, effects, token, frozen, waived, barred, shut, inFlight>>
  BY DEF HandOver, Queue!Submit, approvalVars, workVars, worldVars
<1>4. PICK g \in Hand : hand' = [hand EXCEPT ![c] = g] /\ g.phase = "recording" /\ g.request = h.request /\ g.seen = h.seen
  <2> DEFINE g == [h EXCEPT !.phase = "recording", !.job = j]
  <2>1. g \in Hand /\ g.phase = "recording" /\ g.request = h.request /\ g.seen = h.seen
    BY DEF Hand
  <2>2. hand' = [hand EXCEPT ![c] = g]
    BY <1>1 DEF HandOver, IInv, Typed, Hand
  <2> HIDE DEF g
  <2>3. QED
    BY <2>1, <2>2
<1>5. \A k \in Calls : hand'[k] = IF k = c THEN g ELSE hand[k]
  BY <1>4 DEF IInv, Typed
<1>6. Typed'
  BY <1>1, <1>2, <1>3, <1>4, <1>5 DEF IInv, Typed
<1>7. Placed'
  BY <1>1, <1>2, <1>3 DEF IInv, Placed
<1>8. CopiesKept'
  <2>1. handler[j].phase = "none" /\ lost[j].phase = "none"
    BY <1>2 DEF IInv, Placed
  <2>2. QED
    BY <1>1, <1>2, <1>3, <1>4, <1>5, <2>1 DEF IInv, CopiesKept, Kept
<1>9. HandedReviewed'
  BY <1>1, <1>2, <1>3, <1>4, <1>5 DEF IInv, HandedReviewed, Enough
<1>10. Refused'
  BY <1>1, <1>2, <1>3 DEF IInv, Placed, Refused
<1>11. QED
  BY <1>6, <1>7, <1>8, <1>9, <1>10 DEF IInv

(* A worker takes a job nobody had: it is barred or shut only by what happens next. *)
LEMMA TakeStep ==
  ASSUME IInv, NEW j \in Jobs, Take(j)
  PROVE  IInv'
<1> USE NoRecordTyped, IdleTyped
<1>1. /\ phase[j] = "queued" /\ handler[j] \in Handler /\ handler[j].seen.approvals = {}
      /\ handler[j].phase = "none" /\ effects[j] = 0 /\ lost[j].phase = "none"
  BY DEF Take, Queue!Take, IInv, Placed, Typed
<1>2. /\ \A k \in Jobs : /\ phase'[k] = IF k = j THEN "taken" ELSE phase[k]
                         /\ handler'[k] = IF k = j THEN [handler[j] EXCEPT !.phase = "called"] ELSE handler[k]
      /\ phase' \in [Jobs -> Phases] /\ handler' \in [Jobs -> Handler] /\ inFlight' = inFlight \cup {j}
  BY <1>1 DEF Take, Queue!Take, IInv, Typed, Phases, Handler
<1>3. /\ UNCHANGED <<record, call, hand, approvers, lost, payload, effects, token, frozen, waived, barred>>
      /\ shut' = IF frozen THEN shut \cup {j} ELSE shut
  BY DEF Take, approvalVars
<1>4. Typed' /\ Placed'
  BY <1>1, <1>2, <1>3 DEF IInv, Typed, Placed, Handler
<1>5. CopiesKept'
  BY <1>1, <1>2, <1>3 DEF IInv, CopiesKept, Kept, Handler
<1>6. HandedReviewed' /\ Refused'
  BY <1>1, <1>2, <1>3 DEF IInv, HandedReviewed, Enough, Refused, Handler
<1>7. QED
  BY <1>4, <1>5, <1>6 DEF IInv

(* The steps of a job's handler, and the ways it ends. *)
LEMMA WorkSteps ==
  ASSUME IInv, NEW j \in Jobs, WorkStep(j) \/ HandlerBreaks(j) \/ WorkerDies(j)
  PROVE  IInv'
<1> USE NoRecordTyped, IdleTyped
<1>1. PICK h \in Handler, n \in Nat, r \in Requests \cup {NULL} : h = handler[j] /\ n = effects[j] /\ r = payload[j]
  BY DEF IInv, Typed
<1>2. /\ handler = [handler EXCEPT ![j] = h] /\ effects = [effects EXCEPT ![j] = n]
      /\ \A k \in Requests : record[k] \in Record /\ Kept(k, record[k])
      /\ record \in [Requests -> Record]
  BY <1>1 DEF IInv, Typed, CopiesKept
<1>3. h.phase # "none" => phase[j] = "taken" /\ r \in Requests /\ Kept(r, h.seen)
  BY <1>1 DEF IInv, Placed, CopiesKept
<1>4. j \in inFlight => phase[j] = "taken" /\ r \in Requests
  BY <1>1 DEF IInv, Placed
<1>5. j \in barred => h.phase \notin {"admitted", "running"} /\ n = 0 /\ ~token
  BY <1>1 DEF IInv, Refused
<1>6. j \in shut => frozen /\ (payload[j] \in Writes => h.phase # "running" /\ n = 0)
  BY <1>1 DEF IInv, Refused
<1>7. UNCHANGED <<call, hand, approvers, phase, payload, lost, token, frozen, waived, barred, shut>> /\ inFlight' \subseteq inFlight
  BY DEF WorkStep, HandlerReads, HandlerIdentifies, HandlerAdmits, HandlerStatement, HandlerPuts, HandlerReturns,
         HandlerBreaks, WorkerDies, PutOutcome, Queue!Release, approvalVars, queueVars, worldVars
<1>8. CASE HandlerReads(j)
  <2>1. PICK g \in Handler : handler' = [handler EXCEPT ![j] = g] /\ g.phase \in {"read", "ended"} /\ Kept(r, g.seen) /\ phase[j] = "taken"
    <3>1. h.phase = "called" /\ r \in Requests
      BY <1>1, <1>3, <1>8 DEF HandlerReads, HandlerIn
    <3>2. CASE StillToRun(payload[j])
      <4> DEFINE g == [h EXCEPT !.phase = "read", !.seen = record[r]]
      <4>1. g \in Handler /\ g.phase = "read" /\ g.seen = record[r]
        BY <1>2, <3>1 DEF Handler, Record
      <4>2. handler' = [handler EXCEPT ![j] = g]
        BY <1>1, <1>8, <3>2 DEF HandlerReads, IInv, Typed, Handler
      <4> HIDE DEF g
      <4>3. QED
        BY <1>2, <1>3, <3>1, <4>1, <4>2
    <3>3. CASE ~StillToRun(payload[j])
      <4>1. [NoHandler EXCEPT !.phase = "ended"] \in Handler /\ [NoHandler EXCEPT !.phase = "ended"].seen = NoRecord
        BY DEF Handler
      <4>2. QED
        BY <1>3, <1>8, <3>1, <3>3, <4>1 DEF HandlerReads, Leaves, Kept, NoHandler
    <3>4. QED
      BY <3>2, <3>3
  <2>2. effects' = [effects EXCEPT ![j] = n] /\ record' = record
    BY <1>2, <1>8 DEF HandlerReads, approvalVars
  <2>3. record' \in [Requests -> Record] /\ \A k \in Requests : Kept(k, record'[k])
    BY <1>2, <2>2
  <2>4. QED
    BY <1>1, <1>5, <1>6, <1>7, <2>1, <2>2, <2>3, WorkerStep
<1>9. ASSUME HandlerIdentifies(j) \/ HandlerAdmits(j) \/ HandlerStatement(j) PROVE IInv'
  <2>1. phase[j] = "taken" /\ Kept(r, h.seen) /\ record' = record /\ h.phase \in {"read", "admitted", "running"}
    BY <1>1, <1>3, <1>9 DEF HandlerIdentifies, HandlerAdmits, HandlerStatement, HandlerIn, approvalVars
  <2>2. record' \in [Requests -> Record] /\ \A k \in Requests : Kept(k, record'[k])
    BY <1>2, <2>1
  <2> DEFINE Phase(p) == [h EXCEPT !.phase = p]
             Ends(o, k) == [h EXCEPT !.phase = "ending", !.outcome = o, !.count = k]
  <2>3. /\ \A p \in {"admitted", "running"} : Phase(p) \in Handler /\ Phase(p).phase = p /\ Phase(p).seen = h.seen
        /\ \A o \in Outcomes, k \in Nat : Ends(o, k) \in Handler /\ Ends(o, k).phase = "ending" /\ Ends(o, k).seen = h.seen
    BY DEF Handler
  <2>4. /\ \A p : [handler EXCEPT ![j].phase = p] = [handler EXCEPT ![j] = Phase(p)]
        /\ \A o, k : Ending(j, o, k) => handler' = [handler EXCEPT ![j] = Ends(o, k)]
    BY <1>1 DEF Ending, IInv, Typed, Handler
  <2> HIDE DEF Phase, Ends
  <2>5. CASE HandlerIdentifies(j)
    <3>1. effects' = [effects EXCEPT ![j] = n]
      BY <1>2, <2>5 DEF HandlerIdentifies
    <3>2. CASE token
      <4>1. handler' = [handler EXCEPT ![j] = Phase("admitted")] /\ j \notin barred
        BY <1>5, <2>4, <2>5, <3>2 DEF HandlerIdentifies, Identity
      <4>2. j \in shut /\ payload[j] \in Writes => n = 0
        BY <1>6
      <4>3. QED
        BY <1>1, <1>7, <2>1, <2>2, <2>3, <3>1, <4>1, <4>2, WorkerStep
    <3>3. CASE ~token
      <4>1. handler' = [handler EXCEPT ![j] = Ends("token_revoked", 0)] /\ "token_revoked" \in Outcomes
        BY <2>4, <2>5, <3>3 DEF HandlerIdentifies, Identity, Outcomes
      <4>2. QED
        BY <1>1, <1>5, <1>6, <1>7, <2>1, <2>2, <2>3, <3>1, <4>1, WorkerStep
    <3>4. QED
      BY <3>2, <3>3
  <2>6. CASE HandlerAdmits(j)
    <3>1. effects' = [effects EXCEPT ![j] = n] /\ h.phase = "admitted" /\ j \notin barred
      BY <1>1, <1>2, <1>5, <2>6 DEF HandlerAdmits, HandlerIn
    <3>2. ASSUME NEW o \in Outcomes, Ending(j, o, 0) PROVE IInv'
      <4>1. handler' = [handler EXCEPT ![j] = Ends(o, 0)] /\ Ends(o, 0) \in Handler
            /\ Ends(o, 0).phase = "ending" /\ Ends(o, 0).seen = h.seen
        BY <2>3, <2>4, <3>2
      <4>2. j \in shut /\ payload[j] \in Writes => n = 0
        BY <1>6
      <4>3. QED
        BY <1>1, <1>7, <2>1, <2>2, <3>1, <4>1, <4>2, WorkerStep
    <3>3. CASE ~Holds(payload[j]) /\ handler' = [handler EXCEPT ![j].phase = "running"]
      <4>1. handler' = [handler EXCEPT ![j] = Phase("running")]
        BY <2>4, <3>3
      <4>2. ~(j \in shut /\ payload[j] \in Writes)
        BY <1>6, <3>3 DEF Holds
      <4>3. QED
        BY <1>1, <1>7, <2>1, <2>2, <2>3, <3>1, <4>1, <4>2, WorkerStep
    <3>4. QED
      BY <2>6, <3>2, <3>3 DEF HandlerAdmits, Outcomes
  <2>7. CASE HandlerStatement(j)
    <3>1. h.phase = "running" /\ j \notin barred /\ ~(j \in shut /\ payload[j] \in Writes)
      BY <1>1, <1>5, <1>6, <2>7 DEF HandlerStatement, HandlerIn
    <3>2. PICK m \in Nat : effects' = [effects EXCEPT ![j] = m]
      <4>1. effects' = [effects EXCEPT ![j] = n + 1] \/ \E took \in {0, 1} : effects' = [effects EXCEPT ![j] = n + took]
        BY <1>1, <2>7 DEF HandlerStatement
      <4>2. n + 1 \in Nat /\ n + 0 \in Nat
        OBVIOUS
      <4>3. QED
        BY <4>1, <4>2
    <3>3. PICK g \in Handler : handler' = [handler EXCEPT ![j] = g] /\ g.phase # "none" /\ g.seen = h.seen
      <4>1. h.count \in Nat /\ h.count + 1 \in Nat /\ "done" \in Outcomes /\ "failed" \in Outcomes
        BY DEF Handler, Outcomes
      <4>2. [h EXCEPT !.count = h.count + 1] \in Handler /\ [h EXCEPT !.count = h.count + 1].phase = h.phase
            /\ [h EXCEPT !.count = h.count + 1].seen = h.seen
        BY <4>1 DEF Handler
      <4>3. \/ handler' = [handler EXCEPT ![j] = [h EXCEPT !.count = h.count + 1]]
            \/ handler' = [handler EXCEPT ![j] = Ends("done", h.count + 1)]
            \/ handler' = [handler EXCEPT ![j] = Ends("failed", h.count)]
        <5>1. [handler EXCEPT ![j].count = h.count + 1] = [handler EXCEPT ![j] = [h EXCEPT !.count = h.count + 1]]
          BY <1>1 DEF IInv, Typed, Handler
        <5>2. \/ handler' = [handler EXCEPT ![j].count = h.count + 1]
              \/ Ending(j, "done", h.count + 1) \/ Ending(j, "failed", h.count)
          BY <1>1, <2>7 DEF HandlerStatement, AfterFailure
        <5>3. QED
          BY <2>4, <5>1, <5>2
      <4>4. CASE handler' = [handler EXCEPT ![j] = [h EXCEPT !.count = h.count + 1]]
        BY <3>1, <4>2, <4>4
      <4>5. Ends("done", h.count + 1) \in Handler /\ Ends("done", h.count + 1).phase = "ending"
            /\ Ends("done", h.count + 1).seen = h.seen
        BY <2>3, <4>1
      <4>6. Ends("failed", h.count) \in Handler /\ Ends("failed", h.count).phase = "ending"
            /\ Ends("failed", h.count).seen = h.seen
        BY <2>3, <4>1
      <4>7. QED
        BY <4>3, <4>4, <4>5, <4>6
    <3>4. QED
      BY <1>1, <1>7, <2>1, <2>2, <3>1, <3>2, <3>3, WorkerStep
  <2>8. QED
    BY <1>9, <2>5, <2>6, <2>7
<1>10. ASSUME HandlerPuts(j) \/ HandlerReturns(j) \/ HandlerBreaks(j) \/ WorkerDies(j) PROVE IInv'
  <2>1. PICK p \in {"ended", "over", "died"} : Leaves(j, p) /\ phase[j] = "taken" /\ r \in Requests
    BY <1>1, <1>3, <1>4, <1>10 DEF HandlerPuts, HandlerReturns, HandlerBreaks, WorkerDies, HandlerIn, Queue!Release
  <2> DEFINE g == [NoHandler EXCEPT !.phase = p]
  <2>2. g \in Handler /\ g.phase = p /\ g.seen = NoRecord
    BY DEF Handler
  <2>3. handler' = [handler EXCEPT ![j] = g] /\ effects' = [effects EXCEPT ![j] = n]
    BY <1>2, <1>10, <2>1 DEF HandlerPuts, HandlerReturns, HandlerBreaks, WorkerDies, Leaves
  <2> HIDE DEF g
  <2>4. record' \in [Requests -> Record] /\ \A k \in Requests : Kept(k, record'[k])
    <3>1. CASE HandlerPuts(j)
      <4> DEFINE put == WithOutcome(h.seen, h.outcome, h.count)
      <4>1. h.phase = "ending" /\ record' = [record EXCEPT ![r] = put]
        BY <1>1, <3>1 DEF HandlerPuts, HandlerIn, PutOutcome, WithOutcome
      <4>2. put \in Record /\ put.approvals = h.seen.approvals
        <5>1. h.seen \in Record /\ h.outcome \in Outcomes \cup {NULL} /\ h.count \in Nat
          BY DEF Handler, Record
        <5>2. \A o \in Outcomes \cup {NULL}, k \in Nat : /\ WithOutcome(h.seen, o, k) \in Record
                                                       /\ WithOutcome(h.seen, o, k).approvals = h.seen.approvals
          BY <5>1, OutcomeTyped
        <5>3. QED
          BY <5>1, <5>2
      <4> HIDE DEF put
      <4>3. Kept(r, put)
        BY <1>3, <4>1, <4>2 DEF Kept
      <4>4. QED
        BY <2>1, <4>1, <4>2, <4>3, PutKept
    <3>2. CASE ~HandlerPuts(j)
      BY <1>2, <1>10, <3>2 DEF HandlerReturns, HandlerBreaks, WorkerDies, approvalVars
    <3>3. QED
      BY <3>1, <3>2
  <2>5. Kept(payload[j], g.seen)
    BY <2>2 DEF Kept
  <2>6. QED
    BY <1>1, <1>5, <1>6, <1>7, <2>1, <2>2, <2>3, <2>4, <2>5, WorkerStep
<1>11. QED
  BY <1>8, <1>9, <1>10 DEF WorkStep

(* The lost handler holds the record it read. *)
LEMMA LostSteps ==
  ASSUME IInv, NEW j \in Jobs, LostStep(j)
  PROVE  IInv'
<1> USE NoRecordTyped
<1>1. PICK r \in Requests, l \in Lost, n \in Lost :
        /\ r = payload[j] /\ l = lost[j] /\ phase[j] = "taken"
        /\ n.phase \in {"read", "over"} /\ Kept(r, n.seen)
        /\ lost' = [lost EXCEPT ![j] = n]
  <2>1. phase[j] = "taken" /\ payload[j] \in Requests /\ lost[j] \in Lost
    BY DEF LostStep, LostReads, LostPuts, Queue!Tell, IInv, Placed, Typed
  <2>2. record[payload[j]] \in Record /\ Kept(payload[j], record[payload[j]])
    BY <2>1 DEF IInv, Typed, CopiesKept
  <2> DEFINE Is(q, rec) == [phase |-> q, seen |-> rec]
  <2>3. Is("read", record[payload[j]]) \in Lost /\ Is("over", NoRecord) \in Lost
    BY <2>2 DEF Lost, Record
  <2>4. Kept(payload[j], NoRecord)
    BY DEF Kept
  <2>5. CASE LostPuts(j)
    BY <2>1, <2>3, <2>4, <2>5 DEF LostPuts
  <2>6. CASE LostReads(j) /\ StillToRun(payload[j])
    BY <2>1, <2>2, <2>3, <2>6 DEF LostReads
  <2>7. CASE LostReads(j) /\ ~StillToRun(payload[j])
    <3> DEFINE n == [lost[j] EXCEPT !.phase = "over"]
    <3>1. n \in Lost /\ n.phase = "over" /\ n.seen = lost[j].seen
      BY <2>1 DEF Lost
    <3>2. lost[j].phase = "none" => lost[j].seen.approvals = {}
      BY DEF IInv, Placed
    <3>3. lost' = [lost EXCEPT ![j] = n]
      BY <2>7 DEF LostReads
    <3> HIDE DEF n
    <3>4. Kept(payload[j], n.seen)
      BY <2>7, <3>1, <3>2 DEF LostReads, Kept
    <3>5. QED
      BY <2>1, <3>1, <3>3, <3>4
  <2>8. QED
    BY <2>5, <2>6, <2>7 DEF LostStep
<1>2. \A k \in Jobs : lost'[k] = IF k = j THEN n ELSE lost[k]
  BY <1>1 DEF IInv, Typed
<1>3. UNCHANGED <<call, hand, approvers, phase, payload, inFlight, handler, effects, token, frozen, waived, barred, shut>>
  BY DEF LostStep, LostReads, LostPuts, Queue!Tell, PutOutcome, approvalVars, queueVars, worldVars
<1>4. record' \in [Requests -> Record] /\ \A k \in Requests : Kept(k, record'[k])
  <2>1. CASE LostPuts(j)
    <3> DEFINE put == WithOutcome(l.seen, "lost", 0)
    <3>1. l.phase = "read" /\ record' = [record EXCEPT ![r] = put]
      BY <1>1, <2>1 DEF LostPuts, PutOutcome, WithOutcome
    <3>2. l.seen \in Record /\ "lost" \in Outcomes \cup {NULL} /\ 0 \in Nat
      BY DEF Lost, Record, Outcomes
    <3>3. put \in Record /\ put.approvals = l.seen.approvals
      BY <3>2, OutcomeTyped
    <3>4. Kept(r, put)
      BY <1>1, <3>1, <3>3 DEF IInv, CopiesKept, Kept
    <3> HIDE DEF put
    <3>5. QED
      BY <3>1, <3>3, <3>4, PutKept
  <2>2. CASE LostReads(j)
    BY <2>2 DEF LostReads, approvalVars, IInv, Typed, CopiesKept
  <2>3. QED
    BY <2>1, <2>2 DEF LostStep
<1>5. Typed'
  BY <1>1, <1>2, <1>3, <1>4 DEF IInv, Typed
<1>6. Placed'
  BY <1>1, <1>2, <1>3 DEF IInv, Placed
<1>7. CopiesKept'
  BY <1>1, <1>2, <1>3, <1>4 DEF IInv, CopiesKept, Kept
<1>8. HandedReviewed' /\ Refused'
  BY <1>3 DEF IInv, HandedReviewed, Enough, Refused
<1>9. QED
  BY <1>5, <1>6, <1>7, <1>8 DEF IInv

(* Revocation bars the jobs nobody has taken: none of them has a handler. *)
LEMMA WorldSteps ==
  ASSUME IInv, Revoke \/ Freeze \/ Thaw
  PROVE  IInv'
<1>1. UNCHANGED <<record, call, hand, approvers, phase, payload, inFlight, handler, lost, effects, waived>>
  BY DEF Revoke, Freeze, Thaw, approvalVars, queueVars, workVars
<1>2. Typed' /\ Placed' /\ CopiesKept' /\ HandedReviewed'
  BY <1>1 DEF IInv, Typed, Placed, CopiesKept, Kept, HandedReviewed, Enough
<1>3. Refused'
  <2>1. CASE Revoke
    <3>1. \A j \in Jobs : phase[j] # "taken" => handler[j].phase = "none" /\ effects[j] = 0
      BY DEF IInv, Placed
    <3>2. QED
      BY <1>1, <2>1, <3>1 DEF Revoke, IInv, Refused
  <2>2. CASE Freeze
    BY <1>1, <2>2 DEF Freeze, IInv, Refused
  <2>3. CASE Thaw
    BY <1>1, <2>3 DEF Thaw, IInv, Refused
  <2>4. QED
    BY <2>1, <2>2, <2>3
<1>4. QED
  BY <1>2, <1>3 DEF IInv

LEMMA InvInit == Init => IInv
<1> SUFFICES ASSUME Init PROVE IInv
  OBVIOUS
<1> USE NoRecordTyped, IdleTyped DEF Init, Approval!Init, Queue!Init
<1>1. "none" \in Approval!Statuses /\ [phase |-> "none", seen |-> NoRecord] \in Lost
  BY DEF Approval!Statuses, Lost, Record
<1>2. Typed
  BY <1>1 DEF Typed, Phases
<1>3. Placed
  BY DEF Placed, NoHandler
<1>4. CopiesKept
  BY <1>1 DEF CopiesKept, Kept, NoHandler
<1>5. HandedReviewed /\ Refused
  BY DEF HandedReviewed, Refused
<1>6. QED
  BY <1>2, <1>3, <1>4, <1>5 DEF IInv

LEMMA InvStep == IInv /\ [Next]_vars => IInv'
<1> SUFFICES ASSUME IInv, [Next]_vars PROVE IInv'
  OBVIOUS
<1>1. CASE UNCHANGED vars
  BY <1>1 DEF vars, approvalVars, queueVars, workVars, worldVars, IInv, Typed, Placed, CopiesKept, Kept,
              HandedReviewed, Enough, Refused
<1>2. ASSUME NEW c \in Calls, HandStep(c) PROVE IInv'
  BY <1>2, HandSteps, HandOverStep DEF HandStep
<1>3. QED
  BY <1>1, <1>2, AskSteps, HandSteps, TakeStep, WorkSteps, LostSteps, WorldSteps DEF Next

-----------------------------------------------------------------------------
(* No statement of a request touches the database before as many distinct reviewers  *)
(* approved it as it needs (decideApproval, settleDecision, enqueueExecution), for any *)
(* requests, reviewers and calls: whatever races lose or repeat, it is a reviewed       *)
(* request that is handed over.                                                        *)
THEOREM RunsReviewedHolds == Spec => []RunsReviewed
<1>1. IInv => RunsReviewed
  BY DEF IInv, Placed, HandedReviewed, Enough, RunsReviewed, Ran
<1>2. QED
  BY InvInit, InvStep, <1>1, PTL DEF Spec

(* A token revoked before a worker took the job runs nothing (runExecution asks for the *)
(* identity after it took the job), whoever hands the job over and whatever breaks.      *)
THEOREM RevokedRunsNothingHolds == Spec => []RevokedRunsNothing
<1>1. IInv => RevokedRunsNothing
  BY DEF IInv, Typed, Refused, RevokedRunsNothing, Ran
<1>2. QED
  BY InvInit, InvStep, <1>1, PTL DEF Spec

(* A job taken inside a freeze window writes nothing while it lasts, approved or not. *)
THEOREM FrozenRunsNothingHolds == Spec => []FrozenRunsNothing
<1>1. IInv => FrozenRunsNothing
  BY DEF IInv, Typed, Refused, FrozenRunsNothing, Ran
<1>2. QED
  BY InvInit, InvStep, <1>1, PTL DEF Spec

-----------------------------------------------------------------------------
(* Where studio calls come one after the other, a request is handed over once, and what its *)
(* one job, its lost handler and the call that hands it over hold of the record is a copy   *)
(* without an outcome as long as the record has none.                                       *)

OneCall == \A c, d \in Calls : c = d

Handed(j) == phase[j] # "none"
Open(c) == call[c].phase \in {"expiring", "deciding"}
Holding(c) == hand[c].phase # "idle"
Reads(j) == handler[j].phase \in {"read", "admitted", "running", "ending"}
AtWork(j) == phase[j] = "queued" \/ handler[j].phase = "called" \/ Reads(j)
Fresh(seen, status) == seen.status = status /\ seen.carried.outcome = NULL

(* A request is pending until a call approved it, and that call hands it to one job. *)
CallInOrder(c) ==
  /\ call[c].phase # "idle" => hand[c].phase = "idle"
  /\ Open(c) => record[call[c].request].status = "pending" /\ Fresh(call[c].seen, "pending")
  /\ Holding(c) => record[hand[c].request].status = "approved" /\ Fresh(hand[c].seen, "approved")
  /\ hand[c].phase = "recording" =>
       hand[c].job \in Jobs /\ Handed(hand[c].job) /\ payload[hand[c].job] = hand[c].request
  /\ Holding(c) /\ hand[c].phase # "recording" => \A j \in Jobs : Handed(j) => payload[j] # hand[c].request

(* A request that was handed over stays approved, in every copy of it, and has one job. *)
JobInOrder(j) ==
  /\ IF Handed(j) THEN record[payload[j]].status = "approved" ELSE payload[j] = NULL
  /\ Reads(j) => Fresh(handler[j].seen, "approved")
  /\ lost[j].phase = "read" => Fresh(lost[j].seen, "approved")
  /\ \A k \in Jobs : Handed(j) /\ Handed(k) /\ payload[j] = payload[k] => j = k

InOrder ==
  /\ \A c \in Calls : CallInOrder(c)
  /\ \A j \in Jobs : JobInOrder(j)
  /\ \A r \in Requests : record[r].status # "approved" => Outcome(r) = NULL

(* Whoever may still put the record of an undisturbed job found it without an outcome. *)
CallUnanswered(c) ==
  /\ hand[c].phase = "recording" => phase[hand[c].job] = "queued" \/ hand[c].job \in hasty
  /\ Holding(c) /\ (hand[c].phase = "recording" => hand[c].job \notin hasty) => Outcome(hand[c].request) = NULL
JobUnanswered(j) ==
  /\ AtWork(j) => Outcome(payload[j]) = NULL
  /\ lost[j].phase # "none" => handler[j].phase = "died"
  /\ lost[j].phase = "read" => Outcome(payload[j]) = NULL

Unanswered == (\A c \in Calls : CallUnanswered(c)) /\ \A j \in Jobs : j \notin hasty => JobUnanswered(j)

(* What a handler is about to put happened. *)
Counted(j) ==
  /\ handler[j].phase \in {"none", "called", "read", "admitted"} => handler[j].count = 0 /\ effects[j] = 0
  /\ handler[j].phase = "running" => handler[j].count = effects[j] /\ effects[j] < Length[payload[j]]
  /\ handler[j].phase = "ending" =>
       /\ handler[j].outcome \in Outcomes \ {"lost"}
       /\ handler[j].outcome = "done" => effects[j] = Length[payload[j]]
       /\ handler[j].outcome = "failed" => effects[j] \in {handler[j].count, handler[j].count + 1}
       /\ handler[j].outcome \in {"token_revoked", "freeze_window"} => effects[j] = 0

(* What is stored on an undisturbed record, and what was told of it. *)
TrueOf(r) ==
  /\ Outcome(r) = "done" => \E j \in JobsOf(r) : effects[j] = Length[r]
  /\ Outcome(r) = "failed" =>
       \E j \in JobsOf(r) : effects[j] \in {record[r].carried.count, record[r].carried.count + 1}
  /\ Outcome(r) \in {"token_revoked", "freeze_window"} => \A j \in JobsOf(r) : ~Ran(j)
ToldOf(r) ==
  IF record[r].status = "rejected" THEN announced[r] \subseteq {"rejected"}
  ELSE IF Outcome(r) = NULL THEN announced[r] = {} ELSE announced[r] \subseteq {Outcome(r)}

Truthful ==
  /\ announced \in [Requests -> SUBSET (Outcomes \cup {"rejected"})]
  /\ \A j \in Jobs : Counted(j)
  /\ \A r \in Requests : Undisturbed(r) => TrueOf(r) /\ ToldOf(r)

AloneInv == IInv /\ InOrder /\ Unanswered /\ Truthful

AnswerStays == \A r \in Requests : Outcome(r) # NULL /\ Undisturbed(r)' => Outcome(r)' = Outcome(r)

(* What of the invariant is about jobs and records, and what is about calls. *)
JobsSound ==
  /\ \A j \in Jobs : JobInOrder(j) /\ (j \notin hasty => JobUnanswered(j))
  /\ \A r \in Requests : record[r].status # "approved" => Outcome(r) = NULL
  /\ Truthful
CallSound(c) == CallInOrder(c) /\ CallUnanswered(c)

LEMMA Parts == AloneInv <=> IInv /\ JobsSound /\ \A c \in Calls : CallSound(c)
BY DEF AloneInv, InOrder, Unanswered, JobsSound, CallSound

LEMMA PartsStep ==
  ASSUME IInv', JobsSound', OneCall, NEW c \in Calls, CallSound(c)'
  PROVE  AloneInv'
<1>1. \A d \in Calls : d = c
  BY DEF OneCall
<1>2. (\A d \in Calls : CallInOrder(d) /\ CallUnanswered(d))'
  BY <1>1 DEF CallSound
<1>3. QED
  BY <1>2 DEF AloneInv, InOrder, Unanswered, JobsSound

LEMMA AloneTypes ==
  ASSUME AloneInv
  PROVE  /\ \A r \in Requests : record[r] \in Record /\ record[r].carried \in Work
         /\ \A c \in Calls : /\ call[c] \in Approval!Call /\ hand[c] \in Hand
                             /\ call[c].seen \in Record /\ hand[c].seen \in Record
                             /\ Open(c) => call[c].request \in Requests
                             /\ Holding(c) => hand[c].request \in Requests
         /\ \A j \in Jobs : /\ handler[j] \in Handler /\ handler[j].seen \in Record
                            /\ lost[j] \in Lost /\ lost[j].seen \in Record
                            /\ effects[j] \in Nat /\ phase[j] \in Phases
                            /\ Handed(j) => payload[j] \in Requests
                            /\ handler[j].phase # "none" => phase[j] = "taken"
                            /\ lost[j].phase # "none" => phase[j] = "taken"
                            /\ Ran(j) => handler[j].phase # "none"
                            /\ j \in inFlight => phase[j] = "taken"
BY DEF AloneInv, IInv, Typed, Placed, Record, Approval!Record, Approval!Call, Hand, Handler, Lost, Open, Holding,
       Handed, Ran

(* Steps that leave the records, the jobs and their handlers as they are. *)
LEMMA JobsQuiet ==
  ASSUME AloneInv, UNCHANGED <<record, phase, payload, handler, lost, effects, hasty, announced>>
  PROVE  JobsSound' /\ AnswerStays
BY DEF AloneInv, InOrder, Unanswered, Truthful, JobsSound, JobInOrder, JobUnanswered, Counted, TrueOf, ToldOf,
       Undisturbed, JobsOf, Ran, Handed, Reads, AtWork, Fresh, Outcome, AnswerStays

(* A put of a request nobody has handed over. *)
LEMMA UnhandedPut ==
  ASSUME AloneInv, NEW r \in Requests, record[r].status \in {"none", "pending"},
         NEW rec, record' = [record EXCEPT ![r] = rec], rec.carried.outcome = NULL,
         UNCHANGED <<phase, payload, handler, lost, effects, hasty>>,
         announced' = IF rec.status = "rejected" THEN [announced EXCEPT ![r] = @ \cup {"rejected"}] ELSE announced
  PROVE  JobsSound' /\ AnswerStays
<1>1. \A q \in Requests : record'[q] = IF q = r THEN rec ELSE record[q]
  BY DEF AloneInv, IInv, Typed
<1>2. \A j \in Jobs : Handed(j) => payload[j] # r /\ payload[j] \in Requests
  BY AloneTypes DEF AloneInv, InOrder, JobInOrder
<1>3. Outcome(r) = NULL /\ rec.carried.outcome = NULL
  BY DEF AloneInv, InOrder
<1>4. \A q \in Requests : Outcome(q)' = Outcome(q)
  BY <1>1, <1>3 DEF Outcome
<1>5. ASSUME NEW j \in Jobs PROVE JobInOrder(j)'
  BY <1>1, <1>2 DEF AloneInv, InOrder, JobInOrder, Handed, Reads, Fresh
<1>6. ASSUME NEW j \in Jobs, j \notin hasty PROVE JobUnanswered(j)'
  <2>1. AtWork(j) \/ lost[j].phase = "read" => Handed(j)
    BY AloneTypes DEF AtWork, Reads, Handed
  <2>2. QED
    BY <1>2, <1>4, <1>6, <2>1 DEF AloneInv, Unanswered, JobUnanswered, AtWork, Reads
<1>7. ASSUME NEW q \in Requests, record'[q].status # "approved" PROVE Outcome(q)' = NULL
  BY <1>1, <1>3, <1>4, <1>7 DEF AloneInv, InOrder
<1>8. Truthful'
  <2>1. announced' \in [Requests -> SUBSET (Outcomes \cup {"rejected"})]
    BY DEF AloneInv, Truthful
  <2>2. \A j \in Jobs : Counted(j)'
    BY DEF AloneInv, Truthful, Counted
  <2>3. ASSUME NEW q \in Requests, Undisturbed(q)' PROVE TrueOf(q)' /\ ToldOf(q)'
    <3>1. Undisturbed(q) /\ TrueOf(q) /\ ToldOf(q)
      BY <2>3 DEF AloneInv, Truthful, Undisturbed, JobsOf
    <3>2. CASE q # r
      <4>1. record'[q] = record[q] /\ announced'[q] = announced[q]
        BY <1>1, <3>2 DEF AloneInv, Truthful
      <4>2. QED
        BY <3>1, <4>1 DEF TrueOf, ToldOf, JobsOf, Ran, Outcome
    <3>3. CASE q = r
      <4>1. TrueOf(r)'
        BY <1>3, <1>4, NullAssumption DEF TrueOf, Outcomes
      <4>2. announced[r] = {}
        BY <1>3, <3>1, <3>3 DEF ToldOf
      <4>3. announced'[r] = IF rec.status = "rejected" THEN {"rejected"} ELSE {}
        BY <4>2 DEF AloneInv, Truthful
      <4>4. ToldOf(r)'
        BY <1>1, <1>3, <1>4, <4>3 DEF ToldOf
      <4>5. QED
        BY <3>3, <4>1, <4>4
    <3>4. QED
      BY <3>2, <3>3
  <2>4. QED
    BY <2>1, <2>2, <2>3 DEF Truthful
<1>9. QED
  BY <1>4, <1>5, <1>6, <1>7, <1>8 DEF JobsSound, AnswerStays

(* An outcome put on an approved request: on a disturbed one it may be anything, on an *)
(* undisturbed one it is the first and tells what happened.                            *)
LEMMA AnswerPut ==
  ASSUME AloneInv, NEW r \in Requests, record[r].status = "approved",
         NEW rec \in Record, record' = [record EXCEPT ![r] = rec], rec.status = "approved",
         rec.carried.outcome \in Outcomes,
         announced' = [announced EXCEPT ![r] = @ \cup {rec.carried.outcome}],
         UNCHANGED <<phase, payload, effects, hasty>>,
         \A j \in Jobs :
           /\ handler'[j] = handler[j] \/ handler'[j].phase = "ended"
           /\ lost'[j] = lost[j] \/ lost'[j].phase = "over"
           /\ ~(Handed(j) /\ payload[j] = r) => handler'[j] = handler[j] /\ lost'[j] = lost[j]
           /\ Handed(j) /\ payload[j] = r /\ j \notin hasty =>
                /\ ~AtWork(j)' /\ lost'[j].phase # "read"
                /\ lost'[j].phase # "none" => handler'[j].phase = "died",
         Undisturbed(r) => Outcome(r) = NULL /\ TrueOf(r)'
  PROVE  JobsSound' /\ AnswerStays
<1>1. \A q \in Requests : record'[q] = IF q = r THEN rec ELSE record[q]
  BY DEF AloneInv, IInv, Typed
<1>2. \A q \in Requests : q # r => Outcome(q)' = Outcome(q)
  BY <1>1 DEF Outcome
<1>3. Outcome(r)' = rec.carried.outcome /\ Outcome(r)' # NULL
  BY <1>1, NullAssumption DEF Outcome
<1>4. \A q \in Requests : Undisturbed(q)' = Undisturbed(q)
  BY DEF Undisturbed, JobsOf
<1>5. ASSUME NEW j \in Jobs PROVE JobInOrder(j)'
  BY <1>1, <1>5, AloneTypes DEF AloneInv, InOrder, JobInOrder, Handed, Reads, Fresh
<1>6. ASSUME NEW j \in Jobs, j \notin hasty' PROVE JobUnanswered(j)'
  <2>1. CASE Handed(j) /\ payload[j] = r
    BY <1>6, <2>1 DEF JobUnanswered
  <2>2. CASE ~(Handed(j) /\ payload[j] = r)
    <3>1. JobUnanswered(j) /\ (AtWork(j) \/ lost[j].phase = "read" => Handed(j) /\ payload[j] \in Requests)
      BY <1>6, AloneTypes DEF AloneInv, Unanswered, AtWork, Reads, Handed
    <3>2. handler'[j] = handler[j] /\ lost'[j] = lost[j]
      BY <2>2
    <3>3. QED
      BY <1>2, <2>2, <3>1, <3>2 DEF JobUnanswered, AtWork, Reads
  <2>3. QED
    BY <2>1, <2>2
<1>7. ASSUME NEW q \in Requests, record'[q].status # "approved" PROVE Outcome(q)' = NULL
  BY <1>1, <1>2, <1>7 DEF AloneInv, InOrder
<1>8. Truthful'
  <2>1. announced' \in [Requests -> SUBSET (Outcomes \cup {"rejected"})]
    BY DEF AloneInv, Truthful
  <2>2. \A j \in Jobs : Counted(j)'
    BY DEF AloneInv, Truthful, Counted
  <2>3. ASSUME NEW q \in Requests, Undisturbed(q)' PROVE TrueOf(q)' /\ ToldOf(q)'
    <3>1. Undisturbed(q) /\ TrueOf(q) /\ ToldOf(q)
      BY <1>4, <2>3 DEF AloneInv, Truthful
    <3>2. CASE q # r
      <4>1. record'[q] = record[q] /\ announced'[q] = announced[q]
        BY <1>1, <3>2 DEF AloneInv, Truthful
      <4>2. QED
        BY <3>1, <4>1 DEF TrueOf, ToldOf, JobsOf, Ran, Outcome
    <3>3. CASE q = r
      <4>1. announced[r] = {}
        BY <3>1, <3>3 DEF ToldOf
      <4>2. announced'[r] = {rec.carried.outcome}
        BY <4>1 DEF AloneInv, Truthful
      <4>3. ToldOf(r)'
        BY <1>1, <1>3, <4>2 DEF ToldOf
      <4>4. QED
        BY <3>1, <3>3, <4>3
    <3>4. QED
      BY <3>2, <3>3
  <2>4. QED
    BY <2>1, <2>2, <2>3 DEF Truthful
<1>9. AnswerStays
  BY <1>2, <1>4 DEF AnswerStays
<1>10. QED
  BY <1>5, <1>6, <1>7, <1>8, <1>9 DEF JobsSound
(* A step of a job's handler that puts nothing. *)
LEMMA HandlerMoves ==
  ASSUME AloneInv, NEW j \in Jobs, NEW h, NEW n \in Nat,
         handler' = [handler EXCEPT ![j] = h], effects' = [effects EXCEPT ![j] = n],
         UNCHANGED <<record, phase, payload, lost, hasty, announced>>,
         phase[j] = "taken",
         h.phase \in {"read", "admitted", "running", "ending"} => Fresh(h.seen, "approved"),
         j \notin hasty /\ h.phase \in {"called", "read", "admitted", "running", "ending"} => Outcome(payload[j]) = NULL,
         j \notin hasty /\ lost[j].phase # "none" => h.phase = "died",
         n # effects[j] => Reads(j),
         Counted(j)'
  PROVE  JobsSound' /\ AnswerStays
<1>1. \A k \in Jobs : /\ handler'[k] = IF k = j THEN h ELSE handler[k]
                      /\ effects'[k] = IF k = j THEN n ELSE effects[k]
  BY DEF AloneInv, IInv, Typed
<1>2. \A q \in Requests : Outcome(q)' = Outcome(q) /\ Undisturbed(q)' = Undisturbed(q)
  BY DEF Outcome, Undisturbed, JobsOf
<1>3. ASSUME NEW k \in Jobs PROVE JobInOrder(k)'
  BY <1>1 DEF AloneInv, InOrder, JobInOrder, Handed, Reads, Fresh
<1>4. ASSUME NEW k \in Jobs, k \notin hasty' PROVE JobUnanswered(k)'
  <2>1. JobUnanswered(k) /\ Outcome(payload[k])' = Outcome(payload[k])
    BY <1>4 DEF AloneInv, Unanswered, Outcome
  <2>2. CASE k = j
    BY <1>1, <1>4, <2>1, <2>2 DEF JobUnanswered, AtWork, Reads
  <2>3. CASE k # j
    BY <1>1, <2>1, <2>3 DEF JobUnanswered, AtWork, Reads
  <2>4. QED
    BY <2>2, <2>3
<1>5. \A q \in Requests : record'[q].status # "approved" => Outcome(q)' = NULL
  BY <1>2 DEF AloneInv, InOrder
<1>6. Truthful'
  <2>1. announced' \in [Requests -> SUBSET (Outcomes \cup {"rejected"})]
    BY DEF AloneInv, Truthful
  <2>2. ASSUME NEW k \in Jobs PROVE Counted(k)'
    BY <1>1 DEF AloneInv, Truthful, Counted
  <2>3. ASSUME NEW q \in Requests, Undisturbed(q)' PROVE TrueOf(q)' /\ ToldOf(q)'
    <3>1. Undisturbed(q) /\ TrueOf(q) /\ ToldOf(q)
      BY <1>2, <2>3 DEF AloneInv, Truthful
    <3>2. ToldOf(q)'
      BY <3>1 DEF ToldOf, Outcome
    <3>3. CASE \A k \in JobsOf(q) : effects'[k] = effects[k]
      <4>1. JobsOf(q)' = JobsOf(q) /\ record'[q] = record[q]
        BY DEF JobsOf
      <4>2. \A k \in JobsOf(q) : effects'[k] = effects[k]
        BY <3>3
      <4>3. TrueOf(q)'
        BY <3>1, <4>1, <4>2 DEF TrueOf, Ran, Outcome
      <4>4. QED
        BY <3>2, <4>3
    <3>4. CASE ~ \A k \in JobsOf(q) : effects'[k] = effects[k]
      <4>1. payload[j] = q /\ Reads(j)
        BY <1>1, <3>4 DEF JobsOf
      <4>2. j \notin hasty
        BY <3>1, <4>1 DEF Undisturbed, JobsOf
      <4>3. Outcome(q) = NULL
        BY <4>1, <4>2 DEF AloneInv, Unanswered, JobUnanswered, AtWork
      <4>4. TrueOf(q)'
        BY <1>2, <4>3, NullAssumption DEF TrueOf, Outcomes
      <4>5. QED
        BY <3>2, <4>4
    <3>5. QED
      BY <3>2, <3>3, <3>4
  <2>4. QED
    BY <2>1, <2>2, <2>3 DEF Truthful
<1>7. AnswerStays
  BY <1>2 DEF AnswerStays
<1>8. QED
  BY <1>3, <1>4, <1>5, <1>6, <1>7 DEF JobsSound

(* Where nothing a call holds or reads moves, what it holds stays sound. *)
LEMMA CallsQuiet ==
  ASSUME AloneInv, UNCHANGED <<record, call, hand, phase, payload>>, hasty \subseteq hasty'
  PROVE  \A c \in Calls : CallSound(c)'
BY DEF AloneInv, InOrder, Unanswered, CallSound, CallInOrder, CallUnanswered, Open, Holding, Handed, Fresh, Outcome

LEMMA QuietParts ==
  ASSUME AloneInv, IInv', JobsSound', \A c \in Calls : CallSound(c)'
  PROVE  AloneInv'
BY DEF AloneInv, InOrder, Unanswered, JobsSound, CallSound

-----------------------------------------------------------------------------
(* Submissions, reads, decisions. *)
LEMMA AskAlone ==
  ASSUME AloneInv, IInv', OneCall, NEW r \in Requests,
         SubmitForReview(r) \/ \E c \in Calls : SubmitAllowed(c, r) \/ Reading(c, r)
  PROVE  AloneInv' /\ AnswerStays
<1> USE DEF NoWork, Approval!NewRecord
<1>1. CASE SubmitForReview(r)
  <2> DEFINE rec == Approval!NewRecord("pending")
  <2>1. /\ record[r].status = "none" /\ rec.status = "pending" /\ rec.carried.outcome = NULL
        /\ record' = [record EXCEPT ![r] = rec] /\ announced' = announced
        /\ UNCHANGED <<call, hand, phase, payload, handler, lost, effects, hasty>>
    BY <1>1 DEF SubmitForReview, Accepted, Approval!Put, queueVars, workVars, worldVars
  <2> HIDE DEF rec
  <2>2. JobsSound' /\ AnswerStays
    BY <2>1, UnhandedPut
  <2>3. ASSUME NEW c \in Calls PROVE CallSound(c)'
    <3>1. CallInOrder(c) /\ CallUnanswered(c)
      BY DEF AloneInv, InOrder, Unanswered
    <3>2. \A q \in Requests : q # r => record'[q] = record[q]
      BY <2>1
    <3>3. /\ Open(c) => call[c].request # r /\ call[c].request \in Requests
          /\ Holding(c) => hand[c].request # r /\ hand[c].request \in Requests
      BY <2>1, <3>1, AloneTypes DEF CallInOrder
    <3>4. QED
      BY <2>1, <3>1, <3>2, <3>3 DEF CallSound, CallInOrder, CallUnanswered, Open, Holding, Handed, Outcome
  <2>4. QED
    BY <2>2, <2>3, QuietParts
<1>2. ASSUME NEW c \in Calls, SubmitAllowed(c, r) PROVE AloneInv' /\ AnswerStays
  <2> DEFINE rec == Approval!NewRecord("approved")
             h == [IdleHand EXCEPT !.phase = "handing", !.request = r, !.seen = rec]
  <2>1. /\ record[r].status = "none" /\ rec.status = "approved" /\ rec.carried.outcome = NULL
        /\ record' = [record EXCEPT ![r] = rec] /\ announced' = announced
        /\ UNCHANGED <<call, phase, payload, handler, lost, effects, hasty>>
        /\ call[c].phase = "idle" /\ hand' = [hand EXCEPT ![c] = h]
    BY <1>2 DEF SubmitAllowed, Accepted, Free, Approval!Put, queueVars, workVars, worldVars
  <2>2. h.phase = "handing" /\ h.request = r /\ h.seen = rec
    BY DEF IdleHand
  <2>3. record'[r] = rec /\ hand'[c] = h
    BY <2>1 DEF AloneInv, IInv, Typed
  <2> HIDE DEF rec, h
  <2>4. JobsSound' /\ AnswerStays
    BY <2>1, UnhandedPut
  <2>5. \A j \in Jobs : Handed(j) => payload[j] # r
    BY <2>1 DEF AloneInv, InOrder, JobInOrder
  <2>6. CallSound(c)'
    BY <2>1, <2>2, <2>3, <2>5 DEF CallSound, CallInOrder, CallUnanswered, Open, Holding, Handed, Fresh, Outcome
  <2>7. QED
    BY <2>4, <2>6, PartsStep
<1>3. ASSUME NEW c \in Calls, Reading(c, r) PROVE AloneInv' /\ AnswerStays
  <2>1. PICK d : /\ call' = [call EXCEPT ![c] = d] /\ d.request = r /\ d.seen = record[r]
                 /\ record[r].status = "pending"
    <3>1. CASE Approval!Read(c, r)
      <4> DEFINE e == [Approval!IdleCall EXCEPT !.phase = "expiring", !.request = r, !.seen = record[r]]
      <4>1. e.request = r /\ e.seen = record[r]
        BY DEF Approval!IdleCall
      <4>2. call' = [call EXCEPT ![c] = e] /\ record[r].status = "pending"
        BY <3>1 DEF Approval!Read, Approval!Expired
      <4> HIDE DEF e
      <4>3. QED
        BY <4>1, <4>2
    <3>2. ASSUME NEW who \in Reviewers, NEW verdict \in {"approve", "reject"}, Approval!DecideRead(c, r, who, verdict)
          PROVE  \E d : /\ call' = [call EXCEPT ![c] = d] /\ d.request = r /\ d.seen = record[r]
                       /\ record[r].status = "pending"
      <4> DEFINE e == [phase |-> "deciding", request |-> r, who |-> who, verdict |-> verdict, seen |-> record[r]]
      <4>1. e.request = r /\ e.seen = record[r]
        OBVIOUS
      <4>2. call' = [call EXCEPT ![c] = e] /\ record[r].status = "pending"
        BY <3>2 DEF Approval!DecideRead, Approval!MayDecide
      <4> HIDE DEF e
      <4>3. QED
        BY <4>1, <4>2
    <3>3. QED
      BY <1>3, <3>1, <3>2 DEF Reading
  <2>2. /\ UNCHANGED <<record, hand, phase, payload, handler, lost, effects, hasty, announced>>
        /\ hand[c].phase = "idle"
    BY <1>3 DEF Reading, Free, Approval!Read, Approval!DecideRead, queueVars, workVars, worldVars
  <2>3. call'[c] = d
    BY <2>1 DEF AloneInv, IInv, Typed
  <2>4. Outcome(r) = NULL
    BY <2>1 DEF AloneInv, InOrder
  <2>5. CallSound(c)'
    BY <2>1, <2>2, <2>3, <2>4 DEF CallSound, CallInOrder, CallUnanswered, Open, Holding, Handed, Fresh, Outcome
  <2>6. QED
    BY <2>2, <2>5, JobsQuiet, PartsStep
<1>4. QED
  BY <1>1, <1>2, <1>3

LEMMA DecideAlone ==
  ASSUME AloneInv, IInv', OneCall, NEW c \in Calls, Expiring(c) \/ Decide(c)
  PROVE  AloneInv' /\ AnswerStays
<1> DEFINE r == call[c].request
           old == call[c].seen
<1>1. Open(c)
  BY DEF Expiring, Decide, Approval!Expire, Approval!DecidePut, Open
<1>2. /\ r \in Requests /\ old \in Record /\ record[r].status = "pending" /\ old.status = "pending"
      /\ old.carried.outcome = NULL /\ hand[c].phase = "idle"
  BY <1>1, AloneTypes DEF AloneInv, InOrder, CallInOrder, Open, Fresh
<1>3. PICK rec : /\ record' = [record EXCEPT ![r] = rec] /\ rec.carried = old.carried
                 /\ announced' = IF rec.status = "rejected" THEN [announced EXCEPT ![r] = @ \cup {"rejected"}] ELSE announced
                 /\ \/ hand' = hand
                    \/ /\ rec.status = "approved"
                       /\ hand' = [hand EXCEPT ![c] = [IdleHand EXCEPT !.phase = "settling", !.request = r, !.seen = rec]]
  <2>1. CASE Expiring(c)
    <3> DEFINE put == [old EXCEPT !.status = "expired"]
    <3>1. put.status = "expired" /\ put.carried = old.carried
      BY <1>2 DEF Record, Approval!Record
    <3>2. record' = [record EXCEPT ![r] = put] /\ UNCHANGED <<hand, announced>>
      BY <2>1 DEF Expiring, Approval!Expire, Approval!Put
    <3> HIDE DEF put
    <3>3. QED
      BY <3>1, <3>2
  <2>2. CASE Decide(c)
    <3> DEFINE put == Approval!Decided(call[c])
    <3>1. put.carried = old.carried
      BY <1>2 DEF Approval!Decided, Record, Approval!Record
    <3>2. /\ record' = [record EXCEPT ![r] = put]
          /\ hand' = IF put.status = "approved"
                     THEN [hand EXCEPT ![c] = [IdleHand EXCEPT !.phase = "settling", !.request = r, !.seen = put]] ELSE hand
          /\ announced' = IF put.status = "rejected" THEN [announced EXCEPT ![r] = @ \cup {"rejected"}] ELSE announced
      BY <2>2 DEF Decide, GoesOn, Announce, Approval!DecidePut, Approval!Put
    <3> HIDE DEF put
    <3>3. QED
      BY <3>1, <3>2
  <2>3. QED
    BY <2>1, <2>2
<1>4. UNCHANGED <<phase, payload, handler, lost, effects, hasty>>
  BY DEF Expiring, Decide, queueVars, workVars, worldVars
<1>5. ~Open(c)' /\ (hand'[c].phase # "idle" => call'[c].phase = "idle")
  <2>1. call \in [Calls -> Approval!Call]
    BY DEF AloneInv, IInv, Typed
  <2>2. CASE Expiring(c)
    BY <1>2, <2>1, <2>2 DEF Expiring, Approval!Expire, Open, Approval!IdleCall
  <2>3. CASE Decide(c)
    BY <2>1, <2>3 DEF Decide, Approval!DecidePut, Approval!Ends, Open, Approval!IdleCall
  <2>4. QED
    BY <2>2, <2>3
<1>6. /\ record'[r] = rec
      /\ \/ hand'[c] = hand[c]
         \/ hand'[c].phase = "settling" /\ hand'[c].request = r /\ hand'[c].seen = rec /\ rec.status = "approved"
  <2> HIDE DEF r, old
  <2> DEFINE h == [IdleHand EXCEPT !.phase = "settling", !.request = r, !.seen = rec]
  <2>1. h.phase = "settling" /\ h.request = r /\ h.seen = rec
    BY DEF IdleHand
  <2>2. hand' = hand \/ (rec.status = "approved" /\ hand' = [hand EXCEPT ![c] = h])
    BY <1>3
  <2>3. record \in [Requests -> Record] /\ hand \in [Calls -> Hand]
    BY DEF AloneInv, IInv, Typed
  <2> HIDE DEF h
  <2>4. record'[r] = rec
    BY <1>2, <1>3, <2>3
  <2>5. QED
    BY <2>1, <2>2, <2>3, <2>4
<1>7. JobsSound' /\ AnswerStays
  BY <1>2, <1>3, <1>4, UnhandedPut
<1>8. \A j \in Jobs : Handed(j) => payload[j] # r
  BY <1>2 DEF AloneInv, InOrder, JobInOrder
<1>9. CallSound(c)'
  <2> HIDE DEF r, old
  <2>1. CASE hand'[c].phase = "idle"
    BY <1>5, <2>1 DEF CallSound, CallInOrder, CallUnanswered, Holding
  <2>2. CASE hand'[c].phase # "idle"
    BY <1>2, <1>3, <1>4, <1>5, <1>6, <1>8, <2>2 DEF CallSound, CallInOrder, CallUnanswered, Holding, Handed, Fresh, Outcome
  <2>3. QED
    BY <2>1, <2>2
<1>10. QED
  BY <1>7, <1>9, PartsStep

(* The call that hands a request over: it holds the record as the decision left it. *)
LEMMA HandAlone ==
  ASSUME AloneInv, IInv', OneCall, NEW c \in Calls,
         SettleToken(c) \/ FailWithout(c) \/ RecordJob(c) \/ CallBreaks(c)
  PROVE  AloneInv' /\ AnswerStays
<1>1. PICK h \in Hand : h = hand[c]
  BY AloneTypes
<1>2. CallInOrder(c) /\ CallUnanswered(c)
  BY DEF AloneInv, InOrder, Unanswered
<1>3. /\ UNCHANGED <<phase, payload, handler, lost, effects, hasty>>
      /\ record \in [Requests -> Record] /\ hand \in [Calls -> Hand] /\ call \in [Calls -> Approval!Call]
  BY DEF SettleToken, FailWithout, RecordJob, CallBreaks, queueVars, workVars, worldVars, AloneInv, IInv, Typed
<1>4. h.phase # "idle" => /\ h.request \in Requests /\ h.seen \in Record /\ record[h.request].status = "approved"
                          /\ h.seen.status = "approved" /\ h.seen.carried.outcome = NULL /\ call[c].phase = "idle"
  BY <1>1, <1>2, AloneTypes DEF CallInOrder, Holding, Fresh
<1>5. CASE SettleToken(c)
  <2>1. JobsSound' /\ AnswerStays
    BY <1>3, <1>5, JobsQuiet DEF SettleToken, approvalVars
  <2>2. PICK q \in {"handing", "failing"} : hand' = [hand EXCEPT ![c].phase = q] /\ h.phase = "settling"
    BY <1>1, <1>5 DEF SettleToken
  <2>3. hand'[c] = [h EXCEPT !.phase = q]
    BY <1>1, <1>3, <2>2
  <2>4. hand'[c].phase = q /\ hand'[c].request = h.request /\ hand'[c].seen = h.seen
    BY <2>3 DEF Hand
  <2>5. record' = record /\ call' = call
    BY <1>5 DEF SettleToken, approvalVars
  <2>6. CallSound(c)'
    BY <1>1, <1>2, <1>3, <1>4, <2>2, <2>4, <2>5
       DEF CallSound, CallInOrder, CallUnanswered, Open, Holding, Handed, Fresh, Outcome
  <2>7. QED
    BY <2>1, <2>6, PartsStep
<1>6. CASE CallBreaks(c)
  <2>1. JobsSound' /\ AnswerStays
    BY <1>3, <1>6, JobsQuiet DEF CallBreaks
  <2>2. hand'[c].phase = "idle" /\ call'[c].phase = "idle"
    BY <1>3, <1>6 DEF CallBreaks, IdleHand, Approval!IdleCall
  <2>3. CallSound(c)'
    BY <2>2 DEF CallSound, CallInOrder, CallUnanswered, Open, Holding
  <2>4. QED
    BY <2>1, <2>3, PartsStep
<1>7. ASSUME FailWithout(c) \/ RecordJob(c) PROVE CallSound(c)'
  <2>1. hand'[c].phase = "idle" /\ call' = call
    BY <1>3, <1>7 DEF FailWithout, RecordJob, PutOutcome, IdleHand
  <2>2. h.phase # "idle"
    BY <1>1, <1>7 DEF FailWithout, RecordJob
  <2>3. QED
    BY <1>4, <2>1, <2>2 DEF CallSound, CallInOrder, CallUnanswered, Open, Holding
<1>8. CASE FailWithout(c)
  <2> DEFINE rec == WithOutcome(h.seen, "token_revoked", 0)
  <2>1. h.phase = "failing" /\ h.request \in Requests
    BY <1>1, <1>4, <1>8 DEF FailWithout
  <2>2. rec \in Record /\ rec.status = "approved" /\ rec.carried.outcome = "token_revoked"
    <3>1. "token_revoked" \in Outcomes \cup {NULL} /\ 0 \in Nat /\ h.seen.carried \in Work
      BY <1>4, <2>1 DEF Outcomes, Record, Approval!Record
    <3>2. rec \in Record
      BY <1>4, <2>1, <3>1, OutcomeTyped
    <3>3. QED
      BY <1>4, <2>1, <3>1, <3>2 DEF WithOutcome, Record, Approval!Record, Work
  <2>3. record' = [record EXCEPT ![h.request] = rec]
    BY <1>1, <1>8 DEF FailWithout, PutOutcome, WithOutcome
  <2>4. announced' = [announced EXCEPT ![h.request] = @ \cup {rec.carried.outcome}]
    BY <1>1, <1>8, <2>2 DEF FailWithout, PutOutcome, Announce
  <2>5. \A j \in Jobs : ~(Handed(j) /\ payload[j] = h.request)
    BY <1>1, <1>2, <2>1 DEF CallInOrder, Holding
  <2>6. Outcome(h.request) = NULL
    BY <1>1, <1>2, <2>1 DEF CallUnanswered, Holding
  <2>7. \A j \in Jobs : payload[j] = h.request => ~Ran(j)
    BY <2>5, AloneTypes DEF Handed
  <2> HIDE DEF rec
  <2>8. record'[h.request] = rec
    BY <1>3, <2>1, <2>3
  <2>9. TrueOf(h.request)'
    BY <1>3, <2>2, <2>7, <2>8 DEF TrueOf, Outcome, JobsOf, Ran
  <2>10. JobsSound' /\ AnswerStays
    BY <1>3, <1>4, <2>1, <2>2, <2>3, <2>4, <2>5, <2>6, <2>9, AnswerPut DEF Outcomes
  <2>11. QED
    BY <1>7, <1>8, <2>10, PartsStep
<1>9. CASE RecordJob(c)
  <2> DEFINE rec == [h.seen EXCEPT !.carried.job = h.job]
  <2>1. /\ h.phase = "recording" /\ h.request \in Requests /\ h.job \in Jobs /\ Handed(h.job)
        /\ payload[h.job] = h.request
    BY <1>1, <1>2, <1>4, <1>9 DEF RecordJob, CallInOrder
  <2>2. rec.status = "approved" /\ rec.carried.outcome = NULL
    BY <1>4, <2>1 DEF Record, Approval!Record, Work
  <2>3. record' = [record EXCEPT ![h.request] = rec] /\ announced' = announced
    BY <1>1, <1>9 DEF RecordJob, Approval!Put
  <2> HIDE DEF rec
  <2>4. \A q \in Requests : record'[q] = IF q = h.request THEN rec ELSE record[q]
    BY <1>3, <2>3
  <2>5. \A q \in Requests : q # h.request => Outcome(q)' = Outcome(q)
    BY <2>4 DEF Outcome
  <2>6. Outcome(h.request)' = NULL
    BY <2>1, <2>2, <2>4 DEF Outcome
  <2>7. \A q \in Requests : Undisturbed(q)' = Undisturbed(q)
    BY <1>3 DEF Undisturbed, JobsOf
  <2>8. Undisturbed(h.request) => Outcome(h.request) = NULL
    BY <1>1, <1>2, <2>1 DEF Undisturbed, JobsOf, CallUnanswered, Holding
  <2>9. AnswerStays
    BY <2>5, <2>7, <2>8 DEF AnswerStays
  <2>10. ASSUME NEW j \in Jobs PROVE JobInOrder(j)' /\ (j \notin hasty' => JobUnanswered(j)')
    <3>1. JobInOrder(j)'
      BY <1>3, <2>2, <2>4, AloneTypes DEF AloneInv, InOrder, JobInOrder, Handed, Reads, Fresh
    <3>2. AtWork(j) \/ lost[j].phase = "read" => Handed(j) /\ payload[j] \in Requests
      BY AloneTypes DEF AtWork, Reads, Handed
    <3>3. CASE Handed(j) /\ payload[j] = h.request
      BY <1>3, <2>6, <3>1, <3>3 DEF AloneInv, Unanswered, JobUnanswered, AtWork, Reads
    <3>4. CASE ~(Handed(j) /\ payload[j] = h.request)
      BY <1>3, <2>5, <3>1, <3>2, <3>4 DEF AloneInv, Unanswered, JobUnanswered, AtWork, Reads
    <3>5. QED
      BY <3>3, <3>4
  <2>11. \A q \in Requests : record'[q].status # "approved" => Outcome(q)' = NULL
    BY <2>4, <2>5, <2>6 DEF AloneInv, InOrder
  <2>12. Truthful'
    <3>1. announced' \in [Requests -> SUBSET (Outcomes \cup {"rejected"})] /\ \A j \in Jobs : Counted(j)'
      BY <1>3, <2>3 DEF AloneInv, Truthful, Counted
    <3>2. ASSUME NEW q \in Requests, Undisturbed(q)' PROVE TrueOf(q)' /\ ToldOf(q)'
      <4>1. Undisturbed(q) /\ TrueOf(q) /\ ToldOf(q)
        BY <2>7, <3>2 DEF AloneInv, Truthful
      <4>2. CASE q # h.request
        BY <1>3, <2>3, <2>4, <4>1, <4>2 DEF TrueOf, ToldOf, JobsOf, Ran, Outcome
      <4>3. CASE q = h.request
        <5>1. TrueOf(q)'
          BY <2>6, <4>3, NullAssumption DEF TrueOf, Outcomes
        <5>2. announced'[q] = {}
          BY <1>4, <2>1, <2>3, <2>8, <4>1, <4>3 DEF ToldOf
        <5>3. ToldOf(q)'
          BY <2>6, <4>3, <5>2 DEF ToldOf
        <5>4. QED
          BY <5>1, <5>3
      <4>4. QED
        BY <4>2, <4>3
    <3>3. QED
      BY <3>1, <3>2 DEF Truthful
  <2>13. QED
    BY <1>7, <1>9, <2>9, <2>10, <2>11, <2>12, PartsStep DEF JobsSound
<1>10. QED
  BY <1>5, <1>6, <1>8, <1>9

(* The hand-over: the request had no job, and has one nobody has touched. *)
LEMMA HandOverAlone ==
  ASSUME AloneInv, IInv', OneCall, NEW c \in Calls, NEW j \in Jobs, HandOver(c, j)
  PROVE  AloneInv' /\ AnswerStays
<1>1. PICK h \in Hand : h = hand[c] /\ h.phase = "handing"
  BY AloneTypes DEF HandOver
<1>2. CallInOrder(c) /\ CallUnanswered(c)
  BY DEF AloneInv, InOrder, Unanswered
<1>3. /\ h.request \in Requests /\ record[h.request].status = "approved" /\ Outcome(h.request) = NULL
      /\ Fresh(h.seen, "approved") /\ call[c].phase = "idle" /\ \A k \in Jobs : Handed(k) => payload[k] # h.request
  BY <1>1, <1>2, AloneTypes DEF CallInOrder, CallUnanswered, Holding
<1>4. /\ phase[j] = "none" /\ \A k \in Jobs : /\ phase'[k] = IF k = j THEN "queued" ELSE phase[k]
                                              /\ payload'[k] = IF k = j THEN h.request ELSE payload[k]
      /\ handler[j].phase = "none" /\ lost[j].phase = "none" /\ handler[j] = NoHandler /\ effects[j] = 0
      /\ payload[j] = NULL
  BY <1>1 DEF HandOver, Queue!Submit, AloneInv, IInv, Typed, Placed, InOrder, JobInOrder, Handed
<1>5. UNCHANGED <<record, call, handler, lost, effects, hasty, announced>>
  BY DEF HandOver, approvalVars, workVars, worldVars
<1>6. /\ hand'[c].phase = "recording" /\ hand'[c].request = h.request /\ hand'[c].seen = h.seen /\ hand'[c].job = j
  <2>1. hand'[c] = [h EXCEPT !.phase = "recording", !.job = j]
    BY <1>1 DEF HandOver, AloneInv, IInv, Typed
  <2>2. QED
    BY <2>1 DEF Hand
<1>7. ASSUME NEW k \in Jobs PROVE JobInOrder(k)' /\ (k \notin hasty' => JobUnanswered(k)')
  <2>1. JobInOrder(k) /\ (k \notin hasty => JobUnanswered(k))
    BY DEF AloneInv, InOrder, Unanswered
  <2>2. k # j => (Handed(k)' <=> Handed(k)) /\ payload'[k] = payload[k]
    BY <1>4 DEF Handed
  <2>3. Handed(j)' /\ payload'[j] = h.request
    BY <1>4 DEF Handed
  <2>4. (\A i \in Jobs : Handed(k) /\ Handed(i) /\ payload[k] = payload[i] => k = i)'
    BY <1>3, <1>4, <2>1, <2>2, <2>3 DEF JobInOrder, Handed
  <2>5. JobInOrder(k)'
    BY <1>3, <1>4, <1>5, <2>1, <2>2, <2>3, <2>4 DEF JobInOrder, Reads
  <2>6. k \notin hasty' => JobUnanswered(k)'
    BY <1>3, <1>4, <1>5, <2>1, <2>2, <2>3 DEF JobUnanswered, AtWork, Reads, Outcome
  <2>7. QED
    BY <2>5, <2>6
<1>8. \A q \in Requests : record'[q].status # "approved" => Outcome(q)' = NULL
  BY <1>5 DEF AloneInv, InOrder, Outcome
<1>9. Truthful'
  <2>1. announced' \in [Requests -> SUBSET (Outcomes \cup {"rejected"})]
    BY <1>5 DEF AloneInv, Truthful
  <2>2. ASSUME NEW k \in Jobs PROVE Counted(k)'
    BY <1>4, <1>5 DEF AloneInv, Truthful, Counted
  <2>3. ASSUME NEW q \in Requests, Undisturbed(q)' PROVE TrueOf(q)' /\ ToldOf(q)'
    <3>1. payload[j] # q
      BY <1>4, NullAssumption
    <3>2. JobsOf(q) \subseteq JobsOf(q)' /\ (q # h.request => JobsOf(q)' = JobsOf(q))
      BY <1>4, <3>1 DEF JobsOf
    <3>3. Undisturbed(q) /\ TrueOf(q) /\ ToldOf(q)
      BY <1>5, <2>3, <3>2 DEF AloneInv, Truthful, Undisturbed
    <3>4. ToldOf(q)'
      BY <1>5, <3>3 DEF ToldOf, Outcome
    <3>5. CASE q # h.request
      BY <1>5, <3>2, <3>3, <3>4, <3>5 DEF TrueOf, Outcome, Ran
    <3>6. CASE q = h.request
      BY <1>3, <1>5, <3>4, <3>6, NullAssumption DEF TrueOf, Outcome, Outcomes
    <3>7. QED
      BY <3>5, <3>6
  <2>4. QED
    BY <2>1, <2>2, <2>3 DEF Truthful
<1>10. AnswerStays
  BY <1>5 DEF AnswerStays, Outcome
<1>11. CallSound(c)'
  BY <1>3, <1>4, <1>5, <1>6 DEF CallSound, CallInOrder, CallUnanswered, Open, Holding, Handed, Outcome, Fresh
<1>12. QED
  BY <1>7, <1>8, <1>9, <1>10, <1>11, PartsStep DEF JobsSound

(* A job is taken: in haste when the call that handed it over still has to record it. *)
LEMMA TakeAlone ==
  ASSUME AloneInv, IInv', NEW j \in Jobs, Take(j)
  PROVE  AloneInv' /\ AnswerStays
<1>1. /\ phase[j] = "queued" /\ handler[j] = NoHandler /\ effects[j] = 0 /\ lost[j].phase = "none"
      /\ \A k \in Jobs : phase'[k] = IF k = j THEN "taken" ELSE phase[k]
  BY DEF Take, Queue!Take, AloneInv, IInv, Typed, Placed
<1>2. UNCHANGED <<record, call, hand, payload, lost, effects, announced>>
  BY DEF Take, approvalVars
<1>3. \A k \in Jobs : k # j => handler'[k] = handler[k]
  BY DEF Take, AloneInv, IInv, Typed
<1>4. handler'[j].phase = "called" /\ handler'[j].count = 0
  <2>1. handler'[j] = [NoHandler EXCEPT !.phase = "called"]
    BY <1>1 DEF Take, AloneInv, IInv, Typed
  <2>2. QED
    BY <2>1 DEF NoHandler
<1>5. /\ hasty \subseteq hasty' /\ hasty' \subseteq hasty \cup {j}
      /\ \A c \in Calls : hand[c].phase = "recording" /\ hand[c].job = j => j \in hasty'
  BY DEF Take
<1>6. ASSUME NEW k \in Jobs PROVE JobInOrder(k)' /\ (k \notin hasty' => JobUnanswered(k)')
  <2>1. JobInOrder(k) /\ (k \notin hasty => JobUnanswered(k))
    BY DEF AloneInv, InOrder, Unanswered
  <2>2. \A i \in Jobs : Handed(i)' <=> Handed(i)
    BY <1>1 DEF Handed
  <2>3. Reads(k)' <=> Reads(k) /\ k # j
    BY <1>1, <1>3, <1>4 DEF Reads, NoHandler
  <2>4. JobInOrder(k)'
    BY <1>1, <1>2, <1>3, <2>1, <2>2, <2>3 DEF JobInOrder
  <2>5. AtWork(k)' <=> AtWork(k)
    BY <1>1, <1>3, <1>4, <2>3 DEF AtWork
  <2>6. k \notin hasty' => JobUnanswered(k)'
    BY <1>1, <1>2, <1>3, <1>5, <2>1, <2>5 DEF JobUnanswered, Outcome
  <2>7. QED
    BY <2>4, <2>6
<1>7. \A q \in Requests : Outcome(q)' = Outcome(q) /\ (Undisturbed(q)' => Undisturbed(q))
  BY <1>2, <1>5 DEF Outcome, Undisturbed, JobsOf
<1>8. Truthful'
  <2>1. announced' \in [Requests -> SUBSET (Outcomes \cup {"rejected"})]
    BY <1>2 DEF AloneInv, Truthful
  <2>2. ASSUME NEW k \in Jobs PROVE Counted(k)'
    BY <1>1, <1>2, <1>3, <1>4 DEF AloneInv, Truthful, Counted
  <2>3. ASSUME NEW q \in Requests, Undisturbed(q)' PROVE TrueOf(q)' /\ ToldOf(q)'
    BY <1>2, <1>7, <2>3 DEF AloneInv, Truthful, TrueOf, ToldOf, JobsOf, Ran, Outcome
  <2>4. QED
    BY <2>1, <2>2, <2>3 DEF Truthful
<1>9. ASSUME NEW c \in Calls PROVE CallSound(c)'
  BY <1>1, <1>2, <1>5 DEF AloneInv, InOrder, Unanswered, CallSound, CallInOrder, CallUnanswered, Open, Holding, Handed,
                          Fresh, Outcome
<1>10. QED
  BY <1>2, <1>6, <1>7, <1>8, <1>9, QuietParts DEF JobsSound, AnswerStays, AloneInv, InOrder

(* The record of a taken job is put: the call that handed it over, if it still holds it, was hasty. *)
LEMMA AnswerCalls ==
  ASSUME AloneInv, NEW j \in Jobs, phase[j] = "taken", NEW rec, rec.status = "approved",
         record' = [record EXCEPT ![payload[j]] = rec], UNCHANGED <<call, hand, phase, payload, hasty>>
  PROVE  \A c \in Calls : CallSound(c)'
<1>1. SUFFICES ASSUME NEW c \in Calls PROVE CallSound(c)'
  OBVIOUS
<1>2. CallInOrder(c) /\ CallUnanswered(c) /\ JobInOrder(j)
  BY DEF AloneInv, InOrder, Unanswered
<1>3. Handed(j) /\ payload[j] \in Requests /\ record[payload[j]].status = "approved"
  BY <1>2, AloneTypes DEF Handed, JobInOrder
<1>4. \A q \in Requests : record'[q] = IF q = payload[j] THEN rec ELSE record[q]
  BY DEF AloneInv, IInv, Typed
<1>5. /\ Open(c) => call[c].request \in Requests /\ call[c].request # payload[j]
      /\ Holding(c) => hand[c].request \in Requests
      /\ Holding(c) /\ hand[c].request = payload[j] => hand[c].phase = "recording" /\ hand[c].job = j /\ j \in hasty
  BY <1>2, <1>3, AloneTypes DEF CallInOrder, CallUnanswered, JobInOrder
<1>6. CallInOrder(c)'
  BY <1>2, <1>4, <1>5 DEF CallInOrder, Open, Holding, Handed, Fresh
<1>7. CallUnanswered(c)'
  BY <1>2, <1>4, <1>5 DEF CallUnanswered, Holding, Outcome
<1>8. QED
  BY <1>6, <1>7 DEF CallSound

(* The handler, up to the outcome it puts: no other handler or call can have put one before. *)
LEMMA WorkAlone ==
  ASSUME AloneInv, IInv', NEW j \in Jobs, WorkStep(j) \/ HandlerBreaks(j) \/ WorkerDies(j), ~HandlerPuts(j)
  PROVE  AloneInv' /\ AnswerStays
<1>1. PICK old \in Handler, n \in Nat : old = handler[j] /\ n = effects[j]
  BY AloneTypes
<1>2. JobInOrder(j) /\ Counted(j) /\ (j \notin hasty => JobUnanswered(j))
  BY DEF AloneInv, InOrder, Unanswered, Truthful
<1>3. /\ UNCHANGED <<record, call, hand, phase, payload, lost, hasty, announced>>
      /\ handler \in [Jobs -> Handler] /\ effects \in [Jobs -> Nat]
  BY DEF WorkStep, HandlerReads, HandlerIdentifies, HandlerAdmits, HandlerStatement, HandlerReturns, HandlerBreaks,
         WorkerDies, Queue!Release, approvalVars, queueVars, worldVars, AloneInv, IInv, Typed
<1>4. phase[j] = "taken"
  BY <1>1, AloneTypes DEF WorkStep, HandlerReads, HandlerIdentifies, HandlerAdmits, HandlerStatement, HandlerReturns,
         HandlerBreaks, WorkerDies, Queue!Release, HandlerIn
<1>5. Handed(j) /\ payload[j] \in Requests /\ record[payload[j]].status = "approved"
  BY <1>2, <1>4, AloneTypes DEF Handed, JobInOrder
<1>6. ASSUME NEW h \in Handler, handler' = [handler EXCEPT ![j] = h], NEW m \in Nat,
             effects' = [effects EXCEPT ![j] = m]
      PROVE  handler'[j] = h /\ effects'[j] = m
  BY <1>3, <1>6
<1>7. ASSUME HandlerReturns(j) \/ HandlerBreaks(j) \/ WorkerDies(j) PROVE JobsSound' /\ AnswerStays
  <2>1. PICK p \in {"over", "died"} : Leaves(j, p) /\ (p = "died" \/ old.phase \in {"ended", "called", "read", "ending"})
    BY <1>1, <1>7 DEF HandlerReturns, HandlerBreaks, WorkerDies, HandlerIn
  <2> DEFINE g == [NoHandler EXCEPT !.phase = p]
  <2>2. g \in Handler /\ g.phase = p
    BY IdleTyped DEF Handler
  <2>3. handler' = [handler EXCEPT ![j] = g] /\ effects' = [effects EXCEPT ![j] = n]
    BY <1>1, <1>3, <1>7, <2>1 DEF Leaves, HandlerReturns, HandlerBreaks, WorkerDies
  <2> HIDE DEF g
  <2>4. Counted(j)'
    BY <1>3, <2>2, <2>3 DEF Counted
  <2>5. j \notin hasty /\ lost[j].phase # "none" => g.phase = "died"
    BY <1>1, <1>2, <2>1, <2>2 DEF JobUnanswered
  <2>6. QED
    BY <1>1, <1>3, <1>4, <2>2, <2>3, <2>4, <2>5, HandlerMoves
<1>8. ASSUME NEW h \in Handler, NEW m \in Nat, handler' = [handler EXCEPT ![j] = h], effects' = [effects EXCEPT ![j] = m],
             old.phase \in {"called", "read", "admitted", "running"},
             h.phase \in {"read", "admitted", "running", "ending"} => Fresh(h.seen, "approved"),
             m # n => old.phase = "running", Counted(j)'
      PROVE  JobsSound' /\ AnswerStays
  <2>1. j \notin hasty => Outcome(payload[j]) = NULL /\ lost[j].phase = "none"
    BY <1>1, <1>2, <1>8 DEF JobUnanswered, AtWork, Reads
  <2>2. m # effects[j] => Reads(j)
    BY <1>1, <1>8 DEF Reads
  <2>3. QED
    BY <1>3, <1>4, <1>8, <2>1, <2>2, HandlerMoves
<1>9. ASSUME HandlerReads(j) PROVE JobsSound' /\ AnswerStays
  <2>1. old.phase = "called" /\ old.count = 0 /\ n = 0
    BY <1>1, <1>2, <1>9 DEF HandlerReads, HandlerIn, Counted
  <2>2. effects' = [effects EXCEPT ![j] = n]
    BY <1>1, <1>3, <1>9 DEF HandlerReads
  <2>3. PICK h \in Handler : /\ handler' = [handler EXCEPT ![j] = h] /\ h.phase \in {"read", "ended"}
                             /\ h.phase = "read" => Fresh(h.seen, "approved") /\ h.count = 0
    <3>1. CASE StillToRun(payload[j])
      <4> DEFINE g == [old EXCEPT !.phase = "read", !.seen = record[payload[j]]]
      <4>1. g \in Handler /\ g.phase = "read" /\ g.seen = record[payload[j]] /\ g.count = old.count
        BY <1>5, AloneTypes DEF Handler, Record
      <4>2. handler' = [handler EXCEPT ![j] = g]
        BY <1>1, <1>3, <1>9, <3>1 DEF HandlerReads, Handler
      <4>3. Fresh(g.seen, "approved")
        BY <1>5, <3>1, <4>1 DEF Fresh, StillToRun, Outcome
      <4> HIDE DEF g
      <4>4. QED
        BY <2>1, <4>1, <4>2, <4>3
    <3>2. CASE ~StillToRun(payload[j])
      <4> DEFINE g == [NoHandler EXCEPT !.phase = "ended"]
      <4>1. g \in Handler /\ g.phase = "ended"
        BY IdleTyped DEF Handler
      <4>2. handler' = [handler EXCEPT ![j] = g]
        BY <1>9, <3>2 DEF HandlerReads, Leaves
      <4> HIDE DEF g
      <4>3. QED
        BY <4>1, <4>2
    <3>3. QED
      BY <3>1, <3>2
  <2>4. Counted(j)'
    BY <1>3, <2>1, <2>2, <2>3 DEF Counted
  <2>5. h.phase \in {"read", "admitted", "running", "ending"} => Fresh(h.seen, "approved")
    BY <2>3
  <2>6. handler' = [handler EXCEPT ![j] = h] /\ old.phase \in {"called", "read", "admitted", "running"} /\ (n # n => old.phase = "running")
    BY <2>1, <2>3
  <2>7. QED
    BY <1>8, <2>2, <2>4, <2>5, <2>6
<1>10. ASSUME HandlerIdentifies(j) \/ HandlerAdmits(j) \/ HandlerStatement(j) PROVE JobsSound' /\ AnswerStays
  <2>1. old.phase \in {"read", "admitted", "running"} /\ Fresh(old.seen, "approved")
    BY <1>1, <1>2, <1>10 DEF HandlerIdentifies, HandlerAdmits, HandlerStatement, HandlerIn, JobInOrder, Reads
  <2> DEFINE Phase(p) == [old EXCEPT !.phase = p]
             Ends(o, k) == [old EXCEPT !.phase = "ending", !.outcome = o, !.count = k]
  <2>2. /\ \A p \in {"admitted", "running"} : /\ Phase(p) \in Handler /\ Phase(p).phase = p /\ Phase(p).seen = old.seen
                                              /\ Phase(p).count = old.count
        /\ \A o \in Outcomes, k \in Nat : /\ Ends(o, k) \in Handler /\ Ends(o, k).phase = "ending" /\ Ends(o, k).seen = old.seen
                                          /\ Ends(o, k).outcome = o /\ Ends(o, k).count = k
    BY DEF Handler
  <2>3. /\ \A p : [handler EXCEPT ![j].phase = p] = [handler EXCEPT ![j] = Phase(p)]
        /\ \A o, k : Ending(j, o, k) => handler' = [handler EXCEPT ![j] = Ends(o, k)]
    BY <1>1, <1>3 DEF Ending, Handler
  <2> HIDE DEF Phase, Ends
  <2>4. ASSUME NEW o \in Outcomes, Ending(j, o, 0), effects' = [effects EXCEPT ![j] = n], n = 0, o \in {"token_revoked", "freeze_window", "failed"}
        PROVE  JobsSound' /\ AnswerStays
    <3>1. handler' = [handler EXCEPT ![j] = Ends(o, 0)] /\ Ends(o, 0) \in Handler
      BY <2>2, <2>3, <2>4
    <3>2. handler'[j] = Ends(o, 0) /\ effects'[j] = 0 /\ payload' = payload
      BY <1>3, <2>4, <3>1
    <3>3. Counted(j)'
      BY <2>2, <2>4, <3>2 DEF Counted
    <3>4. QED
      BY <1>8, <2>1, <2>2, <2>4, <3>1, <3>3
  <2>5. ASSUME NEW p \in {"admitted", "running"}, handler' = [handler EXCEPT ![j] = Phase(p)],
               effects' = [effects EXCEPT ![j] = n], n = 0, old.count = 0
        PROVE  JobsSound' /\ AnswerStays
    <3>1. handler'[j] = Phase(p) /\ effects'[j] = 0 /\ payload' = payload
      BY <1>3, <2>5
    <3>2. Length[payload[j]] > 0
      BY <1>5, ExecutionsAssumption
    <3>3. Counted(j)'
      BY <2>2, <2>5, <3>1, <3>2 DEF Counted
    <3>4. QED
      BY <1>8, <2>1, <2>2, <2>5, <3>3
  <2>6. CASE HandlerIdentifies(j)
    <3>1. old.phase = "read" /\ n = 0 /\ old.count = 0 /\ effects' = [effects EXCEPT ![j] = n]
      BY <1>1, <1>2, <1>3, <2>6 DEF HandlerIdentifies, HandlerIn, Counted
    <3>2. handler' = [handler EXCEPT ![j] = Phase("admitted")] \/ Ending(j, "token_revoked", 0)
      BY <2>3, <2>6 DEF HandlerIdentifies
    <3>3. QED
      BY <2>4, <2>5, <3>1, <3>2 DEF Outcomes
  <2>7. CASE HandlerAdmits(j)
    <3>1. old.phase = "admitted" /\ n = 0 /\ old.count = 0 /\ effects' = [effects EXCEPT ![j] = n]
      BY <1>1, <1>2, <1>3, <2>7 DEF HandlerAdmits, HandlerIn, Counted
    <3>2. \/ handler' = [handler EXCEPT ![j] = Phase("running")]
          \/ Ending(j, "freeze_window", 0) \/ Ending(j, "failed", 0)
      BY <2>3, <2>7 DEF HandlerAdmits
    <3>3. QED
      BY <2>4, <2>5, <3>1, <3>2 DEF Outcomes
  <2>8. CASE HandlerStatement(j)
    <3>1. old.phase = "running" /\ old.count = n /\ n < Length[payload[j]]
      BY <1>1, <1>2, <2>8 DEF HandlerStatement, HandlerIn, Counted
    <3>2. Length[payload[j]] \in Nat
      BY <1>5, ExecutionsAssumption
    <3> DEFINE next == [old EXCEPT !.count = n + 1]
    <3>3. next \in Handler /\ next.phase = "running" /\ next.count = n + 1 /\ next.seen = old.seen
      BY <3>1 DEF Handler
    <3>4. [handler EXCEPT ![j].count = n + 1] = [handler EXCEPT ![j] = next]
      BY <1>1, <1>3 DEF Handler
    <3> HIDE DEF next
    <3>5. CASE effects' = [effects EXCEPT ![j] = n + 1] /\ n + 1 < Length[payload[j]] /\ handler' = [handler EXCEPT ![j] = next]
      <4>1. handler'[j] = next /\ effects'[j] = n + 1 /\ payload' = payload
        BY <1>3, <3>3, <3>5
      <4>2. Counted(j)'
        BY <3>3, <3>5, <4>1 DEF Counted
      <4>3. n + 1 \in Nat /\ Fresh(next.seen, "approved") /\ old.phase \in {"called", "read", "admitted", "running"}
        BY <2>1, <3>1, <3>3
      <4>4. QED
        BY <1>8, <3>1, <3>3, <3>5, <4>2, <4>3
    <3>6. ASSUME NEW o \in {"done", "failed"}, NEW k \in Nat, Ending(j, o, k), NEW m \in {k, k + 1},
                 effects' = [effects EXCEPT ![j] = m], o = "done" => m = Length[payload[j]]
          PROVE  JobsSound' /\ AnswerStays
      <4>1. handler' = [handler EXCEPT ![j] = Ends(o, k)] /\ Ends(o, k) \in Handler /\ o \in Outcomes /\ m \in Nat
        BY <2>2, <2>3, <3>6 DEF Outcomes
      <4>2. handler'[j] = Ends(o, k) /\ effects'[j] = m /\ payload' = payload
        BY <1>3, <3>6, <4>1
      <4>3. Counted(j)'
        BY <2>2, <3>6, <4>1, <4>2 DEF Counted
      <4>4. QED
        BY <1>8, <2>1, <2>2, <3>1, <3>6, <4>1, <4>3
    <3>7. \/ /\ effects' = [effects EXCEPT ![j] = n + 1]
             /\ IF n + 1 < Length[payload[j]] THEN handler' = [handler EXCEPT ![j] = next] ELSE Ending(j, "done", n + 1)
          \/ /\ \E took \in {0, 1} : effects' = [effects EXCEPT ![j] = n + took]
             /\ Ending(j, "failed", n)
      BY <1>1, <2>8, <3>1, <3>4 DEF HandlerStatement, AfterFailure
    <3>8. ~(n + 1 < Length[payload[j]]) => n + 1 = Length[payload[j]]
      BY <3>1, <3>2
    <3>9. CASE effects' = [effects EXCEPT ![j] = n + 1] /\ ~(n + 1 < Length[payload[j]]) /\ Ending(j, "done", n + 1)
      <4>1. n + 1 \in Nat /\ "done" \in {"done", "failed"} /\ n + 1 \in {n + 1, (n + 1) + 1}
        OBVIOUS
      <4>2. n + 1 = Length[payload[j]]
        BY <3>8, <3>9
      <4>3. QED
        BY <3>6, <3>9, <4>1, <4>2
    <3>10. CASE (\E took \in {0, 1} : effects' = [effects EXCEPT ![j] = n + took]) /\ Ending(j, "failed", n)
      <4>1. PICK m \in {n, n + 1} : effects' = [effects EXCEPT ![j] = m]
        <5>1. n + 0 = n
          OBVIOUS
        <5>2. QED
          BY <3>10, <5>1
      <4>2. QED
        BY <3>6, <3>10, <4>1
    <3>11. QED
      BY <3>5, <3>7, <3>9, <3>10
  <2>9. QED
    BY <1>10, <2>6, <2>7, <2>8
<1>11. JobsSound' /\ AnswerStays
  <2>1. \/ HandlerReads(j) \/ (HandlerIdentifies(j) \/ HandlerAdmits(j) \/ HandlerStatement(j))
        \/ (HandlerReturns(j) \/ HandlerBreaks(j) \/ WorkerDies(j))
    BY DEF WorkStep
  <2>2. QED
    BY <1>7, <1>9, <1>10, <2>1
<1>12. QED
  BY <1>3, <1>11, CallsQuiet, QuietParts

(* The outcome the handler puts is the first, and is what it did. *)
LEMMA PutAlone ==
  ASSUME AloneInv, IInv', NEW j \in Jobs, HandlerPuts(j)
  PROVE  AloneInv' /\ AnswerStays
<1>1. PICK old \in Handler, r \in {payload[j]} : old = handler[j] /\ r = payload[j] /\ old.phase = "ending"
  BY AloneTypes DEF HandlerPuts, HandlerIn
<1>2. JobInOrder(j) /\ Counted(j) /\ (j \notin hasty => JobUnanswered(j))
  BY DEF AloneInv, InOrder, Unanswered, Truthful
<1>3. /\ UNCHANGED <<call, hand, phase, payload, lost, effects, hasty>> /\ record \in [Requests -> Record]
      /\ handler \in [Jobs -> Handler]
  BY DEF HandlerPuts, PutOutcome, queueVars, worldVars, AloneInv, IInv, Typed
<1>4. phase[j] = "taken" /\ Handed(j) /\ r \in Requests /\ record[r].status = "approved"
  BY <1>1, <1>2, AloneTypes DEF Handed, JobInOrder
<1>5. Fresh(old.seen, "approved") /\ old.seen \in Record /\ old.outcome \in Outcomes /\ old.count \in Nat
  BY <1>1, <1>2, AloneTypes DEF JobInOrder, Reads, Counted, Handler
<1> DEFINE rec == WithOutcome(old.seen, old.outcome, old.count)
<1>6. /\ rec \in Record /\ rec.status = "approved" /\ rec.carried.outcome = old.outcome
      /\ rec.carried.count = old.count
  <2>1. rec \in Record
    BY <1>5, OutcomeTyped
  <2>2. QED
    BY <1>5, <2>1 DEF WithOutcome, Record, Approval!Record, Work, Fresh
<1>7. record' = [record EXCEPT ![r] = rec]
  BY <1>1 DEF HandlerPuts, PutOutcome, WithOutcome
<1>8. announced' = [announced EXCEPT ![r] = @ \cup {rec.carried.outcome}]
  BY <1>1, <1>6 DEF HandlerPuts, PutOutcome, Announce
<1> HIDE DEF rec
<1>9. record'[r] = rec
  BY <1>3, <1>4, <1>7
<1>10. /\ \A k \in Jobs : k # j => handler'[k] = handler[k]
       /\ handler'[j].phase = "ended"
  <2>1. handler'[j] = [NoHandler EXCEPT !.phase = "ended"] /\ \A k \in Jobs : k # j => handler'[k] = handler[k]
    BY <1>3 DEF HandlerPuts, Leaves
  <2>2. QED
    BY <2>1 DEF NoHandler
<1>11. \A k \in Jobs : Handed(k) /\ payload[k] = r => k = j
  BY <1>1, <1>2, <1>4 DEF JobInOrder
<1>12. j \notin hasty => Outcome(r) = NULL /\ lost[j].phase = "none"
  BY <1>1, <1>2 DEF JobUnanswered, AtWork, Reads
<1>13. TrueOf(r)'
  <2>1. Outcome(r)' = old.outcome /\ record'[r].carried.count = old.count
    BY <1>6, <1>9 DEF Outcome
  <2>2. j \in JobsOf(r)'
    BY <1>1, <1>3 DEF JobsOf
  <2>3. old.outcome = "done" => effects'[j] = Length[r]
    BY <1>1, <1>2, <1>3 DEF Counted
  <2>4. old.outcome = "failed" => effects'[j] \in {old.count, old.count + 1}
    BY <1>1, <1>2, <1>3 DEF Counted
  <2>5. old.outcome \in {"token_revoked", "freeze_window"} => \A k \in JobsOf(r)' : effects'[k] = 0
    <3>1. \A k \in JobsOf(r) : k # j => ~Handed(k)
      BY <1>11 DEF JobsOf
    <3>2. \A k \in JobsOf(r) : ~Handed(k) => effects[k] = 0
      BY AloneTypes DEF JobsOf, Ran, Handed
    <3>3. old.outcome \in {"token_revoked", "freeze_window"} => effects[j] = 0
      BY <1>1, <1>2 DEF Counted
    <3>4. QED
      BY <1>3, <3>1, <3>2, <3>3 DEF JobsOf
  <2>6. QED
    BY <2>1, <2>2, <2>3, <2>4, <2>5 DEF TrueOf, Ran
<1>14. ASSUME NEW k \in Jobs
       PROVE  /\ handler'[k] = handler[k] \/ handler'[k].phase = "ended"
              /\ lost'[k] = lost[k] \/ lost'[k].phase = "over"
              /\ ~(Handed(k) /\ payload[k] = r) => handler'[k] = handler[k] /\ lost'[k] = lost[k]
              /\ Handed(k) /\ payload[k] = r /\ k \notin hasty =>
                   /\ ~AtWork(k)' /\ lost'[k].phase # "read"
                   /\ lost'[k].phase # "none" => handler'[k].phase = "died"
  <2>1. CASE k = j
    BY <1>1, <1>3, <1>4, <1>10, <1>12, <2>1 DEF AtWork, Reads
  <2>2. CASE k # j
    BY <1>3, <1>10, <1>11, <2>2
  <2>3. QED
    BY <2>1, <2>2
<1>15. Undisturbed(r) => Outcome(r) = NULL
  BY <1>1, <1>12 DEF Undisturbed, JobsOf
<1>16. rec.carried.outcome \in Outcomes
  BY <1>5, <1>6
<1>17. JobsSound' /\ AnswerStays
  BY <1>3, <1>4, <1>6, <1>7, <1>8, <1>13, <1>14, <1>15, <1>16, AnswerPut
<1>18. \A c \in Calls : CallSound(c)'
  BY <1>1, <1>3, <1>4, <1>6, <1>7, AnswerCalls
<1>19. QED
  BY <1>17, <1>18, QuietParts

(* The lost handler reads: a job told of while it runs is disturbed from here on. *)
LEMMA LostReadsAlone ==
  ASSUME AloneInv, IInv', NEW j \in Jobs, LostReads(j)
  PROVE  AloneInv' /\ AnswerStays
<1>1. /\ UNCHANGED <<record, call, hand, phase, payload, handler, effects, announced>>
      /\ lost \in [Jobs -> Lost] /\ phase[j] = "taken"
  BY DEF LostReads, Queue!Tell, approvalVars, AloneInv, IInv, Typed
<1>2. \A k \in Jobs : JobInOrder(k) /\ (k \notin hasty => JobUnanswered(k))
  BY DEF AloneInv, InOrder, Unanswered
<1>3. record[payload[j]].status = "approved" /\ payload[j] \in Requests
  BY <1>1, <1>2, AloneTypes DEF JobInOrder, Handed
<1>4. hasty \subseteq hasty' /\ (j \notin hasty' => handler[j].phase = "died")
  BY DEF LostReads, HandlerIn
<1>5. /\ \A k \in Jobs : k # j => lost'[k] = lost[k]
      /\ lost'[j].phase # "none"
      /\ lost'[j].phase = "read" => Fresh(lost'[j].seen, "approved") /\ Outcome(payload[j]) = NULL
  <2> DEFINE n == [phase |-> "read", seen |-> record[payload[j]]]
             o == [lost[j] EXCEPT !.phase = "over"]
  <2>1. n.phase = "read" /\ n.seen = record[payload[j]] /\ o.phase = "over"
    BY <1>1 DEF Lost
  <2>2. lost' = [lost EXCEPT ![j] = IF StillToRun(payload[j]) THEN n ELSE o]
    BY DEF LostReads
  <2> HIDE DEF n, o
  <2>3. \A k \in Jobs : lost'[k] = IF k = j THEN IF StillToRun(payload[j]) THEN n ELSE o ELSE lost[k]
    BY <1>1, <2>2
  <2>4. QED
    BY <1>3, <2>1, <2>3 DEF StillToRun, Outcome, Fresh
<1>6. ASSUME NEW k \in Jobs PROVE JobInOrder(k)' /\ (k \notin hasty' => JobUnanswered(k)')
  <2>1. JobInOrder(k)'
    BY <1>1, <1>2, <1>5 DEF JobInOrder, Handed, Reads
  <2>2. k \notin hasty' => JobUnanswered(k)'
    BY <1>1, <1>2, <1>4, <1>5 DEF JobUnanswered, AtWork, Reads, Outcome
  <2>3. QED
    BY <2>1, <2>2
<1>7. \A q \in Requests : Outcome(q)' = Outcome(q) /\ (Undisturbed(q)' => Undisturbed(q))
  BY <1>1, <1>4 DEF Outcome, Undisturbed, JobsOf
<1>8. Truthful'
  <2>1. announced' \in [Requests -> SUBSET (Outcomes \cup {"rejected"})] /\ \A k \in Jobs : Counted(k)'
    BY <1>1 DEF AloneInv, Truthful, Counted
  <2>2. ASSUME NEW q \in Requests, Undisturbed(q)' PROVE TrueOf(q)' /\ ToldOf(q)'
    BY <1>1, <1>7, <2>2 DEF AloneInv, Truthful, TrueOf, ToldOf, JobsOf, Ran, Outcome
  <2>3. QED
    BY <2>1, <2>2 DEF Truthful
<1>9. \A c \in Calls : CallSound(c)'
  BY <1>1, <1>4, CallsQuiet
<1>10. QED
  BY <1>1, <1>6, <1>7, <1>8, <1>9, QuietParts DEF JobsSound, AnswerStays, AloneInv, InOrder

(* The lost handler puts: where the worker did die, nothing was stored since it read. *)
LEMMA LostPutsAlone ==
  ASSUME AloneInv, IInv', NEW j \in Jobs, LostPuts(j)
  PROVE  AloneInv' /\ AnswerStays
<1>1. PICK old \in Lost, r \in {payload[j]} : old = lost[j] /\ r = payload[j] /\ old.phase = "read"
  BY AloneTypes DEF LostPuts
<1>2. JobInOrder(j) /\ (j \notin hasty => JobUnanswered(j))
  BY DEF AloneInv, InOrder, Unanswered
<1>3. /\ UNCHANGED <<call, hand, phase, payload, handler, effects, hasty>> /\ record \in [Requests -> Record]
      /\ lost \in [Jobs -> Lost]
  BY DEF LostPuts, PutOutcome, queueVars, worldVars, AloneInv, IInv, Typed
<1>4. phase[j] = "taken" /\ Handed(j) /\ r \in Requests /\ record[r].status = "approved"
  BY <1>1, <1>2, AloneTypes DEF Handed, JobInOrder
<1>5. Fresh(old.seen, "approved") /\ old.seen \in Record
  BY <1>1, <1>2, AloneTypes DEF JobInOrder
<1> DEFINE rec == WithOutcome(old.seen, "lost", 0)
<1>6. rec \in Record /\ rec.status = "approved" /\ rec.carried.outcome = "lost" /\ "lost" \in Outcomes
  <2>1. "lost" \in Outcomes /\ 0 \in Nat
    BY DEF Outcomes
  <2>2. rec \in Record
    BY <1>5, <2>1, OutcomeTyped
  <2>3. QED
    BY <1>5, <2>1, <2>2 DEF WithOutcome, Record, Approval!Record, Work, Fresh
<1>7. record' = [record EXCEPT ![r] = rec]
  BY <1>1 DEF LostPuts, PutOutcome, WithOutcome
<1>8. announced' = [announced EXCEPT ![r] = @ \cup {rec.carried.outcome}]
  BY <1>1, <1>6 DEF LostPuts, PutOutcome, Announce
<1> HIDE DEF rec
<1>9. record'[r] = rec
  BY <1>3, <1>4, <1>7
<1>10. \A k \in Jobs : IF k = j THEN lost'[k].phase = "over" ELSE lost'[k] = lost[k]
  <2> DEFINE o == [phase |-> "over", seen |-> NoRecord]
  <2>1. o.phase = "over" /\ lost' = [lost EXCEPT ![j] = o]
    BY DEF LostPuts
  <2> HIDE DEF o
  <2>2. QED
    BY <1>3, <2>1
<1>11. \A k \in Jobs : Handed(k) /\ payload[k] = r => k = j
  BY <1>1, <1>2, <1>4 DEF JobInOrder
<1>12. j \notin hasty => Outcome(r) = NULL /\ handler[j].phase = "died"
  BY <1>1, <1>2 DEF JobUnanswered
<1>13. TrueOf(r)'
  BY <1>6, <1>9 DEF TrueOf, Outcome
<1>14. ASSUME NEW k \in Jobs
       PROVE  /\ handler'[k] = handler[k] \/ handler'[k].phase = "ended"
              /\ lost'[k] = lost[k] \/ lost'[k].phase = "over"
              /\ ~(Handed(k) /\ payload[k] = r) => handler'[k] = handler[k] /\ lost'[k] = lost[k]
              /\ Handed(k) /\ payload[k] = r /\ k \notin hasty =>
                   /\ ~AtWork(k)' /\ lost'[k].phase # "read"
                   /\ lost'[k].phase # "none" => handler'[k].phase = "died"
  <2>1. CASE k = j
    BY <1>1, <1>3, <1>4, <1>10, <1>12, <2>1 DEF AtWork, Reads
  <2>2. CASE k # j
    BY <1>3, <1>10, <1>11, <2>2
  <2>3. QED
    BY <2>1, <2>2
<1>15. Undisturbed(r) => Outcome(r) = NULL
  BY <1>1, <1>12 DEF Undisturbed, JobsOf
<1>16. JobsSound' /\ AnswerStays
  BY <1>3, <1>4, <1>6, <1>7, <1>8, <1>13, <1>14, <1>15, AnswerPut
<1>17. \A c \in Calls : CallSound(c)'
  BY <1>1, <1>3, <1>4, <1>6, <1>7, AnswerCalls
<1>18. QED
  BY <1>16, <1>17, QuietParts

(* Administrators, time and stutters touch no record, job or call. *)
LEMMA WorldAlone ==
  ASSUME AloneInv, IInv', Revoke \/ Freeze \/ Thaw \/ (\E r \in Requests : PassTtl(r)) \/ UNCHANGED vars
  PROVE  AloneInv' /\ AnswerStays
<1>1. UNCHANGED <<record, call, hand, phase, payload, handler, lost, effects, hasty, announced>>
  BY DEF Revoke, Freeze, Thaw, PassTtl, Approval!PassTtl, vars, approvalVars, queueVars, workVars, worldVars
<1>2. QED
  BY <1>1, JobsQuiet, CallsQuiet, QuietParts

LEMMA AloneInit == Init => AloneInv
<1> SUFFICES ASSUME Init PROVE AloneInv
  OBVIOUS
<1>1. IInv
  BY InvInit
<1>2. /\ \A r \in Requests : record[r].status = "none" /\ Outcome(r) = NULL /\ announced[r] = {}
      /\ \A c \in Calls : call[c].phase = "idle" /\ hand[c].phase = "idle"
      /\ \A j \in Jobs : /\ phase[j] = "none" /\ payload[j] = NULL /\ handler[j].phase = "none" /\ handler[j].count = 0
                         /\ lost[j].phase = "none" /\ effects[j] = 0
      /\ hasty = {} /\ announced \in [Requests -> SUBSET (Outcomes \cup {"rejected"})]
  BY DEF Init, Approval!Init, Queue!Init, Outcome, Approval!NewRecord, NoWork, Approval!IdleCall, IdleHand, NoHandler
<1>3. InOrder
  BY <1>2 DEF InOrder, CallInOrder, JobInOrder, Open, Holding, Handed, Reads
<1>4. Unanswered
  BY <1>2 DEF Unanswered, CallUnanswered, JobUnanswered, Holding, AtWork, Reads
<1>5. Truthful
  BY <1>2, NullAssumption DEF Truthful, Counted, TrueOf, ToldOf, Outcomes
<1>6. QED
  BY <1>1, <1>3, <1>4, <1>5 DEF AloneInv

LEMMA AloneStep == OneCall /\ AloneInv /\ [Next]_vars => AloneInv' /\ AnswerStays
<1> SUFFICES ASSUME OneCall, AloneInv, [Next]_vars PROVE AloneInv' /\ AnswerStays
  OBVIOUS
<1>1. IInv'
  BY InvStep DEF AloneInv
<1>2. ASSUME NEW c \in Calls, HandStep(c) \/ CallBreaks(c) PROVE AloneInv' /\ AnswerStays
  BY <1>1, <1>2, DecideAlone, HandAlone, HandOverAlone DEF HandStep
<1>3. ASSUME NEW j \in Jobs, WorkStep(j) \/ LostStep(j) \/ HandlerBreaks(j) \/ WorkerDies(j)
      PROVE  AloneInv' /\ AnswerStays
  BY <1>1, <1>3, PutAlone, WorkAlone, LostReadsAlone, LostPutsAlone DEF LostStep, WorkStep
<1>4. QED
  BY <1>1, <1>2, <1>3, AskAlone, TakeAlone, WorldAlone DEF Next

-----------------------------------------------------------------------------
(* "Approving it runs the stored statement once": where studio calls do not overlap, one *)
(* job of a request at most touches the database, whatever breaks or is reclaimed.       *)
(* Overlapping decisions of one request, each handing it over, are what it rests on.     *)
THEOREM RunsOnceHolds ==
  ASSUME OneCall
  PROVE  Spec => []RunsOnce
<1>1. AloneInv => RunsOnce
  <2> SUFFICES ASSUME AloneInv, NEW r \in Requests PROVE Cardinality({j \in JobsOf(r) : Ran(j)}) <= 1
    BY DEF RunsOnce
  <2> DEFINE S == {j \in JobsOf(r) : Ran(j)}
  <2>1. \A j, k \in S : j = k
    BY AloneTypes DEF JobsOf, AloneInv, InOrder, JobInOrder, Handed
  <2>2. CASE S = {}
    BY <2>2, FS_EmptySet
  <2>3. CASE S # {}
    <3>1. PICK j : S = {j}
      BY <2>1, <2>3
    <3> HIDE DEF S
    <3>2. Cardinality(S) = 1
      BY <3>1, FS_Singleton
    <3>3. QED
      BY <3>2 DEF S
  <2>4. QED
    BY <2>2, <2>3
<1>2. OneCall /\ Init => AloneInv
  BY AloneInit
<1>3. OneCall /\ AloneInv /\ [Next]_vars => AloneInv'
  BY AloneStep
<1>4. (OneCall /\ AloneInv /\ [Next]_vars) => OneCall'
  BY DEF OneCall
<1>5. QED
  BY <1>1, <1>2, <1>3, <1>4, PTL DEF Spec

(* The outcome on the record, and what the asking thread was told, is what happened on the *)
(* database, unless the job was taken before its record named it or told lost while it ran *)
(* (runExecution, runExecutionJob and markExecutionLost, each putting the record it read). *)
THEOREM OutcomeToldHolds ==
  ASSUME OneCall
  PROVE  Spec => []OutcomeTold
<1>1. AloneInv => OutcomeTold
  <2> SUFFICES ASSUME AloneInv PROVE OutcomeTold
    OBVIOUS
  <2>1. OutcomeTrue
    BY DEF AloneInv, Truthful, OutcomeTrue, TrueOf
  <2>2. ToldAsRecorded
    BY DEF AloneInv, Truthful, ToldAsRecorded, ToldOf
  <2>3. QED
    BY <2>1, <2>2 DEF OutcomeTold
<1>2. OneCall /\ AloneInv /\ [Next]_vars => AloneInv'
  BY AloneStep
<1>3. (OneCall /\ AloneInv /\ [Next]_vars) => OneCall'
  BY DEF OneCall
<1>4. QED
  BY <1>1, <1>2, <1>3, AloneInit, PTL DEF Spec

(* An outcome, once on such a record, is never taken back or replaced. *)
THEOREM OutcomeStaysHolds ==
  ASSUME OneCall
  PROVE  Spec => OutcomeStays
<1>1. OneCall /\ AloneInv /\ [Next]_vars => AloneInv'
  BY AloneStep
<1>2. OneCall /\ AloneInv /\ [Next]_vars =>
        [\A r \in Requests : Outcome(r) # NULL /\ Undisturbed(r)' => record'[r].carried.outcome = Outcome(r)]_vars
  BY AloneStep DEF AnswerStays, Outcome
<1>3. (OneCall /\ AloneInv /\ [Next]_vars) => OneCall'
  BY DEF OneCall
<1>4. QED
  BY <1>1, <1>2, <1>3, AloneInit, PTL DEF Spec, OutcomeStays
=============================================================================
