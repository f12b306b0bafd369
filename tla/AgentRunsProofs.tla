--------------------------- MODULE AgentRunsProofs ---------------------------
(***************************************************************************)
(* Proofs about AgentRuns for any number of drives, cancels, steps and      *)
(* faults: its types, that a step's statement is sent once, that an ending  *)
(* stays.                                                                   *)
(***************************************************************************)
EXTENDS AgentRuns, TLAPS

Record == [phase : Phases, claimed : BOOLEAN, seen : Statuses, turns : 0..Turns,
           calls : SUBSET Steps, step : SUBSET Steps, owes : BOOLEAN, ending : Terminal]

(* The record of a resting actor is one. *)
LEMMA RestingIsRecord == Resting \in Record
  BY AgentNaturals, SMT DEF Resting, Record, Phases, EndPhases, Statuses, Terminal

(* Putting a record leaves a function to records. *)
LEMMA PutsTyped ==
  ASSUME TypeOK, NEW a \in Actors, NEW r \in Record, Puts(a, r)
  PROVE  actor' \in [Actors -> Record]
  BY DEF TypeOK, Puts, Record

(* So does changing the phase. *)
LEMMA GoesTyped ==
  ASSUME TypeOK, NEW a \in Actors, NEW phase \in Phases, Goes(a, phase)
  PROVE  actor' \in [Actors -> Record]
<1>1. [actor[a] EXCEPT !.phase = phase] \in Record
  BY DEF TypeOK, Record
<1> QED BY <1>1, PutsTyped DEF Goes

(* A throw leaves a record and a Boolean behind. *)
LEMMA ThrowsTyped ==
  ASSUME TypeOK, NEW a \in Actors, Throws(a)
  PROVE  actor' \in [Actors -> Record] /\ driven' \in BOOLEAN
<1>1. [Resting EXCEPT !.phase = "finishing"] \in Record
  BY RestingIsRecord DEF Resting, Record, Phases, EndPhases
<1>2. actor' \in [Actors -> Record]
  BY <1>1, RestingIsRecord, PutsTyped DEF Throws
<1>3. driven' \in BOOLEAN
  BY DEF TypeOK, Throws
<1> QED BY <1>2, <1>3

(* Leaving the loop leaves a record behind. *)
LEMMA EndsTyped ==
  ASSUME TypeOK, NEW a \in Actors, NEW phase \in Phases, NEW status \in Terminal, Ends(a, phase, status)
  PROVE  actor' \in [Actors -> Record]
<1>1. actor[a].claimed \in BOOLEAN
  BY DEF TypeOK
<1>2. [Resting EXCEPT !.phase = phase, !.ending = status, !.claimed = actor[a].claimed] \in Record
  BY <1>1, RestingIsRecord DEF Resting, Record
<1> QED BY <1>2, PutsTyped DEF Ends

(* The initial state has its types. *)
LEMMA TypeInit == Init => TypeOK
<1> SUFFICES ASSUME Init PROVE TypeOK
  OBVIOUS
<1>1. actor \in [Actors -> Record]
  BY RestingIsRecord DEF Init
<1>2. faults \in 0..Faults
  BY AgentNaturals DEF Init
<1>3. ledger \in [status : Statuses, stop : BOOLEAN, invoked : SUBSET Steps, settled : SUBSET Steps]
  BY DEF Init, Statuses
<1> QED BY <1>1, <1>2, <1>3 DEF Init, TypeOK, Record

(* A drive's steps up to its loop keep the types. *)
LEMMA TypeStart ==
  ASSUME TypeOK, NEW d \in Drives, crossed' \in BOOLEAN, faults' \in 0..Faults,
         Deliver(d) \/ ResolveFails(d) \/ StartStep(d)
  PROVE  TypeOK'
<1> USE DEF TypeOK
<1>0. d \in Actors BY DEF Actors
<1>1. CASE Deliver(d)
  BY <1>0, <1>1, GoesTyped DEF Deliver, Phases, Record
<1>2. CASE ResolveFails(d)
  BY <1>0, <1>2, ThrowsTyped DEF ResolveFails, Record
<1>3. CASE Resume(d)
  <2>1. CASE Ended /\ Throws(d)
    BY <1>0, <1>3, <2>1, ThrowsTyped DEF Resume, Record
  <2>2. CASE ~Ended
    <3>1. [actor[d] EXCEPT !.phase = "claiming", !.seen = ledger.status] \in Record
      BY <1>0 DEF Record, Phases
    <3> QED BY <1>0, <1>3, <2>2, <3>1, PutsTyped DEF Resume, Record
  <2> QED BY <1>3, <2>1, <2>2 DEF Resume
<1>4. CASE Claim(d)
  <2>1. CASE Puts(d, Resting)
    <3>1. actor' \in [Actors -> Record]
      BY <1>0, <2>1, RestingIsRecord, PutsTyped
    <3>2. driven' \in BOOLEAN
      BY <1>4 DEF Claim
    <3> QED BY <1>4, <3>1, <3>2 DEF Claim, Record
  <2> DEFINE r == [actor[d] EXCEPT !.claimed = TRUE, !.seen = "queued",
                     !.phase = IF actor[d].seen = "queued" THEN "marking" ELSE "introducing"]
  <2>2. CASE driven' = TRUE /\ Puts(d, r)
    <3>1. r \in Record
      BY <1>0 DEF Record, Phases, Statuses
    <3>2. actor' \in [Actors -> Record]
      BY <1>0, <2>2, <3>1, PutsTyped
    <3> QED BY <1>4, <2>2, <3>2 DEF Claim, Record
  <2> QED BY <1>4, <2>1, <2>2 DEF Claim
<1>5. CASE MarkRead(d)
  <2>1. CASE ledger.status = "queued"
    BY <1>0, <1>5, <2>1, GoesTyped DEF MarkRead, Phases, Record
  <2>2. CASE ledger.status # "queued"
    BY <1>0, <1>5, <2>2, ThrowsTyped DEF MarkRead, Record
  <2> QED BY <2>1, <2>2
<1>6. CASE MarkRunning(d)
  <2>1. CASE Throws(d) /\ UNCHANGED <<ledger, revived>>
    BY <1>0, <1>6, <2>1, ThrowsTyped DEF MarkRunning, Record
  <2>2. CASE /\ Writes([ledger EXCEPT !.status = "running"]) /\ Goes(d, "introducing")
             /\ UNCHANGED driven /\ revived' = (revived \/ (Ended /\ ~shut))
    <3>1. revived' \in BOOLEAN
      BY <2>2
    <3>2. actor' \in [Actors -> Record]
      BY <1>0, <2>2, GoesTyped DEF Phases
    <3>3. ledger' \in [status : Statuses, stop : BOOLEAN, invoked : SUBSET Steps, settled : SUBSET Steps]
      BY <2>2 DEF Writes, Statuses
    <3> QED BY <1>6, <2>2, <3>1, <3>2, <3>3 DEF MarkRunning, Record
  <2> QED BY <1>6, <2>1, <2>2 DEF MarkRunning
<1>7. CASE RecordDriver(d)
  <2>1. CASE Throws(d)
    BY <1>0, <1>7, <2>1, ThrowsTyped DEF RecordDriver, Record
  <2>2. CASE Goes(d, "checking") /\ UNCHANGED driven
    BY <1>0, <1>7, <2>2, GoesTyped DEF RecordDriver, Phases, Record
  <2> QED BY <1>7, <2>1, <2>2 DEF RecordDriver
<1> QED BY <1>1, <1>2, <1>3, <1>4, <1>5, <1>6, <1>7 DEF StartStep

(* The turns of the loop keep the types. *)
LEMMA TypeTurns ==
  ASSUME TypeOK, NEW d \in Drives, crossed' \in BOOLEAN, faults' \in 0..Faults,
         Check(d) \/ Answer(d)
  PROVE  TypeOK'
<1> USE DEF TypeOK
<1>0. d \in Actors BY DEF Actors
<1>1. "finishing" \in Phases /\ Terminal = {"succeeded", "failed", "cancelled"}
  BY DEF Phases, EndPhases, Terminal
<1>2. CASE Check(d)
  <2>1. CASE \E status \in {"cancelled", "failed"} : Concludes(d, status)
    <3> PICK status \in {"cancelled", "failed"} : Ends(d, "finishing", status)
      BY <2>1 DEF Concludes
    <3>1. status \in Terminal BY <1>1
    <3> QED BY <1>0, <1>1, <1>2, <3>1, EndsTyped DEF Check, Record
  <2>2. CASE /\ TurnsLeft(d)
             /\ Puts(d, [actor[d] EXCEPT !.phase = "turning", !.turns = @ + 1])
    <3>1. actor[d].turns + 1 \in 0..Turns
      BY <1>0, <2>2, AgentNaturals DEF TurnsLeft
    <3>2. [actor[d] EXCEPT !.phase = "turning", !.turns = @ + 1] \in Record
      BY <1>0, <3>1 DEF Record, Phases
    <3> QED BY <1>0, <1>2, <2>2, <3>2, PutsTyped DEF Check, Record
  <2> QED BY <1>2, <2>1, <2>2 DEF Check
<1>3. CASE Answer(d)
  <2>1. CASE UNCHANGED driven /\ \E calls \in SUBSET Steps :
               Puts(d, [actor[d] EXCEPT !.phase = "calling", !.calls = calls])
    <3> PICK calls \in SUBSET Steps : Puts(d, [actor[d] EXCEPT !.phase = "calling", !.calls = calls])
      BY <2>1
    <3>1. [actor[d] EXCEPT !.phase = "calling", !.calls = calls] \in Record
      BY <1>0 DEF Record, Phases
    <3> QED BY <1>0, <1>3, <2>1, <3>1, PutsTyped DEF Answer, Record
  <2>2. CASE Concludes(d, "succeeded") /\ UNCHANGED driven
    BY <1>0, <1>1, <1>3, <2>2, EndsTyped DEF Answer, Concludes, Record
  <2>3. CASE Throws(d)
    BY <1>0, <1>3, <2>3, ThrowsTyped DEF Answer, Record
  <2> QED BY <1>3, <2>1, <2>2, <2>3 DEF Answer
<1> QED BY <1>2, <1>3

(* The calls of a turn keep the types. *)
LEMMA TypeCalls ==
  ASSUME TypeOK, NEW d \in Drives, crossed' \in BOOLEAN, faults' \in 0..Faults, CallStep(d)
  PROVE  TypeOK'
<1> USE DEF TypeOK
<1>0. d \in Actors BY DEF Actors
<1>1. /\ {"finishing", "ending", "checking", "calling", "invoking", "executing", "sent", "settling"} \subseteq Phases
      /\ {"succeeded", "cancelled"} \subseteq Terminal
  BY DEF Phases, EndPhases, Terminal
<1>2. CASE CallsDone(d)
  BY <1>0, <1>1, <1>2, GoesTyped DEF CallsDone, Record
<1>3. CASE Report(d)
  <2>1. CASE Concludes(d, "succeeded") /\ UNCHANGED driven
    BY <1>0, <1>1, <1>3, <2>1, EndsTyped DEF Report, Concludes, Record
  <2>2. CASE Throws(d)
    BY <1>0, <1>3, <2>2, ThrowsTyped DEF Report, Record
  <2> QED BY <1>3, <2>1, <2>2 DEF Report
<1>4. ASSUME NEW s \in Steps, StepRead(d, s) PROVE TypeOK'
  <2>1. CASE Throws(d)
    BY <1>0, <1>4, <2>1, ThrowsTyped DEF StepRead, Record
  <2>2. CASE Ends(d, "ending", "cancelled") /\ UNCHANGED driven
    BY <1>0, <1>1, <1>4, <2>2, EndsTyped DEF StepRead, Record
  <2>3. CASE Puts(d, [actor[d] EXCEPT !.calls = @ \ {s}]) /\ UNCHANGED driven
    <3>1. [actor[d] EXCEPT !.calls = @ \ {s}] \in Record
      BY <1>0 DEF Record
    <3> QED BY <1>0, <1>4, <2>3, <3>1, PutsTyped DEF StepRead, Record
  <2>4. CASE /\ UNCHANGED driven
             /\ Puts(d, [actor[d] EXCEPT !.calls = @ \ {s}, !.step = {s}, !.phase = "invoking"])
    <3>1. [actor[d] EXCEPT !.calls = @ \ {s}, !.step = {s}, !.phase = "invoking"] \in Record
      BY <1>0, <1>1, <1>4 DEF Record
    <3> QED BY <1>0, <1>4, <2>4, <3>1, PutsTyped DEF StepRead, Record
  <2> QED BY <1>4, <2>1, <2>2, <2>3, <2>4 DEF StepRead
<1>5. CASE Invoke(d)
  <2>1. CASE Throws(d) /\ UNCHANGED ledger
    BY <1>0, <1>5, <2>1, ThrowsTyped DEF Invoke, Record
  <2>2. CASE Writes([ledger EXCEPT !.invoked = @ \cup actor[d].step]) /\ Goes(d, "executing") /\ UNCHANGED driven
    <3>1. actor[d].step \subseteq Steps
      BY <1>0
    <3>2. ledger' \in [status : Statuses, stop : BOOLEAN, invoked : SUBSET Steps, settled : SUBSET Steps]
      BY <2>2, <3>1 DEF Writes
    <3> QED BY <1>0, <1>1, <1>5, <2>2, <3>2, GoesTyped DEF Invoke, Record
  <2> QED BY <1>5, <2>1, <2>2 DEF Invoke
<1>6. CASE Refuse(d)
  <2> PICK owes \in BOOLEAN : Puts(d, [actor[d] EXCEPT !.phase = "settling", !.owes = owes])
    BY <1>6 DEF Refuse
  <2>1. [actor[d] EXCEPT !.phase = "settling", !.owes = owes] \in Record
    BY <1>0, <1>1 DEF Record
  <2> QED BY <1>0, <1>6, <2>1, PutsTyped DEF Refuse, Record
<1>7. CASE Send(d)
  <2>1. actor' \in [Actors -> Record]
    BY <1>0, <1>1, <1>7, GoesTyped DEF Send
  <2>2. sent' \subseteq Steps /\ again' \subseteq Steps
    BY <1>0, <1>7 DEF Send
  <2>3. live' \in Nat
    BY <1>7 DEF Send
  <2> QED BY <1>7, <2>1, <2>2, <2>3 DEF Send, Record
<1>8. CASE Return(d)
  <2>0. live \in Nat /\ live > 0 /\ live' = live - 1
    BY <1>8 DEF Return
  <2>1. live' \in Nat
    BY <2>0
  <2>2. CASE Throws(d)
    BY <1>0, <1>8, <2>1, <2>2, ThrowsTyped DEF Return, Record
  <2>3. CASE UNCHANGED driven /\ \E owes \in BOOLEAN :
               Puts(d, [actor[d] EXCEPT !.phase = "settling", !.owes = owes])
    <3> PICK owes \in BOOLEAN : Puts(d, [actor[d] EXCEPT !.phase = "settling", !.owes = owes])
      BY <2>3
    <3>1. [actor[d] EXCEPT !.phase = "settling", !.owes = owes] \in Record
      BY <1>0, <1>1 DEF Record
    <3> QED BY <1>0, <1>8, <2>1, <2>3, <3>1, PutsTyped DEF Return, Record
  <2> QED BY <1>8, <2>2, <2>3 DEF Return
<1>9. CASE Settle(d)
  <2>0. [actor[d] EXCEPT !.phase = "calling", !.step = {}, !.owes = FALSE] \in Record
    BY <1>0, <1>1 DEF Record
  <2>1. CASE Throws(d) /\ UNCHANGED ledger
    BY <1>0, <1>9, <2>1, ThrowsTyped DEF Settle, Record
  <2>2. CASE Called(d) /\ UNCHANGED <<driven, ledger>>
    BY <1>0, <1>9, <2>0, <2>2, PutsTyped DEF Settle, Called, Record
  <2>3. CASE Writes([ledger EXCEPT !.settled = @ \cup actor[d].step]) /\ Called(d) /\ UNCHANGED driven
    <3>1. actor[d].step \subseteq Steps
      BY <1>0
    <3>2. ledger' \in [status : Statuses, stop : BOOLEAN, invoked : SUBSET Steps, settled : SUBSET Steps]
      BY <2>3, <3>1 DEF Writes
    <3> QED BY <1>0, <1>9, <2>0, <2>3, <3>2, PutsTyped DEF Settle, Called, Record
  <2> QED BY <1>9, <2>1, <2>2, <2>3 DEF Settle
<1> QED BY <1>2, <1>3, <1>4, <1>5, <1>6, <1>7, <1>8, <1>9 DEF CallStep

(* Ending a run, and asking for its end, keep the types. *)
LEMMA TypeEnds ==
  ASSUME TypeOK, NEW a \in Actors, crossed' \in BOOLEAN, faults' \in 0..Faults,
         EndStep(a) \/ CancelRead(a) \/ RequestCancellation(a)
  PROVE  TypeOK'
<1> USE DEF TypeOK
<1>1. /\ {"idle", "asking", "ending", "closing", "shutting"} \subseteq Phases
      /\ {"failed", "cancelled"} \subseteq Terminal /\ Terminal \subseteq Statuses
  BY DEF Phases, EndPhases, Terminal, Statuses
<1>2. CASE FinishRead(a)
  <2>1. CASE Throws(a)
    BY <1>2, <2>1, ThrowsTyped DEF FinishRead, Record
  <2>2. CASE Goes(a, "ending") /\ UNCHANGED driven
    BY <1>1, <1>2, <2>2, GoesTyped DEF FinishRead, Record
  <2> QED BY <1>2, <2>1, <2>2 DEF FinishRead
<1>3. CASE AppendFinished(a)
  <2>1. CASE Throws(a) /\ UNCHANGED ledger
    BY <1>3, <2>1, ThrowsTyped DEF AppendFinished, Record
  <2>2. CASE /\ Writes([ledger EXCEPT !.status = actor[a].ending]) /\ UNCHANGED driven
             /\ Puts(a, [actor[a] EXCEPT !.phase = "closing", !.ending = "failed"])
    <3>0. [actor[a] EXCEPT !.phase = "closing", !.ending = "failed"] \in Record
      BY <1>1 DEF Record
    <3>1. actor' \in [Actors -> Record]
      BY <2>2, <3>0, PutsTyped
    <3>2. ledger' \in [status : Statuses, stop : BOOLEAN, invoked : SUBSET Steps, settled : SUBSET Steps]
      BY <1>1, <2>2 DEF Writes
    <3> QED BY <1>3, <2>2, <3>1, <3>2 DEF AppendFinished, Record
  <2> QED BY <1>3, <2>1, <2>2 DEF AppendFinished
<1>4. CASE MarkClosed(a)
  BY <1>1, <1>4, GoesTyped DEF MarkClosed, Record
<1>5. CASE CloseStream(a)
  <2>1. actor' \in [Actors -> Record]
    BY <1>5, RestingIsRecord, PutsTyped DEF CloseStream
  <2>2. driven' \in BOOLEAN
    BY <1>5 DEF CloseStream
  <2> QED BY <1>5, <2>1, <2>2 DEF CloseStream, Record
<1>6. CASE CancelRead(a)
  <2>1. CASE Ends(a, "ending", "cancelled")
    BY <1>1, <1>6, <2>1, EndsTyped DEF CancelRead, Record
  <2>2. CASE Goes(a, "asking")
    BY <1>1, <1>6, <2>2, GoesTyped DEF CancelRead, Record
  <2> QED BY <1>6, <2>1, <2>2 DEF CancelRead
<1>7. CASE RequestCancellation(a)
  <2>1. ledger' \in [status : Statuses, stop : BOOLEAN, invoked : SUBSET Steps, settled : SUBSET Steps]
    BY <1>7 DEF RequestCancellation, Writes
  <2> QED BY <1>1, <1>7, <2>1, GoesTyped DEF RequestCancellation, Record
<1> QED BY <1>2, <1>3, <1>4, <1>5, <1>6, <1>7 DEF EndStep

(* A fault keeps the types. *)
LEMMA TypeFaults ==
  ASSUME TypeOK, crossed' \in BOOLEAN, Stop \/ \E a \in Actors : StoreRefuses(a)
  PROVE  TypeOK'
<1> USE DEF TypeOK
<1>1. CASE Stop
  <2>1. faults' \in 0..Faults
    BY <1>1, AgentNaturals DEF Stop
  <2>2. actor' \in [Actors -> Record]
    BY <1>1, RestingIsRecord DEF Stop
  <2> QED BY <1>1, <2>1, <2>2 DEF Stop, Record
<1>2. ASSUME NEW a \in Actors, StoreRefuses(a) PROVE TypeOK'
  <2>1. faults' \in 0..Faults
    BY <1>2, AgentNaturals DEF StoreRefuses
  <2> QED BY <1>2, <2>1, ThrowsTyped DEF StoreRefuses, Record
<1> QED BY <1>1, <1>2

(* Every state reached has its types. *)
THEOREM TypeCorrect == Spec => []TypeOK
<1>1. TypeOK /\ [Next]_vars => TypeOK'
  <2> SUFFICES ASSUME TypeOK, [Next]_vars PROVE TypeOK'
    OBVIOUS
  <2>1. CASE UNCHANGED vars
    BY <2>1 DEF TypeOK, vars
  <2>2. CASE Next
    <3>1. crossed' \in BOOLEAN
      BY <2>2 DEF Next, Crosses, TypeOK
    <3>2. CASE Stop \/ \E a \in Actors : StoreRefuses(a)
      BY <3>1, <3>2, TypeFaults
    <3>3. CASE UNCHANGED faults /\ \E d \in Drives : DriveStep(d)
      <4>1. faults' \in 0..Faults
        BY <3>3 DEF TypeOK
      <4>2. PICK d \in Drives : DriveStep(d)
        BY <3>3
      <4>3. d \in Actors
        BY DEF Actors
      <4> QED BY <3>1, <4>1, <4>2, <4>3, TypeStart, TypeTurns, TypeCalls, TypeEnds DEF DriveStep, CarryOn
    <3>4. CASE UNCHANGED faults /\ \E c \in Cancels : CancelStep(c)
      <4>1. faults' \in 0..Faults
        BY <3>4 DEF TypeOK
      <4>2. PICK c \in Cancels : CancelStep(c)
        BY <3>4
      <4>3. c \in Actors
        BY DEF Actors
      <4> QED BY <3>1, <4>1, <4>2, <4>3, TypeEnds DEF CancelStep
    <3> QED BY <2>2, <3>2, <3>3, <3>4 DEF Next
  <2> QED BY <2>1, <2>2
<1> QED BY <1>1, TypeInit, PTL DEF Spec

-----------------------------------------------------------------------------
(* The phases in which a drive is inside runInvestigation's try. *)
Loop == {"marking", "starting", "introducing", "checking", "turning", "calling",
         "invoking", "executing", "sent", "settling"}

(* One claim at a time, and only who holds it is in the loop. *)
Claims ==
  /\ \A a, b \in Actors : actor[a].claimed /\ actor[b].claimed => a = b
  /\ \A a \in Actors : actor[a].claimed => driven
  /\ \A a \in Actors : actor[a].phase \in Loop => actor[a].claimed

(* What a closed stream tells: the run has ended, and who is in the loop is refused. *)
ClosedTells ==
  /\ \A a \in Actors : actor[a].phase = "shutting" => closed
  /\ ~revived =>
       /\ shut => Ended
       /\ \A a \in Actors : actor[a].phase \in {"closing", "shutting"} => Ended
       /\ \A a \in Actors : shut /\ actor[a].phase \in Loop \cup {"claiming"} => closed

(* Before its invocation is written a step is new; after it, it is named and not sent yet. *)
StepsFresh ==
  ~revived =>
    /\ again = {} /\ sent \subseteq ledger.invoked
    /\ \A a \in Actors :
         /\ actor[a].phase = "invoking" => actor[a].step \cap ledger.invoked = {}
         /\ actor[a].phase = "executing" =>
              actor[a].step \subseteq ledger.invoked /\ actor[a].step \cap sent = {}

StepInv == TypeOK /\ Claims /\ ClosedTells /\ StepsFresh

(* How one actor's step changes who holds the claim. *)
Others(a) == \A b \in Actors : b # a => actor'[b] = actor[b]
KeepsClaim(a) ==
  /\ driven' = driven /\ actor'[a].claimed = actor[a].claimed
  /\ actor'[a].phase \in Loop => actor[a].claimed
TakesClaim(a) == ~driven /\ driven' /\ actor'[a].claimed
DropsClaim(a) ==
  /\ driven' = driven \/ driven' = (driven /\ ~actor[a].claimed)
  /\ actor'[a].claimed = FALSE /\ actor'[a].phase \in {"idle", "finishing"}

(* A step the ledger does not see. *)
Quiet(a) ==
  /\ UNCHANGED <<ledger, shut, closed, sent, again, revived>>
  /\ actor'[a].phase \notin {"closing", "shutting", "invoking", "executing"}
  /\ actor'[a].phase \in Loop \cup {"claiming"} =>
       actor[a].phase \in Loop \cup {"claiming"} \/ ~Ended

(* What putting a record does to the function. *)
LEMMA PutsAt ==
  ASSUME TypeOK, NEW a \in Actors, NEW r, Puts(a, r)
  PROVE  actor'[a] = r /\ Others(a)
  BY DEF TypeOK, Puts, Others

(* What changing the phase does. *)
LEMMA GoesAt ==
  ASSUME TypeOK, NEW a \in Actors, NEW phase, Goes(a, phase)
  PROVE  /\ actor'[a].phase = phase /\ actor'[a].claimed = actor[a].claimed
         /\ actor'[a].step = actor[a].step /\ Others(a)
<1>1. actor[a] \in Record
  BY DEF TypeOK, Record
<1>2. actor'[a] = [actor[a] EXCEPT !.phase = phase] /\ Others(a)
  BY PutsAt DEF Goes
<1> QED BY <1>1, <1>2 DEF Record

(* What a throw does. *)
LEMMA ThrowsAt ==
  ASSUME TypeOK, NEW a \in Actors, Throws(a)
  PROVE  Others(a) /\ DropsClaim(a)
<1> DEFINE recording == a \in Cancels \/ (actor[a].phase \in EndPhases /\ ~actor[a].claimed)
<1>1. actor'[a] = (IF recording THEN Resting ELSE [Resting EXCEPT !.phase = "finishing"]) /\ Others(a)
  BY PutsAt DEF Throws
<1>2. actor'[a].claimed = FALSE /\ actor'[a].phase \in {"idle", "finishing"}
  BY <1>1 DEF Resting
<1> QED BY <1>1, <1>2 DEF Throws, DropsClaim

(* What leaving the loop does. *)
LEMMA EndsAt ==
  ASSUME TypeOK, NEW a \in Actors, NEW phase, NEW status, Ends(a, phase, status)
  PROVE  actor'[a].phase = phase /\ actor'[a].claimed = actor[a].claimed /\ Others(a)
<1>1. /\ actor'[a] = [Resting EXCEPT !.phase = phase, !.ending = status, !.claimed = actor[a].claimed]
      /\ Others(a)
  BY PutsAt DEF Ends
<1> QED BY <1>1 DEF Resting

-----------------------------------------------------------------------------
(* Any of these moves keeps the claims. *)
LEMMA ClaimsMove ==
  ASSUME TypeOK, Claims, NEW a \in Actors, Others(a),
         KeepsClaim(a) \/ TakesClaim(a) \/ DropsClaim(a)
  PROVE  Claims'
<1>1. CASE KeepsClaim(a)
  BY <1>1 DEF Claims, KeepsClaim, Others
<1>2. CASE TakesClaim(a)
  <2>1. \A b \in Actors : ~actor[b].claimed
    BY <1>2 DEF Claims, TakesClaim
  <2> QED BY <1>2, <2>1 DEF Claims, TakesClaim, Others
<1>3. CASE DropsClaim(a)
  <2>1. \A b \in Actors : b # a /\ actor'[b].claimed => ~actor[a].claimed /\ actor[b].claimed
    BY DEF Claims, Others
  <2>2. \A b \in Actors : actor'[b].claimed => driven'
    <3> SUFFICES ASSUME NEW b \in Actors, actor'[b].claimed PROVE driven'
      OBVIOUS
    <3>1. b # a
      BY <1>3 DEF DropsClaim
    <3>2. driven /\ ~actor[a].claimed
      BY <2>1, <3>1 DEF Claims
    <3> QED BY <1>3, <3>2 DEF DropsClaim
  <2>3. \A b \in Actors : actor'[b].phase \in Loop => b # a /\ actor[b].claimed
    BY <1>3 DEF Claims, DropsClaim, Others, Loop
  <2>4. \A b, c \in Actors : actor'[b].claimed /\ actor'[c].claimed => b = c
    BY <1>3, <2>1 DEF Claims, DropsClaim, Others
  <2> QED BY <2>2, <2>3, <2>4 DEF Claims, Others
<1> QED BY <1>1, <1>2, <1>3

(* A quiet step keeps what the ledger tells. *)
LEMMA QuietKeeps ==
  ASSUME StepInv, NEW a \in Actors, Others(a), Quiet(a)
  PROVE  ClosedTells' /\ StepsFresh'
<1>1. /\ actor'[a].phase \notin {"closing", "shutting", "invoking", "executing"}
      /\ UNCHANGED <<ledger, shut, closed, sent, again, revived>>
      /\ actor'[a].phase \in Loop \cup {"claiming"} =>
           actor[a].phase \in Loop \cup {"claiming"} \/ ~Ended
  BY DEF Quiet
<1>2. Ended' = Ended
  BY <1>1 DEF Ended
<1>3. \A b \in Actors : b # a => actor'[b] = actor[b]
  BY DEF Others
<1>4. ClosedTells'
  <2>1. \A b \in Actors : actor'[b].phase = "shutting" => closed'
    BY <1>1, <1>3 DEF StepInv, ClosedTells
  <2>2. ~revived /\ shut => Ended
    BY DEF StepInv, ClosedTells
  <2>3. ~revived => \A b \in Actors : actor'[b].phase \in {"closing", "shutting"} => Ended
    BY <1>1, <1>3 DEF StepInv, ClosedTells
  <2>4. ~revived => \A b \in Actors : shut /\ actor'[b].phase \in Loop \cup {"claiming"} => closed
    BY <1>1, <1>3, <2>2 DEF StepInv, ClosedTells
  <2> QED BY <1>1, <1>2, <2>1, <2>2, <2>3, <2>4 DEF ClosedTells
<1>5. StepsFresh'
  BY <1>1, <1>3 DEF StepInv, StepsFresh
<1> QED BY <1>4, <1>5

(* A throw is quiet where its action leaves the ledger alone. *)
LEMMA ThrowsQuiet ==
  ASSUME StepInv, NEW a \in Actors, Throws(a),
         UNCHANGED <<ledger, shut, closed, sent, again, revived>>
  PROVE  Claims' /\ ClosedTells' /\ StepsFresh'
<1>1. TypeOK /\ Claims
  BY DEF StepInv
<1>2. Others(a) /\ DropsClaim(a)
  BY <1>1, ThrowsAt
<1>3. Quiet(a)
  BY <1>2 DEF DropsClaim, Quiet, Loop
<1> QED BY <1>1, <1>2, <1>3, ClaimsMove, QuietKeeps

(* So is a change of phase that enters neither the loop nor the closing. *)
LEMMA GoesQuiet ==
  ASSUME StepInv, NEW a \in Actors, NEW phase, Goes(a, phase), UNCHANGED driven,
         UNCHANGED <<ledger, shut, closed, sent, again, revived>>,
         phase \notin {"closing", "shutting", "invoking", "executing", "claiming"},
         phase \in Loop => actor[a].phase \in Loop
  PROVE  Claims' /\ ClosedTells' /\ StepsFresh'
<1>1. TypeOK /\ Claims
  BY DEF StepInv
<1>2. Others(a) /\ actor'[a].phase = phase /\ actor'[a].claimed = actor[a].claimed
  BY <1>1, GoesAt
<1>3. Quiet(a)
  BY <1>2 DEF Quiet
<1>4. KeepsClaim(a)
  BY <1>1, <1>2 DEF KeepsClaim, Claims
<1> QED BY <1>1, <1>2, <1>3, <1>4, ClaimsMove, QuietKeeps

(* And leaving the loop for one of the ending phases before the append. *)
LEMMA EndsQuiet ==
  ASSUME StepInv, NEW a \in Actors, NEW phase \in {"finishing", "ending"}, NEW status,
         Ends(a, phase, status), UNCHANGED driven,
         UNCHANGED <<ledger, shut, closed, sent, again, revived>>
  PROVE  Claims' /\ ClosedTells' /\ StepsFresh'
<1>1. TypeOK /\ Claims
  BY DEF StepInv
<1>2. Others(a) /\ actor'[a].phase = phase /\ actor'[a].claimed = actor[a].claimed
  BY <1>1, EndsAt
<1>3. Quiet(a)
  BY <1>2 DEF Quiet, Loop
<1>4. KeepsClaim(a)
  BY <1>2 DEF KeepsClaim, Loop
<1> QED BY <1>1, <1>2, <1>3, <1>4, ClaimsMove, QuietKeeps

(* And putting a record that stays where it was, or goes on within the loop. *)
LEMMA PutsQuiet ==
  ASSUME StepInv, NEW a \in Actors, NEW r, Puts(a, r), UNCHANGED driven,
         UNCHANGED <<ledger, shut, closed, sent, again, revived>>,
         r.claimed = actor[a].claimed,
         r.phase \notin {"closing", "shutting", "invoking", "executing"},
         r.phase \in Loop => actor[a].phase \in Loop,
         r.phase = "claiming" => ~Ended
  PROVE  Claims' /\ ClosedTells' /\ StepsFresh'
<1>1. TypeOK /\ Claims
  BY DEF StepInv
<1>2. Others(a) /\ actor'[a] = r
  BY <1>1, PutsAt
<1>3. Quiet(a)
  BY <1>2 DEF Quiet
<1>4. KeepsClaim(a)
  BY <1>1, <1>2 DEF KeepsClaim, Claims
<1> QED BY <1>1, <1>2, <1>3, <1>4, ClaimsMove, QuietKeeps

Safe == Claims /\ ClosedTells /\ StepsFresh

(* A drive's steps up to its loop keep the invariant. *)
LEMMA SafeStart ==
  ASSUME StepInv, NEW d \in Drives, Deliver(d) \/ ResolveFails(d) \/ StartStep(d)
  PROVE  Safe'
<1> USE DEF Safe
<1>0. d \in Actors /\ TypeOK /\ Claims /\ actor[d] \in Record
  BY DEF StepInv, Actors, TypeOK, Record
<1>1. CASE Deliver(d)
  BY <1>0, <1>1, GoesQuiet DEF Deliver, Loop
<1>2. CASE ResolveFails(d)
  BY <1>0, <1>2, ThrowsQuiet DEF ResolveFails
<1>3. CASE Resume(d)
  <2>1. CASE Throws(d)
    BY <1>0, <1>3, <2>1, ThrowsQuiet DEF Resume
  <2> DEFINE r == [actor[d] EXCEPT !.phase = "claiming", !.seen = ledger.status]
  <2>2. CASE ~Ended /\ UNCHANGED driven /\ Puts(d, r)
    <3>1. r.claimed = actor[d].claimed /\ r.phase = "claiming"
      BY <1>0 DEF Record
    <3> QED BY <1>0, <1>3, <2>2, <3>1, PutsQuiet DEF Resume, Loop
  <2> QED BY <1>3, <2>1, <2>2 DEF Resume
<1>4. CASE Claim(d)
  <2>1. CASE driven /\ Puts(d, Resting) /\ UNCHANGED driven
    <3>1. Others(d) /\ actor'[d] = Resting
      BY <1>0, <2>1, PutsAt
    <3>2. actor'[d].claimed = FALSE /\ actor'[d].phase = "idle"
      BY <3>1 DEF Resting
    <3>3. DropsClaim(d)
      BY <2>1, <3>2 DEF DropsClaim
    <3>4. Quiet(d)
      BY <1>4, <3>2 DEF Quiet, Claim, Loop
    <3> QED BY <1>0, <3>1, <3>3, <3>4, ClaimsMove, QuietKeeps
  <2> DEFINE r == [actor[d] EXCEPT !.claimed = TRUE, !.seen = "queued",
                     !.phase = IF actor[d].seen = "queued" THEN "marking" ELSE "introducing"]
  <2>2. CASE ~driven /\ driven' = TRUE /\ Puts(d, r)
    <3>1. Others(d) /\ actor'[d] = r
      BY <1>0, <2>2, PutsAt
    <3>2. r.claimed /\ r.phase \in {"marking", "introducing"}
      BY <1>0 DEF Record
    <3>3. TakesClaim(d)
      BY <2>2, <3>1, <3>2 DEF TakesClaim
    <3>4. Quiet(d)
      BY <1>4, <3>1, <3>2 DEF Claim, Quiet, In, Loop
    <3> QED BY <1>0, <3>1, <3>3, <3>4, ClaimsMove, QuietKeeps
  <2> QED BY <1>4, <2>1, <2>2 DEF Claim
<1>5. CASE MarkRead(d)
  <2>1. CASE Throws(d)
    BY <1>0, <1>5, <2>1, ThrowsQuiet DEF MarkRead
  <2>2. CASE Goes(d, "starting") /\ UNCHANGED driven
    BY <1>0, <1>5, <2>2, GoesQuiet DEF MarkRead, In, Loop
  <2> QED BY <1>5, <2>1, <2>2 DEF MarkRead
<1>6. CASE MarkRunning(d)
  <2>1. CASE Throws(d) /\ UNCHANGED <<ledger, revived>>
    BY <1>0, <1>6, <2>1, ThrowsQuiet DEF MarkRunning
  <2>2. CASE /\ Writes([ledger EXCEPT !.status = "running"]) /\ Goes(d, "introducing")
             /\ UNCHANGED driven /\ revived' = (revived \/ (Ended /\ ~shut))
    <3>1. Others(d) /\ actor'[d].phase = "introducing" /\ actor'[d].claimed = actor[d].claimed
      BY <1>0, <2>2, GoesAt
    <3>2. KeepsClaim(d)
      BY <1>0, <1>6, <2>2, <3>1 DEF KeepsClaim, Claims, MarkRunning, In, Loop
    <3>3. UNCHANGED <<shut, closed, sent, again>> /\ ledger'.invoked = ledger.invoked
      BY <1>0, <1>6, <2>2 DEF MarkRunning, Writes, TypeOK
    <3>4. ~revived' => ~revived /\ Ended' = Ended
      <4>1. CASE shut
        BY <2>2, <4>1 DEF Writes, Ended
      <4>2. CASE ~shut
        <5> SUFFICES ASSUME ~revived' PROVE ~revived /\ Ended' = Ended
          OBVIOUS
        <5>1. ~revived /\ ~Ended
          BY <2>2, <4>2
        <5>2. ledger'.status = "running"
          BY <1>0, <2>2, <4>2 DEF Writes, TypeOK
        <5> QED BY <5>1, <5>2 DEF Ended, Terminal
      <4> QED BY <4>1, <4>2
    <3>5. \A b \in Actors : actor'[b].phase \in Loop \cup {"claiming"} =>
                              actor[b].phase \in Loop \cup {"claiming"}
      BY <1>6, <3>1 DEF Others, MarkRunning, In, Loop
    <3>6. \A b \in Actors : actor'[b].phase \in {"closing", "shutting", "invoking", "executing"} =>
                              actor'[b] = actor[b]
      BY <3>1 DEF Others
    <3>7. ClosedTells'
      <4>1. \A b \in Actors : actor'[b].phase = "shutting" => closed'
        BY <3>3, <3>6 DEF StepInv, ClosedTells
      <4>2. ~revived' => (shut' => Ended')
        BY <3>3, <3>4 DEF StepInv, ClosedTells
      <4>3. ~revived' => \A b \in Actors : actor'[b].phase \in {"closing", "shutting"} => Ended'
        BY <3>4, <3>6 DEF StepInv, ClosedTells
      <4>4. ~revived' => \A b \in Actors : shut' /\ actor'[b].phase \in Loop \cup {"claiming"} => closed'
        BY <3>3, <3>4, <3>5 DEF StepInv, ClosedTells
      <4> QED BY <4>1, <4>2, <4>3, <4>4 DEF ClosedTells
    <3>8. StepsFresh'
      BY <3>3, <3>4, <3>6 DEF StepInv, StepsFresh
    <3> QED BY <1>0, <3>1, <3>2, <3>7, <3>8, ClaimsMove
  <2> QED BY <1>6, <2>1, <2>2 DEF MarkRunning
<1>7. CASE RecordDriver(d)
  <2>1. CASE Throws(d)
    BY <1>0, <1>7, <2>1, ThrowsQuiet DEF RecordDriver
  <2>2. CASE Goes(d, "checking") /\ UNCHANGED driven
    BY <1>0, <1>7, <2>2, GoesQuiet DEF RecordDriver, In, Loop
  <2> QED BY <1>7, <2>1, <2>2 DEF RecordDriver
<1> QED BY <1>1, <1>2, <1>3, <1>4, <1>5, <1>6, <1>7 DEF StartStep

(* The turns of the loop keep the invariant. *)
LEMMA SafeTurns ==
  ASSUME StepInv, NEW d \in Drives, Check(d) \/ Answer(d)
  PROVE  Safe'
<1> USE DEF Safe
<1>0. d \in Actors /\ actor[d] \in Record
  BY DEF StepInv, Actors, TypeOK, Record
<1>1. CASE Check(d)
  <2>1. ASSUME NEW status \in {"cancelled", "failed"}, Concludes(d, status) PROVE Safe'
    BY <1>0, <1>1, <2>1, EndsQuiet DEF Check, Concludes
  <2> DEFINE r == [actor[d] EXCEPT !.phase = "turning", !.turns = @ + 1]
  <2>2. CASE Puts(d, r)
    <3>1. r.claimed = actor[d].claimed /\ r.phase = "turning"
      BY <1>0 DEF Record
    <3> QED BY <1>0, <1>1, <2>2, <3>1, PutsQuiet DEF Check, In, Loop
  <2> QED BY <1>1, <2>1, <2>2 DEF Check
<1>2. CASE Answer(d)
  <2>1. ASSUME NEW calls \in SUBSET Steps, UNCHANGED driven,
               Puts(d, [actor[d] EXCEPT !.phase = "calling", !.calls = calls])
        PROVE  Safe'
    <3> DEFINE r == [actor[d] EXCEPT !.phase = "calling", !.calls = calls]
    <3>1. r.claimed = actor[d].claimed /\ r.phase = "calling"
      BY <1>0 DEF Record
    <3> QED BY <1>0, <1>2, <2>1, <3>1, PutsQuiet DEF Answer, In, Loop
  <2>2. CASE Concludes(d, "succeeded") /\ UNCHANGED driven
    BY <1>0, <1>2, <2>2, EndsQuiet DEF Answer, Concludes
  <2>3. CASE Throws(d)
    BY <1>0, <1>2, <2>3, ThrowsQuiet DEF Answer
  <2> QED BY <1>2, <2>1, <2>2, <2>3 DEF Answer
<1> QED BY <1>1, <1>2

(* The calls of a turn keep the invariant: the heart of it is that an invocation is *)
(* written where it can be read, by the one who holds the claim.                    *)
LEMMA SafeCalls ==
  ASSUME StepInv, NEW d \in Drives, CallStep(d)
  PROVE  Safe'
<1> USE DEF Safe
<1>0. d \in Actors /\ TypeOK /\ Claims /\ actor[d] \in Record
  BY DEF StepInv, Actors, TypeOK, Record
<1>1. CASE CallsDone(d)
  BY <1>0, <1>1, GoesQuiet DEF CallsDone, In, Loop
<1>2. CASE Report(d)
  <2>1. CASE Concludes(d, "succeeded") /\ UNCHANGED driven
    BY <1>0, <1>2, <2>1, EndsQuiet DEF Report, Concludes
  <2>2. CASE Throws(d)
    BY <1>0, <1>2, <2>2, ThrowsQuiet DEF Report
  <2> QED BY <1>2, <2>1, <2>2 DEF Report
<1>3. ASSUME NEW s \in Steps, StepRead(d, s) PROVE Safe'
  <2>1. CASE Throws(d)
    BY <1>0, <1>3, <2>1, ThrowsQuiet DEF StepRead
  <2>2. CASE Ends(d, "ending", "cancelled") /\ UNCHANGED driven
    BY <1>0, <1>3, <2>2, EndsQuiet DEF StepRead
  <2>3. CASE Puts(d, [actor[d] EXCEPT !.calls = @ \ {s}]) /\ UNCHANGED driven
    <3> DEFINE r == [actor[d] EXCEPT !.calls = @ \ {s}]
    <3>1. r.claimed = actor[d].claimed /\ r.phase = actor[d].phase
      BY <1>0 DEF Record
    <3> QED BY <1>0, <1>3, <2>3, <3>1, PutsQuiet DEF StepRead, In
  <2> DEFINE r == [actor[d] EXCEPT !.calls = @ \ {s}, !.step = {s}, !.phase = "invoking"]
  <2>4. CASE ~Known(s) /\ UNCHANGED driven /\ Puts(d, r)
    <3>1. r.claimed = actor[d].claimed /\ r.phase = "invoking" /\ r.step = {s}
      BY <1>0 DEF Record
    <3>2. Others(d) /\ actor'[d] = r
      BY <1>0, <2>4, PutsAt
    <3>3. UNCHANGED <<ledger, shut, closed, sent, again, revived>> /\ Ended' = Ended
      BY <1>3 DEF StepRead, Ended
    <3>4. KeepsClaim(d)
      BY <1>0, <1>3, <2>4, <3>1, <3>2 DEF KeepsClaim, Claims, StepRead, In, Loop
    <3>5. ClosedTells'
      <4>1. \A b \in Actors : actor'[b].phase \in {"closing", "shutting"} => actor'[b] = actor[b]
        BY <3>1, <3>2 DEF Others
      <4>2. \A b \in Actors : actor'[b].phase \in Loop \cup {"claiming"} =>
                                actor[b].phase \in Loop \cup {"claiming"}
        BY <1>3, <3>2 DEF Others, StepRead, In, Loop
      <4> QED BY <3>3, <4>1, <4>2 DEF StepInv, ClosedTells
    <3>6. StepsFresh'
      <4>1. actor'[d].step \cap ledger.invoked = {}
        BY <2>4, <3>1, <3>2 DEF Known
      <4> QED BY <3>1, <3>2, <3>3, <4>1 DEF StepInv, StepsFresh, Others
    <3> QED BY <1>0, <3>2, <3>4, <3>5, <3>6, ClaimsMove
  <2> QED BY <1>3, <2>1, <2>2, <2>3, <2>4 DEF StepRead
<1>4. CASE Invoke(d)
  <2>1. CASE Throws(d) /\ UNCHANGED ledger
    BY <1>0, <1>4, <2>1, ThrowsQuiet DEF Invoke
  <2>2. CASE Writes([ledger EXCEPT !.invoked = @ \cup actor[d].step]) /\ Goes(d, "executing") /\ UNCHANGED driven
    <3>1. /\ Others(d) /\ actor'[d].phase = "executing" /\ actor'[d].claimed = actor[d].claimed
          /\ actor'[d].step = actor[d].step
      BY <1>0, <2>2, GoesAt
    <3>2. actor[d].phase = "invoking" /\ ~closed /\ UNCHANGED <<shut, closed, sent, again, revived>>
      BY <1>4, <2>2 DEF Invoke, In, Writes
    <3>3. KeepsClaim(d)
      BY <1>0, <2>2, <3>1, <3>2 DEF KeepsClaim, Claims, Loop
    <3>4. ledger'.status = ledger.status /\ Ended' = Ended
      BY <1>0, <2>2 DEF Writes, TypeOK, Ended
    <3>5. ClosedTells'
      <4>1. \A b \in Actors : actor'[b].phase \in {"closing", "shutting"} => actor'[b] = actor[b]
        BY <3>1 DEF Others
      <4>2. \A b \in Actors : actor'[b].phase \in Loop \cup {"claiming"} =>
                                actor[b].phase \in Loop \cup {"claiming"}
        BY <3>1, <3>2 DEF Others, Loop
      <4> QED BY <3>2, <3>4, <4>1, <4>2 DEF StepInv, ClosedTells
    <3>6. StepsFresh'
      <4> SUFFICES ASSUME ~revived PROVE StepsFresh'
        BY <3>2 DEF StepsFresh
      <4>1. ~shut
        BY <1>0, <3>2 DEF StepInv, ClosedTells, Loop
      <4>2. ledger'.invoked = ledger.invoked \cup actor[d].step
        BY <1>0, <2>2, <4>1 DEF Writes, TypeOK
      <4>3. actor[d].step \cap ledger.invoked = {} /\ again = {} /\ sent \subseteq ledger.invoked
        BY <1>0, <3>2 DEF StepInv, StepsFresh
      <4>4. \A b \in Actors : b # d => actor[b].phase \notin {"invoking", "executing"}
        BY <1>0, <3>2 DEF Claims, Loop
      <4> QED BY <3>1, <3>2, <4>2, <4>3, <4>4 DEF StepsFresh, Others
    <3> QED BY <1>0, <3>1, <3>3, <3>5, <3>6, ClaimsMove
  <2> QED BY <1>4, <2>1, <2>2 DEF Invoke
<1>5. CASE Refuse(d)
  <2> PICK owes \in BOOLEAN : Puts(d, [actor[d] EXCEPT !.phase = "settling", !.owes = owes])
    BY <1>5 DEF Refuse
  <2> DEFINE r == [actor[d] EXCEPT !.phase = "settling", !.owes = owes]
  <2>1. r.claimed = actor[d].claimed /\ r.phase = "settling"
    BY <1>0 DEF Record
  <2> QED BY <1>0, <1>5, <2>1, PutsQuiet DEF Refuse, In, Loop
<1>6. CASE Send(d)
  <2>1. /\ Others(d) /\ actor'[d].phase = "sent" /\ actor'[d].claimed = actor[d].claimed
    BY <1>0, <1>6, GoesAt DEF Send
  <2>2. actor[d].phase = "executing" /\ UNCHANGED <<driven, ledger, shut, closed, revived>> /\ Ended' = Ended
    BY <1>6 DEF Send, In, Ended
  <2>3. KeepsClaim(d)
    BY <1>0, <2>1, <2>2 DEF KeepsClaim, Claims, Loop
  <2>4. \A b \in Actors : actor'[b].phase \in {"closing", "shutting"} => actor'[b] = actor[b]
    BY <2>1 DEF Others
  <2>5. \A b \in Actors : actor'[b].phase \in Loop \cup {"claiming"} =>
                            actor[b].phase \in Loop \cup {"claiming"}
    BY <2>1, <2>2 DEF Others, Loop
  <2>6. ClosedTells'
    BY <2>2, <2>4, <2>5 DEF StepInv, ClosedTells
  <2>7. StepsFresh'
    <3> SUFFICES ASSUME ~revived PROVE StepsFresh'
      BY <2>2 DEF StepsFresh
    <3>1. /\ again = {} /\ sent \subseteq ledger.invoked
          /\ actor[d].step \subseteq ledger.invoked /\ actor[d].step \cap sent = {}
      BY <1>0, <2>2 DEF StepInv, StepsFresh
    <3>2. again' = {} /\ sent' \subseteq ledger.invoked
      BY <1>6, <3>1 DEF Send
    <3>3. \A b \in Actors : actor'[b].phase \notin {"invoking", "executing"}
      BY <1>0, <2>1, <2>2 DEF Claims, Loop, Others
    <3> QED BY <2>2, <3>2, <3>3 DEF StepsFresh
  <2> QED BY <1>0, <2>1, <2>3, <2>6, <2>7, ClaimsMove
<1>7. CASE Return(d)
  <2>1. CASE Throws(d)
    BY <1>0, <1>7, <2>1, ThrowsQuiet DEF Return
  <2>2. ASSUME NEW owes \in BOOLEAN, UNCHANGED driven,
               Puts(d, [actor[d] EXCEPT !.phase = "settling", !.owes = owes])
        PROVE  Safe'
    <3> DEFINE r == [actor[d] EXCEPT !.phase = "settling", !.owes = owes]
    <3>1. r.claimed = actor[d].claimed /\ r.phase = "settling"
      BY <1>0 DEF Record
    <3> QED BY <1>0, <1>7, <2>2, <3>1, PutsQuiet DEF Return, In, Loop
  <2> QED BY <1>7, <2>1, <2>2 DEF Return
<1>8. CASE Settle(d)
  <2> DEFINE r == [actor[d] EXCEPT !.phase = "calling", !.step = {}, !.owes = FALSE]
  <2>1. r.claimed = actor[d].claimed /\ r.phase = "calling"
    BY <1>0 DEF Record
  <2>2. CASE Throws(d) /\ UNCHANGED ledger
    BY <1>0, <1>8, <2>2, ThrowsQuiet DEF Settle
  <2>3. CASE Called(d) /\ UNCHANGED <<driven, ledger>>
    BY <1>0, <1>8, <2>1, <2>3, PutsQuiet DEF Settle, Called, In, Loop
  <2>4. CASE Writes([ledger EXCEPT !.settled = @ \cup actor[d].step]) /\ Called(d) /\ UNCHANGED driven
    <3>1. Others(d) /\ actor'[d] = r
      BY <1>0, <2>4, PutsAt DEF Called
    <3>2. UNCHANGED <<shut, closed, sent, again, revived>> /\ actor[d].phase = "settling"
      BY <1>8 DEF Settle, In
    <3>3. ledger'.invoked = ledger.invoked /\ ledger'.status = ledger.status /\ Ended' = Ended
      BY <1>0, <2>4 DEF Writes, TypeOK, Ended
    <3>4. KeepsClaim(d)
      BY <1>0, <2>1, <2>4, <3>1, <3>2 DEF KeepsClaim, Claims, Loop
    <3>5. \A b \in Actors : actor'[b].phase \in {"closing", "shutting", "invoking", "executing"} =>
                              actor'[b] = actor[b]
      BY <2>1, <3>1 DEF Others
    <3>6. \A b \in Actors : actor'[b].phase \in Loop \cup {"claiming"} =>
                              actor[b].phase \in Loop \cup {"claiming"}
      BY <2>1, <3>1, <3>2 DEF Others, Loop
    <3>7. ClosedTells'
      BY <3>2, <3>3, <3>5, <3>6 DEF StepInv, ClosedTells
    <3>8. StepsFresh'
      BY <3>2, <3>3, <3>5 DEF StepInv, StepsFresh
    <3> QED BY <1>0, <3>1, <3>4, <3>7, <3>8, ClaimsMove
  <2> QED BY <1>8, <2>2, <2>3, <2>4 DEF Settle
<1> QED BY <1>1, <1>2, <1>3, <1>4, <1>5, <1>6, <1>7, <1>8 DEF CallStep

(* Ending a run, and asking for its end, keep the invariant. *)
LEMMA SafeEnds ==
  ASSUME StepInv, NEW a \in Actors, EndStep(a) \/ CancelRead(a) \/ RequestCancellation(a)
  PROVE  Safe'
<1> USE DEF Safe
<1>0. TypeOK /\ Claims /\ actor[a] \in Record
  BY DEF StepInv, TypeOK, Record
<1>1. CASE FinishRead(a)
  <2>1. CASE Throws(a)
    BY <1>0, <1>1, <2>1, ThrowsQuiet DEF FinishRead
  <2>2. CASE Goes(a, "ending") /\ UNCHANGED driven
    BY <1>0, <1>1, <2>2, GoesQuiet DEF FinishRead, Loop
  <2> QED BY <1>1, <2>1, <2>2 DEF FinishRead
<1>2. CASE AppendFinished(a)
  <2>1. CASE Throws(a) /\ UNCHANGED ledger
    BY <1>0, <1>2, <2>1, ThrowsQuiet DEF AppendFinished
  <2> DEFINE r == [actor[a] EXCEPT !.phase = "closing", !.ending = "failed"]
  <2>2. CASE Writes([ledger EXCEPT !.status = actor[a].ending]) /\ Puts(a, r) /\ UNCHANGED driven
    <3>1. r.phase = "closing" /\ r.claimed = actor[a].claimed
      BY <1>0 DEF Record
    <3>2. Others(a) /\ actor'[a] = r
      BY <1>0, <2>2, PutsAt
    <3>3. UNCHANGED <<shut, closed, sent, again, revived>> /\ ledger'.invoked = ledger.invoked
      BY <1>0, <1>2, <2>2 DEF AppendFinished, Writes, TypeOK
    <3>4. KeepsClaim(a)
      BY <2>2, <3>1, <3>2 DEF KeepsClaim, Loop
    <3>5. ~revived => Ended'
      <4>1. CASE shut
        BY <2>2, <4>1 DEF StepInv, ClosedTells, Writes, Ended
      <4>2. CASE ~shut
        BY <1>0, <2>2, <4>2 DEF Writes, TypeOK, Record, Ended
      <4> QED BY <4>1, <4>2
    <3>6. \A b \in Actors : actor'[b].phase \in {"shutting", "invoking", "executing"} \cup Loop \cup {"claiming"}
                             => actor'[b] = actor[b]
      BY <3>1, <3>2 DEF Others, Loop
    <3>7. ClosedTells'
      BY <3>3, <3>5, <3>6 DEF StepInv, ClosedTells
    <3>8. StepsFresh'
      BY <3>3, <3>6 DEF StepInv, StepsFresh
    <3> QED BY <1>0, <3>2, <3>4, <3>7, <3>8, ClaimsMove
  <2> QED BY <1>2, <2>1, <2>2 DEF AppendFinished
<1>3. CASE MarkClosed(a)
  <2>1. Others(a) /\ actor'[a].phase = "shutting" /\ actor'[a].claimed = actor[a].claimed
    BY <1>0, <1>3, GoesAt DEF MarkClosed
  <2>2. /\ UNCHANGED <<ledger, shut, driven, sent, again, revived>> /\ Ended' = Ended
        /\ closed' /\ actor[a].phase = "closing"
    BY <1>3 DEF MarkClosed, In, Ended
  <2>3. KeepsClaim(a)
    BY <2>1, <2>2 DEF KeepsClaim, Loop
  <2>4. \A b \in Actors : actor'[b].phase \in {"closing", "shutting"} =>
                            actor[b].phase \in {"closing", "shutting"}
    BY <2>1, <2>2 DEF Others
  <2>5. ClosedTells'
    BY <2>2, <2>4 DEF StepInv, ClosedTells
  <2>6. StepsFresh'
    BY <2>1, <2>2 DEF StepInv, StepsFresh, Others
  <2> QED BY <1>0, <2>1, <2>3, <2>5, <2>6, ClaimsMove
<1>4. CASE CloseStream(a)
  <2>1. Others(a) /\ actor'[a] = Resting
    BY <1>0, <1>4, PutsAt DEF CloseStream
  <2>2. actor'[a].claimed = FALSE /\ actor'[a].phase = "idle"
    BY <2>1 DEF Resting
  <2>3. /\ UNCHANGED <<ledger, closed, sent, again, revived>> /\ Ended' = Ended
        /\ actor[a].phase = "shutting"
    BY <1>4 DEF CloseStream, In, Ended
  <2>4. DropsClaim(a)
    BY <1>4, <2>2 DEF CloseStream, DropsClaim
  <2>5. closed /\ (~revived => Ended)
    BY <2>3 DEF StepInv, ClosedTells
  <2>6. \A b \in Actors : actor'[b].phase \in {"closing", "shutting", "invoking", "executing"} =>
                            actor'[b] = actor[b]
    BY <2>1, <2>2 DEF Others
  <2>7. ClosedTells'
    BY <2>3, <2>5, <2>6 DEF StepInv, ClosedTells
  <2>8. StepsFresh'
    BY <2>3, <2>6 DEF StepInv, StepsFresh
  <2> QED BY <1>0, <2>1, <2>4, <2>7, <2>8, ClaimsMove
<1>5. CASE CancelRead(a)
  <2>1. CASE Ends(a, "ending", "cancelled")
    BY <1>0, <1>5, <2>1, EndsQuiet DEF CancelRead
  <2>2. CASE Goes(a, "asking")
    BY <1>0, <1>5, <2>2, GoesQuiet DEF CancelRead, Loop
  <2> QED BY <1>5, <2>1, <2>2 DEF CancelRead
<1>6. CASE RequestCancellation(a)
  <2>1. Others(a) /\ actor'[a].phase = "idle" /\ actor'[a].claimed = actor[a].claimed
    BY <1>0, <1>6, GoesAt DEF RequestCancellation
  <2>2. UNCHANGED <<shut, closed, driven, sent, again, revived>>
    BY <1>6 DEF RequestCancellation
  <2>3. ledger'.invoked = ledger.invoked /\ ledger'.status = ledger.status
    BY <1>0, <1>6 DEF RequestCancellation, Writes, TypeOK
  <2>4. KeepsClaim(a)
    BY <2>1, <2>2 DEF KeepsClaim, Loop
  <2>5. \A b \in Actors : actor'[b].phase \in Phases \ {"idle"} => actor'[b] = actor[b]
    BY <2>1 DEF Others
  <2>6. Loop \cup {"claiming", "closing", "shutting", "invoking", "executing"} \subseteq Phases \ {"idle"}
    BY DEF Loop, Phases, EndPhases
  <2>7. Ended' = Ended
    BY <2>3 DEF Ended
  <2>8. ClosedTells'
    BY <2>2, <2>5, <2>6, <2>7 DEF StepInv, ClosedTells
  <2>9. StepsFresh'
    BY <2>2, <2>3, <2>5, <2>6 DEF StepInv, StepsFresh
  <2> QED BY <1>0, <2>1, <2>4, <2>8, <2>9, ClaimsMove
<1> QED BY <1>1, <1>2, <1>3, <1>4, <1>5, <1>6 DEF EndStep

(* A fault keeps the invariant: a process that comes back has nobody in the loop. *)
LEMMA SafeFaults ==
  ASSUME StepInv, Stop \/ \E a \in Actors : StoreRefuses(a)
  PROVE  Safe'
<1> USE DEF Safe
<1>1. CASE Stop
  <2>1. \A a \in Actors : actor'[a].claimed = FALSE /\ actor'[a].phase = "idle"
    BY <1>1 DEF Stop, Resting
  <2>2. UNCHANGED <<ledger, shut, sent, again, revived>> /\ Ended' = Ended
    BY <1>1 DEF Stop, Ended
  <2>3. Claims'
    BY <2>1 DEF Claims, Loop
  <2>4. ClosedTells'
    BY <2>1, <2>2 DEF StepInv, ClosedTells, Loop
  <2>5. StepsFresh'
    BY <2>1, <2>2 DEF StepInv, StepsFresh
  <2> QED BY <2>3, <2>4, <2>5
<1>2. ASSUME NEW a \in Actors, StoreRefuses(a) PROVE Safe'
  BY <1>2, ThrowsQuiet DEF StoreRefuses
<1> QED BY <1>1, <1>2

(* A step's statement is sent once, and never before the ledger names it. *)
THEOREM StepOnceHolds == Spec => []StepOnce
<1>1. Init => Safe
  <2> SUFFICES ASSUME Init PROVE Safe
    OBVIOUS
  <2>1. \A a \in Actors : actor[a].claimed = FALSE /\ actor[a].phase = "idle"
    BY DEF Init, Resting
  <2> QED BY <2>1 DEF Init, Safe, Claims, ClosedTells, StepsFresh, Loop
<1>2. TypeOK /\ Safe /\ [Next]_vars => Safe'
  <2> SUFFICES ASSUME StepInv, [Next]_vars PROVE Safe'
    BY DEF StepInv, Safe
  <2>1. CASE UNCHANGED vars
    <3>1. Safe
      BY DEF StepInv, Safe
    <3> QED BY <2>1, <3>1 DEF Safe, Claims, ClosedTells, StepsFresh, Ended, vars
  <2>2. ASSUME NEW d \in Drives, DriveStep(d) PROVE Safe'
    <3>1. d \in Actors
      BY DEF Actors
    <3> QED BY <2>2, <3>1, SafeStart, SafeTurns, SafeCalls, SafeEnds DEF DriveStep, CarryOn
  <2>3. ASSUME NEW c \in Cancels, CancelStep(c) PROVE Safe'
    <3>1. c \in Actors
      BY DEF Actors
    <3> QED BY <2>3, <3>1, SafeEnds DEF CancelStep
  <2>4. CASE Stop \/ \E a \in Actors : StoreRefuses(a)
    BY <2>4, SafeFaults
  <2> QED BY <2>1, <2>2, <2>3, <2>4 DEF Next
<1>3. Safe => StepOnce
  BY DEF Safe, StepsFresh, StepOnce
<1> QED BY <1>1, <1>2, <1>3, TypeCorrect, PTL DEF Spec

-----------------------------------------------------------------------------
(* Nobody else stands between reading the status and writing one, and it has not ended. *)
Alone ==
  ~crossed => /\ \A a, b \in Between : a = b
              /\ \A a \in Between : ~Ended

Stands(a) == actor[a].phase \in {"starting", "ending"}

(* One actor's step: who comes to stand there read a status that had not ended, and who *)
(* writes a status stood there and leaves.                                              *)
Moves(a) ==
  /\ Others(a)
  /\ Stands(a)' => ~Ended
  /\ ledger'.status # ledger.status => Stands(a) /\ ~Stands(a)'

(* A throw moves so. *)
LEMMA ThrowsMoves ==
  ASSUME TypeOK, NEW a \in Actors, Throws(a), UNCHANGED ledger
  PROVE  Moves(a)
<1>1. Others(a) /\ DropsClaim(a)
  BY ThrowsAt
<1> QED BY <1>1 DEF DropsClaim, Moves, Stands

(* So does a change of phase that leaves the status alone. *)
LEMMA GoesMoves ==
  ASSUME TypeOK, NEW a \in Actors, NEW phase, Goes(a, phase), ledger'.status = ledger.status,
         phase \in {"starting", "ending"} => ~Ended
  PROVE  Moves(a)
<1>1. Others(a) /\ actor'[a].phase = phase
  BY GoesAt
<1> QED BY <1>1 DEF Moves, Stands

(* And leaving the loop. *)
LEMMA EndsMoves ==
  ASSUME TypeOK, NEW a \in Actors, NEW phase, NEW status, Ends(a, phase, status),
         UNCHANGED ledger, phase \in {"starting", "ending"} => ~Ended
  PROVE  Moves(a)
<1>1. Others(a) /\ actor'[a].phase = phase
  BY EndsAt
<1> QED BY <1>1 DEF Moves, Stands

(* And putting a record that does not stand there. *)
LEMMA PutsMoves ==
  ASSUME TypeOK, NEW a \in Actors, NEW r, Puts(a, r), ledger'.status = ledger.status,
         r.phase \notin {"starting", "ending"}
  PROVE  Moves(a)
<1>1. Others(a) /\ actor'[a] = r
  BY PutsAt
<1> QED BY <1>1 DEF Moves, Stands

(* A drive's steps move so. *)
LEMMA DriveMoves ==
  ASSUME TypeOK, NEW d \in Drives,
         Deliver(d) \/ ResolveFails(d) \/ StartStep(d) \/ Check(d) \/ Answer(d) \/ CallStep(d)
  PROVE  Moves(d)
<1>0. d \in Actors /\ actor[d] \in Record
  BY DEF Actors, TypeOK, Record
<1>1. CASE Deliver(d)
  BY <1>0, <1>1, GoesMoves DEF Deliver
<1>2. CASE ResolveFails(d)
  BY <1>0, <1>2, ThrowsMoves DEF ResolveFails
<1>3. CASE Resume(d)
  <2>1. [actor[d] EXCEPT !.phase = "claiming", !.seen = ledger.status].phase = "claiming"
    BY <1>0 DEF Record
  <2> QED BY <1>0, <1>3, <2>1, ThrowsMoves, PutsMoves DEF Resume
<1>4. CASE Claim(d)
  <2> DEFINE r == [actor[d] EXCEPT !.claimed = TRUE, !.seen = "queued",
                     !.phase = IF actor[d].seen = "queued" THEN "marking" ELSE "introducing"]
  <2>1. r.phase \in {"marking", "introducing"} /\ Resting.phase = "idle"
    BY <1>0 DEF Record, Resting
  <2>2. Puts(d, Resting) \/ Puts(d, r)
    BY <1>4 DEF Claim
  <2> QED BY <1>0, <1>4, <2>1, <2>2, PutsMoves DEF Claim
<1>5. CASE MarkRead(d)
  BY <1>0, <1>5, ThrowsMoves, GoesMoves DEF MarkRead, Ended, Terminal
<1>6. CASE MarkRunning(d)
  <2>1. CASE Throws(d) /\ UNCHANGED <<ledger, revived>>
    BY <1>0, <2>1, ThrowsMoves
  <2>2. CASE Goes(d, "introducing")
    <3>1. Others(d) /\ actor'[d].phase = "introducing"
      BY <1>0, <2>2, GoesAt
    <3> QED BY <1>6, <3>1 DEF Moves, Stands, MarkRunning, In
  <2> QED BY <1>6, <2>1, <2>2 DEF MarkRunning
<1>7. CASE RecordDriver(d)
  BY <1>0, <1>7, ThrowsMoves, GoesMoves DEF RecordDriver
<1>8. CASE Check(d)
  <2>1. CASE \E status \in {"cancelled", "failed"} : Concludes(d, status)
    BY <1>0, <1>8, <2>1, EndsMoves DEF Check, Concludes
  <2>2. CASE Puts(d, [actor[d] EXCEPT !.phase = "turning", !.turns = @ + 1])
    <3>1. [actor[d] EXCEPT !.phase = "turning", !.turns = @ + 1].phase = "turning"
      BY <1>0 DEF Record
    <3> QED BY <1>0, <1>8, <2>2, <3>1, PutsMoves DEF Check
  <2> QED BY <1>8, <2>1, <2>2 DEF Check
<1>9. CASE Answer(d)
  <2>1. ASSUME NEW calls \in SUBSET Steps, Puts(d, [actor[d] EXCEPT !.phase = "calling", !.calls = calls])
        PROVE  Moves(d)
    <3>1. [actor[d] EXCEPT !.phase = "calling", !.calls = calls].phase = "calling"
      BY <1>0 DEF Record
    <3> QED BY <1>0, <1>9, <2>1, <3>1, PutsMoves DEF Answer
  <2>2. CASE Concludes(d, "succeeded")
    BY <1>0, <1>9, <2>2, EndsMoves DEF Answer, Concludes
  <2>3. CASE Throws(d)
    BY <1>0, <1>9, <2>3, ThrowsMoves DEF Answer
  <2> QED BY <1>9, <2>1, <2>2, <2>3 DEF Answer
<1>10. CASE CallsDone(d)
  BY <1>0, <1>10, GoesMoves DEF CallsDone
<1>11. CASE Report(d)
  BY <1>0, <1>11, ThrowsMoves, EndsMoves DEF Report, Concludes
<1>12. ASSUME NEW s \in Steps, StepRead(d, s) PROVE Moves(d)
  <2>1. CASE Throws(d)
    BY <1>0, <1>12, <2>1, ThrowsMoves DEF StepRead
  <2>2. CASE Ends(d, "ending", "cancelled")
    <3>1. ledger.status = "running" \/ Throws(d)
      BY <1>12 DEF StepRead
    <3> QED BY <1>0, <1>12, <2>1, <2>2, <3>1, EndsMoves DEF StepRead, Ended, Terminal
  <2> DEFINE r == [actor[d] EXCEPT !.calls = @ \ {s}]
             q == [actor[d] EXCEPT !.calls = @ \ {s}, !.step = {s}, !.phase = "invoking"]
  <2>3. r.phase = actor[d].phase /\ q.phase = "invoking" /\ actor[d].phase = "calling"
    BY <1>0, <1>12 DEF Record, StepRead, In
  <2>4. CASE Puts(d, r) \/ Puts(d, q)
    BY <1>0, <1>12, <2>3, <2>4, PutsMoves DEF StepRead
  <2> QED BY <1>12, <2>1, <2>2, <2>4 DEF StepRead
<1>13. CASE Invoke(d)
  <2>1. ledger'.status = ledger.status
    BY <1>0, <1>13 DEF Invoke, Writes, TypeOK
  <2> QED BY <1>0, <1>13, <2>1, ThrowsMoves, GoesMoves DEF Invoke
<1>14. CASE Refuse(d) \/ Return(d)
  <2>1. ASSUME NEW owes \in BOOLEAN, Puts(d, [actor[d] EXCEPT !.phase = "settling", !.owes = owes])
        PROVE  Moves(d)
    <3>1. [actor[d] EXCEPT !.phase = "settling", !.owes = owes].phase = "settling"
      BY <1>0 DEF Record
    <3> QED BY <1>0, <1>14, <2>1, <3>1, PutsMoves DEF Refuse, Return
  <2> QED BY <1>0, <1>14, <2>1, ThrowsMoves DEF Refuse, Return
<1>15. CASE Send(d)
  BY <1>0, <1>15, GoesMoves DEF Send
<1>16. CASE Settle(d)
  <2>1. [actor[d] EXCEPT !.phase = "calling", !.step = {}, !.owes = FALSE].phase = "calling"
    BY <1>0 DEF Record
  <2>2. ledger'.status = ledger.status
    BY <1>0, <1>16 DEF Settle, Writes, TypeOK
  <2> QED BY <1>0, <1>16, <2>1, <2>2, ThrowsMoves, PutsMoves DEF Settle, Called
<1> QED BY <1>1, <1>2, <1>3, <1>4, <1>5, <1>6, <1>7, <1>8, <1>9, <1>10, <1>11, <1>12, <1>13,
           <1>14, <1>15, <1>16 DEF StartStep, CallStep

(* So do the steps that end a run or ask for its end, and a refusal of the store. *)
LEMMA EndMoves ==
  ASSUME TypeOK, NEW a \in Actors,
         EndStep(a) \/ CancelRead(a) \/ RequestCancellation(a) \/ StoreRefuses(a)
  PROVE  Moves(a)
<1>0. actor[a] \in Record
  BY DEF TypeOK, Record
<1>1. CASE FinishRead(a)
  BY <1>1, ThrowsMoves, GoesMoves DEF FinishRead, MayFinish
<1>2. CASE AppendFinished(a)
  <2>1. CASE Throws(a) /\ UNCHANGED ledger
    BY <2>1, ThrowsMoves
  <2> DEFINE r == [actor[a] EXCEPT !.phase = "closing", !.ending = "failed"]
  <2>2. CASE Puts(a, r)
    <3>1. r.phase = "closing" /\ actor[a].phase = "ending"
      BY <1>0, <1>2 DEF Record, AppendFinished, In
    <3>2. Others(a) /\ actor'[a] = r
      BY <2>2, PutsAt
    <3> QED BY <3>1, <3>2 DEF Moves, Stands
  <2> QED BY <1>2, <2>1, <2>2 DEF AppendFinished
<1>3. CASE MarkClosed(a)
  BY <1>3, GoesMoves DEF MarkClosed
<1>4. CASE CloseStream(a)
  <2>1. Resting.phase = "idle"
    BY DEF Resting
  <2> QED BY <1>4, <2>1, PutsMoves DEF CloseStream
<1>5. CASE CancelRead(a)
  BY <1>5, EndsMoves, GoesMoves DEF CancelRead
<1>6. CASE RequestCancellation(a)
  <2>1. ledger'.status = ledger.status
    BY <1>6 DEF RequestCancellation, Writes, TypeOK
  <2> QED BY <1>6, <2>1, GoesMoves DEF RequestCancellation
<1>7. CASE StoreRefuses(a)
  BY <1>7, ThrowsMoves DEF StoreRefuses
<1> QED BY <1>1, <1>2, <1>3, <1>4, <1>5, <1>6, <1>7 DEF EndStep

(* Every step is such a move of one actor, or a stop that leaves the status alone. *)
LEMMA EveryMove ==
  ASSUME TypeOK, Next
  PROVE  (\E a \in Actors : Moves(a)) \/ (ledger' = ledger /\ Between' = {})
<1>1. ASSUME NEW d \in Drives, DriveStep(d) PROVE \E a \in Actors : Moves(a)
  <2>1. d \in Actors
    BY DEF Actors
  <2>2. Moves(d)
    BY <1>1, <2>1, DriveMoves, EndMoves DEF DriveStep, CarryOn
  <2> QED BY <2>1, <2>2
<1>2. ASSUME NEW c \in Cancels, CancelStep(c) PROVE \E a \in Actors : Moves(a)
  <2>1. c \in Actors
    BY DEF Actors
  <2>2. Moves(c)
    BY <1>2, <2>1, EndMoves DEF CancelStep
  <2> QED BY <2>1, <2>2
<1>3. ASSUME NEW a \in Actors, StoreRefuses(a) PROVE \E b \in Actors : Moves(b)
  BY <1>3, EndMoves
<1>4. CASE Stop
  <2>1. \A a \in Actors : actor'[a].phase = "idle"
    BY <1>4 DEF Stop, Resting
  <2> QED BY <1>4, <2>1 DEF Stop, Between
<1> QED BY <1>1, <1>2, <1>3, <1>4 DEF Next

(* What a run ended with stays, where no two crossed between reading a status and writing one. *)
THEOREM EndStaysAloneHolds == Spec => EndStaysAlone
<1>1. Init => Alone
  <2> SUFFICES ASSUME Init PROVE Alone
    OBVIOUS
  <2>1. \A a \in Actors : actor[a].phase = "idle"
    BY DEF Init, Resting
  <2> QED BY <2>1 DEF Alone, Between
<1>2. TypeOK /\ Alone /\ [Next]_vars => Alone' /\ [Ended /\ ~crossed' => ledger'.status = ledger.status]_vars
  <2> SUFFICES ASSUME TypeOK, Alone, Next
               PROVE  Alone' /\ (Ended /\ ~crossed' => ledger'.status = ledger.status)
    BY DEF Alone, Between, Ended, vars
  <2>1. crossed' = (crossed \/ \E a, b \in Between' : a # b)
    BY DEF Next, Crosses
  <2> SUFFICES ASSUME ~crossed'
               PROVE  /\ \A a \in Between' : ~Ended'
                      /\ Ended => ledger'.status = ledger.status
    BY <2>1 DEF Alone
  <2>2. ~crossed /\ (\A a, b \in Between : a = b) /\ \A a \in Between : ~Ended
    BY <2>1 DEF Alone
  <2>3. CASE ledger' = ledger /\ Between' = {}
    BY <2>3
  <2>4. ASSUME NEW a \in Actors, Moves(a)
        PROVE  /\ \A b \in Between' : ~Ended'
               /\ Ended => ledger'.status = ledger.status
    <3>1. \A b \in Actors : b # a => (Stands(b)' <=> Stands(b))
      BY <2>4 DEF Moves, Others, Stands
    <3>2. \A b \in Between' : b # a => b \in Between
      BY <3>1 DEF Between, Stands
    <3>3. CASE ledger'.status = ledger.status
      <4>1. Ended' = Ended
        BY <3>3 DEF Ended
      <4>2. a \in Between' => ~Ended
        BY <2>4 DEF Moves, Between, Stands
      <4> QED BY <2>2, <3>2, <3>3, <4>1, <4>2
    <3>4. CASE ledger'.status # ledger.status
      <4>1. a \in Between /\ a \notin Between'
        BY <2>4, <3>4 DEF Moves, Between, Stands
      <4>2. Between' = {}
        BY <2>2, <3>2, <4>1
      <4> QED BY <2>2, <4>1, <4>2
    <3> QED BY <3>3, <3>4
  <2> QED BY <2>3, <2>4, EveryMove
<1> QED BY <1>1, <1>2, TypeCorrect, PTL DEF Spec, EndStaysAlone
=============================================================================
