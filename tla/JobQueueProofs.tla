--------------------------- MODULE JobQueueProofs ---------------------------
(***************************************************************************)
(* What holds of JobQueue for every set of jobs, processes, passes and     *)
(* runs, every lease, backoff and retention, and with no bound on time.    *)
(***************************************************************************)
EXTENDS JobQueue, FiniteSetTheorems, TLAPS

(* The records a step rebuilds. *)
LEMMA IdleTypes ==
  /\ IdlePass \in Pass /\ IdlePass.claim = NULL /\ IdlePass.phase = "idle"
  /\ IdleRun \in Run /\ IdleRun.phase = "idle"
  /\ \A s \in {"none", "queued", "pruned"} : NoRow(s) \in Job /\ NoRow(s).status = s
BY DEF IdlePass, Pass, IdleRun, Run, NoRow, Job, Settled

(* Time moves instants to instants. *)
LEMMA OlderTypes ==
  /\ \A t \in Int : Older(t) \in Int
  /\ \A t \in Int \cup {NULL} : OlderOrNull(t) \in Int \cup {NULL} /\ (OlderOrNull(t) = NULL <=> t = NULL)
  /\ \A c \in Snapshot \cup {NULL} :
       /\ OlderClaim(c) \in Snapshot \cup {NULL}
       /\ OlderClaim(c) = NULL <=> c = NULL
       /\ c # NULL => OlderClaim(c).job = c.job /\ OlderClaim(c).attempts = c.attempts
<1>1. \A t \in Int : Older(t) \in Int
  BY JobQueueAssumption DEF Older, Horizon
<1>2. \A t \in Int \cup {NULL} : OlderOrNull(t) \in Int \cup {NULL} /\ (OlderOrNull(t) = NULL <=> t = NULL)
  BY <1>1, NullAssumption DEF OlderOrNull
<1>3. ASSUME NEW c \in Snapshot
      PROVE  /\ OlderClaim(c) \in Snapshot
             /\ OlderClaim(c).job = c.job /\ OlderClaim(c).attempts = c.attempts
  BY <1>1, NullAssumption DEF OlderClaim, Snapshot
<1>4. OlderClaim(NULL) = NULL
  BY DEF OlderClaim
<1>5. QED
  BY <1>1, <1>2, <1>3, <1>4, NullAssumption

(* A pass that moves on to the loop, or goes on telling, is a well-formed pass without a claim. *)
LEMMA LoopTypes ==
  ASSUME TypeOK, NEW p \in Passes
  PROVE  /\ \A slots : /\ Looping(p, slots) \in Pass
                       /\ Looping(p, slots).claim = NULL
                       /\ Looping(p, slots).phase \in {"idle", "asking"}
         /\ \A lost \in SUBSET Jobs :
              pass[p].claim = NULL =>
                /\ TellingLost(p, lost) \in Pass
                /\ TellingLost(p, lost).claim = NULL
                /\ TellingLost(p, lost).phase \in {"idle", "asking", "lost"}
<1>1. pass[p] \in Pass
  BY DEF TypeOK
<1>2. \A slots : /\ Looping(p, slots) \in Pass
                 /\ Looping(p, slots).claim = NULL
                 /\ Looping(p, slots).phase \in {"idle", "asking"}
  BY <1>1, IdleTypes DEF Looping, IdlePass, Pass
<1>3. QED
  BY <1>1, <1>2 DEF TellingLost, Pass

LEMMA TypeStep == TypeOK /\ [Next]_vars => TypeOK'
<1> SUFFICES ASSUME TypeOK, [Next]_vars PROVE TypeOK'
  OBVIOUS
<1> USE JobQueueAssumption, NullAssumption
<1>1. ASSUME NEW j \in Jobs, Enqueue(j) PROVE TypeOK'
  BY <1>1, IdleTypes DEF Enqueue, TypeOK
<1>2. ASSUME NEW p \in Passes, PassStart(p) PROVE TypeOK'
  BY <1>2, IdleTypes DEF PassStart, TypeOK, Pass, IdlePass
<1>3. ASSUME NEW p \in Passes, PassPrune(p) PROVE TypeOK'
  BY <1>3, IdleTypes DEF PassPrune, TypeOK
<1>4. ASSUME NEW p \in Passes, PassReclaim(p) PROVE TypeOK'
  <2>1. jobs' \in [Jobs -> Job]
    <3>1. ASSUME NEW k \in Jobs, NEW s \in {"lost", "queued"}
          PROVE  [jobs[k] EXCEPT !.status = s, !.leaseUntil = NULL, !.worker = NULL] \in Job
      <4>1. jobs[k] \in Job
        BY DEF TypeOK
      <4>2. QED
        BY <4>1 DEF Job, Settled
    <3>2. ASSUME NEW k \in Jobs PROVE jobs'[k] \in Job
      <4>1. CASE k \notin Expired(p)
        BY <1>4, <4>1 DEF PassReclaim, TypeOK
      <4>2. CASE k \in Expired(p)
        <5> DEFINE s == IF Exhausted(k) THEN "lost" ELSE "queued"
        <5>1. jobs'[k] = [jobs[k] EXCEPT !.status = s, !.leaseUntil = NULL, !.worker = NULL]
          BY <1>4, <4>2 DEF PassReclaim
        <5>2. s \in {"lost", "queued"}
          OBVIOUS
        <5> HIDE DEF s
        <5>3. QED
          BY <3>1, <5>1, <5>2
      <4>3. QED
        BY <4>1, <4>2
    <3>3. QED
      BY <1>4, <3>2 DEF PassReclaim
  <2>2. ASSUME NEW k \in Jobs, jobs'[k].status = "running" PROVE jobs'[k].leaseUntil # NULL
    <3>1. jobs[k] \in Job /\ (jobs[k].status = "running" => jobs[k].leaseUntil # NULL)
      BY DEF TypeOK
    <3>2. CASE k \in Expired(p)
      BY <1>4, <2>2, <3>1, <3>2 DEF PassReclaim, Job
    <3>3. CASE k \notin Expired(p)
      BY <1>4, <2>2, <3>1, <3>3 DEF PassReclaim
    <3>4. QED
      BY <3>2, <3>3
  <2>3. pass[p].claim = NULL
    BY <1>4 DEF PassReclaim, TypeOK
  <2>4. /\ pass' \in [Passes -> Pass]
        /\ \A q \in Passes : pass'[q].phase = "granted" <=> pass'[q].claim # NULL
    <3> DEFINE lost == {j \in Expired(p) : Exhausted(j)}
    <3>1. lost \in SUBSET Jobs
      BY DEF Expired
    <3>2. pass' = [pass EXCEPT ![p] = TellingLost(p, lost)]
      BY <1>4 DEF PassReclaim
    <3> HIDE DEF lost
    <3>3. QED
      BY <2>3, <3>1, <3>2, LoopTypes DEF TypeOK
  <2>5. QED
    BY <1>4, <2>1, <2>2, <2>4 DEF PassReclaim, TypeOK
<1>5. ASSUME NEW p \in Passes, NEW j \in Jobs, NEW ok \in BOOLEAN, PassTellLost(p, j, ok) PROVE TypeOK'
  <2>1. pass[p].claim = NULL /\ pass[p].lost \ {j} \in SUBSET Jobs
    BY <1>5 DEF PassTellLost, TypeOK, Pass
  <2>2. /\ pass' \in [Passes -> Pass]
        /\ \A q \in Passes : pass'[q].phase = "granted" <=> pass'[q].claim # NULL
    BY <1>5, <2>1, LoopTypes DEF PassTellLost, TypeOK
  <2>3. told' \subseteq Jobs /\ faults' \in Nat
    BY <1>5 DEF PassTellLost, TypeOK
  <2>4. QED
    BY <1>5, <2>2, <2>3 DEF PassTellLost, TypeOK
<1>6. ASSUME NEW p \in Passes, NEW j \in Jobs, PassClaim(p, j) PROVE TypeOK'
  <2> DEFINE c == [job |-> j, attempts |-> jobs[j].attempts + 1, runAt |-> jobs[j].runAt,
                   lease |-> pass[p].now + LeaseTerm]
  <2>1. jobs[j] \in Job /\ pass[p] \in Pass /\ Host[p] \in Workers
    BY DEF TypeOK
  <2>2. c \in Snapshot
    BY <2>1 DEF Job, Pass, Snapshot
  <2>3. pass' = [pass EXCEPT ![p].phase = "granted", ![p].claim = c]
    BY <1>6 DEF PassClaim
  <2>4. /\ pass' \in [Passes -> Pass]
        /\ \A q \in Passes : pass'[q].phase = "granted" <=> pass'[q].claim # NULL
    <3>1. [pass[p] EXCEPT !.phase = "granted", !.claim = c] \in Pass
      BY <2>1, <2>2 DEF Pass
    <3>2. c # NULL
      BY <2>2
    <3>3. pass' = [pass EXCEPT ![p] = [pass[p] EXCEPT !.phase = "granted", !.claim = c]]
      BY <2>3
    <3> HIDE DEF c
    <3>4. pass'[p].phase = "granted" /\ pass'[p].claim = c
      BY <2>1, <3>3 DEF TypeOK, Pass
    <3>5. QED
      BY <3>1, <3>2, <3>3, <3>4 DEF TypeOK
  <2>5. jobs' \in [Jobs -> Job] /\ \A k \in Jobs : jobs'[k].status = "running" => jobs'[k].leaseUntil # NULL
    BY <1>6, <2>1 DEF PassClaim, TypeOK, Job, Pass
  <2>6. claims' \in [Jobs -> Nat]
    BY <1>6 DEF PassClaim, TypeOK
  <2>7. QED
    BY <1>6, <2>4, <2>5, <2>6 DEF PassClaim, TypeOK
<1>7. ASSUME NEW p \in Passes, PassFindsNothing(p) PROVE TypeOK'
  BY <1>7, IdleTypes DEF PassFindsNothing, TypeOK
<1>8. ASSUME NEW p \in Passes, NEW r \in Runs, PassBegin(p, r) PROVE TypeOK'
  <2>1. Host[p] \in Workers /\ pass[p].claim \in Snapshot /\ pass[p].claim.job \in Jobs
    BY <1>8 DEF PassBegin, TypeOK, Pass, Snapshot
  <2>2. /\ pass' \in [Passes -> Pass]
        /\ \A q \in Passes : pass'[q].phase = "granted" <=> pass'[q].claim # NULL
    BY <1>8, LoopTypes DEF PassBegin, TypeOK
  <2>3. run' \in [Runs -> Run] /\ \A s \in Runs : run'[s].phase # "idle" => run'[s].claim # NULL /\ run'[s].worker # NULL
    BY <1>8, <2>1 DEF PassBegin, TypeOK, Run
  <2>4. running' \in [Workers -> SUBSET Jobs]
    BY <1>8, <2>1 DEF PassBegin, TypeOK
  <2>5. QED
    BY <1>8, <2>2, <2>3, <2>4 DEF PassBegin, TypeOK
<1>9. ASSUME NEW p \in Passes, PassAborts(p) PROVE TypeOK'
  BY <1>9, IdleTypes DEF PassAborts, TypeOK
<1> DEFINE RunTypes == /\ run' \in [Runs -> Run]
                       /\ \A s \in Runs : run'[s].phase # "idle" => run'[s].claim # NULL /\ run'[s].worker # NULL
           RowTypes == /\ jobs' \in [Jobs -> Job]
                       /\ \A k \in Jobs : jobs'[k].status = "running" => jobs'[k].leaseUntil # NULL
<1>10. ASSUME NEW r \in Runs, EndRun(r), InFlight(r)
       PROVE  RunTypes /\ running' \in [Workers -> SUBSET Jobs]
  BY <1>10, IdleTypes DEF EndRun, InFlight, TypeOK, Run
<1>11. ASSUME NEW r \in Runs, InFlight(r), NEW s \in {"queued", "running"} \cup Settled,
              NEW at \in Int, NEW l \in Int \cup {NULL}, NEW w \in Workers \cup {NULL},
              s = "running" => l # NULL, PutSnapshot(r, s, at, l, w)
       PROVE  RowTypes
  <2>1. run[r].claim \in Snapshot
    BY <1>11 DEF TypeOK, Run, InFlight
  <2>2. [status |-> s, attempts |-> run[r].claim.attempts, runAt |-> at, leaseUntil |-> l, worker |-> w] \in Job
    BY <2>1 DEF Job, Snapshot
  <2>3. QED
    BY <1>11, <2>1, <2>2 DEF PutSnapshot, TypeOK, Snapshot
<1>12. ASSUME NEW r \in Runs, InFlight(r)
       PROVE  /\ run[r].claim \in Snapshot /\ run[r].claim.runAt \in Int /\ run[r].claim.lease \in Int
              /\ run[r].claim.job \in Jobs /\ run[r].worker \in Workers
  BY <1>12 DEF TypeOK, Run, Snapshot, InFlight
<1>13. ASSUME NEW r \in Runs, NEW ok \in BOOLEAN, Heartbeat(r, ok) PROVE TypeOK'
  <2>1. InFlight(r)
    BY <1>13 DEF Heartbeat
  <2>2. RowTypes
    <3> DEFINE j == run[r].claim.job
    <3>1. j \in Jobs /\ jobs[j] \in Job
      BY <2>1, <1>12 DEF TypeOK
    <3> DEFINE row == [jobs[j] EXCEPT !.leaseUntil = LeaseTerm]
    <3>2. jobs' = jobs \/ jobs' = [jobs EXCEPT ![j] = row]
      BY <1>13 DEF Heartbeat
    <3>3. row \in Job /\ row.leaseUntil # NULL
      BY <3>1 DEF Job
    <3> HIDE DEF j, row
    <3>4. CASE jobs' = jobs
      BY <3>4 DEF TypeOK
    <3>5. CASE jobs' = [jobs EXCEPT ![j] = row]
      BY <3>1, <3>3, <3>5 DEF TypeOK
    <3>6. QED
      BY <3>2, <3>4, <3>5
  <2>3. RunTypes
    <3> DEFINE c == [run[r].claim EXCEPT !.lease = LeaseTerm]
    <3>1. c \in Snapshot
      BY <2>1, <1>12 DEF Snapshot
    <3>2. run' = [run EXCEPT ![r].claim = c]
      BY <1>13 DEF Heartbeat
    <3>3. QED
      BY <3>1, <3>2 DEF TypeOK, Run
  <2>4. QED
    BY <1>13, <2>2, <2>3 DEF Heartbeat, TypeOK
<1>14. ASSUME NEW r \in Runs, Progress(r) PROVE TypeOK'
  <2>1. InFlight(r)
    BY <1>14 DEF Progress, InFlight
  <2>2. RowTypes
    BY <1>14, <2>1, <1>11, <1>12 DEF Progress
  <2>3. QED
    BY <1>14, <2>2 DEF Progress, TypeOK
<1>15. ASSUME NEW r \in Runs, RunDone(r) PROVE TypeOK'
  <2>1. InFlight(r)
    BY <1>15 DEF RunDone, InFlight
  <2>2. RowTypes
    <3>1. /\ PutSnapshot(r, "done", run[r].claim.runAt, NULL, run[r].worker) 
          /\ "done" \in {"queued", "running"} \cup Settled /\ NULL \in Int \cup {NULL}
      BY <1>15 DEF RunDone, Settled
    <3>2. QED
      BY <2>1, <3>1, <1>11, <1>12
  <2>3. QED
    BY <1>15, <2>1, <2>2, <1>10 DEF RunDone, TypeOK
<1>16. ASSUME NEW r \in Runs, RunDoneUnanswered(r) PROVE TypeOK'
  <2>1. InFlight(r)
    BY <1>16 DEF RunDoneUnanswered, InFlight
  <2>2. RowTypes
    <3>1. /\ PutSnapshot(r, "done", run[r].claim.runAt, NULL, run[r].worker) 
          /\ "done" \in {"queued", "running"} \cup Settled /\ NULL \in Int \cup {NULL}
      BY <1>16 DEF RunDoneUnanswered, Settled
    <3>2. QED
      BY <2>1, <3>1, <1>11, <1>12
  <2>3. RunTypes
    BY <1>16, <2>1 DEF RunDoneUnanswered, TypeOK, Run, InFlight
  <2>4. QED
    BY <1>16, <2>2, <2>3 DEF RunDoneUnanswered, TypeOK
<1>17. ASSUME NEW r \in Runs, RunFail(r) PROVE TypeOK'
  <2>1. InFlight(r)
    BY <1>17 DEF RunFail
  <2>2. RowTypes
    <3>1. CASE Again(r)
      <4>1. /\ PutSnapshot(r, "queued", Backoff, NULL, NULL) /\ Backoff \in Int
            /\ "queued" \in {"queued", "running"} \cup Settled /\ NULL \in Int \cup {NULL}
        BY <1>17, <3>1 DEF RunFail
      <4>2. QED
        BY <2>1, <4>1, <1>11
    <3>2. CASE ~Again(r)
      <4>1. /\ PutSnapshot(r, "failed", run[r].claim.runAt, NULL, run[r].worker) 
            /\ "failed" \in {"queued", "running"} \cup Settled /\ NULL \in Int \cup {NULL}
        BY <1>17, <3>2 DEF RunFail, Settled
      <4>2. QED
        BY <2>1, <4>1, <1>11, <1>12
    <3>3. QED
      BY <3>1, <3>2
  <2>3. QED
    BY <1>17, <2>1, <2>2, <1>10 DEF RunFail, TypeOK
<1>18. ASSUME NEW r \in Runs, RunUnsaved(r) PROVE TypeOK'
  BY <1>18, <1>10 DEF RunUnsaved, TypeOK
<1>19. ASSUME NEW w \in Workers, Crash(w) PROVE TypeOK'
  BY <1>19, IdleTypes DEF Crash, TypeOK
<1>20. ASSUME Tick PROVE TypeOK'
  <2>1. RowTypes
    <3>1. ASSUME NEW k \in Jobs
          PROVE  /\ jobs'[k] \in Job
                 /\ jobs'[k].status = "running" => jobs'[k].leaseUntil # NULL
      <4> DEFINE older == [jobs[k] EXCEPT !.runAt = Older(@), !.leaseUntil = OlderOrNull(@)]
      <4>1. jobs[k] \in Job /\ (jobs[k].status = "running" => jobs[k].leaseUntil # NULL)
        BY DEF TypeOK
      <4>2. Older(jobs[k].runAt) \in Int
        BY <4>1, OlderTypes DEF Job
      <4>3. /\ OlderOrNull(jobs[k].leaseUntil) \in Int \cup {NULL}
            /\ OlderOrNull(jobs[k].leaseUntil) = NULL <=> jobs[k].leaseUntil = NULL
        BY <4>1, OlderTypes DEF Job
      <4>4. older \in Job /\ (older.status = "running" => older.leaseUntil # NULL)
        BY <4>1, <4>2, <4>3 DEF Job
      <4>5. jobs'[k] \in {jobs[k], older}
        BY <1>20 DEF Tick
      <4>6. QED
        BY <4>1, <4>4, <4>5
    <3>2. QED
      BY <1>20, <3>1 DEF Tick
  <2>2. RunTypes
    <3>1. ASSUME NEW s \in Runs
          PROVE  /\ run'[s] \in Run
                 /\ run'[s].phase # "idle" => run'[s].claim # NULL /\ run'[s].worker # NULL
      <4>1. run'[s] = [run[s] EXCEPT !.claim = OlderClaim(run[s].claim)]
        BY <1>20 DEF Tick
      <4>2. run[s] \in Run /\ (run[s].phase # "idle" => run[s].claim # NULL /\ run[s].worker # NULL)
        BY DEF TypeOK
      <4>3. /\ OlderClaim(run[s].claim) \in Snapshot \cup {NULL}
            /\ OlderClaim(run[s].claim) = NULL <=> run[s].claim = NULL
        BY <4>2, OlderTypes DEF Run
      <4>4. QED
        BY <4>1, <4>2, <4>3 DEF Run
    <3>2. QED
      BY <1>20, <3>1 DEF Tick
  <2>3. /\ pass' \in [Passes -> Pass]
        /\ \A q \in Passes : pass'[q].phase = "granted" <=> pass'[q].claim # NULL
    <3>1. ASSUME NEW q \in Passes
          PROVE  /\ pass'[q] \in Pass
                 /\ pass'[q].phase = "granted" <=> pass'[q].claim # NULL
      <4> DEFINE older == [pass[q] EXCEPT !.now = Older(@), !.claim = OlderClaim(@)]
      <4>1. pass[q] \in Pass /\ (pass[q].phase = "granted" <=> pass[q].claim # NULL)
        BY DEF TypeOK
      <4>2. Older(pass[q].now) \in Int
        BY <4>1, OlderTypes DEF Pass
      <4>3. /\ OlderClaim(pass[q].claim) \in Snapshot \cup {NULL}
            /\ OlderClaim(pass[q].claim) = NULL <=> pass[q].claim = NULL
        BY <4>1, OlderTypes DEF Pass
      <4>4. older \in Pass /\ (older.phase = "granted" <=> older.claim # NULL)
        BY <4>1, <4>2, <4>3 DEF Pass
      <4>5. pass'[q] \in {pass[q], older}
        BY <1>20 DEF Tick
      <4>6. QED
        BY <4>1, <4>4, <4>5
    <3>2. QED
      BY <1>20, <3>1 DEF Tick
  <2>4. QED
    BY <1>20, <2>1, <2>2, <2>3 DEF Tick, TypeOK
<1>21. CASE UNCHANGED vars
  BY <1>21 DEF vars, TypeOK
<1>22. QED
  BY <1>1, <1>2, <1>3, <1>4, <1>5, <1>6, <1>7, <1>8, <1>9, <1>13, <1>14, <1>15, <1>16,
     <1>17, <1>18, <1>19, <1>20, <1>21 DEF Next, PassStep, RunEnds

(* Every reachable state of the queue is well formed: what a pass or a run remembers of a
   claim is there exactly while it needs it. *)
THEOREM TypeCorrect == Spec => []TypeOK
<1>1. Init => TypeOK
  BY IdleTypes DEF Init, TypeOK
<1>2. QED
  BY <1>1, TypeStep, PTL DEF Spec

-----------------------------------------------------------------------------
(* What most steps leave of a one-attempt job: its row spent or not as it was, the count *)
(* of its claims, and no grant or run of it that was not there.                          *)
GrantsKept(j) ==
  \A p \in Passes : GrantedTo(p, j)' => GrantedTo(p, j) /\ pass'[p].claim.attempts = pass[p].claim.attempts
RunsKept(j) ==
  \A r \in Runs : Running(r, j)' => Running(r, j) /\ run'[r].claim.attempts = run[r].claim.attempts
Quiet(j) ==
  /\ RowSpent(j)' /\ PhaseOf(j)' = PhaseOf(j) /\ claims'[j] = claims[j]
  /\ GrantsKept(j) /\ RunsKept(j)

(* The steps that move a job on: it is queued, claimed, or its claim reaches the loop. *)
Moving ==
  \/ \E k \in Jobs : Enqueue(k)
  \/ \E p \in Passes : (\E k \in Jobs : PassClaim(p, k)) \/ (\E r \in Runs : PassBegin(p, r))

(* What SpentForGood says of one job. *)
SpentJob(j) ==
  /\ RowSpent(j)
  /\ \A p \in Passes : GrantedTo(p, j) => claims[j] = 1 /\ pass[p].claim.attempts = 1
  /\ \A r \in Runs : Running(r, j) => claims[j] = 1 /\ run[r].claim.attempts = 1

(* A row that stays as spent as it was, and not newly queued, stays in its phase. *)
LEMMA SamePhase ==
  ASSUME NEW j \in Jobs, RowSpent(j), RowSpent(j)', claims'[j] = claims[j],
         jobs[j].status = "none" <=> jobs'[j].status = "none"
  PROVE  PhaseOf(j)' = PhaseOf(j)
BY DEF RowSpent, PhaseOf

(* Every other step leaves a one-attempt job quiet. *)
LEMMA QuietSteps ==
  ASSUME TypeOK, SpentForGood, [Next]_vars, ~Moving, NEW j \in Jobs, MaxAttempts[j] = 1
  PROVE  Quiet(j)
<1> USE JobQueueAssumption, NullAssumption
<1> DEFINE StillNone == jobs[j].status = "none" <=> jobs'[j].status = "none"
           Kept == RowSpent(j)' /\ StillNone /\ claims'[j] = claims[j] /\ GrantsKept(j) /\ RunsKept(j)
<1>a. RowSpent(j) /\ jobs[j] \in Job /\ claims[j] \in Nat
  BY DEF SpentForGood, TypeOK
<1>2. ASSUME NEW p \in Passes, PassStart(p) PROVE Kept
  BY <1>2, <1>a DEF PassStart, RowSpent, IdlePass, GrantsKept, GrantedTo, RunsKept, Running, InFlight, TypeOK
<1>3. ASSUME NEW p \in Passes, PassPrune(p) PROVE Kept
  BY <1>3, <1>a DEF PassPrune, RowSpent, NoRow, GrantsKept, GrantedTo, RunsKept, Running, InFlight, TypeOK, Settled
<1>4. ASSUME NEW p \in Passes, PassReclaim(p) PROVE Kept
  <2>1. RowSpent(j)' /\ StillNone
    <3>1. CASE j \in Expired(p)
      <4>1. jobs[j].status = "running" /\ jobs[j].attempts = 1 /\ claims[j] = 1
        BY <1>a, <3>1 DEF Expired, RowSpent
      <4>2. Exhausted(j)
        BY <4>1 DEF Exhausted
      <4>3. jobs'[j] = [jobs[j] EXCEPT !.status = "lost", !.leaseUntil = NULL, !.worker = NULL]
        BY <1>4, <3>1, <4>2 DEF PassReclaim
      <4>4. jobs'[j].status = "lost"
        BY <1>a, <4>3 DEF Job
      <4>5. QED
        BY <1>4, <4>1, <4>4 DEF PassReclaim, RowSpent
    <3>2. CASE j \notin Expired(p)
      BY <1>4, <1>a, <3>2 DEF PassReclaim, RowSpent
    <3>3. QED
      BY <3>1, <3>2
  <2>2. GrantsKept(j)
    <3> DEFINE lost == {k \in Expired(p) : Exhausted(k)}
    <3>1. pass[p].claim = NULL /\ lost \in SUBSET Jobs
      BY <1>4 DEF PassReclaim, TypeOK, Expired
    <3>2. pass' = [pass EXCEPT ![p] = TellingLost(p, lost)]
      BY <1>4 DEF PassReclaim
    <3> HIDE DEF lost
    <3>3. TellingLost(p, lost).phase # "granted"
      BY <3>1, LoopTypes
    <3>4. QED
      BY <3>2, <3>3 DEF GrantsKept, GrantedTo, TypeOK
  <2>3. QED
    BY <1>4, <2>1, <2>2 DEF PassReclaim, RunsKept, Running, InFlight
<1>5. ASSUME NEW p \in Passes, NEW k \in Jobs, NEW ok \in BOOLEAN, PassTellLost(p, k, ok)
      PROVE  Kept
  <2>1. pass[p].claim = NULL /\ pass[p].lost \ {k} \in SUBSET Jobs
    BY <1>5 DEF PassTellLost, TypeOK, Pass
  <2>2. TellingLost(p, pass[p].lost \ {k}).phase # "granted"
    BY <2>1, LoopTypes
  <2>3. GrantsKept(j)
    BY <1>5, <2>2 DEF PassTellLost, GrantsKept, GrantedTo, TypeOK
  <2>4. QED
    BY <1>5, <1>a, <2>3 DEF PassTellLost, RowSpent, RunsKept, Running, InFlight
<1>7. ASSUME NEW p \in Passes, PassFindsNothing(p)
      PROVE Kept
  BY <1>7, <1>a DEF PassFindsNothing, RowSpent, IdlePass, GrantsKept, GrantedTo, RunsKept, Running, InFlight, TypeOK
<1>9. ASSUME NEW p \in Passes, PassAborts(p) PROVE Kept
  BY <1>9, <1>a DEF PassAborts, RowSpent, IdlePass, GrantsKept, GrantedTo, RunsKept, Running, InFlight, TypeOK
<1>10. ASSUME NEW r \in Runs, NEW ok \in BOOLEAN, Heartbeat(r, ok)
       PROVE Kept
  BY <1>10, <1>a DEF Heartbeat, RowSpent, GrantsKept, GrantedTo, RunsKept, Running, InFlight, TypeOK, Run, Snapshot, Job
<1>11. ASSUME NEW r \in Runs, InFlight(r), NEW s, s \notin {"none", "queued"}, NEW at, NEW l, NEW w,
              PutSnapshot(r, s, at, l, w), claims' = claims
       PROVE  RowSpent(j)' /\ StillNone
  BY <1>11, <1>a DEF PutSnapshot, RowSpent, SpentForGood, RunsKept, Running, TypeOK, Run, Snapshot, InFlight
<1>12. ASSUME NEW r \in Runs, EndRun(r) PROVE RunsKept(j)
  BY <1>12 DEF EndRun, IdleRun, RunsKept, Running, InFlight, TypeOK
<1>13. ASSUME NEW r \in Runs, Progress(r) PROVE Kept
  BY <1>13, <1>11 DEF Progress, GrantsKept, GrantedTo, RunsKept, Running, InFlight
<1>14. ASSUME NEW r \in Runs, RunDone(r) PROVE Kept
  BY <1>14, <1>11, <1>12 DEF RunDone, GrantsKept, GrantedTo, InFlight
<1>15. ASSUME NEW r \in Runs, RunDoneUnanswered(r)
       PROVE Kept
  BY <1>15, <1>11 DEF RunDoneUnanswered, GrantsKept, GrantedTo, RunsKept, Running, InFlight, TypeOK, Run
<1>16. ASSUME NEW r \in Runs, RunFail(r) PROVE Kept
  <2>1. InFlight(r) /\ claims' = claims
    BY <1>16 DEF RunFail
  <2>2. RowSpent(j)' /\ StillNone
    <3>1. CASE run[r].claim.job = j
      <4>1. ~Again(r)
        BY <2>1, <3>1 DEF Again, SpentForGood, RunsKept, Running
      <4>2. QED
        BY <1>16, <2>1, <4>1, <1>11 DEF RunFail
    <3>2. CASE run[r].claim.job # j
      BY <1>16, <1>a, <2>1, <3>2 DEF RunFail, PutSnapshot, RowSpent, TypeOK
    <3>3. QED
      BY <3>1, <3>2
  <2>3. QED
    BY <1>16, <2>1, <2>2, <1>12 DEF RunFail, GrantsKept, GrantedTo
<1>17. ASSUME NEW r \in Runs, RunUnsaved(r) PROVE Kept
  BY <1>17, <1>a, <1>12 DEF RunUnsaved, RowSpent, GrantsKept, GrantedTo
<1>18. ASSUME NEW w \in Workers, Crash(w) PROVE Kept
  BY <1>18, <1>a DEF Crash, RowSpent, IdlePass, IdleRun, GrantsKept, GrantedTo, RunsKept, Running, InFlight
<1>19. ASSUME Tick PROVE Kept
  <2>1. RowSpent(j)' /\ StillNone
    BY <1>19, <1>a DEF Tick, RowSpent, Job
  <2>2. GrantsKept(j)
    <3>1. ASSUME NEW q \in Passes, GrantedTo(q, j)'
          PROVE  GrantedTo(q, j) /\ pass'[q].claim.attempts = pass[q].claim.attempts
      <4>1. pass[q] \in Pass /\ (pass[q].phase = "granted" <=> pass[q].claim # NULL)
        BY DEF TypeOK
      <4>2. pass'[q].phase = "granted" /\ pass'[q].claim.job = j
        BY <3>1 DEF GrantsKept, GrantedTo
      <4>3. CASE pass[q].phase = "idle"
        BY <1>19, <4>2, <4>3 DEF Tick
      <4>4. CASE pass[q].phase # "idle"
        <5>1. pass'[q] = [pass[q] EXCEPT !.now = Older(@), !.claim = OlderClaim(@)]
          BY <1>19, <4>4 DEF Tick
        <5>2. pass'[q].phase = pass[q].phase /\ pass'[q].claim = OlderClaim(pass[q].claim)
          BY <4>1, <5>1 DEF Pass
        <5>3. QED
          BY <4>1, <4>2, <5>2, OlderTypes DEF GrantsKept, GrantedTo, Pass
      <4>5. QED
        BY <4>3, <4>4
    <3>2. QED
      BY <3>1 DEF GrantsKept
  <2>3. RunsKept(j)
    <3>1. ASSUME NEW r \in Runs, Running(r, j)'
          PROVE  Running(r, j) /\ run'[r].claim.attempts = run[r].claim.attempts
      <4>1. run[r] \in Run /\ (run[r].phase # "idle" => run[r].claim # NULL)
        BY DEF TypeOK
      <4>2. run'[r] = [run[r] EXCEPT !.claim = OlderClaim(@)]
        BY <1>19 DEF Tick
      <4>3. run'[r].phase = run[r].phase /\ run'[r].claim = OlderClaim(run[r].claim)
        BY <4>1, <4>2 DEF Run
      <4>4. QED
        BY <3>1, <4>1, <4>3, OlderTypes DEF RunsKept, Running, InFlight, Run
    <3>2. QED
      BY <3>1 DEF RunsKept
  <2>4. QED
    BY <1>19, <2>1, <2>2, <2>3 DEF Tick
<1>20. ASSUME UNCHANGED vars PROVE Kept
  <2>1. GrantsKept(j) /\ RunsKept(j)
    BY <1>20 DEF vars, GrantsKept, GrantedTo, RunsKept, Running, InFlight
  <2>2. jobs' = jobs /\ claims' = claims
    BY <1>20 DEF vars
  <2>3. RowSpent(j)'
    BY <1>a, <2>2 DEF RowSpent
  <2>4. QED
    BY <2>1, <2>2, <2>3
<1> HIDE DEF Kept
<1>21. ASSUME NEW p \in Passes, PassStep(p) PROVE Kept
  BY <1>2, <1>4, <1>5, <1>7, <1>21 DEF PassStep, Moving
<1>22. ASSUME Next PROVE Kept
  BY <1>3, <1>5, <1>9, <1>10, <1>13, <1>14, <1>15, <1>16, <1>17, <1>18, <1>19, <1>21, <1>22
     DEF Next, RunEnds, Moving
<1>23. Kept
  BY <1>20, <1>22
<1>24. QED
  BY <1>a, <1>23, SamePhase DEF Quiet, Kept

(* A quiet step leaves what SpentForGood says of the job. *)
LEMMA QuietSpent ==
  ASSUME NEW j \in Jobs, SpentJob(j), Quiet(j)
  PROVE  SpentJob(j)'
BY DEF SpentJob, Quiet, GrantsKept, RunsKept

LEMMA SpentStep == TypeOK /\ SpentForGood /\ [Next]_vars => SpentForGood'
<1> SUFFICES ASSUME TypeOK, SpentForGood, [Next]_vars, NEW j \in Jobs, MaxAttempts[j] = 1
             PROVE  SpentJob(j)'
  BY DEF SpentForGood, SpentJob
<1> USE JobQueueAssumption, NullAssumption
<1>a. RowSpent(j) /\ SpentJob(j) /\ jobs[j] \in Job /\ claims[j] \in Nat
  BY DEF SpentForGood, SpentJob, TypeOK
<1>1. ASSUME NEW k \in Jobs, Enqueue(k) PROVE SpentJob(j)'
  BY <1>1, <1>a DEF Enqueue, SpentJob, RowSpent, NoRow, GrantedTo, Running, InFlight, TypeOK
<1>2. ASSUME NEW p \in Passes, NEW k \in Jobs, PassClaim(p, k) PROVE SpentJob(j)'
  BY <1>2, <1>a DEF PassClaim, SpentJob, RowSpent, GrantedTo, Running, InFlight, TypeOK, Due, Pass
<1>3. ASSUME NEW p \in Passes, NEW r \in Runs, PassBegin(p, r) PROVE SpentJob(j)'
  BY <1>3, <1>a, LoopTypes DEF PassBegin, SpentJob, RowSpent, GrantedTo, Running, InFlight, TypeOK
<1>4. CASE ~Moving
  BY <1>a, <1>4, QuietSteps, QuietSpent
<1>5. QED
  BY <1>1, <1>2, <1>3, <1>4 DEF Moving

(* A job allowed one attempt is handed to a worker at most once and never queued again,
   in every execution of the queue: crashes, refused calls, late heartbeats, overlapping
   passes and snapshots written back by runs whose lease lapsed included. *)
THEOREM OneAttemptHolds == Spec => []OneAttempt
<1>1. Init => SpentForGood
  BY DEF Init, SpentForGood, RowSpent, GrantedTo, Running, InFlight, IdlePass, IdleRun, NoRow
<1>2. SpentForGood => OneAttempt
  BY DEF SpentForGood, RowSpent, OneAttempt
<1>3. QED
  BY <1>1, <1>2, TypeCorrect, SpentStep, PTL DEF Spec

-----------------------------------------------------------------------------
(* The queue implements OneShotQueue.  A step of it submits, takes or tells of a one-attempt *)
(* job, or leaves the phases and the told as they are and releases some of the held.         *)

(* A job a pass has yet to tell of was claimed: it was running when it was reclaimed. *)
LostTaken == \A p \in Passes : \A j \in pass[p].lost : MaxAttempts[j] = 1 => claims[j] = 1

LEMMA LostTakenStep == TypeOK /\ SpentForGood /\ LostTaken /\ [Next]_vars => LostTaken'
<1> SUFFICES ASSUME TypeOK, SpentForGood, LostTaken, [Next]_vars,
                    NEW q \in Passes, NEW j \in pass'[q].lost, MaxAttempts[j] = 1
             PROVE  claims'[j] = 1
  BY DEF LostTaken
<1> USE JobQueueAssumption
<1> DEFINE Old == j \in pass[q].lost
<1>a. Old => claims[j] = 1 /\ j \in Jobs
  BY DEF LostTaken, TypeOK, Pass
<1>b. \A p \in Passes : \A slots : Looping(p, slots).lost = {}
  BY DEF Looping, IdlePass
<1>1. ASSUME NEW k \in Jobs, Enqueue(k) PROVE Old /\ claims' = claims
  BY <1>1 DEF Enqueue
<1>2. ASSUME NEW p \in Passes, PassStart(p) \/ PassPrune(p) \/ PassFindsNothing(p) \/ PassAborts(p)
      PROVE  Old /\ claims' = claims
  BY <1>2 DEF PassStart, PassPrune, PassFindsNothing, PassAborts, IdlePass, TypeOK
<1>3. ASSUME NEW p \in Passes, PassReclaim(p) PROVE claims'[j] = 1
  <2> DEFINE gone == {k \in Expired(p) : Exhausted(k)}
  <2>1. pass' = [pass EXCEPT ![p] = TellingLost(p, gone)] /\ claims' = claims
    BY <1>3 DEF PassReclaim
  <2>2. Old \/ j \in gone
    BY <2>1, <1>b DEF TellingLost, TypeOK, Pass
  <2>3. j \in gone => claims[j] = 1 /\ j \in Jobs
    BY DEF Expired, SpentForGood, RowSpent
  <2>4. QED
    BY <2>1, <2>2, <2>3, <1>a
<1>4. ASSUME NEW p \in Passes, NEW k \in Jobs, NEW ok \in BOOLEAN, PassTellLost(p, k, ok)
      PROVE  Old /\ claims' = claims
  <2>1. pass' = [pass EXCEPT ![p] = TellingLost(p, pass[p].lost \ {k})] /\ claims' = claims
    BY <1>4 DEF PassTellLost
  <2>2. QED
    BY <2>1, <1>b DEF TellingLost, TypeOK, Pass
<1>5. ASSUME NEW p \in Passes, NEW k \in Jobs, PassClaim(p, k) PROVE claims'[j] = 1
  <2>1. Old
    BY <1>5 DEF PassClaim, TypeOK, Pass
  <2>2. k # j
    BY <1>5, <2>1, <1>a DEF PassClaim, Due, SpentForGood, RowSpent
  <2>3. QED
    BY <1>5, <1>a, <2>1, <2>2 DEF PassClaim, TypeOK
<1>6. ASSUME NEW p \in Passes, NEW r \in Runs, PassBegin(p, r) PROVE Old /\ claims' = claims
  BY <1>6, <1>b DEF PassBegin, TypeOK
<1>7. ASSUME NEW r \in Runs, RunEnds(r) \/ Progress(r) \/ RunDoneUnanswered(r) \/ RunUnsaved(r)
                             \/ \E ok \in BOOLEAN : Heartbeat(r, ok)
      PROVE  Old /\ claims' = claims
  BY <1>7 DEF RunEnds, RunDone, RunFail, Progress, RunDoneUnanswered, RunUnsaved, Heartbeat
<1>8. ASSUME NEW w \in Workers, Crash(w) PROVE Old /\ claims' = claims
  BY <1>8 DEF Crash, IdlePass
<1>9. ASSUME Tick PROVE Old /\ claims' = claims
  <2>1. pass[q] \in Pass /\ pass'[q].lost = pass[q].lost
    BY <1>9 DEF Tick, TypeOK, Pass
  <2>2. QED
    BY <1>9, <2>1 DEF Tick
<1>10. CASE UNCHANGED vars
  BY <1>10, <1>a DEF vars
<1>11. ASSUME NEW p \in Passes, PassStep(p) PROVE claims'[j] = 1
  BY <1>a, <1>2, <1>3, <1>4, <1>5, <1>6, <1>11 DEF PassStep
<1>12. QED
  BY <1>a, <1>1, <1>2, <1>4, <1>7, <1>8, <1>9, <1>10, <1>11 DEF Next

(* Only a lost handler changes who was told. *)
LEMMA ToldStep ==
  ASSUME [Next]_vars
  PROVE  told' = told \/ \E p \in Passes, j \in Jobs : PassTellLost(p, j, TRUE)
<1>1. ASSUME NEW p \in Passes, NEW j \in Jobs, PassTellLost(p, j, FALSE) PROVE told' = told
  BY <1>1 DEF PassTellLost
<1>2. ASSUME NEW p \in Passes, PassStep(p)
      PROVE  told' = told \/ \E j \in Jobs : PassTellLost(p, j, TRUE)
  BY <1>2 DEF PassStep, PassStart, PassReclaim, PassFindsNothing, PassClaim, PassBegin
<1>3. ASSUME NEW r \in Runs, RunEnds(r) \/ Progress(r) \/ RunDoneUnanswered(r) \/ RunUnsaved(r)
                             \/ \E ok \in BOOLEAN : Heartbeat(r, ok)
      PROVE  told' = told
  BY <1>3 DEF RunEnds, RunDone, RunFail, Progress, RunDoneUnanswered, RunUnsaved, Heartbeat
<1>4. QED
  BY <1>1, <1>2, <1>3 DEF Next, vars, Enqueue, PassPrune, PassAborts, Crash, Tick

(* What of the abstract queue a step that is quiet for every one-attempt job does: it *)
(* releases those no longer held, and tells of nobody or of one.                      *)
LEMMA QuietImplements ==
  ASSUME \A j \in OneShotJobs : PhaseOf(j)' = PhaseOf(j) /\ (Held(j)' => Held(j)),
         told' \cap OneShotJobs = told \cap OneShotJobs
  PROVE  [Queue!Next]_(Queue!queueVars)
<1> DEFINE held == {j \in OneShotJobs : Held(j)}
           S == held \ held'
<1>1. [j \in OneShotJobs |-> PhaseOf(j)]' = [j \in OneShotJobs |-> PhaseOf(j)]
  BY DEF OneShotJobs
<1>2. held' = held \ S
  BY DEF OneShotJobs
<1>3. (told \cap OneShotJobs)' = told \cap OneShotJobs
  BY DEF OneShotJobs
<1>4. CASE S = {}
  BY <1>1, <1>2, <1>3, <1>4 DEF Queue!queueVars
<1>5. CASE S # {}
  <2>1. Queue!Release(S)
    BY <1>1, <1>2, <1>3, <1>5 DEF Queue!Release
  <2>2. S \in SUBSET OneShotJobs
    OBVIOUS
  <2>3. QED
    BY <2>1, <2>2 DEF Queue!Next
<1>6. QED
  BY <1>4, <1>5

LEMMA ImplementsStep ==
  ASSUME TypeOK, SpentForGood, LostTaken, [Next]_vars
  PROVE  [Queue!Next]_(Queue!queueVars)
<1> USE JobQueueAssumption DEF OneShotJobs
<1> DEFINE Shot == OneShotJobs
           StaysAs(j) == PhaseOf(j)' = PhaseOf(j) /\ (Held(j)' => Held(j))
<1>1. ASSUME NEW k \in Jobs, Enqueue(k) PROVE [Queue!Next]_(Queue!queueVars)
  <2>1. \A j \in Shot : Held(j)' <=> Held(j)
    BY <1>1 DEF Enqueue, Held, GrantedTo, Running, InFlight
  <2>2. \A j \in Jobs : PhaseOf(j)' = IF j = k THEN "queued" ELSE PhaseOf(j)
    BY <1>1 DEF Enqueue, PhaseOf, NoRow, TypeOK
  <2>3. PhaseOf(k) = "none"
    BY <1>1 DEF Enqueue, PhaseOf
  <2>4. told' = told
    BY <1>1 DEF Enqueue
  <2>5. CASE k \notin Shot
    BY <2>1, <2>2, <2>4, <2>5, QuietImplements
  <2>6. CASE k \in Shot
    <3>1. Queue!Submit(k)
      BY <2>1, <2>2, <2>3, <2>4, <2>6 DEF Queue!Submit
    <3>2. QED
      BY <2>6, <3>1 DEF Queue!Next
  <2>7. QED
    BY <2>5, <2>6
<1>2. ASSUME NEW p \in Passes, NEW k \in Jobs, PassClaim(p, k) PROVE [Queue!Next]_(Queue!queueVars)
  <2>1. \A j \in Jobs : Held(j)' <=> Held(j) \/ j = k
    BY <1>2 DEF PassClaim, Held, GrantedTo, Running, InFlight, TypeOK, Pass
  <2>2. \A j \in Jobs : PhaseOf(j)' = IF j = k THEN "taken" ELSE PhaseOf(j)
    BY <1>2 DEF PassClaim, PhaseOf, TypeOK, Job
  <2>3. PhaseOf(k) = "queued"
    BY <1>2 DEF PassClaim, Due, PhaseOf
  <2>4. told' = told
    BY <1>2 DEF PassClaim
  <2>5. CASE k \notin Shot
    BY <2>1, <2>2, <2>4, <2>5, QuietImplements
  <2>6. CASE k \in Shot
    <3>1. Queue!Take(k)
      BY <2>1, <2>2, <2>3, <2>4, <2>6 DEF Queue!Take
    <3>2. QED
      BY <2>6, <3>1 DEF Queue!Next
  <2>7. QED
    BY <2>5, <2>6
<1>3. ASSUME NEW p \in Passes, NEW r \in Runs, PassBegin(p, r) PROVE [Queue!Next]_(Queue!queueVars)
  <2>1. \A j \in Jobs : Held(j)' => Held(j)
    BY <1>3, LoopTypes DEF PassBegin, Held, GrantedTo, Running, InFlight, TypeOK
  <2>2. \A j \in Jobs : PhaseOf(j)' = PhaseOf(j)
    BY <1>3 DEF PassBegin, PhaseOf
  <2>3. told' = told
    BY <1>3 DEF PassBegin
  <2>4. QED
    BY <2>1, <2>2, <2>3, QuietImplements
<1>4. ASSUME ~Moving PROVE [Queue!Next]_(Queue!queueVars)
  <2>1. \A j \in Shot : StaysAs(j)
    BY <1>4, QuietSteps DEF Quiet, GrantsKept, RunsKept, Held
  <2>2. CASE told' \cap Shot = told \cap Shot
    BY <2>1, <2>2, QuietImplements
  <2>3. CASE told' \cap Shot # told \cap Shot
    <3>1. PICK p \in Passes, k \in Jobs : PassTellLost(p, k, TRUE)
      BY <2>3, ToldStep
    <3>2. told' = told \cup {k} /\ k \in pass[p].lost /\ pass[p].phase = "lost"
      BY <3>1 DEF PassTellLost
    <3>3. k \in Shot
      BY <2>3, <3>2
    <3>4. PhaseOf(k) = "taken"
      BY <3>2, <3>3 DEF LostTaken, SpentForGood, RowSpent, PhaseOf
    <3>5. \A j \in Shot : Held(j)' <=> Held(j)
      <4>1. pass[p].lost \ {k} \in SUBSET Jobs /\ pass[p].claim = NULL
        BY <3>2, NullAssumption DEF TypeOK, Pass
      <4>2. TellingLost(p, pass[p].lost \ {k}).phase # "granted"
        BY <4>1, LoopTypes
      <4>3. \A q \in Passes, j \in Jobs : GrantedTo(q, j)' <=> GrantedTo(q, j)
        BY <3>1, <3>2, <4>2 DEF PassTellLost, GrantedTo, TypeOK
      <4>4. QED
        BY <3>1, <4>3 DEF PassTellLost, Held, Running, InFlight
    <3>6. Queue!Tell(k)
      BY <2>1, <3>2, <3>3, <3>4, <3>5 DEF Queue!Tell
    <3>7. QED
      BY <3>3, <3>6 DEF Queue!Next
  <2>4. QED
    BY <2>2, <2>3
<1>5. QED
  BY <1>1, <1>2, <1>3, <1>4 DEF Moving

(* What the executions, exports, backups and alerts count on (OneShotQueue): the queue as *)
(* it is built gives each one-attempt job to a worker once, never takes it back, and      *)
(* tells nobody of a job that no worker took, in every execution.                         *)
THEOREM KeepsPromiseHolds == Spec => KeepsPromise
<1>1. Init => SpentForGood /\ LostTaken
  BY DEF Init, SpentForGood, RowSpent, LostTaken, GrantedTo, Running, InFlight, IdlePass, IdleRun, NoRow
<1>2. Init => Queue!Init
  BY DEF Init, Queue!Init, OneShotJobs, PhaseOf, Held, GrantedTo, Running, InFlight, IdlePass, IdleRun, NoRow
<1>3. TypeOK /\ SpentForGood /\ LostTaken /\ [Next]_vars => [Queue!Next]_(Queue!queueVars)
  BY ImplementsStep
<1>4. QED
  BY <1>1, <1>2, <1>3, TypeCorrect, SpentStep, LostTakenStep, PTL DEF Spec, KeepsPromise, Queue!Spec

-----------------------------------------------------------------------------
(* Where heartbeats reach the store before the lease lapses and no pass outlasts a lease, *)
(* whoever holds a job, a pass it was granted to or a run, holds its row: the row runs    *)
(* under their process, counts their claim, and its lease has not ended.  A run whose     *)
(* `done` was stored but not answered has the row settled, or pruned since.               *)

Timely == Prompt /\ MaxLag <= LeaseTerm

GrantSound(p) ==
  LET c == pass[p].claim
      row == jobs[c.job]
  IN /\ row.status = "running" /\ row.worker = Host[p]
     /\ row.attempts = c.attempts /\ claims[c.job] = c.attempts
     /\ row.leaseUntil = pass[p].now + LeaseTerm /\ c.lease = row.leaseUntil

RunSound(r) ==
  LET c == run[r].claim
      row == jobs[c.job]
  IN /\ claims[c.job] = c.attempts
     /\ \/ /\ row.status = "running" /\ row.worker = run[r].worker /\ row.attempts = c.attempts
           /\ 0 <= row.leaseUntil /\ row.leaseUntil <= c.lease /\ c.lease <= LeaseTerm
        \/ run[r].phase = "failing" /\ row.status \in {"done", "pruned"}

RowCounted(j) ==
  /\ claims[j] <= MaxAttempts[j]
  /\ jobs[j].status \notin {"none", "pruned"} => jobs[j].attempts = claims[j]
  /\ jobs[j].status = "none" => claims[j] = 0
  /\ jobs[j].status = "queued" => claims[j] < MaxAttempts[j]

InLag == \A p \in Passes : pass[p].now \in -MaxLag..0
Grants == \A p \in Passes : pass[p].phase = "granted" => GrantSound(p)
Runners == \A r \in Runs : InFlight(r) => RunSound(r)
OneHolder ==
  \A j \in Jobs :
    /\ \A p, q \in Passes : GrantedTo(p, j) /\ GrantedTo(q, j) => p = q
    /\ \A r, s \in Runs : Running(r, j) /\ Running(s, j) => r = s
    /\ \A p \in Passes, r \in Runs : ~(GrantedTo(p, j) /\ Running(r, j))
Counted == \A j \in Jobs : RowCounted(j)

HeldInv == TypeOK /\ InLag /\ Grants /\ Runners /\ OneHolder /\ Counted

(* Where a process has one pass open at a time, its slots are the jobs of its runs, and a *)
(* pass that asks for a job, or was granted one, left a slot for it.                      *)
OneAtATime == \A p, q \in Passes : Host[p] = Host[q] => p = q

RunsOf(w) == {r \in Runs : InFlight(r) /\ run[r].worker = w}
SlotsInv ==
  /\ \A w \in Workers :
       /\ running[w] = {run[r].claim.job : r \in RunsOf(w)}
       /\ IsFiniteSet(running[w]) /\ Cardinality(running[w]) <= Concurrency
  /\ \A p \in Passes : pass[p].phase \in {"asking", "granted"} => Cardinality(running[Host[p]]) < Concurrency

(* A job somebody holds is one they were given, and its row is neither queued nor lost. *)
LEMMA HolderTypes ==
  ASSUME HeldInv
  PROVE  /\ \A p \in Passes : pass[p].phase = "granted" =>
              /\ pass[p].claim \in Snapshot /\ pass[p].claim.job \in Jobs
              /\ jobs[pass[p].claim.job] \in Job
         /\ \A r \in Runs : InFlight(r) =>
              /\ run[r].claim \in Snapshot /\ run[r].claim.job \in Jobs /\ run[r].worker \in Workers
              /\ jobs[run[r].claim.job] \in Job
              /\ jobs[run[r].claim.job].status \in {"running", "done", "pruned"}
<1> USE NullAssumption
<1>1. \A p \in Passes : pass[p].phase = "granted" =>
        pass[p].claim \in Snapshot /\ pass[p].claim.job \in Jobs /\ jobs[pass[p].claim.job] \in Job
  BY DEF HeldInv, TypeOK, Pass, Snapshot
<1>2. \A r \in Runs : InFlight(r) =>
        /\ run[r].claim \in Snapshot /\ run[r].claim.job \in Jobs /\ run[r].worker \in Workers
        /\ jobs[run[r].claim.job] \in Job
  BY DEF HeldInv, TypeOK, InFlight, Run, Snapshot
<1>3. \A r \in Runs : InFlight(r) => jobs[run[r].claim.job].status \in {"running", "done", "pruned"}
  BY DEF HeldInv, Runners, RunSound
<1>4. QED
  BY <1>1, <1>2, <1>3

(* Nobody holds a job that is taken back: the lease of a held row has not ended. *)
LEMMA HeldLives ==
  ASSUME HeldInv, Timely, NEW p \in Passes
  PROVE  /\ \A q \in Passes : pass[q].phase = "granted" => pass[q].claim.job \notin Expired(p)
         /\ \A r \in Runs : InFlight(r) => run[r].claim.job \notin Expired(p)
<1> USE JobQueueAssumption, NullAssumption
<1>1. pass[p].now \in Int /\ pass[p].now <= 0
  BY DEF HeldInv, InLag
<1>2. ASSUME NEW q \in Passes, pass[q].phase = "granted" PROVE pass[q].claim.job \notin Expired(p)
  <2>1. pass[q].now \in -MaxLag..0 /\ jobs[pass[q].claim.job].leaseUntil = pass[q].now + LeaseTerm
    BY <1>2 DEF HeldInv, InLag, Grants, GrantSound
  <2>2. pass[q].now + LeaseTerm >= 0
    BY <2>1 DEF Timely
  <2>3. QED
    BY <1>1, <2>1, <2>2 DEF Expired
<1>3. ASSUME NEW r \in Runs, InFlight(r) PROVE run[r].claim.job \notin Expired(p)
  <2>1. /\ jobs[run[r].claim.job].status = "running" => 0 <= jobs[run[r].claim.job].leaseUntil
        /\ jobs[run[r].claim.job] \in Job
        /\ jobs[run[r].claim.job].status = "running" => jobs[run[r].claim.job].leaseUntil # NULL
    BY <1>3, HolderTypes DEF HeldInv, Runners, RunSound, TypeOK
  <2>2. QED
    BY <1>1, <2>1 DEF Expired, Job
<1>4. QED
  BY <1>2, <1>3

(* Who holds nothing new may only leave a job to fewer. *)
LEMMA FewerHolders ==
  ASSUME HeldInv,
         \A p \in Passes, j \in Jobs : GrantedTo(p, j)' => GrantedTo(p, j),
         \A r \in Runs, j \in Jobs : Running(r, j)' => Running(r, j)
  PROVE  OneHolder'
BY DEF HeldInv, OneHolder

(* The steps of a pass that is not given a job and of time-outs: grants and runs stay or go. *)
LEMMA PassQuiet ==
  ASSUME HeldInv, TypeOK', NEW p \in Passes, NEW d \in Pass, pass' = [pass EXCEPT ![p] = d],
         d.phase # "granted", d.now \in -MaxLag..0,
         UNCHANGED <<run, claims>>,
         \A q \in Passes : pass[q].phase = "granted" => jobs'[pass[q].claim.job] = jobs[pass[q].claim.job],
         \A r \in Runs : InFlight(r) => jobs'[run[r].claim.job] = jobs[run[r].claim.job],
         Counted'
  PROVE  HeldInv'
<1>1. \A q \in Passes : pass'[q] = IF q = p THEN d ELSE pass[q]
  BY DEF HeldInv, TypeOK
<1>2. InLag'
  BY <1>1 DEF HeldInv, InLag
<1>3. Grants'
  BY <1>1 DEF HeldInv, Grants, GrantSound
<1>4. Runners'
  BY DEF HeldInv, Runners, RunSound, InFlight
<1>5. OneHolder'
  BY <1>1, FewerHolders DEF GrantedTo, Running, InFlight
<1>6. QED
  BY <1>2, <1>3, <1>4, <1>5 DEF HeldInv

(* The steps that end a run, its row written or not. *)
LEMMA RunQuiet ==
  ASSUME HeldInv, TypeOK', NEW r \in Runs, InFlight(r), run' = [run EXCEPT ![r] = IdleRun],
         UNCHANGED <<pass, claims>>,
         \A j \in Jobs : j # run[r].claim.job => jobs'[j] = jobs[j],
         \A k \in Jobs : k = run[r].claim.job => RowCounted(k)'
  PROVE  HeldInv'
<1>1. \A s \in Runs : run'[s] = IF s = r THEN IdleRun ELSE run[s]
  BY DEF HeldInv, TypeOK
<1>2. run[r].claim.job \in Jobs /\ Running(r, run[r].claim.job)
  BY HolderTypes DEF Running
<1>3. \A q \in Passes : pass[q].phase = "granted" => jobs'[pass[q].claim.job] = jobs[pass[q].claim.job]
  BY <1>2, HolderTypes DEF HeldInv, OneHolder, GrantedTo
<1>4. \A s \in Runs : s # r /\ InFlight(s) => jobs'[run[s].claim.job] = jobs[run[s].claim.job]
  BY <1>2, HolderTypes DEF HeldInv, OneHolder, Running
<1>5. InLag'
  BY DEF HeldInv, InLag
<1>6. Grants'
  BY <1>3 DEF HeldInv, Grants, GrantSound
<1>7. Runners'
  BY <1>1, <1>4, IdleTypes DEF HeldInv, Runners, RunSound, InFlight
<1>8. OneHolder'
  BY <1>1, FewerHolders, IdleTypes DEF GrantedTo, Running, InFlight
<1>9. Counted'
  BY DEF HeldInv, Counted, RowCounted
<1>10. QED
  BY <1>5, <1>6, <1>7, <1>8, <1>9 DEF HeldInv

(* A claim a pass or a run holds counts its job's claims, which stay within its attempts. *)
LEMMA HeldCount ==
  ASSUME HeldInv
  PROVE  /\ \A r \in Runs : InFlight(r) =>
              /\ claims[run[r].claim.job] = run[r].claim.attempts
              /\ run[r].claim.attempts <= MaxAttempts[run[r].claim.job]
         /\ \A j \in Jobs : claims[j] \in Nat /\ MaxAttempts[j] \in Nat /\ jobs[j] \in Job
<1>1. \A j \in Jobs : claims[j] \in Nat /\ MaxAttempts[j] \in Nat /\ jobs[j] \in Job /\ claims[j] <= MaxAttempts[j]
  BY JobQueueAssumption DEF HeldInv, TypeOK, Counted, RowCounted
<1>2. QED
  BY <1>1, HolderTypes DEF HeldInv, Runners, RunSound

(* What a run puts counts its own claim, of which there are as many as the job's claims, *)
(* and it is put back on the queue only while it has attempts left.                      *)
LEMMA PutCounts ==
  ASSUME HeldInv, NEW r \in Runs, InFlight(r), NEW s \in {"running", "done", "failed", "queued"}, NEW at, NEW l, NEW w,
         s = "queued" => Again(r), PutSnapshot(r, s, at, l, w), claims' = claims
  PROVE  /\ run[r].claim.job \in Jobs
         /\ \A k \in Jobs : k # run[r].claim.job => jobs'[k] = jobs[k]
         /\ jobs'[run[r].claim.job].status = s /\ jobs'[run[r].claim.job].leaseUntil = l
         /\ jobs'[run[r].claim.job].worker = w
         /\ jobs'[run[r].claim.job].attempts = run[r].claim.attempts
         /\ \A k \in Jobs : k = run[r].claim.job => RowCounted(k)'
<1> DEFINE j == run[r].claim.job
<1>1. j \in Jobs /\ claims[j] = run[r].claim.attempts /\ claims[j] <= MaxAttempts[j]
  BY HolderTypes, HeldCount
<1>2. jobs' = [jobs EXCEPT ![j] = [status |-> s, attempts |-> run[r].claim.attempts, runAt |-> at,
                                   leaseUntil |-> l, worker |-> w]]
  BY DEF PutSnapshot
<1>3. /\ jobs'[j].status = s /\ jobs'[j].attempts = run[r].claim.attempts
      /\ jobs'[j].leaseUntil = l /\ jobs'[j].worker = w
  BY <1>1, <1>2 DEF HeldInv, TypeOK
<1>4. s = "queued" => claims[j] < MaxAttempts[j]
  BY <1>1 DEF Again
<1>5. \A k \in Jobs : k = j => RowCounted(k)'
  BY <1>1, <1>3, <1>4 DEF RowCounted
<1>6. \A k \in Jobs : k # j => jobs'[k] = jobs[k]
  BY <1>2
<1>7. QED
  BY <1>1, <1>3, <1>5, <1>6

LEMMA HeldStep == Timely /\ HeldInv /\ [Next]_vars => HeldInv'
<1> SUFFICES ASSUME Timely, HeldInv, [Next]_vars PROVE HeldInv'
  OBVIOUS
<1> USE JobQueueAssumption, NullAssumption
<1>a. TypeOK /\ TypeOK' /\ InLag
  BY TypeStep DEF HeldInv
<1>b. \A p \in Passes : pass[p] \in Pass /\ 0 \in -MaxLag..0 /\ IdlePass.now = 0
  BY <1>a DEF TypeOK, IdlePass
<1>1. ASSUME NEW k \in Jobs, Enqueue(k) PROVE HeldInv'
  <2>1. \A j \in Jobs : j # k => jobs'[j] = jobs[j]
    BY <1>1 DEF Enqueue
  <2>2. /\ \A q \in Passes : pass[q].phase = "granted" => pass[q].claim.job # k
        /\ \A r \in Runs : InFlight(r) => run[r].claim.job # k
    BY <1>1, HolderTypes DEF Enqueue, HeldInv, Grants, GrantSound
  <2>3. Counted'
    BY <1>1, <1>a DEF Enqueue, HeldInv, Counted, RowCounted, NoRow, TypeOK
  <2>4. Grants'
    BY <1>1, <2>1, <2>2, HolderTypes DEF Enqueue, HeldInv, Grants, GrantSound
  <2>5. Runners'
    BY <1>1, <2>1, <2>2, HolderTypes DEF Enqueue, HeldInv, Runners, RunSound, InFlight
  <2>6. InLag' /\ OneHolder'
    BY <1>1, FewerHolders DEF Enqueue, HeldInv, InLag, GrantedTo, Running, InFlight
  <2>7. QED
    BY <1>a, <2>3, <2>4, <2>5, <2>6 DEF HeldInv
<1>2. ASSUME NEW p \in Passes, PassStart(p) \/ PassFindsNothing(p) \/ PassAborts(p) PROVE HeldInv'
  <2> DEFINE d == IF PassStart(p) THEN [IdlePass EXCEPT !.phase = "reclaim"] ELSE IdlePass
  <2>1. d \in Pass /\ d.phase # "granted" /\ d.now = 0
    BY IdleTypes DEF IdlePass, Pass
  <2>2. pass' = [pass EXCEPT ![p] = d] /\ UNCHANGED <<jobs, run, claims>>
    BY <1>2 DEF PassStart, PassFindsNothing, PassAborts
  <2>3. Counted'
    BY <2>2 DEF HeldInv, Counted, RowCounted
  <2> HIDE DEF d
  <2>4. QED
    BY <1>a, <1>b, <2>1, <2>2, <2>3, PassQuiet
<1>3. ASSUME NEW p \in Passes, PassPrune(p) PROVE HeldInv'
  <2>1. ASSUME NEW j \in Jobs
        PROVE  jobs'[j] = jobs[j] \/ (jobs[j].status \in Settled /\ jobs'[j] = NoRow("pruned"))
    <3> DEFINE old == jobs[j].status \in Settled /\ jobs[j].runAt < pass[p].now - Retention
    <3>1. jobs'[j] = IF old THEN NoRow("pruned") ELSE jobs[j]
      BY <1>3 DEF PassPrune
    <3>2. QED
      BY <3>1
  <2>2. UNCHANGED <<pass, run, claims>>
    BY <1>3 DEF PassPrune
  <2>3. Grants'
    BY <2>1, <2>2, HolderTypes DEF HeldInv, Grants, GrantSound, Settled
  <2>4. Runners'
    BY <2>1, <2>2, HolderTypes, IdleTypes DEF HeldInv, Runners, RunSound, InFlight, Settled
  <2>5. Counted'
    BY <2>1, <2>2, IdleTypes DEF HeldInv, Counted, RowCounted
  <2>6. InLag' /\ OneHolder'
    BY <2>2, FewerHolders DEF HeldInv, InLag, GrantedTo, Running, InFlight
  <2>7. QED
    BY <1>a, <2>3, <2>4, <2>5, <2>6 DEF HeldInv
<1>4. ASSUME NEW p \in Passes, PassReclaim(p) PROVE HeldInv'
  <2> DEFINE gone == {j \in Expired(p) : Exhausted(j)}
  <2>1. gone \in SUBSET Jobs /\ pass[p].claim = NULL
    BY <1>4, <1>a DEF Expired, PassReclaim, TypeOK
  <2>2. pass' = [pass EXCEPT ![p] = TellingLost(p, gone)] /\ UNCHANGED <<run, claims>>
    BY <1>4 DEF PassReclaim
  <2>3. TellingLost(p, gone) \in Pass /\ TellingLost(p, gone).phase # "granted"
    BY <1>a, <2>1, LoopTypes
  <2>4. TellingLost(p, gone).now \in -MaxLag..0
    BY <1>a, <1>b DEF TellingLost, Looping, IdlePass, Pass, InLag
  <2>5. \A j \in Jobs : j \notin Expired(p) => jobs'[j] = jobs[j]
    BY <1>4 DEF PassReclaim
  <2>6. ASSUME NEW j \in Jobs PROVE RowCounted(j)'
    <3>1. RowCounted(j) /\ claims'[j] = claims[j] /\ claims[j] \in Nat /\ MaxAttempts[j] \in Nat
      BY <2>2, HeldCount DEF HeldInv, Counted
    <3>2. CASE j \notin Expired(p)
      BY <2>5, <3>1, <3>2 DEF RowCounted
    <3>3. CASE j \in Expired(p)
      <4> DEFINE s == IF Exhausted(j) THEN "lost" ELSE "queued"
      <4>1. jobs'[j] = [jobs[j] EXCEPT !.status = s, !.leaseUntil = NULL, !.worker = NULL]
        BY <1>4, <3>3 DEF PassReclaim
      <4>2. jobs[j] \in Job /\ jobs[j].status = "running"
        BY <1>a, <3>3 DEF TypeOK, Expired
      <4>3. jobs'[j].status = s /\ jobs'[j].attempts = jobs[j].attempts
        BY <4>1, <4>2 DEF Job
      <4>4. QED
        BY <3>1, <4>2, <4>3 DEF RowCounted, Exhausted
    <3>4. QED
      BY <3>2, <3>3
  <2>7. Counted'
    BY <2>6 DEF Counted
  <2> HIDE DEF gone
  <2>8. QED
    BY <1>a, <2>2, <2>3, <2>4, <2>5, <2>7, HeldLives, HolderTypes, PassQuiet
<1>5. ASSUME NEW p \in Passes, NEW k \in Jobs, NEW ok \in BOOLEAN, PassTellLost(p, k, ok) PROVE HeldInv'
  <2> DEFINE d == TellingLost(p, pass[p].lost \ {k})
  <2>1. pass[p].lost \ {k} \in SUBSET Jobs /\ pass[p].claim = NULL
    BY <1>5, <1>a DEF PassTellLost, TypeOK, Pass
  <2>2. d \in Pass /\ d.phase # "granted"
    BY <1>a, <2>1, LoopTypes
  <2>3. d.now \in -MaxLag..0
    BY <1>a, <1>b DEF TellingLost, Looping, IdlePass, Pass, InLag
  <2>4. pass' = [pass EXCEPT ![p] = d] /\ UNCHANGED <<jobs, run, claims>>
    BY <1>5 DEF PassTellLost
  <2>5. Counted'
    BY <2>4 DEF HeldInv, Counted, RowCounted
  <2> HIDE DEF d
  <2>6. QED
    BY <1>a, <2>2, <2>3, <2>4, <2>5, PassQuiet
<1>6. ASSUME NEW p \in Passes, NEW k \in Jobs, PassClaim(p, k) PROVE HeldInv'
  <2> DEFINE until == pass[p].now + LeaseTerm
             c == [job |-> k, attempts |-> jobs[k].attempts + 1, runAt |-> jobs[k].runAt, lease |-> until]
  <2>1. jobs[k].status = "queued" /\ jobs[k] \in Job /\ RowCounted(k) /\ pass[p].phase = "asking"
    BY <1>6, <1>a DEF PassClaim, Due, HeldInv, TypeOK, Counted
  <2>2. claims[k] \in Nat /\ MaxAttempts[k] \in Nat /\ jobs[k].attempts = claims[k] /\ claims[k] < MaxAttempts[k]
    BY <2>1, HeldCount DEF RowCounted
  <2>3. claims' = [claims EXCEPT ![k] = claims[k] + 1] /\ run' = run
    <3>1. claims[k] <= MaxAttempts[k]
      BY <2>2
    <3>2. QED
      BY <1>6, <3>1 DEF PassClaim
  <2>4. /\ \A j \in Jobs : j # k => jobs'[j] = jobs[j]
        /\ jobs'[k].status = "running" /\ jobs'[k].leaseUntil = until
        /\ jobs'[k].attempts = claims[k] + 1 /\ jobs'[k].worker = Host[p]
    BY <1>6, <1>a, <2>1, <2>2 DEF PassClaim, TypeOK, Job
  <2>5. /\ \A q \in Passes : q # p => pass'[q] = pass[q]
        /\ pass'[p].phase = "granted" /\ pass'[p].claim = c /\ pass'[p].now = pass[p].now
    BY <1>6, <1>a, <1>b DEF PassClaim, TypeOK, Pass
  <2>6. /\ \A q \in Passes : pass[q].phase = "granted" => pass[q].claim.job # k
        /\ \A r \in Runs : InFlight(r) => run[r].claim.job # k
    BY <2>1, HolderTypes DEF HeldInv, Grants, GrantSound
  <2>7. /\ c.job = k /\ c.attempts = claims[k] + 1 /\ c.lease = until
    BY <2>2
  <2>8. \A j \in Jobs : claims'[j] = IF j = k THEN claims[k] + 1 ELSE claims[j]
    BY <1>a, <2>3 DEF TypeOK
  <2> HIDE DEF c
  <2>9. InLag'
    BY <2>5, <1>a DEF InLag
  <2>10. Grants'
    BY <2>4, <2>5, <2>6, <2>7, <2>8, HolderTypes DEF HeldInv, Grants, GrantSound
  <2>11. Runners'
    BY <2>3, <2>4, <2>6, <2>8, HolderTypes DEF HeldInv, Runners, RunSound, InFlight
  <2>12. OneHolder'
    BY <2>1, <2>3, <2>5, <2>6, <2>7 DEF HeldInv, OneHolder, GrantedTo, Running, InFlight
  <2>13. Counted'
    BY <2>2, <2>4, <2>8 DEF HeldInv, Counted, RowCounted
  <2>14. QED
    BY <1>a, <2>9, <2>10, <2>11, <2>12, <2>13 DEF HeldInv
<1>7. ASSUME NEW p \in Passes, NEW r \in Runs, PassBegin(p, r) PROVE HeldInv'
  <2> DEFINE slots == running[Host[p]] \cup {pass[p].claim.job}
             d == Looping(p, slots)
             j == pass[p].claim.job
  <2>1. d \in Pass /\ d.phase # "granted"
    BY <1>a, LoopTypes
  <2>2. d.now \in -MaxLag..0
    BY <1>a, <1>b DEF Looping, IdlePass, Pass, InLag
  <2>3. /\ pass[p].phase = "granted" /\ ~InFlight(r) /\ UNCHANGED <<jobs, claims>>
        /\ pass' = [pass EXCEPT ![p] = d]
        /\ run' = [run EXCEPT ![r] = [phase |-> "live", worker |-> Host[p], claim |-> pass[p].claim]]
    BY <1>7 DEF PassBegin
  <2>4. \A q \in Passes : pass'[q] = IF q = p THEN d ELSE pass[q]
    BY <1>a, <2>3 DEF TypeOK
  <2>5. \A s \in Runs : s # r => run'[s] = run[s]
    BY <2>3
  <2>6. run'[r].phase = "live" /\ run'[r].worker = Host[p] /\ run'[r].claim = pass[p].claim
    BY <1>a, <2>3 DEF TypeOK
  <2>7. GrantSound(p) /\ j \in Jobs /\ jobs[j] \in Job /\ pass[p].now \in -MaxLag..0
    BY <1>a, <2>3, HolderTypes DEF HeldInv, Grants, InLag
  <2>8. RunSound(r)'
    <3>1. 0 <= pass[p].now + LeaseTerm
      BY <2>7 DEF Timely
    <3>2. jobs[j].leaseUntil = pass[p].now + LeaseTerm /\ pass[p].claim.lease = jobs[j].leaseUntil
      BY <2>7 DEF GrantSound
    <3>3. QED
      BY <2>3, <2>6, <2>7, <3>1, <3>2 DEF GrantSound, RunSound
  <2> HIDE DEF d
  <2>9. InLag'
    BY <1>a, <2>2, <2>4 DEF InLag
  <2>10. Grants'
    BY <2>1, <2>3, <2>4 DEF HeldInv, Grants, GrantSound
  <2>11. Runners'
    <3>1. ASSUME NEW s \in Runs, s # r, InFlight(s)' PROVE RunSound(s)'
      BY <2>3, <2>5, <3>1 DEF HeldInv, Runners, RunSound, InFlight
    <3>2. QED
      BY <2>8, <3>1 DEF Runners
  <2>12. OneHolder'
    <3>1. \A q \in Passes, k \in Jobs : GrantedTo(q, k)' => GrantedTo(q, k) /\ q # p
      BY <2>1, <2>4 DEF GrantedTo
    <3>2. ASSUME NEW s \in Runs, NEW k \in Jobs, Running(s, k)'
          PROVE  (s = r /\ k = j) \/ (s # r /\ Running(s, k))
      <4>1. CASE s = r
        BY <2>6, <3>2, <4>1 DEF Running
      <4>2. CASE s # r
        BY <2>5, <3>2, <4>2 DEF Running, InFlight
      <4>3. QED
        BY <4>1, <4>2
    <3>3. GrantedTo(p, j)
      BY <2>3 DEF GrantedTo
    <3> HIDE DEF j
    <3>4. QED
      BY <2>7, <3>1, <3>2, <3>3 DEF HeldInv, OneHolder
  <2>13. Counted'
    BY <2>3 DEF HeldInv, Counted, RowCounted
  <2>14. QED
    BY <1>a, <2>9, <2>10, <2>11, <2>12, <2>13 DEF HeldInv
<1>8. ASSUME NEW r \in Runs, NEW ok \in BOOLEAN, Heartbeat(r, ok) PROVE HeldInv'
  <2> DEFINE j == run[r].claim.job
             c == [run[r].claim EXCEPT !.lease = LeaseTerm]
  <2>1. InFlight(r) /\ UNCHANGED <<pass, claims>> /\ j \in Jobs /\ jobs[j] \in Job /\ run[r].claim \in Snapshot
    BY <1>8, HolderTypes DEF Heartbeat
  <2>2. c.job = j /\ c.attempts = run[r].claim.attempts /\ c.lease = LeaseTerm
    BY <2>1 DEF Snapshot
  <2>3. /\ \A s \in Runs : s # r => run'[s] = run[s]
        /\ run'[r].phase = run[r].phase /\ run'[r].worker = run[r].worker /\ run'[r].claim = c
    BY <1>8, <1>a DEF Heartbeat, TypeOK, Run
  <2>4. \A k \in Jobs : k # j => jobs'[k] = jobs[k]
    BY <1>8, <2>1 DEF Heartbeat
  <2>5. /\ jobs'[j].status = jobs[j].status /\ jobs'[j].worker = jobs[j].worker
        /\ jobs'[j].attempts = jobs[j].attempts
        /\ jobs'[j].leaseUntil = jobs[j].leaseUntil \/ jobs'[j].leaseUntil = LeaseTerm
    BY <1>8, <1>a, <2>1 DEF Heartbeat, TypeOK, Job
  <2>6. \A s \in Runs : s # r /\ InFlight(s) => run[s].claim.job # j
    BY <2>1, HolderTypes DEF HeldInv, OneHolder, Running
  <2>7. \A q \in Passes : pass[q].phase = "granted" => pass[q].claim.job # j
    BY <2>1, HolderTypes DEF HeldInv, OneHolder, Running, GrantedTo
  <2>8. /\ RunSound(r)
        /\ jobs[j].status = "running" => jobs[j].leaseUntil \in Int
    BY <1>a, <2>1 DEF HeldInv, Runners, TypeOK, Job
  <2>9. RunSound(r)'
    <3>1. CASE jobs[j].status = "running"
      <4>1. /\ 0 <= jobs[j].leaseUntil /\ jobs[j].leaseUntil <= run[r].claim.lease
            /\ run[r].claim.lease <= LeaseTerm /\ run[r].claim.lease \in Int
        BY <2>1, <2>8, <3>1 DEF RunSound, Snapshot
      <4>2. 0 <= jobs'[j].leaseUntil /\ jobs'[j].leaseUntil <= LeaseTerm
        BY <2>5, <2>8, <3>1, <4>1
      <4>3. QED
        BY <2>1, <2>2, <2>3, <2>5, <2>8, <3>1, <4>2 DEF RunSound
    <3>2. CASE jobs[j].status # "running"
      BY <2>1, <2>2, <2>3, <2>5, <2>8, <3>2 DEF RunSound
    <3>3. QED
      BY <3>1, <3>2
  <2> HIDE DEF j, c
  <2>10. Grants'
    BY <2>1, <2>4, <2>7, HolderTypes DEF HeldInv, Grants, GrantSound
  <2>11. Runners'
    <3>1. ASSUME NEW s \in Runs, s # r, InFlight(s)' PROVE RunSound(s)'
      <4>1. run'[s] = run[s] /\ InFlight(s) /\ RunSound(s)
        BY <2>3, <3>1 DEF HeldInv, Runners, InFlight
      <4>2. jobs'[run[s].claim.job] = jobs[run[s].claim.job]
        BY <2>4, <2>6, <3>1, <4>1, HolderTypes
      <4>3. QED
        BY <2>1, <4>1, <4>2 DEF RunSound
    <3>2. QED
      BY <2>9, <3>1 DEF Runners
  <2>12. InLag'
    BY <1>a, <2>1 DEF InLag
  <2>13. OneHolder'
    <3>1. \A s \in Runs, k \in Jobs : Running(s, k)' => Running(s, k)
      BY <2>2, <2>3 DEF Running, InFlight, j
    <3>2. QED
      BY <2>1, <3>1, FewerHolders DEF GrantedTo
  <2>14. Counted'
    BY <2>1, <2>4, <2>5 DEF HeldInv, Counted, RowCounted
  <2>15. QED
    BY <1>a, <2>10, <2>11, <2>12, <2>13, <2>14 DEF HeldInv
<1>9. ASSUME NEW r \in Runs, InFlight(r), UNCHANGED <<pass, claims>>,
             NEW j \in Jobs, j = run[r].claim.job, \A k \in Jobs : k # j => jobs'[k] = jobs[k], RowCounted(j)',
             \A s \in Runs : s # r => run'[s] = run[s],
             run'[r].claim = run[r].claim, run'[r].worker = run[r].worker, InFlight(r)', RunSound(r)'
      PROVE  HeldInv'
  <2>1. \A s \in Runs : s # r /\ InFlight(s) => run[s].claim.job # j
    BY <1>9 DEF HeldInv, OneHolder, Running
  <2>2. \A q \in Passes : pass[q].phase = "granted" => pass[q].claim.job # j
    BY <1>9 DEF HeldInv, OneHolder, Running, GrantedTo
  <2>3. Grants'
    BY <1>9, <2>2, HolderTypes DEF HeldInv, Grants, GrantSound
  <2>4. Runners'
    <3>1. ASSUME NEW s \in Runs, s # r, InFlight(s)' PROVE RunSound(s)'
      <4>1. run'[s] = run[s] /\ InFlight(s) /\ RunSound(s)
        BY <1>9, <3>1 DEF HeldInv, Runners, InFlight
      <4>2. jobs'[run[s].claim.job] = jobs[run[s].claim.job]
        BY <1>9, <2>1, <3>1, <4>1, HolderTypes
      <4>3. QED
        BY <1>9, <4>1, <4>2 DEF RunSound
    <3>2. QED
      BY <1>9, <3>1 DEF Runners
  <2>5. \A s \in Runs, k \in Jobs : Running(s, k)' => Running(s, k)
    BY <1>9 DEF Running, InFlight
  <2>6. OneHolder'
    BY <1>9, <2>5, FewerHolders DEF GrantedTo
  <2>7. InLag' /\ Counted'
    BY <1>9 DEF HeldInv, InLag, Counted, RowCounted
  <2>8. QED
    BY <1>a, <2>3, <2>4, <2>6, <2>7 DEF HeldInv
<1>11. ASSUME NEW r \in Runs, Progress(r) PROVE HeldInv'
  <2>1. /\ InFlight(r) /\ UNCHANGED <<run, pass, claims>> /\ run[r].phase = "live"
        /\ PutSnapshot(r, "running", run[r].claim.runAt, run[r].claim.lease, run[r].worker)
    BY <1>11 DEF Progress, InFlight
  <2>2. RunSound(r) /\ run[r].claim \in Snapshot /\ jobs[run[r].claim.job] \in Job
        /\ (jobs[run[r].claim.job].status = "running" => jobs[run[r].claim.job].leaseUntil # NULL)
    BY <1>a, <2>1, HolderTypes DEF HeldInv, Runners, TypeOK
  <2>3. 0 <= run[r].claim.lease /\ run[r].claim.lease <= LeaseTerm /\ claims[run[r].claim.job] = run[r].claim.attempts
    BY <2>1, <2>2 DEF RunSound, Snapshot, Job
  <2>4. /\ run[r].claim.job \in Jobs /\ (\A k \in Jobs : k = run[r].claim.job => RowCounted(k)')
        /\ \A k \in Jobs : k # run[r].claim.job => jobs'[k] = jobs[k]
        /\ jobs'[run[r].claim.job].status = "running" /\ jobs'[run[r].claim.job].worker = run[r].worker
        /\ jobs'[run[r].claim.job].attempts = run[r].claim.attempts
        /\ jobs'[run[r].claim.job].leaseUntil = run[r].claim.lease
    BY <2>1, PutCounts
  <2>5. RunSound(r)'
    BY <2>1, <2>2, <2>3, <2>4 DEF RunSound, Snapshot
  <2>6. InFlight(r)'
    BY <2>1 DEF InFlight
  <2>7. QED
    BY <2>1, <2>4, <2>5, <2>6, <1>9
<1>12. ASSUME NEW r \in Runs, RunDoneUnanswered(r) PROVE HeldInv'
  <2>1. /\ InFlight(r) /\ UNCHANGED <<pass, claims>> /\ run' = [run EXCEPT ![r].phase = "failing"]
        /\ PutSnapshot(r, "done", run[r].claim.runAt, NULL, run[r].worker)
    BY <1>12 DEF RunDoneUnanswered, InFlight
  <2>2. /\ \A s \in Runs : s # r => run'[s] = run[s]
        /\ run'[r].phase = "failing" /\ run'[r].claim = run[r].claim /\ run'[r].worker = run[r].worker
    BY <1>a, <2>1 DEF TypeOK, Run
  <2>3. claims[run[r].claim.job] = run[r].claim.attempts
    BY <2>1, HeldCount
  <2>4. RunSound(r)'
    BY <2>1, <2>2, <2>3, PutCounts DEF RunSound
  <2>5. QED
    BY <2>1, <2>2, <2>4, <1>9, PutCounts DEF InFlight
<1>13. ASSUME NEW r \in Runs, RunDone(r) PROVE HeldInv'
  <2>1. /\ InFlight(r) /\ UNCHANGED <<pass, claims>> /\ run' = [run EXCEPT ![r] = IdleRun]
        /\ PutSnapshot(r, "done", run[r].claim.runAt, NULL, run[r].worker)
    BY <1>13 DEF RunDone, EndRun, InFlight
  <2>2. run[r].claim.job \in Jobs /\ (\A k \in Jobs : k = run[r].claim.job => RowCounted(k)')
        /\ \A k \in Jobs : k # run[r].claim.job => jobs'[k] = jobs[k]
    BY <2>1, PutCounts
  <2>3. QED
    BY <1>a, <2>1, <2>2, RunQuiet
<1>14. ASSUME NEW r \in Runs, RunFail(r) PROVE HeldInv'
  <2>1. InFlight(r) /\ UNCHANGED <<pass, claims>> /\ run' = [run EXCEPT ![r] = IdleRun]
    BY <1>14 DEF RunFail, EndRun
  <2>2. CASE Again(r)
    <3>1. PutSnapshot(r, "queued", Backoff, NULL, NULL)
      BY <1>14, <2>2 DEF RunFail
    <3>2. run[r].claim.job \in Jobs /\ (\A k \in Jobs : k = run[r].claim.job => RowCounted(k)')
          /\ \A k \in Jobs : k # run[r].claim.job => jobs'[k] = jobs[k]
      BY <2>1, <2>2, <3>1, PutCounts
    <3>3. QED
      BY <1>a, <2>1, <3>2, RunQuiet
  <2>3. CASE ~Again(r)
    <3>1. PutSnapshot(r, "failed", run[r].claim.runAt, NULL, run[r].worker)
      BY <1>14, <2>3 DEF RunFail
    <3>2. run[r].claim.job \in Jobs /\ (\A k \in Jobs : k = run[r].claim.job => RowCounted(k)')
          /\ \A k \in Jobs : k # run[r].claim.job => jobs'[k] = jobs[k]
      BY <2>1, <3>1, PutCounts
    <3>3. QED
      BY <1>a, <2>1, <3>2, RunQuiet
  <2>4. QED
    BY <2>2, <2>3
<1>15. ASSUME NEW r \in Runs, RunUnsaved(r) PROVE HeldInv'
  <2>1. InFlight(r) /\ UNCHANGED <<jobs, pass, claims>> /\ run' = [run EXCEPT ![r] = IdleRun]
    BY <1>15 DEF RunUnsaved, EndRun
  <2>2. \A j \in Jobs : RowCounted(j)'
    BY <2>1 DEF HeldInv, Counted, RowCounted
  <2>3. QED
    BY <1>a, <2>1, <2>2, HolderTypes, RunQuiet
<1>16. ASSUME NEW w \in Workers, Crash(w) PROVE HeldInv'
  <2>1. /\ \A p \in Passes : pass'[p] = IdlePass \/ pass'[p] = pass[p]
        /\ \A r \in Runs : run'[r] = IdleRun \/ run'[r] = run[r]
        /\ UNCHANGED <<jobs, claims>>
    BY <1>16 DEF Crash
  <2>2. InLag'
    BY <1>a, <1>b, <2>1 DEF InLag
  <2>3. Grants'
    BY <2>1, IdleTypes DEF HeldInv, Grants, GrantSound
  <2>4. Runners'
    BY <2>1, IdleTypes DEF HeldInv, Runners, RunSound, InFlight
  <2>5. OneHolder'
    BY <2>1, IdleTypes, FewerHolders DEF GrantedTo, Running, InFlight
  <2>6. Counted'
    BY <2>1 DEF HeldInv, Counted, RowCounted
  <2>7. QED
    BY <1>a, <2>2, <2>3, <2>4, <2>5, <2>6 DEF HeldInv
<1>17. ASSUME Tick PROVE HeldInv'
  <2>1. UNCHANGED claims
    BY <1>17 DEF Tick
  <2>2. ASSUME NEW j \in Jobs, jobs[j].status = "running"
        PROVE  /\ jobs'[j].status = "running" /\ jobs'[j].worker = jobs[j].worker
               /\ jobs'[j].attempts = jobs[j].attempts /\ jobs'[j].leaseUntil = Older(jobs[j].leaseUntil)
    <3>1. jobs'[j] = [jobs[j] EXCEPT !.runAt = Older(@), !.leaseUntil = OlderOrNull(@)]
      BY <1>17, <2>2 DEF Tick
    <3>2. jobs[j] \in Job /\ jobs[j].leaseUntil # NULL
      BY <1>a, <2>2 DEF TypeOK
    <3>3. QED
      BY <2>2, <3>1, <3>2 DEF Job, OlderOrNull
  <2>3. ASSUME NEW j \in Jobs
        PROVE  jobs'[j].status = jobs[j].status /\ jobs'[j].attempts = jobs[j].attempts
    <3>1. jobs'[j] = IF jobs[j].status \in {"none", "pruned"} THEN jobs[j]
                     ELSE [jobs[j] EXCEPT !.runAt = Older(@), !.leaseUntil = OlderOrNull(@)]
      BY <1>17 DEF Tick
    <3>2. jobs[j] \in Job
      BY <1>a DEF TypeOK
    <3>3. QED
      BY <3>1, <3>2 DEF Job
  <2>4. ASSUME NEW t \in Int, -MaxLag < t \/ 0 <= t PROVE Older(t) = t - 1
    BY <2>4 DEF Older, Horizon
  <2>5. ASSUME NEW p \in Passes
        PROVE  /\ pass'[p].phase = pass[p].phase
               /\ pass'[p].now = IF pass[p].phase = "idle" THEN pass[p].now ELSE pass[p].now - 1
               /\ pass'[p].claim = IF pass[p].phase = "idle" THEN pass[p].claim ELSE OlderClaim(pass[p].claim)
               /\ pass[p].phase # "idle" => pass[p].now > -MaxLag
    <3>1. pass[p] \in Pass /\ pass[p].now \in Int
      BY <1>a DEF TypeOK, Pass
    <3>2. /\ pass'[p] = IF pass[p].phase = "idle" THEN pass[p]
                        ELSE [pass[p] EXCEPT !.now = Older(@), !.claim = OlderClaim(@)]
          /\ pass[p].phase # "idle" => pass[p].now > -MaxLag
      BY <1>17 DEF Tick
    <3>3. pass[p].phase # "idle" => Older(pass[p].now) = pass[p].now - 1
      BY <2>4, <3>1, <3>2
    <3>4. QED
      BY <3>1, <3>2, <3>3 DEF Pass
  <2>6. ASSUME NEW r \in Runs
        PROVE  /\ run'[r].phase = run[r].phase /\ run'[r].worker = run[r].worker
               /\ run'[r].claim = OlderClaim(run[r].claim)
    <3>1. run'[r] = [run[r] EXCEPT !.claim = OlderClaim(@)] /\ run[r] \in Run
      BY <1>17, <1>a DEF Tick, TypeOK
    <3>2. QED
      BY <3>1 DEF Run
  <2>7. ASSUME NEW c \in Snapshot
        PROVE  /\ OlderClaim(c).job = c.job /\ OlderClaim(c).attempts = c.attempts
               /\ OlderClaim(c).lease = Older(c.lease)
    BY DEF OlderClaim, Snapshot
  <2>8. InLag'
    <3>1. ASSUME NEW p \in Passes PROVE pass'[p].now \in -MaxLag..0
      BY <1>a, <2>5 DEF InLag
    <3>2. QED
      BY <3>1 DEF InLag
  <2>9. Grants'
    <3> SUFFICES ASSUME NEW p \in Passes, pass'[p].phase = "granted" PROVE GrantSound(p)'
      BY DEF Grants
    <3> DEFINE c == pass[p].claim
               row == jobs[c.job]
    <3>1. pass[p].phase = "granted" /\ c \in Snapshot /\ c.job \in Jobs /\ row \in Job
      BY <2>5, HolderTypes
    <3>2. /\ row.status = "running" /\ row.worker = Host[p] /\ row.attempts = c.attempts
          /\ claims[c.job] = c.attempts /\ row.leaseUntil = pass[p].now + LeaseTerm /\ c.lease = row.leaseUntil
      BY <3>1 DEF HeldInv, Grants, GrantSound
    <3>3. pass[p].now \in Int /\ pass[p].now > -MaxLag /\ pass'[p].now = pass[p].now - 1
      BY <1>a, <2>5, <3>1 DEF InLag
    <3>4. Older(c.lease) = pass[p].now - 1 + LeaseTerm
      <4>1. c.lease \in Int /\ 0 <= c.lease
        BY <3>2, <3>3 DEF Timely
      <4>2. QED
        BY <2>4, <3>2, <3>3, <4>1
    <3>5. pass'[p].claim.job = c.job /\ pass'[p].claim.attempts = c.attempts /\ pass'[p].claim.lease = Older(c.lease)
      BY <2>5, <2>7, <3>1
    <3>6. QED
      BY <2>1, <2>2, <3>1, <3>2, <3>3, <3>4, <3>5 DEF GrantSound
  <2>10. Runners'
    <3> SUFFICES ASSUME NEW r \in Runs, InFlight(r)' PROVE RunSound(r)'
      BY DEF Runners
    <3> DEFINE c == run[r].claim
               row == jobs[c.job]
    <3>1. InFlight(r) /\ c \in Snapshot /\ c.job \in Jobs /\ row \in Job
      BY <2>6, HolderTypes DEF InFlight
    <3>2. run'[r].claim.job = c.job /\ run'[r].claim.attempts = c.attempts /\ run'[r].claim.lease = Older(c.lease)
      BY <2>6, <2>7, <3>1
    <3>3. RunSound(r)
      BY <3>1 DEF HeldInv, Runners
    <3>4. CASE row.status = "running"
      <4>1. /\ row.worker = run[r].worker /\ row.attempts = c.attempts /\ claims[c.job] = c.attempts
            /\ row.leaseUntil <= c.lease /\ c.lease <= LeaseTerm
        BY <3>3, <3>4 DEF RunSound
      <4>2. row.leaseUntil > 0
        <5>1. Owns(r)
          BY <3>1, <3>4, <4>1 DEF Owns
        <5>2. QED
          BY <1>17, <5>1 DEF Tick, Timely
      <4>3. row.leaseUntil \in Int /\ c.lease \in Int
        BY <1>a, <3>1, <3>4 DEF TypeOK, Job, Snapshot
      <4>4. Older(row.leaseUntil) = row.leaseUntil - 1 /\ Older(c.lease) = c.lease - 1
        BY <2>4, <4>1, <4>2, <4>3
      <4>5. /\ jobs'[c.job].status = "running" /\ jobs'[c.job].worker = row.worker
            /\ jobs'[c.job].attempts = row.attempts /\ jobs'[c.job].leaseUntil = row.leaseUntil - 1
        BY <2>2, <3>1, <3>4, <4>4
      <4>6. QED
        BY <2>1, <2>6, <3>2, <4>1, <4>2, <4>3, <4>4, <4>5 DEF RunSound
    <3>5. CASE row.status # "running"
      BY <2>1, <2>3, <2>6, <3>1, <3>2, <3>3, <3>5 DEF RunSound
    <3>6. QED
      BY <3>4, <3>5
  <2>11. OneHolder'
    <3>1. \A p \in Passes, j \in Jobs : GrantedTo(p, j)' => GrantedTo(p, j)
      BY <2>5, <2>7, HolderTypes DEF GrantedTo
    <3>2. \A r \in Runs, j \in Jobs : Running(r, j)' => Running(r, j)
      BY <2>6, <2>7, HolderTypes DEF Running, InFlight
    <3>3. QED
      BY <3>1, <3>2, FewerHolders
  <2>12. Counted'
    BY <2>1, <2>3 DEF HeldInv, Counted, RowCounted
  <2>13. QED
    BY <1>a, <2>8, <2>9, <2>10, <2>11, <2>12 DEF HeldInv
<1>18. CASE UNCHANGED vars
  BY <1>18 DEF vars, HeldInv, TypeOK, InLag, Grants, GrantSound, Runners, RunSound, InFlight, OneHolder, GrantedTo,
     Running, Counted, RowCounted
<1>19. ASSUME NEW p \in Passes, PassStep(p) PROVE HeldInv'
  BY <1>2, <1>4, <1>5, <1>6, <1>7, <1>19 DEF PassStep
<1>20. QED
  BY <1>1, <1>2, <1>3, <1>5, <1>8, <1>11, <1>12, <1>13, <1>14, <1>15, <1>16, <1>17, <1>18, <1>19 DEF Next, RunEnds

LEMMA HeldStart == Init => HeldInv
<1> SUFFICES ASSUME Init PROVE HeldInv
  OBVIOUS
<1> USE JobQueueAssumption, NullAssumption DEF Init, IdlePass, IdleRun, NoRow
<1>1. TypeOK
  BY IdleTypes DEF TypeOK
<1>2. InLag /\ Counted
  BY DEF InLag, Counted, RowCounted
<1>3. Grants /\ Runners /\ OneHolder
  BY DEF Grants, Runners, OneHolder, GrantedTo, Running, InFlight
<1>4. QED
  BY <1>1, <1>2, <1>3 DEF HeldInv

LEMMA HeldAlways ==
  ASSUME Timely
  PROVE  Spec => []HeldInv
BY HeldStart, HeldStep, PTL DEF Spec

(* Where heartbeats arrive in time and no pass outlasts a lease, the row's `attempts` is *)
(* the number of times the job was claimed, never more than the record's maxAttempts,    *)
(* in every execution: no run writes an older count over a newer one.                    *)
THEOREM AttemptsCountClaimsHolds ==
  ASSUME Timely
  PROVE  Spec => []AttemptsCountClaims
<1>1. HeldInv => AttemptsCountClaims
  BY DEF HeldInv, Counted, RowCounted, AttemptsCountClaims
<1>2. QED
  BY <1>1, HeldAlways, PTL

LEMMA LostStays ==
  ASSUME Timely, HeldInv, [Next]_vars, NEW j \in Jobs, jobs[j].status = "lost"
  PROVE  jobs'[j].status \in {"lost", "pruned"}
<1> DEFINE Stays == jobs'[j].status \in {"lost", "pruned"}
<1>1. \A r \in Runs : InFlight(r) => run[r].claim.job # j
  BY HolderTypes
<1>2. ASSUME NEW r \in Runs, InFlight(r), NEW s, NEW at, NEW l, NEW w, PutSnapshot(r, s, at, l, w) PROVE Stays
  BY <1>1, <1>2 DEF PutSnapshot
<1>3. CASE jobs'[j] = jobs[j]
  BY <1>3
<1>4. ASSUME NEW k \in Jobs, Enqueue(k) PROVE Stays
  BY <1>4 DEF Enqueue
<1>5. ASSUME NEW p \in Passes, PassPrune(p) PROVE Stays
  <2>1. jobs'[j] = NoRow("pruned") \/ jobs'[j] = jobs[j]
    BY <1>5 DEF PassPrune
  <2>2. QED
    BY <2>1, <1>3 DEF NoRow
<1>6. ASSUME NEW p \in Passes, PassReclaim(p) PROVE Stays
  BY <1>6 DEF PassReclaim, Expired
<1>7. ASSUME NEW p \in Passes, NEW k \in Jobs, PassClaim(p, k) PROVE Stays
  <2>1. k # j
    BY <1>7 DEF PassClaim, Due
  <2>2. jobs'[j] = jobs[j]
    BY <1>7, <2>1 DEF PassClaim, HeldInv, TypeOK
  <2>3. QED
    BY <1>3, <2>2
<1>8. ASSUME NEW r \in Runs, NEW ok \in BOOLEAN, Heartbeat(r, ok) PROVE Stays
  BY <1>1, <1>8 DEF Heartbeat
<1>9. ASSUME NEW r \in Runs, RunEnds(r) \/ Progress(r) \/ RunDoneUnanswered(r) PROVE Stays
  BY <1>2, <1>9 DEF RunEnds, RunDone, RunFail, Progress, RunDoneUnanswered, InFlight
<1>10. ASSUME Tick PROVE Stays
  <2>1. jobs[j] \in Job
    BY DEF HeldInv, TypeOK
  <2>2. jobs'[j] = [jobs[j] EXCEPT !.runAt = Older(@), !.leaseUntil = OlderOrNull(@)]
    BY <1>10 DEF Tick
  <2>3. QED
    BY <2>1, <2>2 DEF Job
<1>11. ASSUME NEW p \in Passes,
              \/ PassStart(p) \/ PassFindsNothing(p) \/ PassAborts(p)
              \/ \E k \in Jobs, ok \in BOOLEAN : PassTellLost(p, k, ok)
              \/ \E r \in Runs : PassBegin(p, r)
       PROVE  Stays
  BY <1>3, <1>11 DEF PassStart, PassFindsNothing, PassAborts, PassTellLost, PassBegin
<1>12. ASSUME \/ \E r \in Runs : RunUnsaved(r)
              \/ \E w \in Workers : Crash(w)
              \/ UNCHANGED vars
       PROVE  Stays
  BY <1>3, <1>12 DEF RunUnsaved, Crash, vars
<1>13. ASSUME NEW p \in Passes, PassStep(p) PROVE Stays
  BY <1>6, <1>7, <1>11, <1>13 DEF PassStep
<1>14. QED
  BY <1>4, <1>5, <1>8, <1>9, <1>10, <1>11, <1>12, <1>13 DEF Next

(* Where heartbeats arrive in time and no pass outlasts a lease, a job marked lost is lost *)
(* for good, in every execution: every write of a run's snapshot is the write of a run     *)
(* that still holds the row, and a row that is held is not taken back.                     *)
THEOREM LostForGoodHolds ==
  ASSUME Timely
  PROVE  Spec => LostForGood
<1>1. HeldInv /\ [Next]_vars => [\A j \in Jobs : jobs[j].status = "lost" => jobs'[j].status \in {"lost", "pruned"}]_vars
  BY LostStays
<1>2. QED
  BY <1>1, HeldAlways, PTL DEF Spec, LostForGood

-----------------------------------------------------------------------------
(* The slots of a process.  `running` holds the ids of the jobs its runs have, so that with *)
(* one run per job the number of its runs is the number of ids.                             *)

(* Steps that start and end no run, and give no pass a job it has no slot for. *)
LEMMA SlotsQuiet ==
  ASSUME SlotsInv, UNCHANGED running,
         \A r \in Runs : InFlight(r)' <=> InFlight(r),
         \A r \in Runs : InFlight(r) => run'[r].worker = run[r].worker /\ run'[r].claim.job = run[r].claim.job,
         \A p \in Passes : pass'[p].phase \in {"asking", "granted"} =>
           pass[p].phase \in {"asking", "granted"} \/ Cardinality(running[Host[p]]) < Concurrency
  PROVE  SlotsInv'
<1>1. ASSUME NEW w \in Workers
      PROVE  {run'[r].claim.job : r \in RunsOf(w)'} = {run[r].claim.job : r \in RunsOf(w)}
  <2>1. RunsOf(w)' = RunsOf(w)
    BY DEF RunsOf
  <2>2. \A r \in RunsOf(w) : run'[r].claim.job = run[r].claim.job
    BY DEF RunsOf
  <2>3. QED
    BY <2>1, <2>2
<1>2. QED
  BY <1>1 DEF SlotsInv

(* A run that ends gives its slot back, and only its own. *)
LEMMA SlotsEnd ==
  ASSUME HeldInv, SlotsInv, NEW r \in Runs, InFlight(r), EndRun(r), UNCHANGED pass
  PROVE  SlotsInv'
<1> DEFINE w == run[r].worker
           j == run[r].claim.job
<1>1. w \in Workers /\ j \in Jobs
  BY HolderTypes
<1>2. \A s \in Runs : run'[s] = IF s = r THEN IdleRun ELSE run[s]
  BY DEF EndRun, HeldInv, TypeOK
<1>3. ASSUME NEW v \in Workers PROVE running'[v] = IF v = w THEN running[v] \ {j} ELSE running[v]
  BY <1>1 DEF EndRun, HeldInv, TypeOK
<1>4. ASSUME NEW v \in Workers
      PROVE  {run'[s].claim.job : s \in RunsOf(v)'} = {run[s].claim.job : s \in RunsOf(v) \ {r}}
  <2>1. RunsOf(v)' = RunsOf(v) \ {r}
    BY <1>2 DEF RunsOf, InFlight, IdleRun
  <2>2. \A s \in RunsOf(v) \ {r} : run'[s] = run[s]
    BY <1>2 DEF RunsOf
  <2>3. QED
    BY <2>1, <2>2
<1>5. ASSUME NEW v \in Workers
      PROVE  /\ running'[v] = {run'[s].claim.job : s \in RunsOf(v)'}
             /\ IsFiniteSet(running'[v]) /\ Cardinality(running'[v]) <= Cardinality(running[v])
             /\ Cardinality(running[v]) \in Nat
  <2>1. running[v] = {run[s].claim.job : s \in RunsOf(v)} /\ IsFiniteSet(running[v])
    BY DEF SlotsInv
  <2>2. IsFiniteSet(running'[v]) /\ Cardinality(running'[v]) <= Cardinality(running[v]) /\ Cardinality(running[v]) \in Nat
    <3>1. Cardinality(running[v]) \in Nat
      BY <2>1, FS_CardinalityType
    <3>2. /\ IsFiniteSet(running[v] \ {j})
          /\ Cardinality(running[v] \ {j}) = IF j \in running[v] THEN Cardinality(running[v]) - 1 ELSE Cardinality(running[v])
      BY <2>1, FS_RemoveElement
    <3> HIDE DEF j
    <3>3. Cardinality(running[v] \ {j}) <= Cardinality(running[v])
      BY <3>1, <3>2
    <3>4. QED
      <4>1. running'[v] = running[v] \ {j} \/ running'[v] = running[v]
        BY <1>3
      <4>2. CASE running'[v] = running[v] \ {j}
        BY <3>1, <3>2, <3>3, <4>2
      <4>3. CASE running'[v] = running[v]
        BY <2>1, <3>1, <4>3
      <4>4. QED
        BY <4>1, <4>2, <4>3
  <2>3. running'[v] = {run[s].claim.job : s \in RunsOf(v) \ {r}}
    <3>1. \A s \in Runs : InFlight(s) /\ run[s].claim.job = j => s = r
      BY <1>1 DEF HeldInv, OneHolder, Running
    <3>2. CASE v = w
      <4>1. \A s \in RunsOf(v) : run[s].claim.job = j <=> s = r
        BY <3>1 DEF RunsOf
      <4> HIDE DEF j
      <4>2. QED
        <5>1. running'[v] = running[v] \ {j}
          BY <1>3, <3>2
        <5> HIDE DEF w
        <5>2. QED
          BY <2>1, <4>1, <5>1
    <3>3. CASE v # w
      <4>1. r \notin RunsOf(v)
        BY <3>3 DEF RunsOf
      <4>2. QED
        BY <1>3, <2>1, <3>3, <4>1
    <3>4. QED
      BY <3>2, <3>3
  <2>4. QED
    BY <1>4, <2>2, <2>3
<1>6. QED
  <2>1. Concurrency \in Nat /\ \A p \in Passes : Host[p] \in Workers
    BY JobQueueAssumption
  <2>2. \A v \in Workers : Cardinality(running'[v]) \in Nat
    BY <1>5, FS_CardinalityType
  <2>3. QED
    BY <1>5, <2>1, <2>2 DEF SlotsInv

(* The pass that begins a run had a slot for it, and no other pass of its process has one. *)
LEMMA SlotsBegin ==
  ASSUME HeldInv, SlotsInv, OneAtATime, NEW p \in Passes, NEW r \in Runs, PassBegin(p, r)
  PROVE  SlotsInv'
<1> DEFINE w == Host[p]
           j == pass[p].claim.job
           slots == running[w] \cup {j}
<1>1. w \in Workers /\ Concurrency \in Nat /\ \A q \in Passes : Host[q] \in Workers
  BY JobQueueAssumption
<1>2. /\ pass[p].phase = "granted" /\ ~InFlight(r)
      /\ run'[r].phase = "live" /\ run'[r].worker = w /\ run'[r].claim.job = j
      /\ \A s \in Runs : s # r => run'[s] = run[s]
  BY DEF PassBegin, HeldInv, TypeOK
<1>3. \A v \in Workers : running'[v] = IF v = w THEN slots ELSE running[v]
  BY <1>1 DEF PassBegin, HeldInv, TypeOK
<1>4. pass'[p] = Looping(p, slots) /\ \A q \in Passes : q # p => pass'[q] = pass[q]
  BY DEF PassBegin, HeldInv, TypeOK
<1>5. /\ IsFiniteSet(running[w]) /\ Cardinality(running[w]) \in Nat
      /\ IsFiniteSet(slots) /\ Cardinality(slots) \in Nat /\ Cardinality(slots) <= Cardinality(running[w]) + 1
      /\ Cardinality(running[w]) < Concurrency
  <2>1. IsFiniteSet(running[w]) /\ Cardinality(running[w]) < Concurrency
    BY <1>1, <1>2 DEF SlotsInv
  <2>2. /\ IsFiniteSet(slots)
        /\ Cardinality(slots) = IF j \in running[w] THEN Cardinality(running[w]) ELSE Cardinality(running[w]) + 1
    BY <2>1, FS_AddElement
  <2>3. Cardinality(running[w]) \in Nat /\ Cardinality(slots) \in Nat
    BY <2>1, <2>2, FS_CardinalityType
  <2> HIDE DEF slots, j, w
  <2>4. QED
    BY <2>1, <2>2, <2>3
<1> HIDE DEF slots
<1>6. ASSUME NEW v \in Workers
      PROVE  /\ running'[v] = {run'[s].claim.job : s \in RunsOf(v)'}
             /\ IsFiniteSet(running'[v]) /\ Cardinality(running'[v]) <= Concurrency
  <2>1. running[v] = {run[s].claim.job : s \in RunsOf(v)}
    BY DEF SlotsInv
  <2>2. CASE v = w
    <3>1. RunsOf(w)' = RunsOf(w) \cup {r} /\ r \notin RunsOf(w)
      BY <1>2 DEF RunsOf, InFlight
    <3>2. \A s \in RunsOf(w) : run'[s] = run[s]
      BY <1>2, <3>1 DEF RunsOf
    <3>3. {run'[s].claim.job : s \in RunsOf(w)'} = {run[s].claim.job : s \in RunsOf(w)} \cup {j}
      <4> HIDE DEF j, w
      <4>1. run'[r].claim.job = j
        BY <1>2
      <4>2. QED
        BY <3>1, <3>2, <4>1
    <3>4. QED
      <4>1. running'[w] = running[w] \cup {j} /\ running[w] = {run[s].claim.job : s \in RunsOf(w)}
        BY <1>1, <1>3, <2>1, <2>2 DEF slots
      <4>2. IsFiniteSet(running'[w]) /\ Cardinality(running'[w]) <= Concurrency
        BY <1>1, <1>3, <1>5
      <4>3. running'[w] = {run'[s].claim.job : s \in RunsOf(w)'}
        BY <3>3, <4>1
      <4>4. QED
        BY <2>2, <4>2, <4>3
  <2>3. CASE v # w
    <3>1. RunsOf(v)' = RunsOf(v) /\ \A s \in RunsOf(v) : run'[s] = run[s]
      BY <1>2, <2>3 DEF RunsOf, InFlight
    <3>2. {run'[s].claim.job : s \in RunsOf(v)'} = {run[s].claim.job : s \in RunsOf(v)}
      BY <3>1
    <3>3. QED
      BY <1>3, <2>1, <2>3, <3>2 DEF SlotsInv
  <2>4. QED
    BY <2>2, <2>3
<1>7. ASSUME NEW q \in Passes, pass'[q].phase \in {"asking", "granted"}
      PROVE  Cardinality(running'[Host[q]]) < Concurrency
  <2>1. CASE q = p
    BY <1>1, <1>3, <1>4, <1>7, <2>1 DEF Looping, IdlePass
  <2>2. CASE q # p
    BY <1>1, <1>3, <1>4, <1>7, <2>2 DEF OneAtATime, SlotsInv
  <2>3. QED
    BY <2>1, <2>2
<1>8. QED
  BY <1>6, <1>7 DEF SlotsInv

(* A process that dies has neither runs nor slots; the others keep theirs. *)
LEMMA SlotsCrash ==
  ASSUME HeldInv, SlotsInv, NEW w \in Workers, Crash(w)
  PROVE  SlotsInv'
<1>1. \A v \in Workers : running'[v] = IF v = w THEN {} ELSE running[v]
  BY DEF Crash, HeldInv, TypeOK
<1>2. \A r \in Runs : run'[r] = IF run[r].worker = w THEN IdleRun ELSE run[r]
  BY DEF Crash
<1>3. \A p \in Passes : pass'[p] = IF Host[p] = w THEN IdlePass ELSE pass[p]
  BY DEF Crash
<1>4. Concurrency \in Nat /\ \A q \in Passes : Host[q] \in Workers
  BY JobQueueAssumption
<1>5. ASSUME NEW v \in Workers
      PROVE  /\ running'[v] = {run'[s].claim.job : s \in RunsOf(v)'}
             /\ IsFiniteSet(running'[v]) /\ Cardinality(running'[v]) <= Concurrency
  <2>1. CASE v = w
    <3>1. RunsOf(v)' = {}
      BY <1>2, <2>1, NullAssumption DEF RunsOf, InFlight, IdleRun
    <3>2. QED
      BY <1>1, <1>4, <2>1, <3>1, FS_EmptySet
  <2>2. CASE v # w
    <3>1. RunsOf(v)' = RunsOf(v) /\ \A s \in RunsOf(v) : run'[s] = run[s]
      BY <1>2, <2>2, NullAssumption DEF RunsOf, InFlight, IdleRun
    <3>2. {run'[s].claim.job : s \in RunsOf(v)'} = {run[s].claim.job : s \in RunsOf(v)}
      BY <3>1
    <3>3. QED
      BY <1>1, <2>2, <3>2 DEF SlotsInv
  <2>3. QED
    BY <2>1, <2>2
<1>6. ASSUME NEW q \in Passes, pass'[q].phase \in {"asking", "granted"}
      PROVE  Cardinality(running'[Host[q]]) < Concurrency
  BY <1>1, <1>3, <1>4, <1>6 DEF SlotsInv, IdlePass
<1>7. QED
  BY <1>5, <1>6 DEF SlotsInv

LEMMA SlotsStep == OneAtATime /\ HeldInv /\ SlotsInv /\ [Next]_vars => SlotsInv'
<1> SUFFICES ASSUME OneAtATime, HeldInv, SlotsInv, [Next]_vars PROVE SlotsInv'
  OBVIOUS
<1> USE JobQueueAssumption, NullAssumption
<1>a. TypeOK
  BY DEF HeldInv
<1>1. ASSUME NEW p \in Passes, NEW lost
      PROVE  TellingLost(p, lost).phase \in {"asking", "granted"} /\ pass[p].phase \notin {"asking", "granted"} =>
               Cardinality(running[Host[p]]) < Concurrency
  BY DEF TellingLost, Looping, IdlePass
<1>2. ASSUME UNCHANGED <<running, run>>, NEW p \in Passes, NEW d, pass' = [pass EXCEPT ![p] = d],
             d.phase \in {"asking", "granted"} =>
               pass[p].phase \in {"asking", "granted"} \/ Cardinality(running[Host[p]]) < Concurrency
      PROVE  SlotsInv'
  <2>1. \A q \in Passes : pass'[q] = IF q = p THEN d ELSE pass[q]
    BY <1>a, <1>2 DEF TypeOK
  <2>2. QED
    BY <1>2, <2>1, SlotsQuiet DEF InFlight
<1>3. ASSUME UNCHANGED <<running, run, pass>> PROVE SlotsInv'
  BY <1>3, SlotsQuiet DEF InFlight
<1>4. ASSUME NEW p \in Passes, PassStart(p) \/ PassFindsNothing(p) \/ PassAborts(p) PROVE SlotsInv'
  <2>1. \E d \in {IdlePass, [IdlePass EXCEPT !.phase = "reclaim"]} : pass' = [pass EXCEPT ![p] = d]
    BY <1>4 DEF PassStart, PassFindsNothing, PassAborts
  <2>2. \A d \in {IdlePass, [IdlePass EXCEPT !.phase = "reclaim"]} : d.phase \notin {"asking", "granted"}
    BY DEF IdlePass
  <2>3. UNCHANGED <<running, run>>
    BY <1>4 DEF PassStart, PassFindsNothing, PassAborts
  <2>4. QED
    BY <1>2, <2>1, <2>2, <2>3
<1>5. ASSUME NEW p \in Passes, PassReclaim(p) PROVE SlotsInv'
  BY <1>1, <1>2, <1>5 DEF PassReclaim
<1>6. ASSUME NEW p \in Passes, NEW k \in Jobs, NEW ok \in BOOLEAN, PassTellLost(p, k, ok) PROVE SlotsInv'
  BY <1>1, <1>2, <1>6 DEF PassTellLost
<1>7. ASSUME NEW p \in Passes, NEW k \in Jobs, PassClaim(p, k) PROVE SlotsInv'
  <2>1. pass[p].phase = "asking" /\ UNCHANGED <<running, run>>
    BY <1>7 DEF PassClaim
  <2>2. ASSUME NEW q \in Passes, q # p PROVE pass'[q] = pass[q]
    BY <1>7, <1>a, <2>2 DEF PassClaim, TypeOK
  <2>3. QED
    BY <2>1, <2>2, SlotsQuiet DEF InFlight
<1>8. ASSUME NEW r \in Runs, NEW ok \in BOOLEAN, Heartbeat(r, ok) PROVE SlotsInv'
  <2>1. /\ UNCHANGED <<running, pass>> /\ InFlight(r) /\ run[r].claim \in Snapshot
        /\ run' = [run EXCEPT ![r].claim = [run[r].claim EXCEPT !.lease = LeaseTerm]]
    BY <1>8, HolderTypes DEF Heartbeat
  <2>2. /\ run'[r].phase = run[r].phase /\ run'[r].worker = run[r].worker /\ run'[r].claim.job = run[r].claim.job
        /\ \A s \in Runs : s # r => run'[s] = run[s]
    BY <1>a, <2>1 DEF TypeOK, Run, Snapshot
  <2>3. QED
    BY <2>1, <2>2, SlotsQuiet DEF InFlight
<1>9. ASSUME NEW r \in Runs, RunDoneUnanswered(r) PROVE SlotsInv'
  <2>1. UNCHANGED <<running, pass>> /\ InFlight(r) /\ run' = [run EXCEPT ![r].phase = "failing"]
    BY <1>9 DEF RunDoneUnanswered, InFlight
  <2>2. /\ run'[r].phase = "failing" /\ run'[r].worker = run[r].worker /\ run'[r].claim = run[r].claim
        /\ \A s \in Runs : s # r => run'[s] = run[s]
    BY <1>a, <2>1 DEF TypeOK, Run
  <2>3. QED
    BY <2>1, <2>2, SlotsQuiet DEF InFlight
<1>10. ASSUME NEW r \in Runs, RunEnds(r) \/ RunUnsaved(r) PROVE SlotsInv'
  BY <1>10, SlotsEnd DEF RunEnds, RunDone, RunFail, RunUnsaved, InFlight
<1>11. ASSUME Tick PROVE SlotsInv'
  <2>1. ASSUME NEW p \in Passes PROVE pass'[p].phase = pass[p].phase
    <3>1. pass[p] \in Pass
      BY <1>a DEF TypeOK
    <3>2. pass'[p] = IF pass[p].phase = "idle" THEN pass[p]
                     ELSE [pass[p] EXCEPT !.now = Older(@), !.claim = OlderClaim(@)]
      BY <1>11 DEF Tick
    <3>3. QED
      BY <3>1, <3>2 DEF Pass
  <2>2. ASSUME NEW r \in Runs
        PROVE  /\ run'[r].phase = run[r].phase /\ run'[r].worker = run[r].worker
               /\ run'[r].claim = OlderClaim(run[r].claim)
    <3>1. run'[r] = [run[r] EXCEPT !.claim = OlderClaim(@)] /\ run[r] \in Run
      BY <1>11, <1>a DEF Tick, TypeOK
    <3>2. QED
      BY <3>1 DEF Run
  <2>3. \A c \in Snapshot : OlderClaim(c).job = c.job
    BY DEF OlderClaim, Snapshot
  <2>4. UNCHANGED running
    BY <1>11 DEF Tick
  <2>5. QED
    BY <2>1, <2>2, <2>3, <2>4, HolderTypes, SlotsQuiet DEF InFlight
<1>12. ASSUME \/ \E j \in Jobs : Enqueue(j)
              \/ \E p \in Passes : PassPrune(p)
              \/ \E r \in Runs : Progress(r)
              \/ UNCHANGED vars
       PROVE  SlotsInv'
  BY <1>3, <1>12 DEF Enqueue, PassPrune, Progress, vars
<1>13. ASSUME NEW p \in Passes, PassStep(p) PROVE SlotsInv'
  BY <1>4, <1>5, <1>6, <1>7, <1>13, SlotsBegin DEF PassStep
<1>14. QED
  BY <1>4, <1>6, <1>8, <1>9, <1>10, <1>11, <1>12, <1>13, SlotsCrash DEF Next

LEMMA SlotsStart == Init => SlotsInv
<1> SUFFICES ASSUME Init PROVE SlotsInv
  OBVIOUS
<1>1. \A w \in Workers : running[w] = {} /\ RunsOf(w) = {}
  BY DEF Init, RunsOf, InFlight, IdleRun
<1>2. \A p \in Passes : pass[p].phase = "idle"
  BY DEF Init, IdlePass
<1>3. QED
  <2>1. ASSUME NEW w \in Workers PROVE running[w] = {run[r].claim.job : r \in RunsOf(w)}
    BY <1>1
  <2>2. Cardinality({}) = 0 /\ IsFiniteSet({}) /\ Concurrency \in Nat
    BY FS_EmptySet, JobQueueAssumption
  <2>3. QED
    BY <1>1, <1>2, <2>1, <2>2, SMTT(30) DEF SlotsInv

LEMMA SlotsHeld ==
  ASSUME HeldInv, SlotsInv
  PROVE  RunsInBounds
<1>1. OneRunPerJob
  BY DEF HeldInv, OneHolder, OneRunPerJob
<1>2. ASSUME NEW w \in Workers PROVE Cardinality(RunsOf(w)) <= Concurrency
  <2> DEFINE f == [r \in RunsOf(w) |-> run[r].claim.job]
  <2>1. \A r \in RunsOf(w) : run[r].claim.job \in Jobs
    BY HolderTypes DEF RunsOf
  <2>2. running[w] = {run[r].claim.job : r \in RunsOf(w)} /\ IsFiniteSet(running[w])
    BY DEF SlotsInv
  <2>3. \A r, s \in RunsOf(w) : run[r].claim.job = run[s].claim.job => r = s
    BY <1>1, <2>1 DEF OneRunPerJob, RunsOf, Running
  <2>4. f \in [RunsOf(w) -> running[w]]
    BY <2>2
  <2>5. f \in Injection(RunsOf(w), running[w])
    BY <2>3, <2>4 DEF Injection, IsInjective
  <2>6. Cardinality(RunsOf(w)) <= Cardinality(running[w]) /\ IsFiniteSet(RunsOf(w))
    BY <2>2, <2>5, FS_Injection
  <2>7. Cardinality(running[w]) <= Concurrency
    BY DEF SlotsInv
  <2>8. QED
    BY <2>2, <2>6, <2>7, JobQueueAssumption, FS_CardinalityType
<1>3. QED
  BY <1>1, <1>2 DEF RunsInBounds, SlotsRespected, RunsOf

(* Where heartbeats arrive in time, no pass outlasts a lease and a process has one pass open *)
(* at a time, no job has two runs and no process more runs than JOBS_CONCURRENCY, in every   *)
(* execution.  (With two passes open, each may see the last free slot: the timer that starts *)
(* them does not wait.)                                                                      *)
THEOREM RunsInBoundsHolds ==
  ASSUME Timely, OneAtATime
  PROVE  Spec => []RunsInBounds
<1>1. HeldInv /\ SlotsInv => RunsInBounds
  BY SlotsHeld
<1>2. Init => HeldInv /\ SlotsInv
  BY HeldStart, SlotsStart
<1>3. HeldInv /\ SlotsInv /\ [Next]_vars => (HeldInv /\ SlotsInv)'
  BY HeldStep, SlotsStep
<1>4. QED
  BY <1>1, <1>2, <1>3, PTL DEF Spec
=============================================================================
