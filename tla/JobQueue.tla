------------------------------ MODULE JobQueue ------------------------------
(***************************************************************************)
(* The job queue and its workers: the `jobs` table of the server store,    *)
(* the worker loop of every process (`workerPass`, started by a timer that *)
(* does not wait for the pass before it) and the `runOne` calls the loop   *)
(* starts.  A pass is cut at every await: each call to the store is a step *)
(* of its own and anything may happen between two of them.                 *)
(*                                                                         *)
(* Instants are kept relative to the present.  The present is 0, a lease   *)
(* taken now ends at LeaseTerm, and Tick moves every stored instant one    *)
(* unit into the past; instants older than Horizon are not told apart.     *)
(* Every comparison is then the code's own, and time has no bound.         *)
(***************************************************************************)
EXTENDS Integers, FiniteSets

CONSTANTS
  Jobs,         \* job identifiers (randomUUID: never minted twice)
  MaxAttempts,  \* Jobs -> 1.., the record's maxAttempts
  Reporting,    \* the jobs whose handler writes progress (kind `seed`)
  Workers,      \* worker processes, by the name they lease under
  Passes,       \* workerPass calls that can be open at the same time
  Host,         \* Passes -> Workers, the process a pass belongs to
  Runs,         \* runOne calls that can be in flight at the same time
  Concurrency,  \* JOBS_CONCURRENCY
  LeaseTerm,    \* JOBS_LEASE_MS
  Backoff,      \* RETRY_BACKOFF_MS
  Retention,    \* JOBS_RETENTION_DAYS; 0 keeps everything
  MaxLag,       \* bound: how long a pass can take
  Prompt,       \* TRUE: heartbeats reach the store before the lease lapses
  MaxFaults,    \* bound: crashes and calls the store refuses
  NULL

ASSUME JobQueueAssumption ==
  /\ MaxAttempts \in [Jobs -> Nat \ {0}]
  /\ Reporting \subseteq Jobs
  /\ Host \in [Passes -> Workers]
  /\ Concurrency \in Nat \ {0} /\ LeaseTerm \in Nat \ {0}
  /\ Backoff \in Nat /\ Retention \in Nat /\ MaxLag \in Nat /\ MaxFaults \in Nat
  /\ Prompt \in BOOLEAN

VARIABLES
  jobs,     \* the table: one row per id ("none": not minted, "pruned": row deleted)
  running,  \* per process, the `running` set of job ids its loop counts slots by
  pass,     \* the open workerPass calls
  run,      \* the runOne calls in flight
  claims,   \* history: how often a job was claimed, saturated past MaxAttempts
  told,     \* the jobs whose lost handler has run
  faults    \* crashes and refused calls so far

vars == <<jobs, running, pass, run, claims, told, faults>>

-----------------------------------------------------------------------------
(* Records. *)

Settled == {"done", "failed", "lost"}

Job == [status: {"none", "queued", "running", "pruned"} \cup Settled,
        attempts: Nat, runAt: Int, leaseUntil: Int \cup {NULL}, worker: Workers \cup {NULL}]

(* What claimJob returns and runOne keeps: the row as it was at the claim. *)
Snapshot == [job: Jobs, attempts: Nat, runAt: Int, lease: Int]

ASSUME NullAssumption == NULL \notin Workers /\ NULL \notin Int /\ NULL \notin Snapshot

Pass == [phase: {"idle", "reclaim", "lost", "asking", "granted"},
         now: Int, lost: SUBSET Jobs, claim: Snapshot \cup {NULL}]

Run == [phase: {"idle", "live", "failing"}, worker: Workers \cup {NULL}, claim: Snapshot \cup {NULL}]

TypeOK ==
  /\ jobs \in [Jobs -> Job]
  /\ running \in [Workers -> SUBSET Jobs]
  /\ pass \in [Passes -> Pass]
  /\ run \in [Runs -> Run]
  /\ \A p \in Passes : pass[p].phase = "granted" <=> pass[p].claim # NULL
  /\ \A r \in Runs : run[r].phase # "idle" => run[r].claim # NULL /\ run[r].worker # NULL
  /\ \A j \in Jobs : jobs[j].status = "running" => jobs[j].leaseUntil # NULL
  /\ claims \in [Jobs -> Nat]
  /\ told \subseteq Jobs
  /\ faults \in Nat

IdlePass == [phase |-> "idle", now |-> 0, lost |-> {}, claim |-> NULL]
IdleRun == [phase |-> "idle", worker |-> NULL, claim |-> NULL]
NoRow(status) == [status |-> status, attempts |-> 0, runAt |-> 0, leaseUntil |-> NULL, worker |-> NULL]

InFlight(r) == run[r].phase # "idle"
Running(r, j) == InFlight(r) /\ run[r].claim.job = j
GrantedTo(p, j) == pass[p].phase = "granted" /\ pass[p].claim.job = j

Init ==
  /\ jobs = [j \in Jobs |-> NoRow("none")]
  /\ running = [w \in Workers |-> {}]
  /\ pass = [p \in Passes |-> IdlePass]
  /\ run = [r \in Runs |-> IdleRun]
  /\ claims = [j \in Jobs |-> 0]
  /\ told = {}
  /\ faults = 0

-----------------------------------------------------------------------------
(* The studio's side: enqueueJob. *)

Enqueue(j) ==
  /\ jobs[j].status = "none"
  /\ jobs' = [jobs EXCEPT ![j] = NoRow("queued")]
  /\ UNCHANGED <<running, pass, run, claims, told, faults>>

-----------------------------------------------------------------------------
(* One pass of a worker's loop. *)

(* A slip in the loop: one slot too many. *)
LoopingOneTooMany(p, slots) ==
  IF Cardinality(slots) <= Concurrency
  THEN [IdlePass EXCEPT !.phase = "asking", !.now = pass[p].now]
  ELSE IdlePass

(* The loop's condition: a pass that sees a free slot asks for a job, else it ends. *)
Looping(p, slots) ==
  IF Cardinality(slots) < Concurrency
  THEN [IdlePass EXCEPT !.phase = "asking", !.now = pass[p].now]
  ELSE IdlePass

(* Telling the jobs a reclaim lost, one await each, comes before the loop. *)
TellingLost(p, lost) ==
  IF lost # {} THEN [pass[p] EXCEPT !.phase = "lost", !.lost = lost]
  ELSE Looping(p, running[Host[p]])

(* The pass reads the clock once, at its start; every later step uses that instant. *)
PassStart(p) ==
  /\ pass[p].phase = "idle"
  /\ pass' = [pass EXCEPT ![p] = [IdlePass EXCEPT !.phase = "reclaim"]]
  /\ UNCHANGED <<jobs, running, run, claims, told, faults>>

(* pruneIfDue: at most hourly in the code, whenever a pass starts here. *)
PassPrune(p) ==
  /\ pass[p].phase = "reclaim"
  /\ Retention > 0
  /\ jobs' = [j \in Jobs |->
                IF jobs[j].status \in Settled /\ jobs[j].runAt < pass[p].now - Retention
                THEN NoRow("pruned") ELSE jobs[j]]
  /\ UNCHANGED <<running, pass, run, claims, told, faults>>

(* Slips in the reclaim: a lease taken back at its last instant; jobs that have no attempt
   left passed over; one attempt too many granted. *)
ExpiredAtEnd(p) == {j \in Jobs : jobs[j].status = "running" /\ jobs[j].leaseUntil <= pass[p].now}
ExpiredWithAttemptsLeft(p) ==
  {j \in Jobs : /\ jobs[j].status = "running" /\ jobs[j].leaseUntil < pass[p].now
                /\ jobs[j].attempts < MaxAttempts[j]}
ExhaustedLate(j) == jobs[j].attempts > MaxAttempts[j]

Expired(p) == {j \in Jobs : jobs[j].status = "running" /\ jobs[j].leaseUntil < pass[p].now}
Exhausted(j) == jobs[j].attempts >= MaxAttempts[j]

PassReclaim(p) ==
  /\ pass[p].phase = "reclaim"
  /\ jobs' = [j \in Jobs |->
                IF j \in Expired(p)
                THEN [jobs[j] EXCEPT !.status = IF Exhausted(j) THEN "lost" ELSE "queued",
                                     !.leaseUntil = NULL, !.worker = NULL]
                ELSE jobs[j]]
  /\ pass' = [pass EXCEPT ![p] = TellingLost(p, {j \in Expired(p) : Exhausted(j)})]
  /\ UNCHANGED <<running, run, claims, told, faults>>

(* The pass awaits the lost handler of each lost job in turn; one that throws is logged. *)
PassTellLost(p, j, ok) ==
  /\ pass[p].phase = "lost"
  /\ j \in pass[p].lost
  /\ ok \/ faults < MaxFaults
  /\ told' = IF ok THEN told \cup {j} ELSE told
  /\ faults' = IF ok THEN faults ELSE faults + 1
  /\ pass' = [pass EXCEPT ![p] = TellingLost(p, pass[p].lost \ {j})]
  /\ UNCHANGED <<jobs, running, run, claims>>

(* A slip in the claim: a lost job is due again. *)
DueAlsoLost(p) ==
  {j \in Jobs : jobs[j].status \in {"queued", "lost"} /\ jobs[j].runAt <= pass[p].now}

Due(p) == {j \in Jobs : jobs[j].status = "queued" /\ jobs[j].runAt <= pass[p].now}

(* claimJob: the oldest due job, its lease counted from the pass's instant. *)
PassClaim(p, j) ==
  LET until == pass[p].now + LeaseTerm IN
  /\ pass[p].phase = "asking"
  /\ j \in Due(p)
  /\ \A k \in Due(p) : jobs[j].runAt <= jobs[k].runAt
  /\ jobs' = [jobs EXCEPT ![j].status = "running", ![j].leaseUntil = until,
                          ![j].attempts = @ + 1, ![j].worker = Host[p]]
  /\ pass' = [pass EXCEPT ![p].phase = "granted",
                          ![p].claim = [job |-> j, attempts |-> jobs[j].attempts + 1,
                                        runAt |-> jobs[j].runAt, lease |-> until]]
  /\ claims' = [claims EXCEPT ![j] = IF @ <= MaxAttempts[j] THEN @ + 1 ELSE @]
  /\ UNCHANGED <<running, run, told, faults>>

PassFindsNothing(p) ==
  /\ pass[p].phase = "asking"
  /\ Due(p) = {}
  /\ pass' = [pass EXCEPT ![p] = IdlePass]
  /\ UNCHANGED <<jobs, running, run, claims, told, faults>>

(* The claim's answer arrives: the slot is counted, runOne starts, the loop looks again. *)
PassBegin(p, r) ==
  LET w == Host[p]
      slots == running[w] \cup {pass[p].claim.job}
  IN
  /\ pass[p].phase = "granted"
  /\ ~InFlight(r)
  /\ run' = [run EXCEPT ![r] = [phase |-> "live", worker |-> w, claim |-> pass[p].claim]]
  /\ running' = [running EXCEPT ![w] = slots]
  /\ pass' = [pass EXCEPT ![p] = Looping(p, slots)]
  /\ UNCHANGED <<jobs, claims, told, faults>>

(* A call of the pass is refused, or was answered to nobody: workerPass rejects. *)
PassAborts(p) ==
  /\ pass[p].phase # "idle"
  /\ faults < MaxFaults
  /\ pass' = [pass EXCEPT ![p] = IdlePass]
  /\ faults' = faults + 1
  /\ UNCHANGED <<jobs, running, run, claims, told>>

-----------------------------------------------------------------------------
(* A run: runOne, from the claim it was given to the write that settles it. *)

(* A slip in the retry: a job put back starts counting anew. *)
PutSnapshotUncounted(r, status, runAt, lease, worker) ==
  jobs' = [jobs EXCEPT ![run[r].claim.job] =
             [status |-> status, attempts |-> IF status = "queued" THEN 0 ELSE run[r].claim.attempts,
              runAt |-> runAt, leaseUntil |-> lease, worker |-> worker]]

(* putJob({...job, ...}): the snapshot written whole, whatever the row holds by now. *)
PutSnapshot(r, status, runAt, lease, worker) ==
  jobs' = [jobs EXCEPT ![run[r].claim.job] =
             [status |-> status, attempts |-> run[r].claim.attempts,
              runAt |-> runAt, leaseUntil |-> lease, worker |-> worker]]

(* A slip in the finally block: the slot is not given back. *)
EndRunLeaks(r) ==
  /\ run' = [run EXCEPT ![r] = IdleRun]
  /\ UNCHANGED running

(* The finally block: the heartbeat stops and the slot is freed by job id. *)
EndRun(r) ==
  /\ run' = [run EXCEPT ![r] = IdleRun]
  /\ running' = [running EXCEPT ![run[r].worker] = @ \ {run[r].claim.job}]

(* The timer fires; the local lease moves whether or not the store takes the new one. *)
Heartbeat(r, ok) ==
  LET j == run[r].claim.job IN
  /\ InFlight(r)
  /\ run' = [run EXCEPT ![r].claim.lease = LeaseTerm]
  /\ jobs' = IF ok /\ jobs[j].status = "running" /\ jobs[j].worker = run[r].worker
             THEN [jobs EXCEPT ![j].leaseUntil = LeaseTerm] ELSE jobs
  /\ UNCHANGED <<running, pass, claims, told, faults>>

Progress(r) ==
  /\ run[r].phase = "live"
  /\ run[r].claim.job \in Reporting
  /\ PutSnapshot(r, "running", run[r].claim.runAt, run[r].claim.lease, run[r].worker)
  /\ UNCHANGED <<running, pass, run, claims, told, faults>>

RunDone(r) ==
  /\ run[r].phase = "live"
  /\ PutSnapshot(r, "done", run[r].claim.runAt, NULL, run[r].worker)
  /\ EndRun(r)
  /\ UNCHANGED <<pass, claims, told, faults>>

(* The `done` write was applied but its answer was an error: the catch block is next. *)
RunDoneUnanswered(r) ==
  /\ run[r].phase = "live"
  /\ faults < MaxFaults
  /\ PutSnapshot(r, "done", run[r].claim.runAt, NULL, run[r].worker)
  /\ run' = [run EXCEPT ![r].phase = "failing"]
  /\ faults' = faults + 1
  /\ UNCHANGED <<running, pass, claims, told>>

(* The handler threw, or the `done` write did: again, by the snapshot's own count. *)
Again(r) == run[r].claim.attempts < MaxAttempts[run[r].claim.job]
RunFail(r) ==
  /\ InFlight(r)
  /\ IF Again(r) THEN PutSnapshot(r, "queued", Backoff, NULL, NULL)
     ELSE PutSnapshot(r, "failed", run[r].claim.runAt, NULL, run[r].worker)
  /\ EndRun(r)
  /\ UNCHANGED <<pass, claims, told, faults>>

(* The catch block's own write is refused: the row stays as it was. *)
RunUnsaved(r) ==
  /\ InFlight(r)
  /\ faults < MaxFaults
  /\ EndRun(r)
  /\ faults' = faults + 1
  /\ UNCHANGED <<jobs, pass, claims, told>>

-----------------------------------------------------------------------------
(* The process dies and comes back under the same name (host and pid). *)

Crash(w) ==
  /\ faults < MaxFaults
  /\ running' = [running EXCEPT ![w] = {}]
  /\ pass' = [p \in Passes |-> IF Host[p] = w THEN IdlePass ELSE pass[p]]
  /\ run' = [r \in Runs |-> IF run[r].worker = w THEN IdleRun ELSE run[r]]
  /\ faults' = faults + 1
  /\ UNCHANGED <<jobs, claims, told>>

(* Time. *)

Horizon == MaxLag + Retention + 1
Older(t) == IF t > -Horizon THEN t - 1 ELSE t
OlderOrNull(t) == IF t = NULL THEN NULL ELSE Older(t)
OlderClaim(c) ==
  IF c = NULL THEN NULL ELSE [c EXCEPT !.runAt = Older(@), !.lease = Older(@)]

(* The row is this run's own claim, still running. *)
Owns(r) ==
  LET row == jobs[run[r].claim.job] IN
  /\ InFlight(r)
  /\ row.status = "running"
  /\ row.worker = run[r].worker
  /\ row.attempts = run[r].claim.attempts

Tick ==
  /\ \A p \in Passes : pass[p].phase # "idle" => pass[p].now > -MaxLag
  /\ Prompt => \A r \in Runs : Owns(r) => jobs[run[r].claim.job].leaseUntil > 0
  /\ jobs' = [j \in Jobs |->
                IF jobs[j].status \in {"none", "pruned"} THEN jobs[j]
                ELSE [jobs[j] EXCEPT !.runAt = Older(@), !.leaseUntil = OlderOrNull(@)]]
  /\ pass' = [p \in Passes |->
                IF pass[p].phase = "idle" THEN pass[p]
                ELSE [pass[p] EXCEPT !.now = Older(@), !.claim = OlderClaim(@)]]
  /\ run' = [r \in Runs |-> [run[r] EXCEPT !.claim = OlderClaim(@)]]
  /\ UNCHANGED <<running, claims, told, faults>>

-----------------------------------------------------------------------------

PassStep(p) ==
  \/ PassStart(p) \/ PassReclaim(p) \/ PassFindsNothing(p)
  \/ \E j \in Jobs : PassTellLost(p, j, TRUE) \/ PassClaim(p, j)
  \/ \E r \in Runs : PassBegin(p, r)

RunEnds(r) == RunDone(r) \/ RunFail(r)

Next ==
  \/ \E j \in Jobs : Enqueue(j)
  \/ \E p \in Passes :
       \/ PassStep(p) \/ PassPrune(p) \/ PassAborts(p)
       \/ \E j \in Jobs : PassTellLost(p, j, FALSE)
  \/ \E r \in Runs :
       \/ RunEnds(r) \/ Progress(r) \/ RunDoneUnanswered(r) \/ RunUnsaved(r)
       \/ \E ok \in BOOLEAN : Heartbeat(r, ok)
  \/ \E w \in Workers : Crash(w)
  \/ Tick

Spec == Init /\ [][Next]_vars

(* The timer fires again and the store answers; handlers end; time passes. *)
Fairness ==
  /\ WF_vars(Tick)
  /\ \A p \in Passes : WF_vars(PassStep(p))
  /\ \A r \in Runs : WF_vars(RunEnds(r))

FairSpec == Spec /\ Fairness

-----------------------------------------------------------------------------
(* Properties. *)

(* A job allowed one attempt (an execution, a seed, an export, a backup, an alert)
   is handed to a worker at most once, and once handed out is never queued again,
   whatever crashes, refused calls, late heartbeats and stale snapshots do
   (executions/store.ts, enqueueExecution: "never run a second time"). *)
OneAttempt ==
  \A j \in Jobs : MaxAttempts[j] = 1 =>
    /\ claims[j] <= 1
    /\ claims[j] = 1 => jobs[j].status \notin {"none", "queued"}

(* No job is executed by two runs at once (types.ts, claimJob: "so no job is executed
   twice").  It needs heartbeats that arrive and passes shorter than a lease. *)
OneRunPerJob ==
  \A j \in Jobs : \A r, s \in Runs : Running(r, j) /\ Running(s, j) => r = s

(* `attempts` counts the claims, and there are never more than maxAttempts of them
   (types.ts, JobRecord). *)
AttemptsCountClaims ==
  \A j \in Jobs :
    /\ claims[j] <= MaxAttempts[j]
    /\ jobs[j].status \notin {"none", "pruned"} => jobs[j].attempts = claims[j]

(* A process runs at most JOBS_CONCURRENCY jobs at a time (worker.ts, the loop). *)
SlotsRespected ==
  \A w \in Workers :
    Cardinality({r \in Runs : InFlight(r) /\ run[r].worker = w}) <= Concurrency

(* However claims, reclaims and ends interleave, no job has two runs and no process
   more runs than its share. *)
RunsInBounds == OneRunPerJob /\ SlotsRespected

(* A job marked lost is lost for good: no late run writes over it (worker.ts,
   JobLostHandler: "lost for good - a run whose outcome nobody knows"). *)
LostForGood ==
  [][\A j \in Jobs : jobs[j].status = "lost" => jobs'[j].status \in {"lost", "pruned"}]_vars

(* Every job put on the queue settles, through crashes, retries and lapsed leases. *)
QueuedSettles ==
  \A j \in Jobs : jobs[j].status = "queued" ~> jobs[j].status \in Settled

(* Every job the queue loses is told to its kind's lost handler, which is what writes
   `lost` on an execution's record (docs/CONTEXT.md 4.40). *)
LostIsTold ==
  \A j \in Jobs : jobs[j].status = "lost" ~> j \in told

RowSpent(j) ==
  \/ /\ claims[j] = 0 /\ jobs[j].status \in {"none", "queued"} /\ jobs[j].attempts = 0
  \/ /\ claims[j] = 1 /\ jobs[j].status \notin {"none", "queued"}
     /\ jobs[j].status = "running" => jobs[j].attempts = 1

(* The strengthening that makes OneAttempt inductive: a claim of a one-attempt job moves
   its row out of the queue for good, and every snapshot of it counts that one attempt,
   so neither a reclaim nor a failing run may put it back. *)
SpentForGood ==
  \A j \in Jobs : MaxAttempts[j] = 1 =>
    /\ RowSpent(j)
    /\ \A p \in Passes : GrantedTo(p, j) => claims[j] = 1 /\ pass[p].claim.attempts = 1
    /\ \A r \in Runs : Running(r, j) => claims[j] = 1 /\ run[r].claim.attempts = 1

-----------------------------------------------------------------------------
(* The abstract queue the one-attempt jobs see. *)

OneShotJobs == {j \in Jobs : MaxAttempts[j] = 1}

PhaseOf(j) ==
  CASE jobs[j].status = "none" -> "none"
    [] jobs[j].status = "queued" -> "queued"
    [] OTHER -> "taken"

(* Claimed and not answered yet, or with a runOne in flight. *)
Held(j) == (\E p \in Passes : GrantedTo(p, j)) \/ (\E r \in Runs : Running(r, j))

Queue == INSTANCE OneShotQueue WITH
  Jobs <- OneShotJobs,
  phase <- [j \in OneShotJobs |-> PhaseOf(j)],
  inFlight <- {j \in OneShotJobs : Held(j)},
  told <- told \cap OneShotJobs

(* The queue as it is built keeps the promise of OneShotQueue: every step takes, releases
   or tells of one-attempt jobs as the abstract queue may, and the fair queue takes each. *)
KeepsPromise == Queue!Spec
KeepsFairPromise == Queue!FairSpec
=============================================================================
