# Verification of dbportal

TLA+ models of the concurrent core of dbportal, checked with TLC and, where it
matters most, proved with TLAPS. Every definition is translated from the source
under `src/src/lib` (paths below are relative to it unless they say otherwise);
`PROJECT.json` maps each definition to its lines.

## 1. The system

dbportal is a Next.js application that puts databases behind a portal: people
query from the browser, programs through service tokens, and everything that
writes goes through policy (read-only rules, freeze windows, tickets,
approvals). One image runs in three roles, `studio`, `worker` and `agent`, any
number of replicas of each, around one *server store* (PostgreSQL or SQLite).
Replicas share nothing but the store: what they agree on, they agree on through
single statements against it. Each replica caches what it reads of the store for
seconds. The browser keeps its own copy of a person's collections and several
requests in flight for what a page shows.

### Inventory

| Part | State it keeps | Operations | Interacts with | What is hard | What makes it correct |
|---|---|---|---|---|---|
| Job queue (`jobs/queue.ts`, `storage/providers/*`) | table `jobs`: status, attempts, runAt, leaseUntil, worker | enqueue, claim, heartbeat, reclaim, put, prune | every producer and the worker loop | writes are whole-record upserts from old snapshots | a one-attempt job is claimed once; retries stay within `maxAttempts`; every job settles |
| Worker loop (`jobs/worker.ts`) | per process: `running`, handlers, timer | `workerPass`, `runOne` (heartbeat, progress, done, catch), `pruneIfDue` | queue, handlers | passes overlap; state read before an await is used after it; crashes; late heartbeats | one run per job, at most `concurrency` runs, lost jobs are told |
| Executions (`executions/store.ts`) | the execution on the approval record | submit, enqueue, run, mark lost, wait | approvals, queue, service tokens, freezes | the record is written whole by the studio, the worker and the lost handler | a statement runs once, only if approved; its outcome is stored |
| Approvals (`approvals/store.ts`) | table `approval_requests` | request, decide, expire, open window | reviewers (web, Slack), executions | read-check-write without a transaction; expiry written by readers | four eyes, two distinct reviewers, a decision is final |
| Leases (`leases.ts`) | table `leases`; per process `held` | `holdLease`, `onceWithin` | alert scheduler, trail alerts | clocks read before the call; a leader slower than its lease | one holder at a time; a cooldown passes once a window |
| Alerts (`alerts/scheduler.ts`, `alerts/store.ts`, `alerts/run.ts`) | one collection of alert records; per process `running` | tick, save, delete, update state, run, Run now | leases, worker, channels | the whole collection is read, changed and written; enqueue and mark are two writes | handed over once an interval; an edit is not undone by a run; notified once a cooldown |
| Agent runs (`agent/run-service.ts`, `agent/investigation.ts`, `agent/runtime.ts`) | per run a ledger in a stream that closes; per process claims and closed streams | start, drive, step, suspend, cancel, finish, drive again | model, tools, provider cache | drives cut at any await and repeated; status read before it is written; nothing resumes a run by itself | a step's statement is sent once; an ended run stays ended; a run that is driven ends |
| Freezes and write gate (`freezes/store.ts`, `api/write-gate.ts`) | a setting, cached for seconds | declare, lift, check | every write | a cached list is stale; check and write are apart | a write outside the cache's age never passes a freeze |
| Service tokens (`service-tokens/store.ts`, `api/service-auth.ts`) | a setting, cached for seconds | create, revoke, authenticate, touch | executions, every API call | the last-used write puts back the list it read | a revoked token opens nothing |
| Provider cache, tunnels (`db/factory.ts`, `ssh/tunnel.ts`) | cached providers by key, tunnels by connection | get or create, replace, sweep, remove | every query | concurrent creation; a tunnel shared by pools | an open pool is cached and its tunnel stands |
| Vault (`vault/client.ts`, `vault/credentials.ts`) | leases of credentials, the issue in flight | resolve, issue, renew | provider cache | the instant is older than what it judges | a credential is alive when it is handed out |
| Transactions, playground (`db/providers/sql/postgres.ts`, `api/db/transaction`, `hooks/use-transaction-control.ts`) | per person one client, one timer, its state in the page | begin, query, commit, rollback, expire | pool of the engine, the studio's runs | a cancel overtakes its statement; a timer races an answer | a playground leaves nothing; no client and no lock leaks |
| Seeding data (`seed-data/*`) | the order of tables, the pools of generated keys | order, cut, empty, fill, ask for a job | queue, engines | cycles of foreign keys; a table fails and the run goes on | parents first; a cycle refused; children of nothing say so |
| Backups, exports (`backups/*`, `export/*`) | the job's result; files | ask, enqueue, run | queue | check-then-enqueue | one at a time per datasource |
| Provisioning (`provisioning/run.ts`) | account in the engine, secret in Vault, the datasource's record | run, delete | datasources, Vault, engine | three stores written one after another | no datasource left locked out unreported |
| Audit trail (`audit.ts`, `storage/audit-partitions.ts`) | table, partitions | append, prune, maintain | every operation | single statements | |
| Audit export (`audit-export/elastic.ts`) | queue, timer, batch in flight | enqueue, flush, retry | the index | flushes wait for one another; overflow | a line is counted as one thing and none is stranded |
| Browser storage (`hooks/use-storage-sync.ts`, `storage/*` in the browser) | pending collections, two timers, pushes in flight | edit, push, retry, migrate, pull | store routes | failures while the user edits on | a local change is on its way |
| The studio's pages (`hooks/use-query-execution.ts`, `use-connection-manager.ts`, `use-provider-metadata.ts`) | runs by tab, what is shown of a connection | run, cancel, explain, load more, pick, read again | routes | answers out of order | what is shown belongs to what is on screen |
| Agent panel (`components/agent/*`) | the run it opens and follows | start, follow, stop, replace | agent routes | aborts, lost answers | one run open; its own failure shown |
| Rate limits (`limits.ts`, `api/rate-limit.ts`) | counters per process | enter, leave, take token | routes | counters change between awaits only | |
| Notifications (`notify/*`) | none | callback, Slack, channels | executions, alerts | one request, failure logged | |
| Sessions, roles, datasources, profiles (`auth.ts`, `roles/*`, `datasources/*`, `ssh-profiles/*`) | cookies; collections in a setting | login, verify; list, save, delete | every route | cached collections | |
| SQL reading, masking (`sql/*`, `masking/*`) | none | classify, split, mask | every gate | pure functions over text | classification never calls a write a read |
| Database providers (`db/providers/*`), language models | driver pools | query, schema; stream | engines, services | other systems | outside this project |
| The rest of the interface (`components`, `app/*` pages) | React state | | routes | | outside this project |

## 2. Plan

The order is by how much hangs on a part: everything that happens later than the
request that asked for it goes through the queue, everything that writes without
a person at the keyboard goes through approvals and executions; then what the
server does alone (alerts, agent runs), then the caches and pools the replicas
keep, then what the browser shows.

Done: `JobQueue` over `OneShotQueue`; `Approvals`; `Executions`, which composes
the two; `Alerts` over `OneShotQueue`; `AgentRuns`; `CachedCollection` with its two
uses, `ServiceTokens` and `FreezeWindows`; `ProviderCache`, `VaultLeases`,
`AuditExport`, `Transactions`, `SeedPlan`, `DatasourceJobs`, `Provisioning` on the
server; `BrowserSync`, `TabRuns`, `StudioReads`, `AgentFollower` in the browser.

Every safety and action property of the passing runs is a theorem (section 5). What
is left, in this order: the types of `Executions` and of the cached collections as
theorems of their own; the properties of section 6 that no run claims
(`OnlyPendingExpires`, `TunnelStands`) under the regimes in which they hold; the
agent's repair and approval phases inside a drive; the copying of data between
datasources; the monitoring hook.

## 3. Modules

### `OneShotQueue` - what the queue promises

Three variables: the `phase` of a job (`none`, `queued`, `taken`), the jobs a
worker holds (`inFlight`), the jobs whose lost handler ran (`told`). A one-attempt
job is taken at most once and never goes back; nothing is said of its end, since
the code says nothing: a worker may drop it, and the queue may declare it lost
while it still runs. `Executions` and `Alerts` use it instead of `JobQueue`; the
property `KeepsPromise` is the licence to.

### `JobQueue` - `jobs/queue.ts`, `jobs/worker.ts`, the `jobs` statements of the store

| In the module | In the code |
|---|---|
| `jobs` | the table: status, attempts, run_at, lease_until, worker |
| `running` | the `running` set of each process, by which the loop counts slots |
| `pass` | each open `workerPass`: where it awaits, the `now` it read, the lost jobs it still has to tell, the claim it was granted |
| `run` | each `runOne` in flight: its process and its snapshot of the job |
| `claims`, `told`, `faults` | history: claims per job, lost handlers run, crashes and refusals so far |
| `Enqueue` | `enqueueJob` |
| `PassStart`, `PassPrune`, `PassReclaim`, `PassTellLost`, `PassClaim`, `PassFindsNothing`, `PassBegin` | `workerPass`, one step per await |
| `Heartbeat`, `Progress`, `RunDone`, `RunFail` | `runOne`: the timer, the progress callback, the `done` write, the catch and finally |
| `RunDoneUnanswered`, `RunUnsaved`, `PassAborts`, `Crash` | the same calls refused, applied but unanswered, or cut by the end of the process |
| `Tick` | time |

Every write of a run is `PutSnapshot`: the whole record as it was at the claim,
over whatever the row is by now. Statements of the store are atomic (`UPDATE ...
WHERE`, `FOR UPDATE SKIP LOCKED`). A restarted process has the name of the one
that died, the harder case for a lease taken back by name. Instants are relative
to the present: `Tick` moves every stored instant into the past, and instants
older than `Horizon` are not told apart, so time itself is unbounded.

### `Approvals` - `approvals/store.ts` and the gate that uses it

`record` is the table; `call` the server calls in flight, each with the copy it
read (`seen`), which it puts back whole. `Read`/`Expire` are `settleExpiry` from
whichever reader; `GateRefuses`, `FindPending`, `Ask` are the write gate and
`requestApproval`; `DecideRead`, `DecidePut` are `decideApproval` cut at its await;
`Interrupted` is a call that ends without its write; `PassTtl`, `PassWindow` are
time. `overdue` and `lapsed` stand for the comparison of a record's instants with
the clock; a decision puts a new window, hence `lapsed' = lapsed \ {request}`.
`approvers` and `rejected` are histories: what reviewers did and saw stored, as
opposed to what a record says now. `Carried` is what other components keep on a
record, carried along untouched; `Executions` gives it a value.

### `Executions` - `executions/store.ts`

Composes `Approvals` (`Carried` is the jobId and the outcome; the requester is a
program) and `OneShotQueue`. `SubmitForReview`, `SubmitAllowed` are
`submitExecution`; `Decide`, `SettleToken`, `FailWithout` are `decideApproval` followed by
`settleDecision`; `HandOver`, `RecordJob` are `enqueueExecution`, which makes the job
first and puts the record after; `HandlerReads` to `HandlerReturns` are
`runExecutionJob` and `runExecution`, one step per await and one per statement;
`LostReads`, `LostPuts` are `markExecutionLost`; `CallBreaks`, `HandlerBreaks`,
`WorkerDies` end each of the three at any await. A statement succeeds, fails, or
fails after it took effect (its answer lost, its masking refused): `effects` is
what the database saw, as opposed to what the record says. `Revoke`, `Freeze` and
`Thaw` are administrators. `waived` is the choice of a behaviour's policy, which
requests of `Waivable` it allows without a reviewer. Two histories name what a
promise cannot survive: `hasty`, the jobs taken before their record named them or
told lost while they ran, and `broken`, the requests a call or a handler left
behind when it broke.

### `Alerts` - `alerts/scheduler.ts`, `alerts/run.ts`, `alerts/store.ts`, `leases.ts`, Run now

`coll` is the whole collection, for that is what is read and written. `TickStart`
to `MarkWrite` are `tickOnce` (the lease, the daily chore under its cooldown, the list
of due alerts, then per alert a job and a mark); `Take` to `StoreWrite` the
worker's handler and `runAlert`; `EditRead`, `Save`, `Delete` are people;
`PressRunNow` to `PressWrite` the route of Run now; `TickBreaks`, `RunBreaks`,
`AnnounceFails` failures. An alert's definition is the number of the edit that
wrote it, which is what tells an edit kept from an edit undone. Whether the
condition holds is left open at each run, and so is the order in which due alerts
are handed over. A scheduler starts at most one pass per instant, as its timer
does, and its `running` flag keeps its passes apart.

### `AgentRuns` - `agent/run-service.ts`, the loop of `agent/investigation.ts`, `agent/runtime.ts`

`ledger` is the fold of the run's events: its status, a recorded stop, the steps
invoked and settled. `shut` is the stream once closed, to which a write still
succeeds and is never read; `closed`, `driven` and `live` are what one process
remembers. A drive is cut at each read and each append: `Deliver` to `RecordDriver`
are resolving, claiming and starting; `Check` and `Answer` a turn of the model;
`StepRead`, `Invoke`, `Send`, `Return`, `Settle` a step, from the look at the ledger
to its answer; `FinishRead` to `CloseStream` the ending, which drives and cancels
share; `CancelRead`, `RequestCancellation` a cancel. `StoreRefuses` throws at any await; `Stop` ends the process and forgets its memory.
The start drives its run once, in its own process and with errors caught
(`app/api/agent/runs/route.ts:459`); after that a run is driven when the drive route is
called, which may happen at any time and which nothing does by itself
(`app/api/agent/drive/route.ts:16`). So `Deliver` may be taken, and is promised by
nobody: `CarryOn`, the rest of a drive, is what fairness is about.

### `CachedCollection`, `ServiceTokens`, `FreezeWindows`

A collection kept as one setting is read through a cache of `CACHE_TTL_MS` in each
replica and written whole. `CachedCollection` has that once: a call begins, fetches
the list and fills the cache with it or takes it from there (`Begin`, `Fetch`, `Fill`),
decides on it, and may write it back changed (`Write`, `Store`, `Keep`); the age of
what it holds is bounded by `Ttl` and `Lag`, the longest an answer takes to be
acted on. `ServiceTokens` adds creating, revoking, authenticating and the
last-used write; `FreezeWindows` declaring, deleting, and the gate before a write.
Roles, datasources, channels, runbooks and SSH profiles have the same shape.
`landed` is the instant a record last changed in the store.

### The server's other parts

* `ProviderCache` (`db/factory.ts`, `ssh/tunnel.ts`): the pools on one tunnelled
  connection, shared, labelled for a person, profiled for an agent, with `Reuse`,
  `Replace`, `Create`, the idle sweep `Evict` and `Remove`; `crossed` is set once
  tasks meet that may take each other's pool or tunnel.
* `VaultLeases` (`vault/credentials.ts`): one person's lease on a role, the issue
  in flight, and the instant a request carries across its awaits.
* `AuditExport` (`audit-export/elastic.ts`): `queue`, `timer`, `inFlight` and the
  flushes, each where it awaits; `indexed` is what the index holds, `counted` what
  the code says became of a line.
* `SeedPlan` (`seed-data/plan.ts`, `seed-data/run.ts`): every schema of up to
  `TableCount` tables and `MaxColumns` references, nullable or not; `Round` places
  the tables that wait for nothing, cuts a nullable reference, or refuses; the
  tables are then filled in that order from the rows their parents kept.
* `Transactions` (`db/providers/sql/postgres.ts`, its route, the studio's buttons
  and the playground of `use-query-execution.ts`): `client`, `active`, `armed` and
  `timeout` are the provider's fields, `session` the connection of each client with
  the statements it has been sent, served in order; `ExpireTransaction` is the timer.
  `stranded` is a history, the clients whose BEGIN failed.
* `DatasourceJobs` (`seed-data/job.ts`, `backups/job.ts`): a request reads the queue
  once per status an open job may have, and enqueues. `Kind` is the job's: `SeedReads`
  and `BackupReads` are the orders in which the two read the statuses.
* `Provisioning` (`provisioning/run.ts`, the update of `datasources/store.ts`): the
  plan's statements, the read and write of the secret, the reading and the writing of
  the record, any of them refused, and the writes possibly done though unanswered. A
  failure of the write of the record stands for all that may fail around it: its
  validation, the environment, the store's read and write, and the pool dropped after it.
  A password is named by the run that generated it; `App` is the
  application's own.

### The browser

* `BrowserSync` (`hooks/use-storage-sync.ts`): collections here and there, `pending`,
  the debounce and the retry, flushes and what each sends, migration and pull.
* `TabRuns` (`hooks/use-query-execution.ts`): runs by tab, what supersedes what, the
  plan asked for beside a run, statements an agent hands over.
* `StudioReads` (`use-connection-manager.ts`, `use-read-generation.ts`,
  `use-provider-metadata.ts`): the generation that decides which read of the objects
  is the current one; the declaration, whose answers are known by attempt and connection
  (two reads of one connection have one key, and both may be taken).
* `AgentFollower` (`components/agent/use-agent-run.ts`, `AgentRail.tsx`): the start,
  the ledger followed, the requests to stop, the replacement of an open run.

### `MC...`, `...Proofs`

`ApprovalsInTurn` extends `Approvals` with the history `met` of two calls open
together, and states what holds until then. `MCJobQueue`, `MCApprovals`,
`MCExecutions` give the functions among the constants their values and the symmetry;
`MCJobQueueFair` follows one instance of the queue in two ways, `followed`, whose bounds
together would be too many: fairness is `JobQueue`'s, of the steps within them.
`MCAlerts` instantiates `Alerts` under three regimes (through `AlertsProofs`, so that
its theorems hold of the instances); `MCParts` instantiates the thirteen smaller
parts, which share no state, so that a behaviour moves one of them, and states as
`PartsAssumption` what the proofs assume of their constants, which TLC evaluates.
Neither adds an action of its own. The `...Proofs` modules hold the theorems:
one for each of `JobQueue`, `Approvals` (with `ApprovalsInTurn`), `Executions`, `Alerts`,
`MCAlerts` and `AgentRuns`; `CollectionsProofs` for `CachedCollection` and its two uses;
`PartsProofs` for `MCParts`. The operators commented as *slips* in the component
modules are the plausible mistakes each property was tried against: with the
definition replaced by the slip, the property fails.

## 4. Runs

Symmetry is used only in `alerts` and `approvals`, which check no liveness: over the
scheduler processes of one and the reviewers who request nothing of the other, sets
whose members no constant's value tells apart. Deadlock is checked in the queue's, the
approvals' and the agent's runs; the others stop when every request is settled or a
bound is reached.

| Run (distinct states) | Shows |
|---|---|
| `queue_prompt` (1.54 million) | Two processes, a job of one attempt and one of two, settled jobs pruned, heartbeats in time, passes shorter than a lease: `RunsInBounds` (one run a job, the limit of a process), `AttemptsCountClaims`, `LostForGood` |
| `queue_fair` (130 thousand) | Two ways to follow it: two processes and the job that is tried once, with pruning; one process and a second job that is tried twice. Late heartbeats, passes as long as a lease, progress writes, two faults: `OneAttempt`, the refinement `KeepsPromise`, and under fairness `QueuedSettles` and the refinement `KeepsFairPromise` |
| `approvals` (292 thousand) | `ApprovalsInTurn`: two calls overlapping at will, three reviewers of whom one asks, a request for two reviewers and one for one: `Reviewed` throughout; `OnePendingInTurn` and `DecisionsStandInTurn` until two calls meet |
| `exec_alone` (58 thousand) | A request that needs two reviewers or is allowed as it is, one call at a time, two jobs, everything breaks anywhere, revocation and freezes, a job run ahead of its record or told lost while it runs: `RunsReviewed`, `RunsOnce`, `RevokedRunsNothing`, `FrozenRunsNothing`, `OutcomeTold`, `OutcomeStays`, and under fairness `Answered` |
| `exec_twice` | **Violated**: two approvals in flight hand one request over twice, and both jobs touch the database (`RunsOnce`) |
| `alerts` (1.81 million) | Three regimes. "stops": two schedulers that stop anywhere. "pressed": one, and people who press Run now; in both, edits, deletions, workers that die, channels not found. "orderly": two alerts, nothing breaks, a longer clock. `LeaseKept`, `FiringAnnounced`, `EditsKept`, `OncePerPeriod` |
| `agent_runs` (276 thousand) | Two callers that drive a run and a cancel, two stops or refusals: `StepOnce`, `EndStaysAlone`, and under fairness `RunEnds`: a running run that a drive carries ends, unless the process stops or a call is refused meanwhile |
| `agent_resurrected` | **Violated**: a run cancelled while a drive marks it running reads running again (`EndStays`) |
| `parts` (1.29 million) | Thirteen parts, one moving in a behaviour: the properties below |
| `seed_hangs` | **Violated**: a schema no order fits is never answered (`CyclesAnswered`, under fairness of the loop) |
| `provisioning_swap` | **Violated**: a datasource that opened by a connection string still does after a provisioning that completed (`SwappedToAccount`) |
| `backup_twice` | **Violated**: of two requests for a backup, one after the other, both are enqueued (`OneOpen` with `Kind = "backup"`) |

The properties of `parts`, part by part:

| Part | Property |
|---|---|
| `ServiceTokens` | `RevocationHolds`: a call begun `Ttl + Lag` after a revocation was stored neither admits the token nor writes the revocation away, in any replica |
| `FreezeWindows` | `FreezeSeen`: the same of a write and a window |
| `ProviderCache` | `PoolsTrue`: what is cached and open goes through the tunnel that stands, what is open is cached |
| `AuditExport` | `LinesAccounted`: no line waits with nothing to flush it; a line is in one place and counted as one thing |
| `VaultLeases` | `LeaseLive`: no request is handed a credential past its term |
| `BrowserSync` | `NothingForgotten`: an edit the server lacks is queued with a timer set, or in a push |
| `SeedPlan` | `OrderedRightly`: parents first but for what was cut, and only the unorderable is refused; `MissingExplained`: a table that lacks a parent's row has a required parent that kept none, or one it was cut from |
| `Transactions` | `PlaygroundUndone`: nothing a playground did is kept, its begin refused or not, but what the person's own Commit took along; `NothingLeaked`: no client lost to its pool but by a BEGIN that failed, no open transaction without its timer |
| `DatasourceJobs` | `OneOpen`: one seed open on a datasource (`Kind = "seed"`; of backups the run `backup_twice` shows it false) |
| `Provisioning` | `LockedOutIsTold`: a password the account no longer takes is left in place only by a run reported stopped or failed, whichever store refused or did not answer |
| `TabRuns` | `PlanOfTheLast`: no plan lands where a newer run was started; `SpinnersHeld`: the last run of a tab stays within reach of Cancel, and a spinner has a run that puts it out |
| `StudioReads` | `ShownIsOwn`: objects, spinner and capabilities are those of the connection on screen |
| `AgentFollower` | `PanelTrue`: one run open that nobody asked to stop, busy for the last start only, its failure shown and no other's |

### Bounds, and why they are enough

* *Queue.* Two processes and two jobs are what every hazard of the queue needs:
  the one that lost its lease, the one that took over; a job that is retried and
  one that is not. Three runs let a job's stale run, its successor and another
  job's run be in flight at once. `MaxFaults = 2` is a crash and a refusal in
  either order. `MaxLag` below or equal to `LeaseTerm` are the pass shorter than a
  lease and the pass as long as one. Time is unbounded.
* *Approvals, executions.* Three reviewers so that two remain for a requester
  who is one. Two requests of one person, the least with which "one per pair"
  can fail. A script of two statements: a failure before, at and after the first.
  Two jobs: more than a request ever has while calls do not overlap, and what the
  violation needs. Requests, once made, are not made again.
* *Alerts.* In "stops" and "pressed" the interval, the lease and the chore's period
  are one, so that two passes, a job and an edit meet at every await within three
  ticks. "orderly" has four hand-overs of two alerts over five ticks, an interval
  of three and a cooldown of four: every alert is due twice, and the second
  notice may fall within or beyond the cooldown.
* *Agent runs.* Two drives, used again and again, are the start's own and a call of
  the drive route beside or after it; one cancel; one step, which the model may ask for in both of two
  turns; two faults, so that the recording of a failure may fail too.
* *Collections.* One record in two replicas, two calls, `Ttl = Lag = 1`, three
  instants: a fill that answers late, a write over it, and a read after both ages.
* *Pools.* Two tasks and three keys on one tunnel, four pools, two tunnels: a pool
  replaced while another is made, and a tunnel remade.
* *Export.* Five lines, batches of two, a queue of two, two attempts, three
  flushes: one sends, two wait, the queue overflows.
* *Vault, sync, seeds.* A term of four and renewal at three over eight instants;
  two collections, two pushes, three edits, one failure; every schema of three
  tables with at most two references each and three in all, nullable or required.
* *Seeds asked for.* Three requests; two are enough for the backups' violation.
* *Transactions, provisioning.* Two clients, a playground's run and two presses; two places in Vault and two runs.
* *Pages.* Two tabs and three runs; two connections, one of which is read only when
  asked, five generations, two attempts at a declaration and two reads of one under
  way; three starts and two stops.

### Regimes

The code keeps some promises only when calls do not meet. Where that is so a
constant, or a history variable the property names, says which behaviours are
excused; section 6 tells what happens in those.

| Where | Regime |
|---|---|
| `Prompt` (`JobQueue`) | heartbeats reach the store before the lease lapses |
| `MaxLag < LeaseTerm` | a pass, with the prune and the lost handlers it awaits, is shorter than a lease |
| one element of `Passes` per host | a pass ends before the timer opens the next |
| `met` (`ApprovalsInTurn`) | no two calls have been in flight together |
| `Calls = {c1}` (`Executions`) | decisions and readers do not overlap |
| `hasty` | `Undisturbed`: no job ran before its record named it, or was told lost while it ran |
| `broken` | no call or handler broke over the request |
| `Breaks` | what fails: a studio call, a worker, a handler's store call, a scheduler, a channel's look-up |
| `Overlap = FALSE` (`Alerts`) | a read and its write of the alert collection are not interleaved with another's |
| `MarkedFirst` | the mark is stored before a worker takes the job |
| `MaxJob < Interval` | an alert's job waits and runs less than its interval |
| `revived`, `crossed` (`AgentRuns`) | no start was appended to an ended run; no two stood between reading the status and writing one |
| `Lag` (`CachedCollection`) | an answer of the store is acted on within `Lag` |
| `crossed` (`ProviderCache`, `Transactions`, `Provisioning`) | no two tasks, calls or runs have met on the same thing; behaviours are followed until they do |
| `stranded` (`Transactions`) | of a client, that its BEGIN failed: the one leak `NothingLeaked` leaves out, told of in section 6; nothing has to meet for it |
| `spoiled` (`BrowserSync`) | no pull, closing page or second push crossed an edit of the collection |
| `met` (`DatasourceJobs`) | no two requests were under way together |
| `disturbed` (`TabRuns`) | no handover or refused explain met a run of the tab |
| `strayed` (`StudioReads`) | no run that changed objects answered with another connection on screen |
| `severed`, `met` (`AgentFollower`) | no start's answer and no ledger's end was lost; no start aborted a stop |

The promises that matter most need none of them: `OneAttempt` and `KeepsPromise` are
checked with late heartbeats and slow passes, `Reviewed` with overlapping calls,
`RunsReviewed` is proved for overlapping calls, late workers and late puts;
`FiringAnnounced` with everything breaking and a worker before the mark; and
`LinesAccounted`, `LeaseLive`, `OrderedRightly`, `PlanOfTheLast` as they are.

### Fairness

* `JobQueue!FairSpec`: weak fairness of `Tick` (time passes), of each pass (a timer
  restarts it and the store answers; refusals are bounded by `MaxFaults`) and of
  each run's end (`RunDone \/ RunFail`: a handler ends, well or not). Nothing is
  assumed of heartbeats, pruning, enqueueing or crashes.
* `Executions!FairSpec`: weak fairness of each call's steps and each handler's
  steps, of `Take` (which `OneShotQueue!FairSpec` promises and `KeepsFairPromise`
  shows of the queue) and of the lost handler's steps. That last one is an
  assumption the queue does not quite keep: the row of `worker.ts:214` in section 6.
* `AgentRuns!FairSpec`: weak fairness of each drive once it has begun (`CarryOn`: its
  process goes on, the store and the model answer or refuse) and of each cancel's ending.
  Nothing is assumed of `Deliver`: no code calls the drive route, so a run whose process
  stopped may stay running for ever (section 6), and `RunEnds` promises nothing of it. It
  speaks of a run while a drive carries it and no further fault comes.
* `SeedPlan!Spec`: weak fairness of `Round \/ Ordered`, a synchronous loop that
  nothing interrupts.
* The others state no liveness: nothing is bound to happen to a request nobody
  decides, and an alert's next run depends on a clock the model bounds.

## 5. Proofs

In every module named below the theorems hold for all values of the constants
that satisfy the module's assumption (their types, as the modules state them).

* `JobQueueProofs`. `TypeCorrect`: `Spec => []TypeOK`, one step per action.
  `OneAttemptHolds`: `Spec => []OneAttempt`, with and without `Prompt`. `OneAttempt`
  is not inductive: it says nothing of the snapshots passes and runs hold, and a
  snapshot counting no attempt would put the job back on the queue. `SpentForGood`
  adds that a claimed job's row never goes back, that a running row counts its one
  attempt, and that every snapshot of it counts one too.
  `KeepsPromiseHolds`: the refinement of `OneShotQueue`, one lemma per step, with
  `LostTaken` (what a pass still has to tell as lost was taken once).
  `AttemptsCountClaimsHolds`, `LostForGoodHolds` under `Timely` (heartbeats arrive,
  `MaxLag <= LeaseTerm`): `HeldInv` says that who was granted a job, or runs it, is
  the worker its row names, holds a lease that has not lapsed and a snapshot that
  counts the claims there were, and that a job has one such holder; so no late write
  exists, which is what those properties are about.
  `RunsInBoundsHolds` under `OneAtATime` besides (a process has one pass open):
  `SlotsInv`, a process's `running` is the jobs of its runs, and a pass that asks for
  a job has a slot for it.
* `ApprovalsProofs`. `TypeCorrect`, and `ReviewedHolds`: four eyes and enough
  distinct approvers however calls overlap. `Reviewed` is not inductive because a
  call puts back a copy read long before. `IInv` has the types, `FourEyes` (also of
  the decisions about to be put), `Sound` of every record and `HeldSound`: the same
  of every copy a call still holds, which moreover was pending when read. A copy's
  approvals were each stored once, and the history of approvers only grows
  (`SoundGrows`), so a stale copy stays sound; what a decision makes of a sound copy
  is sound (`DecidedSound`). That is why a lost approval (section 6) can cost a
  third decision but never a reviewer.
  `OnePendingInTurnHolds` and `DecisionsStandInTurnHolds`, of `ApprovalsInTurn`:
  `TurnInv`, until two calls have been open together one call at most is busy, and its
  copy is the record as it is, so putting it back undoes nothing.
* `ExecutionsProofs`. `RunsReviewedHolds`, `RevokedRunsNothingHolds`,
  `FrozenRunsNothingHolds`: however calls, jobs, handlers and lost handlers overlap
  and whatever breaks, no statement reaches the engine before its reviewers
  approved it, after its token was revoked, or in a freeze it was taken in. The
  invariant has the types; `Placed` (a job in somebody's hands was taken and names
  its request); `CopiesKept` (every approval on any copy, of a call, a hand, a
  handler or a lost handler, was stored once); `HandedReviewed` (what is being
  handed over has its reviewers) and `Refused` (a barred or shut job never passes
  its check).
  `RunsOnceHolds`, `OutcomeToldHolds`, `OutcomeStaysHolds` under `OneCall` (studio calls
  come one after the other) and `NullAssumption` (the empty value is no job, request
  or member): `AloneInv` orders a request's one job (queued, at work, answered) against
  its record and against the copies of the call, the hand and the lost handler, and
  says that an answer, once given, is the effect the database saw; jobs in `hasty` and
  requests in `broken` are excused as in the properties.
* `AlertsProofs`. `TypeCorrect` by `Shaped` (the types, and what a pass, a run or a
  press holds at each of its awaits). `OneLeaderHolds` assumes `MaxLag <= LeaseTerm`:
  `LeaderInv`, who leads holds the lease at an instant its pass is no older than.
  `ChoreOnceHolds` assumes nothing: `ChoreInv`, the cooldown row is a
  period past every hand-over of the chore, and so is what a pass about to hand it over
  wrote there. `FiringAnnouncedHolds` assumes nothing: `SoundInv`, a firing
  state is of an announced alert wherever a copy of it is (collection, pass, run, edit,
  press). `EditsKeptHolds` assumes `~Overlap`: `KeptInv`, who is between reading and
  writing is alone there and read what is stored. `NotHandedTwiceHolds` assumes
  `InTime` (`~Overlap`, marked before run, no Run now, no edit, no scheduler that stops,
  `MaxLag <= LeaseTerm`, `MaxLag + MaxJob < Interval`): `HandInv`, an alert a pass still
  has to hand over has no job, a taken one is not being marked, and the stored state and
  every run's copy remember its last hand-over. `NotifiedOnceHolds` assumes `NothingFails` (`InTime`, and `Breaks` empty):
  `NoticeInv`, each copy recalls the last notice.
* `MCAlertsProofs`. The four properties of the run `alerts`, over `AlertsSpec`: a
  behaviour stays in its regime, a regime's behaviours are those of `Alerts` with its
  constants, and the regime's assumption holds of them.
* `AgentRunsProofs`. `TypeCorrect`. `StepOnceHolds`: a step's statement is sent once
  and after its invocation was recorded, unless a start was appended to an ended
  run. Its invariant: `Claims` (one claim at a time, and whoever is in the loop
  holds it), `ClosedTells` (a closed stream belongs to an ended run, and who is in
  the loop is refused by it), `StepsFresh` (before its invocation is written a step
  is new). `EndStaysAloneHolds`: with `Alone`, who stands between reading the status
  and writing one stands there alone and the run has not ended.
* `CollectionsProofs` has the lemmas on how old what a replica reads can be,
  whatever the stores decide on it (`Young`: of calls and of caches). From them
  `NeverOlderHolds`, and of the parts' two instances that each step keeps the freezes seen
  and the revocations held, the latter also by what is written (`Minted`): a list
  differs from the one read by a revocation or by the token the call is making, and such
  a token was never stored. `FreezeSeenHolds` and `RevocationHoldsHolds` say it of the two
  modules by themselves.
* `PartsProofs`. The sixteen properties of `MCParts`, each over `PartsSpec`:
  `EachPartSteps` says that a step moves a part or leaves it alone, and each part has
  an invariant of its own.

  | Theorem | Assumes of the constants | Invariant, and why the property needs it |
  |---|---|---|
  | `RevokedStays`, `FreezeStays` | `CollectionsNamed` | `CollectionsInv`: the lemmas' `TokensInv` while the tokens move (`Young` and `Minted`), `Young` while the windows do |
  | `PoolsTrueHolds` | `PoolsNamed` | `CacheInv`: until tasks cross, what is cached is open under its own key, and what each task holds at its await fits the cache; two tasks together acquire different keys through a tunnel that stood |
  | `LinesAccountedHolds` | `ExportConstants` | `LinesInv`: a line is once in the queue or in one batch or counted; an idle flush holds nothing |
  | `LeaseLiveHolds` | `LeaseTimes` (`Renew + Lag <= Term`) | `LeasesInv`: an answer is read within `Lag` of the instant the request took, and a lease counts from an instant no later than its grant |
  | `NothingForgottenHolds` | - | `SyncInv`: of a collection nothing crossed, what a push carries is what is held, and a timer stands for what waits |
  | `NothingLeakedHolds`, `PlaygroundUndoneHolds` | `TxNames` | `TxInv`: until calls cross, one client serves statements, once each and an end last, and is beginning, or in a transaction with its timer or its end on the way, or stranded by a BEGIN that failed |
  | `OrderedRightlyHolds`, `MissingExplainedHolds` | `SeedTables` | `SeedInv`: a reference is waited for or cut, and what is waited for is a reference; a table is placed once, after its parents; of stuck tables with nothing to cut, one of the lowest level of any order would be ready, so there is no order |
  | `OneOpenHolds` | - | `JobsInv`: until requests meet, one that has read a status found no job in it, and no job goes back to a status read already |
  | `LockedOutIsToldHolds` | `PlacesApart` | `ProvisionInv`: the run under way is alone, the accounts its plan is past are its own, and an account of a completed run opens with the password kept |
  | `SpinnersHeldHolds`, `PlanOfTheLastHolds` | `TabsApart` | `TabsInv`: the run on a tab's entry is the last of those that supersede one another |
  | `ShownIsOwnHolds` | - | `StudioInv`: a read that carries the current generation is of the connection on screen |
  | `PanelTrueHolds` | `PanelBounds` | `PanelInv`: only the last start is under way; what an earlier one opened was told to stop or ended |

The names are conditions on the constants only, never on states. `Timely`,
`OneAtATime`, `OneCall`, `~Overlap`, `InTime`, `NothingFails` and `LeaseTimes` are the regimes
of section 4, outside of which section 6 shows the property broken (`LeaseTimes`: a
credential renewed later than the slowest answer allows expires); the others only say
that bounds are numbers and that a value standing for nothing is no member. The
less obvious invariants (those of the queue's leases, the alerts, `TxInv`,
`ProvisionInv`) were checked by TLC on the run's instance before they were proved.

The ready tables of a round are placed in the catalog's order (`InCatalogOrder`), which
is stated as a relation: the sorting operators of the library compute by recursion, and
nothing could be proved of the sequence.

Model-checked only: liveness (`QueuedSettles`, `Answered`, `RunEnds`,
`KeepsFairPromise`), since fairness and ENABLED are out of the prover's reach, and the
five violations of section 6, which are counterexamples. No module uses recursion.

## 6. Where the code and its words part

Five are kept as runs.

* `exec_twice`. `decideApproval` reads the record, awaits, and puts its decision
  unconditionally (`approvals/store.ts:279`): two reviewers who approve one
  execution at once both go on to `enqueueExecution`, two jobs name one request and
  the statement runs twice, where its comment (`:246`) has it that approving runs
  the stored statement once. A request's second job is stopped only by an outcome
  already on the record.
* `agent_resurrected`. `markRunning` reads `queued`, a cancel ends the run, and the
  start is appended after the ending (`agent/run-service.ts:337`): the run reads
  running again, which `app/api/agent/drive/route.ts:42` says must not happen.
* `seed_hangs`. Once a table's nullable reference has been cut, the search finds the
  same column again (`seed-data/plan.ts:57`) and the loop neither places a table nor
  refuses, in the process that called it. It takes a nullable and a required
  reference of one table in the same cycle. The header (`:8`) promises a refusal
  that names the tables.
* `provisioning_swap`. The swap clears the connection string with `undefined`, which
  the datasources' update takes for "unchanged" (`datasources/store.ts:182`), and
  the provider opens by it before the new user and password.
* `backup_twice`. `openBackupJob` reads what runs, then what is queued
  (`backups/job.ts:71`): a job claimed between the two is in neither answer, and a
  second request, made after the first was answered, is enqueued beside it; `:23` says one
  at a time per datasource. The seeds read in the other order, which misses nothing.

The others are reached by the models outside the regimes of section 4.

| At | What happens | Broken |
|---|---|---|
| `jobs/worker.ts:242` | Two passes of one process find the same free slot: more than JOBS_CONCURRENCY jobs run | `SlotsRespected` |
| `jobs/worker.ts:226` | A pass slower than a lease claims with the instant it started at; the job is reclaimed and runs twice at once | `OneRunPerJob` |
| `jobs/worker.ts:138` | A late run puts its own attempts over a later claim's: the row counts fewer claims than there were | `AttemptsCountClaims` |
| `jobs/worker.ts:214` | The process stops between the reclaim and the lost handler, or the handler throws: nobody is ever told | `LostIsTold` |
| `jobs/worker.ts:125` | A late run stores `done` over `lost`, after the lost handler told the requester | `LostForGood` |
| `approvals/store.ts:131` | Two refused writes of one person make two requests | `OnePending` |
| `approvals/store.ts:279` | An approval read before a rejection is stored over it | `RejectionEnds` |
| `approvals/store.ts:263` | Of two first approvals at once the second replaces the first; a third is needed | `ApprovalsGrow` |
| `approvals/store.ts:67` | An overdue copy is put back over a decision stored meanwhile | `OnlyPendingExpires` |
| `executions/store.ts:453` | The put of the jobId erases an outcome the worker stored first | `OutcomeStays` |
| `executions/store.ts:519` | The call dies between the decision and the job: approved, never run, never answered | `Answered` |
| `executions/store.ts:323` | The put of the outcome is refused: the job is failed, not lost, and nobody is told | `Answered` |
| `executions/store.ts:255` | A statement whose masking throws took effect and is not counted | `OutcomeTrue` allows it |
| `alerts/store.ts:153` | A run's state write puts back the collection it read: an edit in between is undone | `EditsKept` |
| `alerts/run.ts:142` | A run longer than the interval stores the `lastScheduledAt` it began with: handed over again | `NotHandedTwice` |
| `alerts/scheduler.ts:68` | The pass stops between the job and the mark: handed over again | `NotHandedTwice` |
| `alerts/scheduler.ts:69` | The mark undoes the state a quick worker stored: notified again within the cooldown | `NotifiedOnce` |
| `alerts/run.ts:121` | One channel told, the next one's look-up refused: the run is an error and the next one tells again | `NotifiedOnce` |
| `alerts/scheduler.ts:61` | A pass longer than its lease goes on beside a new leader | `OneLeader` |
| `agent/run-service.ts:299` | The claim is one process's: a second delivery that fails before claiming, or a cancel beside it, ends a run another drive carries; and a revived run sends a step a second time | `EndStays`, `StepOnce` |
| `service-tokens/store.ts:125` | "the secret stops working at once": in this replica; in another after `Ttl + Lag`, and a last-used write or a creation that read the list before it stores the token live again | `RevocationHolds` at once |
| `db/factory.ts:371` | `connectionStillServed` does not see pools labelled for a person: evicting the shared one closes their tunnel; evicting only labelled ones leaves it open | `TunnelStands` |
| `db/factory.ts:553` | Two creations under one key leave a pool nothing closes; a failed connection closes the tunnel another acquisition reuses; the sweep forgets a pool created while it waited (`:396`) | `PoolsTrue` |
| `audit-export/elastic.ts:131` | A flush waits only for the batch in flight when it was called; lines whose every attempt threw count as failed though the index may hold them; nothing flushes at shutdown | - |
| `src/src/hooks/use-storage-sync.ts:162` | The pull overwrites what is pending; two pushes of a collection arrive in either order; what a closed page had pending is not found again, though `:122` says a remount recovers it | `NothingForgotten` |
| `seed-data/plan.ts:57` | A table's waiting is a set of tables: cutting a nullable reference to one also lifts a required reference to the same; and a reference that closes no cycle may be the one cut | rows reported missing |
| `agent/drive/route.ts:16` (`src/src/app/api`) | A run whose process died, or whose failure could not be recorded, stays running until the drive route is called, and nothing calls it (`runs/route.ts:452`) | `RunEnds` without `Carried`, or through a fault |
| `backups/job.ts:103`, `seed-data/job.ts:79` | Two requests that overlap both find none open, and both are enqueued | `OneOpen` |
| `src/src/hooks/use-query-execution.ts:680` | A cancelled playground sends ROLLBACK while its statement is under way: the statement is served after it, outside any transaction, and stays | `PlaygroundUndone` |
| `src/src/hooks/use-query-execution.ts:353` | A playground whose BEGIN is refused sends its statement all the same: it runs in the transaction the person has open, and the ROLLBACK ends that one, or the person's Commit keeps it | `PlaygroundUndone` excuses the Commit |
| `db/providers/sql/postgres.ts:1863` | Two begins at once, from two windows of one person, leave a client and a timer behind | `ClientsReturned` |
| `db/providers/sql/postgres.ts:1867` | `beginTransaction` takes a client and awaits BEGIN with nothing to give it back: refused, the client is out of the pool and in no transaction, commit and rollback refuse, and the next begin forgets it, with no other call about; `docs/providers/postgres.md:1040` has it held for the transaction's duration | `HeldForTransaction` |
| `db/providers/sql/postgres.ts:1872` | An expiry that meets a commit and the next begin leaves the provider in a transaction without a client | `LocksFreed` |
| `src/src/hooks/use-transaction-control.ts:46` | COMMIT of a failed transaction rolls back without an error and is shown as saved; after an expiry the page still shows a transaction | `CommitSaves` |
| `src/src/hooks/use-query-execution.ts:715` | A refused explain, or a statement an agent handed over, puts out the spinner of a run in flight, and the late answer of the latter replaces a newer run's rows | `LastRunHeld` |
| `src/src/hooks/use-query-execution.ts:668` | A run that changed objects reads its own connection again as the current read: A's objects appear under B | `OwnObjects` |
| `src/src/components/agent/use-agent-run.ts:594` | A stop aborted by a later start tests the new start's controller: its abort is shown as the new run's failure | `ErrorOfLast` |
| `src/src/components/agent/AgentRail.tsx:1188` | A start whose answer is lost, or a ledger cut short, lets a second run start beside the first | `OneUnstopped` |
| `provisioning/run.ts:392` | Of two runs under way together the secret may keep the password the engine no longer takes | `LockedOutIsTold` |
| `provisioning/run.ts:22` | "never" overwrites the application's secret: the refusal looks only at the places the datasource names now, so once swapped a run at the application's old place does; and rotating at the place in use is refused, though `docs/CONTEXT.md:1073` has it as the same action | - |

`LostIsTold`, `OnlyPendingExpires`, `TunnelStands`, `HeldForTransaction`, `CommitSaves` and
`OwnObjects` are
stated in their modules for these rows; no run claims them.

## 7. What is not modelled

Inside the modelled parts: the poll of `waitForExecution` (it writes nothing but an
expiry, which is `Read`), who may see or review which request (`canReview` is the set
`Reviewers`), the text of statements, masking's result, notification deliveries
(one request each, its failure logged), the hundred jobs of a status that a request for a
seed or a backup looks at, the clock skew between replicas (one clock),
and the order of equal `runAt`. `frozen` and `token` in `Executions` are what the
checking process reads; how late that may be is `FreezeWindows` and `ServiceTokens`.
Statements of the store are atomic and their failure is a refusal or a lost answer.
Of the agent, the repair of a failed step, the approval a step waits for and the
report's text; two replicas that drive one run (the claim is one process's). Of the
pools, a disconnect that fails, one-shot tunnels, single-writer files, a tunnel that
drops. Of the seeds, the values, the batches within a table and the copy from another
datasource (whose count leaves out a table whose later batch failed). Of
provisioning, datasources of the seed file, the inventory's blockers, the optional
statements, and the other replicas' cache of a secret just rotated. Of the browser,
unmounting while the agent panel follows, and edits made before the storage listener
attaches.

Not modelled at all: the rate limits, whose counters change between awaits only;
the monitoring hook, whose superseded read puts out the newer one's spinner
(`src/src/hooks/use-monitoring-data.ts`); the export of files, the reading of SQL,
masking, sessions, drivers, language models and the pages, for the reason
`PROJECT.json` gives with each: they are pure functions over text, I/O, behaviour
of other systems, or show what they are given. They are also by far the larger part
of the repository's lines: the drivers' catalog queries, the prompts and tools of the
agent and the interface hold no state two actors share, and a model of them would
copy their text.
