--------------------------- MODULE DatasourceJobs ---------------------------
(***************************************************************************)
(* The seeds, or the backups, of a datasource (seed-data/job.ts,           *)
(* backups/job.ts): a request reads the queue twice, once for each status  *)
(* an open job may have, and is then enqueued.  The two kinds read the     *)
(* statuses in opposite orders.  The job is tried once.                    *)
(***************************************************************************)
EXTENDS Naturals, Sequences, FiniteSets

CONSTANTS
  Kind,      \* of job: "seed" or "backup"
  Requests   \* bound: requests for the datasource

VARIABLES
  ask,   \* how far each request is
  reads, \* how many of its reads it has made
  job,   \* the status of the job it became
  met    \* two requests were under way together

jobsVars == <<ask, reads, job, met>>

JobsTypeOK ==
  /\ ask \in [Requests -> {"idle", "reading", "refused", "enqueued"}] /\ reads \in [Requests -> 0..2]
  /\ job \in [Requests -> {"none", "queued", "running", "done", "lost"}] /\ met \in BOOLEAN

Init ==
  /\ ask = [r \in Requests |-> "idle"] /\ reads = [r \in Requests |-> 0]
  /\ job = [r \in Requests |-> "none"] /\ met = FALSE

BackupReads == <<"running", "queued">>   \* as openBackupJob reads
SeedReads == <<"queued", "running">>     \* as enqueueSeed does: the way a job goes
Reads == IF Kind = "seed" THEN SeedReads ELSE BackupReads

Ask(r) ==
  /\ ask[r] = "idle" /\ ask' = [ask EXCEPT ![r] = "reading"]
  /\ met' = (met \/ \E q \in Requests : ask[q] = "reading")
  /\ UNCHANGED <<reads, job>>

Read(r) ==
  /\ ask[r] = "reading" /\ reads[r] < 2
  /\ IF \E q \in Requests : job[q] = Reads[reads[r] + 1]
     THEN ask' = [ask EXCEPT ![r] = "refused"] /\ UNCHANGED reads
     ELSE reads' = [reads EXCEPT ![r] = @ + 1] /\ UNCHANGED ask
  /\ UNCHANGED <<job, met>>

Enqueue(r) ==
  /\ ask[r] = "reading" /\ reads[r] = 2
  /\ ask' = [ask EXCEPT ![r] = "enqueued"] /\ job' = [job EXCEPT ![r] = "queued"]
  /\ UNCHANGED <<reads, met>>

Becomes(r, from, to) == job[r] = from /\ job' = [job EXCEPT ![r] = to] /\ UNCHANGED <<ask, reads, met>>

Claimed(r) == Becomes(r, "queued", "running")
Ended(r) == Becomes(r, "running", "done") \/ Becomes(r, "running", "lost")

Next == \E r \in Requests : Ask(r) \/ Read(r) \/ Enqueue(r) \/ Claimed(r) \/ Ended(r)
Spec == Init /\ [][Next]_jobsVars

-----------------------------------------------------------------------------
(* "One at a time per datasource" (seed-data/job.ts:72, backups/job.ts:23): a job is found *)
(* open wherever its worker has come, but by a request under way beside its own.           *)
OneOpen == ~met => Cardinality({r \in Requests : job[r] \in {"queued", "running"}}) <= 1
=============================================================================
