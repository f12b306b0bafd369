------------------------------ MODULE MCParts ------------------------------
(***************************************************************************)
(* The smaller parts side by side.  They share no state, so a behaviour    *)
(* moves only one of them: interleaving them would show nothing more.      *)
(***************************************************************************)
EXTENDS Naturals, Sequences, FiniteSets

CONSTANTS
  Entries, Replicas, Calls, here, c1, Ttl, Lag, MaxClock,   \* ServiceTokens, FreezeWindows
  Pools, Tunnels, Tasks, NULL,                            \* ProviderCache
  Lines, Batch, MaxQueue, MaxAttempts, Flushes, NoFlush,  \* AuditExport
  Term, Renew, MaxTime, None,                             \* VaultLeases
  Collections, Pushes, MaxEdits, MaxLost,                 \* BrowserSync
  TableCount, MaxWidth, MaxColumns,                       \* SeedPlan
  Clients, Plays, Presses,                                \* Transactions
  Tabs, MaxRuns,                                          \* TabRuns
  Requests,                                               \* DatasourceJobs
  Paths,                                                  \* Provisioning
  Connections, Deferred, MaxGeneration, MaxAsks           \* StudioReads, AgentFollower

VARIABLES
  part,
  stored, cache, calls, clock, landed,
  pool, cached, idle, active, open, task, crossed,
  queue, timer, inFlight, flush, indexed, counted,
  time, lease, issue, request,
  local, server, pending, debounce, retry, flight, page, heard, migrated, edits, lost, spoiled,
  schema, deps, order, softened, stage, round, rows, failure,
  client, txActive, armed, timeout, stranded, free, session, call, run, believes, permanent, txCrossed,
  tabRun, tabInFlight, last, executing, loading, result, plan, disturbed,
  ask, reads, job, met,
  vault, engine, secret, record, provision, provisionCrossed,
  onScreen, asked, generation, reading, list, listLoading, attempt, trying, declared, statement, strayed,
  agentRun, start, latest, runId, busy, stopping, error, status, stopAsk, severed, stopMet

(* One collection in two replicas: the tokens', or the windows'. *)
Home == [c \in Calls |-> IF c = c1 THEN here ELSE CHOOSE r \in Replicas : r # here]
Name == [t \in Entries |-> "bot"]

Tokens == INSTANCE ServiceTokens WITH Values <- {"none", "live", "revoked"},
                                      Ops <- {"create", "revoke", "authenticate", "touch"}
Windows == INSTANCE FreezeWindows WITH Values <- {"none", "open"}, Ops <- {"create", "delete", "write", "run"}
Providers == INSTANCE ProviderCache
Export == INSTANCE AuditExport
Leases == INSTANCE VaultLeases
Sync == INSTANCE BrowserSync WITH Flushes <- Pushes
Seed == INSTANCE SeedPlan
Tx == INSTANCE Transactions WITH Runs <- Plays, active <- txActive, crossed <- txCrossed
Editor == INSTANCE TabRuns WITH run <- tabRun, inFlight <- tabInFlight
Jobs == INSTANCE DatasourceJobs WITH Kind <- "seed"
Accounts == INSTANCE Provisioning WITH crossed <- provisionCrossed, MaxRuns <- 2
Studio == INSTANCE StudioReads WITH active <- onScreen, loading <- listLoading
Panel == INSTANCE AgentFollower WITH server <- agentRun, ask <- stopAsk, met <- stopMet, MaxStarts <- MaxRuns

-----------------------------------------------------------------------------
(* What the theorems of PartsProofs assume of each part's constants: that bounds are numbers and *)
(* names are told apart, and of a lease that it is renewed early enough for the slowest answer.   *)
CollectionsNamed == Ttl \in Nat \ {0} /\ Lag \in Nat /\ Entries # {} /\ here \in Replicas /\ Replicas # {here}
LeaseTimes == Term \in Nat /\ Renew \in Nat \ {0} /\ Lag \in Nat /\ MaxTime \in Nat /\ Renew + Lag <= Term
PanelBounds == MaxRuns \in Nat /\ MaxAsks \in Nat
TabsApart == MaxRuns \in Nat /\ NULL \notin Tabs /\ NULL \notin Editor!Runs
ExportConstants == Batch \in Nat /\ MaxQueue \in Nat \ {0} /\ MaxAttempts \in Nat /\ NoFlush \notin Flushes
PoolsNamed == NULL \notin Pools /\ NULL \notin Tunnels
TxNames ==
  /\ NULL \notin Clients
  /\ \A p \in Presses : p \notin Plays \X {"begin", "query", "rollback"} /\ \A k \in Tx!Begins : p # Tx!Expiry(k)
PlacesApart == Paths # {} /\ Paths \cap Accounts!Runs = {} /\ NULL \notin Accounts!Runs
SeedTables == TableCount \in Nat /\ MaxWidth \in Nat

ASSUME PartsAssumption ==
  /\ CollectionsNamed /\ LeaseTimes /\ PanelBounds /\ TabsApart /\ ExportConstants
  /\ PoolsNamed /\ TxNames /\ PlacesApart /\ SeedTables

-----------------------------------------------------------------------------
collectionVars == <<stored, cache, calls, clock, landed>>
cacheVars == <<pool, cached, idle, active, open, task, crossed>>
exportVars == <<queue, timer, inFlight, flush, indexed, counted>>
leaseVars == <<time, lease, issue, request>>
syncVars == <<local, server, pending, debounce, retry, flight, page, heard, migrated, edits, lost, spoiled>>
seedVars == <<schema, deps, order, softened, stage, round, rows, failure>>
txVars == <<client, txActive, armed, timeout, stranded, free, session, call, run, believes, permanent, txCrossed>>
tabVars == <<tabRun, tabInFlight, last, executing, loading, result, plan, disturbed>>
jobVars == <<ask, reads, job, met>>
accountVars == <<vault, engine, secret, record, provision, provisionCrossed>>
studioVars == <<onScreen, asked, generation, reading, list, listLoading, attempt, trying, declared, statement, strayed>>
panelVars == <<agentRun, start, latest, runId, busy, stopping, error, status, stopAsk, severed, stopMet>>

servedVars == <<collectionVars, cacheVars, exportVars, leaseVars, syncVars>>
dataVars == <<seedVars, txVars, jobVars, accountVars>>
pageVars == <<tabVars, studioVars, panelVars>>
vars == <<part, servedVars, dataVars, pageVars>>

PartsInit ==
  /\ Seed!Init
  /\ part \in {"tokens", "windows", "providers", "export", "leases", "sync", "seed", "transactions", "tabs",
              "jobs", "provisioning", "studio", "panel"}
  /\ (part # "seed" => \A t \in DOMAIN schema : schema[t] = <<>>)
  /\ Accounts!Init /\ (part # "provisioning" => ~vault /\ ~record.url /\ record.agent = NULL)
  /\ Tokens!CollectionInit /\ Providers!Init /\ Export!Init /\ Leases!Init /\ Sync!Init
  /\ Tx!TxInit /\ Editor!Init /\ Jobs!Init /\ Studio!Init /\ Panel!Init

TokensMove == part = "tokens" /\ Tokens!TokensNext /\ UNCHANGED <<part, cacheVars, exportVars, leaseVars, syncVars, dataVars, pageVars>>
WindowsMove == part = "windows" /\ Windows!WindowsNext /\ UNCHANGED <<part, cacheVars, exportVars, leaseVars, syncVars, dataVars, pageVars>>

(* A behaviour of the providers, of the transactions or of the provisioning is followed until calls meet. *)
ProvidersMove ==
  /\ part = "providers" /\ ~crossed
  /\ Providers!Next /\ UNCHANGED <<part, collectionVars, exportVars, leaseVars, syncVars, dataVars, pageVars>>

ExportMoves == part = "export" /\ Export!Next /\ UNCHANGED <<part, collectionVars, cacheVars, leaseVars, syncVars, dataVars, pageVars>>
LeasesMove == part = "leases" /\ Leases!Next /\ UNCHANGED <<part, collectionVars, cacheVars, exportVars, syncVars, dataVars, pageVars>>
SyncMoves == part = "sync" /\ Sync!Next /\ UNCHANGED <<part, collectionVars, cacheVars, exportVars, leaseVars, dataVars, pageVars>>

ServedMove == TokensMove \/ WindowsMove \/ ProvidersMove \/ ExportMoves \/ LeasesMove \/ SyncMoves

SeedMoves == part = "seed" /\ Seed!Next /\ UNCHANGED <<part, servedVars, txVars, jobVars, accountVars, pageVars>>
TransactionsMove ==
  /\ part = "transactions" /\ ~txCrossed
  /\ Tx!TxNext /\ UNCHANGED <<part, servedVars, seedVars, jobVars, accountVars, pageVars>>
JobsMove == part = "jobs" /\ Jobs!Next /\ UNCHANGED <<part, servedVars, seedVars, txVars, accountVars, pageVars>>
ProvisioningMoves ==
  /\ part = "provisioning" /\ ~provisionCrossed
  /\ Accounts!Next /\ UNCHANGED <<part, servedVars, seedVars, txVars, jobVars, pageVars>>

DataMove == SeedMoves \/ TransactionsMove \/ JobsMove \/ ProvisioningMoves

TabsMove == part = "tabs" /\ Editor!Next /\ UNCHANGED <<part, servedVars, dataVars, studioVars, panelVars>>
StudioMoves == part = "studio" /\ Studio!Next /\ UNCHANGED <<part, servedVars, dataVars, tabVars, panelVars>>
PanelMoves == part = "panel" /\ Panel!Next /\ UNCHANGED <<part, servedVars, dataVars, tabVars, studioVars>>

PartsNext == ServedMove \/ DataMove \/ TabsMove \/ StudioMoves \/ PanelMoves

PartsSpec == PartsInit /\ [][PartsNext]_vars

-----------------------------------------------------------------------------
(* The properties of the parts, as their modules state them; each invariant of the part that moves. *)

(* A revoked secret stops opening the door once every cache could have been read again. *)
RevocationHolds == Tokens!RevocationHolds

(* No write passes a freeze declared longer ago than a cached list may live. *)
FreezeSeen == Windows!FreezeSeen

(* A cached pool is open through a tunnel that stands, and nothing open is forgotten. *)
PoolsTrue == part = "providers" => Providers!PoolsTrue

(* An audit line that waits has something that will flush it, is in one place, and is *)
(* counted as one thing, shipped only when it is indexed.                             *)
LinesAccounted == part = "export" => Export!NothingStranded /\ Export!CountedOnce

(* A request never gets a database credential that Vault has already ended. *)
LeaseLive == Leases!LeaseLive

(* An edit of the browser that the server lacks is on its way there. *)
NothingForgotten == part = "sync" => Sync!NothingForgotten

(* The tables to seed come after the tables they require, and only a schema that no *)
(* order fits is refused.                                                           *)
OrderedRightly == part = "seed" => Seed!ParentsFirst /\ Seed!RefusedRightly

(* A table that fails for a missing parent names a parent that kept no row. *)
MissingExplained == part = "seed" => Seed!MissingExplained

(* A playground's changes are undone, though it be cancelled at any point. *)
PlaygroundUndone == part = "transactions" => Tx!PlaygroundUndone

(* Neither a pool's client nor a transaction's locks are left with nothing to free them, but *)
(* the client of a BEGIN that failed.                                                        *)
NothingLeaked == part = "transactions" => Tx!ClientsReturned /\ Tx!LocksFreed

(* No plan lands on a tab where a newer run was started. *)
PlanOfTheLast == Editor!PlanOfTheLast

(* The last run of a tab stays within reach of Cancel, and a spinner has a run that will *)
(* put it out.                                                                           *)
SpinnersHeld == part = "tabs" => Editor!LastRunHeld /\ Editor!SpinnerOwned

(* A datasource has one seed open at a time. *)
OneOpen == part = "jobs" => Jobs!OneOpen

(* The objects, the spinner and the capabilities on screen are those of the connection *)
(* on screen, in whatever order the answers of several connections come.               *)
ShownIsOwn == part = "studio" => Studio!OwnObjectsButStrayed /\ Studio!SpinsForCurrent /\ Studio!OwnDeclaration

(* The assistant's panel opens one run at a time, is busy for its last start and shows *)
(* the failure of no other.                                                            *)
PanelTrue == part = "panel" => Panel!OneUnstopped /\ Panel!BusyWithLast /\ Panel!ErrorOfLast

(* A datasource left with a password its account no longer takes was reported. *)
LockedOutIsTold == part = "provisioning" => Accounts!LockedOutIsTold
=============================================================================
