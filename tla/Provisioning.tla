---------------------------- MODULE Provisioning ----------------------------
(***************************************************************************)
(* Provisioning the portal's own account on a stored datasource            *)
(* (provisioning/run.ts): the statements of the plan, the password kept,   *)
(* the datasource swapped to it.  A run is named by the password it        *)
(* generates.  An administrator may type the credential that opens the     *)
(* database, so a run may start whatever the datasource holds.             *)
(***************************************************************************)
EXTENDS Naturals, Sequences

CONSTANTS
  Paths,     \* the places in Vault
  MaxRuns,   \* bound: runs
  NULL

Runs == 1..MaxRuns
Accounts == {"portal", "agent"}
App == 0     \* the application's own credential, which opens the database throughout

VARIABLES
  vault,     \* Vault is configured
  engine,    \* the run whose password the engine takes, of each account
  secret,    \* what each place in Vault holds under each account's keys
  record,    \* the datasource: its credentials, each a password or a place in Vault
  provision, \* the runs
  crossed    \* two runs were under way together

provisioningVars == <<vault, engine, secret, record, provision, crossed>>

Held == Runs \cup {App, NULL}

ProvisioningTypeOK ==
  /\ vault \in BOOLEAN /\ crossed \in BOOLEAN
  /\ engine \in [Accounts -> Runs \cup {NULL}] /\ secret \in [Paths -> [Accounts -> Held]]
  /\ record \in [there: BOOLEAN, url: BOOLEAN, portal: Held \cup Paths, agent: Held \cup Paths]
  /\ \A r \in Runs :
       /\ provision[r].outcome \in {"idle", "running", "done", "stopped", "failed"}
       /\ provision[r].agent \in BOOLEAN /\ provision[r].path \in Paths
       /\ provision[r].todo \in Seq({"portal", "agent", "grants", "read", "write", "find", "store"})
       /\ provision[r].keys \in [Accounts -> Held]

NoKeys == [a \in Accounts |-> NULL]
Idle == [outcome |-> "idle", agent |-> FALSE, path |-> CHOOSE p \in Paths : TRUE,
         todo |-> <<>>, keys |-> NoKeys, copy |-> NULL]

(* The datasource opens as the application: by a connection string, a password, or a secret. *)
Init ==
  /\ vault \in BOOLEAN /\ engine = NoKeys /\ crossed = FALSE
  /\ \E place \in {App} \cup IF vault THEN Paths ELSE {} : \E agent \in {place, NULL} : \E url \in BOOLEAN :
       /\ record = [there |-> TRUE, url |-> url, portal |-> place, agent |-> agent]
       /\ secret = [p \in Paths |-> IF p # place THEN NoKeys
                                    ELSE [NoKeys EXCEPT !.portal = App, !.agent = IF agent = NULL THEN NULL ELSE App]]
  /\ provision = [r \in Runs |-> Idle]

Provisioned(agent) == {"portal"} \cup IF agent THEN {"agent"} ELSE {}

(* The plan's statements: an account is made, or its password altered, and then granted to. *)
Statements(agent) == <<"portal", "grants">> \o IF agent THEN <<"agent", "grants">> ELSE <<>>
Keeping == (IF vault THEN <<"read", "write">> ELSE <<>>) \o <<"find", "store">>

(* The datasource's own credential lives there, under a key the run would write. *)
Clobbers(path, agent) == vault /\ \E a \in Provisioned(agent) : record[a] = path

Start(r, agent, path) ==
  /\ provision[r].outcome = "idle" /\ \A q \in 1..(r - 1) : provision[q].outcome # "idle"
  /\ record.there /\ ~Clobbers(path, agent)
  /\ provision' = [provision EXCEPT ![r] = [Idle EXCEPT !.outcome = "running", !.agent = agent, !.path = path,
                                                        !.todo = Statements(agent) \o Keeping]]
  /\ crossed' = (crossed \/ \E q \in Runs : provision[q].outcome = "running")
  /\ UNCHANGED <<vault, engine, secret, record>>

At(r, steps) == provision[r].outcome = "running" /\ Head(provision[r].todo) \in steps
Ended(r, outcome) == [provision[r] EXCEPT !.outcome = outcome, !.todo = <<>>]
GoneOn(r) == [provision[r] EXCEPT !.todo = Tail(@)]
Becomes(r, run) == provision' = [provision EXCEPT ![r] = run]

Answered(r) == engine' = IF At(r, Accounts) THEN [engine EXCEPT ![Head(provision[r].todo)] = r] ELSE engine

StatementRan(r) ==
  /\ At(r, Accounts \cup {"grants"}) /\ Answered(r) /\ Becomes(r, GoneOn(r))
  /\ UNCHANGED <<vault, secret, record, crossed>>

(* A refusal stops the run; the engine may have done what its lost answer would have said. *)
StatementRefused(r) ==
  /\ At(r, Accounts \cup {"grants"}) /\ (UNCHANGED engine \/ Answered(r)) /\ Becomes(r, Ended(r, "stopped"))
  /\ UNCHANGED <<vault, secret, record, crossed>>

(* Vault's refusals; a write may have landed though its answer did not. *)
Fails(r) == Becomes(r, Ended(r, "failed"))

ExistingKeys(r) ==
  /\ At(r, {"read"}) /\ (Becomes(r, [GoneOn(r) EXCEPT !.keys = secret[provision[r].path]]) \/ Fails(r))
  /\ UNCHANGED <<vault, engine, secret, record, crossed>>

(* A slip: the agent's keys left as they were read. *)
WrittenForPortal(r) == [provision[r].keys EXCEPT !.portal = r]
Written(r) == [a \in Accounts |-> IF a \in Provisioned(provision[r].agent) THEN r ELSE provision[r].keys[a]]

WriteSecret(r) ==
  /\ At(r, {"write"})
  /\ \/ secret' = [secret EXCEPT ![provision[r].path] = Written(r)] /\ (Becomes(r, GoneOn(r)) \/ Fails(r))
     \/ UNCHANGED secret /\ Fails(r)
  /\ UNCHANGED <<vault, engine, record, crossed>>

(* swapDatasource reads the record, and updateSharedDatasource writes it back with the new       *)
(* credential; a connection string left out is kept.  The store may refuse any of it, and so may *)
(* validate and assertKnownEnvironment; a write may have landed though its answer did not, and   *)
(* removeProvider may fail after it.                                                             *)
FindRecord(r) ==
  /\ At(r, {"find"})
  /\ \/ record.there /\ Becomes(r, [GoneOn(r) EXCEPT !.copy = record])
     \/ Fails(r)
  /\ UNCHANGED <<vault, engine, secret, record, crossed>>

Credential(r) == IF vault THEN provision[r].path ELSE r

StoreRecord(r) ==
  /\ At(r, {"store"})
  /\ \/ /\ record.there
        /\ record' = [provision[r].copy EXCEPT
             !.url = record.url, !.portal = Credential(r),
             !.agent = IF provision[r].agent THEN Credential(r) ELSE @]
        /\ Becomes(r, Ended(r, "done")) \/ Fails(r)
     \/ UNCHANGED record /\ Fails(r)
  /\ UNCHANGED <<vault, engine, secret, crossed>>

Delete ==
  /\ record.there /\ record' = [record EXCEPT !.there = FALSE]
  /\ UNCHANGED <<vault, engine, secret, provision, crossed>>

Next ==
  \/ \E r \in Runs :
       \/ \E agent \in BOOLEAN : \E path \in IF vault THEN Paths ELSE {Idle.path} : Start(r, agent, path)
       \/ StatementRan(r) \/ StatementRefused(r) \/ ExistingKeys(r) \/ WriteSecret(r) \/ FindRecord(r) \/ StoreRecord(r)
  \/ Delete

Spec == Init /\ [][Next]_provisioningVars

-----------------------------------------------------------------------------
Password(a) == IF record[a] \in Paths THEN secret[record[a]][a] ELSE record[a]
Opens(a) == Password(a) \in {App, engine[a]}

(* "A half-provisioned role is a fact the admin must see": where the datasource holds a *)
(* password its account no longer takes, the run whose password the account does take   *)
(* was reported as stopped or failed, or is under way.                                  *)
LockedOutIsTold ==
  record.there /\ ~crossed =>
    \A a \in Accounts : record[a] # NULL /\ ~Opens(a) =>
      \A r \in Runs : engine[a] = r => provision[r].outcome # "done"

(* "The datasource record updated to the account, and its cached pool dropped so the next *)
(* open uses it": after a run that completed, the datasource opens as the account.        *)
SwappedToAccount ==
  record.there /\ ~crossed /\ (\E r \in Runs : provision[r].outcome = "done") =>
    ~record.url /\ Password("portal") # App
=============================================================================
