----------------------------- MODULE VaultLeases -----------------------------
(***************************************************************************)
(* The database credentials Vault leases to one person on one role          *)
(* (vault/credentials.ts): kept by the process, renewed at 80% of their     *)
(* term, asked for once however many requests need one.  A request takes    *)
(* its instant before the secrets it reads first, and keeps it.             *)
(***************************************************************************)
EXTENDS Naturals

CONSTANTS
  Calls,
  Term,     \* the lease's term at Vault
  Renew,    \* RENEW_AT of it
  Lag,      \* the longest Vault takes to answer, and an answer to be read
  MaxTime,  \* bound: instants of a behaviour
  None

VARIABLES
  time,
  lease,    \* the cached lease: the instant it counts from, when Vault granted it
  issue,  \* the issue in flight
  request

leaseVars == <<time, lease, issue, request>>

Instants == 0..MaxTime
Lease == [from: Instants, granted: Instants]
IdleRequest == [phase |-> "idle", now |-> 0, lease |-> None]

LeasesTypeOK ==
  /\ time \in Instants
  /\ lease \in Lease \cup {None}
  /\ issue \in [phase: {"none", "asked", "granted"}, from: Instants, granted: Instants, at: Instants]
  /\ request \in [Calls -> [phase: {"idle", "reading", "waiting", "holding"}, now: Instants, lease: Lease \cup {None}]]

NoIssue == [phase |-> "none", from |-> 0, granted |-> 0, at |-> 0]

Init ==
  /\ time = 0 /\ lease = None /\ issue = NoIssue
  /\ request = [c \in Calls |-> IdleRequest]

-----------------------------------------------------------------------------
(* resolveVaultReferences: the fields before the password may be secrets to read. *)
Resolve(c) ==
  /\ request[c].phase = "idle"
  /\ request' = [request EXCEPT ![c] = [phase |-> "reading", now |-> time, lease |-> None]]
  /\ UNCHANGED <<time, lease, issue>>

KvFails(c) ==
  /\ request[c].phase = "reading"
  /\ request' = [request EXCEPT ![c] = IdleRequest]
  /\ UNCHANGED <<time, lease, issue>>

(* A slip: a lease is handed out to the end of its term. *)
RenewAtEnd(from) == from + Term
RenewAt(from) == from + Renew

Hit(now) == lease # None /\ RenewAt(lease.from) > now

(* leaseFor: the cached lease, the issue in flight, or a new one. *)
LeaseFor(c) ==
  /\ request[c].phase = "reading"
  /\ \/ /\ Hit(request[c].now)
        /\ request' = [request EXCEPT ![c].phase = "holding", ![c].lease = lease]
        /\ UNCHANGED issue
     \/ /\ ~Hit(request[c].now)
        /\ request' = [request EXCEPT ![c].phase = "waiting"]
        /\ issue' = IF issue.phase # "none" THEN issue
                      ELSE [phase |-> "asked", from |-> request[c].now, granted |-> 0, at |-> time]
  /\ UNCHANGED <<time, lease>>

(* external: Vault makes the credential; its term runs from here. *)
Grant ==
  /\ issue.phase = "asked"
  /\ issue' = [issue EXCEPT !.phase = "granted", !.granted = time, !.at = time]
  /\ UNCHANGED <<time, lease, request>>

Waiting == {c \in Calls : request[c].phase = "waiting"}

Issued ==
  LET new == [from |-> issue.from, granted |-> issue.granted]
  IN /\ issue.phase = "granted"
     /\ lease' = new /\ issue' = NoIssue
     /\ request' = [c \in Calls |-> IF c \in Waiting THEN [request[c] EXCEPT !.phase = "holding", !.lease = new] ELSE request[c]]
     /\ UNCHANGED time

IssueFails ==
  /\ issue.phase # "none"
  /\ issue' = NoIssue
  /\ request' = [c \in Calls |-> IF c \in Waiting THEN IdleRequest ELSE request[c]]
  /\ UNCHANGED <<time, lease>>

Done(c) ==
  /\ request[c].phase = "holding"
  /\ request' = [request EXCEPT ![c] = IdleRequest]
  /\ UNCHANGED <<time, lease, issue>>

Pass ==
  /\ time < MaxTime
  /\ \A c \in Calls : request[c].phase = "reading" => time < request[c].now + Lag
  /\ issue.phase # "none" => time < issue.at + Lag
  /\ time' = time + 1
  /\ UNCHANGED <<lease, issue, request>>

Next ==
  \/ \E c \in Calls : Resolve(c) \/ KvFails(c) \/ LeaseFor(c) \/ Done(c)
  \/ Grant \/ Issued \/ IssueFails \/ Pass

Spec == Init /\ [][Next]_leaseVars

-----------------------------------------------------------------------------
(* A credential is alive at Vault when a request gets it, though the request judged it *)
(* by an instant it took before its other secrets were read.                           *)
LeaseLive ==
  [][\A c \in Calls : request[c].phase # "holding" /\ request'[c].phase = "holding" =>
       time < request'[c].lease.granted + Term]_leaseVars
=============================================================================
