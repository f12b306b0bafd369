-------------------------- MODULE CachedCollection --------------------------
(***************************************************************************)
(* A collection every replica reads through a cache of a few seconds and   *)
(* writes back whole: readStored and writeAll, as the administrators'       *)
(* stores share them (service tokens, freeze windows, channels, roles,      *)
(* environments, runbooks, SSH profiles, datasources).  A call is           *)
(* cut at its awaits; what it decides on the list it read is its own        *)
(* store's module.                                                          *)
(***************************************************************************)
EXTENDS Naturals

CONSTANTS
  Entries,   \* the records a collection may hold
  Values,    \* what a record may be, "none" (not stored) among them
  Ops,       \* what a call may ask
  Replicas,
  Calls,
  Home,      \* the replica each call runs in
  Ttl,       \* CACHE_TTL_MS
  Lag,       \* the longest from the store's answer to the call's next step
  MaxClock   \* bound: instants of a behaviour

VARIABLES
  stored,    \* the collection in the server store
  cache,     \* each replica's copy of it, with its instant
  calls,
  clock,
  landed     \* history: when each record last changed in the store

collectionVars == <<stored, cache, calls, clock, landed>>

List == [Entries -> Values]
Nothing == [e \in Entries |-> "none"]

(* A call: the record it is about, the list it read and the one it writes, *)
(* when it began and when it last heard of the store.                      *)
Call == [phase: {"idle", "fetching", "fetched", "read", "writing", "stored"}, op: Ops \cup {"none"},
         entry: Entries, base: List, list: List, begun: Nat, at: Nat]
IdleCall == [phase |-> "idle", op |-> "none", entry |-> CHOOSE e \in Entries : TRUE,
             base |-> Nothing, list |-> Nothing, begun |-> 0, at |-> 0]

CollectionTypeOK ==
  /\ stored \in List
  /\ cache \in [Replicas -> [full: BOOLEAN, list: List, at: Nat]]
  /\ calls \in [Calls -> Call]
  /\ clock \in Nat \ {0}
  /\ landed \in [Entries -> Nat]

CollectionInit ==
  /\ stored = Nothing
  /\ cache = [p \in Replicas |-> [full |-> FALSE, list |-> Nothing, at |-> 0]]
  /\ calls = [c \in Calls |-> IdleCall]
  /\ clock = 1
  /\ landed = [e \in Entries |-> 0]

-----------------------------------------------------------------------------
Puts(c, call) == calls' = [calls EXCEPT ![c] = call]
Rests(c) == Puts(c, IdleCall)

(* A slip: the copy is never too old. *)
FreshForever(p) == cache[p].full
Fresh(p) == cache[p].full /\ clock < cache[p].at + Ttl

(* readStored: a copy young enough is the answer, without a question. *)
Asks(c, op, e) ==
  LET p == Home[c]
  IN Puts(c, [IdleCall EXCEPT !.op = op, !.entry = e, !.begun = clock,
                              !.phase = IF Fresh(p) THEN "read" ELSE "fetching",
                              !.base = IF Fresh(p) THEN cache[p].list ELSE Nothing])

Begin(c, op, e) ==
  /\ calls[c].phase = "idle"
  /\ Asks(c, op, e)
  /\ UNCHANGED <<stored, cache, clock, landed>>

(* getCollection: what the store held when it answered. *)
Fetch(c) ==
  /\ calls[c].phase = "fetching"
  /\ Puts(c, [calls[c] EXCEPT !.phase = "fetched", !.base = stored, !.at = clock])
  /\ UNCHANGED <<stored, cache, clock, landed>>

Fill(c) ==
  /\ calls[c].phase = "fetched"
  /\ cache' = [cache EXCEPT ![Home[c]] = [full |-> TRUE, list |-> calls[c].base, at |-> clock]]
  /\ Puts(c, [calls[c] EXCEPT !.phase = "read"])
  /\ UNCHANGED <<stored, clock, landed>>

(* The caller has its list, and makes of it nothing, or a list to write. *)
Decides(c, op) == calls[c].phase = "read" /\ calls[c].op = op

Leave(c) ==
  /\ calls[c].phase = "read"
  /\ Rests(c)
  /\ UNCHANGED <<stored, cache, clock, landed>>

Write(c, list) ==
  /\ calls[c].phase = "read"
  /\ Puts(c, [calls[c] EXCEPT !.phase = "writing", !.list = list])
  /\ UNCHANGED <<stored, cache, clock, landed>>

(* writeAll: the whole collection over whatever is stored by now, then the copy. *)
Store(c) ==
  /\ calls[c].phase = "writing"
  /\ stored' = calls[c].list
  /\ landed' = [e \in Entries |-> IF calls[c].list[e] = stored[e] THEN landed[e] ELSE clock]
  /\ Puts(c, [calls[c] EXCEPT !.phase = "stored", !.at = clock])
  /\ UNCHANGED <<cache, clock>>

Keep(c) ==
  /\ calls[c].phase = "stored"
  /\ cache' = [cache EXCEPT ![Home[c]] = [full |-> TRUE, list |-> calls[c].list, at |-> clock]]
  /\ Rests(c)
  /\ UNCHANGED <<stored, clock, landed>>

(* The store refuses the question or the write, or its answer is lost. *)
Fails(c) ==
  /\ calls[c].phase \in {"fetching", "writing", "stored"}
  /\ Rests(c)
  /\ UNCHANGED <<stored, cache, clock, landed>>

(* A replica starts again: its copy and its calls are gone. *)
Restart(p) ==
  /\ cache' = [cache EXCEPT ![p] = [full |-> FALSE, list |-> Nothing, at |-> 0]]
  /\ calls' = [c \in Calls |-> IF Home[c] = p THEN IdleCall ELSE calls[c]]
  /\ UNCHANGED <<stored, clock, landed>>

Waits(c) == calls[c].phase \in {"fetched", "stored"} => clock < calls[c].at + Lag

Pass ==
  /\ clock < MaxClock
  /\ \A c \in Calls : Waits(c)
  /\ clock' = clock + 1
  /\ UNCHANGED <<stored, cache, calls, landed>>

Passage(c) == Fetch(c) \/ Fill(c) \/ Store(c) \/ Keep(c) \/ Fails(c)

-----------------------------------------------------------------------------
(* Nobody decides or writes on a list older than the cache may be: a record *)
(* it has wrong changed less than Ttl + Lag before the call began.          *)
NeverOlder ==
  \A c \in Calls : calls[c].phase \in {"read", "writing"} =>
    \A e \in Entries : calls[c].base[e] # stored[e] => calls[c].begun < landed[e] + Ttl + Lag
=============================================================================
