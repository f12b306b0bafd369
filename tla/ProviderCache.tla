---------------------------- MODULE ProviderCache ----------------------------
(***************************************************************************)
(* The pools one process keeps open on one tunnelled connection            *)
(* (db/factory.ts, ssh/tunnel.ts): the shared pool and a person's labelled *)
(* one in the provider cache, an agent's in the profiled one, all through  *)
(* one tunnel.  A task is cut at its awaits.                               *)
(***************************************************************************)
EXTENDS Naturals, FiniteSets

CONSTANTS Pools, Tunnels, Tasks, NULL

VARIABLES
  pool,     \* each pool: whether it is open, its key and its tunnel
  cached,   \* the pool under each key
  idle,     \* the keys unused for IDLE_TIMEOUT_MS
  active,   \* activeTunnels: the tunnel of the connection
  open,     \* the tunnels that carry traffic
  task,
  crossed   \* history: tasks met that may take each other's pool or tunnel

cacheVars == <<pool, cached, idle, active, open, task, crossed>>

Labelled == {"person"}
Profiled == {"agent"}   \* in profiledProviderCache; the others in providerCache
Keys == {"shared"} \cup Labelled \cup Profiled

Pool == [state: {"closed", "opening", "open"}, key: Keys \cup {NULL}, tunnel: Tunnels \cup {NULL}]
NoPool == [state |-> "closed", key |-> NULL, tunnel |-> NULL]

Task == [phase: {"none", "replacing", "tunneling", "connecting", "between",
                "evicting", "removing", "removingProfiled"},
         key: Keys \cup {NULL}, pool: Pools \cup {NULL}, preexisted: BOOLEAN]
NoTask == [phase |-> "none", key |-> NULL, pool |-> NULL, preexisted |-> FALSE]

ProvidersTypeOK ==
  /\ pool \in [Pools -> Pool]
  /\ cached \in [Keys -> Pools \cup {NULL}]
  /\ idle \subseteq Keys
  /\ active \in Tunnels \cup {NULL} /\ open \subseteq Tunnels
  /\ task \in [Tasks -> Task]
  /\ crossed \in BOOLEAN

Init ==
  /\ pool = [p \in Pools |-> NoPool]
  /\ cached = [k \in Keys |-> NULL]
  /\ idle = {} /\ active = NULL /\ open = {}
  /\ task = [t \in Tasks |-> NoTask]
  /\ crossed = FALSE

-----------------------------------------------------------------------------
Sets(t, what) == task' = [task EXCEPT ![t] = what]
Ends(t) == Sets(t, NoTask)

Busy(t) == task[t].phase # "none"
Others(t) == {u \in Tasks \ {t} : Busy(u)}

(* Two acquisitions of different pools may meet where the tunnel stood before both. *)
Meets(t, k) ==
  crossed' = (crossed \/ \E u \in Others(t) : ~task[u].preexisted \/ task[u].key = k \/ active = NULL)
Intrudes(t) == crossed' = (crossed \/ Others(t) # {})

IsConnected(k) == cached[k] # NULL /\ pool[cached[k]].state = "open"

(* A pool nobody refers to, and a tunnel nobody does, stand for new ones. *)
NewPools == {p \in Pools : /\ pool[p].state = "closed" /\ \A k \in Keys : cached[k] # p
                           /\ \A t \in Tasks : task[t].pool # p}
NewTunnels == {n \in Tunnels \ open : n # active /\ \A p \in Pools : pool[p].tunnel # n}

(* createDatabaseProvider: the connection rewritten to the tunnel's end. *)
Connecting(t, k, tunnel, preexisted) ==
  /\ NewPools # {}
  /\ LET p == CHOOSE p \in NewPools : TRUE IN
    /\ pool' = [pool EXCEPT ![p] = [state |-> "opening", key |-> k, tunnel |-> tunnel]]
    /\ Sets(t, [phase |-> "connecting", key |-> k, pool |-> p, preexisted |-> preexisted])

(* createSSHTunnel returns the tunnel that stands. *)
Opens(t, k) ==
  IF active # NULL THEN Connecting(t, k, active, TRUE)
  ELSE Sets(t, [NoTask EXCEPT !.phase = "tunneling", !.key = k]) /\ UNCHANGED pool

-----------------------------------------------------------------------------
(* getOrCreateProvider, acquireExecutionProfileProvider. *)

(* A pool that is connected is handed out; one with other credentials is replaced. *)
Reuse(k) ==
  /\ IsConnected(k)
  /\ idle' = idle \ {k}
  /\ UNCHANGED <<pool, cached, active, open, task, crossed>>

Replace(t, k) ==
  /\ ~Busy(t) /\ cached[k] # NULL
  /\ Meets(t, k)
  /\ Sets(t, [NoTask EXCEPT !.phase = "replacing", !.key = k, !.pool = cached[k]])
  /\ UNCHANGED <<pool, cached, idle, active, open>>

Replaced(t) ==
  LET k == task[t].key
  IN /\ task[t].phase = "replacing"
     /\ pool' = [pool EXCEPT ![task[t].pool] = NoPool]
     /\ cached' = [cached EXCEPT ![k] = NULL]
     /\ Sets(t, [NoTask EXCEPT !.phase = "between", !.key = k])
     /\ UNCHANGED <<idle, active, open, crossed>>

Create(t, k) ==
  /\ \/ ~Busy(t) /\ ~IsConnected(k) /\ Meets(t, k)
     \/ task[t].phase = "between" /\ task[t].key = k /\ UNCHANGED crossed
  /\ Opens(t, k)
  /\ UNCHANGED <<cached, idle, active, open>>

TunnelReady(t) ==
  /\ task[t].phase = "tunneling"
  /\ NewTunnels # {}
  /\ LET n == CHOOSE n \in NewTunnels : TRUE IN
       /\ active' = n /\ open' = open \cup {n}
       /\ Connecting(t, task[t].key, n, FALSE)
  /\ UNCHANGED <<cached, idle, crossed>>

TunnelRefused(t) ==
  /\ task[t].phase = "tunneling"
  /\ Ends(t)
  /\ UNCHANGED <<pool, cached, idle, active, open, crossed>>

Connected(t) ==
  LET k == task[t].key
      p == task[t].pool
  IN /\ task[t].phase = "connecting" /\ pool[p].tunnel \in open
     /\ pool' = [pool EXCEPT ![p].state = "open"]
     /\ cached' = [cached EXCEPT ![k] = p]
     /\ idle' = idle \ {k}
     /\ Ends(t)
     /\ UNCHANGED <<active, open, crossed>>

ClosesTunnel(t) == ~task[t].preexisted

(* The tunnel's cleanup clears the entry of the connection, whichever tunnel is there. *)
ConnectFails(t) ==
  /\ task[t].phase = "connecting"
  /\ IF ClosesTunnel(t) THEN open' = open \ {pool[task[t].pool].tunnel} /\ active' = NULL
     ELSE UNCHANGED <<open, active>>
  /\ pool' = [pool EXCEPT ![task[t].pool] = NoPool]
  /\ Ends(t)
  /\ UNCHANGED <<cached, idle, crossed>>

-----------------------------------------------------------------------------
(* evictIdleProviders, and removeProvider. *)

GrowIdle(k) ==
  /\ cached[k] # NULL /\ k \notin idle
  /\ idle' = idle \cup {k}
  /\ UNCHANGED <<pool, cached, active, open, task, crossed>>

CloseSSHTunnel == open' = open \ {active} /\ active' = NULL

(* connectionStillServed, asked about the key that was evicted: it looks up that very key. *)
(* A slip: the profiled pools are forgotten.                                               *)
StillServedShared(k, now) == k = "shared" /\ now["shared"] # NULL
StillServed(k, now) ==
  \/ k # "person" /\ now["shared"] # NULL
  \/ k # "person" /\ \E a \in Profiled : now[a] # NULL

Evict(t, k) ==
  /\ ~Busy(t) /\ k \in idle /\ cached[k] # NULL
  /\ Intrudes(t)
  /\ Sets(t, [NoTask EXCEPT !.phase = "evicting", !.key = k, !.pool = cached[k]])
  /\ UNCHANGED <<pool, cached, idle, active, open>>

(* A labelled pool's key names no tunnel. *)
Evicted(t) ==
  LET k == task[t].key
  IN /\ task[t].phase = "evicting"
     /\ pool' = [pool EXCEPT ![task[t].pool] = NoPool]
     /\ cached' = [cached EXCEPT ![k] = NULL]
     /\ IF k \in Labelled \/ StillServed(k, cached') THEN UNCHANGED <<open, active>> ELSE CloseSSHTunnel
     /\ idle' = idle \ {k}
     /\ Ends(t)
     /\ UNCHANGED crossed

(* The provider cache's pools of the connection, then the profiled ones, then the tunnel. *)
Remove(t) ==
  /\ ~Busy(t)
  /\ Intrudes(t)
  /\ Sets(t, [NoTask EXCEPT !.phase = "removing"])
  /\ UNCHANGED <<pool, cached, idle, active, open>>

Chosen(t) == {k \in Keys : cached[k] # NULL /\ (k \in Profiled <=> task[t].phase = "removingProfiled")}

RemoveNext(t) ==
  /\ task[t].phase \in {"removing", "removingProfiled"} /\ task[t].pool = NULL
  /\ \/ /\ \E k \in Chosen(t) : Sets(t, [task[t] EXCEPT !.key = k, !.pool = cached[k]])
        /\ UNCHANGED <<open, active>>
     \/ /\ Chosen(t) = {} /\ task[t].phase = "removing"
        /\ Sets(t, [NoTask EXCEPT !.phase = "removingProfiled"])
        /\ UNCHANGED <<open, active>>
     \/ /\ Chosen(t) = {} /\ task[t].phase = "removingProfiled"
        /\ CloseSSHTunnel
        /\ Ends(t)
  /\ UNCHANGED <<pool, cached, idle, crossed>>

Removed(t) ==
  LET k == task[t].key
  IN /\ task[t].phase \in {"removing", "removingProfiled"} /\ task[t].pool # NULL
     /\ pool' = [pool EXCEPT ![task[t].pool] = NoPool]
     /\ cached' = [cached EXCEPT ![k] = NULL]
     /\ idle' = idle \ {k}
     /\ Sets(t, [NoTask EXCEPT !.phase = task[t].phase])
     /\ UNCHANGED <<active, open, crossed>>

Next ==
  \/ \E k \in Keys : Reuse(k) \/ GrowIdle(k)
  \/ \E t \in Tasks, k \in Keys : Replace(t, k) \/ Create(t, k) \/ Evict(t, k)
  \/ \E t \in Tasks :
       \/ Replaced(t) \/ TunnelReady(t) \/ TunnelRefused(t) \/ Connected(t) \/ ConnectFails(t)
       \/ Evicted(t) \/ Remove(t) \/ RemoveNext(t) \/ Removed(t)

Spec == Init /\ [][Next]_cacheVars

-----------------------------------------------------------------------------
(* A pool that is cached and open goes through a tunnel that stands, and an open pool is *)
(* cached, so that something closes it, unless tasks met; the labelled pools, whose      *)
(* tunnel an eviction of the shared one closes, excepted.                                 *)
ServedThrough(k) == IsConnected(k) => pool[cached[k]].tunnel = active /\ active \in open

PoolsTrue ==
  crossed \/ /\ \A k \in Keys \ Labelled : ServedThrough(k)
             /\ \A p \in Pools : pool[p].state = "open" => cached[pool[p].key] = p
             /\ open \subseteq {active}

(* As the comment of connectionStillServed has it: every pool a connection still serves *)
(* goes through a tunnel that stands, the labelled ones too.                             *)
TunnelStands == crossed \/ \A k \in Keys : ServedThrough(k)
=============================================================================
