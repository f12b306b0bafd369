---------------------------- MODULE Transactions ----------------------------
(***************************************************************************)
(* The one transaction of a person's PostgreSQL provider                   *)
(* (db/providers/sql/postgres.ts, api/db/transaction/route.ts) and the     *)
(* studio that drives it: the Begin, Commit and Rollback buttons           *)
(* (use-transaction-control.ts) and the playground, which wraps a run in a *)
(* transaction it rolls back (use-query-execution.ts).  A held client of   *)
(* the pool serves its statements one after another; what the provider     *)
(* does when a statement is answered happens at once with the answer.      *)
(***************************************************************************)
EXTENDS Naturals, Sequences, FiniteSets

CONSTANTS
  Clients,   \* of the person's pool
  Runs,      \* bound: playground runs
  Presses,   \* bound: presses of a button, or statements run while a transaction is believed open
  NULL

VARIABLES
  client, active,    \* txClient, txActive
  armed, timeout,    \* the timers set; the one txTimeout names
  stranded,          \* history: the clients whose BEGIN failed
  free, session,     \* the pool's free clients; each client's connection
  call,              \* the requests, and the timer's expiry
  run, believes,     \* the playground's runs; transactionActive
  permanent,         \* the statements whose changes were kept
  crossed            \* a call met the end of a transaction under way, or another beginning

providerVars == <<client, active, armed, timeout, stranded>>
engineVars == <<free, session, permanent>>
studioVars == <<run, believes>>
txVars == <<providerVars, engineVars, call, studioVars, crossed>>

Begins == Presses \cup (Runs \X {"begin"})
Expiry(k) == <<k, "expire">>
Ids == Begins \cup (Runs \X {"query", "rollback"}) \cup {Expiry(k) : k \in Begins}

Kind(k) == IF k \in Presses THEN call[k].asked ELSE k[2]
Ends == {"commit", "rollback", "expire"}
UnderWay(kinds) == \E k \in Ids : call[k].step \in {"connecting", "working"} /\ Kind(k) \in kinds

Unused == [asked |-> "nothing", step |-> "unsent", covers |-> {}]
Idle == [queue |-> <<>>, open |-> FALSE, spoiled |-> FALSE, pending |-> {}]

TxTypeOK ==
  /\ client \in Clients \cup {NULL} /\ active \in BOOLEAN
  /\ armed \subseteq Begins /\ timeout \in Begins \cup {NULL}
  /\ free \subseteq Clients /\ stranded \subseteq Clients /\ \A c \in Clients : session[c].pending \subseteq Ids
  /\ \A k \in Ids : call[k].step \in {"unsent", "sent", "connecting", "working", "ok", "failed", "heard"}
  /\ permanent \subseteq Ids

TxInit ==
  /\ client = NULL /\ active = FALSE /\ armed = {} /\ timeout = NULL /\ stranded = {}
  /\ free = Clients /\ session = [c \in Clients |-> Idle]
  /\ call = [k \in Ids |-> Unused]
  /\ run = [r \in Runs |-> "idle"] /\ believes = FALSE
  /\ permanent = {} /\ crossed = FALSE

-----------------------------------------------------------------------------
(* The studio *)

Press(p) ==
  /\ call[p].step = "unsent"
  /\ \E what \in IF believes THEN {"commit", "rollback", "query"} ELSE {"begin"} :
       call' = [call EXCEPT ![p].asked = what, ![p].step = "sent"]
  /\ UNCHANGED <<providerVars, engineVars, studioVars, crossed>>

Heard(p) ==
  /\ p \in Presses /\ call[p].step \in {"ok", "failed"}
  /\ believes' = IF call[p].step = "failed" \/ Kind(p) = "query" THEN believes ELSE Kind(p) = "begin"
  /\ call' = [call EXCEPT ![p].step = "heard"]
  /\ UNCHANGED <<providerVars, engineVars, run, crossed>>

Ask(r, what, stage) ==
  /\ call' = [call EXCEPT ![<<r, what>>].step = "sent"]
  /\ run' = [run EXCEPT ![r] = stage]
  /\ UNCHANGED <<providerVars, engineVars, believes, crossed>>

Answered(r, what) == call[<<r, what>>].step \in {"ok", "failed"}

Playground(r) == run[r] = "idle" /\ ~believes /\ Ask(r, "begin", "beginning")

(* A begin that was refused is logged and the statement sent all the same. *)
PlaygroundBegun(r) == run[r] = "beginning" /\ Answered(r, "begin") /\ Ask(r, "query", "querying")

(* The run is cancelled, or a newer one takes its tab: the statement stays on its way. *)
Abort(r) ==
  \/ /\ run[r] = "beginning" /\ run' = [run EXCEPT ![r] = "aborting"]
     /\ UNCHANGED <<providerVars, engineVars, call, believes, crossed>>
  \/ run[r] = "querying" /\ Ask(r, "rollback", "rolling")

PlaygroundEnds(r) ==
  /\ \/ run[r] = "aborting" /\ Answered(r, "begin")
     \/ run[r] = "querying" /\ Answered(r, "query")
  /\ Ask(r, "rollback", "rolling")

-----------------------------------------------------------------------------
(* The provider *)

Refused(k) == call' = [call EXCEPT ![k].step = "failed"] /\ UNCHANGED <<session, crossed>>

OnClient(k) ==
  /\ call' = [call EXCEPT ![k].step = "working"]
  /\ session' = [session EXCEPT ![client].queue = Append(@, k)]
  /\ crossed' = (crossed \/ UnderWay(Ends))

BeginTransaction(k) ==
  /\ call[k].step = "sent" /\ Kind(k) = "begin"
  /\ \/ active /\ Refused(k)
     \/ /\ ~active
        /\ call' = [call EXCEPT ![k].step = "connecting"]
        /\ crossed' = (crossed \/ UnderWay({"begin"})) /\ UNCHANGED session
  /\ UNCHANGED <<providerVars, free, permanent, studioVars>>

Connected(k) ==
  /\ call[k].step = "connecting"
  /\ \/ \E c \in free :
          /\ free' = free \ {c} /\ client' = c
          /\ call' = [call EXCEPT ![k].step = "working"]
          /\ session' = [session EXCEPT ![c].queue = Append(@, k)]
     \/ call' = [call EXCEPT ![k].step = "failed"] /\ UNCHANGED <<free, client, session>>
  /\ UNCHANGED <<active, armed, timeout, stranded, permanent, studioVars, crossed>>

InTransaction == active /\ client # NULL

EndTransaction(k) ==
  /\ call[k].step = "sent" /\ Kind(k) \in {"commit", "rollback"}
  /\ \/ ~InTransaction /\ Refused(k) /\ UNCHANGED <<armed, timeout>>
     \/ InTransaction /\ OnClient(k) /\ armed' = armed \ {timeout} /\ timeout' = NULL
  /\ UNCHANGED <<client, active, stranded, free, permanent, studioVars>>

(* A slip: without a transaction the statement goes to the pool. *)
QueryAnyway(k) ==
  /\ call[k].step = "sent" /\ Kind(k) = "query"
  /\ \/ InTransaction /\ OnClient(k) /\ UNCHANGED permanent
     \/ /\ ~InTransaction /\ call' = [call EXCEPT ![k].step = "ok"]
        /\ permanent' = permanent \cup {k} /\ UNCHANGED <<session, crossed>>
  /\ UNCHANGED <<providerVars, free, studioVars>>

QueryInTransaction(k) ==
  /\ call[k].step = "sent" /\ Kind(k) = "query"
  /\ (InTransaction /\ OnClient(k)) \/ (~InTransaction /\ Refused(k))
  /\ UNCHANGED <<providerVars, free, permanent, studioVars>>

(* No begin takes the five minutes of the timer. *)
ExpireTransaction(k) ==
  /\ k \in armed /\ ~UnderWay({"begin"}) /\ armed' = armed \ {k}
  /\ IF InTransaction THEN OnClient(Expiry(k)) ELSE UNCHANGED <<call, session, crossed>>
  /\ UNCHANGED <<client, active, timeout, stranded, free, permanent, studioVars>>

-----------------------------------------------------------------------------
(* The engine's answer to a client's first statement, and what the provider does with it *)

Next1(c) == Head(session[c].queue)
Answers(c, kinds) == session[c].queue # <<>> /\ Kind(Next1(c)) \in kinds
Step(c, outcome) == [call EXCEPT ![Next1(c)].step = outcome]

(* A slip: the transaction is begun without its timer. *)
BegunUntimed(c) ==
  /\ Answers(c, {"begin"})
  /\ session' = [session EXCEPT ![c].queue = Tail(@), ![c].open = TRUE]
  /\ active' = TRUE /\ call' = Step(c, "ok")
  /\ UNCHANGED <<client, armed, timeout, stranded, free, permanent, studioVars, crossed>>

Begun(c) ==
  /\ Answers(c, {"begin"})
  /\ session' = [session EXCEPT ![c].queue = Tail(@), ![c].open = TRUE]
  /\ active' = TRUE /\ armed' = armed \cup {Next1(c)} /\ timeout' = Next1(c)
  /\ call' = Step(c, "ok")
  /\ UNCHANGED <<client, stranded, free, permanent, studioVars, crossed>>

(* BEGIN itself fails: the client is not given back, and the next begin forgets it. *)
BeginBreaks(c) ==
  /\ Answers(c, {"begin"})
  /\ session' = [session EXCEPT ![c].queue = Tail(@)]
  /\ call' = Step(c, "failed") /\ stranded' = stranded \cup {c}
  /\ UNCHANGED <<client, active, armed, timeout, free, permanent, studioVars, crossed>>

(* COMMIT keeps what the transaction did, unless a statement of it failed; then the *)
(* engine rolls back and answers without an error.                                   *)
Keeps(c) == Kind(Next1(c)) = "commit" /\ session[c].open /\ ~session[c].spoiled

(* A slip: a COMMIT the engine refuses does not give the client back. *)
ReleaseOnSuccess(ok) ==
  /\ free' = IF ok THEN free \cup ({client} \ {NULL}) ELSE free
  /\ client' = NULL /\ active' = FALSE
Release(ok) == free' = free \cup ({client} \ {NULL}) /\ client' = NULL /\ active' = FALSE

Ended(c) ==
  /\ Answers(c, Ends)
  /\ session' = [session EXCEPT ![c] = [Idle EXCEPT !.queue = Tail(session[c].queue)]]
  /\ \E ok \in IF Keeps(c) THEN BOOLEAN ELSE {TRUE} :
       /\ permanent' = IF Keeps(c) /\ ok THEN permanent \cup session[c].pending ELSE permanent
       /\ call' = [Step(c, IF ok /\ client # NULL THEN "ok" ELSE "failed") EXCEPT
                     ![Next1(c)].covers = session[c].pending]
       /\ IF client = NULL THEN UNCHANGED <<free, client, active>> ELSE Release(ok)
  /\ IF Kind(Next1(c)) = "expire" /\ client # NULL
     THEN armed' = armed \ {timeout} /\ timeout' = NULL
     ELSE UNCHANGED <<armed, timeout>>
  /\ UNCHANGED <<stranded, studioVars, crossed>>

Ran(c) ==
  /\ Answers(c, {"query"})
  /\ \/ /\ session[c].open /\ ~session[c].spoiled
        /\ session' = [session EXCEPT ![c].queue = Tail(@), ![c].pending = @ \cup {Next1(c)}]
        /\ call' = Step(c, "ok") /\ UNCHANGED permanent
     \/ /\ ~session[c].open
        /\ session' = [session EXCEPT ![c].queue = Tail(@)]
        /\ permanent' = permanent \cup {Next1(c)} /\ call' = Step(c, "ok")
     \/ /\ session' = [session EXCEPT ![c].queue = Tail(@), ![c].spoiled = session[c].open]
        /\ call' = Step(c, "failed") /\ UNCHANGED permanent
  /\ UNCHANGED <<providerVars, free, studioVars, crossed>>

Engine(c) == Begun(c) \/ BeginBreaks(c) \/ Ended(c) \/ Ran(c)

TxNext ==
  \/ \E p \in Presses : Press(p) \/ Heard(p)
  \/ \E r \in Runs : Playground(r) \/ PlaygroundBegun(r) \/ Abort(r) \/ PlaygroundEnds(r)
  \/ \E k \in Ids : BeginTransaction(k) \/ Connected(k) \/ EndTransaction(k) \/ QueryInTransaction(k)
  \/ \E k \in Begins : ExpireTransaction(k)
  \/ \E c \in Clients : Engine(c)

Spec == TxInit /\ [][TxNext]_txVars

-----------------------------------------------------------------------------
(* "Playground mode: queries are auto-rolled back": what a playground run did is never *)
(* kept, cancelled or refused its transaction, unless calls met or the person's own    *)
(* Commit took it along.                                                                *)
Committed(k) == \E p \in Presses : Kind(p) = "commit" /\ k \in call[p].covers
PlaygroundUndone ==
  \A r \in Runs : <<r, "query">> \in permanent =>
    crossed \/ Committed(<<r, "query">>)

(* No client is lost to the pool but by a BEGIN that failed, until calls meet: each is free, *)
(* or the one the provider holds.                                                           *)
ClientsReturned == ~crossed => \A c \in Clients : c \in free <=> c # client /\ c \notin stranded

(* "Dedicated client checked out from the pool and held for the transaction's duration": one *)
(* that is out of the pool is beginning a transaction, in one, or ending it.                 *)
HeldForTransaction ==
  ~crossed => \A c \in Clients : c \in free \/ session[c].open \/ session[c].queue # <<>>

(* "Auto-rollback after timeout to prevent leaked locks": an open transaction has its *)
(* timer set, or its end is on the way, so none stays open, whoever forgets it.        *)
LocksFreed ==
  ~crossed => \A c \in Clients : session[c].open =>
    timeout \in armed \/ \E i \in DOMAIN session[c].queue : Kind(session[c].queue[i]) \in Ends

(* "Transaction Committed: all changes have been saved": of every statement answered *)
(* inside it.                                                                         *)
CommitSaves ==
  \A k \in Presses : Kind(k) = "commit" /\ call[k].step = "ok" => call[k].covers \subseteq permanent
=============================================================================
