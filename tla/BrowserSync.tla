----------------------------- MODULE BrowserSync -----------------------------
(***************************************************************************)
(* A browser's collections and the server's copy of them                   *)
(* (hooks/use-storage-sync.ts): edits pushed after a pause, failed pushes  *)
(* queued again and retried, a migration and a pull when the page opens.   *)
(* A collection's value is the number of the edit that made it; 0: none.   *)
(***************************************************************************)
EXTENDS Naturals

CONSTANTS
  Collections,
  Flushes,    \* bound: flushes under way at once
  MaxEdits,   \* bound: edits of a behaviour
  MaxLost     \* bound: requests of a behaviour that fail

VARIABLES
  local, server,
  pending,          \* pendingCollectionsRef
  debounce, retry,  \* whether each timer is set
  flight,           \* each flush: what it sends, and what is known of it
  page,             \* how far the hook has come since it was mounted
  heard,            \* what the migration sends, then what the pull read
  migrated,         \* MIGRATION_FLAG
  edits, lost,
  spoiled           \* history: the collections written while a push, a pull or a closing page had an edit of theirs

syncVars == <<local, server, pending, debounce, retry, flight, page, heard, migrated, edits, lost, spoiled>>

Values == 0..MaxEdits
Copy == [Collections -> Values]
Empty == [k \in Collections |-> 0]
NoFlight == [mine |-> FALSE, out |-> {}, failed |-> {}, value |-> Empty]

SyncTypeOK ==
  /\ local \in Copy /\ server \in Copy /\ heard \in Copy
  /\ pending \subseteq Collections
  /\ debounce \in BOOLEAN /\ retry \in BOOLEAN /\ migrated \in BOOLEAN
  /\ flight \in [Flushes -> [mine: BOOLEAN, out: SUBSET Collections, failed: SUBSET Collections, value: Copy]]
  /\ page \in {"closed", "opening", "migrating", "pulling", "pulled", "open"}
  /\ edits \in 0..MaxEdits /\ lost \in 0..MaxLost
  /\ spoiled \subseteq Collections

Init ==
  /\ local = Empty /\ server = Empty /\ heard = Empty
  /\ pending = {} /\ debounce = FALSE /\ retry = FALSE /\ migrated = FALSE
  /\ flight = [f \in Flushes |-> NoFlight]
  /\ page = "closed" /\ edits = 0 /\ lost = 0
  /\ spoiled = {}

-----------------------------------------------------------------------------
Flown(f) == flight[f].out \cup flight[f].failed
Unsaved == pending \cup UNION {Flown(f) : f \in Flushes}
Fault == lost < MaxLost /\ lost' = lost + 1

(* The storage facade: the value, and the event the hook listens to once the mode is known. *)
Edit(k) ==
  /\ page # "closed" /\ edits < MaxEdits
  /\ edits' = edits + 1
  /\ local' = [local EXCEPT ![k] = edits + 1]
  /\ IF page = "opening" THEN spoiled' = spoiled \cup {k} /\ UNCHANGED <<pending, debounce>>
     ELSE pending' = pending \cup {k} /\ debounce' = TRUE /\ UNCHANGED spoiled
  /\ UNCHANGED <<server, retry, flight, page, heard, migrated, lost>>

(* flushPending: every pending collection as it is now, each in a request of its own. *)
Flush ==
  /\ pending' = {}
  /\ spoiled' = spoiled \cup {k \in pending : \E f \in Flushes : k \in flight[f].out}
  /\ IF pending = {} THEN UNCHANGED flight
     ELSE \E f \in Flushes :
            /\ flight[f] = NoFlight
            /\ flight' = [flight EXCEPT ![f] = [mine |-> TRUE, out |-> pending, failed |-> {}, value |-> local]]
  /\ UNCHANGED <<local, server, page, heard, migrated, edits, lost>>

DebounceFires == debounce /\ debounce' = FALSE /\ UNCHANGED retry /\ Flush
RetryFires == retry /\ retry' = FALSE /\ UNCHANGED debounce /\ Flush

Reaches(f, k) == server' = [server EXCEPT ![k] = flight[f].value[k]]

(* A push arrives and is answered, fails, or arrives and its answer is lost. *)
Push(f, k) ==
  /\ k \in flight[f].out
  /\ \/ /\ Reaches(f, k)
        /\ flight' = [flight EXCEPT ![f].out = @ \ {k}]
        /\ UNCHANGED lost
     \/ /\ Reaches(f, k) \/ UNCHANGED server
        /\ flight' = [flight EXCEPT ![f].out = @ \ {k}, ![f].failed = @ \cup {k}]
        /\ Fault
  /\ UNCHANGED <<local, pending, debounce, retry, page, heard, migrated, edits, spoiled>>

(* A slip: what failed is left to the next edit. *)
RequeuedNothing(f) == pending
Requeued(f) == pending \cup flight[f].failed

(* Every push of a flush is answered: what failed is queued again, a page that is gone arms no timer. *)
FlushEnds(f) ==
  /\ flight[f] # NoFlight /\ flight[f].out = {}
  /\ flight' = [flight EXCEPT ![f] = NoFlight]
  /\ IF flight[f].mine /\ flight[f].failed # {} THEN pending' = Requeued(f) /\ retry' = TRUE
     ELSE UNCHANGED <<pending, retry>>
  /\ UNCHANGED <<local, server, debounce, page, heard, migrated, edits, lost, spoiled>>

-----------------------------------------------------------------------------
(* The page opens and closes; a later hook has refs of its own. *)

Open ==
  /\ page = "closed" /\ page' = "opening"
  /\ UNCHANGED <<local, server, pending, debounce, retry, flight, heard, migrated, edits, lost, spoiled>>

(* The mode is known: what this browser holds is sent once, then the server is read. *)
Discover ==
  /\ page = "opening"
  /\ IF migrated \/ local = Empty THEN page' = "pulling" /\ migrated' = TRUE /\ UNCHANGED heard
     ELSE page' = "migrating" /\ heard' = local /\ UNCHANGED migrated
  /\ UNCHANGED <<local, server, pending, debounce, retry, flight, edits, lost, spoiled>>

Merged == [k \in Collections |-> IF heard[k] = 0 THEN server[k] ELSE heard[k]]

Migrate ==
  /\ page = "migrating" /\ page' = "pulling"
  /\ \/ server' = Merged /\ migrated' = TRUE /\ UNCHANGED lost
     \/ (server' = Merged \/ UNCHANGED server) /\ Fault /\ UNCHANGED migrated
  /\ spoiled' = spoiled \cup {k \in Collections : heard[k] # 0 /\ heard[k] # local[k]}
  /\ UNCHANGED <<local, pending, debounce, retry, flight, heard, edits>>

PullRead ==
  /\ page = "pulling" /\ page' = "pulled"
  /\ heard' = server
  /\ UNCHANGED <<local, server, pending, debounce, retry, flight, migrated, edits, lost, spoiled>>

(* The pull's answer is written over whatever the browser holds by then. *)
PullLands ==
  /\ page = "pulled" /\ page' = "open"
  /\ local' = [k \in Collections |-> IF heard[k] = 0 THEN local[k] ELSE heard[k]]
  /\ spoiled' = spoiled \cup {k \in Collections : heard[k] # 0 /\ (heard[k] # server[k] \/ k \in Unsaved)}
  /\ UNCHANGED <<server, pending, debounce, retry, flight, heard, migrated, edits, lost>>

PullFails ==
  /\ page \in {"pulling", "pulled"} /\ page' = "open"
  /\ Fault
  /\ UNCHANGED <<local, server, pending, debounce, retry, flight, heard, migrated, edits, spoiled>>

Close ==
  /\ page # "closed" /\ page' = "closed"
  /\ pending' = {} /\ debounce' = FALSE /\ retry' = FALSE
  /\ flight' = [f \in Flushes |-> [flight[f] EXCEPT !.mine = FALSE]]
  /\ spoiled' = spoiled \cup Unsaved
  /\ UNCHANGED <<local, server, heard, migrated, edits, lost>>

Next ==
  \/ \E k \in Collections : Edit(k)
  \/ DebounceFires \/ RetryFires
  \/ \E f \in Flushes : FlushEnds(f) \/ \E k \in Collections : Push(f, k)
  \/ Open \/ Discover \/ Migrate \/ PullRead \/ PullLands \/ PullFails \/ Close

Spec == Init /\ [][Next]_syncVars

-----------------------------------------------------------------------------
(* An edit the server does not have is on its way: queued with a timer set, or in a push *)
(* whose failure queues it again.  Not where a pull, a closing page or a second push of   *)
(* the same collection crossed it.                                                        *)
NothingForgotten ==
  \A k \in Collections \ spoiled : local[k] # server[k] =>
    \/ k \in pending /\ (debounce \/ retry)
    \/ \E f \in Flushes : flight[f].mine /\ k \in Flown(f)
=============================================================================
