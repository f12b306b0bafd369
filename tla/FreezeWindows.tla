---------------------------- MODULE FreezeWindows ----------------------------
(***************************************************************************)
(* Freeze windows (freezes/store.ts): declared, ended early, and consulted *)
(* by the gate every write passes (api/write-gate.ts).  A window covers    *)
(* the datasource from when it is declared until it is deleted.            *)
(***************************************************************************)
EXTENDS CachedCollection

WindowAsked(c) == \E w \in Entries, op \in {"create", "delete", "write"} : Begin(c, op, w)

CreateFreezeWindow(c) ==
  /\ Decides(c, "create")
  /\ IF calls[c].base[calls[c].entry] = "open" THEN Leave(c)
     ELSE Write(c, [calls[c].base EXCEPT ![calls[c].entry] = "open"])

DeleteFreezeWindow(c) ==
  /\ Decides(c, "delete")
  /\ IF calls[c].base[calls[c].entry] = "open" THEN Write(c, [calls[c].base EXCEPT ![calls[c].entry] = "none"])
     ELSE Leave(c)

ActiveFreeze(list) == \E w \in Entries : list[w] = "open"

(* The gate of a write: it goes on to run, or is refused. *)
Passes(c) ==
  /\ Decides(c, "write") /\ ~ActiveFreeze(calls[c].base)
  /\ Puts(c, [calls[c] EXCEPT !.op = "run"])
  /\ UNCHANGED <<stored, cache, clock, landed>>

Refuses(c) == Decides(c, "write") /\ ActiveFreeze(calls[c].base) /\ Leave(c)

Ran(c) == Decides(c, "run") /\ Leave(c)

WindowsNext ==
  \/ \E c \in Calls : WindowAsked(c) \/ Passage(c)
  \/ \E c \in Calls : CreateFreezeWindow(c) \/ DeleteFreezeWindow(c) \/ Passes(c) \/ Refuses(c) \/ Ran(c)
  \/ \E p \in Replicas : Restart(p)
  \/ Pass

WindowsSpec == CollectionInit /\ [][WindowsNext]_collectionVars

-----------------------------------------------------------------------------
(* A write that asked Ttl + Lag after a window reached the store, in whatever *)
(* replica, does not pass the gate while the window is there.                 *)
FreezeSeen ==
  [][\A c \in Calls, w \in Entries :
       stored[w] = "open" /\ landed[w] + Ttl + Lag <= calls[c].begun =>
         ~(calls[c].op = "write" /\ calls'[c].op = "run")]_collectionVars
=============================================================================
