---------------------------- MODULE ServiceTokens ----------------------------
(***************************************************************************)
(* Service tokens (service-tokens/store.ts, api/service-auth.ts): issued,  *)
(* revoked, presented, and stamped as used by whoever they admit.  The     *)
(* stamp writes the whole collection back, as issuing and revoking do.     *)
(***************************************************************************)
EXTENDS CachedCollection

CONSTANT Name   \* of each token

(* The id of a token to make is a fresh one. *)
Unused(t) ==
  /\ stored[t] = "none" /\ landed[t] = 0
  /\ \A c \in Calls : calls[c].op = "create" => calls[c].entry # t

TokenAsked(c) ==
  \E t \in Entries :
    \/ Unused(t) /\ Begin(c, "create", t)
    \/ Begin(c, "revoke", t)
    \/ Begin(c, "authenticate", t)

CreateServiceToken(c) ==
  LET t == calls[c].entry
      base == calls[c].base
  IN /\ Decides(c, "create")
     /\ IF \E u \in Entries : Name[u] = Name[t] /\ base[u] = "live" THEN Leave(c)
        ELSE Write(c, [base EXCEPT ![t] = "live"])

RevokeServiceToken(c) ==
  LET t == calls[c].entry
      base == calls[c].base
  IN /\ Decides(c, "revoke")
     /\ IF base[t] = "live" THEN Write(c, [base EXCEPT ![t] = "revoked"]) ELSE Leave(c)

(* authenticateServiceToken, then the rate limit, then the stamp, which nobody awaits. *)
Admits(c) == Decides(c, "authenticate") /\ calls[c].base[calls[c].entry] = "live"

Admit(c) ==
  /\ Admits(c)
  /\ Asks(c, "touch", calls[c].entry)
  /\ UNCHANGED <<stored, cache, clock, landed>>

TurnAway(c) == Decides(c, "authenticate") /\ Leave(c)

(* A stamp less than a minute old is left. *)
TouchServiceToken(c) ==
  /\ Decides(c, "touch")
  /\ \/ Leave(c)
     \/ calls[c].base[calls[c].entry] # "none" /\ Write(c, calls[c].base)

TokensNext ==
  \/ \E c \in Calls : TokenAsked(c) \/ Passage(c)
  \/ \E c \in Calls : CreateServiceToken(c) \/ RevokeServiceToken(c) \/ Admit(c) \/ TurnAway(c) \/ TouchServiceToken(c)
  \/ \E p \in Replicas : Restart(p)
  \/ Pass

TokensSpec == CollectionInit /\ [][TokensNext]_collectionVars

-----------------------------------------------------------------------------
(* A call that began Ttl + Lag after a revocation reached the store, in whatever replica, *)
(* neither admits the token nor writes the revocation away.                               *)
Holds(c, t) == stored[t] = "revoked" /\ landed[t] + Ttl + Lag <= calls[c].begun

RevocationHolds ==
  [][\A c \in Calls, t \in Entries : Holds(c, t) =>
       /\ ~(Admits(c) /\ calls[c].entry = t /\ calls'[c].op = "touch")
       /\ Store(c) => stored'[t] = "revoked"]_collectionVars
=============================================================================
