-------------------------- MODULE CollectionsProofs --------------------------
(***************************************************************************)
(* How old what a replica reads of a collection can be, for any number of  *)
(* records, replicas and calls, whatever the stores decide on the list     *)
(* they read: NeverOlder is inductive with the same of caches and answers. *)
(* From it, that a freeze window and a revocation hold in every replica    *)
(* Ttl + Lag after they reached the store.                                 *)
(***************************************************************************)
EXTENDS ServiceTokens, FreezeWindows, TLAPS

(* What the constants are: a cache lives for an instant at least. *)
CollectionConstants ==
  /\ Ttl \in Nat \ {0} /\ Lag \in Nat
  /\ Entries # {} /\ "none" \in Values
  /\ Home \in [Calls -> Replicas]

(* A call against the store as it is: an answer is at most Lag old; where it or what is *)
(* made of it differs from the store, the store changed after it was given, and a list   *)
(* read is wrong only about records that changed within Ttl + Lag of the call's begin.   *)
CallYoung(d) ==
  /\ d.begun <= clock
  /\ d.phase \in {"fetched", "stored"} => d.at <= clock /\ clock <= d.at + Lag
  /\ d.phase = "fetched" => d.begun <= d.at /\ \A e \in Entries : d.base[e] # stored[e] => d.at <= landed[e]
  /\ d.phase = "stored" => \A e \in Entries : d.list[e] # stored[e] => d.at <= landed[e]
  /\ d.phase \in {"read", "writing"} => \A e \in Entries : d.base[e] # stored[e] => d.begun < landed[e] + Ttl + Lag

CopyYoung(copy) ==
  copy.full => copy.at <= clock /\ \A e \in Entries : copy.list[e] # stored[e] => copy.at <= landed[e] + Lag

Young ==
  /\ CollectionTypeOK
  /\ \A c \in Calls : CallYoung(calls[c])
  /\ \A p \in Replicas : CopyYoung(cache[p])

Copy == [full: BOOLEAN, list: List, at: Nat]

LEMMA IdleTyped ==
  ASSUME CollectionConstants
  PROVE  Nothing \in List /\ IdleCall \in Call /\ IdleCall.phase = "idle" /\ IdleCall.begun = 0
BY DEF CollectionConstants, Nothing, List, IdleCall, Call

(* A step of one call that leaves the store and the caches alone. *)
LEMMA CallStep ==
  ASSUME Young, NEW c \in Calls, NEW d \in Call, Puts(c, d), CallYoung(d),
         UNCHANGED <<stored, cache, clock, landed>>
  PROVE  Young'
<1>1. \A k \in Calls : calls'[k] = IF k = c THEN d ELSE calls[k]
  BY DEF Puts, Young, CollectionTypeOK
<1>2. CollectionTypeOK'
  BY DEF Puts, Young, CollectionTypeOK
<1>3. \A k \in Calls : CallYoung(calls[k])'
  BY <1>1 DEF Young, CallYoung
<1>4. \A p \in Replicas : CopyYoung(cache[p])'
  BY DEF Young, CopyYoung
<1>5. QED
  BY <1>2, <1>3, <1>4 DEF Young

(* A step of one call that also fills the cache of its replica. *)
LEMMA CacheStep ==
  ASSUME CollectionConstants, Young, NEW c \in Calls, NEW d \in Call, Puts(c, d), CallYoung(d),
         NEW copy \in Copy, CopyYoung(copy), cache' = [cache EXCEPT ![Home[c]] = copy],
         UNCHANGED <<stored, clock, landed>>
  PROVE  Young'
<1>1. \A k \in Calls : calls'[k] = IF k = c THEN d ELSE calls[k]
  BY DEF Puts, Young, CollectionTypeOK
<1>2. \A p \in Replicas : cache'[p] = IF p = Home[c] THEN copy ELSE cache[p]
  BY DEF Young, CollectionTypeOK
<1>3. CollectionTypeOK'
  BY DEF Puts, Young, CollectionTypeOK, Copy
<1>4. \A k \in Calls : CallYoung(calls[k])'
  BY <1>1 DEF Young, CallYoung
<1>5. \A p \in Replicas : CopyYoung(cache[p])'
  BY <1>2 DEF Young, CopyYoung
<1>6. QED
  BY <1>3, <1>4, <1>5 DEF Young

-----------------------------------------------------------------------------
(* readStored answers from a copy young enough: what it has wrong changed since. *)
LEMMA AsksStep ==
  ASSUME CollectionConstants, Young, NEW c \in Calls, NEW op \in Ops, NEW e \in Entries,
         Asks(c, op, e), UNCHANGED <<stored, cache, clock, landed>>
  PROVE  Young'
<1> DEFINE p == Home[c]
           d == [IdleCall EXCEPT !.op = op, !.entry = e, !.begun = clock,
                                 !.phase = IF Fresh(p) THEN "read" ELSE "fetching",
                                 !.base = IF Fresh(p) THEN cache[p].list ELSE Nothing]
<1>1. cache[p] \in Copy /\ CopyYoung(cache[p]) /\ clock \in Nat /\ landed \in [Entries -> Nat] /\ Ttl \in Nat /\ Lag \in Nat
  BY DEF CollectionConstants, Young, CollectionTypeOK, Copy
<1>2. Puts(c, d)
  BY DEF Asks
<1>3. CASE Fresh(p)
  <2>1. /\ d \in Call /\ d.phase = "read" /\ d.begun = clock /\ d.base = cache[p].list
    BY <1>1, <1>3, IdleTyped DEF Call, Copy
  <2>2. ASSUME NEW f \in Entries, d.base[f] # stored[f] PROVE d.begun < landed[f] + Ttl + Lag
    <3>1. cache[p].at \in Nat /\ clock < cache[p].at + Ttl /\ cache[p].at <= landed[f] + Lag /\ landed[f] \in Nat
      BY <1>1, <1>3, <2>1, <2>2 DEF Fresh, CopyYoung, Copy
    <3>2. QED
      BY <1>1, <2>1, <3>1
  <2> HIDE DEF d
  <2>3. CallYoung(d)
    BY <1>1, <2>1, <2>2 DEF CallYoung
  <2>4. QED
    BY <1>2, <2>1, <2>3, CallStep
<1>4. CASE ~Fresh(p)
  <2>1. d \in Call /\ d.phase = "fetching" /\ d.begun = clock
    BY <1>1, <1>4, IdleTyped DEF Call
  <2> HIDE DEF d
  <2>2. CallYoung(d)
    BY <1>1, <2>1 DEF CallYoung
  <2>3. QED
    BY <1>2, <2>1, <2>2, CallStep
<1>5. QED
  BY <1>3, <1>4

(* What a caller makes of its list: it goes on with it, writes another one, or leaves. *)
LEMMA DecidesStep ==
  ASSUME CollectionConstants, Young, NEW c \in Calls,
         Leave(c) \/ \E list \in List : Write(c, list)
  PROVE  Young'
<1>1. calls[c] \in Call /\ CallYoung(calls[c]) /\ clock \in Nat /\ UNCHANGED <<stored, cache, clock, landed>>
  BY DEF Young, CollectionTypeOK, Leave, Write
<1>2. CASE Leave(c)
  <2>1. CallYoung(IdleCall)
    BY <1>1, IdleTyped DEF CallYoung
  <2>2. QED
    BY <1>1, <1>2, <2>1, IdleTyped, CallStep DEF Leave, Rests
<1>3. ASSUME NEW list \in List, Write(c, list) PROVE Young'
  <2> DEFINE d == [calls[c] EXCEPT !.phase = "writing", !.list = list]
  <2>1. d \in Call /\ d.phase = "writing" /\ d.begun = calls[c].begun /\ d.base = calls[c].base /\ Puts(c, d)
    BY <1>1, <1>3 DEF Write, Call
  <2>2. CallYoung(d)
    BY <1>1, <1>3, <2>1 DEF Write, CallYoung
  <2> HIDE DEF d
  <2>3. QED
    BY <1>1, <2>1, <2>2, CallStep
<1>4. QED
  BY <1>2, <1>3

(* The questions and answers of a call. *)
LEMMA PassageStep ==
  ASSUME CollectionConstants, Young, NEW c \in Calls, Passage(c)
  PROVE  Young'
<1>1. /\ calls[c] \in Call /\ CallYoung(calls[c]) /\ clock \in Nat \ {0} /\ stored \in List /\ landed \in [Entries -> Nat]
      /\ Ttl \in Nat \ {0} /\ Lag \in Nat
  BY DEF CollectionConstants, Young, CollectionTypeOK
<1>2. CallYoung(IdleCall)
  BY <1>1, IdleTyped DEF CallYoung
<1>3. CASE Fetch(c)
  <2> DEFINE d == [calls[c] EXCEPT !.phase = "fetched", !.base = stored, !.at = clock]
  <2>1. d \in Call /\ d.phase = "fetched" /\ d.base = stored /\ d.at = clock /\ d.begun = calls[c].begun /\ Puts(c, d)
    BY <1>1, <1>3 DEF Fetch, Call
  <2> HIDE DEF d
  <2>2. CallYoung(d)
    BY <1>1, <2>1 DEF CallYoung
  <2>3. QED
    BY <1>3, <2>1, <2>2, CallStep DEF Fetch
<1>4. CASE Fill(c)
  <2> DEFINE d == [calls[c] EXCEPT !.phase = "read"]
             copy == [full |-> TRUE, list |-> calls[c].base, at |-> clock]
  <2>1. d \in Call /\ d.phase = "read" /\ d.base = calls[c].base /\ d.begun = calls[c].begun /\ Puts(c, d)
    BY <1>1, <1>4 DEF Fill, Call
  <2>2. copy \in Copy /\ copy.at = clock /\ copy.list = calls[c].base /\ cache' = [cache EXCEPT ![Home[c]] = copy]
    BY <1>1, <1>4 DEF Fill, Call, Copy
  <2> HIDE DEF d, copy
  <2>3. /\ calls[c].begun \in Nat /\ calls[c].at \in Nat /\ calls[c].begun <= calls[c].at
        /\ calls[c].at <= clock /\ clock <= calls[c].at + Lag
        /\ \A e \in Entries : calls[c].base[e] # stored[e] => calls[c].at <= landed[e]
    BY <1>1, <1>4 DEF Fill, CallYoung, Call
  <2>4. CallYoung(d)
    BY <1>1, <2>1, <2>3 DEF CallYoung
  <2>5. CopyYoung(copy)
    BY <1>1, <2>2, <2>3 DEF CopyYoung
  <2>6. QED
    BY <1>4, <2>1, <2>2, <2>4, <2>5, CacheStep DEF Fill
<1>5. CASE Keep(c)
  <2> DEFINE copy == [full |-> TRUE, list |-> calls[c].list, at |-> clock]
  <2>1. copy \in Copy /\ copy.at = clock /\ copy.list = calls[c].list /\ cache' = [cache EXCEPT ![Home[c]] = copy]
    BY <1>1, <1>5 DEF Keep, Call, Copy
  <2> HIDE DEF copy
  <2>2. /\ calls[c].at \in Nat /\ calls[c].at <= clock /\ clock <= calls[c].at + Lag
        /\ \A e \in Entries : calls[c].list[e] # stored[e] => calls[c].at <= landed[e]
    BY <1>1, <1>5 DEF Keep, CallYoung, Call
  <2>3. CopyYoung(copy)
    BY <1>1, <2>1, <2>2 DEF CopyYoung
  <2>4. QED
    BY <1>2, <1>5, <2>1, <2>3, IdleTyped, CacheStep DEF Keep, Rests
<1>6. CASE Fails(c)
  BY <1>2, <1>6, IdleTyped, CallStep DEF Fails, Rests
<1>7. CASE Store(c)
  <2> DEFINE d == [calls[c] EXCEPT !.phase = "stored", !.at = clock]
  <2>1. d \in Call /\ d.phase = "stored" /\ d.at = clock /\ d.list = calls[c].list /\ d.begun = calls[c].begun /\ Puts(c, d)
    BY <1>1, <1>7 DEF Store, Call
  <2>2. /\ stored' = calls[c].list /\ UNCHANGED <<cache, clock>>
        /\ \A e \in Entries : landed'[e] = IF calls[c].list[e] = stored[e] THEN landed[e] ELSE clock
        /\ landed' \in [Entries -> Nat] /\ stored' \in List
    BY <1>1, <1>7 DEF Store, Call
  <2> HIDE DEF d
  <2>3. \A k \in Calls : calls'[k] = IF k = c THEN d ELSE calls[k]
    BY <2>1 DEF Puts, Young, CollectionTypeOK
  <2>4. CollectionTypeOK'
    BY <2>1, <2>2 DEF Puts, Young, CollectionTypeOK
  <2>5. ASSUME NEW list, NEW e \in Entries, list[e] # stored'[e]
        PROVE  landed'[e] = clock \/ (list[e] # stored[e] /\ landed'[e] = landed[e])
    BY <2>2, <2>5
  <2>6. ASSUME NEW k \in Calls PROVE CallYoung(calls[k])'
    <3>1. CASE k = c
      BY <1>1, <2>1, <2>2, <2>3, <3>1 DEF CallYoung
    <3>2. CASE k # c
      <4>1. calls'[k] = calls[k] /\ CallYoung(calls[k]) /\ calls[k] \in Call
        BY <2>3, <3>2 DEF Young, CollectionTypeOK
      <4>2. calls[k].begun \in Nat /\ calls[k].at \in Nat
        BY <4>1 DEF Call
      <4>3. \A e \in Entries : landed[e] \in Nat
        BY <1>1
      <4>4. QED
        BY <1>1, <2>2, <2>5, <4>1, <4>2, <4>3 DEF CallYoung
    <3>3. QED
      BY <3>1, <3>2
  <2>7. ASSUME NEW p \in Replicas PROVE CopyYoung(cache[p])'
    <3>1. cache[p] \in Copy /\ CopyYoung(cache[p])
      BY DEF Young, CollectionTypeOK, Copy
    <3>2. QED
      BY <1>1, <2>2, <2>5, <3>1 DEF CopyYoung, Copy
  <2>8. QED
    BY <2>4, <2>6, <2>7 DEF Young
<1>8. QED
  BY <1>3, <1>4, <1>5, <1>6, <1>7 DEF Passage

(* A restart forgets, and time waits for the answers that are due. *)
LEMMA RestStep ==
  ASSUME CollectionConstants, Young, Pass \/ \E p \in Replicas : Restart(p)
  PROVE  Young'
<1>1. clock \in Nat \ {0} /\ Lag \in Nat /\ Ttl \in Nat
  BY DEF CollectionConstants, Young, CollectionTypeOK
<1>2. CASE Pass
  <2>1. clock' = clock + 1 /\ clock' \in Nat \ {0} /\ UNCHANGED <<stored, cache, calls, landed>>
    BY <1>1, <1>2 DEF Pass
  <2>2. ASSUME NEW c \in Calls PROVE CallYoung(calls[c])'
    <3>1. calls[c] \in Call /\ CallYoung(calls[c]) /\ Waits(c)
      BY <1>2 DEF Pass, Young, CollectionTypeOK
    <3>2. calls[c].begun \in Nat /\ calls[c].at \in Nat
      BY <3>1 DEF Call
    <3>3. QED
      BY <1>1, <2>1, <3>1, <3>2 DEF CallYoung, Waits
  <2>3. ASSUME NEW p \in Replicas PROVE CopyYoung(cache[p])'
    <3>1. cache[p] \in Copy /\ CopyYoung(cache[p])
      BY DEF Young, CollectionTypeOK, Copy
    <3>2. QED
      BY <1>1, <2>1, <3>1 DEF CopyYoung, Copy
  <2>4. CollectionTypeOK'
    BY <2>1 DEF Young, CollectionTypeOK
  <2>5. QED
    BY <2>2, <2>3, <2>4 DEF Young
<1>3. ASSUME NEW p \in Replicas, Restart(p) PROVE Young'
  <2> DEFINE copy == [full |-> FALSE, list |-> Nothing, at |-> 0]
  <2>1. copy \in Copy /\ CopyYoung(copy) /\ CallYoung(IdleCall)
    BY <1>1, IdleTyped DEF Copy, CopyYoung, CallYoung
  <2>2. /\ \A q \in Replicas : cache'[q] = IF q = p THEN copy ELSE cache[q]
        /\ cache' \in [Replicas -> Copy]
    BY <1>3, <2>1 DEF Restart, Young, CollectionTypeOK, Copy
  <2>3. /\ \A k \in Calls : calls'[k] \in {calls[k], IdleCall}
        /\ calls' \in [Calls -> Call]
    BY <1>3, IdleTyped DEF Restart, Young, CollectionTypeOK
  <2>4. UNCHANGED <<stored, clock, landed>>
    BY <1>3 DEF Restart
  <2>5. CollectionTypeOK'
    BY <2>2, <2>3, <2>4 DEF Young, CollectionTypeOK, Copy
  <2> HIDE DEF copy
  <2>6. \A k \in Calls : CallYoung(calls[k])'
    BY <2>1, <2>3, <2>4 DEF Young, CallYoung
  <2>7. \A q \in Replicas : CopyYoung(cache[q])'
    BY <2>1, <2>2, <2>4 DEF Young, CopyYoung
  <2>8. QED
    BY <2>5, <2>6, <2>7 DEF Young
<1>4. QED
  BY <1>2, <1>3

LEMMA YoungInit == CollectionConstants /\ CollectionInit => Young
<1> SUFFICES ASSUME CollectionConstants, CollectionInit PROVE Young
  OBVIOUS
<1>1. CollectionTypeOK
  BY IdleTyped DEF CollectionInit, CollectionTypeOK
<1>2. QED
  BY <1>1, IdleTyped DEF CollectionInit, Young, CallYoung, CopyYoung

LEMMA YoungStays == Young /\ UNCHANGED collectionVars => Young'
BY DEF collectionVars, Young, CollectionTypeOK, CallYoung, CopyYoung

(* No question, answer or decision changes what a call was asked. *)
LEMMA AskedKept ==
  ASSUME CollectionConstants, Young, NEW k \in Calls,
         Passage(k) \/ Leave(k) \/ \E list \in List : Write(k, list), NEW c \in Calls
  PROVE  calls'[c].op \in {calls[c].op, "none"}
<1>1. calls[k] \in Call /\ calls \in [Calls -> Call] /\ IdleCall.op = "none"
  BY DEF Young, CollectionTypeOK, IdleCall
<1>2. ASSUME NEW d, Puts(k, d), d.op \in {calls[k].op, "none"} PROVE calls'[c].op \in {calls[c].op, "none"}
  BY <1>1, <1>2 DEF Puts
<1>3. CASE Fetch(k)
  BY <1>1, <1>2, <1>3 DEF Fetch, Call
<1>4. CASE Fill(k)
  BY <1>1, <1>2, <1>4 DEF Fill, Call
<1>5. CASE Store(k)
  BY <1>1, <1>2, <1>5 DEF Store, Call
<1>6. ASSUME NEW list \in List, Write(k, list) PROVE calls'[c].op \in {calls[c].op, "none"}
  BY <1>1, <1>2, <1>6 DEF Write, Call
<1>7. CASE Keep(k) \/ Fails(k) \/ Leave(k)
  BY <1>1, <1>2, <1>7 DEF Keep, Fails, Leave, Rests
<1>8. QED
  BY <1>3, <1>4, <1>5, <1>6, <1>7 DEF Passage

-----------------------------------------------------------------------------
(* Freeze windows. *)

FreezeConstants ==
  /\ CollectionConstants
  /\ Values = {"none", "open"} /\ Ops = {"create", "delete", "write", "run"}

LEMMA FreezeStep ==
  ASSUME FreezeConstants, Young, WindowsNext
  PROVE  Young'
<1> USE DEF FreezeConstants
<1>1. ASSUME NEW c \in Calls, WindowAsked(c) PROVE Young'
  BY <1>1, AsksStep DEF WindowAsked, Begin
<1>2. ASSUME NEW c \in Calls, Passes(c) PROVE Young'
  <2> DEFINE d == [calls[c] EXCEPT !.op = "run"]
  <2>1. calls[c] \in Call /\ CallYoung(calls[c])
    BY DEF Young, CollectionTypeOK
  <2>2. d \in Call /\ Puts(c, d) /\ UNCHANGED <<stored, cache, clock, landed>>
        /\ d.phase = calls[c].phase /\ d.begun = calls[c].begun /\ d.at = calls[c].at
        /\ d.base = calls[c].base /\ d.list = calls[c].list
    BY <1>2, <2>1 DEF Passes, Call
  <2> HIDE DEF d
  <2>3. CallYoung(d)
    BY <2>1, <2>2 DEF CallYoung
  <2>4. QED
    BY <2>2, <2>3, CallStep
<1>3. ASSUME NEW c \in Calls,
             CreateFreezeWindow(c) \/ DeleteFreezeWindow(c) \/ Refuses(c) \/ Ran(c)
      PROVE  Young'
  <2>1. calls[c] \in Call
    BY DEF Young, CollectionTypeOK
  <2>2. \A v \in Values : [calls[c].base EXCEPT ![calls[c].entry] = v] \in List
    BY <2>1 DEF Call, List
  <2>3. QED
    BY <1>3, <2>2, DecidesStep DEF CreateFreezeWindow, DeleteFreezeWindow, Refuses, Ran
<1>4. QED
  BY <1>1, <1>2, <1>3, PassageStep, RestStep DEF WindowsNext

-----------------------------------------------------------------------------
(* Nobody decides on a list of windows older than the cache may be. *)
THEOREM NeverOlderHolds == ASSUME FreezeConstants PROVE WindowsSpec => []NeverOlder
<1>1. CollectionInit => Young
  BY YoungInit DEF FreezeConstants
<1>2. Young /\ [WindowsNext]_collectionVars => Young'
  BY FreezeStep, YoungStays
<1>3. Young => NeverOlder
  BY DEF Young, CallYoung, NeverOlder
<1>4. QED
  BY <1>1, <1>2, <1>3, PTL DEF WindowsSpec

(* A write that asked Ttl + Lag after a window reached the store finds the window. *)
LEMMA FreezeKept ==
  ASSUME FreezeConstants, Young, WindowsNext, NEW c \in Calls, NEW w \in Entries,
         stored[w] = "open", landed[w] + Ttl + Lag <= calls[c].begun, calls[c].op = "write"
  PROVE  calls'[c].op # "run"
<1>1. calls \in [Calls -> Call] /\ calls[c] \in Call /\ CallYoung(calls[c]) /\ landed[w] \in Nat
      /\ Ttl \in Nat /\ Lag \in Nat
  BY DEF Young, CollectionTypeOK, FreezeConstants, CollectionConstants
<1>2. ~Passes(c)
  <2>1. Passes(c) => calls[c].phase = "read" /\ calls[c].base[w] # "open"
    BY DEF Passes, Decides, ActiveFreeze
  <2>2. calls[c].phase = "read" => calls[c].base[w] = stored[w]
    BY <1>1 DEF CallYoung, Call
  <2>3. QED
    BY <2>1, <2>2
<1>3. \A v \in Values, k \in Calls : [calls[k].base EXCEPT ![calls[k].entry] = v] \in List
  BY <1>1 DEF Call, List
<1>4. ASSUME NEW k \in Calls, WindowAsked(k) PROVE calls'[c].op # "run"
  <2>1. PICK v \in Entries, op \in {"create", "delete", "write"} : Asks(k, op, v)
    BY <1>4 DEF WindowAsked, Begin
  <2>2. QED
    BY <1>1, <2>1, IdleTyped DEF Asks, Puts, FreezeConstants, Call
<1>5. ASSUME NEW k \in Calls, Passes(k) PROVE calls'[c].op # "run"
  BY <1>1, <1>2, <1>5 DEF Passes, Puts
<1>6. ASSUME NEW k \in Calls,
             CreateFreezeWindow(k) \/ DeleteFreezeWindow(k) \/ Refuses(k) \/ Ran(k) \/ Passage(k)
      PROVE  calls'[c].op # "run"
  <2>1. Passage(k) \/ Leave(k) \/ \E list \in List : Write(k, list)
    BY <1>3, <1>6 DEF CreateFreezeWindow, DeleteFreezeWindow, Refuses, Ran, FreezeConstants
  <2>2. QED
    BY <2>1, AskedKept DEF FreezeConstants
<1>7. ASSUME NEW p \in Replicas, Restart(p) PROVE calls'[c].op # "run"
  BY <1>7 DEF Restart, IdleCall
<1>8. CASE Pass
  BY <1>8 DEF Pass
<1>9. QED
  BY <1>4, <1>5, <1>6, <1>7, <1>8 DEF WindowsNext

(* A write that asked Ttl + Lag after a window reached the store, in whatever replica,  *)
(* does not pass the gate while the window is there (activeFreeze, assertWriteAllowed). *)
THEOREM FreezeSeenHolds == ASSUME FreezeConstants PROVE WindowsSpec => FreezeSeen
<1>1. CollectionInit => Young
  BY YoungInit DEF FreezeConstants
<1>2. Young /\ [WindowsNext]_collectionVars => Young'
  BY FreezeStep, YoungStays
<1>3. Young /\ [WindowsNext]_collectionVars =>
        [\A c \in Calls, w \in Entries :
           stored[w] = "open" /\ landed[w] + Ttl + Lag <= calls[c].begun =>
             ~(calls[c].op = "write" /\ calls'[c].op = "run")]_collectionVars
  BY FreezeKept
<1>4. QED
  BY <1>1, <1>2, <1>3, PTL DEF WindowsSpec, FreezeSeen

-----------------------------------------------------------------------------
(* Service tokens.  That nothing admits a revoked token follows from the age of what is *)
(* read (Young); that nothing writes the revocation away needs what is written as well  *)
(* (Minted): a list differs from the one read only by a revocation or by the token a     *)
(* call is making, and a token being made was never stored.                             *)

TokenConstants ==
  /\ CollectionConstants
  /\ Values = {"none", "live", "revoked"} /\ Ops = {"create", "revoke", "authenticate", "touch"}

Making(d, t) == d.op = "create" /\ d.entry = t

CallMinted(d) ==
  /\ \A t \in Entries : landed[t] = 0 =>
       d.base[t] = "none" /\ (d.list[t] = "none" \/ (d.phase = "writing" /\ Making(d, t)))
  /\ d.op = "create" /\ d.phase # "stored" => landed[d.entry] = 0
  /\ d.phase = "writing" => \A t \in Entries : d.list[t] \in {d.base[t], "revoked"} \/ Making(d, t)

StoreMinted == \A t \in Entries : landed[t] = 0 => stored[t] = "none"
CopiesMinted == \A t \in Entries : landed[t] = 0 => \A p \in Replicas : cache[p].list[t] = "none"
OneMaker == \A c, k \in Calls : calls[c].op = "create" /\ Making(calls[k], calls[c].entry) => c = k

Minted ==
  /\ StoreMinted /\ CopiesMinted /\ OneMaker
  /\ \A c \in Calls : CallMinted(calls[c])

(* A call makes the token it was making, or one nobody makes. *)
MakesItsOwn(c, d) ==
  d.op = "create" => Making(calls[c], d.entry) \/ \A k \in Calls : ~Making(calls[k], d.entry)

LEMMA IdleMinted == ASSUME TokenConstants PROVE CallMinted(IdleCall) /\ IdleCall.op = "none"
BY DEF CallMinted, IdleCall, Nothing

(* A step of one call that leaves the store alone. *)
LEMMA MintedStep ==
  ASSUME Young, Minted, NEW c \in Calls, NEW d \in Call, Puts(c, d), CallMinted(d), MakesItsOwn(c, d),
         UNCHANGED <<stored, landed>>, CopiesMinted'
  PROVE  Minted'
<1>1. \A k \in Calls : calls'[k] = IF k = c THEN d ELSE calls[k]
  BY DEF Puts, Young, CollectionTypeOK
<1>2. \A k \in Calls : CallMinted(calls[k])'
  BY <1>1 DEF Minted, CallMinted, Making
<1>3. StoreMinted'
  BY DEF Minted, StoreMinted
<1>4. OneMaker'
  BY <1>1 DEF Minted, OneMaker, MakesItsOwn, Making
<1>5. QED
  BY <1>2, <1>3, <1>4 DEF Minted

LEMMA MintedAsks ==
  ASSUME TokenConstants, Young, Minted, NEW c \in Calls, NEW op \in Ops, NEW t \in Entries,
         Asks(c, op, t), op = "create" => Unused(t), UNCHANGED <<stored, cache, clock, landed>>
  PROVE  Minted'
<1> DEFINE p == Home[c]
           d == [IdleCall EXCEPT !.op = op, !.entry = t, !.begun = clock,
                                 !.phase = IF Fresh(p) THEN "read" ELSE "fetching",
                                 !.base = IF Fresh(p) THEN cache[p].list ELSE Nothing]
<1>1. p \in Replicas /\ cache[p] \in Copy /\ clock \in Nat
  BY DEF TokenConstants, CollectionConstants, Young, CollectionTypeOK, Copy
<1>2. /\ d \in Call /\ Puts(c, d) /\ d.op = op /\ d.entry = t /\ d.phase \in {"read", "fetching"}
      /\ d.base \in {cache[p].list, Nothing} /\ d.list = Nothing
  BY <1>1, IdleTyped DEF TokenConstants, Asks, IdleCall, Call, Copy
<1> HIDE DEF d
<1>3. CallMinted(d)
  BY <1>1, <1>2 DEF CallMinted, Minted, CopiesMinted, Unused, Nothing
<1>4. MakesItsOwn(c, d)
  BY <1>2 DEF MakesItsOwn, Making, Unused
<1>5. CopiesMinted'
  BY DEF Minted, CopiesMinted
<1>6. QED
  BY <1>2, <1>3, <1>4, <1>5, MintedStep

(* What issuing, revoking and stamping write. *)
LEMMA MintedWrite ==
  ASSUME TokenConstants, Young, Minted, NEW c \in Calls, NEW list \in List, Write(c, list),
         \A t \in Entries : list[t] # calls[c].base[t] =>
           (list[t] = "revoked" /\ calls[c].base[t] # "none") \/ Making(calls[c], t)
  PROVE  Minted'
<1> DEFINE d == [calls[c] EXCEPT !.phase = "writing", !.list = list]
<1>1. calls[c] \in Call /\ CallMinted(calls[c]) /\ calls[c].phase = "read"
  BY DEF Young, CollectionTypeOK, Minted, Write
<1>2. /\ d \in Call /\ Puts(c, d) /\ d.op = calls[c].op /\ d.entry = calls[c].entry /\ d.phase = "writing"
      /\ d.base = calls[c].base /\ d.list = list
  BY <1>1 DEF Write, Call
<1> HIDE DEF d
<1>3. CallMinted(d)
  BY <1>1, <1>2 DEF CallMinted, Making
<1>4. MakesItsOwn(c, d) /\ UNCHANGED <<stored, landed>> /\ CopiesMinted'
  BY <1>2 DEF MakesItsOwn, Making, Write, Minted, CopiesMinted
<1>5. QED
  BY <1>2, <1>3, <1>4, MintedStep

LEMMA MintedRests ==
  ASSUME TokenConstants, Young, Minted, NEW c \in Calls, Rests(c), UNCHANGED <<stored, landed>>, CopiesMinted'
  PROVE  Minted'
<1>1. MakesItsOwn(c, IdleCall)
  BY IdleMinted DEF MakesItsOwn
<1>2. QED
  BY <1>1, IdleTyped, IdleMinted, MintedStep DEF Rests, TokenConstants

LEMMA MintedLeave ==
  ASSUME TokenConstants, Young, Minted, NEW c \in Calls, Leave(c)
  PROVE  Minted'
BY MintedRests DEF Leave, Minted, CopiesMinted

LEMMA MintedPassage ==
  ASSUME TokenConstants, Young, Minted, NEW c \in Calls, Passage(c)
  PROVE  Minted'
<1>1. calls[c] \in Call /\ CallMinted(calls[c]) /\ clock \in Nat \ {0} /\ stored \in List /\ landed \in [Entries -> Nat]
  BY DEF Young, CollectionTypeOK, Minted
<1>2. CASE Fetch(c)
  <2> DEFINE d == [calls[c] EXCEPT !.phase = "fetched", !.base = stored, !.at = clock]
  <2>1. /\ d \in Call /\ Puts(c, d) /\ d.op = calls[c].op /\ d.entry = calls[c].entry /\ d.phase = "fetched"
        /\ d.base = stored /\ d.list = calls[c].list /\ calls[c].phase = "fetching"
    BY <1>1, <1>2 DEF Fetch, Call
  <2> HIDE DEF d
  <2>2. CallMinted(d)
    BY <1>1, <2>1 DEF CallMinted, Minted, StoreMinted
  <2>3. MakesItsOwn(c, d) /\ UNCHANGED <<stored, landed>> /\ CopiesMinted'
    BY <1>2, <2>1 DEF MakesItsOwn, Making, Fetch, Minted, CopiesMinted
  <2>4. QED
    BY <2>1, <2>2, <2>3, MintedStep
<1>3. CASE Fill(c)
  <2> DEFINE d == [calls[c] EXCEPT !.phase = "read"]
             copy == [full |-> TRUE, list |-> calls[c].base, at |-> clock]
  <2>1. /\ d \in Call /\ Puts(c, d) /\ d.op = calls[c].op /\ d.entry = calls[c].entry /\ d.phase = "read"
        /\ d.base = calls[c].base /\ d.list = calls[c].list /\ calls[c].phase = "fetched"
    BY <1>1, <1>3 DEF Fill, Call
  <2>2. \A p \in Replicas : cache'[p] = IF p = Home[c] THEN copy ELSE cache[p]
    BY <1>3 DEF Fill, Young, CollectionTypeOK
  <2>3. copy.list = calls[c].base
    OBVIOUS
  <2> HIDE DEF d, copy
  <2>4. CallMinted(d)
    BY <1>1, <2>1 DEF CallMinted
  <2>5. UNCHANGED <<stored, landed>> /\ MakesItsOwn(c, d)
    BY <1>3, <2>1 DEF Fill, MakesItsOwn, Making
  <2>6. CopiesMinted'
    BY <1>1, <2>2, <2>3, <2>5 DEF CallMinted, Minted, CopiesMinted
  <2>7. QED
    BY <2>1, <2>4, <2>5, <2>6, MintedStep
<1>4. CASE Keep(c)
  <2> DEFINE copy == [full |-> TRUE, list |-> calls[c].list, at |-> clock]
  <2>1. \A p \in Replicas : cache'[p] = IF p = Home[c] THEN copy ELSE cache[p]
    BY <1>4 DEF Keep, Young, CollectionTypeOK
  <2>2. copy.list = calls[c].list /\ Rests(c) /\ UNCHANGED <<stored, landed>> /\ calls[c].phase = "stored"
    BY <1>4 DEF Keep
  <2> HIDE DEF copy
  <2>3. CopiesMinted'
    BY <1>1, <2>1, <2>2 DEF CallMinted, Minted, CopiesMinted
  <2>4. QED
    BY <2>2, <2>3, MintedRests
<1>5. CASE Fails(c)
  <2>1. Rests(c) /\ UNCHANGED <<stored, landed>> /\ CopiesMinted'
    BY <1>5 DEF Fails, Minted, CopiesMinted
  <2>2. QED
    BY <2>1, MintedRests
<1>6. CASE Store(c)
  <2> DEFINE d == [calls[c] EXCEPT !.phase = "stored", !.at = clock]
  <2>1. /\ d \in Call /\ Puts(c, d) /\ d.op = calls[c].op /\ d.entry = calls[c].entry /\ d.phase = "stored"
        /\ d.base = calls[c].base /\ d.list = calls[c].list /\ calls[c].phase = "writing"
    BY <1>1, <1>6 DEF Store, Call
  <2>2. /\ stored' = calls[c].list /\ cache' = cache
        /\ \A t \in Entries : landed'[t] = IF calls[c].list[t] = stored[t] THEN landed[t] ELSE clock
    BY <1>1, <1>6 DEF Store
  <2> HIDE DEF d
  <2>3. \A k \in Calls : calls'[k] = IF k = c THEN d ELSE calls[k]
    BY <2>1 DEF Puts, Young, CollectionTypeOK
  <2>4. \A t \in Entries : landed'[t] = 0 => landed[t] = 0 /\ stored'[t] = "none"
    BY <1>1, <2>2 DEF Minted, StoreMinted
  <2>5. StoreMinted' /\ CopiesMinted'
    BY <2>2, <2>4 DEF StoreMinted, CopiesMinted, Minted
  <2>6. OneMaker'
    BY <2>1, <2>3 DEF Minted, OneMaker, Making
  <2>7. ASSUME NEW k \in Calls PROVE CallMinted(calls[k])'
    <3>1. CASE k = c
      BY <1>1, <2>1, <2>2, <2>3, <2>4, <3>1 DEF CallMinted
    <3>2. CASE k # c
      <4>1. calls'[k] = calls[k] /\ CallMinted(calls[k]) /\ calls[k] \in Call
        BY <2>3, <3>2 DEF Minted, Young, CollectionTypeOK
      <4>2. ASSUME calls[k].op = "create", calls[k].phase # "stored" PROVE landed'[calls[k].entry] = 0
        <5> DEFINE t == calls[k].entry
        <5>1. t \in Entries /\ landed[t] = 0 /\ stored[t] = "none"
          BY <4>1, <4>2 DEF CallMinted, Call, Minted, StoreMinted
        <5>2. ~Making(calls[c], t)
          BY <3>2, <4>2 DEF Minted, OneMaker
        <5>3. calls[c].list[t] = "none"
          BY <1>1, <5>1, <5>2 DEF CallMinted
        <5>4. QED
          BY <2>2, <5>1, <5>3
      <4>3. QED
        BY <2>4, <4>1, <4>2 DEF CallMinted, Making
    <3>3. QED
      BY <3>1, <3>2
  <2>8. QED
    BY <2>5, <2>6, <2>7 DEF Minted
<1>7. QED
  BY <1>2, <1>3, <1>4, <1>5, <1>6 DEF Passage

LEMMA MintedRestart ==
  ASSUME TokenConstants, Young, Minted, NEW p \in Replicas, Restart(p)
  PROVE  Minted'
<1>1. \A k \in Calls : calls'[k] \in {calls[k], IdleCall}
  BY DEF Restart
<1>2. UNCHANGED <<stored, landed>>
  BY DEF Restart
<1>3. \A k \in Calls : CallMinted(calls[k])'
  BY <1>1, <1>2, IdleMinted DEF Minted, CallMinted
<1>4. OneMaker'
  BY <1>1, IdleMinted DEF Minted, OneMaker, Making
<1>5. \A q \in Replicas : cache'[q] = IF q = p THEN [full |-> FALSE, list |-> Nothing, at |-> 0] ELSE cache[q]
  BY DEF Restart, Young, CollectionTypeOK
<1>6. StoreMinted' /\ CopiesMinted'
  BY <1>2, <1>5 DEF Minted, StoreMinted, CopiesMinted, Nothing
<1>7. QED
  BY <1>3, <1>4, <1>6 DEF Minted

-----------------------------------------------------------------------------
(* What a call of the tokens' store writes, if it writes. *)
LEMMA WritesToken ==
  ASSUME TokenConstants, Young, Minted, NEW c \in Calls,
         CreateServiceToken(c) \/ RevokeServiceToken(c) \/ TouchServiceToken(c), ~Leave(c)
  PROVE  \E list \in List : /\ Write(c, list)
                            /\ \A t \in Entries : list[t] # calls[c].base[t] =>
                                 (list[t] = "revoked" /\ calls[c].base[t] # "none") \/ Making(calls[c], t)
<1> DEFINE e == calls[c].entry
           base == calls[c].base
<1>1. base \in List /\ e \in Entries
  BY DEF Young, CollectionTypeOK, Call
<1>2. CASE CreateServiceToken(c)
  <2>1. calls[c].op = "create" /\ Write(c, [base EXCEPT ![e] = "live"])
    BY <1>2 DEF CreateServiceToken, Decides
  <2>2. [base EXCEPT ![e] = "live"] \in List
    BY <1>1 DEF List, TokenConstants
  <2>3. \A t \in Entries : [base EXCEPT ![e] = "live"][t] # base[t] => Making(calls[c], t)
    BY <1>1, <2>1 DEF List, Making
  <2>4. QED
    BY <2>1, <2>2, <2>3
<1>3. CASE RevokeServiceToken(c)
  <2>1. base[e] = "live" /\ Write(c, [base EXCEPT ![e] = "revoked"])
    BY <1>3 DEF RevokeServiceToken
  <2>2. [base EXCEPT ![e] = "revoked"] \in List
    BY <1>1 DEF List, TokenConstants
  <2>3. \A t \in Entries : [base EXCEPT ![e] = "revoked"][t] # base[t] =>
          [base EXCEPT ![e] = "revoked"][t] = "revoked" /\ base[t] # "none"
    BY <1>1, <2>1 DEF List
  <2>4. QED
    BY <2>1, <2>2, <2>3
<1>4. CASE TouchServiceToken(c)
  BY <1>1, <1>4 DEF TouchServiceToken
<1>5. QED
  BY <1>2, <1>3, <1>4

TokensInv == Young /\ Minted

LEMMA TokenStep ==
  ASSUME TokenConstants, TokensInv, TokensNext
  PROVE  TokensInv'
<1> USE DEF TokensInv
<1>0. CollectionConstants
  BY DEF TokenConstants
<1>1. ASSUME NEW c \in Calls, TokenAsked(c) PROVE TokensInv'
  <2>1. PICK t \in Entries, op \in Ops : Begin(c, op, t) /\ (op = "create" => Unused(t))
    BY <1>1 DEF TokenAsked, TokenConstants
  <2>2. Asks(c, op, t) /\ UNCHANGED <<stored, cache, clock, landed>>
    BY <2>1 DEF Begin
  <2>3. QED
    BY <1>0, <2>1, <2>2, AsksStep, MintedAsks
<1>2. ASSUME NEW c \in Calls, Passage(c) PROVE TokensInv'
  BY <1>0, <1>2, PassageStep, MintedPassage
<1>3. ASSUME NEW c \in Calls, Admit(c) PROVE TokensInv'
  <2>1. calls[c].entry \in Entries /\ "touch" \in Ops /\ Asks(c, "touch", calls[c].entry)
        /\ UNCHANGED <<stored, cache, clock, landed>>
    BY <1>3 DEF Admit, Young, CollectionTypeOK, Call, TokenConstants
  <2>2. QED
    BY <1>0, <2>1, AsksStep, MintedAsks
<1>4. ASSUME NEW c \in Calls,
             CreateServiceToken(c) \/ RevokeServiceToken(c) \/ TurnAway(c) \/ TouchServiceToken(c)
      PROVE  TokensInv'
  <2>1. CASE Leave(c)
    BY <1>0, <2>1, DecidesStep, MintedLeave
  <2>2. CASE ~Leave(c)
    <3>1. CreateServiceToken(c) \/ RevokeServiceToken(c) \/ TouchServiceToken(c)
      BY <1>4, <2>2 DEF TurnAway
    <3>2. PICK list \in List : /\ Write(c, list)
                               /\ \A t \in Entries : list[t] # calls[c].base[t] =>
                                    (list[t] = "revoked" /\ calls[c].base[t] # "none") \/ Making(calls[c], t)
      BY <2>2, <3>1, WritesToken
    <3>3. Young'
      BY <1>0, <3>2, DecidesStep
    <3>4. Minted'
      BY <3>2, MintedWrite
    <3>5. QED
      BY <3>3, <3>4
  <2>3. QED
    BY <2>1, <2>2
<1>5. ASSUME NEW p \in Replicas, Restart(p) PROVE TokensInv'
  BY <1>0, <1>5, RestStep, MintedRestart
<1>6. CASE Pass
  <2>1. Young'
    BY <1>0, <1>6, RestStep
  <2>2. Minted'
    BY <1>6 DEF Pass, Minted, StoreMinted, CopiesMinted, OneMaker, CallMinted
  <2>3. QED
    BY <2>1, <2>2
<1>7. QED
  BY <1>1, <1>2, <1>3, <1>4, <1>5, <1>6 DEF TokensNext

-----------------------------------------------------------------------------
LEMMA TokensBegin == ASSUME TokenConstants, CollectionInit PROVE TokensInv
<1>1. Minted
  BY IdleMinted DEF CollectionInit, Minted, StoreMinted, CopiesMinted, OneMaker, Making, Nothing
<1>2. QED
  BY <1>1, YoungInit DEF TokensInv, TokenConstants

LEMMA TokensStay == ASSUME TokensInv, UNCHANGED collectionVars PROVE TokensInv'
BY YoungStays DEF TokensInv, collectionVars, Minted, StoreMinted, CopiesMinted, OneMaker, CallMinted

(* Ttl + Lag after a revocation reached the store, what a call reads and writes has it. *)
LEMMA RevocationKept ==
  ASSUME TokenConstants, TokensInv, NEW c \in Calls, NEW t \in Entries, Holds(c, t)
  PROVE  ~(Admits(c) /\ calls[c].entry = t) /\ (Store(c) => stored'[t] = "revoked")
<1>1. /\ calls[c] \in Call /\ CallYoung(calls[c]) /\ CallMinted(calls[c]) /\ landed[t] \in Nat
      /\ Ttl \in Nat /\ Lag \in Nat /\ stored[t] = "revoked" /\ landed[t] + Ttl + Lag <= calls[c].begun
  BY DEF TokensInv, Young, Minted, CollectionTypeOK, TokenConstants, CollectionConstants, Holds
<1>2. calls[c].phase \in {"read", "writing"} => calls[c].base[t] = "revoked"
  BY <1>1 DEF CallYoung, Call
<1>3. ~Admits(c) \/ calls[c].entry # t
  BY <1>2 DEF Admits, Decides
<1>4. ASSUME Store(c) PROVE stored'[t] = "revoked"
  <2>1. calls[c].phase = "writing" /\ stored' = calls[c].list
    BY <1>4 DEF Store
  <2>2. ~Making(calls[c], t)
    BY <1>1, <2>1 DEF TokensInv, Minted, StoreMinted, CallMinted, Making
  <2>3. QED
    BY <1>1, <1>2, <2>1, <2>2 DEF CallMinted
<1>5. QED
  BY <1>3, <1>4

(* A call that began Ttl + Lag after a revocation reached the store, in whatever replica, *)
(* neither admits the token (authenticateServiceToken) nor writes the revocation away     *)
(* (createServiceToken, revokeServiceToken, touchServiceToken).                           *)
THEOREM RevocationHoldsHolds == ASSUME TokenConstants PROVE TokensSpec => RevocationHolds
<1>1. CollectionInit => TokensInv
  BY TokensBegin
<1>2. TokensInv /\ [TokensNext]_collectionVars => TokensInv'
  BY TokenStep, TokensStay
<1>3. TokensInv /\ [TokensNext]_collectionVars =>
        [\A c \in Calls, t \in Entries : Holds(c, t) =>
           /\ ~(Admits(c) /\ calls[c].entry = t /\ calls'[c].op = "touch")
           /\ Store(c) => stored'[t] = "revoked"]_collectionVars
  BY RevocationKept
<1>4. QED
  BY <1>1, <1>2, <1>3, PTL DEF TokensSpec, RevocationHolds
=============================================================================
