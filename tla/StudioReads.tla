----------------------------- MODULE StudioReads -----------------------------
(***************************************************************************)
(* What the studio shows of the connection on screen: its objects          *)
(* (hooks/use-connection-manager.ts over use-read-generation.ts) and its   *)
(* declaration (hooks/use-provider-metadata.ts), each read when a          *)
(* connection is picked, and the objects again when the declaration        *)
(* changes or a statement run on a connection changed them.                *)
(***************************************************************************)
EXTENDS Naturals

CONSTANTS
  Connections,
  Deferred,        \* those whose objects are read only when asked for
  MaxGeneration,   \* bound: reads of the objects, and what supersedes one
  MaxAttempts,     \* bound: attempts at a declaration, and reads of it under way
  NULL

VARIABLES
  active, asked,          \* activeConnection; scanRequested
  generation, reading,    \* the current read; the reads under way
  list, loading,          \* whose objects are shown; isLoadingSchema
  attempt, trying,        \* how often the declaration was asked for again; its reads under way
  declared,               \* whose declaration is known
  statement,              \* a run that will have changed the objects: where, and what was asked when it began
  strayed                 \* such a run answered when another connection was on screen

readVars == <<active, asked, generation, reading, list, loading, attempt, trying, declared, statement, strayed>>

Maybe == Connections \cup {NULL}
NoStatement == [of |-> NULL, asked |-> NULL]

ReadsTypeOK ==
  /\ {active, asked, list, declared} \subseteq Maybe /\ {loading, strayed} \subseteq BOOLEAN
  /\ generation \in 0..MaxGeneration /\ reading \subseteq [at: 1..MaxGeneration, of: Connections]
  /\ attempt \in 0..(MaxAttempts - 1)
  /\ trying \subseteq [no: 1..MaxAttempts, at: 0..(MaxAttempts - 1), of: Connections]
  /\ statement \in [of: Maybe, asked: Maybe]

Init ==
  /\ active = NULL /\ asked = NULL /\ generation = 0 /\ reading = {} /\ list = NULL /\ loading = FALSE
  /\ attempt = 0 /\ trying = {} /\ declared = NULL /\ statement = NoStatement /\ strayed = FALSE

Supersedes(times) == generation + times <= MaxGeneration /\ generation' = generation + times

(* A read begins, superseding the one in flight; the list stays until it answers. *)
Begin(c) ==
  /\ reading' = reading \cup {[at |-> g, of |-> c] : g \in (generation + 1)..generation'}
  /\ loading' = TRUE /\ UNCHANGED list

(* A deferred connection is not read unless it was the one asked for. *)
Fetch(c, request, times) ==
  /\ Supersedes(times)
  /\ IF c \in Deferred /\ request # c
     THEN list' = NULL /\ loading' = FALSE /\ UNCHANGED reading
     ELSE Begin(c)

(* The reads under way with one key, the attempt and the connection, are several when a *)
(* connection is picked again before its answer.                                        *)
Unused == (1..MaxAttempts) \ {t.no : t \in trying}
Declare(c, again) ==
  /\ attempt' = attempt + again /\ attempt' < MaxAttempts
  /\ Unused # {} /\ trying' = trying \cup {[no |-> CHOOSE n \in Unused : TRUE, at |-> attempt', of |-> c]}
  /\ declared' = NULL

(* The declaration is forgotten and read again, and so are the objects: for the pick, and *)
(* once more for the declaration forgotten.                                               *)
Pick(c) ==
  /\ c # active /\ active' = c /\ Declare(c, 0) /\ Fetch(c, asked, IF declared = NULL THEN 1 ELSE 2)
  /\ UNCHANGED <<asked, statement, strayed>>

(* A slip: an answer taken though another read has begun. *)
OfAnyRead(r) == r \in reading
Current(r) == r.at = generation

(* A failed read shows nothing. *)
Answered(r) ==
  /\ reading' = reading \ {r}
  /\ IF Current(r) THEN list' \in {r.of, NULL} /\ loading' = FALSE ELSE UNCHANGED <<list, loading>>
  /\ UNCHANGED <<active, asked, generation, attempt, trying, declared, statement, strayed>>

(* A slip: the declaration taken from any attempt. *)
AnyAttempt(t) == t \in trying
LastAttempt(t) == t.at = attempt /\ t.of = active

(* A new declaration has the studio read the objects again; so has a failure that forgets one. *)
Declared(t) ==
  /\ trying' = trying \ {t}
  /\ \/ LastAttempt(t) /\ declared' = t.of /\ Fetch(active, asked, 1)
     \/ LastAttempt(t) /\ declared # NULL /\ declared' = NULL /\ Fetch(active, asked, 1)
     \/ (LastAttempt(t) => declared = NULL) /\ UNCHANGED <<declared, generation, reading, list, loading>>
  /\ UNCHANGED <<active, asked, attempt, statement, strayed>>

Retry ==
  /\ active # NULL /\ declared = NULL /\ Declare(active, 1)
  /\ UNCHANGED <<active, asked, generation, reading, list, loading, statement, strayed>>

LoadObjects ==
  /\ active \in Deferred /\ asked' = active
  /\ Supersedes(1) /\ Begin(active)
  /\ UNCHANGED <<active, attempt, trying, declared, statement, strayed>>

Run ==
  /\ active # NULL /\ statement = NoStatement /\ statement' = [of |-> active, asked |-> asked]
  /\ UNCHANGED <<active, asked, generation, reading, list, loading, attempt, trying, declared, strayed>>

(* It reads again the connection it ran on, as the current read. *)
RunAnswered ==
  /\ statement # NoStatement /\ statement' = NoStatement
  /\ Fetch(statement.of, statement.asked, 1)
  /\ strayed' = (strayed \/ statement.of # active)
  /\ UNCHANGED <<active, asked, attempt, trying, declared>>

Next ==
  \/ \E c \in Connections : Pick(c)
  \/ \E r \in reading : Answered(r)
  \/ \E t \in trying : Declared(t)
  \/ Retry \/ LoadObjects \/ Run \/ RunAnswered

Spec == Init /\ [][Next]_readVars

-----------------------------------------------------------------------------
(* "The previous connection's list is not evidence about this one": the objects shown, *)
(* when none are being read, are those of the connection on screen.                    *)
OwnObjects == ~loading /\ list # NULL => list = active
OwnObjectsButStrayed == strayed \/ OwnObjects

(* The spinner turns exactly while the current read is under way. *)
SpinsForCurrent == loading <=> \E r \in reading : r.at = generation

(* "A previous connection's capabilities can never stand in for the one being fetched." *)
OwnDeclaration == declared # NULL => declared = active
=============================================================================
