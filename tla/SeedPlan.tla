------------------------------ MODULE SeedPlan ------------------------------
(***************************************************************************)
(* The seed of a schema (seed-data/plan.ts, seed-data/run.ts): the tables  *)
(* put in an order their foreign keys allow, round after round, nullable   *)
(* references cut where none is ready; then filled in that order, each     *)
(* from the rows its parents kept.                                         *)
(***************************************************************************)
EXTENDS Naturals, Sequences, SequencesExt

CONSTANTS
  TableCount,  \* tables, numbered as the catalog lists them
  MaxWidth,    \* bound: references of one table
  MaxColumns   \* bound: references of a schema

Tables == 1..TableCount

VARIABLES
  schema,    \* the references of each table, in the order of its columns
  deps,      \* what each table waits for
  order, softened,
  stage, round,
  rows,      \* what a table's turn left in its pools
  failure    \* why it failed

seedVars == <<schema, deps, order, softened, stage, round, rows, failure>>

Reference == [to: Tables, nullable: BOOLEAN]
Schemas ==
  {s \in [Tables -> BoundedSeq(Reference, MaxWidth)] : FoldFunction(LAMBDA refs, n : Len(refs) + n, 0, s) <= MaxColumns}

Columns == {c \in Tables \X (1..MaxWidth) : c[2] \in DOMAIN schema[c[1]]}
Of(t) == {c \in Columns : c[1] = t}
To(c) == schema[c[1]][c[2]].to
Nullable(c) == schema[c[1]][c[2]].nullable
Outward(c) == To(c) # c[1]

SeedTypeOK ==
  /\ deps \in [Tables -> SUBSET Tables]
  /\ order \in Seq(Tables) /\ softened \subseteq Columns
  /\ stage \in {"ordering", "refused", "filling", "done", "failed"} /\ round \in 0..1
  /\ rows \in [Tables -> {"waiting", "none", "some"}]
  /\ failure \in [Tables -> {"none", "missing", "engine", "stopped"}]

(* A reference to the table itself is left null; the catalog reads none out of the schema. *)
Init ==
  /\ schema \in Schemas
  /\ deps = [t \in Tables |-> {To(c) : c \in {c \in Of(t) : Outward(c)}}]
  /\ softened = {c \in Columns : ~Outward(c)}
  /\ order = <<>> /\ stage = "ordering" /\ round = 0
  /\ rows = [t \in Tables |-> "waiting"] /\ failure = [t \in Tables |-> "none"]

-----------------------------------------------------------------------------
(* orderTables *)

Placed == ToSet(order)
Remaining == Tables \ Placed

(* A slip: a table is ready once one of its parents is placed. *)
ReadyBySome == {t \in Remaining : deps[t] = {} \/ deps[t] \cap Placed # {}}
Ready == {t \in Remaining : deps[t] \subseteq Placed}

(* A slip: only the first reference of a table is looked at. *)
CuttableFirst == {c \in Columns : c[1] \in Remaining /\ c[2] = 1 /\ Nullable(c) /\ To(c) \notin Placed /\ Outward(c)}
Cuttable == {c \in Columns : c[1] \in Remaining /\ Nullable(c) /\ To(c) \notin Placed /\ Outward(c)}

FirstCut == CHOOSE c \in Cuttable : \A d \in Cuttable : c[1] < d[1] \/ (c[1] = d[1] /\ c[2] <= d[2])

InCatalogOrder(S) == {q \in [1..Cardinality(S) -> S] : \A i, j \in DOMAIN q : i < j => q[i] < q[j]}

Place ==
  /\ Ready # {}
  /\ \E ready \in InCatalogOrder(Ready) : order' = order \o ready
  /\ UNCHANGED <<deps, softened, stage>>

Cut ==
  /\ Ready = {} /\ Cuttable # {}
  /\ deps' = [deps EXCEPT ![FirstCut[1]] = @ \ {To(FirstCut)}]
  /\ softened' = softened \cup {FirstCut}
  /\ UNCHANGED <<order, stage>>

Refuse ==
  /\ Ready = {} /\ Cuttable = {}
  /\ stage' = "refused"
  /\ UNCHANGED <<deps, order, softened>>

Round ==
  /\ stage = "ordering" /\ Remaining # {}
  /\ Place \/ Cut \/ Refuse
  /\ round' = 1 - round
  /\ UNCHANGED <<schema, rows, failure>>

Ordered ==
  /\ stage = "ordering" /\ Remaining = {}
  /\ stage' = "filling"
  /\ UNCHANGED <<schema, deps, order, softened, round, rows, failure>>

-----------------------------------------------------------------------------
(* execute *)

(* The engine refuses to empty the tables before they are filled. *)
EmptyingFails ==
  /\ stage = "filling" /\ \A t \in Tables : rows[t] = "waiting"
  /\ stage' = "failed" /\ failure' = [t \in Tables |-> "stopped"]
  /\ UNCHANGED <<schema, deps, order, softened, round, rows>>

Written(t) == Of(t) \ softened
Parentless(c) == rows[To(c)] # "some"

(* A slip: a reference that may be null is missed too. *)
MissingAny(t) == {c \in Written(t) : Parentless(c)}
Missing(t) == {c \in Written(t) : ~Nullable(c) /\ Parentless(c)}

Turn(t) ==
  /\ stage = "filling" /\ rows[t] = "waiting"
  /\ \A i \in DOMAIN order : rows[order[i]] = "waiting" => \E k \in 1..i : order[k] = t
  /\ UNCHANGED <<schema, deps, order, softened, stage, round>>

(* A table whose count, or whose ratio of its parent's rows, is zero. *)
FillNothing(t) == Turn(t) /\ rows' = [rows EXCEPT ![t] = "none"] /\ UNCHANGED failure

FillTable(t) ==
  /\ Turn(t) /\ Missing(t) = {}
  /\ \/ rows' = [rows EXCEPT ![t] = "some"] /\ UNCHANGED failure
     \/ \E kept \in {"none", "some"} : rows' = [rows EXCEPT ![t] = kept] /\ failure' = [failure EXCEPT ![t] = "engine"]

FillFails(t) ==
  /\ Turn(t) /\ Missing(t) # {}
  /\ rows' = [rows EXCEPT ![t] = "none"] /\ failure' = [failure EXCEPT ![t] = "missing"]

Finish ==
  /\ stage = "filling" /\ \A t \in Tables : rows[t] # "waiting"
  /\ stage' = IF \E t \in Tables : failure[t] # "none" THEN "failed" ELSE "done"
  /\ UNCHANGED <<schema, deps, order, softened, round, rows, failure>>

Next ==
  \/ Round \/ Ordered \/ EmptyingFails \/ Finish
  \/ \E t \in Tables : FillNothing(t) \/ FillTable(t) \/ FillFails(t)

(* The ordering is one synchronous loop, which runs on while it has a round to make. *)
Spec == Init /\ [][Next]_seedVars /\ WF_seedVars(Round \/ Ordered)

-----------------------------------------------------------------------------
Required == {c \in Columns : ~Nullable(c) /\ Outward(c)}

(* Some order of the tables has every required parent first. *)
Fillable == \E level \in [Tables -> Tables] : \A c \in Required : level[To(c)] < level[c[1]]

At(t) == CHOOSE i \in DOMAIN order : order[i] = t
CutFor(t, u) == \E d \in softened : d[1] = t /\ To(d) = u

(* A table comes after every table it points at, but for those it was cut from. *)
ParentsFirst ==
  \A c \in Columns : c[1] \in Placed /\ Outward(c) =>
    CutFor(c[1], To(c)) \/ (To(c) \in Placed /\ At(To(c)) < At(c[1]))

(* What is refused could not be ordered. *)
RefusedRightly == stage = "refused" => ~Fillable

(* A table that lacks a parent's row names one that had its turn and kept none, *)
(* or one it was cut from through another column.                               *)
MissingExplained ==
  \A t \in Tables : failure[t] = "missing" =>
    \E c \in Written(t) :
      /\ ~Nullable(c)
      /\ rows[To(c)] = "none" \/ CutFor(t, To(c))

(* "A cycle of required references cannot be filled and is refused with the tables *)
(* named": whatever it is answered, it is answered.                                 *)
CyclesAnswered == ~Fillable ~> stage # "ordering"
=============================================================================
