------------------------------ MODULE TabRuns ------------------------------
(***************************************************************************)
(* The runs of the editor's tabs (hooks/use-query-execution.ts): a run     *)
(* supersedes the one in flight on its tab and aborts it; its plan, asked  *)
(* for beside it, may land after it.  A statement an agent handed over is  *)
(* run beside them.  An aborted request answers nothing but its abort.     *)
(***************************************************************************)
EXTENDS Naturals, Sequences

CONSTANTS
  Tabs,
  MaxRuns,   \* bound: runs started
  NULL

Runs == 1..MaxRuns

VARIABLES
  run,                 \* the runs, in the order they were started
  inFlight, last,      \* runsRef, lastRunRef: of each tab
  executing, loading,  \* the tab's spinners
  result, plan,        \* the runs whose rows the tab shows; the one whose plan it shows
  disturbed            \* a handover or a refused explain met a run of the tab

runVars == <<run, inFlight, last, executing, loading, result, plan, disturbed>>

Kinds == {"query", "more", "explain", "handed"}
Unstarted == [tab |-> NULL, kind |-> "query", stage |-> "unstarted", asks |-> FALSE]

RunsTypeOK ==
  /\ run \in [Runs -> [tab: Tabs \cup {NULL}, kind: Kinds,
                       stage: {"unstarted", "flying", "aborted", "ended"}, asks: BOOLEAN]]
  /\ inFlight \in [Tabs -> Runs \cup {NULL}] /\ last \in [Tabs -> Runs \cup {NULL}]
  /\ executing \in [Tabs -> BOOLEAN] /\ loading \in [Tabs -> BOOLEAN] /\ disturbed \in [Tabs -> BOOLEAN]
  /\ \A t \in Tabs : result[t] \in Seq(Runs) /\ plan[t] \in Runs \cup {NULL}

Init ==
  /\ run = [r \in Runs |-> Unstarted]
  /\ inFlight = [t \in Tabs |-> NULL] /\ last = [t \in Tabs |-> NULL]
  /\ executing = [t \in Tabs |-> FALSE] /\ loading = [t \in Tabs |-> FALSE]
  /\ result = [t \in Tabs |-> <<>>] /\ plan = [t \in Tabs |-> NULL]
  /\ disturbed = [t \in Tabs |-> FALSE]

Started(r) == run[r].stage # "unstarted"
Flies(r) == run[r].stage \in {"flying", "aborted"}
FliesOn(t) == \E r \in Runs : run[r].tab = t /\ Flies(r)
NextRun(r) == ~Started(r) /\ \A s \in 1..(r - 1) : Started(s)

(* Aborting a run ends its request, and its plan's. *)
Aborted(r) == [run EXCEPT ![r].stage = "aborted", ![r].asks = FALSE]
AbortedOn(t) == IF inFlight[t] = NULL THEN run ELSE Aborted(inFlight[t])

(* A slip: one slot for all the tabs. *)
TakenEverywhere(r, t) == inFlight' = [inFlight EXCEPT ![t] = r] /\ last' = [u \in Tabs |-> r]
Taken(r, t) == inFlight' = [inFlight EXCEPT ![t] = r] /\ last' = [last EXCEPT ![t] = r]

(* A run, the next page of the rows shown, or an explain; a query that can be explained *)
(* asks for its plan too.                                                                *)
Start(r, t, kind) ==
  /\ NextRun(r) /\ (kind = "more" => result[t] # <<>>)
  /\ \E asks \in IF kind = "query" THEN BOOLEAN ELSE {FALSE} :
       run' = [AbortedOn(t) EXCEPT ![r] = [tab |-> t, kind |-> kind, stage |-> "flying", asks |-> asks]]
  /\ Taken(r, t)
  /\ executing' = [executing EXCEPT ![t] = kind # "more"]
  /\ loading' = [loading EXCEPT ![t] = kind = "more"]
  /\ UNCHANGED <<result, plan, disturbed>>

(* An explain of what cannot be explained is refused, once the spinners were set. *)
RefuseExplain(t) ==
  /\ executing' = [executing EXCEPT ![t] = FALSE] /\ loading' = [loading EXCEPT ![t] = FALSE]
  /\ disturbed' = [disturbed EXCEPT ![t] = @ \/ FliesOn(t)]
  /\ UNCHANGED <<run, inFlight, last, result, plan>>

(* A slip, once the code's: a run that left the map of those in flight is not superseded. *)
SupersededInFlight(r) == inFlight[run[r].tab] \notin {r, NULL}
Superseded(r) == last[run[r].tab] # r

(* A slip: a run deletes the tab's entry, whoever's it is. *)
SettledAnyway(r) == inFlight' = [inFlight EXCEPT ![run[r].tab] = NULL]
Settled(r) == inFlight' = IF Superseded(r) THEN inFlight ELSE [inFlight EXCEPT ![run[r].tab] = NULL]

Rows(r, t) ==
  CASE run[r].kind = "more" -> Append(result[t], r)
    [] run[r].kind = "explain" -> <<>>
    [] OTHER -> <<r>>

Land(r, t, rows, seen) ==
  /\ result' = [result EXCEPT ![t] = rows]
  /\ plan' = [plan EXCEPT ![t] = seen]
  /\ executing' = [executing EXCEPT ![t] = FALSE] /\ loading' = [loading EXCEPT ![t] = FALSE]

(* Its rows replace the tab's, or follow them; refused, it keeps them, or the tab waits *)
(* for an approval without rows.                                                         *)
Answered(r) ==
  LET t == run[r].tab IN
  /\ run[r].stage = "flying" /\ run[r].kind # "handed"
  /\ \E ok \in BOOLEAN, rows \in {result[t], <<>>} :
       /\ run' = [run EXCEPT ![r].stage = "ended", ![r].asks = @ /\ ok]
       /\ IF Superseded(r)
          THEN UNCHANGED <<result, plan, executing, loading>>
          ELSE IF ok
               THEN Land(r, t, Rows(r, t), IF run[r].kind = "explain" THEN r ELSE plan[t])
               ELSE Land(r, t, rows, plan[t])
  /\ Settled(r)
  /\ UNCHANGED <<last, disturbed>>

AbortSeen(r) ==
  LET t == run[r].tab IN
  /\ run[r].stage = "aborted" /\ run' = [run EXCEPT ![r].stage = "ended"]
  /\ IF Superseded(r) THEN UNCHANGED <<result, plan, executing, loading>> ELSE Land(r, t, result[t], plan[t])
  /\ Settled(r)
  /\ UNCHANGED <<last, disturbed>>

(* The plan is read once the run's own answer was. *)
PlanAnswered(r) ==
  /\ run[r].stage = "ended" /\ run[r].asks
  /\ run' = [run EXCEPT ![r].asks = FALSE]
  /\ plan' \in IF Superseded(r) THEN {plan} ELSE {plan, [plan EXCEPT ![run[r].tab] = r]}
  /\ UNCHANGED <<inFlight, last, executing, loading, result, disturbed>>

Cancel(t) ==
  /\ inFlight[t] # NULL /\ run' = AbortedOn(t)
  /\ UNCHANGED <<inFlight, last, executing, loading, result, plan, disturbed>>

-----------------------------------------------------------------------------
(* A statement handed over supersedes nothing, and nothing supersedes it. *)
HandOver(r, t) ==
  /\ NextRun(r)
  /\ run' = [run EXCEPT ![r] = [tab |-> t, kind |-> "handed", stage |-> "flying", asks |-> FALSE]]
  /\ executing' = [executing EXCEPT ![t] = TRUE]
  /\ UNCHANGED <<inFlight, last, loading, result, plan, disturbed>>

HandedAnswered(r) ==
  LET t == run[r].tab IN
  /\ run[r].stage = "flying" /\ run[r].kind = "handed"
  /\ run' = [run EXCEPT ![r].stage = "ended"]
  /\ result' \in {result, [result EXCEPT ![t] = <<r>>]}
  /\ executing' = [executing EXCEPT ![t] = FALSE]
  /\ disturbed' = [disturbed EXCEPT ![t] = @ \/ \E s \in Runs : s # r /\ run[s].tab = t /\ Flies(s)]
  /\ UNCHANGED <<inFlight, last, loading, plan>>

RunAnswers(r) == Answered(r) \/ AbortSeen(r) \/ HandedAnswered(r)

Next ==
  \/ \E r \in Runs, t \in Tabs : HandOver(r, t) \/ \E kind \in Kinds \ {"handed"} : Start(r, t, kind)
  \/ \E t \in Tabs : RefuseExplain(t) \/ Cancel(t)
  \/ \E r \in Runs : RunAnswers(r) \/ PlanAnswered(r)

Spec == Init /\ [][Next]_runVars

-----------------------------------------------------------------------------
(* "A plan describing the previous statement is worse than no plan at all": none lands on *)
(* a tab where a newer run was started.                                                    *)
PlanOfTheLast ==
  [][\A t \in Tabs : plan'[t] # plan[t] =>
       \A r \in Runs : run[r].tab = t /\ run[r].kind # "handed" => r <= plan'[t]]_runVars

(* The last run of a tab, while in flight, is the one Cancel reaches and the spinner *)
(* stands for.                                                                        *)
LastRunHeld ==
  \A t \in Tabs, r \in Runs :
    /\ Flies(r) /\ run[r].tab = t /\ run[r].kind # "handed"
    /\ \A s \in Runs : run[s].tab = t /\ run[s].kind # "handed" => s <= r
    => inFlight[t] = r /\ (disturbed[t] \/ (IF run[r].kind = "more" THEN loading[t] ELSE executing[t]))

(* No tab stays on "Executing" for ever, whatever runs in another: a spinner is put out *)
(* by the answer, or the abort, of a run still in flight.                                *)
SpinnerOwned ==
  \A t \in Tabs : executing[t] \/ loading[t] =>
    \E r \in Runs : run[r].tab = t /\ Flies(r) /\ (run[r].kind = "handed" \/ ~Superseded(r))
=============================================================================
