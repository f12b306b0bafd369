----------------------------- MODULE AlertsProofs -----------------------------
(***************************************************************************)
(* Alerts for any number of alerts, schedulers and jobs and any intervals: *)
(* one replica hands alerts over at a time, a chore is handed over once in *)
(* its period, a stored firing was announced, an edit stays, and an alert  *)
(* is handed over once in its interval and told of once in its cooldown,    *)
(* each in the regime it takes.                                            *)
(***************************************************************************)
EXTENDS Alerts, FiniteSetTheorems, TLAPS

Phases == {"none", "queued", "taken"}
Times == 0..MaxClock

Idle(s) == tick[s].phase = "idle"
Handing(s) == tick[s].phase \in {"handing", "marking", "writing"}
Marking(s) == tick[s].phase \in {"marking", "writing"}
Live(j) == run[j].phase \notin {"none", "over"}

(* The shape of the state: TypeOK, and what of it depends on how far a pass, a job or a call is. *)
Typed ==
  /\ coll \in Collection /\ lease \in [holder: Schedulers \cup {NULL}, until: Instants] /\ chore \in Instants
  /\ tick \in [Schedulers -> Tick] /\ run \in [Jobs -> Run] /\ edit \in Edit /\ press \in Press
  /\ phase \in [Jobs -> Phases] /\ inFlight \subseteq {j \in Jobs : phase[j] = "taken"}
  /\ clock \in Times /\ edits \in [Alerts -> 0..MaxEdits]
  /\ handedAt \in [Alerts -> Instants] /\ firedAt \in [Alerts -> Instants] /\ choreTimes \subseteq Times

StagedPass(s) ==
  /\ tick[s].now <= clock
  /\ ~Idle(s) => tick[s].now >= 0
  /\ Handing(s) => tick[s].due # {}
  /\ IF Marking(s) THEN tick[s].alert \in tick[s].due ELSE tick[s].alert = NULL
StagedRun(j) ==
  /\ phase[j] = "none" <=> run[j].phase = "none"
  /\ phase[j] = "queued" <=> run[j].phase = "queued"
  /\ IF Live(j) THEN run[j].alert \in Alerts /\ run[j].born <= clock /\ run[j].now <= clock ELSE run[j].alert = NULL
StagedPress == IF press.phase = "idle" THEN press.alert = NULL ELSE press.alert \in Alerts /\ press.since <= clock
Staged == (\A s \in Schedulers : StagedPass(s)) /\ (\A j \in Jobs : StagedRun(j)) /\ StagedPress

Shaped == Typed /\ Staged

-----------------------------------------------------------------------------
(* Instants, states and collections. *)

LEMMA Bounds ==
  ASSUME AlertsAssumption
  PROVE  /\ Never \in Int /\ Never < 0 - 2 /\ Never + Cooldown < 0 /\ Never + Interval < 0 /\ Never + ChoreEvery < 0
         /\ Never \in Instants /\ Times \subseteq Instants /\ Times \subseteq Nat /\ Instants \subseteq Int
         /\ \A n \in (0 - 1)..MaxClock : n + LeaseTerm \in Instants /\ n + ChoreEvery \in Instants /\ n \in Int
         /\ Interval \in Nat \ {0} /\ Cooldown \in Nat /\ LeaseTerm \in Nat \ {0} /\ ChoreEvery \in Nat \ {0}
         /\ MaxClock \in Nat /\ MaxLag \in Nat /\ MaxJob \in Nat /\ MaxEdits \in Nat /\ NULL \notin Alerts
BY DEF AlertsAssumption, Never, Instants, Times

LEMMA BlankTyped ==
  ASSUME AlertsAssumption
  PROVE  /\ NewState \in State /\ Blank \in Collection
         /\ IdleTick \in Tick /\ NoRun \in Run /\ IdleEdit \in Edit /\ IdlePress \in Press
         /\ NewState.status = "unknown" /\ NewState.lastNotified = Never /\ NewState.lastRun = Never /\ NewState.lastScheduled = Never
         /\ \A a \in Alerts : Blank[a].state = NewState /\ Blank[a].edition = 0 /\ Blank[a].there /\ Blank[a].enabled
<1>1. NewState \in State /\ NewState.status = "unknown" /\ NewState.lastNotified = Never
      /\ NewState.lastRun = Never /\ NewState.lastScheduled = Never
  BY Bounds DEF NewState, State
<1>2. 0 \in 0..MaxEdits /\ 0 \in 0..MaxClock /\ 0 - 1 \in (0 - 1)..MaxClock
  BY Bounds
<1>3. /\ Blank \in Collection
      /\ \A a \in Alerts : Blank[a].state = NewState /\ Blank[a].edition = 0 /\ Blank[a].there /\ Blank[a].enabled
  BY <1>1, <1>2 DEF Blank, Collection, Alert
<1>4. IdleTick \in Tick /\ NoRun \in Run /\ IdleEdit \in Edit /\ IdlePress \in Press
  BY <1>1, <1>2, <1>3 DEF IdleTick, Tick, NoRun, Run, IdleEdit, Edit, IdlePress, Press
<1>5. QED
  BY <1>1, <1>3, <1>4

LEMMA StateTyped ==
  ASSUME AlertsAssumption, NEW st \in State, NEW n \in Times
  PROVE  /\ [st EXCEPT !.lastScheduled = n] \in State
         /\ [st EXCEPT !.lastScheduled = n].status = st.status
         /\ [st EXCEPT !.lastScheduled = n].lastNotified = st.lastNotified
         /\ [st EXCEPT !.lastScheduled = n].lastRun = st.lastRun
         /\ [st EXCEPT !.lastScheduled = n].lastScheduled = n
         /\ \A notify \in BOOLEAN : /\ Fired(st, n, notify) \in State
                                    /\ Fired(st, n, notify).status = "firing"
                                    /\ Fired(st, n, notify).lastNotified = (IF notify THEN n ELSE st.lastNotified)
                                    /\ Fired(st, n, notify).lastRun = n
                                    /\ Fired(st, n, notify).lastScheduled = st.lastScheduled
         /\ \A status \in {"ok", "error"} : /\ NotFired(st, n, status) \in State
                                            /\ NotFired(st, n, status).status = status
                                            /\ NotFired(st, n, status).lastNotified = st.lastNotified
                                            /\ NotFired(st, n, status).lastRun = n
                                            /\ NotFired(st, n, status).lastScheduled = st.lastScheduled
BY Bounds DEF State, Fired, NotFired

LEMMA NotFiredTyped ==
  ASSUME AlertsAssumption, NEW st \in State, NEW n \in Times, NEW c \in {"ok", "error"}
  PROVE  LET u == NotFired(st, n, c)
         IN /\ u \in State /\ u.status = c /\ u.lastNotified = st.lastNotified /\ u.lastRun = n
            /\ u.lastScheduled = st.lastScheduled
BY Bounds DEF State, NotFired

LEMMA FiredTyped ==
  ASSUME AlertsAssumption, NEW st \in State, NEW n \in Times, NEW notify \in BOOLEAN
  PROVE  LET u == Fired(st, n, notify)
         IN /\ u \in State /\ u.status = "firing" /\ u.lastNotified = (IF notify THEN n ELSE st.lastNotified) /\ u.lastRun = n
            /\ u.lastScheduled = st.lastScheduled
BY Bounds DEF State, Fired

LEMMA WithStateTyped ==
  ASSUME NEW seen \in Collection, NEW a \in Alerts, NEW st \in State
  PROVE  /\ WithState(seen, a, st) \in Collection
         /\ \A b \in Alerts : /\ WithState(seen, a, st)[b].state = IF b = a THEN st ELSE seen[b].state
                              /\ WithState(seen, a, st)[b].edition = seen[b].edition
                              /\ WithState(seen, a, st)[b].there = seen[b].there
                              /\ WithState(seen, a, st)[b].enabled = seen[b].enabled
BY DEF WithState, Collection, Alert

-----------------------------------------------------------------------------
(* What a step makes of the pass of its scheduler. *)

OthersPass(s) == tick' \in [Schedulers -> Tick] /\ \A k \in Schedulers : k # s => tick'[k] = tick[k]
KeepsNow(s) == tick'[s].now = tick[s].now
KeepsDue(s) == tick'[s].due = tick[s].due /\ tick'[s].listed = tick[s].listed
KeepsAlert(s) == tick'[s].alert = tick[s].alert /\ tick'[s].seen = tick[s].seen

LEMMA MovesFields ==
  ASSUME Typed, NEW s \in Schedulers, Moves(s, "chores") \/ Moves(s, "chore") \/ Moves(s, "listing")
  PROVE  /\ OthersPass(s) /\ KeepsNow(s) /\ KeepsDue(s) /\ KeepsAlert(s)
         /\ \A p : Moves(s, p) => tick'[s].phase = p
BY DEF Typed, Moves, OthersPass, KeepsNow, KeepsDue, KeepsAlert, Tick

LEMMA RestsFields ==
  ASSUME AlertsAssumption, Typed, NEW s \in Schedulers, Rests(s)
  PROVE  OthersPass(s) /\ KeepsNow(s) /\ Idle(s)' /\ tick'[s].alert = NULL /\ tick'[s].due = {}
<1> DEFINE n == [IdleTick EXCEPT !.now = tick[s].now]
<1>1. n \in Tick /\ n.phase = "idle" /\ n.now = tick[s].now /\ n.alert = NULL /\ n.due = {}
  BY BlankTyped DEF Typed, Tick, IdleTick
<1>2. tick' = [tick EXCEPT ![s] = n]
  BY DEF Rests
<1> HIDE DEF n
<1>3. tick'[s] = n /\ OthersPass(s)
  BY <1>1, <1>2 DEF Typed, OthersPass
<1>4. QED
  BY <1>1, <1>3 DEF KeepsNow, Idle

LEMMA StartFields ==
  ASSUME Typed, NEW s \in Schedulers, TickStart(s)
  PROVE  /\ OthersPass(s) /\ KeepsDue(s) /\ KeepsAlert(s) /\ Idle(s)
         /\ tick'[s].phase = "asking" /\ tick'[s].now = clock /\ tick[s].now < clock
BY DEF TickStart, At, Idle, Typed, OthersPass, KeepsDue, KeepsAlert, Tick, Times

LEMMA ListFields ==
  ASSUME Typed, NEW s \in Schedulers, List(s), DueAlerts(tick[s].now) # {}
  PROVE  /\ OthersPass(s) /\ KeepsNow(s) /\ KeepsAlert(s)
         /\ tick'[s].phase = "handing" /\ tick'[s].due = DueAlerts(tick[s].now) /\ tick'[s].listed = coll
<1>1. DueAlerts(tick[s].now) \subseteq Alerts
  BY DEF DueAlerts
<1>2. QED
  BY <1>1 DEF List, Typed, OthersPass, KeepsNow, KeepsAlert, Tick

LEMMA HandFields ==
  ASSUME Typed, NEW s \in Schedulers, NEW a \in tick[s].due,
         tick' = [tick EXCEPT ![s].phase = "marking", ![s].alert = a]
  PROVE  /\ OthersPass(s) /\ KeepsNow(s) /\ KeepsDue(s)
         /\ tick'[s].phase = "marking" /\ tick'[s].alert = a /\ a \in Alerts
BY DEF Typed, OthersPass, KeepsNow, KeepsDue, Tick

LEMMA ReadFields ==
  ASSUME Typed, NEW s \in Schedulers, tick' = [tick EXCEPT ![s].phase = "writing", ![s].seen = coll]
  PROVE  /\ OthersPass(s) /\ KeepsNow(s) /\ KeepsDue(s)
         /\ tick'[s].phase = "writing" /\ tick'[s].seen = coll /\ tick'[s].alert = tick[s].alert
BY DEF Typed, OthersPass, KeepsNow, KeepsDue, Tick

LEMMA NextFields ==
  ASSUME AlertsAssumption, Typed, NEW s \in Schedulers, NextDue(s)
  PROVE  /\ OthersPass(s) /\ KeepsNow(s) /\ tick'[s].alert = NULL
         /\ \/ Idle(s)' /\ tick'[s].due = {}
            \/ /\ tick'[s].phase = "handing" /\ tick'[s].listed = tick[s].listed
               /\ tick'[s].due = tick[s].due \ {tick[s].alert} /\ tick'[s].due # {}
<1> DEFINE rest == tick[s].due \ {tick[s].alert}
           n == [tick[s] EXCEPT !.phase = "handing", !.due = rest, !.alert = NULL, !.seen = Blank]
<1>1. CASE rest = {}
  BY <1>1, RestsFields DEF NextDue
<1>2. CASE rest # {}
  <2>1. /\ n \in Tick /\ n.phase = "handing" /\ n.now = tick[s].now /\ n.alert = NULL /\ n.due = rest
        /\ n.listed = tick[s].listed
    BY BlankTyped DEF Typed, Tick
  <2>2. tick' = [tick EXCEPT ![s] = n]
    BY <1>2 DEF NextDue, Typed, Tick
  <2> HIDE DEF n
  <2>3. tick'[s] = n /\ OthersPass(s)
    BY <2>1, <2>2 DEF Typed, OthersPass
  <2>4. QED
    BY <1>2, <2>1, <2>3 DEF KeepsNow
<1>3. QED
  BY <1>1, <1>2

-----------------------------------------------------------------------------
(* What a step makes of its job. *)

OthersRun(j) == run' \in [Jobs -> Run] /\ \A k \in Jobs : k # j => run'[k] = run[k]
KeepsJob(j) == run'[j].alert = run[j].alert /\ run'[j].born = run[j].born
KeepsFinding(j) == run'[j].now = run[j].now /\ run'[j].state = run[j].state

LEMMA EndsFields ==
  ASSUME AlertsAssumption, Typed, NEW j \in Jobs, Ends(j)
  PROVE  OthersRun(j) /\ run'[j].phase = "over" /\ run'[j].alert = NULL
<1> DEFINE n == [NoRun EXCEPT !.phase = "over"]
<1>1. n \in Run /\ n.phase = "over" /\ n.alert = NULL
  BY BlankTyped DEF Run, NoRun
<1>2. run' = [run EXCEPT ![j] = n]
  BY DEF Ends
<1> HIDE DEF n
<1>3. run'[j] = n /\ OthersRun(j)
  BY <1>1, <1>2 DEF Typed, OthersRun
<1>4. QED
  BY <1>1, <1>3

LEMMA NewFields ==
  ASSUME AlertsAssumption, Typed, NEW j \in Jobs, NEW a \in Alerts, NewJob(j, a)
  PROVE  /\ OthersRun(j) /\ run'[j].phase = "queued" /\ run'[j].alert = a /\ run'[j].born = clock /\ run'[j].now = 0
         /\ phase[j] = "none" /\ phase'[j] = "queued" /\ phase' \in [Jobs -> Phases]
         /\ \A k \in Jobs : k # j => phase'[k] = phase[k]
         /\ inFlight' = inFlight
<1> DEFINE n == [NoRun EXCEPT !.phase = "queued", !.alert = a, !.born = clock]
<1>1. n \in Run /\ n.phase = "queued" /\ n.alert = a /\ n.born = clock /\ n.now = 0
  BY BlankTyped DEF Run, NoRun, Typed, Times
<1>2. run' = [run EXCEPT ![j] = n]
  BY DEF NewJob
<1> HIDE DEF n
<1>3. run'[j] = n /\ OthersRun(j)
  BY <1>1, <1>2 DEF Typed, OthersRun
<1>4. /\ phase[j] = "none" /\ phase'[j] = "queued" /\ phase' \in [Jobs -> Phases]
      /\ \A k \in Jobs : k # j => phase'[k] = phase[k]
      /\ inFlight' = inFlight
  BY DEF NewJob, Queue!Submit, Typed, Phases
<1>5. QED
  BY <1>1, <1>3, <1>4

LEMMA TakeFields ==
  ASSUME Typed, NEW j \in Jobs, Take(j)
  PROVE  /\ OthersRun(j) /\ KeepsJob(j) /\ KeepsFinding(j) /\ run'[j].phase = "finding"
         /\ phase[j] = "queued" /\ phase'[j] = "taken" /\ phase' \in [Jobs -> Phases]
         /\ \A k \in Jobs : k # j => phase'[k] = phase[k]
         /\ inFlight' = inFlight \cup {j}
<1>1. OthersRun(j) /\ KeepsJob(j) /\ KeepsFinding(j) /\ run'[j].phase = "finding"
  BY DEF Take, Typed, OthersRun, KeepsJob, KeepsFinding, Run
<1>2. /\ phase[j] = "queued" /\ phase'[j] = "taken" /\ phase' \in [Jobs -> Phases]
      /\ \A k \in Jobs : k # j => phase'[k] = phase[k]
      /\ inFlight' = inFlight \cup {j}
  BY DEF Take, Queue!Take, Typed, Phases
<1>3. QED
  BY <1>1, <1>2

LEMMA FindFields ==
  ASSUME Typed, NEW j \in Jobs, run[j].alert \in Alerts,
         run' = [run EXCEPT ![j].phase = "running", ![j].now = clock, ![j].state = coll[run[j].alert].state]
  PROVE  /\ OthersRun(j) /\ KeepsJob(j) /\ run'[j].phase = "running" /\ run'[j].now = clock
         /\ run'[j].state = coll[run[j].alert].state
<1> DEFINE st == coll[run[j].alert].state
<1>1. st \in State
  BY DEF Typed, Collection, Alert
<1>2. run' = [run EXCEPT ![j].phase = "running", ![j].now = clock, ![j].state = st]
  OBVIOUS
<1> HIDE DEF st
<1> DEFINE n == [run[j] EXCEPT !.phase = "running", !.now = clock, !.state = st]
<1>3. run[j] \in Run /\ clock \in 0..MaxClock
  BY DEF Typed, Times
<1>4. /\ n \in Run /\ n.phase = "running" /\ n.now = clock /\ n.state = st
      /\ n.alert = run[j].alert /\ n.born = run[j].born
  BY <1>1, <1>3 DEF Run
<1>5. run' = [run EXCEPT ![j] = n]
  BY <1>2 DEF Typed
<1>6. run \in [Jobs -> Run]
  BY DEF Typed
<1> HIDE DEF n
<1>7. ASSUME NEW r, r = [run EXCEPT ![j] = n]
      PROVE  r[j] = n /\ r \in [Jobs -> Run] /\ \A k \in Jobs : k # j => r[k] = run[k]
  BY <1>4, <1>6, <1>7
<1>8. run'[j] = n /\ OthersRun(j)
  BY <1>5, <1>7 DEF OthersRun
<1>9. QED
  BY <1>4, <1>8 DEF st, KeepsJob

LEMMA HoldsFields ==
  ASSUME AlertsAssumption, Typed, NEW j \in Jobs, Holds(j)
  PROVE  /\ OthersRun(j) /\ KeepsJob(j) /\ run'[j].now = run[j].now
         /\ IF Notifies(run[j].state, run[j].now)
            THEN run'[j].phase = "announcing" /\ run'[j].state = run[j].state
            ELSE run'[j].phase = "storing" /\ run'[j].state = Fired(run[j].state, run[j].now, FALSE)
<1>1. run[j] \in Run /\ run[j].state \in State /\ run[j].now \in Times
  BY DEF Typed, Run, Times
<1> DEFINE st == Fired(run[j].state, run[j].now, FALSE)
<1>2. st \in State
  BY <1>1, StateTyped
<1> HIDE DEF st
<1>3. CASE Notifies(run[j].state, run[j].now)
  <2>1. run' = [run EXCEPT ![j].phase = "announcing", ![j].state = @]
    BY <1>3 DEF Holds, NextStep
  <2>2. QED
    BY <1>1, <1>3, <2>1 DEF Typed, OthersRun, KeepsJob, Run
<1>4. CASE ~Notifies(run[j].state, run[j].now)
  <2>1. run' = [run EXCEPT ![j].phase = "storing", ![j].state = st]
    BY <1>4 DEF Holds, NextStep, st, Notifies, Fired
  <2>2. run'[j].state = st /\ run'[j].phase = "storing" /\ OthersRun(j) /\ KeepsJob(j) /\ run'[j].now = run[j].now
    BY <1>1, <1>2, <2>1 DEF Typed, OthersRun, KeepsJob, Run
  <2>3. QED
    BY <1>4, <2>2 DEF st
<1>5. QED
  BY <1>3, <1>4

LEMMA StoresFields ==
  ASSUME Typed, NEW j \in Jobs, NEW st \in State, run' = [run EXCEPT ![j].phase = "storing", ![j].state = st]
  PROVE  OthersRun(j) /\ KeepsJob(j) /\ run'[j].now = run[j].now /\ run'[j].phase = "storing" /\ run'[j].state = st
BY DEF Typed, OthersRun, KeepsJob, Run

LEMMA WritingFields ==
  ASSUME Typed, NEW j \in Jobs, run' = [run EXCEPT ![j].phase = "writing", ![j].seen = coll]
  PROVE  /\ OthersRun(j) /\ KeepsJob(j) /\ KeepsFinding(j)
         /\ run'[j].phase = "writing" /\ run'[j].seen = coll
BY DEF Typed, OthersRun, KeepsJob, KeepsFinding, Run

-----------------------------------------------------------------------------
(* What a step makes of the "Run now" call. *)

LEMMA PressFields ==
  ASSUME AlertsAssumption, Typed, NEW a \in Alerts, PressRunNow(a)
  PROVE  /\ press' \in Press /\ press'.phase = "found" /\ press'.alert = a /\ press'.since = clock
         /\ press'.state = coll[a].state
<1>1. coll[a].state \in State /\ clock \in 0..MaxClock
  BY DEF Typed, Collection, Alert, Times
<1>2. QED
  BY <1>1, BlankTyped DEF PressRunNow, Press, IdlePress

LEMMA SubmitFields ==
  ASSUME Typed, NEW j \in Jobs, PressSubmit(j)
  PROVE  /\ press' \in Press /\ press'.phase = "marking" /\ press'.alert = press.alert /\ press'.since = press.since
         /\ press'.state = press.state
BY DEF Typed, PressSubmit, Press

LEMMA PressReadFields ==
  ASSUME Typed, press' = [press EXCEPT !.phase = "writing", !.seen = coll]
  PROVE  /\ press' \in Press /\ press'.phase = "writing" /\ press'.alert = press.alert /\ press'.since = press.since
         /\ press'.state = press.state /\ press'.seen = coll
BY DEF Typed, Press

-----------------------------------------------------------------------------
(* Every step keeps the shape. *)

LEMMA PassShapes ==
  ASSUME Shaped, NEW s \in Schedulers, OthersPass(s), StagedPass(s)',
         UNCHANGED <<run, phase, inFlight, press, edit, clock, edits, firedAt, handedAt>>,
         coll' \in Collection, lease' \in [holder: Schedulers \cup {NULL}, until: Instants],
         chore' \in Instants, choreTimes' \subseteq Times
  PROVE  Shaped'
<1>1. Typed'
  BY DEF Shaped, Typed, OthersPass
<1>2. ASSUME NEW k \in Schedulers PROVE StagedPass(k)'
  BY DEF Shaped, Staged, StagedPass, OthersPass, Idle, Handing, Marking
<1>3. (\A j \in Jobs : StagedRun(j)') /\ StagedPress'
  BY DEF Shaped, Staged, StagedRun, StagedPress, Live
<1>4. QED
  BY <1>1, <1>2, <1>3 DEF Shaped, Staged

LEMMA JobShapes ==
  ASSUME Shaped, NEW j \in Jobs, OthersRun(j), StagedRun(j)', UNCHANGED <<tick, press, edit, clock, edits, handedAt, lease, chore, choreTimes>>,
         phase' \in [Jobs -> Phases], \A k \in Jobs : k # j => phase'[k] = phase[k],
         inFlight' \subseteq {k \in Jobs : phase'[k] = "taken"},
         coll' \in Collection, firedAt' \in [Alerts -> Instants]
  PROVE  Shaped'
<1>1. Typed'
  BY DEF Shaped, Typed, OthersRun
<1>2. ASSUME NEW k \in Jobs PROVE StagedRun(k)'
  BY DEF Shaped, Staged, StagedRun, OthersRun, Live
<1>3. (\A s \in Schedulers : StagedPass(s)') /\ StagedPress'
  BY DEF Shaped, Staged, StagedPass, StagedPress, Idle, Handing, Marking
<1>4. QED
  BY <1>1, <1>2, <1>3 DEF Shaped, Staged

(* Neither a pass nor a job moves. *)
LEMMA CallShapes ==
  ASSUME Shaped, UNCHANGED <<tick, run, phase, inFlight, lease, chore, choreTimes, clock>>, press' \in Press, StagedPress',
         edit' \in Edit, edits' \in [Alerts -> 0..MaxEdits], coll' \in Collection,
         firedAt' \in [Alerts -> Instants], handedAt' \in [Alerts -> Instants]
  PROVE  Shaped'
<1>1. Typed'
  BY DEF Shaped, Typed
<1>2. (\A s \in Schedulers : StagedPass(s)') /\ (\A j \in Jobs : StagedRun(j)')
  BY DEF Shaped, Staged, StagedPass, StagedRun, Idle, Handing, Marking, Live
<1>3. QED
  BY <1>1, <1>2 DEF Shaped, Staged

LEMMA PassTyped ==
  ASSUME AlertsAssumption, Shaped, NEW s \in Schedulers
  PROVE  /\ tick[s].now \in Int /\ tick[s].now <= clock /\ clock \in Times /\ MaxClock \in Nat
         /\ tick[s].due \subseteq Alerts /\ tick[s].listed \in Collection /\ tick[s].seen \in Collection
         /\ ~Idle(s) => tick[s].now \in Times
         /\ Marking(s) => tick[s].alert \in Alerts /\ tick[s].alert \in tick[s].due
<1>1. tick[s] \in Tick
  BY DEF Shaped, Typed
<1>2. QED
  BY <1>1, Bounds DEF Shaped, Typed, Staged, StagedPass, Tick, Times

LEMMA PassStepShapes ==
  ASSUME AlertsAssumption, Shaped, NEW s \in Schedulers,
         TickStart(s) \/ AskLease(s) \/ Chores(s) \/ EnqueueChore(s) \/ List(s) \/ MarkRead(s) \/ MarkWrite(s) \/ TickBreaks(s)
  PROVE  Shaped'
<1> Typed /\ StagedPass(s) /\ NULL \notin Alerts
  BY Bounds DEF Shaped, Staged
<1>1. CASE TickStart(s)
  <2>1. StagedPass(s)'
    <3>1. clock' = clock /\ clock \in Int /\ clock >= 0 /\ tick[s].alert = NULL
      BY <1>1, PassTyped DEF TickStart, At, StagedPass, Marking, Times
    <3>2. QED
      BY <1>1, <3>1, StartFields DEF StagedPass, Idle, Handing, Marking, KeepsAlert
  <2>2. QED
    BY <1>1, <2>1, StartFields, PassShapes DEF TickStart, Typed, queueVars, historyVars
<1>2. ASSUME Rests(s), clock' = clock PROVE StagedPass(s)'
  BY <1>2, RestsFields DEF StagedPass, Idle, Handing, Marking, KeepsNow
<1>3. ASSUME NEW p \in {"chores", "chore", "listing"}, Moves(s, p), ~Idle(s), tick[s].alert = NULL, clock' = clock PROVE StagedPass(s)'
  BY <1>3, MovesFields DEF StagedPass, Idle, Handing, Marking, KeepsNow, KeepsAlert
<1>4. CASE AskLease(s)
  <2>1. ~Idle(s) /\ ~Marking(s) /\ clock' = clock /\ tick[s].alert = NULL
    BY <1>4 DEF AskLease, At, Idle, Marking, StagedPass
  <2>2. CASE Grants(s)
    <3>1. Moves(s, "chores") /\ lease' = [holder |-> s, until |-> tick[s].now + LeaseTerm]
      BY <1>4, <2>2 DEF AskLease
    <3>2. tick[s].now \in (0 - 1)..MaxClock
      BY DEF Typed, Tick
    <3>3. lease' \in [holder: Schedulers \cup {NULL}, until: Instants]
      BY <3>1, <3>2, Bounds
    <3>4. StagedPass(s)' /\ OthersPass(s)
      BY <1>3, <2>1, <3>1, MovesFields
    <3>5. QED
      BY <1>4, <3>3, <3>4, PassShapes DEF AskLease, Typed, queueVars, historyVars
  <2>3. CASE ~Grants(s)
    <3>1. Rests(s) /\ lease' = lease
      BY <1>4, <2>3 DEF AskLease
    <3>2. QED
      BY <1>2, <1>4, <2>1, <3>1, RestsFields, PassShapes DEF AskLease, Typed, queueVars, historyVars
  <2>4. QED
    BY <2>2, <2>3
<1>5. CASE Chores(s)
  <2>1. ~Idle(s) /\ ~Marking(s) /\ clock' = clock /\ tick[s].alert = NULL
    BY <1>5 DEF Chores, At, Idle, Marking, StagedPass
  <2>2. tick[s].now \in (0 - 1)..MaxClock
    BY DEF Typed, Tick
  <2>3. chore' \in Instants /\ (Moves(s, "chore") \/ Moves(s, "listing"))
    BY <1>5, <2>2, Bounds DEF Chores, Typed
  <2>4. StagedPass(s)' /\ OthersPass(s)
    BY <1>3, <2>1, <2>3, MovesFields
  <2>5. QED
    BY <1>5, <2>3, <2>4, PassShapes DEF Chores, Typed, queueVars, historyVars
<1>6. CASE EnqueueChore(s)
  <2>1. ~Idle(s) /\ ~Marking(s) /\ clock' = clock /\ tick[s].alert = NULL
    BY <1>6 DEF EnqueueChore, At, Idle, Marking, StagedPass
  <2>2. choreTimes' \subseteq Times
    BY <1>6, <2>1, PassTyped DEF EnqueueChore, Typed
  <2>3. StagedPass(s)' /\ OthersPass(s)
    BY <1>3, <1>6, <2>1, MovesFields DEF EnqueueChore
  <2>4. QED
    BY <1>6, <2>2, <2>3, PassShapes DEF EnqueueChore, Typed, queueVars, historyVars
<1>7. CASE List(s)
  <2>1. ~Idle(s) /\ ~Marking(s) /\ clock' = clock /\ tick[s].alert = NULL
    BY <1>7 DEF List, At, Idle, Marking, StagedPass
  <2>2. StagedPass(s)' /\ OthersPass(s)
    <3>1. CASE DueAlerts(tick[s].now) = {}
      BY <1>2, <1>7, <2>1, <3>1, RestsFields DEF List
    <3>2. CASE DueAlerts(tick[s].now) # {}
      BY <1>7, <2>1, <3>2, ListFields DEF StagedPass, Idle, Handing, Marking, KeepsNow, KeepsAlert
    <3>3. QED
      BY <3>1, <3>2
  <2>3. QED
    BY <1>7, <2>2, PassShapes DEF List, Typed, queueVars, historyVars
<1>8. ASSUME NextDue(s), clock' = clock, Marking(s) PROVE StagedPass(s)' /\ OthersPass(s)
  BY <1>8, NextFields DEF StagedPass, Idle, Handing, Marking, KeepsNow
<1>9. CASE MarkRead(s)
  <2>1. Marking(s) /\ ~Idle(s) /\ clock' = clock
    BY <1>9 DEF MarkRead, At, Marking, Idle
  <2>2. StagedPass(s)' /\ OthersPass(s)
    <3>1. CASE NextDue(s)
      BY <1>8, <2>1, <3>1
    <3>2. CASE tick' = [tick EXCEPT ![s].phase = "writing", ![s].seen = coll]
      BY <2>1, <3>2, ReadFields DEF StagedPass, Idle, Handing, Marking, KeepsNow, KeepsDue
    <3>3. QED
      BY <1>9, <3>1, <3>2 DEF MarkRead
  <2>3. QED
    BY <1>9, <2>2, PassShapes DEF MarkRead, Typed, queueVars, historyVars
<1>10. CASE MarkWrite(s)
  <2>1. Marking(s) /\ clock' = clock
    BY <1>10 DEF MarkWrite, At, Marking
  <2>2. coll' \in Collection
    <3> DEFINE st == tick[s].listed[tick[s].alert].state
    <3>1. st \in State /\ tick[s].now \in Times /\ tick[s].alert \in Alerts /\ tick[s].seen \in Collection
      BY <2>1, PassTyped DEF Collection, Alert, Idle, Marking
    <3>2. coll' = WithState(tick[s].seen, tick[s].alert, [st EXCEPT !.lastScheduled = tick[s].now])
      BY <1>10 DEF MarkWrite, MarkBase
    <3> HIDE DEF st
    <3>3. [st EXCEPT !.lastScheduled = tick[s].now] \in State
      BY <3>1, StateTyped
    <3>4. QED
      BY <3>1, <3>2, <3>3, WithStateTyped
  <2>3. StagedPass(s)' /\ OthersPass(s)
    BY <1>8, <1>10, <2>1 DEF MarkWrite
  <2>4. QED
    BY <1>10, <2>2, <2>3, PassShapes DEF MarkWrite, Typed, queueVars, historyVars
<1>11. CASE TickBreaks(s)
  BY <1>2, <1>11, RestsFields, PassShapes DEF TickBreaks, Typed, queueVars, historyVars
<1>12. QED
  BY <1>1, <1>4, <1>5, <1>6, <1>7, <1>9, <1>10, <1>11

LEMMA JobTyped ==
  ASSUME AlertsAssumption, Shaped, NEW j \in Jobs
  PROVE  /\ run[j].state \in State /\ run[j].now \in Times /\ run[j].born \in Times /\ run[j].seen \in Collection
         /\ Live(j) => run[j].alert \in Alerts
         /\ StagedRun(j) /\ Typed /\ inFlight \subseteq {k \in Jobs : phase[k] = "taken"}
         /\ coll \in Collection /\ firedAt \in [Alerts -> Instants] /\ phase \in [Jobs -> Phases]
<1>1. run[j] \in Run
  BY DEF Shaped, Typed
<1>2. QED
  BY <1>1 DEF Shaped, Typed, Staged, StagedRun, Run, Times

(* The job goes on in the phase p it comes to, or is over. *)
LEMMA GoesOnShape ==
  ASSUME NEW j, StagedRun(j), Live(j), phase[j] \notin {"none", "queued"}, KeepsJob(j), phase'[j] = phase[j], clock' = clock,
         run'[j].now <= clock, run'[j].phase \notin {"none", "queued", "over"}
  PROVE  StagedRun(j)'
BY DEF StagedRun, Live, KeepsJob

LEMMA JobStepShapes ==
  ASSUME AlertsAssumption, Shaped, NEW j \in Jobs,
         Take(j) \/ Find(j) \/ Evaluate(j) \/ Announce(j) \/ AnnounceFails(j) \/ StoreRead(j) \/ StoreWrite(j) \/ RunBreaks(j)
  PROVE  Shaped'
<1> Typed /\ StagedRun(j)
  BY JobTyped
<1>1. CASE Take(j)
  <2>1. phase[j] = "queued" /\ run[j].phase = "queued" /\ Live(j)
    BY <1>1, TakeFields DEF StagedRun, Live
  <2>2. StagedRun(j)'
    BY <1>1, <2>1, TakeFields DEF Take, StagedRun, Live, KeepsJob, KeepsFinding
  <2>3. inFlight' \subseteq {k \in Jobs : phase'[k] = "taken"}
    BY <1>1, TakeFields, JobTyped
  <2>4. coll' \in Collection /\ firedAt' \in [Alerts -> Instants] /\ OthersRun(j) /\ phase' \in [Jobs -> Phases]
        /\ \A k \in Jobs : k # j => phase'[k] = phase[k]
    BY <1>1, TakeFields, JobTyped DEF Take, historyVars
  <2>5. UNCHANGED <<tick, press, edit, clock, edits, handedAt, lease, chore, choreTimes>>
    BY <1>1 DEF Take, historyVars
  <2>6. QED
    BY <2>2, <2>3, <2>4, <2>5, JobShapes
<1>2. ASSUME OthersRun(j), StagedRun(j)', UNCHANGED <<phase, tick, press, edit, clock, edits, handedAt, lease, chore, choreTimes>>,
             inFlight' \subseteq inFlight, coll' \in Collection, firedAt' \in [Alerts -> Instants]
      PROVE  Shaped'
  <2>1. inFlight' \subseteq {k \in Jobs : phase'[k] = "taken"} /\ phase' \in [Jobs -> Phases]
    BY <1>2, JobTyped
  <2>2. QED
    BY <1>2, <2>1, JobShapes
<1>3. ASSUME Ends(j), Queue!Release({j}), coll' \in Collection,
             UNCHANGED <<tick, press, edit, clock, edits, handedAt, firedAt, lease, chore, choreTimes>>
      PROVE  Shaped'
  <2>1. phase[j] = "taken" /\ phase' = phase /\ inFlight' \subseteq inFlight
    BY <1>3, JobTyped DEF Queue!Release
  <2>2. OthersRun(j) /\ StagedRun(j)'
    BY <1>3, <2>1, EndsFields DEF StagedRun, Live
  <2>3. QED
    BY <1>2, <1>3, <2>1, <2>2, JobTyped
<1>4. ASSUME KeepsJob(j), OthersRun(j), run'[j].now = run[j].now \/ run'[j].now = clock, Live(j), ~RunAt(j, "queued"),
             run'[j].phase \notin {"none", "queued", "over"},
             UNCHANGED <<coll, phase, inFlight, tick, press, edit, clock, edits, handedAt, lease, chore, choreTimes>>,
             firedAt' \in [Alerts -> Instants]
      PROVE  Shaped'
  <2>1. phase[j] \notin {"none", "queued"} /\ run[j].now <= clock /\ clock <= clock
    BY <1>4, PassTyped DEF StagedRun, Live, RunAt, Typed, Times
  <2>2. StagedRun(j)'
    BY <1>4, <2>1, GoesOnShape
  <2>3. QED
    BY <1>2, <1>4, <2>2, JobTyped
<1>5. CASE Find(j)
  <2>1. Live(j) /\ ~RunAt(j, "queued") /\ UNCHANGED <<coll, tick, press, edit, clock, edits, handedAt, firedAt, lease, chore, choreTimes>>
    BY <1>5 DEF Find, RunAt, Live, historyVars
  <2>2. CASE coll[run[j].alert].there
    <3>1. /\ run' = [run EXCEPT ![j].phase = "running", ![j].now = clock, ![j].state = coll[run[j].alert].state]
          /\ UNCHANGED <<phase, inFlight>>
      BY <1>5, <2>2 DEF Find, queueVars
    <3>2. KeepsJob(j) /\ OthersRun(j) /\ run'[j].now = clock /\ run'[j].phase = "running"
      BY <2>1, <3>1, FindFields, JobTyped
    <3>3. QED
      BY <1>4, <2>1, <3>1, <3>2, JobTyped
  <2>3. CASE ~coll[run[j].alert].there
    BY <1>3, <1>5, <2>1, <2>3, JobTyped DEF Find
  <2>4. QED
    BY <2>2, <2>3
<1>6. ASSUME RunAt(j, "running") \/ RunAt(j, "announcing"), NEW st \in State, firedAt' \in [Alerts -> Instants],
             run' = [run EXCEPT ![j].phase = "storing", ![j].state = st],
             UNCHANGED <<coll, phase, inFlight, tick, press, edit, clock, edits, handedAt, lease, chore, choreTimes>>
      PROVE  Shaped'
  <2>1. Live(j) /\ ~RunAt(j, "queued")
    BY <1>6 DEF RunAt, Live
  <2>2. KeepsJob(j) /\ OthersRun(j) /\ run'[j].now = run[j].now /\ run'[j].phase = "storing"
    BY <1>6, StoresFields
  <2>3. QED
    BY <1>4, <1>6, <2>1, <2>2
<1>7. \A status \in {"ok", "error"} : NotFired(run[j].state, run[j].now, status) \in State
  BY JobTyped, StateTyped
<1>8. Fired(run[j].state, run[j].now, TRUE) \in State
  BY JobTyped, StateTyped
<1>9. Never \in Instants /\ run[j].now \in Instants
  BY Bounds, JobTyped
<1>10. CASE Evaluate(j)
  <2>1. RunAt(j, "running") /\ Live(j) /\ ~RunAt(j, "queued")
        /\ UNCHANGED <<coll, phase, inFlight, tick, press, edit, clock, edits, handedAt, lease, chore, choreTimes>>
    BY <1>10 DEF Evaluate, RunAt, Live, queueVars
  <2>2. CASE Holds(j) /\ UNCHANGED firedAt
    <3>1. /\ OthersRun(j) /\ KeepsJob(j) /\ run'[j].now = run[j].now
          /\ run'[j].phase = "announcing" \/ run'[j].phase = "storing"
      BY <2>2, HoldsFields
    <3>2. QED
      BY <1>4, <2>1, <2>2, <3>1, JobTyped
  <2>3. CASE HoldsNot(j)
    <3>1. PICK status \in {"ok", "error"} :
            run' = [run EXCEPT ![j].phase = "storing", ![j].state = NotFired(run[j].state, run[j].now, status)]
      BY <2>3 DEF HoldsNot, Typed
    <3>2. firedAt' \in [Alerts -> Instants]
      BY <1>9, <2>3, JobTyped DEF HoldsNot
    <3>3. QED
      BY <1>6, <1>7, <2>1, <3>1, <3>2
  <2>4. QED
    BY <1>10, <2>2, <2>3 DEF Evaluate
<1>11. CASE Announce(j)
  <2>1. RunAt(j, "announcing") /\ UNCHANGED <<coll, phase, inFlight, tick, press, edit, clock, edits, handedAt, lease, chore, choreTimes>>
    BY <1>11 DEF Announce, queueVars
  <2>2. run' = [run EXCEPT ![j].phase = "storing", ![j].state = Fired(run[j].state, run[j].now, TRUE)]
    BY <1>11 DEF Announce, Typed
  <2>3. firedAt' \in [Alerts -> Instants]
    BY <1>9, <1>11, JobTyped DEF Announce, Tells
  <2>4. QED
    BY <1>6, <1>8, <2>1, <2>2, <2>3
<1>12. CASE AnnounceFails(j)
  <2>1. RunAt(j, "announcing") /\ UNCHANGED <<coll, phase, inFlight, tick, press, edit, clock, edits, handedAt, lease, chore, choreTimes>>
    BY <1>12 DEF AnnounceFails, queueVars
  <2>2. run' = [run EXCEPT ![j].phase = "storing", ![j].state = NotFired(run[j].state, run[j].now, "error")]
    BY <1>12 DEF AnnounceFails, Typed
  <2>3. firedAt' \in [Alerts -> Instants]
    BY <1>9, <1>12, JobTyped DEF AnnounceFails, Tells
  <2>4. QED
    BY <1>6, <1>7, <2>1, <2>2, <2>3
<1>13. CASE StoreRead(j)
  <2>1. Live(j) /\ ~RunAt(j, "queued") /\ UNCHANGED <<coll, tick, press, edit, clock, edits, handedAt, firedAt, lease, chore, choreTimes>>
    BY <1>13 DEF StoreRead, RunAt, Live, historyVars
  <2>2. CASE coll[run[j].alert].there
    <3>1. run' = [run EXCEPT ![j].phase = "writing", ![j].seen = coll] /\ UNCHANGED <<phase, inFlight>>
      BY <1>13, <2>2 DEF StoreRead, queueVars
    <3>2. KeepsJob(j) /\ OthersRun(j) /\ run'[j].now = run[j].now /\ run'[j].phase = "writing"
      BY <3>1, WritingFields DEF KeepsFinding
    <3>3. QED
      BY <1>4, <2>1, <3>1, <3>2, JobTyped
  <2>3. CASE ~coll[run[j].alert].there
    BY <1>3, <1>13, <2>1, <2>3, JobTyped DEF StoreRead
  <2>4. QED
    BY <2>2, <2>3
<1>14. CASE StoreWrite(j)
  <2>1. Live(j)
    BY <1>14 DEF StoreWrite, RunAt, Live
  <2>2. coll' \in Collection
    BY <1>14, <2>1, JobTyped, WithStateTyped DEF StoreWrite
  <2>3. QED
    BY <1>3, <1>14, <2>2 DEF StoreWrite, historyVars
<1>15. CASE RunBreaks(j)
  BY <1>3, <1>15, JobTyped DEF RunBreaks, historyVars
<1>16. QED
  BY <1>1, <1>5, <1>10, <1>11, <1>12, <1>13, <1>14, <1>15

(* A new job is in shape, and the others stay as they were. *)
LEMMA NewShape ==
  ASSUME AlertsAssumption, Shaped, NEW j \in Jobs, NEW a \in Alerts, NewJob(j, a), UNCHANGED clock
  PROVE  /\ \A k \in Jobs : StagedRun(k)'
         /\ run' \in [Jobs -> Run] /\ phase' \in [Jobs -> Phases] /\ inFlight' \subseteq {k \in Jobs : phase'[k] = "taken"}
<1>1. Typed /\ \A k \in Jobs : StagedRun(k)
  BY DEF Shaped, Staged
<1>2. 0 <= clock /\ clock <= clock
  BY Bounds DEF Shaped, Typed, Times
<1>3. inFlight' \subseteq {k \in Jobs : phase'[k] = "taken"}
  BY <1>1, NewFields, JobTyped
<1>4. StagedRun(j)'
  BY <1>1, <1>2, NewFields DEF StagedRun, Live
<1>5. ASSUME NEW k \in Jobs, k # j PROVE StagedRun(k)'
  BY <1>1, <1>5, NewFields DEF StagedRun, Live, OthersRun
<1>6. QED
  BY <1>1, <1>3, <1>4, <1>5, NewFields DEF OthersRun

LEMMA HandOverShapes == ASSUME AlertsAssumption, Shaped, NEW s \in Schedulers, NEW j \in Jobs, HandOver(s, j) PROVE Shaped'
<1>1. Typed /\ StagedPass(s) /\ clock' = clock /\ ~Idle(s)
  BY DEF Shaped, Staged, HandOver, At, Idle
<1>2. PICK a \in tick[s].due :
        /\ NewJob(j, a) /\ tick' = [tick EXCEPT ![s].phase = "marking", ![s].alert = a]
        /\ handedAt' = [handedAt EXCEPT ![a] = tick[s].now]
  BY DEF HandOver
<1>3. /\ OthersPass(s) /\ KeepsNow(s) /\ KeepsDue(s) /\ tick'[s].phase = "marking" /\ tick'[s].alert = a /\ a \in Alerts
  BY <1>1, <1>2, HandFields
<1>4. StagedPass(s)'
  BY <1>1, <1>3 DEF StagedPass, Idle, Handing, Marking, KeepsNow, KeepsDue
<1>5. \A k \in Schedulers : StagedPass(k)'
  BY <1>1, <1>3, <1>4 DEF Shaped, Staged, StagedPass, OthersPass, Idle, Handing, Marking
<1>6. handedAt' \in [Alerts -> Instants]
  BY <1>1, <1>2, PassTyped, Bounds DEF Typed
<1>7. UNCHANGED <<coll, lease, chore, edit, press, clock, edits, firedAt, choreTimes>>
  BY DEF HandOver
<1>8. /\ \A k \in Jobs : StagedRun(k)'
      /\ run' \in [Jobs -> Run] /\ phase' \in [Jobs -> Phases] /\ inFlight' \subseteq {k \in Jobs : phase'[k] = "taken"}
  BY <1>1, <1>2, <1>3, NewShape
<1>9. Typed'
  BY <1>1, <1>3, <1>6, <1>7, <1>8 DEF Typed, OthersPass
<1>10. StagedPress'
  BY <1>7 DEF Shaped, Staged, StagedPress
<1>11. QED
  BY <1>5, <1>8, <1>9, <1>10 DEF Shaped, Staged

LEMMA SubmitShapes == ASSUME AlertsAssumption, Shaped, NEW j \in Jobs, PressSubmit(j) PROVE Shaped'
<1>1. Typed /\ StagedPress /\ UNCHANGED <<coll, lease, chore, tick, edit, clock, edits, handedAt, firedAt, choreTimes>>
  BY DEF Shaped, Staged, PressSubmit, historyVars
<1>2. press.alert \in Alerts /\ press.since <= clock /\ NewJob(j, press.alert)
  BY <1>1 DEF PressSubmit, StagedPress
<1>3. press' \in Press /\ StagedPress'
  BY <1>1, <1>2, SubmitFields DEF StagedPress
<1>4. /\ \A k \in Jobs : StagedRun(k)'
      /\ run' \in [Jobs -> Run] /\ phase' \in [Jobs -> Phases] /\ inFlight' \subseteq {k \in Jobs : phase'[k] = "taken"}
  BY <1>1, <1>2, NewShape
<1>5. Typed'
  BY <1>1, <1>3, <1>4 DEF Typed
<1>6. \A s \in Schedulers : StagedPass(s)'
  BY <1>1 DEF Shaped, Staged, StagedPass, Idle, Handing, Marking
<1>7. QED
  BY <1>3, <1>4, <1>5, <1>6 DEF Shaped, Staged

LEMMA CallTyped ==
  ASSUME AlertsAssumption, Shaped
  PROVE  /\ edit \in Edit /\ edit.seen \in Collection /\ press \in Press /\ press.state \in State /\ press.seen \in Collection
         /\ press.since \in Times /\ coll \in Collection /\ StagedPress /\ clock \in Times
         /\ edits \in [Alerts -> 0..MaxEdits] /\ firedAt \in [Alerts -> Instants] /\ handedAt \in [Alerts -> Instants]
BY DEF Shaped, Staged, Typed, Edit, Press, Times

LEMMA SaveTyped ==
  ASSUME AlertsAssumption, Shaped, NEW a \in Alerts, NEW alert \in Alert, Writes(a, alert), edits[a] < MaxEdits
  PROVE  /\ coll' \in Collection /\ edits' \in [Alerts -> 0..MaxEdits] /\ edit' \in Edit
         /\ coll' = [edit.seen EXCEPT ![a] = alert]
         /\ \A b \in Alerts : coll'[b] = (IF b = a THEN alert ELSE edit.seen[b]) /\ edits'[b] = IF b = a THEN edits[a] + 1 ELSE edits[b]
         /\ UNCHANGED <<tick, run, phase, inFlight, lease, chore, choreTimes, clock, press>>
<1>1. edit.seen \in [Alerts -> Alert] /\ edits \in [Alerts -> 0..MaxEdits] /\ MaxEdits \in Nat
  BY CallTyped, Bounds DEF Collection
<1>2. edits[a] + 1 \in 0..MaxEdits
  BY <1>1
<1>3. coll' = [edit.seen EXCEPT ![a] = alert] /\ edits' = [edits EXCEPT ![a] = edits[a] + 1] /\ edit' = IdleEdit
  BY <1>1 DEF Writes
<1>4. QED
  BY <1>1, <1>2, <1>3, BlankTyped DEF Writes, Collection, queueVars

LEMMA SavedTyped ==
  ASSUME AlertsAssumption, Shaped, NEW a \in Alerts, edits[a] < MaxEdits, NEW on \in BOOLEAN
  PROVE  LET old == edit.seen[a]
             state == IF old.there THEN old.state ELSE NewState
         IN /\ state \in State
            /\ [there |-> TRUE, enabled |-> on, edition |-> edits[a] + 1, state |-> state] \in Alert
            /\ [there |-> FALSE, enabled |-> FALSE, edition |-> edits[a] + 1, state |-> NewState] \in Alert
<1>1. edit.seen[a].state \in State /\ NewState \in State
  BY CallTyped, BlankTyped DEF Collection, Alert
<1>2. edits[a] + 1 \in 0..MaxEdits
  BY CallTyped, Bounds
<1>3. QED
  BY <1>1, <1>2 DEF Alert

LEMMA CallStepShapes ==
  ASSUME AlertsAssumption, Shaped,
         \/ EditRead \/ PressRead \/ PressWrite \/ ClockTick
         \/ \E a \in Alerts : Save(a) \/ Delete(a) \/ PressRunNow(a)
  PROVE  Shaped'
<1>1. CASE EditRead
  <2>1. edit' \in Edit /\ StagedPress'
    BY <1>1, CallTyped DEF EditRead, Edit, StagedPress, queueVars
  <2>2. QED
    BY <1>1, <2>1, CallShapes, CallTyped DEF EditRead, queueVars, historyVars
<1>2. CASE PressRead
  <2>1. press' \in Press /\ StagedPress'
    <3>1. CASE press' = IdlePress
      BY <3>1, BlankTyped DEF StagedPress, IdlePress
    <3>2. CASE press' = [press EXCEPT !.phase = "writing", !.seen = coll]
      BY <1>2, <3>2, PressReadFields, CallTyped DEF Shaped, PressRead, StagedPress
    <3>3. QED
      BY <1>2, <3>1, <3>2 DEF PressRead
  <2>2. QED
    BY <1>2, <2>1, CallShapes, CallTyped DEF PressRead, queueVars, historyVars
<1>3. CASE PressWrite
  <2>1. press.alert \in Alerts /\ press.since \in Times /\ press.state \in State /\ press.seen \in Collection
    BY <1>3, CallTyped DEF PressWrite, StagedPress
  <2>2. [press.state EXCEPT !.lastScheduled = press.since] \in State
    BY <2>1, StateTyped
  <2>3. coll' \in Collection
    BY <1>3, <2>1, <2>2, WithStateTyped DEF PressWrite
  <2>4. press' \in Press /\ StagedPress'
    BY <1>3, BlankTyped DEF PressWrite, StagedPress, IdlePress
  <2>5. QED
    BY <1>3, <2>3, <2>4, CallShapes, CallTyped DEF PressWrite, queueVars, historyVars
<1>4. CASE ClockTick
  <2>1. clock \in Int /\ clock' = clock + 1 /\ clock' \in Times /\ clock <= clock' /\ MaxClock \in Nat
    BY <1>4, CallTyped, Bounds DEF ClockTick, Times
  <2>2. /\ UNCHANGED <<coll, lease, chore, tick, edit, press, phase, inFlight, run, edits, handedAt, firedAt, choreTimes>>
    BY <1>4 DEF ClockTick, queueVars, historyVars
  <2>3. Typed'
    BY <2>1, <2>2 DEF Shaped, Typed
  <2>4. ASSUME NEW s \in Schedulers PROVE StagedPass(s)'
    <3>1. tick[s].now <= clock' /\ StagedPass(s)
      BY <2>1, PassTyped DEF Shaped, Staged
    <3>2. QED
      BY <2>2, <3>1 DEF StagedPass, Idle, Handing, Marking
  <2>5. ASSUME NEW j \in Jobs PROVE StagedRun(j)'
    <3>1. run[j].now \in Int /\ run[j].born \in Int /\ StagedRun(j)
      BY JobTyped, Bounds DEF Times
    <3>2. QED
      BY <2>1, <2>2, <3>1 DEF StagedRun, Live
  <2>6. StagedPress'
    BY <2>1, <2>2, CallTyped DEF StagedPress, Times
  <2>7. QED
    BY <2>3, <2>4, <2>5, <2>6 DEF Shaped, Staged
<1>5. ASSUME NEW a \in Alerts, Save(a) PROVE Shaped'
  <2>1. PICK on \in BOOLEAN :
          Writes(a, [there |-> TRUE, enabled |-> on, edition |-> edits[a] + 1,
                     state |-> IF edit.seen[a].there THEN edit.seen[a].state ELSE NewState])
    BY <1>5 DEF Save
  <2>2. edits[a] < MaxEdits
    BY <1>5 DEF Save
  <2>3. /\ coll' \in Collection /\ edits' \in [Alerts -> 0..MaxEdits] /\ edit' \in Edit
        /\ UNCHANGED <<tick, run, phase, inFlight, lease, chore, choreTimes, clock, press>>
    BY <2>1, <2>2, SaveTyped, SavedTyped
  <2>4. firedAt' \in [Alerts -> Instants] /\ handedAt' \in [Alerts -> Instants]
    BY <1>5, CallTyped, Bounds DEF Save
  <2>5. QED
    BY <2>3, <2>4, CallShapes, CallTyped DEF StagedPress
<1>6. ASSUME NEW a \in Alerts, Delete(a) PROVE Shaped'
  <2>1. /\ coll' \in Collection /\ edits' \in [Alerts -> 0..MaxEdits] /\ edit' \in Edit
        /\ UNCHANGED <<tick, run, phase, inFlight, lease, chore, choreTimes, clock, press>>
    BY <1>6, SaveTyped, SavedTyped DEF Delete
  <2>2. QED
    BY <1>6, <2>1, CallShapes, CallTyped DEF Delete, StagedPress
<1>7. ASSUME NEW a \in Alerts, PressRunNow(a) PROVE Shaped'
  <2>1. press' \in Press /\ StagedPress'
    <3>1. clock' = clock /\ clock \in Int
      BY <1>7, CallTyped, Bounds DEF PressRunNow
    <3>2. QED
      BY <1>7, <3>1, PressFields DEF Shaped, StagedPress
  <2>2. QED
    BY <1>7, <2>1, CallShapes, CallTyped DEF PressRunNow, queueVars, historyVars
<1>8. QED
  BY <1>1, <1>2, <1>3, <1>4, <1>5, <1>6, <1>7

LEMMA ShapedStep == ASSUME AlertsAssumption, Shaped, Next PROVE Shaped'
BY PassStepShapes, JobStepShapes, HandOverShapes, SubmitShapes, CallStepShapes DEF Next

LEMMA ShapedInit == ASSUME AlertsAssumption, Init PROVE Shaped
<1>1. Never \in Instants /\ 0 \in Times /\ 0 \in 0..MaxEdits /\ NULL \notin Alerts
  BY Bounds DEF Times
<1>2. Typed
  BY <1>1, BlankTyped DEF Init, Queue!Init, Typed, Phases
<1>3. \A s \in Schedulers : StagedPass(s)
  BY DEF Init, StagedPass, Idle, Handing, Marking, IdleTick
<1>4. (\A j \in Jobs : StagedRun(j)) /\ StagedPress
  BY DEF Init, Queue!Init, StagedRun, Live, StagedPress, NoRun, IdlePress
<1>5. QED
  BY <1>2, <1>3, <1>4 DEF Shaped, Staged

LEMMA ShapedStutter == ASSUME Shaped, UNCHANGED vars PROVE Shaped'
BY DEF vars, queueVars, historyVars, Shaped, Typed, Staged, StagedPass, StagedRun, StagedPress, Idle, Handing, Marking, Live

LEMMA ShapedHolds == ASSUME AlertsAssumption PROVE Spec => []Shaped
BY ShapedInit, ShapedStep, ShapedStutter, PTL DEF Spec

(* TypeOK, which says less: what a pass holds depends on its phase. *)
THEOREM TypeCorrect == ASSUME AlertsAssumption PROVE Spec => []TypeOK
<1>1. ASSUME Shaped PROVE TypeOK
  <2>1. NULL \notin Alerts /\ \A s \in Schedulers : StagedPass(s) /\ tick[s].due \subseteq Alerts
    BY <1>1, PassTyped, Bounds DEF Shaped, Staged
  <2>2. \A s \in Schedulers : /\ tick[s].phase \in {"handing", "marking", "writing"} => tick[s].due # {}
                              /\ tick[s].phase \in {"marking", "writing"} <=> tick[s].alert # NULL
    BY <2>1 DEF StagedPass, Handing, Marking
  <2>3. \A j \in Jobs : phase[j] = "none" <=> run[j].phase = "none"
    BY <1>1 DEF Shaped, Staged, StagedRun
  <2>4. QED
    BY <1>1, <2>2, <2>3 DEF Shaped, Typed, TypeOK, Times
<1>2. QED
  BY <1>1, ShapedHolds, PTL

-----------------------------------------------------------------------------
(* Whoever leads holds the lease it took at the start of its pass, and a pass that lasts no longer *)
(* than the lease still holds it at its end.                                                       *)

Leading(s) == tick[s].phase \in {"chores", "chore", "listing", "handing", "marking", "writing"}
Led == \A s \in Schedulers : Leading(s) => lease.holder = s /\ lease.until = tick[s].now + LeaseTerm
Paced == \A s \in Schedulers : ~Idle(s) => clock <= tick[s].now + MaxLag
LeaderInv == Shaped /\ Led /\ Paced

PassStep(s) ==
  TickStart(s) \/ AskLease(s) \/ Chores(s) \/ EnqueueChore(s) \/ List(s) \/ MarkRead(s) \/ MarkWrite(s) \/ TickBreaks(s)
  \/ \E j \in Jobs : HandOver(s, j)
JobStep(j) ==
  Take(j) \/ Find(j) \/ Evaluate(j) \/ Announce(j) \/ AnnounceFails(j) \/ StoreRead(j) \/ StoreWrite(j) \/ RunBreaks(j)
CallStep == EditRead \/ PressRead \/ PressWrite \/ \E a \in Alerts : Save(a) \/ Delete(a) \/ PressRunNow(a)

LEMMA NextSteps ==
  Next <=> \/ \E s \in Schedulers : PassStep(s)
           \/ \E j \in Jobs : JobStep(j) \/ PressSubmit(j)
           \/ CallStep \/ ClockTick
BY DEF Next, PassStep, JobStep, CallStep

(* A pass goes on without the lease or the chore being asked for, and neither leads who did not. *)
GoesOn(s) ==
  /\ OthersPass(s) /\ KeepsNow(s) /\ ~Idle(s) /\ (Leading(s)' => Leading(s))
  /\ UNCHANGED <<lease, clock>>

LEMMA PassGoesOn ==
  ASSUME AlertsAssumption, Shaped, NEW s \in Schedulers, PassStep(s)
  PROVE  \/ TickStart(s)
         \/ At(s, "asking") /\ Moves(s, "chores") /\ Grants(s) /\ UNCHANGED clock
            /\ lease' = [holder |-> s, until |-> tick[s].now + LeaseTerm]
         \/ GoesOn(s)
<1> Typed
  BY DEF Shaped
<1>1. ASSUME Rests(s), ~Idle(s), UNCHANGED <<lease, clock>> PROVE GoesOn(s)
  BY <1>1, RestsFields DEF GoesOn, Leading, Idle
<1>2. ASSUME Moves(s, "chore") \/ Moves(s, "listing"), At(s, "chores") \/ At(s, "chore"), UNCHANGED <<lease, clock>> PROVE GoesOn(s)
  BY <1>2, MovesFields DEF GoesOn, Leading, Idle, At
<1>3. ASSUME NextDue(s), Marking(s), UNCHANGED <<lease, clock>> PROVE GoesOn(s)
  BY <1>3, NextFields DEF GoesOn, Leading, Idle, Marking
<1>4. CASE AskLease(s)
  BY <1>1, <1>4 DEF AskLease, At, Idle
<1>5. CASE Chores(s) \/ EnqueueChore(s)
  BY <1>2, <1>5 DEF Chores, EnqueueChore
<1>6. CASE List(s)
  <2>1. CASE DueAlerts(tick[s].now) = {}
    BY <1>1, <1>6, <2>1 DEF List, At, Idle
  <2>2. CASE DueAlerts(tick[s].now) # {}
    BY <1>6, <2>2, ListFields DEF List, At, Idle, GoesOn, Leading
  <2>3. QED
    BY <2>1, <2>2
<1>7. CASE MarkRead(s)
  <2>1. CASE NextDue(s)
    BY <1>3, <1>7, <2>1 DEF MarkRead, At, Marking
  <2>2. CASE tick' = [tick EXCEPT ![s].phase = "writing", ![s].seen = coll]
    BY <1>7, <2>2, ReadFields DEF MarkRead, At, Idle, GoesOn, Leading
  <2>3. QED
    BY <1>7, <2>1, <2>2 DEF MarkRead
<1>8. CASE MarkWrite(s)
  BY <1>3, <1>8 DEF MarkWrite, At, Marking
<1>9. CASE TickBreaks(s)
  BY <1>1, <1>9 DEF TickBreaks, At, Idle
<1>10. ASSUME NEW j \in Jobs, HandOver(s, j) PROVE GoesOn(s)
  BY <1>10, HandFields DEF HandOver, At, Idle, GoesOn, Leading
<1>11. QED
  BY <1>4, <1>5, <1>6, <1>7, <1>8, <1>9, <1>10 DEF PassStep

(* Jobs and people leave the passes and the lease alone. *)
LEMMA OthersLeaveThePasses ==
  ASSUME CallStep \/ \E j \in Jobs : JobStep(j) \/ PressSubmit(j)
  PROVE  UNCHANGED <<tick, lease, chore, clock, choreTimes>>
BY DEF CallStep, JobStep, EditRead, PressRead, PressWrite, Save, Delete, Writes, PressRunNow, Take, Find, Evaluate,
       Announce, AnnounceFails, StoreRead, StoreWrite, RunBreaks, PressSubmit, historyVars

LEMMA LeaderStep == ASSUME AlertsAssumption, MaxLag <= LeaseTerm, LeaderInv, Next PROVE LeaderInv'
<1> /\ Shaped /\ Led /\ Paced /\ Shaped' /\ MaxLag \in Nat /\ LeaseTerm \in Nat
    /\ \A s \in Schedulers : tick[s].now \in Int /\ tick[s].now <= clock /\ clock \in Int
  BY ShapedStep, PassTyped, Bounds DEF LeaderInv
<1>1. ASSUME NEW s \in Schedulers, PassStep(s) PROVE (Led /\ Paced)'
  <2>1. CASE TickStart(s)
    <3>1. OthersPass(s) /\ tick'[s].phase = "asking" /\ tick'[s].now = clock /\ UNCHANGED <<lease, clock>>
      BY <2>1, StartFields DEF TickStart, Shaped
    <3>2. QED
      BY <3>1 DEF OthersPass, Led, Paced, Leading, Idle
  <2>2. CASE GoesOn(s)
    BY <2>2 DEF GoesOn, OthersPass, KeepsNow, Led, Paced, Leading, Idle
  <2>3. CASE /\ At(s, "asking") /\ Moves(s, "chores") /\ Grants(s) /\ UNCHANGED clock
             /\ lease' = [holder |-> s, until |-> tick[s].now + LeaseTerm]
    <3>1. OthersPass(s) /\ tick'[s].phase = "chores" /\ tick'[s].now = tick[s].now
      BY <2>3, MovesFields DEF Shaped, KeepsNow
    <3>2. ASSUME NEW k \in Schedulers, k # s PROVE ~Leading(k)
      <4>1. SUFFICES ASSUME Leading(k) PROVE FALSE
        OBVIOUS
      <4>2. lease.holder = k /\ lease.until = tick[k].now + LeaseTerm /\ clock <= tick[k].now + MaxLag
        BY <4>1 DEF Led, Paced, Leading, Idle
      <4>3. lease.until < tick[s].now
        BY <2>3, <3>2, <4>2 DEF Grants, AlertsAssumption
      <4>4. QED
        BY <4>2, <4>3
    <3>3. QED
      BY <2>3, <3>1, <3>2 DEF OthersPass, At, Led, Paced, Leading, Idle
  <2>4. QED
    BY <1>1, <2>1, <2>2, <2>3, PassGoesOn
<1>2. ASSUME CallStep \/ \E j \in Jobs : JobStep(j) \/ PressSubmit(j) PROVE (Led /\ Paced)'
  BY <1>2, OthersLeaveThePasses DEF Led, Paced, Leading, Idle
<1>3. CASE ClockTick
  <2>1. UNCHANGED <<tick, lease>> /\ clock' = clock + 1 /\ \A s \in Schedulers : ~Idle(s) => clock - tick[s].now < MaxLag
    BY <1>3 DEF ClockTick, Idle, At
  <2>2. \A s \in Schedulers : ~Idle(s) => clock + 1 <= tick[s].now + MaxLag
    BY <2>1
  <2>3. QED
    BY <2>1, <2>2 DEF LeaderInv, Led, Paced, Leading, Idle
<1>4. QED
  BY <1>1, <1>2, <1>3, NextSteps DEF LeaderInv

LEMMA LeaderHolds == ASSUME AlertsAssumption, MaxLag <= LeaseTerm PROVE Spec => []LeaderInv
<1>1. Init => LeaderInv
  BY ShapedInit DEF Init, LeaderInv, Led, Paced, Leading, Idle, IdleTick
<1>2. LeaderInv /\ [Next]_vars => LeaderInv'
  <2>1. ASSUME LeaderInv, UNCHANGED vars PROVE LeaderInv'
    <3>1. Shaped'
      BY <2>1, ShapedStutter DEF LeaderInv
    <3>2. QED
      BY <2>1, <3>1 DEF LeaderInv, Led, Paced, Leading, Idle, vars
  <2>2. QED
    BY <2>1, LeaderStep
<1>3. QED
  BY <1>1, <1>2, PTL DEF Spec

(* One studio replica hands alerts over at a time, while a pass lasts no longer than the lease of holdLease. *)
THEOREM OneLeaderHolds == ASSUME AlertsAssumption, MaxLag <= LeaseTerm PROVE Spec => []OneLeader
<1>1. ASSUME LeaderInv PROVE OneLeader
  <2> DEFINE L == {s \in Schedulers : tick[s].phase \in {"chores", "chore", "listing", "handing", "marking", "writing"}}
  <2>1. \A s, k \in L : s = k
    BY <1>1 DEF LeaderInv, Led, Leading
  <2>2. L = {} \/ \E s : L = {s}
    BY <2>1
  <2> HIDE DEF L
  <2>3. Cardinality(L) <= 1
    <3>1. ASSUME NEW s, L = {s} PROVE Cardinality(L) = 1
      BY <3>1, FS_Singleton
    <3>2. QED
      BY <2>2, <3>1, FS_EmptySet
  <2>4. QED
    BY <2>3 DEF OneLeader, L
<1>2. QED
  BY <1>1, LeaderHolds, PTL

-----------------------------------------------------------------------------
(* The cooldown of a chore ends after the period of each pass that handed it over or is about to, *)
(* and those passes are more than the period apart.                                              *)

Apart(x, y) == x - y > ChoreEvery \/ y - x > ChoreEvery
ToldOff(s) == tick[s].phase = "chore"
Booked == (\A x \in choreTimes : x + ChoreEvery <= chore) /\ (\A s \in Schedulers : ToldOff(s) => tick[s].now + ChoreEvery <= chore)
Spaced ==
  /\ ChoreOnce
  /\ \A s \in Schedulers : ToldOff(s) => \A x \in choreTimes : Apart(x, tick[s].now)
  /\ \A s, k \in Schedulers : ToldOff(s) /\ ToldOff(k) /\ s # k => Apart(tick[s].now, tick[k].now)
ChoreInv == Shaped /\ Booked /\ Spaced

(* Every other step leaves the cooldown alone, and tells nobody off. *)
LEMMA ChoreLeft ==
  ASSUME AlertsAssumption, Shaped, Next, ~\E s \in Schedulers : Chores(s) \/ EnqueueChore(s)
  PROVE  /\ UNCHANGED <<chore, choreTimes>>
         /\ \A s \in Schedulers : ToldOff(s)' => ToldOff(s) /\ tick'[s].now = tick[s].now
<1> Typed
  BY DEF Shaped
<1>1. ASSUME NEW s \in Schedulers, PassStep(s) PROVE UNCHANGED <<chore, choreTimes>>
  BY <1>1 DEF PassStep, TickStart, AskLease, List, HandOver, MarkRead, MarkWrite, TickBreaks, historyVars
<1>2. ASSUME NEW s \in Schedulers, PassStep(s) PROVE OthersPass(s) /\ ~ToldOff(s)'
  <2>1. ASSUME Rests(s) PROVE OthersPass(s) /\ ~ToldOff(s)'
    BY <2>1, RestsFields DEF ToldOff, Idle
  <2>2. ASSUME NextDue(s) PROVE OthersPass(s) /\ ~ToldOff(s)'
    BY <2>2, NextFields DEF ToldOff, Idle
  <2>3. CASE TickStart(s)
    BY <2>3, StartFields DEF ToldOff
  <2>4. CASE AskLease(s)
    BY <2>1, <2>4, MovesFields DEF AskLease, ToldOff
  <2>5. CASE List(s)
    <3>1. CASE DueAlerts(tick[s].now) = {}
      BY <2>1, <2>5, <3>1 DEF List
    <3>2. CASE DueAlerts(tick[s].now) # {}
      BY <2>5, <3>2, ListFields DEF ToldOff
    <3>3. QED
      BY <3>1, <3>2
  <2>6. CASE MarkRead(s)
    <3>1. CASE tick' = [tick EXCEPT ![s].phase = "writing", ![s].seen = coll]
      BY <3>1, ReadFields DEF ToldOff
    <3>2. QED
      BY <2>2, <2>6, <3>1 DEF MarkRead
  <2>7. CASE MarkWrite(s)
    BY <2>2, <2>7 DEF MarkWrite
  <2>8. CASE TickBreaks(s)
    BY <2>1, <2>8 DEF TickBreaks
  <2>9. ASSUME NEW j \in Jobs, HandOver(s, j) PROVE OthersPass(s) /\ ~ToldOff(s)'
    BY <2>9, HandFields DEF HandOver, ToldOff
  <2>10. QED
    BY <1>2, <2>3, <2>4, <2>5, <2>6, <2>7, <2>8, <2>9 DEF PassStep
<1>3. CASE ClockTick
  BY <1>3 DEF ClockTick, historyVars, ToldOff
<1>4. CASE CallStep \/ \E j \in Jobs : JobStep(j) \/ PressSubmit(j)
  BY <1>4, OthersLeaveThePasses DEF ToldOff
<1>5. CASE \E s \in Schedulers : PassStep(s)
  BY <1>1, <1>2, <1>5 DEF OthersPass, ToldOff
<1>6. QED
  BY <1>3, <1>4, <1>5, NextSteps

LEMMA ChoreStep == ASSUME AlertsAssumption, ChoreInv, Next PROVE ChoreInv'
<1> /\ Shaped /\ Shaped' /\ Typed /\ Booked /\ Spaced /\ ChoreEvery \in Nat
    /\ \A s \in Schedulers : tick[s].now \in Int
  BY ShapedStep, PassTyped, Bounds DEF ChoreInv, Shaped
<1> chore \in Int /\ chore' \in Int /\ choreTimes \subseteq Int
  BY Bounds DEF Shaped, Typed
<1>1. CASE ~\E s \in Schedulers : Chores(s) \/ EnqueueChore(s)
  <2>1. /\ UNCHANGED <<chore, choreTimes>>
        /\ \A s \in Schedulers : ToldOff(s)' => ToldOff(s) /\ tick'[s].now = tick[s].now
    BY <1>1, ChoreLeft
  <2>2. QED
    BY <2>1 DEF ChoreInv, Booked, Spaced, ChoreOnce, Apart
<1>2. ASSUME NEW s \in Schedulers, Chores(s) PROVE ChoreInv'
  <2>1. CASE OnceWithin(s)
    <3>1. /\ chore < tick[s].now /\ chore' = tick[s].now + ChoreEvery /\ choreTimes' = choreTimes
          /\ OthersPass(s) /\ tick'[s].now = tick[s].now
      BY <1>2, <2>1, MovesFields DEF Chores, OnceWithin, historyVars, KeepsNow
    <3>2. Booked'
      BY <3>1 DEF Booked, ToldOff, OthersPass
    <3>3. \A x \in choreTimes : Apart(x, tick[s].now)
      BY <3>1 DEF Booked, Apart
    <3>4. \A k \in Schedulers : k # s /\ ToldOff(k) => Apart(tick[k].now, tick[s].now) /\ Apart(tick[s].now, tick[k].now)
      BY <3>1 DEF Booked, Apart
    <3>5. Spaced'
      BY <3>1, <3>3, <3>4 DEF Spaced, ChoreOnce, Apart, ToldOff, OthersPass
    <3>6. QED
      BY <3>2, <3>5 DEF ChoreInv
  <2>2. CASE ~OnceWithin(s)
    <3>1. OthersPass(s) /\ tick'[s].phase = "listing" /\ UNCHANGED <<chore, choreTimes>>
      BY <1>2, <2>2, MovesFields DEF Chores, historyVars
    <3>2. QED
      BY <3>1 DEF ChoreInv, Booked, Spaced, ChoreOnce, Apart, ToldOff, OthersPass
  <2>3. QED
    BY <2>1, <2>2
<1>3. ASSUME NEW s \in Schedulers, EnqueueChore(s) PROVE ChoreInv'
  <2>1. /\ ToldOff(s) /\ OthersPass(s) /\ tick'[s].phase = "listing" /\ chore' = chore
        /\ choreTimes' = choreTimes \cup {tick[s].now}
    BY <1>3, MovesFields DEF EnqueueChore, At, ToldOff
  <2>2. Booked'
    BY <2>1 DEF Booked, ToldOff, OthersPass
  <2>3. ChoreOnce'
    BY <2>1 DEF Spaced, ChoreOnce, Apart
  <2>4. \A k \in Schedulers : ToldOff(k)' => k # s /\ ToldOff(k) /\ tick'[k] = tick[k]
    BY <2>1 DEF ToldOff, OthersPass
  <2>5. Spaced'
    BY <2>1, <2>3, <2>4 DEF Spaced, Apart
  <2>6. QED
    BY <2>2, <2>5 DEF ChoreInv
<1>4. QED
  BY <1>1, <1>2, <1>3

(* A daily chore is handed over once in its period, whichever replicas ask and wherever they stop. *)
THEOREM ChoreOnceHolds == ASSUME AlertsAssumption PROVE Spec => []ChoreOnce
<1>1. Init => ChoreInv
  BY ShapedInit DEF Init, ChoreInv, Booked, Spaced, ChoreOnce, ToldOff, IdleTick
<1>2. ASSUME ChoreInv, UNCHANGED vars PROVE ChoreInv'
  <2>1. Shaped'
    BY <1>2, ShapedStutter DEF ChoreInv
  <2>2. QED
    BY <1>2, <2>1 DEF ChoreInv, Booked, Spaced, ChoreOnce, Apart, ToldOff, vars, historyVars
<1>3. ChoreInv => ChoreOnce
  BY DEF ChoreInv, Spaced
<1>4. QED
  BY <1>1, <1>2, <1>3, ChoreStep, PTL DEF Spec

-----------------------------------------------------------------------------
(* Whatever copy of the collection, or state on its way into it, anyone holds, a notice it records was sent. *)

Sound(sent, a, st) == (st.lastNotified # Never => <<a, st.lastNotified>> \in sent) /\ (st.status = "firing" => st.lastNotified # Never)
AllSound(sent, c) == \A a \in Alerts : Sound(sent, a, c[a].state)
SoundPass(sent, p) ==
  /\ p.phase \in {"handing", "marking", "writing"} => AllSound(sent, p.listed)
  /\ p.phase = "writing" => AllSound(sent, p.seen)
SoundRun(sent, r) ==
  /\ r.phase \in {"running", "announcing", "storing", "writing"} => Sound(sent, r.alert, r.state)
  /\ r.phase = "writing" => AllSound(sent, r.seen)
SoundPress(sent, p) ==
  /\ p.phase # "idle" => Sound(sent, p.alert, p.state)
  /\ p.phase = "writing" => AllSound(sent, p.seen)
SoundEdit(sent, e) == e.phase = "open" => AllSound(sent, e.seen)
EachSound ==
  /\ AllSound(announced, coll) /\ SoundPress(announced, press) /\ SoundEdit(announced, edit)
  /\ \A s \in Schedulers : SoundPass(announced, tick[s])
  /\ \A j \in Jobs : SoundRun(announced, run[j])
SoundInv == Shaped /\ EachSound

LEMMA SoundStays ==
  ASSUME NEW sent, NEW more, sent \subseteq more
  PROVE  /\ \A c : AllSound(sent, c) => AllSound(more, c)
         /\ \A a, st : Sound(sent, a, st) => Sound(more, a, st)
         /\ \A p : SoundPass(sent, p) => SoundPass(more, p)
         /\ \A r : SoundRun(sent, r) => SoundRun(more, r)
         /\ \A p : SoundPress(sent, p) => SoundPress(more, p)
         /\ \A e : SoundEdit(sent, e) => SoundEdit(more, e)
<1>1. \A a, st : Sound(sent, a, st) => Sound(more, a, st)
  BY DEF Sound
<1>2. \A c : AllSound(sent, c) => AllSound(more, c)
  BY <1>1 DEF AllSound
<1>3. QED
  BY <1>1, <1>2 DEF SoundPass, SoundRun, SoundPress, SoundEdit

LEMMA WrittenSound ==
  ASSUME NEW sent, NEW c \in Collection, NEW a \in Alerts, NEW st \in State, AllSound(sent, c), Sound(sent, a, st)
  PROVE  AllSound(sent, WithState(c, a, st))
BY WithStateTyped DEF AllSound

(* Marking a state scheduled says nothing of its notice. *)
LEMMA MarkedSound ==
  ASSUME AlertsAssumption, NEW sent, NEW a, NEW st \in State, NEW n \in Times, Sound(sent, a, st)
  PROVE  Sound(sent, a, [st EXCEPT !.lastScheduled = n])
<1> DEFINE u == [st EXCEPT !.lastScheduled = n]
<1>1. u.lastNotified = st.lastNotified /\ u.status = st.status
  BY StateTyped
<1>2. QED
  BY <1>1 DEF Sound

LEMMA PassSound ==
  ASSUME AlertsAssumption, SoundInv, NEW s \in Schedulers, PassStep(s)
  PROVE  EachSound'
<1> Typed /\ Shaped /\ EachSound /\ AllSound(announced, coll) /\ SoundPass(announced, tick[s])
  BY DEF SoundInv, Shaped, EachSound
<1>1. ASSUME OthersPass(s), SoundPass(announced, tick'[s]), AllSound(announced, coll'), UNCHANGED <<press, edit, announced>>,
             \A j \in Jobs : SoundRun(announced, run'[j])
      PROVE  EachSound'
  BY <1>1 DEF EachSound, OthersPass
<1>2. ASSUME Rests(s) PROVE OthersPass(s) /\ SoundPass(announced, tick'[s])
  BY <1>2, RestsFields DEF SoundPass, Idle
<1>3. ASSUME NEW p \in {"chores", "chore", "listing"}, Moves(s, p) PROVE OthersPass(s) /\ SoundPass(announced, tick'[s])
  BY <1>3, MovesFields DEF SoundPass
<1>4. ASSUME NextDue(s), At(s, "marking") \/ At(s, "writing") PROVE OthersPass(s) /\ SoundPass(announced, tick'[s])
  BY <1>4, NextFields DEF SoundPass, Idle, At
<1>5. CASE TickStart(s)
  <2>1. OthersPass(s) /\ SoundPass(announced, tick'[s])
    BY <1>5, StartFields DEF SoundPass
  <2>2. QED
    BY <1>1, <1>5, <2>1 DEF EachSound, TickStart, historyVars
<1>6. CASE AskLease(s) \/ Chores(s) \/ EnqueueChore(s) \/ TickBreaks(s)
  <2>1. OthersPass(s) /\ SoundPass(announced, tick'[s])
    BY <1>2, <1>3, <1>6 DEF AskLease, Chores, EnqueueChore, TickBreaks
  <2>2. UNCHANGED <<coll, run, press, edit, announced>>
    BY <1>6 DEF AskLease, Chores, EnqueueChore, TickBreaks, historyVars
  <2>3. QED
    BY <1>1, <2>1, <2>2 DEF EachSound
<1>7. CASE List(s)
  <2>1. OthersPass(s) /\ SoundPass(announced, tick'[s])
    <3>1. CASE DueAlerts(tick[s].now) = {}
      BY <1>2, <1>7, <3>1 DEF List
    <3>2. CASE DueAlerts(tick[s].now) # {}
      BY <1>7, <3>2, ListFields DEF SoundPass
    <3>3. QED
      BY <3>1, <3>2
  <2>2. QED
    BY <1>1, <1>7, <2>1 DEF EachSound, List, historyVars
<1>8. CASE MarkRead(s)
  <2>1. OthersPass(s) /\ SoundPass(announced, tick'[s])
    <3>1. CASE NextDue(s)
      BY <1>4, <1>8, <3>1 DEF MarkRead
    <3>2. CASE tick' = [tick EXCEPT ![s].phase = "writing", ![s].seen = coll]
      BY <1>8, <3>2, ReadFields DEF MarkRead, At, SoundPass, KeepsDue
    <3>3. QED
      BY <1>8, <3>1, <3>2 DEF MarkRead
  <2>2. QED
    BY <1>1, <1>8, <2>1 DEF EachSound, MarkRead, historyVars
<1>9. CASE MarkWrite(s)
  <2> DEFINE st == tick[s].listed[tick[s].alert].state
             a == tick[s].alert
  <2>1. st \in State /\ tick[s].now \in Times /\ a \in Alerts /\ tick[s].seen \in Collection
    BY <1>9, PassTyped DEF Collection, Alert, Idle, Marking, MarkWrite, At
  <2>2. coll' = WithState(tick[s].seen, a, [st EXCEPT !.lastScheduled = tick[s].now])
    BY <1>9 DEF MarkWrite, MarkBase
  <2>3. AllSound(announced, tick[s].seen) /\ Sound(announced, a, st)
    BY <1>9, <2>1 DEF MarkWrite, At, SoundPass, AllSound
  <2> HIDE DEF st, a
  <2>4. [st EXCEPT !.lastScheduled = tick[s].now] \in State /\ Sound(announced, a, [st EXCEPT !.lastScheduled = tick[s].now])
    BY <2>1, <2>3, StateTyped, MarkedSound
  <2>5. AllSound(announced, coll')
    BY <2>1, <2>2, <2>3, <2>4, WrittenSound
  <2>6. OthersPass(s) /\ SoundPass(announced, tick'[s])
    BY <1>4, <1>9 DEF MarkWrite
  <2>7. QED
    BY <1>1, <1>9, <2>5, <2>6 DEF EachSound, MarkWrite, historyVars
<1>10. ASSUME NEW j \in Jobs, HandOver(s, j) PROVE EachSound'
  <2>1. PICK a \in tick[s].due : NewJob(j, a) /\ tick' = [tick EXCEPT ![s].phase = "marking", ![s].alert = a]
    BY <1>10 DEF HandOver
  <2>2. OthersPass(s) /\ SoundPass(announced, tick'[s]) /\ a \in Alerts
    BY <1>10, <2>1, HandFields DEF HandOver, At, SoundPass, KeepsDue
  <2>3. \A k \in Jobs : SoundRun(announced, run'[k])
    BY <2>1, <2>2, NewFields DEF EachSound, SoundRun, OthersRun
  <2>4. QED
    BY <1>1, <1>10, <2>2, <2>3 DEF HandOver
<1>11. QED
  BY <1>5, <1>6, <1>7, <1>8, <1>9, <1>10 DEF PassStep

LEMMA JobSound ==
  ASSUME AlertsAssumption, SoundInv, NEW j \in Jobs, JobStep(j)
  PROVE  EachSound'
<1> /\ Typed /\ Shaped /\ EachSound /\ AllSound(announced, coll) /\ SoundRun(announced, run[j])
    /\ run[j].state \in State /\ run[j].now \in Times /\ run[j].now # Never
  BY JobTyped, Bounds DEF SoundInv, Shaped, EachSound, Times
<1>1. ASSUME OthersRun(j), SoundRun(announced', run'[j]), AllSound(announced', coll'), UNCHANGED <<press, edit, tick>>,
             announced \subseteq announced'
      PROVE  EachSound'
  BY <1>1, SoundStays DEF EachSound, OthersRun
<1>2. ASSUME Ends(j) PROVE OthersRun(j) /\ \A sent : SoundRun(sent, run'[j])
  BY <1>2, EndsFields DEF SoundRun
<1>3. CASE Take(j)
  BY <1>1, <1>3, TakeFields DEF Take, SoundRun, historyVars
<1>4. CASE Find(j)
  <2>1. OthersRun(j) /\ SoundRun(announced, run'[j])
    <3>1. CASE coll[run[j].alert].there
      <4>1. run[j].alert \in Alerts
        BY <1>4, JobTyped DEF Find, RunAt, Live
      <4>2. run' = [run EXCEPT ![j].phase = "running", ![j].now = clock, ![j].state = coll[run[j].alert].state]
        BY <1>4, <3>1 DEF Find
      <4>3. QED
        BY <4>1, <4>2, FindFields DEF SoundRun, AllSound, KeepsJob
    <3>2. CASE ~coll[run[j].alert].there
      BY <1>2, <1>4, <3>2 DEF Find
    <3>3. QED
      BY <3>1, <3>2
  <2>2. UNCHANGED <<coll, press, edit, tick, announced>>
    BY <1>4 DEF Find, historyVars
  <2>3. QED
    BY <1>1, <2>1, <2>2
<1>5. ASSUME NEW st \in State, run' = [run EXCEPT ![j].phase = "storing", ![j].state = st],
             announced \subseteq announced', Sound(announced', run[j].alert, st), UNCHANGED <<coll, press, edit, tick>>
      PROVE  EachSound'
  <2>1. OthersRun(j) /\ SoundRun(announced', run'[j])
    BY <1>5, StoresFields DEF SoundRun, KeepsJob
  <2>2. QED
    BY <1>1, <1>5, <2>1, SoundStays
<1>6. ASSUME NEW status \in {"ok", "error"}, RunAt(j, "running") \/ RunAt(j, "announcing"), announced \subseteq announced'
      PROVE  /\ NotFired(run[j].state, run[j].now, status) \in State
             /\ Sound(announced', run[j].alert, NotFired(run[j].state, run[j].now, status))
  <2> DEFINE u == NotFired(run[j].state, run[j].now, status)
  <2>1. u \in State /\ u.status = status /\ u.lastNotified = run[j].state.lastNotified
    BY NotFiredTyped
  <2>2. Sound(announced, run[j].alert, run[j].state)
    BY <1>6 DEF SoundRun, RunAt
  <2> HIDE DEF u
  <2>3. Sound(announced', run[j].alert, u)
    BY <1>6, <2>1, <2>2 DEF Sound
  <2>4. QED
    BY <2>1, <2>3 DEF u
<1>7. CASE Evaluate(j)
  <2>1. RunAt(j, "running") /\ UNCHANGED <<coll, press, edit, tick, announced>>
    BY <1>7 DEF Evaluate
  <2>2. Sound(announced, run[j].alert, run[j].state)
    BY <2>1 DEF SoundRun, RunAt
  <2>3. CASE Holds(j)
    <3>1. CASE Notifies(run[j].state, run[j].now)
      BY <1>1, <2>1, <2>2, <2>3, <3>1, HoldsFields DEF SoundRun, KeepsJob
    <3>2. CASE ~Notifies(run[j].state, run[j].now)
      <4> DEFINE u == Fired(run[j].state, run[j].now, FALSE)
      <4>1. u.status = "firing" /\ u.lastNotified = run[j].state.lastNotified /\ run[j].state.status = "firing"
        BY <3>2, StateTyped DEF Notifies
      <4>2. OthersRun(j) /\ KeepsJob(j) /\ run'[j].phase = "storing" /\ run'[j].state = u
        BY <2>3, <3>2, HoldsFields
      <4> HIDE DEF u
      <4>3. Sound(announced, run[j].alert, u)
        BY <2>2, <4>1 DEF Sound
      <4>4. SoundRun(announced, run'[j])
        BY <4>2, <4>3 DEF SoundRun, KeepsJob
      <4>5. QED
        BY <1>1, <2>1, <4>2, <4>4
    <3>3. QED
      BY <3>1, <3>2
  <2>4. CASE HoldsNot(j)
    <3>1. PICK status \in {"ok", "error"} :
            run' = [run EXCEPT ![j].phase = "storing", ![j].state = NotFired(run[j].state, run[j].now, status)]
      BY <2>4 DEF HoldsNot
    <3>2. QED
      BY <1>5, <1>6, <2>1, <3>1
  <2>5. QED
    BY <1>7, <2>3, <2>4 DEF Evaluate
<1>8. CASE Announce(j)
  <2>1. announced' = announced \cup {<<run[j].alert, run[j].now>>} /\ UNCHANGED <<coll, press, edit, tick>>
    BY <1>8 DEF Announce, Tells
  <2> DEFINE u == Fired(run[j].state, run[j].now, TRUE)
  <2>2. u \in State /\ u.lastNotified = run[j].now
    BY StateTyped
  <2>3. run' = [run EXCEPT ![j].phase = "storing", ![j].state = u]
    BY <1>8 DEF Announce, Typed
  <2> HIDE DEF u
  <2>4. Sound(announced', run[j].alert, u)
    BY <2>1, <2>2 DEF Sound
  <2>5. QED
    BY <1>5, <2>1, <2>2, <2>3, <2>4
<1>9. CASE AnnounceFails(j)
  <2>1. RunAt(j, "announcing") /\ announced \subseteq announced' /\ UNCHANGED <<coll, press, edit, tick>>
    BY <1>9 DEF AnnounceFails, Tells
  <2>2. run' = [run EXCEPT ![j].phase = "storing", ![j].state = NotFired(run[j].state, run[j].now, "error")]
    BY <1>9 DEF AnnounceFails
  <2>3. QED
    BY <1>5, <1>6, <2>1, <2>2
<1>10. CASE StoreRead(j)
  <2>1. OthersRun(j) /\ SoundRun(announced, run'[j])
    <3>1. CASE run' = [run EXCEPT ![j].phase = "writing", ![j].seen = coll]
      BY <1>10, <3>1, WritingFields DEF StoreRead, RunAt, SoundRun, KeepsJob, KeepsFinding
    <3>2. QED
      BY <1>2, <1>10, <3>1 DEF StoreRead
  <2>2. UNCHANGED <<coll, press, edit, tick, announced>>
    BY <1>10 DEF StoreRead, historyVars
  <2>3. QED
    BY <1>1, <2>1, <2>2
<1>11. CASE StoreWrite(j)
  <2>1. run[j].alert \in Alerts /\ run[j].seen \in Collection
    BY <1>11, JobTyped DEF StoreWrite, RunAt, Live
  <2>2. AllSound(announced, run[j].seen) /\ Sound(announced, run[j].alert, run[j].state)
    BY <1>11 DEF StoreWrite, RunAt, SoundRun
  <2>3. AllSound(announced, coll')
    BY <1>11, <2>1, <2>2, WrittenSound DEF StoreWrite
  <2>4. QED
    BY <1>1, <1>2, <1>11, <2>3 DEF StoreWrite, historyVars
<1>12. CASE RunBreaks(j)
  BY <1>1, <1>2, <1>12 DEF RunBreaks, historyVars
<1>13. QED
  BY <1>3, <1>4, <1>7, <1>8, <1>9, <1>10, <1>11, <1>12 DEF JobStep

LEMMA CallSound ==
  ASSUME AlertsAssumption, SoundInv, CallStep \/ ClockTick \/ \E j \in Jobs : PressSubmit(j)
  PROVE  EachSound'
<1> Typed /\ Shaped /\ EachSound /\ AllSound(announced, coll) /\ SoundPress(announced, press) /\ SoundEdit(announced, edit)
  BY DEF SoundInv, Shaped, EachSound
<1>1. ASSUME UNCHANGED <<run, tick, announced>>, AllSound(announced, coll'), SoundPress(announced, press'), SoundEdit(announced, edit')
      PROVE  EachSound'
  BY <1>1 DEF EachSound
<1>2. CASE EditRead
  BY <1>1, <1>2 DEF EditRead, SoundEdit, historyVars
<1>3. SoundPress(announced, IdlePress) /\ SoundEdit(announced, IdleEdit)
  BY DEF SoundPress, SoundEdit, IdlePress, IdleEdit
<1>4. CASE PressRead
  <2>1. SoundPress(announced, press')
    <3>1. CASE press' = [press EXCEPT !.phase = "writing", !.seen = coll]
      BY <1>4, <3>1, PressReadFields DEF PressRead, SoundPress
    <3>2. QED
      BY <1>3, <1>4, <3>1 DEF PressRead
  <2>2. QED
    BY <1>1, <1>4, <2>1 DEF PressRead, historyVars
<1>5. CASE PressWrite
  <2>1. press.alert \in Alerts /\ press.since \in Times /\ press.state \in State /\ press.seen \in Collection
    BY <1>5, CallTyped DEF PressWrite, StagedPress
  <2>2. AllSound(announced, press.seen) /\ Sound(announced, press.alert, press.state)
    BY <1>5 DEF PressWrite, SoundPress
  <2>3. [press.state EXCEPT !.lastScheduled = press.since] \in State
        /\ Sound(announced, press.alert, [press.state EXCEPT !.lastScheduled = press.since])
    BY <2>1, <2>2, StateTyped, MarkedSound
  <2>4. AllSound(announced, coll')
    BY <1>5, <2>1, <2>2, <2>3, WrittenSound DEF PressWrite
  <2>5. QED
    BY <1>1, <1>3, <1>5, <2>4 DEF PressWrite, historyVars
<1>6. ASSUME NEW a \in Alerts, NEW alert \in Alert, Writes(a, alert), edits[a] < MaxEdits, edit.phase = "open",
             Sound(announced, a, alert.state), UNCHANGED announced
      PROVE  EachSound'
  <2>1. \A b \in Alerts : coll'[b] = IF b = a THEN alert ELSE edit.seen[b]
    BY <1>6, SaveTyped
  <2>2. AllSound(announced, coll')
    BY <1>6, <2>1 DEF SoundEdit, AllSound
  <2>3. edit' = IdleEdit /\ UNCHANGED <<run, tick, press>>
    BY <1>6 DEF Writes
  <2>4. QED
    BY <1>1, <1>3, <1>6, <2>2, <2>3
<1>7. ASSUME NEW a \in Alerts, Save(a) PROVE EachSound'
  <2> DEFINE st == IF edit.seen[a].there THEN edit.seen[a].state ELSE NewState
  <2>1. PICK on \in BOOLEAN : Writes(a, [there |-> TRUE, enabled |-> on, edition |-> edits[a] + 1, state |-> st])
    BY <1>7 DEF Save
  <2>2. Sound(announced, a, st)
    BY <1>7, BlankTyped DEF Save, SoundEdit, AllSound, Sound
  <2>3. edits[a] < MaxEdits /\ edit.phase = "open" /\ UNCHANGED announced
    BY <1>7 DEF Save, Writes
  <2>4. [there |-> TRUE, enabled |-> on, edition |-> edits[a] + 1, state |-> st] \in Alert
    BY <2>3, SavedTyped
  <2> HIDE DEF st
  <2>5. QED
    BY <1>6, <2>1, <2>2, <2>3, <2>4
<1>8. ASSUME NEW a \in Alerts, Delete(a) PROVE EachSound'
  <2>1. /\ Writes(a, [there |-> FALSE, enabled |-> FALSE, edition |-> edits[a] + 1, state |-> NewState])
        /\ edits[a] < MaxEdits /\ edit.phase = "open" /\ UNCHANGED announced
    BY <1>8 DEF Delete, Writes
  <2>2. [there |-> FALSE, enabled |-> FALSE, edition |-> edits[a] + 1, state |-> NewState] \in Alert
    BY <2>1, SavedTyped
  <2>3. Sound(announced, a, NewState)
    BY BlankTyped DEF Sound
  <2>4. QED
    BY <1>6, <2>1, <2>2, <2>3
<1>9. ASSUME NEW a \in Alerts, PressRunNow(a) PROVE EachSound'
  <2>1. SoundPress(announced, press')
    BY <1>9, PressFields DEF SoundPress, AllSound
  <2>2. QED
    BY <1>1, <1>9, <2>1 DEF PressRunNow, historyVars
<1>10. ASSUME NEW j \in Jobs, PressSubmit(j) PROVE EachSound'
  <2>1. press.alert \in Alerts /\ NewJob(j, press.alert) /\ press.phase = "found"
    BY <1>10, CallTyped DEF PressSubmit, StagedPress
  <2>2. SoundPress(announced, press')
    BY <1>10, <2>1, SubmitFields DEF SoundPress
  <2>3. \A k \in Jobs : SoundRun(announced, run'[k])
    BY <2>1, NewFields DEF EachSound, SoundRun, OthersRun
  <2>4. QED
    BY <1>10, <2>2, <2>3 DEF PressSubmit, historyVars, EachSound
<1>11. CASE ClockTick
  BY <1>1, <1>11 DEF ClockTick, historyVars
<1>12. QED
  BY <1>2, <1>4, <1>5, <1>7, <1>8, <1>9, <1>10, <1>11 DEF CallStep

(* A state stored as firing was announced, and so was the notice it records, whatever stops or is pressed. *)
THEOREM FiringAnnouncedHolds == ASSUME AlertsAssumption PROVE Spec => []FiringAnnounced
<1>1. ASSUME Init PROVE SoundInv
  <2>1. AllSound(announced, Blank)
    BY BlankTyped DEF AllSound, Sound
  <2>2. QED
    BY <1>1, <2>1, ShapedInit DEF Init, SoundInv, EachSound, SoundPass, SoundRun, SoundPress, SoundEdit, IdleTick, NoRun, IdlePress, IdleEdit
<1>2. ASSUME SoundInv, Next PROVE SoundInv'
  <2>1. Shaped' /\ EachSound'
    BY <1>2, ShapedStep, PassSound, JobSound, CallSound, NextSteps DEF SoundInv
  <2>2. QED
    BY <2>1 DEF SoundInv
<1>3. ASSUME SoundInv, UNCHANGED vars PROVE SoundInv'
  <2>1. Shaped' /\ UNCHANGED <<coll, tick, run, edit, press, announced>>
    BY <1>3, ShapedStutter DEF SoundInv, vars, historyVars
  <2>2. QED
    BY <1>3, <2>1 DEF SoundInv, EachSound
<1>4. SoundInv => FiringAnnounced
  BY DEF SoundInv, EachSound, AllSound, Sound, FiringAnnounced
<1>5. QED
  BY <1>1, <1>2, <1>3, <1>4, PTL DEF Spec

-----------------------------------------------------------------------------
(* While reads and writes of the collection do not interleave, whoever has read it to write it back is *)
(* alone, and holds it as it is.                                                                      *)

PassWrites(s) == tick[s].phase = "writing"
JobWrites(j) == run[j].phase = "writing"
EditWrites == edit.phase = "open"
PressWrites == press.phase = "writing"
Alone ==
  /\ \A s \in Schedulers : PassWrites(s) =>
       /\ tick[s].seen = coll /\ ~EditWrites /\ ~PressWrites
       /\ (\A j \in Jobs : ~JobWrites(j)) /\ \A k \in Schedulers : PassWrites(k) => k = s
  /\ \A j \in Jobs : JobWrites(j) =>
       run[j].seen = coll /\ ~EditWrites /\ ~PressWrites /\ \A k \in Jobs : JobWrites(k) => k = j
  /\ EditWrites => edit.seen = coll /\ ~PressWrites
  /\ PressWrites => press.seen = coll
KeptInv == Shaped /\ Alone /\ EditsKept

LEMMA NobodyReads ==
  ASSUME ~Overlap, MayRead
  PROVE  /\ \A s \in Schedulers : ~PassWrites(s)
         /\ \A j \in Jobs : ~JobWrites(j)
         /\ ~EditWrites /\ ~PressWrites
BY DEF MayRead, Writing, PassWrites, JobWrites, EditWrites, PressWrites

(* The steps of a pass and of a job that do not read the collection to write it back. *)
LEMMA PassQuiet ==
  ASSUME AlertsAssumption, Shaped, NEW s \in Schedulers, PassStep(s)
  PROVE  /\ OthersPass(s) /\ UNCHANGED <<edit, press, edits>>
         /\ \/ ~PassWrites(s)'
            \/ MayRead /\ tick'[s].seen = coll /\ UNCHANGED <<coll, run>>
         /\ \/ UNCHANGED coll
            \/ /\ PassWrites(s) /\ ~PassWrites(s)' /\ UNCHANGED run
               /\ \E st \in State : coll' = WithState(tick[s].seen, tick[s].alert, st)
         /\ \A j \in Jobs : JobWrites(j)' => run'[j] = run[j]
<1> Typed
  BY DEF Shaped
<1>1. ASSUME Rests(s) PROVE OthersPass(s) /\ ~PassWrites(s)'
  BY <1>1, RestsFields DEF PassWrites, Idle
<1>2. ASSUME NEW p \in {"chores", "chore", "listing"}, Moves(s, p) PROVE OthersPass(s) /\ ~PassWrites(s)'
  BY <1>2, MovesFields DEF PassWrites
<1>3. ASSUME NextDue(s) PROVE OthersPass(s) /\ ~PassWrites(s)'
  BY <1>3, NextFields DEF PassWrites, Idle
<1>4. CASE TickStart(s)
  BY <1>4, StartFields DEF TickStart, PassWrites, historyVars
<1>5. CASE AskLease(s) \/ Chores(s) \/ EnqueueChore(s) \/ TickBreaks(s)
  <2>1. OthersPass(s) /\ ~PassWrites(s)'
    BY <1>1, <1>2, <1>5 DEF AskLease, Chores, EnqueueChore, TickBreaks
  <2>2. UNCHANGED <<coll, run, press, edit, edits>>
    BY <1>5 DEF AskLease, Chores, EnqueueChore, TickBreaks, historyVars
  <2>3. QED
    BY <2>1, <2>2
<1>6. CASE List(s)
  <2>1. OthersPass(s) /\ ~PassWrites(s)'
    BY <1>1, <1>6, ListFields DEF List, PassWrites
  <2>2. QED
    BY <1>6, <2>1 DEF List, historyVars
<1>7. CASE MarkRead(s)
  <2>1. CASE NextDue(s)
    BY <1>3, <1>7, <2>1 DEF MarkRead, historyVars
  <2>2. CASE tick' = [tick EXCEPT ![s].phase = "writing", ![s].seen = coll]
    BY <1>7, <2>2, ReadFields DEF MarkRead, historyVars
  <2>3. QED
    BY <1>7, <2>1, <2>2 DEF MarkRead
<1>8. CASE MarkWrite(s)
  <2> DEFINE st == [tick[s].listed[tick[s].alert].state EXCEPT !.lastScheduled = tick[s].now]
  <2>1. tick[s].listed[tick[s].alert].state \in State /\ tick[s].now \in Times
    BY <1>8, PassTyped DEF Collection, Alert, Idle, Marking, MarkWrite, At
  <2>2. st \in State /\ coll' = WithState(tick[s].seen, tick[s].alert, st)
    BY <1>8, <2>1, StateTyped DEF MarkWrite, MarkBase
  <2> HIDE DEF st
  <2>3. PassWrites(s) /\ OthersPass(s) /\ ~PassWrites(s)' /\ UNCHANGED <<run, edit, press, edits>>
    BY <1>3, <1>8 DEF MarkWrite, At, PassWrites, historyVars
  <2>4. QED
    BY <2>2, <2>3
<1>9. ASSUME NEW j \in Jobs, HandOver(s, j)
      PROVE  OthersPass(s) /\ ~PassWrites(s)' /\ UNCHANGED <<coll, edit, press, edits>> /\ \A k \in Jobs : JobWrites(k)' => run'[k] = run[k]
  <2>1. PICK a \in tick[s].due : NewJob(j, a) /\ tick' = [tick EXCEPT ![s].phase = "marking", ![s].alert = a]
    BY <1>9 DEF HandOver
  <2>2. OthersPass(s) /\ ~PassWrites(s)' /\ a \in Alerts
    BY <2>1, HandFields DEF PassWrites
  <2>3. \A k \in Jobs : JobWrites(k)' => run'[k] = run[k]
    BY <2>1, <2>2, NewFields DEF OthersRun, JobWrites
  <2>4. QED
    BY <1>9, <2>2, <2>3 DEF HandOver
<1>10. QED
  BY <1>4, <1>5, <1>6, <1>7, <1>8, <1>9 DEF PassStep

LEMMA JobQuiet ==
  ASSUME AlertsAssumption, Shaped, NEW j \in Jobs, JobStep(j)
  PROVE  /\ OthersRun(j) /\ UNCHANGED <<edit, press, tick, edits>>
         /\ \/ ~JobWrites(j)'
            \/ MayRead /\ run'[j].seen = coll /\ UNCHANGED coll
         /\ \/ UNCHANGED coll
            \/ /\ JobWrites(j) /\ ~JobWrites(j)'
               /\ coll' = WithState(run[j].seen, run[j].alert, run[j].state)
<1> Typed /\ run[j].state \in State /\ run[j].now \in Times
  BY JobTyped
<1>1. ASSUME Ends(j) PROVE OthersRun(j) /\ ~JobWrites(j)'
  BY <1>1, EndsFields DEF JobWrites
<1>2. ASSUME NEW st \in State, run' = [run EXCEPT ![j].phase = "storing", ![j].state = st] PROVE OthersRun(j) /\ ~JobWrites(j)'
  BY <1>2, StoresFields DEF JobWrites
<1>3. \A c \in {"ok", "error"} : NotFired(run[j].state, run[j].now, c) \in State
  BY NotFiredTyped
<1>4. Fired(run[j].state, run[j].now, TRUE) \in State
  BY StateTyped
<1>5. CASE Take(j)
  BY <1>5, TakeFields DEF Take, JobWrites, historyVars
<1>6. CASE Find(j)
  <2>1. OthersRun(j) /\ ~JobWrites(j)'
    <3>1. CASE coll[run[j].alert].there
      <4>1. run[j].alert \in Alerts
        BY <1>6, JobTyped DEF Find, RunAt, Live
      <4>2. run' = [run EXCEPT ![j].phase = "running", ![j].now = clock, ![j].state = coll[run[j].alert].state]
        BY <1>6, <3>1 DEF Find
      <4>3. QED
        BY <4>1, <4>2, FindFields DEF JobWrites
    <3>2. QED
      BY <1>1, <1>6, <3>1 DEF Find
  <2>2. QED
    BY <1>6, <2>1 DEF Find, historyVars
<1>7. CASE Evaluate(j)
  <2>1. OthersRun(j) /\ ~JobWrites(j)'
    <3>1. CASE Holds(j)
      BY <3>1, HoldsFields DEF JobWrites
    <3>2. CASE HoldsNot(j)
      <4>1. PICK status \in {"ok", "error"} :
              run' = [run EXCEPT ![j].phase = "storing", ![j].state = NotFired(run[j].state, run[j].now, status)]
        BY <3>2 DEF HoldsNot
      <4>2. QED
        BY <1>2, <1>3, <4>1
    <3>3. QED
      BY <1>7, <3>1, <3>2 DEF Evaluate
  <2>2. QED
    BY <1>7, <2>1 DEF Evaluate
<1>8. CASE Announce(j) \/ AnnounceFails(j)
  <2>1. OthersRun(j) /\ ~JobWrites(j)'
    <3>1. CASE Announce(j)
      <4>1. run' = [run EXCEPT ![j].phase = "storing", ![j].state = Fired(run[j].state, run[j].now, TRUE)]
        BY <3>1 DEF Announce
      <4>2. QED
        BY <1>2, <1>4, <4>1
    <3>2. CASE AnnounceFails(j)
      <4>1. run' = [run EXCEPT ![j].phase = "storing", ![j].state = NotFired(run[j].state, run[j].now, "error")]
        BY <3>2 DEF AnnounceFails
      <4>2. QED
        BY <1>2, <1>3, <4>1
    <3>3. QED
      BY <1>8, <3>1, <3>2
  <2>2. UNCHANGED <<coll, edit, press, tick, edits>>
    BY <1>8 DEF Announce, AnnounceFails
  <2>3. QED
    BY <2>1, <2>2
<1>9. CASE StoreRead(j)
  <2>1. CASE Ends(j)
    BY <1>1, <1>9, <2>1 DEF StoreRead, historyVars
  <2>2. CASE run' = [run EXCEPT ![j].phase = "writing", ![j].seen = coll]
    BY <1>9, <2>2, WritingFields DEF StoreRead, historyVars
  <2>3. QED
    BY <1>9, <2>1, <2>2 DEF StoreRead
<1>10. CASE StoreWrite(j)
  BY <1>1, <1>10 DEF StoreWrite, JobWrites, RunAt, historyVars
<1>11. CASE RunBreaks(j)
  BY <1>1, <1>11 DEF RunBreaks, historyVars
<1>12. QED
  BY <1>5, <1>6, <1>7, <1>8, <1>9, <1>10, <1>11 DEF JobStep

(* A write of the collection as it is, with one state changed, keeps every definition. *)
LEMMA StateKeepsEdits ==
  ASSUME AlertsAssumption, Shaped, EditsKept, NEW a \in Alerts, NEW st \in State, coll' = WithState(coll, a, st), UNCHANGED edits
  PROVE  EditsKept'
<1>1. coll \in Collection
  BY DEF Shaped, Typed
<1>2. QED
  BY <1>1, WithStateTyped DEF EditsKept

LEMMA KeptStep == ASSUME AlertsAssumption, ~Overlap, KeptInv, Next PROVE KeptInv'
<1> /\ Shaped /\ Shaped' /\ Typed /\ Alone /\ EditsKept
  BY ShapedStep DEF KeptInv, Shaped
<1>1. ASSUME NEW s \in Schedulers, PassStep(s) PROVE (Alone /\ EditsKept)'
  <2>1. /\ OthersPass(s) /\ UNCHANGED <<edit, press, edits>>
        /\ ~PassWrites(s)' \/ (MayRead /\ tick'[s].seen = coll /\ UNCHANGED <<coll, run>>)
        /\ \/ UNCHANGED coll
           \/ /\ PassWrites(s) /\ ~PassWrites(s)' /\ UNCHANGED run
              /\ \E st \in State : coll' = WithState(tick[s].seen, tick[s].alert, st)
        /\ \A j \in Jobs : JobWrites(j)' => run'[j] = run[j]
    BY <1>1, PassQuiet
  <2>2. CASE UNCHANGED coll /\ ~PassWrites(s)'
    BY <2>1, <2>2 DEF Alone, EditsKept, OthersPass, PassWrites, JobWrites, EditWrites, PressWrites
  <2>3. CASE UNCHANGED coll /\ PassWrites(s)'
    <3>1. MayRead /\ tick'[s].seen = coll /\ UNCHANGED run
      BY <2>1, <2>3
    <3>2. /\ \A k \in Schedulers : ~PassWrites(k)
          /\ \A j \in Jobs : ~JobWrites(j)
          /\ ~EditWrites /\ ~PressWrites
      BY <3>1, NobodyReads
    <3>3. QED
      BY <2>1, <2>3, <3>1, <3>2 DEF Alone, EditsKept, OthersPass, PassWrites, JobWrites, EditWrites, PressWrites
  <2>4. ASSUME PassWrites(s), ~PassWrites(s)', UNCHANGED run, NEW st \in State, coll' = WithState(tick[s].seen, tick[s].alert, st)
        PROVE (Alone /\ EditsKept)'
    <3>1. tick[s].seen = coll /\ tick[s].alert \in Alerts
      BY <2>4, PassTyped DEF Alone, PassWrites, Marking
    <3>2. EditsKept'
      BY <2>1, <2>4, <3>1, StateKeepsEdits
    <3>3. Alone'
      BY <2>1, <2>4 DEF Alone, OthersPass, PassWrites, JobWrites, EditWrites, PressWrites
    <3>4. QED
      BY <3>2, <3>3
  <2>5. QED
    BY <2>1, <2>2, <2>3, <2>4
<1>2. ASSUME NEW j \in Jobs, JobStep(j) PROVE (Alone /\ EditsKept)'
  <2>1. /\ OthersRun(j) /\ UNCHANGED <<edit, press, tick, edits>>
        /\ ~JobWrites(j)' \/ (MayRead /\ run'[j].seen = coll /\ UNCHANGED coll)
        /\ \/ UNCHANGED coll
           \/ JobWrites(j) /\ ~JobWrites(j)' /\ coll' = WithState(run[j].seen, run[j].alert, run[j].state)
    BY <1>2, JobQuiet
  <2>2. CASE UNCHANGED coll /\ ~JobWrites(j)'
    BY <2>1, <2>2 DEF Alone, EditsKept, OthersRun, PassWrites, JobWrites, EditWrites, PressWrites
  <2>3. CASE UNCHANGED coll /\ JobWrites(j)'
    BY <2>1, <2>3, NobodyReads DEF Alone, EditsKept, OthersRun, PassWrites, JobWrites, EditWrites, PressWrites
  <2>4. CASE JobWrites(j) /\ ~JobWrites(j)' /\ coll' = WithState(run[j].seen, run[j].alert, run[j].state)
    <3>1. run[j].seen = coll /\ run[j].alert \in Alerts /\ run[j].state \in State
      BY <2>4, JobTyped DEF Alone, JobWrites, Live
    <3>2. EditsKept'
      BY <2>1, <2>4, <3>1, StateKeepsEdits
    <3>3. Alone'
      BY <2>1, <2>4 DEF Alone, OthersRun, PassWrites, JobWrites, EditWrites, PressWrites
    <3>4. QED
      BY <3>2, <3>3
  <2>5. QED
    BY <2>1, <2>2, <2>3, <2>4
<1>3. ASSUME NEW j \in Jobs, PressSubmit(j) PROVE (Alone /\ EditsKept)'
  <2>1. press.alert \in Alerts /\ NewJob(j, press.alert) /\ UNCHANGED <<coll, edits, edit, tick>>
    BY <1>3, CallTyped DEF PressSubmit, StagedPress, historyVars
  <2>2. ~PressWrites' /\ OthersRun(j) /\ ~JobWrites(j)'
    BY <1>3, <2>1, SubmitFields, NewFields DEF PressWrites, JobWrites
  <2>3. QED
    BY <2>1, <2>2 DEF Alone, EditsKept, OthersRun, PassWrites, JobWrites, EditWrites, PressWrites
<1>4. ASSUME UNCHANGED <<tick, run, coll, edits>>,
             \/ ~EditWrites' /\ ~PressWrites'
             \/ UNCHANGED <<edit, press>>
             \/ UNCHANGED edit /\ ~PressWrites'
             \/ MayRead /\ UNCHANGED press /\ EditWrites' /\ edit'.seen = coll
             \/ MayRead /\ UNCHANGED edit /\ PressWrites' /\ press'.seen = coll
      PROVE  (Alone /\ EditsKept)'
  <2>1. EditsKept' /\ \A s \in Schedulers : PassWrites(s)' <=> PassWrites(s)
    BY <1>4 DEF EditsKept, PassWrites
  <2>2. MayRead => /\ \A s \in Schedulers : ~PassWrites(s)
                   /\ \A j \in Jobs : ~JobWrites(j)
                   /\ ~EditWrites /\ ~PressWrites
    BY NobodyReads
  <2>3. CASE MayRead /\ UNCHANGED press /\ EditWrites' /\ edit'.seen = coll
    BY <1>4, <2>1, <2>2, <2>3 DEF Alone, PassWrites, JobWrites, EditWrites, PressWrites
  <2>4. CASE MayRead /\ UNCHANGED edit /\ PressWrites' /\ press'.seen = coll
    BY <1>4, <2>1, <2>2, <2>4 DEF Alone, PassWrites, JobWrites, EditWrites, PressWrites
  <2>5. CASE ~EditWrites' /\ ~PressWrites'
    BY <1>4, <2>1, <2>5 DEF Alone, PassWrites, JobWrites, EditWrites, PressWrites
  <2>6. CASE UNCHANGED edit /\ (UNCHANGED press \/ ~PressWrites')
    BY <1>4, <2>1, <2>6 DEF Alone, PassWrites, JobWrites, EditWrites, PressWrites
  <2>7. QED
    BY <1>4, <2>3, <2>4, <2>5, <2>6
<1>5. ASSUME EditRead PROVE (Alone /\ EditsKept)'
  BY <1>4, <1>5 DEF EditRead, EditWrites, historyVars
<1>6. ASSUME PressRead PROVE (Alone /\ EditsKept)'
  <2>1. CASE press' = [press EXCEPT !.phase = "writing", !.seen = coll]
    BY <1>4, <1>6, <2>1, PressReadFields DEF PressRead, PressWrites, historyVars
  <2>2. CASE press' = IdlePress
    BY <1>4, <1>6, <2>2 DEF PressRead, IdlePress, PressWrites, historyVars
  <2>3. QED
    BY <1>6, <2>1, <2>2 DEF PressRead
<1>7. ASSUME PressWrite PROVE (Alone /\ EditsKept)'
  <2>1. press.alert \in Alerts /\ press.since \in Times /\ press.state \in State /\ press.seen = coll /\ PressWrites
    BY <1>7, CallTyped DEF PressWrite, StagedPress, PressWrites, Alone
  <2>2. [press.state EXCEPT !.lastScheduled = press.since] \in State
    BY <2>1, StateTyped
  <2>3. UNCHANGED <<tick, run, edit, edits>> /\ ~PressWrites'
    BY <1>7 DEF PressWrite, PressWrites, IdlePress, historyVars
  <2>4. EditsKept'
    BY <1>7, <2>1, <2>2, <2>3, StateKeepsEdits DEF PressWrite
  <2>5. Alone'
    BY <2>1, <2>3 DEF Alone, PassWrites, JobWrites, EditWrites, PressWrites
  <2>6. QED
    BY <2>4, <2>5
<1>8. ASSUME NEW a \in Alerts, NEW alert \in Alert, Writes(a, alert), edits[a] < MaxEdits, edit.phase = "open",
             alert.edition = edits[a] + 1
      PROVE  (Alone /\ EditsKept)'
  <2>1. /\ \A b \in Alerts : coll'[b] = (IF b = a THEN alert ELSE edit.seen[b]) /\ edits'[b] = IF b = a THEN edits[a] + 1 ELSE edits[b]
        /\ UNCHANGED <<tick, run, press>>
    BY <1>8, SaveTyped
  <2>2. edit.seen = coll /\ EditWrites /\ ~EditWrites'
    BY <1>8 DEF Alone, EditWrites, Writes, IdleEdit
  <2>3. EditsKept'
    BY <1>8, <2>1, <2>2 DEF EditsKept
  <2>4. Alone'
    BY <2>1, <2>2 DEF Alone, PassWrites, JobWrites, EditWrites, PressWrites
  <2>5. QED
    BY <2>3, <2>4
<1>9. ASSUME NEW a \in Alerts, Save(a) PROVE (Alone /\ EditsKept)'
  <2> DEFINE st == IF edit.seen[a].there THEN edit.seen[a].state ELSE NewState
  <2>1. PICK on \in BOOLEAN : Writes(a, [there |-> TRUE, enabled |-> on, edition |-> edits[a] + 1, state |-> st])
    BY <1>9 DEF Save
  <2>2. edits[a] < MaxEdits /\ edit.phase = "open"
    BY <1>9 DEF Save
  <2>3. [there |-> TRUE, enabled |-> on, edition |-> edits[a] + 1, state |-> st] \in Alert
    BY <2>2, SavedTyped
  <2> HIDE DEF st
  <2>4. QED
    BY <1>8, <2>1, <2>2, <2>3
<1>10. ASSUME NEW a \in Alerts, Delete(a) PROVE (Alone /\ EditsKept)'
  <2>1. /\ Writes(a, [there |-> FALSE, enabled |-> FALSE, edition |-> edits[a] + 1, state |-> NewState])
        /\ edits[a] < MaxEdits /\ edit.phase = "open"
    BY <1>10 DEF Delete
  <2>2. [there |-> FALSE, enabled |-> FALSE, edition |-> edits[a] + 1, state |-> NewState] \in Alert
    BY <2>1, SavedTyped
  <2>3. QED
    BY <1>8, <2>1, <2>2
<1>11. ASSUME NEW a \in Alerts, PressRunNow(a) PROVE (Alone /\ EditsKept)'
  BY <1>4, <1>11, PressFields DEF PressRunNow, PressWrites, historyVars
<1>12. ASSUME ClockTick PROVE (Alone /\ EditsKept)'
  BY <1>4, <1>12 DEF ClockTick, historyVars
<1>13. Alone' /\ EditsKept'
  BY <1>1, <1>2, <1>3, <1>5, <1>6, <1>7, <1>9, <1>10, <1>11, <1>12, NextSteps DEF CallStep
<1>14. QED
  BY <1>13 DEF KeptInv

LEMMA KeptInit == ASSUME AlertsAssumption, Init PROVE KeptInv
<1>1. EditsKept
  BY BlankTyped DEF Init, EditsKept
<1>2. Alone
  BY DEF Init, Alone, PassWrites, JobWrites, EditWrites, PressWrites, IdleTick, NoRun, IdlePress, IdleEdit
<1>3. QED
  BY <1>1, <1>2, ShapedInit DEF KeptInv

LEMMA KeptStutter == ASSUME KeptInv, UNCHANGED vars PROVE KeptInv'
<1>1. Shaped' /\ UNCHANGED <<coll, tick, run, edit, press, edits>>
  BY ShapedStutter DEF KeptInv, vars, historyVars
<1>2. QED
  BY <1>1 DEF KeptInv, Alone, EditsKept, PassWrites, JobWrites, EditWrites, PressWrites

(* What the last edit left of an alert stays, deleted included, while no call reads between another's read and write. *)
THEOREM EditsKeptHolds == ASSUME AlertsAssumption, ~Overlap PROVE Spec => []EditsKept
<1>1. KeptInv => EditsKept
  BY DEF KeptInv
<1>2. QED
  BY <1>1, KeptInit, KeptStutter, KeptStep, PTL DEF Spec

-----------------------------------------------------------------------------
(* While no pass stops, an alert is marked before its job is taken, and a pass and its jobs end within *)
(* the interval: nobody runs what is still to be handed over, and each state on its way records when   *)
(* its alert was handed over last.                                                                     *)

InTime ==
  /\ ~Overlap /\ MarkedFirst /\ ~RunsNow /\ MaxEdits = 0 /\ "scheduler" \notin Breaks
  /\ MaxLag <= LeaseTerm /\ MaxLag + MaxJob < Interval

BeingMarked(a) == \E s \in Schedulers : Marking(s) /\ tick[s].alert = a
Runs(j, a) == Live(j) /\ run[j].alert = a
Found(j) == run[j].phase \in {"running", "announcing", "storing", "writing"}

(* Nobody edits or presses: an alert that is there stays. *)
Untouched == edit.phase = "idle" /\ press.phase = "idle" /\ \A a \in Alerts : coll[a].there

(* A job is as old as its alert's last hand-over, give or take the pass that made it. *)
Timely ==
  \A j \in Jobs : Live(j) =>
    /\ handedAt[run[j].alert] <= run[j].born /\ run[j].born <= handedAt[run[j].alert] + MaxLag
    /\ clock <= run[j].born + MaxJob

OneRun == \A a \in Alerts : \A i, j \in Jobs : Runs(i, a) /\ Runs(j, a) => i = j

(* What a pass still has to hand over nobody runs or writes, and what it is marking nobody has taken. *)
Pending(s, a) ==
  /\ tick[s].listed[a].state = coll[a].state
  /\ IF Marking(s) /\ tick[s].alert = a
     THEN handedAt[a] = tick[s].now /\ \A j \in Jobs : Runs(j, a) => run[j].phase = "queued"
     ELSE handedAt[a] + Interval <= tick[s].now /\ \A j \in Jobs : ~Runs(j, a)
Pended == \A s \in Schedulers : Handing(s) => \A a \in tick[s].due : Pending(s, a)

(* The last hand-over is in the state, or about to be; and in every state on its way back. *)
Marked == \A a \in Alerts : BeingMarked(a) \/ handedAt[a] = coll[a].state.lastScheduled
Carried == \A j \in Jobs : Found(j) => run[j].state.lastScheduled = handedAt[run[j].alert]

HandRules == Untouched /\ Timely /\ OneRun /\ Pended /\ Marked /\ Carried /\ NotHandedTwice
HandInv == LeaderInv /\ KeptInv /\ HandRules

LEMMA OnlyLeader ==
  ASSUME LeaderInv, NEW s \in Schedulers, NEW k \in Schedulers, Leading(s), Leading(k)
  PROVE  s = k
BY DEF LeaderInv, Led

(* A job that was taken is of an alert that no pass still has to hand over or to mark. *)
LEMMA TakenAlone ==
  ASSUME Shaped, HandRules, NEW j \in Jobs, Live(j), run[j].phase # "queued"
  PROVE  /\ \A s \in Schedulers : Handing(s) => run[j].alert \notin tick[s].due
         /\ ~BeingMarked(run[j].alert)
<1>1. ASSUME NEW s \in Schedulers, Handing(s), run[j].alert \in tick[s].due PROVE FALSE
  BY <1>1 DEF HandRules, Pended, Pending, Runs
<1>2. ASSUME NEW s \in Schedulers, Marking(s) PROVE Handing(s) /\ tick[s].alert \in tick[s].due
  BY <1>2 DEF Shaped, Staged, StagedPass, Marking, Handing
<1>3. QED
  BY <1>1, <1>2 DEF BeingMarked

(* The pass of s neither hands over nor marks, before and after. *)
LEMMA PassElsewhere ==
  ASSUME HandRules, NEW s \in Schedulers, OthersPass(s), ~Handing(s), ~Handing(s)',
         UNCHANGED <<coll, run, handedAt, clock, press, edit, hurried>>
  PROVE  HandRules'
<1>1. (Untouched /\ Timely /\ OneRun /\ Carried /\ NotHandedTwice)'
  BY DEF HandRules, Untouched, Timely, OneRun, Runs, Live, Carried, Found, NotHandedTwice
<1>2. \A a \in Alerts : BeingMarked(a) => BeingMarked(a)'
  BY DEF BeingMarked, Marking, Handing, OthersPass
<1>3. Marked'
  BY <1>2 DEF HandRules, Marked
<1>4. Pended'
  <2>1. ASSUME NEW k \in Schedulers, Handing(k)', NEW a \in tick'[k].due PROVE Pending(k, a)'
    <3>1. k # s /\ tick'[k] = tick[k] /\ Handing(k)
      BY <2>1 DEF OthersPass, Handing
    <3>2. Pending(k, a)
      BY <2>1, <3>1 DEF HandRules, Pended
    <3>3. QED
      BY <3>1, <3>2 DEF Pending, Marking, Runs, Live
  <2>2. QED
    BY <2>1 DEF Pended
<1>5. QED
  BY <1>1, <1>3, <1>4 DEF HandRules

(* What a pass lists as due nobody runs: its last job was given up within the interval. *)
LEMMA ListHands ==
  ASSUME AlertsAssumption, InTime, HandInv, NEW s \in Schedulers, List(s), DueAlerts(tick[s].now) # {}
  PROVE  HandRules'
<1> /\ Shaped /\ Typed /\ HandRules /\ LeaderInv /\ Interval \in Nat /\ MaxLag \in Nat /\ MaxJob \in Nat
    /\ MaxLag + MaxJob < Interval
  BY Bounds DEF HandInv, LeaderInv, Shaped, InTime
<1>1. /\ OthersPass(s) /\ KeepsNow(s) /\ KeepsAlert(s) /\ tick'[s].phase = "handing"
      /\ tick'[s].due = DueAlerts(tick[s].now) /\ tick'[s].listed = coll
      /\ Leading(s) /\ ~Marking(s) /\ UNCHANGED <<coll, run, handedAt, clock, press, edit, hurried>>
  BY ListFields DEF List, At, Leading, Marking, historyVars
<1>2. \A k \in Schedulers : k # s => ~Leading(k)
  BY <1>1, OnlyLeader
<1>3. \A a \in Alerts : handedAt[a] = coll[a].state.lastScheduled
  BY <1>1, <1>2 DEF HandRules, Marked, BeingMarked, Leading, Marking
<1>4. (Untouched /\ Timely /\ OneRun /\ Carried /\ NotHandedTwice /\ Marked)'
  BY <1>1, <1>3 DEF HandRules, Untouched, Timely, OneRun, Runs, Live, Carried, Found, NotHandedTwice, Marked
<1>5. ASSUME NEW a \in DueAlerts(tick[s].now) PROVE Pending(s, a)'
  <2>1. a \in Alerts /\ Last(a) + Interval <= tick[s].now
    BY DEF DueAlerts
  <2>2. coll[a].state \in State
    BY <2>1 DEF Typed, Collection, Alert
  <2>3. coll[a].state.lastScheduled \in Int /\ coll[a].state.lastRun \in Int
    BY <2>2, Bounds DEF State
  <2>4. handedAt[a] <= Last(a) /\ handedAt[a] \in Int /\ Last(a) \in Int
    BY <1>3, <2>1, <2>3 DEF Last, Larger
  <2>5. tick[s].now \in Int /\ tick[s].now <= clock /\ clock \in Int
    BY PassTyped, Bounds
  <2>6. handedAt[a] + Interval <= tick[s].now
    BY <2>1, <2>4, <2>5
  <2>7. ASSUME NEW j \in Jobs, Runs(j, a) PROVE FALSE
    <3>1. run[j].born <= handedAt[a] + MaxLag /\ clock <= run[j].born + MaxJob
      BY <2>7 DEF HandRules, Timely, Runs
    <3>2. run[j].born \in Int
      BY JobTyped, Bounds
    <3>3. clock <= handedAt[a] + MaxLag + MaxJob
      BY <2>4, <2>5, <3>1, <3>2
    <3>4. clock < handedAt[a] + Interval
      BY <2>4, <2>5, <3>3
    <3>5. QED
      BY <2>4, <2>5, <2>6, <3>4
  <2>8. ~Marking(s)' /\ \A j \in Jobs : ~Runs(j, a)'
    BY <1>1, <2>7 DEF Runs, Live, Marking
  <2>9. QED
    BY <1>1, <2>6, <2>8 DEF Pending, KeepsNow
<1>6. Pended'
  BY <1>1, <1>2, <1>5 DEF Pended, Handing, Leading, OthersPass
<1>7. QED
  BY <1>4, <1>6 DEF HandRules

LEMMA HandOverHands ==
  ASSUME AlertsAssumption, InTime, HandInv, NEW s \in Schedulers, NEW j \in Jobs, HandOver(s, j)
  PROVE  HandRules'
<1> /\ Shaped /\ Typed /\ HandRules /\ LeaderInv /\ Interval \in Nat /\ MaxLag \in Nat /\ MaxJob \in Nat
  BY Bounds DEF HandInv, LeaderInv, Shaped
<1>1. PICK a \in tick[s].due :
        /\ NewJob(j, a) /\ tick' = [tick EXCEPT ![s].phase = "marking", ![s].alert = a]
        /\ handedAt' = [handedAt EXCEPT ![a] = tick[s].now]
        /\ hurried' = IF tick[s].now < handedAt[a] + Interval THEN hurried \cup {a} ELSE hurried
  BY DEF HandOver
<1>2. /\ OthersPass(s) /\ KeepsNow(s) /\ KeepsDue(s) /\ tick'[s].phase = "marking" /\ tick'[s].alert = a /\ a \in Alerts
      /\ Leading(s) /\ Handing(s) /\ ~Marking(s) /\ UNCHANGED <<coll, clock, press, edit>>
  BY <1>1, HandFields DEF HandOver, At, Leading, Handing, Marking
<1>3. \A k \in Schedulers : k # s => ~Leading(k)
  BY <1>2, OnlyLeader
<1>4. handedAt[a] + Interval <= tick[s].now /\ \A k \in Jobs : ~Runs(k, a)
  BY <1>2 DEF HandRules, Pended, Pending
<1>5. tick[s].now \in Int /\ tick[s].now <= clock /\ clock \in Int /\ clock <= tick[s].now + MaxLag /\ handedAt[a] \in Int
  <2>1. ~Idle(s)
    BY <1>2 DEF Idle, Handing
  <2>2. QED
    BY <1>2, <2>1, PassTyped, Bounds DEF LeaderInv, Paced, Typed
<1>6. handedAt'[a] = tick[s].now /\ (\A b \in Alerts : b # a => handedAt'[b] = handedAt[b])
  BY <1>1, <1>2 DEF Typed
<1>7. NotHandedTwice'
  BY <1>1, <1>4, <1>5 DEF HandRules, NotHandedTwice
<1>8. /\ OthersRun(j) /\ run'[j].phase = "queued" /\ run'[j].alert = a /\ run'[j].born = clock /\ ~Live(j)
  BY <1>1, <1>2, NewFields DEF Shaped, Staged, StagedRun, Live
<1>9. ASSUME NEW k \in Jobs, k # j
      PROVE  run'[k] = run[k] /\ (Live(k)' <=> Live(k)) /\ (Live(k) => run[k].alert \in Alerts /\ run[k].alert # a)
  BY <1>4, <1>8, <1>9, JobTyped DEF OthersRun, Live, Runs
<1>10. Timely'
  <2>1. ASSUME NEW k \in Jobs, Live(k)' PROVE (handedAt[run[k].alert] <= run[k].born /\ run[k].born <= handedAt[run[k].alert] + MaxLag
                                              /\ clock <= run[k].born + MaxJob)'
    <3>1. CASE k = j
      BY <1>2, <1>5, <1>6, <1>8, <3>1
    <3>2. CASE k # j
      BY <1>2, <1>6, <1>9, <2>1, <3>2 DEF HandRules, Timely
    <3>3. QED
      BY <3>1, <3>2
  <2>2. QED
    BY <2>1 DEF Timely
<1>11. OneRun'
  BY <1>8, <1>9 DEF HandRules, OneRun, Runs
<1>12. Carried'
  BY <1>6, <1>8, <1>9 DEF HandRules, Carried, Found, Live
<1>13. Marked'
  <2>1. BeingMarked(a)'
    BY <1>2 DEF BeingMarked, Marking
  <2>2. ASSUME NEW b \in Alerts, b # a PROVE handedAt'[b] = coll'[b].state.lastScheduled
    BY <1>2, <1>3, <1>6, <2>2 DEF HandRules, Marked, BeingMarked, Leading, Marking
  <2>3. QED
    BY <2>1, <2>2 DEF Marked
<1>14. ASSUME NEW b \in tick[s].due PROVE Pending(s, b)'
  <2>1. b \in Alerts /\ Pending(s, b) /\ tick'[s].listed = tick[s].listed /\ tick'[s].now = tick[s].now
    BY <1>2, PassTyped DEF HandRules, Pended, KeepsDue, KeepsNow
  <2>2. CASE b = a
    <3>1. \A k \in Jobs : Runs(k, a)' => k = j
      BY <1>4, <1>9 DEF Runs
    <3>2. QED
      BY <1>2, <1>6, <1>8, <2>1, <2>2, <3>1 DEF Pending, Marking
  <2>3. CASE b # a
    <3>1. handedAt[b] + Interval <= tick[s].now /\ \A k \in Jobs : ~Runs(k, b)
      BY <1>2, <2>1 DEF Pending
    <3>2. \A k \in Jobs : ~Runs(k, b)'
      BY <1>8, <1>9, <2>3, <3>1 DEF Runs
    <3>3. QED
      BY <1>2, <1>6, <2>1, <2>3, <3>1, <3>2 DEF Pending
  <2>4. QED
    BY <2>2, <2>3
<1>15. Pended'
  BY <1>2, <1>3, <1>14 DEF Pended, Handing, Leading, OthersPass, KeepsDue
<1>16. Untouched'
  BY <1>2 DEF HandRules, Untouched
<1>17. QED
  BY <1>7, <1>10, <1>11, <1>12, <1>13, <1>15, <1>16 DEF HandRules

LEMMA MarkReadHands ==
  ASSUME AlertsAssumption, HandInv, NEW s \in Schedulers, MarkRead(s)
  PROVE  HandRules'
<1> Shaped /\ Typed /\ HandRules
  BY DEF HandInv, LeaderInv, Shaped
<1>1. tick[s].alert \in Alerts
  BY PassTyped DEF MarkRead, At, Marking
<1>2. tick' = [tick EXCEPT ![s].phase = "writing", ![s].seen = coll]
  BY <1>1 DEF MarkRead, HandRules, Untouched
<1>3. /\ OthersPass(s) /\ KeepsNow(s) /\ KeepsDue(s) /\ tick'[s].phase = "writing" /\ tick'[s].alert = tick[s].alert
      /\ tick[s].phase = "marking" /\ UNCHANGED <<coll, run, handedAt, clock, press, edit, hurried>>
  BY <1>2, ReadFields DEF MarkRead, At, historyVars
<1>4. \A k \in Schedulers : /\ Handing(k)' <=> Handing(k)
                            /\ Marking(k)' <=> Marking(k)
                            /\ tick'[k].alert = tick[k].alert /\ tick'[k].now = tick[k].now
                            /\ tick'[k].due = tick[k].due /\ tick'[k].listed = tick[k].listed
  BY <1>3 DEF OthersPass, Handing, Marking, KeepsNow, KeepsDue
<1>5. (Untouched /\ Timely /\ OneRun /\ Carried /\ NotHandedTwice)'
  BY <1>3 DEF HandRules, Untouched, Timely, OneRun, Runs, Live, Carried, Found, NotHandedTwice
<1>6. Marked'
  BY <1>3, <1>4 DEF HandRules, Marked, BeingMarked
<1>7. ASSUME NEW k \in Schedulers, NEW a \in tick[k].due, Handing(k) PROVE Pending(k, a)'
  <2>1. Pending(k, a)
    BY <1>7 DEF HandRules, Pended
  <2>2. \A j \in Jobs : Runs(j, a)' <=> Runs(j, a)
    BY <1>3 DEF Runs, Live
  <2>3. QED
    BY <1>3, <1>4, <2>1, <2>2 DEF Pending
<1>8. Pended'
  BY <1>4, <1>7 DEF Pended
<1>9. QED
  BY <1>5, <1>6, <1>8 DEF HandRules

(* The mark a pass writes: it changes one state, of which it keeps all but lastScheduled. *)
LEMMA MarkWritten ==
  ASSUME AlertsAssumption, HandInv, NEW s \in Schedulers, MarkWrite(s)
  PROVE  /\ tick[s].alert \in Alerts /\ tick[s].alert \in tick[s].due /\ tick[s].listed[tick[s].alert].state = coll[tick[s].alert].state
         /\ handedAt[tick[s].alert] = tick[s].now
         /\ \A j \in Jobs : Runs(j, tick[s].alert) => run[j].phase = "queued"
         /\ coll'[tick[s].alert].state.lastScheduled = tick[s].now
         /\ coll'[tick[s].alert].state.lastNotified = coll[tick[s].alert].state.lastNotified
         /\ coll'[tick[s].alert].state.status = coll[tick[s].alert].state.status
         /\ \A b \in Alerts : coll'[b].there = coll[b].there /\ (b # tick[s].alert => coll'[b].state = coll[b].state)
<1> /\ Shaped /\ Typed /\ HandRules /\ Alone
  BY DEF HandInv, LeaderInv, KeptInv, Shaped
<1> DEFINE a == tick[s].alert
           st == tick[s].listed[a].state
           u == [st EXCEPT !.lastScheduled = tick[s].now]
<1>1. Marking(s) /\ Handing(s) /\ PassWrites(s) /\ tick[s].seen = coll
  BY DEF MarkWrite, At, Marking, Handing, PassWrites, Alone
<1>2. a \in Alerts /\ a \in tick[s].due /\ tick[s].now \in Times /\ st \in State
  BY <1>1, PassTyped DEF Idle, Marking, Collection, Alert
<1>3. st = coll[a].state /\ handedAt[a] = tick[s].now /\ \A j \in Jobs : Runs(j, a) => run[j].phase = "queued"
  BY <1>1, <1>2 DEF HandRules, Pended, Pending
<1>4. coll' = WithState(coll, a, u)
  BY <1>1 DEF MarkWrite, MarkBase
<1> HIDE DEF st
<1>5. u \in State /\ u.lastScheduled = tick[s].now /\ u.lastNotified = st.lastNotified /\ u.status = st.status
  BY <1>2, StateTyped
<1> HIDE DEF u
<1>6. \A b \in Alerts : coll'[b].there = coll[b].there /\ coll'[b].state = IF b = a THEN u ELSE coll[b].state
  BY <1>2, <1>4, <1>5, WithStateTyped DEF Typed
<1>7. QED
  BY <1>2, <1>3, <1>5, <1>6 DEF st

LEMMA MarkWriteHands ==
  ASSUME AlertsAssumption, HandInv, NEW s \in Schedulers, MarkWrite(s)
  PROVE  HandRules'
<1> /\ Shaped /\ Typed /\ HandRules /\ LeaderInv
  BY DEF HandInv, LeaderInv, Shaped
<1> DEFINE a == tick[s].alert
<1>1. /\ a \in Alerts /\ handedAt[a] = tick[s].now /\ coll'[a].state.lastScheduled = tick[s].now
      /\ \A b \in Alerts : coll'[b].there = coll[b].there /\ (b # a => coll'[b].state = coll[b].state)
  BY MarkWritten
<1>2. /\ OthersPass(s) /\ KeepsNow(s)
      /\ \/ Idle(s)'
         \/ tick'[s].phase = "handing" /\ tick'[s].listed = tick[s].listed /\ tick'[s].due = tick[s].due \ {a}
      /\ Leading(s) /\ Handing(s) /\ Marking(s) /\ UNCHANGED <<run, handedAt, clock, press, edit, hurried>>
  BY NextFields DEF MarkWrite, At, Leading, Handing, Marking, historyVars
<1> HIDE DEF a
<1>3. \A k \in Schedulers : k # s => ~Leading(k) /\ ~Handing(k)' /\ ~Marking(k)
  BY <1>2, OnlyLeader DEF Leading, Handing, Marking, OthersPass
<1>4. (Untouched /\ Timely /\ OneRun /\ Carried /\ NotHandedTwice)'
  BY <1>1, <1>2 DEF HandRules, Untouched, Timely, OneRun, Runs, Live, Carried, Found, NotHandedTwice
<1>5. Marked'
  <2>1. ASSUME NEW b \in Alerts, b # a PROVE ~BeingMarked(b)
    BY <1>3, <2>1 DEF BeingMarked, a
  <2>2. ASSUME NEW b \in Alerts PROVE handedAt'[b] = coll'[b].state.lastScheduled
    BY <1>1, <1>2, <2>1, <2>2 DEF HandRules, Marked
  <2>3. QED
    BY <2>2 DEF Marked
<1>6. ASSUME NEW b \in tick[s].due \ {a}, Handing(s)' PROVE Pending(s, b)'
  <2>1. b \in Alerts /\ b # a /\ Pending(s, b)
    BY <1>2, PassTyped DEF HandRules, Pended
  <2>2. /\ tick[s].listed[b].state = coll[b].state /\ handedAt[b] + Interval <= tick[s].now /\ \A j \in Jobs : ~Runs(j, b)
    BY <2>1 DEF Pending, a
  <2>3. tick'[s].listed = tick[s].listed /\ ~Marking(s)' /\ coll'[b].state = coll[b].state /\ \A j \in Jobs : ~Runs(j, b)'
    BY <1>1, <1>2, <1>6, <2>1, <2>2 DEF Idle, Handing, Marking, Runs, Live
  <2>4. QED
    BY <1>2, <2>2, <2>3 DEF Pending, KeepsNow
<1>7. Pended'
  BY <1>2, <1>3, <1>6 DEF Pended, Idle, Handing
<1>8. QED
  BY <1>4, <1>5, <1>7 DEF HandRules

(* A job that was taken goes on, and carries on what it found. *)
LEMMA JobGoesOn ==
  ASSUME Shaped, HandRules, NEW j \in Jobs, OthersRun(j), KeepsJob(j), Live(j), run[j].phase # "queued",
         run'[j].phase \notin {"none", "over", "queued"},
         Found(j)' => run'[j].state.lastScheduled = handedAt[run[j].alert],
         UNCHANGED <<coll, tick, handedAt, clock, press, edit, hurried>>
  PROVE  HandRules'
<1>1. ASSUME NEW k \in Jobs PROVE (Live(k)' <=> Live(k)) /\ run'[k].alert = run[k].alert /\ run'[k].born = run[k].born
  BY <1>1 DEF OthersRun, KeepsJob, Live
<1>2. (Untouched /\ Timely /\ OneRun /\ NotHandedTwice)'
  BY <1>1 DEF HandRules, Untouched, Timely, OneRun, Runs, NotHandedTwice
<1>3. Marked'
  BY DEF HandRules, Marked, BeingMarked, Marking
<1>4. Carried'
  BY <1>1 DEF HandRules, Carried, Found, OthersRun
<1>5. ASSUME NEW s \in Schedulers, NEW a \in tick[s].due, Handing(s) PROVE Pending(s, a)'
  <2>1. Pending(s, a) /\ run[j].alert # a
    BY <1>5, TakenAlone DEF HandRules, Pended
  <2>2. \A k \in Jobs : Runs(k, a)' => Runs(k, a) /\ run'[k].phase = run[k].phase
    BY <1>1, <2>1 DEF Runs, OthersRun
  <2>3. QED
    BY <2>1, <2>2 DEF Pending, Marking
<1>6. Pended'
  BY <1>5 DEF Pended, Handing
<1>7. QED
  BY <1>2, <1>3, <1>4, <1>6 DEF HandRules

(* A job is over, and what it may have stored records its alert's last hand-over. *)
LEMMA JobEnds ==
  ASSUME Shaped, HandRules, NEW j \in Jobs, OthersRun(j), run'[j].phase = "over",
         UNCHANGED <<tick, handedAt, clock, press, edit, hurried>>,
         \A b \in Alerts : coll'[b].there = coll[b].there,
         \A b \in Alerts : \/ coll'[b].state = coll[b].state
                           \/ /\ Runs(j, b) /\ run[j].phase # "queued"
                              /\ coll'[b].state.lastScheduled = handedAt[b]
  PROVE  HandRules'
<1>1. ASSUME NEW k \in Jobs PROVE (Live(k)' => Live(k)) /\ (Live(k)' => run'[k] = run[k])
  BY <1>1 DEF OthersRun, Live
<1>2. (Untouched /\ Timely /\ OneRun /\ NotHandedTwice)'
  BY <1>1 DEF HandRules, Untouched, Timely, OneRun, Runs, NotHandedTwice
<1>3. Marked'
  BY DEF HandRules, Marked, BeingMarked, Marking
<1>4. Carried'
  BY <1>1 DEF HandRules, Carried, Found, Live
<1>5. ASSUME NEW s \in Schedulers, NEW a \in tick[s].due, Handing(s), a \in Alerts PROVE Pending(s, a)'
  <2>1. Pending(s, a) /\ coll'[a].state = coll[a].state
    BY <1>5, TakenAlone DEF HandRules, Pended, Runs
  <2>2. \A k \in Jobs : Runs(k, a)' => Runs(k, a) /\ run'[k].phase = run[k].phase
    BY <1>1 DEF Runs
  <2>3. QED
    BY <2>1, <2>2 DEF Pending, Marking
<1>6. \A s \in Schedulers : tick[s].due \subseteq Alerts
  BY DEF Shaped, Typed, Tick
<1>7. Pended'
  BY <1>5, <1>6 DEF Pended, Handing
<1>8. QED
  BY <1>2, <1>3, <1>4, <1>7 DEF HandRules

(* What a run stores: the state it holds, and nothing else of the collection. *)
LEMMA RunStored ==
  ASSUME AlertsAssumption, HandInv, NEW j \in Jobs, StoreWrite(j)
  PROVE  /\ run[j].alert \in Alerts /\ Live(j) /\ Found(j) /\ run[j].phase = "writing"
         /\ \A b \in Alerts : coll'[b].there = coll[b].there /\ coll'[b].state = IF b = run[j].alert THEN run[j].state ELSE coll[b].state
<1>1. run[j].alert \in Alerts /\ Live(j) /\ Found(j) /\ run[j].state \in State /\ run[j].phase = "writing" /\ coll \in Collection
  BY JobTyped DEF HandInv, LeaderInv, StoreWrite, RunAt, Live, Found
<1>2. run[j].seen = coll
  BY DEF HandInv, KeptInv, Alone, StoreWrite, RunAt, JobWrites
<1>3. QED
  BY <1>1, <1>2, WithStateTyped DEF StoreWrite

LEMMA JobHands ==
  ASSUME AlertsAssumption, InTime, HandInv, NEW j \in Jobs, JobStep(j)
  PROVE  HandRules'
<1> /\ Shaped /\ Typed /\ HandRules /\ StagedRun(j) /\ run[j].state \in State /\ run[j].now \in Times
    /\ Live(j) => run[j].alert \in Alerts
  BY JobTyped DEF HandInv, LeaderInv, Shaped
<1>1. UNCHANGED <<tick, handedAt, clock, press, edit, hurried>>
  BY DEF JobStep, Take, Find, Evaluate, Announce, AnnounceFails, StoreRead, StoreWrite, RunBreaks, historyVars
<1>2. \A c \in {"ok", "error"} : /\ NotFired(run[j].state, run[j].now, c) \in State
                                 /\ NotFired(run[j].state, run[j].now, c).lastScheduled = run[j].state.lastScheduled
  BY NotFiredTyped
<1>3. \A notify \in BOOLEAN : /\ Fired(run[j].state, run[j].now, notify) \in State
                              /\ Fired(run[j].state, run[j].now, notify).lastScheduled = run[j].state.lastScheduled
  BY FiredTyped
<1>4. ASSUME RunAt(j, "running") \/ RunAt(j, "announcing"), NEW st \in State, st.lastScheduled = run[j].state.lastScheduled,
             run' = [run EXCEPT ![j].phase = "storing", ![j].state = st], UNCHANGED coll
      PROVE  HandRules'
  <2>1. Live(j) /\ run[j].phase # "queued" /\ run[j].state.lastScheduled = handedAt[run[j].alert]
    BY <1>4 DEF RunAt, Live, HandRules, Carried, Found
  <2>2. KeepsJob(j) /\ OthersRun(j) /\ run'[j].phase = "storing" /\ run'[j].state = st
    BY <1>4, StoresFields
  <2>3. QED
    BY <1>1, <1>4, <2>1, <2>2, JobGoesOn
<1>5. ASSUME Take(j) PROVE HandRules'
  <2>1. /\ OthersRun(j) /\ KeepsJob(j) /\ run'[j].phase = "finding" /\ run[j].phase = "queued" /\ coll' = coll
        /\ \A s \in Schedulers : tick[s].alert # run[j].alert
    BY <1>5, TakeFields DEF Take, StagedRun, InTime
  <2>2. ASSUME NEW k \in Jobs PROVE (Live(k)' <=> Live(k)) /\ run'[k].alert = run[k].alert /\ run'[k].born = run[k].born
    BY <2>1 DEF OthersRun, KeepsJob, Live
  <2>3. (Untouched /\ Timely /\ OneRun /\ NotHandedTwice /\ Marked)'
    BY <1>1, <2>1, <2>2 DEF HandRules, Untouched, Timely, OneRun, Runs, NotHandedTwice, Marked, BeingMarked, Marking
  <2>4. Carried'
    BY <1>1, <2>1 DEF HandRules, Carried, Found, OthersRun
  <2>5. ASSUME NEW s \in Schedulers, NEW a \in tick[s].due, Handing(s) PROVE Pending(s, a)'
    <3>1. Pending(s, a)
      BY <2>5 DEF HandRules, Pended
    <3>2. tick[s].alert = a => \A k \in Jobs : Runs(k, a)' => run'[k].phase = run[k].phase /\ Runs(k, a)
      BY <2>1, <2>2 DEF Runs, OthersRun
    <3>3. \A k \in Jobs : Runs(k, a)' <=> Runs(k, a)
      BY <2>2 DEF Runs
    <3>4. QED
      BY <1>1, <2>1, <3>1, <3>2, <3>3 DEF Pending, Marking
  <2>6. Pended'
    BY <1>1, <2>5 DEF Pended, Handing
  <2>7. QED
    BY <2>3, <2>4, <2>6 DEF HandRules
<1>6. ASSUME Find(j) PROVE HandRules'
  <2>1. Live(j) /\ run[j].phase # "queued" /\ run[j].alert \in Alerts /\ coll' = coll
    BY <1>6 DEF Find, RunAt, Live
  <2>2. run' = [run EXCEPT ![j].phase = "running", ![j].now = clock, ![j].state = coll[run[j].alert].state]
    BY <1>6, <2>1 DEF Find, HandRules, Untouched
  <2>3. OthersRun(j) /\ KeepsJob(j) /\ run'[j].phase = "running" /\ run'[j].state = coll[run[j].alert].state
    BY <2>1, <2>2, FindFields
  <2>4. coll[run[j].alert].state.lastScheduled = handedAt[run[j].alert]
    BY <2>1, TakenAlone DEF HandRules, Marked
  <2>5. QED
    BY <1>1, <2>1, <2>3, <2>4, JobGoesOn
<1>7. ASSUME Evaluate(j) PROVE HandRules'
  <2>1. RunAt(j, "running") /\ Live(j) /\ run[j].phase # "queued" /\ coll' = coll
        /\ run[j].state.lastScheduled = handedAt[run[j].alert]
    BY <1>7 DEF Evaluate, RunAt, Live, HandRules, Carried, Found
  <2>2. CASE Holds(j)
    <3>1. /\ OthersRun(j) /\ KeepsJob(j) /\ run'[j].phase \in {"announcing", "storing"}
          /\ run'[j].state = run[j].state \/ run'[j].state = Fired(run[j].state, run[j].now, FALSE)
      BY <2>2, HoldsFields
    <3>2. run'[j].state.lastScheduled = handedAt[run[j].alert]
      BY <1>3, <2>1, <3>1
    <3>3. QED
      BY <1>1, <2>1, <3>1, <3>2, JobGoesOn
  <2>3. CASE HoldsNot(j)
    <3>1. PICK status \in {"ok", "error"} :
            run' = [run EXCEPT ![j].phase = "storing", ![j].state = NotFired(run[j].state, run[j].now, status)]
      BY <2>3 DEF HoldsNot
    <3>2. QED
      BY <1>2, <1>4, <2>1, <3>1
  <2>4. QED
    BY <1>7, <2>2, <2>3 DEF Evaluate
<1>8. ASSUME Announce(j) \/ AnnounceFails(j) PROVE HandRules'
  <2>1. RunAt(j, "announcing") /\ coll' = coll
    BY <1>8 DEF Announce, AnnounceFails
  <2>2. CASE Announce(j)
    <3>1. run' = [run EXCEPT ![j].phase = "storing", ![j].state = Fired(run[j].state, run[j].now, TRUE)]
      BY <2>2 DEF Announce
    <3>2. QED
      BY <1>3, <1>4, <2>1, <3>1
  <2>3. CASE AnnounceFails(j)
    <3>1. run' = [run EXCEPT ![j].phase = "storing", ![j].state = NotFired(run[j].state, run[j].now, "error")]
      BY <2>3 DEF AnnounceFails
    <3>2. QED
      BY <1>2, <1>4, <2>1, <3>1
  <2>4. QED
    BY <1>8, <2>2, <2>3
<1>9. ASSUME StoreRead(j) PROVE HandRules'
  <2>1. Live(j) /\ run[j].phase # "queued" /\ run[j].alert \in Alerts /\ coll' = coll
        /\ run[j].state.lastScheduled = handedAt[run[j].alert]
    BY <1>9 DEF StoreRead, RunAt, Live, HandRules, Carried, Found
  <2>2. run' = [run EXCEPT ![j].phase = "writing", ![j].seen = coll]
    BY <1>9, <2>1 DEF StoreRead, HandRules, Untouched
  <2>3. OthersRun(j) /\ KeepsJob(j) /\ run'[j].phase = "writing" /\ run'[j].state = run[j].state
    BY <2>2, WritingFields DEF KeepsFinding
  <2>4. QED
    BY <1>1, <2>1, <2>3, JobGoesOn
<1>10. ASSUME StoreWrite(j) PROVE HandRules'
  <2>1. /\ run[j].alert \in Alerts /\ Live(j) /\ Found(j) /\ run[j].phase = "writing"
        /\ \A b \in Alerts : coll'[b].there = coll[b].there /\ coll'[b].state = IF b = run[j].alert THEN run[j].state ELSE coll[b].state
    BY <1>10, RunStored
  <2>2. run[j].state.lastScheduled = handedAt[run[j].alert]
    BY <2>1 DEF HandRules, Carried
  <2>3. OthersRun(j) /\ run'[j].phase = "over"
    BY <1>10, EndsFields DEF StoreWrite
  <2>4. QED
    BY <1>1, <2>1, <2>2, <2>3, JobEnds DEF Runs
<1>11. ASSUME RunBreaks(j) PROVE HandRules'
  <2>1. OthersRun(j) /\ run'[j].phase = "over" /\ coll' = coll
    BY <1>11, EndsFields DEF RunBreaks
  <2>2. QED
    BY <1>1, <2>1, JobEnds
<1>12. QED
  BY <1>5, <1>6, <1>7, <1>8, <1>9, <1>10, <1>11 DEF JobStep

LEMMA NobodyCalls ==
  ASSUME AlertsAssumption, InTime, HandInv
  PROVE  ~CallStep /\ \A j \in Jobs : ~PressSubmit(j)
<1>1. MaxEdits = 0 /\ ~RunsNow /\ edit.phase = "idle" /\ press.phase = "idle" /\ edits \in [Alerts -> 0..MaxEdits]
  BY DEF InTime, HandInv, LeaderInv, Shaped, Typed, HandRules, Untouched
<1>2. \A a \in Alerts : ~(edits[a] < MaxEdits)
  BY <1>1
<1>3. QED
  BY <1>1, <1>2 DEF CallStep, EditRead, PressRead, PressWrite, Save, Delete, PressRunNow, PressSubmit

LEMMA PassHands ==
  ASSUME AlertsAssumption, InTime, HandInv, NEW s \in Schedulers, PassStep(s)
  PROVE  HandRules'
<1> /\ Shaped /\ Typed /\ HandRules
  BY DEF HandInv, LeaderInv, Shaped
<1>1. ASSUME Rests(s) \/ Moves(s, "chores") \/ Moves(s, "chore") \/ Moves(s, "listing"), ~Handing(s),
             UNCHANGED <<coll, run, handedAt, clock, press, edit, hurried>>
      PROVE  HandRules'
  <2>1. OthersPass(s) /\ ~Handing(s)'
    BY <1>1, RestsFields, MovesFields DEF Handing, Idle
  <2>2. QED
    BY <1>1, <2>1, PassElsewhere
<1>2. ASSUME TickStart(s) PROVE HandRules'
  <2>1. OthersPass(s) /\ ~Handing(s)' /\ ~Handing(s) /\ UNCHANGED <<coll, run, handedAt, clock, press, edit, hurried>>
    BY <1>2, StartFields DEF TickStart, At, Handing, historyVars
  <2>2. QED
    BY <2>1, PassElsewhere
<1>3. ASSUME AskLease(s) \/ Chores(s) \/ EnqueueChore(s) PROVE HandRules'
  BY <1>1, <1>3 DEF AskLease, Chores, EnqueueChore, At, Handing, historyVars
<1>4. ASSUME List(s) PROVE HandRules'
  <2>1. ASSUME DueAlerts(tick[s].now) = {} PROVE HandRules'
    BY <1>1, <1>4, <2>1 DEF List, At, Handing, historyVars
  <2>2. QED
    BY <1>4, <2>1, ListHands
<1>5. ~TickBreaks(s)
  BY DEF TickBreaks, InTime
<1>6. QED
  BY <1>2, <1>3, <1>4, <1>5, HandOverHands, MarkReadHands, MarkWriteHands DEF PassStep

LEMMA HandStep == ASSUME AlertsAssumption, InTime, HandInv, Next PROVE HandInv'
<1>1. LeaderInv' /\ KeptInv'
  BY LeaderStep, KeptStep DEF InTime, HandInv
<1>2. CASE ClockTick
  <2>1. /\ \A j \in Jobs : Live(j) => clock - run[j].born < MaxJob
        /\ clock' = clock + 1 /\ UNCHANGED <<coll, tick, run, handedAt, press, edit, hurried>>
    BY <1>2 DEF ClockTick, Live, historyVars
  <2>2. \A j \in Jobs : Live(j) => clock + 1 <= run[j].born + MaxJob
    <3>1. clock \in Int /\ MaxJob \in Int /\ \A j \in Jobs : run[j].born \in Int
      BY CallTyped, JobTyped, Bounds DEF HandInv, LeaderInv
    <3>2. QED
      BY <2>1, <3>1
  <2>3. (Untouched /\ Timely /\ OneRun /\ Marked /\ Carried /\ NotHandedTwice)'
    BY <2>1, <2>2 DEF HandInv, HandRules, Untouched, Timely, OneRun, Runs, Live, Marked, BeingMarked, Marking, Carried, Found, NotHandedTwice
  <2>4. Pended'
    BY <2>1 DEF HandInv, HandRules, Pended, Pending, Handing, Marking, Runs, Live
  <2>5. HandRules'
    BY <2>3, <2>4 DEF HandRules
  <2>6. QED
    BY <1>1, <2>5 DEF HandInv
<1>3. ASSUME ~ClockTick PROVE HandRules'
  BY <1>3, PassHands, JobHands, NobodyCalls, NextSteps
<1>4. QED
  BY <1>1, <1>2, <1>3 DEF HandInv

LEMMA HandHolds == ASSUME AlertsAssumption, InTime PROVE Spec => []HandInv
<1>1. ASSUME Init PROVE HandInv
  <2>1. LeaderInv
    BY <1>1, ShapedInit DEF Init, LeaderInv, Led, Paced, Leading, Idle, IdleTick
  <2>2. KeptInv
    BY <1>1, KeptInit
  <2>3. Untouched /\ Marked /\ NotHandedTwice
    BY <1>1, BlankTyped DEF Init, Untouched, Marked, NotHandedTwice, IdleEdit, IdlePress
  <2>4. Timely /\ OneRun /\ Carried /\ Pended
    BY <1>1 DEF Init, Timely, OneRun, Runs, Live, Carried, Found, Pended, Handing, IdleTick, NoRun
  <2>5. QED
    BY <2>1, <2>2, <2>3, <2>4 DEF HandInv, HandRules
<1>2. ASSUME HandInv, UNCHANGED vars PROVE HandInv'
  <2>1. Shaped' /\ UNCHANGED <<coll, lease, tick, run, edit, press, clock, handedAt, hurried>>
    BY <1>2, ShapedStutter DEF HandInv, LeaderInv, vars, historyVars
  <2>2. LeaderInv' /\ KeptInv'
    BY <1>2, <2>1, KeptStutter DEF HandInv, LeaderInv, Led, Paced, Leading, Idle
  <2>3. (Untouched /\ Timely /\ OneRun /\ Marked /\ Carried /\ NotHandedTwice)'
    BY <1>2, <2>1 DEF HandInv, HandRules, Untouched, Timely, OneRun, Runs, Live, Marked, BeingMarked, Marking, Carried, Found, NotHandedTwice
  <2>4. Pended'
    BY <1>2, <2>1 DEF HandInv, HandRules, Pended, Pending, Handing, Marking, Runs, Live
  <2>5. QED
    BY <2>2, <2>3, <2>4 DEF HandInv, HandRules
<1>3. QED
  BY <1>1, <1>2, HandStep, PTL DEF Spec

(* An alert's hand-overs are an interval apart, though workers die and channels are not found, in the regime InTime. *)
THEOREM NotHandedTwiceHolds == ASSUME AlertsAssumption, InTime PROVE Spec => []NotHandedTwice
BY HandHolds, PTL DEF HandInv, HandRules

-----------------------------------------------------------------------------
(* While nothing fails either, the notice that stands is recorded in the state of the run that stores *)
(* next, and else in the stored one: whoever asks whether to notify sees it.                          *)

NothingFails == InTime /\ Breaks = {}

Recalls(at, st) == at # Never => st.status = "firing" /\ st.lastNotified = at
Storing(j) == run[j].phase \in {"storing", "writing"}
Recalled ==
  /\ \A j \in Jobs : Found(j) => Recalls(firedAt[run[j].alert], run[j].state)
  /\ \A a \in Alerts : (\A j \in Jobs : Storing(j) => run[j].alert # a) => Recalls(firedAt[a], coll[a].state)
  /\ \A j \in Jobs : RunAt(j, "announcing") => Notifies(run[j].state, run[j].now)
NoticeInv == HandInv /\ Recalled /\ NotifiedOnce

(* Neither the states nor what is recorded of the notices changes. *)
LEMMA RecalledStays ==
  ASSUME AlertsAssumption, Shaped, Recalled, NotifiedOnce, UNCHANGED <<firedAt, repeated>>,
         \A a \in Alerts : coll'[a].state.status = coll[a].state.status /\ coll'[a].state.lastNotified = coll[a].state.lastNotified,
         \A j \in Jobs : run'[j] = run[j] \/ (~Found(j)' /\ ~Storing(j))
  PROVE  (Recalled /\ NotifiedOnce)'
<1>1. NotifiedOnce' /\ \A j \in Jobs : Found(j)' => run'[j] = run[j]
  BY DEF NotifiedOnce
<1>2. (\A j \in Jobs : Found(j) => Recalls(firedAt[run[j].alert], run[j].state))'
  BY <1>1 DEF Recalled, Recalls, Found
<1>3. (\A j \in Jobs : RunAt(j, "announcing") => Notifies(run[j].state, run[j].now))'
  BY <1>1 DEF Recalled, RunAt, Found, Notifies
<1>4. ASSUME NEW a \in Alerts, \A j \in Jobs : Storing(j)' => run'[j].alert # a PROVE Recalls(firedAt'[a], coll'[a].state)
  <2>1. \A j \in Jobs : Storing(j) => run[j].alert # a
    BY <1>4 DEF Storing
  <2>2. Recalls(firedAt[a], coll[a].state)
    BY <2>1 DEF Recalled
  <2>3. QED
    BY <2>2 DEF Recalls
<1>5. QED
  BY <1>1, <1>2, <1>3, <1>4 DEF Recalled

LEMMA PassRecalls ==
  ASSUME AlertsAssumption, NoticeInv, NEW s \in Schedulers, PassStep(s)
  PROVE  (Recalled /\ NotifiedOnce)'
<1> HandInv /\ Shaped /\ Typed /\ Recalled /\ NotifiedOnce
  BY DEF NoticeInv, HandInv, LeaderInv, Shaped
<1>1. UNCHANGED <<firedAt, repeated>>
  BY DEF PassStep, TickStart, AskLease, Chores, EnqueueChore, List, HandOver, MarkRead, MarkWrite, TickBreaks, historyVars
<1>2. \A a \in Alerts : coll'[a].state.status = coll[a].state.status /\ coll'[a].state.lastNotified = coll[a].state.lastNotified
  <2>1. CASE MarkWrite(s)
    BY <2>1, MarkWritten
  <2>2. CASE ~MarkWrite(s)
    BY <2>2 DEF PassStep, TickStart, AskLease, Chores, EnqueueChore, List, HandOver, MarkRead, TickBreaks
  <2>3. QED
    BY <2>1, <2>2
<1>3. \A j \in Jobs : run'[j] = run[j] \/ (~Found(j)' /\ ~Storing(j))
  <2>1. ASSUME NEW j \in Jobs, HandOver(s, j) PROVE \A k \in Jobs : run'[k] = run[k] \/ (~Found(k)' /\ ~Storing(k))
    <3>1. PICK a \in tick[s].due : NewJob(j, a)
      BY <2>1 DEF HandOver
    <3>2. a \in Alerts
      BY PassTyped
    <3>3. OthersRun(j) /\ run'[j].phase = "queued" /\ run[j].phase = "none"
      BY <3>1, <3>2, NewFields DEF Shaped, Staged, StagedRun
    <3>4. QED
      BY <3>3 DEF OthersRun, Found, Storing
  <2>2. CASE ~\E j \in Jobs : HandOver(s, j)
    BY <2>2 DEF PassStep, TickStart, AskLease, Chores, EnqueueChore, List, MarkRead, MarkWrite, TickBreaks
  <2>3. QED
    BY <2>1, <2>2
<1>4. QED
  BY <1>1, <1>2, <1>3, RecalledStays

(* One job finds, tells or stores, of an alert that no other job runs. *)
LEMMA JobRecalls ==
  ASSUME AlertsAssumption, NothingFails, NoticeInv, NEW j \in Jobs, JobStep(j)
  PROVE  (Recalled /\ NotifiedOnce)'
<1> DEFINE a == run[j].alert
<1> /\ HandInv /\ Shaped /\ Typed /\ Recalled /\ NotifiedOnce /\ HandRules
    /\ run[j].state \in State /\ run[j].now \in Times /\ (Live(j) => a \in Alerts)
    /\ firedAt \in [Alerts -> Instants]
  BY JobTyped DEF NoticeInv, HandInv, LeaderInv, Shaped
<1> HIDE DEF a
<1>1. ASSUME NEW k \in Jobs, k # j, Live(j), Live(k) PROVE run[k].alert # a /\ run[k].alert \in Alerts
  BY <1>1, JobTyped DEF HandRules, OneRun, Runs, a
<1>2. \A k \in Jobs : (Found(k) \/ Storing(k) \/ RunAt(k, "announcing")) => Live(k)
  BY DEF Found, Storing, RunAt, Live
(* The notices of the other alerts are as they were. *)
<1>3. ASSUME Live(j), OthersRun(j), KeepsJob(j) \/ ~Live(j)', repeated' = {}, Found(j)' => Recalls(firedAt'[a], run'[j].state),
             RunAt(j, "announcing")' => Notifies(run'[j].state, run'[j].now),
             Storing(j)' \/ Recalls(firedAt'[a], coll'[a].state),
             \A b \in Alerts : b # a => firedAt'[b] = firedAt[b] /\ coll'[b].state = coll[b].state
      PROVE  (Recalled /\ NotifiedOnce)'
  <2>1. (\A k \in Jobs : Found(k) => Recalls(firedAt[run[k].alert], run[k].state))'
    <3>1. ASSUME NEW k \in Jobs, Found(k)' PROVE Recalls(firedAt'[run'[k].alert], run'[k].state)
      <4>1. CASE k = j
        BY <1>3, <3>1, <4>1 DEF KeepsJob, Found, Live, a
      <4>2. CASE k # j
        <5>1. run'[k] = run[k] /\ Found(k) /\ Live(k)
          BY <1>2, <1>3, <3>1, <4>2 DEF OthersRun, Found
        <5>2. firedAt'[run[k].alert] = firedAt[run[k].alert]
          BY <1>1, <1>3, <4>2, <5>1
        <5>3. QED
          BY <5>1, <5>2 DEF Recalled, Recalls
      <4>3. QED
        BY <4>1, <4>2
    <3>2. QED
      BY <3>1
  <2>2. (\A k \in Jobs : RunAt(k, "announcing") => Notifies(run[k].state, run[k].now))'
    BY <1>3 DEF Recalled, RunAt, OthersRun, Notifies
  <2>3. ASSUME NEW b \in Alerts, \A k \in Jobs : Storing(k)' => run'[k].alert # b PROVE Recalls(firedAt'[b], coll'[b].state)
    <3>1. CASE b = a
      <4>1. ~Storing(j)'
        BY <1>3, <2>3, <3>1 DEF KeepsJob, Storing, Live, a
      <4>2. QED
        BY <1>3, <3>1, <4>1
    <3>2. CASE b # a
      <4>1. \A k \in Jobs : Storing(k) => run[k].alert # b
        BY <1>3, <2>3, <3>2 DEF OthersRun, Storing, a
      <4>2. Recalls(firedAt[b], coll[b].state)
        BY <4>1 DEF Recalled
      <4>3. QED
        BY <1>3, <3>2, <4>2 DEF Recalls
    <3>3. QED
      BY <3>1, <3>2
  <2>4. QED
    BY <1>3, <2>1, <2>2, <2>3 DEF Recalled, NotifiedOnce
<1>4. ASSUME Live(j), ~Storing(j) PROVE Recalls(firedAt[a], coll[a].state)
  <2>1. \A k \in Jobs : Storing(k) => run[k].alert # a
    BY <1>1, <1>2, <1>4
  <2>2. QED
    BY <1>4, <2>1 DEF Recalled
<1>5. repeated = {}
  BY DEF NotifiedOnce
<1>6. ASSUME Take(j) PROVE (Recalled /\ NotifiedOnce)'
  <2>1. /\ OthersRun(j) /\ run'[j].phase = "finding" /\ run[j].phase = "queued" /\ UNCHANGED <<firedAt, repeated, coll>>
    BY <1>6, TakeFields DEF Take, historyVars, Shaped, Staged, StagedRun
  <2>2. QED
    BY <2>1, RecalledStays DEF OthersRun, Found, Storing
<1>7. ASSUME Find(j) PROVE (Recalled /\ NotifiedOnce)'
  <2>1. Live(j) /\ ~Storing(j) /\ a \in Alerts /\ UNCHANGED <<coll, firedAt, repeated>>
    BY <1>7 DEF Find, RunAt, Live, Storing, historyVars
  <2>2. run' = [run EXCEPT ![j].phase = "running", ![j].now = clock, ![j].state = coll[run[j].alert].state]
    BY <1>7, <2>1 DEF Find, HandRules, Untouched, a
  <2>3. OthersRun(j) /\ KeepsJob(j) /\ run'[j].phase = "running" /\ run'[j].state = coll[a].state
    BY <2>1, <2>2, FindFields DEF a
  <2>4. Recalls(firedAt'[a], coll[a].state) /\ Recalls(firedAt'[a], run'[j].state)
    BY <1>4, <2>1, <2>3 DEF Recalls
  <2>5. QED
    BY <1>3, <1>5, <2>1, <2>3, <2>4 DEF RunAt
<1>8. ASSUME Evaluate(j) PROVE (Recalled /\ NotifiedOnce)'
  <2>1. RunAt(j, "running") /\ Live(j) /\ ~Storing(j) /\ a \in Alerts /\ UNCHANGED <<coll, repeated>> /\ Recalls(firedAt[a], run[j].state)
    BY <1>8 DEF Evaluate, RunAt, Live, Storing, Recalled, Found, a
  <2>2. CASE Holds(j) /\ UNCHANGED firedAt
    <3>1. /\ OthersRun(j) /\ KeepsJob(j) /\ run'[j].now = run[j].now
          /\ IF Notifies(run[j].state, run[j].now)
             THEN run'[j].phase = "announcing" /\ run'[j].state = run[j].state
             ELSE run'[j].phase = "storing" /\ run'[j].state = Fired(run[j].state, run[j].now, FALSE)
      BY <2>2, HoldsFields
    <3>2. LET u == Fired(run[j].state, run[j].now, FALSE) IN u.status = "firing" /\ u.lastNotified = run[j].state.lastNotified
      BY FiredTyped
    <3>3. Recalls(firedAt'[a], run'[j].state) /\ Recalls(firedAt'[a], coll[a].state)
      BY <1>4, <2>1, <2>2, <3>1, <3>2 DEF Recalls
    <3>4. QED
      BY <1>3, <1>5, <2>1, <2>2, <3>1, <3>3 DEF RunAt
  <2>3. CASE HoldsNot(j)
    <3>1. PICK status \in {"ok", "error"} :
            run' = [run EXCEPT ![j].phase = "storing", ![j].state = NotFired(run[j].state, run[j].now, status)]
      BY <2>3 DEF HoldsNot
    <3>2. OthersRun(j) /\ KeepsJob(j) /\ run'[j].phase = "storing"
      BY <3>1, NotFiredTyped, StoresFields
    <3>3. firedAt'[a] = Never /\ \A b \in Alerts : b # a => firedAt'[b] = firedAt[b]
      BY <2>1, <2>3 DEF HoldsNot, a
    <3>4. QED
      BY <1>3, <1>5, <2>1, <3>2, <3>3 DEF Recalls, RunAt, Storing
  <2>4. QED
    BY <1>8, <2>2, <2>3 DEF Evaluate
<1>9. ASSUME Announce(j) PROVE (Recalled /\ NotifiedOnce)'
  <2>1. Live(j) /\ a \in Alerts /\ UNCHANGED coll /\ Recalls(firedAt[a], run[j].state) /\ Notifies(run[j].state, run[j].now)
    BY <1>9 DEF Announce, RunAt, Live, Recalled, Found, a
  <2>2. firedAt'[a] = run[j].now /\ (\A b \in Alerts : b # a => firedAt'[b] = firedAt[b])
        /\ repeated' = IF run[j].now < firedAt[a] + Cooldown THEN repeated \cup {a} ELSE repeated
    BY <1>9, <2>1 DEF Announce, Tells, a
  <2>3. repeated' = {}
    <3>1. firedAt[a] \in Int /\ run[j].now \in Int /\ run[j].now >= 0 /\ Cooldown \in Int /\ Never + Cooldown < 0 /\ Never \in Int
      BY <2>1, Bounds DEF Times
    <3>2. ~(run[j].now < firedAt[a] + Cooldown)
      BY <2>1, <3>1 DEF Recalls, Notifies
    <3>3. QED
      BY <1>5, <2>2, <3>2
  <2> DEFINE u == Fired(run[j].state, run[j].now, TRUE)
  <2>4. u \in State /\ u.status = "firing" /\ u.lastNotified = run[j].now
    BY FiredTyped
  <2>5. run' = [run EXCEPT ![j].phase = "storing", ![j].state = u]
    BY <1>9 DEF Announce
  <2> HIDE DEF u
  <2>6. OthersRun(j) /\ KeepsJob(j) /\ run'[j].phase = "storing" /\ run'[j].state = u
    BY <2>4, <2>5, StoresFields
  <2>7. Recalls(firedAt'[a], run'[j].state)
    BY <2>2, <2>4, <2>6 DEF Recalls
  <2>8. QED
    BY <1>3, <2>1, <2>2, <2>3, <2>6, <2>7 DEF RunAt, Storing
<1>10. ASSUME StoreRead(j) PROVE (Recalled /\ NotifiedOnce)'
  <2>1. Live(j) /\ a \in Alerts /\ UNCHANGED <<coll, firedAt, repeated>> /\ Recalls(firedAt[a], run[j].state)
    BY <1>10 DEF StoreRead, RunAt, Live, historyVars, Recalled, Found, a
  <2>2. run' = [run EXCEPT ![j].phase = "writing", ![j].seen = coll]
    BY <1>10, <2>1 DEF StoreRead, HandRules, Untouched, a
  <2>3. OthersRun(j) /\ KeepsJob(j) /\ run'[j].phase = "writing" /\ run'[j].state = run[j].state
    BY <2>2, WritingFields DEF KeepsFinding
  <2>4. Recalls(firedAt'[a], run'[j].state)
    BY <2>1, <2>3 DEF Recalls
  <2>5. QED
    BY <1>3, <1>5, <2>1, <2>3, <2>4 DEF RunAt, Storing
<1>11. ASSUME StoreWrite(j) PROVE (Recalled /\ NotifiedOnce)'
  <2>1. /\ a \in Alerts /\ Live(j) /\ Found(j) /\ Recalls(firedAt[a], run[j].state)
        /\ \A b \in Alerts : coll'[b].state = IF b = a THEN run[j].state ELSE coll[b].state
    BY <1>11, RunStored DEF Recalled, a
  <2>2. OthersRun(j) /\ run'[j].phase = "over" /\ UNCHANGED <<firedAt, repeated>>
    BY <1>11, EndsFields DEF StoreWrite, historyVars
  <2>3. Recalls(firedAt'[a], coll'[a].state) /\ ~Found(j)' /\ ~Live(j)' /\ ~RunAt(j, "announcing")'
    BY <2>1, <2>2 DEF Recalls, Found, Live, RunAt
  <2>4. QED
    BY <1>3, <1>5, <2>1, <2>2, <2>3
<1>12. ~RunBreaks(j) /\ ~AnnounceFails(j)
  BY DEF RunBreaks, AnnounceFails, NothingFails
<1>13. QED
  BY <1>6, <1>7, <1>8, <1>9, <1>10, <1>11, <1>12 DEF JobStep

(* While a condition keeps holding its notices are a cooldown apart, in the regime NothingFails. *)
THEOREM NotifiedOnceHolds == ASSUME AlertsAssumption, NothingFails PROVE Spec => []NotifiedOnce
<1>1. ASSUME Init PROVE Recalled /\ NotifiedOnce
  BY <1>1, BlankTyped DEF Init, Recalled, Recalls, Found, RunAt, NoRun, NotifiedOnce
<1>2. ASSUME NoticeInv, HandInv', Next PROVE (Recalled /\ NotifiedOnce)'
  <2>1. CASE ClockTick
    BY <1>2, <2>1, RecalledStays DEF ClockTick, historyVars, NoticeInv, HandInv, LeaderInv
  <2>2. CASE ~ClockTick
    <3>1. InTime
      BY DEF NothingFails
    <3>2. QED
      BY <1>2, <2>2, <3>1, PassRecalls, JobRecalls, NobodyCalls, NextSteps DEF NoticeInv
  <2>3. QED
    BY <2>1, <2>2
<1>3. ASSUME NoticeInv, UNCHANGED vars PROVE (Recalled /\ NotifiedOnce)'
  BY <1>3, RecalledStays DEF vars, historyVars, NoticeInv, HandInv, LeaderInv
<1>4. Spec => []HandInv
  BY HandHolds DEF NothingFails
<1>5. HandInv /\ Recalled /\ NotifiedOnce <=> NoticeInv
  BY DEF NoticeInv
<1>6. QED
  BY <1>1, <1>2, <1>3, <1>4, <1>5, PTL DEF Spec
=============================================================================
