------------------------------- MODULE Alerts -------------------------------
(***************************************************************************)
(* Alerts: the scheduler of every studio replica (alerts/scheduler.ts), of *)
(* which the store's lease lets one lead (leases.ts), the queue it hands   *)
(* due alerts to (OneShotQueue), the runs that evaluate and notify         *)
(* (alerts/run.ts), and the people who edit alerts (alerts/store.ts).      *)
(* All alerts are one collection: every write reads it whole, changes one  *)
(* alert and writes it whole, two awaits apart.                            *)
(***************************************************************************)
EXTENDS Integers, FiniteSets

CONSTANTS
  Alerts, Schedulers, Jobs,
  Interval,    \* everyMinutes
  Cooldown,    \* cooldownMinutes
  LeaseTerm,   \* LEASE_TICKS * tickMs
  ChoreEvery,  \* CHORE_EVERY_MS
  MaxClock,    \* bound: how long the model runs
  MaxLag,      \* bound: how long a pass of a scheduler takes
  MaxJob,      \* bound: how long a job waits and runs
  MaxEdits,    \* bound: how often an alert is edited
  Overlap,     \* TRUE: reads and writes of the collection interleave
  MarkedFirst, \* TRUE: an alert is marked scheduled before a worker takes its job
  RunsNow,     \* TRUE: people press "Run now"
  Breaks,      \* what may fail: a "scheduler" or a "worker" stops or is refused, or a "channel" is not found
  NULL

(* What the values of the constants are. *)
AlertsAssumption ==
  /\ Interval \in Nat \ {0} /\ Cooldown \in Nat /\ LeaseTerm \in Nat \ {0} /\ ChoreEvery \in Nat \ {0}
  /\ MaxClock \in Nat /\ MaxLag \in Nat /\ MaxJob \in Nat /\ MaxEdits \in Nat
  /\ Overlap \in BOOLEAN /\ MarkedFirst \in BOOLEAN /\ RunsNow \in BOOLEAN
  /\ Breaks \subseteq {"scheduler", "worker", "channel"}
  /\ NULL \notin Alerts \cup Schedulers

VARIABLES
  coll,       \* the collection of alerts
  lease,      \* the lease `alerts-scheduler`: its holder and its end
  chore,      \* when the cooldown `chores:audit-partitions` ends
  tick,       \* the pass of each scheduler
  edit,       \* the editing call in flight
  press,      \* the "Run now" call in flight
  phase, inFlight, told,  \* OneShotQueue
  run,        \* the job of each id: what it runs, and how far it is
  clock,
  edits,      \* history: edits stored so far, per alert
  handedAt,   \* history: the instant of the pass that last handed an alert over
  hurried,    \* history: the alerts handed over twice within an interval
  firedAt,    \* history: the last firing notice since which every run found the condition to hold
  repeated,   \* history: the alerts whose notice was repeated within the cooldown
  announced,  \* history: the firing notices sent: of which alert, at which instant
  choreTimes  \* history: the instants of the passes that handed the chore over

queueVars == <<phase, inFlight, told>>
historyVars == <<edits, handedAt, hurried, firedAt, repeated, announced, choreTimes>>
vars == <<coll, lease, chore, tick, edit, press, queueVars, run, clock, historyVars>>

Queue == INSTANCE OneShotQueue WITH Jobs <- Jobs

-----------------------------------------------------------------------------
Never == 0 - Interval - Cooldown - ChoreEvery - 1
Instants == Never .. (MaxClock + LeaseTerm + ChoreEvery)

State == [status: {"unknown", "ok", "firing", "error"},
          lastRun: Instants, lastScheduled: Instants, lastNotified: Instants]
NewState == [status |-> "unknown", lastRun |-> Never, lastScheduled |-> Never, lastNotified |-> Never]

(* An alert: its definition, by the number of the edit that wrote it, and its state. *)
Alert == [there: BOOLEAN, enabled: BOOLEAN, edition: 0..MaxEdits, state: State]
Collection == [Alerts -> Alert]
Blank == [a \in Alerts |-> [there |-> TRUE, enabled |-> TRUE, edition |-> 0, state |-> NewState]]

Tick == [phase: {"idle", "asking", "chores", "chore", "listing", "handing", "marking", "writing"},
         now: (0 - 1)..MaxClock, due: SUBSET Alerts, alert: Alerts \cup {NULL}, listed: Collection, seen: Collection]
Run == [phase: {"none", "queued", "finding", "running", "announcing", "storing", "writing", "over"},
        alert: Alerts \cup {NULL}, born: 0..MaxClock, now: 0..MaxClock, state: State, seen: Collection]
Edit == [phase: {"idle", "open"}, seen: Collection]
Press == [phase: {"idle", "found", "marking", "writing"},
          alert: Alerts \cup {NULL}, since: 0..MaxClock, state: State, seen: Collection]

IdleTick == [phase |-> "idle", now |-> 0 - 1, due |-> {}, alert |-> NULL, listed |-> Blank, seen |-> Blank]
NoRun == [phase |-> "none", alert |-> NULL, born |-> 0, now |-> 0, state |-> NewState, seen |-> Blank]
IdleEdit == [phase |-> "idle", seen |-> Blank]
IdlePress == [phase |-> "idle", alert |-> NULL, since |-> 0, state |-> NewState, seen |-> Blank]

TypeOK ==
  /\ coll \in Collection
  /\ lease \in [holder: Schedulers \cup {NULL}, until: Instants]
  /\ chore \in Instants
  /\ tick \in [Schedulers -> Tick] /\ run \in [Jobs -> Run] /\ edit \in Edit /\ press \in Press
  /\ \A s \in Schedulers : tick[s].phase \in {"handing", "marking", "writing"} => tick[s].due # {}
  /\ \A s \in Schedulers : tick[s].phase \in {"marking", "writing"} <=> tick[s].alert # NULL
  /\ \A j \in Jobs : phase[j] = "none" <=> run[j].phase = "none"
  /\ clock \in 0..MaxClock

Init ==
  /\ coll = Blank
  /\ lease = [holder |-> NULL, until |-> Never]
  /\ chore = Never
  /\ tick = [s \in Schedulers |-> IdleTick]
  /\ edit = IdleEdit /\ press = IdlePress
  /\ Queue!Init
  /\ run = [j \in Jobs |-> NoRun]
  /\ clock = 0
  /\ edits = [a \in Alerts |-> 0]
  /\ handedAt = [a \in Alerts |-> Never] /\ hurried = {}
  /\ firedAt = [a \in Alerts |-> Never] /\ repeated = {} /\ announced = {}
  /\ choreTimes = {}

(* Who has read the collection to write it back. *)
Writing == {s \in Schedulers : tick[s].phase = "writing"} \cup {j \in Jobs : run[j].phase = "writing"}
MayRead == Overlap \/ (Writing = {} /\ edit.phase = "idle" /\ press.phase # "writing")

(* A slip: the alert is written back with the definition the caller held. *)
WithStateOf(seen, a, state) == [seen EXCEPT ![a].state = state, ![a].edition = 0]

(* updateAlertState writes the collection as it was read, with one state changed. *)
WithState(seen, a, state) == [seen EXCEPT ![a].state = state]

-----------------------------------------------------------------------------
(* tickOnce: the pass reads the clock once; one pass of a process at a time, and one per tick. *)

At(s, p) == tick[s].phase = p
Moves(s, p) == tick' = [tick EXCEPT ![s].phase = p]
Rests(s) == tick' = [tick EXCEPT ![s] = [IdleTick EXCEPT !.now = tick[s].now]]

TickStart(s) ==
  /\ At(s, "idle") /\ tick[s].now < clock
  /\ tick' = [tick EXCEPT ![s].phase = "asking", ![s].now = clock]
  /\ UNCHANGED <<coll, lease, chore, edit, press, queueVars, run, clock, historyVars>>

(* A slip: the end of the lease is compared the wrong way round. *)
GrantsWhileHeld(s) == lease.holder \in {NULL, s} \/ lease.until > tick[s].now
Grants(s) == lease.holder \in {NULL, s} \/ lease.until < tick[s].now

AskLease(s) ==
  /\ At(s, "asking")
  /\ IF Grants(s)
     THEN Moves(s, "chores") /\ lease' = [holder |-> s, until |-> tick[s].now + LeaseTerm]
     ELSE Rests(s) /\ UNCHANGED lease
  /\ UNCHANGED <<coll, chore, edit, press, queueVars, run, clock, historyVars>>

(* A slip: the cooldown is asked for under the leader's own name, which renews it. *)
OnceForTheLeader(s) == lease.holder = s
OnceWithin(s) == chore < tick[s].now

Chores(s) ==
  /\ At(s, "chores")
  /\ IF OnceWithin(s)
     THEN Moves(s, "chore") /\ chore' = tick[s].now + ChoreEvery
     ELSE Moves(s, "listing") /\ UNCHANGED chore
  /\ UNCHANGED <<coll, lease, edit, press, queueVars, run, clock, historyVars>>

EnqueueChore(s) ==
  /\ At(s, "chore")
  /\ Moves(s, "listing")
  /\ choreTimes' = choreTimes \cup {tick[s].now}
  /\ UNCHANGED <<coll, lease, chore, edit, press, queueVars, run, clock, edits, handedAt, hurried, firedAt, repeated, announced>>

Larger(x, y) == IF x > y THEN x ELSE y

Last(a) == Larger(coll[a].state.lastRun, coll[a].state.lastScheduled)

DueAlerts(now) == {a \in Alerts : coll[a].there /\ coll[a].enabled /\ Last(a) + Interval <= now}

List(s) ==
  /\ At(s, "listing")
  /\ LET due == DueAlerts(tick[s].now)
     IN IF due = {} THEN Rests(s)
        ELSE tick' = [tick EXCEPT ![s].phase = "handing", ![s].due = due, ![s].listed = coll]
  /\ UNCHANGED <<coll, lease, chore, edit, press, queueVars, run, clock, historyVars>>

(* Ids are drawn at random: any that was not drawn before stands for all. *)
NewJob(j, a) ==
  /\ Queue!Submit(j) /\ j = CHOOSE i \in Jobs : phase[i] = "none"
  /\ run' = [run EXCEPT ![j] = [NoRun EXCEPT !.phase = "queued", !.alert = a, !.born = clock]]

(* One job per due alert; the order they were listed in is left open. *)
HandOver(s, j) ==
  /\ At(s, "handing")
  /\ \E a \in tick[s].due :
       /\ NewJob(j, a)
       /\ tick' = [tick EXCEPT ![s].phase = "marking", ![s].alert = a]
       /\ handedAt' = [handedAt EXCEPT ![a] = tick[s].now]
       /\ hurried' = IF tick[s].now < handedAt[a] + Interval THEN hurried \cup {a} ELSE hurried
  /\ UNCHANGED <<coll, lease, chore, edit, press, clock, edits, firedAt, repeated, announced, choreTimes>>

NextDue(s) ==
  LET rest == tick[s].due \ {tick[s].alert}
  IN IF rest = {} THEN Rests(s)
     ELSE tick' = [tick EXCEPT ![s].phase = "handing", ![s].due = rest, ![s].alert = NULL, ![s].seen = Blank]

MarkRead(s) ==
  /\ At(s, "marking")
  /\ MayRead
  /\ IF coll[tick[s].alert].there
     THEN tick' = [tick EXCEPT ![s].phase = "writing", ![s].seen = coll]
     ELSE NextDue(s)
  /\ UNCHANGED <<coll, lease, chore, edit, press, queueVars, run, clock, historyVars>>

(* A slip: every mark writes back the collection the pass listed. *)
MarkBaseListed(s) == tick[s].listed
MarkBase(s) == tick[s].seen

(* The state is the one the pass listed, with lastScheduledAt: what a run stored since is undone. *)
MarkWrite(s) ==
  /\ At(s, "writing")
  /\ LET a == tick[s].alert
     IN coll' = WithState(MarkBase(s), a, [tick[s].listed[a].state EXCEPT !.lastScheduled = tick[s].now])
  /\ NextDue(s)
  /\ UNCHANGED <<lease, chore, edit, press, queueVars, run, clock, historyVars>>

(* The process stops, or the store refuses a call and the pass is caught. *)
TickBreaks(s) ==
  /\ "scheduler" \in Breaks
  /\ ~At(s, "idle")
  /\ Rests(s)
  /\ UNCHANGED <<coll, lease, chore, edit, press, queueVars, run, clock, historyVars>>

-----------------------------------------------------------------------------
(* The worker: findAlert, then runAlert. *)

RunAt(j, p) == run[j].phase = p
Ends(j) == run' = [run EXCEPT ![j] = [NoRun EXCEPT !.phase = "over"]]

Take(j) ==
  /\ MarkedFirst => \A s \in Schedulers : tick[s].alert # run[j].alert
  /\ MarkedFirst => press.alert # run[j].alert
  /\ Queue!Take(j)
  /\ run' = [run EXCEPT ![j].phase = "finding"]
  /\ UNCHANGED <<coll, lease, chore, tick, edit, press, clock, historyVars>>

Find(j) ==
  /\ RunAt(j, "finding")
  /\ IF coll[run[j].alert].there
     THEN /\ run' = [run EXCEPT ![j].phase = "running", ![j].now = clock, ![j].state = coll[run[j].alert].state]
          /\ UNCHANGED queueVars
     ELSE Ends(j) /\ Queue!Release({j})
  /\ UNCHANGED <<coll, lease, chore, tick, edit, press, clock, historyVars>>

(* A slip: every run that holds notifies. *)
NotifiesEachTime(state, now) == TRUE
Notifies(state, now) == state.status # "firing" \/ now - state.lastNotified >= Cooldown

(* A slip: the state is stored first, and the channels are told after it. *)
StoresFirst(notify) == "storing"
NextStep(notify) == IF notify THEN "announcing" ELSE "storing"

Fired(state, now, notify) ==
  [state EXCEPT !.status = "firing", !.lastRun = now, !.lastNotified = IF notify THEN now ELSE @]
NotFired(state, now, status) == [state EXCEPT !.status = status, !.lastRun = now]

(* transition when the condition holds. *)
Holds(j) ==
  LET st == run[j].state
      notify == Notifies(st, run[j].now)
      step == NextStep(notify)
  IN run' = [run EXCEPT ![j].phase = step,
                        ![j].state = IF step = "announcing" THEN @ ELSE Fired(st, run[j].now, notify)]

(* The condition does not hold, or the owner lost access or the read failed. *)
HoldsNot(j) ==
  /\ \E status \in {"ok", "error"} :
       run' = [run EXCEPT ![j].phase = "storing", ![j].state = NotFired(@, run[j].now, status)]
  /\ firedAt' = [firedAt EXCEPT ![run[j].alert] = Never]

Evaluate(j) ==
  /\ RunAt(j, "running")
  /\ \/ Holds(j) /\ UNCHANGED firedAt
     \/ HoldsNot(j)
  /\ UNCHANGED <<coll, lease, chore, tick, edit, press, queueVars, clock, edits, handedAt, hurried, repeated, announced, choreTimes>>

Tells(j) ==
  LET a == run[j].alert
  IN /\ firedAt' = [firedAt EXCEPT ![a] = run[j].now]
     /\ announced' = announced \cup {<<a, run[j].now>>}
     /\ repeated' = IF run[j].now < firedAt[a] + Cooldown THEN repeated \cup {a} ELSE repeated

(* The channels are told before the state is stored. *)
Announce(j) ==
  /\ RunAt(j, "announcing")
  /\ Tells(j)
  /\ run' = [run EXCEPT ![j].phase = "storing", ![j].state = Fired(@, run[j].now, TRUE)]
  /\ UNCHANGED <<coll, lease, chore, tick, edit, press, queueVars, clock, edits, handedAt, hurried, choreTimes>>

(* The look-up of a channel is refused: those before it were told, and the run is in error. *)
AnnounceFails(j) ==
  /\ "channel" \in Breaks
  /\ RunAt(j, "announcing")
  /\ Tells(j) \/ UNCHANGED <<firedAt, announced, repeated>>
  /\ run' = [run EXCEPT ![j].phase = "storing", ![j].state = NotFired(@, run[j].now, "error")]
  /\ UNCHANGED <<coll, lease, chore, tick, edit, press, queueVars, clock, edits, handedAt, hurried, choreTimes>>

StoreRead(j) ==
  /\ RunAt(j, "storing")
  /\ MayRead
  /\ IF coll[run[j].alert].there
     THEN run' = [run EXCEPT ![j].phase = "writing", ![j].seen = coll] /\ UNCHANGED queueVars
     ELSE Ends(j) /\ Queue!Release({j})
  /\ UNCHANGED <<coll, lease, chore, tick, edit, press, clock, historyVars>>

StoreWrite(j) ==
  /\ RunAt(j, "writing")
  /\ coll' = WithState(run[j].seen, run[j].alert, run[j].state)
  /\ Ends(j) /\ Queue!Release({j})
  /\ UNCHANGED <<lease, chore, tick, edit, press, clock, historyVars>>

(* The worker dies, or the handler's call is refused: alerts have no lost handler and one attempt. *)
RunBreaks(j) ==
  /\ "worker" \in Breaks
  /\ Queue!Release({j})
  /\ Ends(j)
  /\ UNCHANGED <<coll, lease, chore, tick, edit, press, clock, historyVars>>

-----------------------------------------------------------------------------
(* saveAlert and deleteAlert: by an alert's owner or an administrator, which is left out. *)

EditRead ==
  /\ edit.phase = "idle" /\ MayRead
  /\ \E a \in Alerts : edits[a] < MaxEdits
  /\ edit' = [phase |-> "open", seen |-> coll]
  /\ UNCHANGED <<coll, lease, chore, tick, press, queueVars, run, clock, historyVars>>

Writes(a, alert) ==
  /\ coll' = [edit.seen EXCEPT ![a] = alert]
  /\ edits' = [edits EXCEPT ![a] = @ + 1]
  /\ edit' = IdleEdit
  /\ UNCHANGED <<lease, chore, tick, press, queueVars, run, clock, hurried, repeated, announced, choreTimes>>

(* A replaced alert keeps the state that was read; a new one starts afresh. *)
Save(a) ==
  /\ edit.phase = "open" /\ edits[a] < MaxEdits
  /\ LET old == edit.seen[a]
         state == IF old.there THEN old.state ELSE NewState
     IN /\ \E on \in BOOLEAN :
             Writes(a, [there |-> TRUE, enabled |-> on, edition |-> edits[a] + 1, state |-> state])
        /\ handedAt' = IF old.there THEN handedAt ELSE [handedAt EXCEPT ![a] = Never]
        /\ firedAt' = IF old.there THEN firedAt ELSE [firedAt EXCEPT ![a] = Never]

Delete(a) ==
  /\ edit.phase = "open" /\ edits[a] < MaxEdits
  /\ edit.seen[a].there
  /\ Writes(a, [there |-> FALSE, enabled |-> FALSE, edition |-> edits[a] + 1, state |-> NewState])
  /\ UNCHANGED <<handedAt, firedAt>>

(* "Run now": the alert is found, a job is submitted, and the state that was found is marked. *)

PressRunNow(a) ==
  /\ RunsNow
  /\ press.phase = "idle" /\ coll[a].there
  /\ press' = [IdlePress EXCEPT !.phase = "found", !.alert = a, !.since = clock, !.state = coll[a].state]
  /\ UNCHANGED <<coll, lease, chore, tick, edit, queueVars, run, clock, historyVars>>

PressSubmit(j) ==
  /\ press.phase = "found"
  /\ NewJob(j, press.alert)
  /\ press' = [press EXCEPT !.phase = "marking"]
  /\ UNCHANGED <<coll, lease, chore, tick, edit, clock, historyVars>>

PressRead ==
  /\ press.phase = "marking" /\ MayRead
  /\ press' = IF coll[press.alert].there THEN [press EXCEPT !.phase = "writing", !.seen = coll] ELSE IdlePress
  /\ UNCHANGED <<coll, lease, chore, tick, edit, queueVars, run, clock, historyVars>>

(* The wait for the run that follows only reads. *)
PressWrite ==
  /\ press.phase = "writing"
  /\ coll' = WithState(press.seen, press.alert, [press.state EXCEPT !.lastScheduled = press.since])
  /\ press' = IdlePress
  /\ UNCHANGED <<lease, chore, tick, edit, queueVars, run, clock, historyVars>>

(* A pass and a job take no longer than their bounds. *)
ClockTick ==
  /\ clock < MaxClock
  /\ \A s \in Schedulers : ~At(s, "idle") => clock - tick[s].now < MaxLag
  /\ \A j \in Jobs : run[j].phase \notin {"none", "over"} => clock - run[j].born < MaxJob
  /\ press.phase # "idle" => clock - press.since < MaxLag
  /\ clock' = clock + 1
  /\ UNCHANGED <<coll, lease, chore, tick, edit, press, queueVars, run, historyVars>>

Next ==
  \/ \E s \in Schedulers :
       \/ TickStart(s) \/ AskLease(s) \/ Chores(s) \/ EnqueueChore(s) \/ List(s)
       \/ MarkRead(s) \/ MarkWrite(s) \/ TickBreaks(s)
       \/ \E j \in Jobs : HandOver(s, j)
  \/ \E j \in Jobs :
       \/ Take(j) \/ Find(j) \/ Evaluate(j) \/ Announce(j) \/ AnnounceFails(j) \/ StoreRead(j) \/ StoreWrite(j) \/ RunBreaks(j)
       \/ PressSubmit(j)
  \/ EditRead \/ PressRead \/ PressWrite
  \/ \E a \in Alerts : Save(a) \/ Delete(a) \/ PressRunNow(a)
  \/ ClockTick

Spec == Init /\ [][Next]_vars

-----------------------------------------------------------------------------
(* "One studio replica hands alerts over at a time." *)
OneLeader ==
  Cardinality({s \in Schedulers : tick[s].phase \in {"chores", "chore", "listing", "handing", "marking", "writing"}}) <= 1

(* "So a queued run is not handed over twice": an alert's hand-overs are an interval apart. *)
NotHandedTwice == hurried = {}

(* While a condition keeps holding, the channels are told once per cooldown. *)
NotifiedOnce == repeated = {}

(* A recorded notice was sent: an alert is never stored as firing before the channels were told. *)
FiringAnnounced ==
  \A a \in Alerts :
    /\ coll[a].state.lastNotified # Never => <<a, coll[a].state.lastNotified>> \in announced
    /\ coll[a].state.status = "firing" => coll[a].state.lastNotified # Never

(* "Never the definition": an alert is as its last edit left it, deleted included. *)
EditsKept == \A a \in Alerts : coll[a].edition = edits[a]

(* "Once a day across every replica": the instants of the chore's hand-overs are more than its period apart. *)
ChoreOnce == \A x, y \in choreTimes : x # y => (x - y > ChoreEvery \/ y - x > ChoreEvery)
=============================================================================
