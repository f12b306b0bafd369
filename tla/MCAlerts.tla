------------------------------ MODULE MCAlerts ------------------------------
(***************************************************************************)
(* Alerts under three regimes, chosen at the start: "stops", where         *)
(* processes stop at any point and an alert is marked scheduled whenever   *)
(* its scheduler comes to it; "pressed", the same with one scheduler and   *)
(* people who press "Run now"; "orderly", where nothing fails, an alert is *)
(* marked before a worker takes its job, and the clock runs longer.        *)
(* AlertsProofs, instantiated for Alerts, adds its theorems and no state.  *)
(***************************************************************************)
EXTENDS Integers, TLC

CONSTANTS
  a1, s1, s2, j1,               \* of "stops" and "pressed"
  a2, a3, s3, j2, j3, j4, j5,   \* of "orderly"
  NULL

VARIABLES
  regime,
  coll, lease, chore, tick, edit, press, phase, inFlight, told, run, clock,
  edits, handedAt, hurried, firedAt, repeated, announced, choreTimes

Stops == INSTANCE AlertsProofs WITH
  Alerts <- {a1}, Schedulers <- {s1, s2}, Jobs <- {j1},
  Interval <- 1, Cooldown <- 2, LeaseTerm <- 1, ChoreEvery <- 1,
  MaxClock <- 3, MaxLag <- 1, MaxJob <- 1, MaxEdits <- 1,
  Overlap <- FALSE, MarkedFirst <- FALSE, RunsNow <- FALSE, Breaks <- {"scheduler", "worker", "channel"}

Pressed == INSTANCE AlertsProofs WITH
  Alerts <- {a1}, Schedulers <- {s1}, Jobs <- {j1},
  Interval <- 1, Cooldown <- 2, LeaseTerm <- 1, ChoreEvery <- 1,
  MaxClock <- 2, MaxLag <- 1, MaxJob <- 1, MaxEdits <- 1,
  Overlap <- FALSE, MarkedFirst <- FALSE, RunsNow <- TRUE, Breaks <- {"scheduler", "worker", "channel"}

Orderly == INSTANCE AlertsProofs WITH
  Alerts <- {a2, a3}, Schedulers <- {s3}, Jobs <- {j2, j3, j4, j5},
  Interval <- 3, Cooldown <- 4, LeaseTerm <- 2, ChoreEvery <- 3,
  MaxClock <- 5, MaxLag <- 1, MaxJob <- 1, MaxEdits <- 0,
  Overlap <- FALSE, MarkedFirst <- TRUE, RunsNow <- FALSE, Breaks <- {}

ASSUME RegimesAssumption == Stops!AlertsAssumption /\ Pressed!AlertsAssumption /\ Orderly!AlertsAssumption

vars == <<regime, coll, lease, chore, tick, edit, press, phase, inFlight, told, run, clock,
          edits, handedAt, hurried, firedAt, repeated, announced, choreTimes>>

AlertsInit ==
  \/ regime = "stops" /\ Stops!Init
  \/ regime = "pressed" /\ Pressed!Init
  \/ regime = "orderly" /\ Orderly!Init

StopsMove == regime = "stops" /\ Stops!Next /\ UNCHANGED regime
PressedMove == regime = "pressed" /\ Pressed!Next /\ UNCHANGED regime
OrderlyMove == regime = "orderly" /\ Orderly!Next /\ UNCHANGED regime

AlertsNext == StopsMove \/ PressedMove \/ OrderlyMove

AlertsSpec == AlertsInit /\ [][AlertsNext]_vars

Alike == Permutations({s1, s2})

-----------------------------------------------------------------------------
(* The properties of Alerts, each under the regime that puts it to the test. *)

(* Only one scheduler at a time believes the lease is its own, and a chore of  *)
(* the leader is due once in its interval, whoever stops holding the lease.    *)
LeaseKept == regime = "stops" => Stops!OneLeader /\ Stops!ChoreOnce

(* A firing that was stored is announced: whatever stops between the write and *)
(* the announcement, the alert does not settle as firing with nobody told.     *)
FiringAnnounced ==
  (regime = "stops" => Stops!FiringAnnounced) /\ (regime = "pressed" => Pressed!FiringAnnounced)

(* What a person stored of an alert survives the scheduler's and the worker's  *)
(* writes of the same collection.                                              *)
EditsKept == (regime = "stops" => Stops!EditsKept) /\ (regime = "pressed" => Pressed!EditsKept)

(* While nothing fails, an alert is handed to the workers once in its interval *)
(* and its notification is sent once in its cooldown.                          *)
OncePerPeriod == regime = "orderly" => Orderly!NotHandedTwice /\ Orderly!NotifiedOnce
=============================================================================
