--------------------------- MODULE MCAlertsProofs ---------------------------
(***************************************************************************)
(* The theorems of AlertsProofs, brought to the three regimes of MCAlerts: *)
(* each regime's constants meet what its theorems assume of them, and a    *)
(* behaviour of MCAlerts is one of the regime it starts in.                *)
(***************************************************************************)
EXTENDS MCAlerts, TLAPS

LEMMA AlertsStandStill ==
  UNCHANGED vars => Stops!vars' = Stops!vars /\ Pressed!vars' = Pressed!vars /\ Orderly!vars' = Orderly!vars
<1>1. UNCHANGED vars => Stops!vars' = Stops!vars
  BY DEF vars, Stops!vars, Stops!queueVars, Stops!historyVars
<1>2. UNCHANGED vars => Pressed!vars' = Pressed!vars
  BY DEF vars, Pressed!vars, Pressed!queueVars, Pressed!historyVars
<1>3. UNCHANGED vars => Orderly!vars' = Orderly!vars
  BY DEF vars, Orderly!vars, Orderly!queueVars, Orderly!historyVars
<1>4. QED
  BY <1>1, <1>2, <1>3

LEMMA StopsRuns == AlertsSpec /\ regime = "stops" => Stops!Spec
<1>1. AlertsInit /\ regime = "stops" => Stops!Init
  BY DEF AlertsInit
<1>2. regime = "stops" /\ [AlertsNext]_vars => (regime = "stops")'
  BY DEF AlertsNext, StopsMove, PressedMove, OrderlyMove, vars
<1>3. regime = "stops" /\ [AlertsNext]_vars => [Stops!Next]_(Stops!vars)
  BY AlertsStandStill DEF AlertsNext, StopsMove, PressedMove, OrderlyMove
<1>4. QED
  BY <1>1, <1>2, <1>3, PTL DEF AlertsSpec, Stops!Spec

LEMMA PressedRuns == AlertsSpec /\ regime = "pressed" => Pressed!Spec
<1>1. AlertsInit /\ regime = "pressed" => Pressed!Init
  BY DEF AlertsInit
<1>2. regime = "pressed" /\ [AlertsNext]_vars => (regime = "pressed")'
  BY DEF AlertsNext, StopsMove, PressedMove, OrderlyMove, vars
<1>3. regime = "pressed" /\ [AlertsNext]_vars => [Pressed!Next]_(Pressed!vars)
  BY AlertsStandStill DEF AlertsNext, StopsMove, PressedMove, OrderlyMove
<1>4. QED
  BY <1>1, <1>2, <1>3, PTL DEF AlertsSpec, Pressed!Spec

LEMMA OrderlyRuns == AlertsSpec /\ regime = "orderly" => Orderly!Spec
<1>1. AlertsInit /\ regime = "orderly" => Orderly!Init
  BY DEF AlertsInit
<1>2. regime = "orderly" /\ [AlertsNext]_vars => (regime = "orderly")'
  BY DEF AlertsNext, StopsMove, PressedMove, OrderlyMove, vars
<1>3. regime = "orderly" /\ [AlertsNext]_vars => [Orderly!Next]_(Orderly!vars)
  BY AlertsStandStill DEF AlertsNext, StopsMove, PressedMove, OrderlyMove
<1>4. QED
  BY <1>1, <1>2, <1>3, PTL DEF AlertsSpec, Orderly!Spec

LEMMA RegimeStays ==
  /\ AlertsSpec => [](regime = "stops") \/ []~(regime = "stops")
  /\ AlertsSpec => [](regime = "pressed") \/ []~(regime = "pressed")
  /\ AlertsSpec => [](regime = "orderly") \/ []~(regime = "orderly")
<1>1. [AlertsNext]_vars => regime' = regime
  BY DEF AlertsNext, StopsMove, PressedMove, OrderlyMove, vars
<1>2. [AlertsNext]_vars => ((regime = "stops")' <=> regime = "stops")
  BY <1>1
<1>3. [AlertsNext]_vars => ((regime = "pressed")' <=> regime = "pressed")
  BY <1>1
<1>4. [AlertsNext]_vars => ((regime = "orderly")' <=> regime = "orderly")
  BY <1>1
<1>5. QED
  BY <1>2, <1>3, <1>4, PTL DEF AlertsSpec

-----------------------------------------------------------------------------
(* Where a scheduler's write takes no longer than a lease's term, one scheduler leads, *)
(* and a chore of the leader is done once in its interval whoever stops.               *)
THEOREM LeaseKeptHolds == AlertsSpec => []LeaseKept
<1>1. Stops!Spec => []Stops!OneLeader
  <2>1. 1 <= 1
    OBVIOUS
  <2>2. QED
    BY <2>1, RegimesAssumption, Stops!OneLeaderHolds, PTL
<1>2. Stops!Spec => []Stops!ChoreOnce
  BY RegimesAssumption, Stops!ChoreOnceHolds, PTL
<1>3. QED
  BY <1>1, <1>2, StopsRuns, RegimeStays, PTL DEF LeaseKept

(* A stored firing was announced, whatever stops and whoever presses "Run now". *)
THEOREM RegimesAnnounce == AlertsSpec => []FiringAnnounced
<1>1. Stops!Spec => []Stops!FiringAnnounced
  BY RegimesAssumption, Stops!FiringAnnouncedHolds, PTL
<1>2. Pressed!Spec => []Pressed!FiringAnnounced
  BY RegimesAssumption, Pressed!FiringAnnouncedHolds, PTL
<1>3. QED
  BY <1>1, <1>2, StopsRuns, PressedRuns, RegimeStays, PTL DEF FiringAnnounced

(* Where the scheduler's and the worker's writes do not overlap a person's, the edit stays. *)
THEOREM RegimesKeepEdits == AlertsSpec => []EditsKept
<1>1. Stops!Spec => []Stops!EditsKept
  BY RegimesAssumption, Stops!EditsKeptHolds, PTL
<1>2. Pressed!Spec => []Pressed!EditsKept
  BY RegimesAssumption, Pressed!EditsKeptHolds, PTL
<1>3. QED
  BY <1>1, <1>2, StopsRuns, PressedRuns, RegimeStays, PTL DEF EditsKept

(* While nothing fails, an alert is handed over once in its interval and told of once in its cooldown. *)
THEOREM OncePerPeriodHolds == AlertsSpec => []OncePerPeriod
<1>1. Orderly!NothingFails
  BY DEF Orderly!NothingFails, Orderly!InTime
<1>2. Orderly!InTime
  BY <1>1 DEF Orderly!NothingFails
<1>3. Orderly!Spec => []Orderly!NotHandedTwice
  BY <1>2, RegimesAssumption, Orderly!NotHandedTwiceHolds, PTL
<1>4. Orderly!Spec => []Orderly!NotifiedOnce
  BY <1>1, RegimesAssumption, Orderly!NotifiedOnceHolds, PTL
<1>5. QED
  BY <1>3, <1>4, OrderlyRuns, RegimeStays, PTL DEF OncePerPeriod
=============================================================================
