------------------------ MODULE HostAlarmClockProofs ------------------------
(***************************************************************************)
(* Proofs about HostAlarmClock, for every value of its constants: however  *)
(* many sessions, deliveries at once and faults.                           *)
(***************************************************************************)
EXTENDS HostAlarmClock, FiniteSetTheorems, WellFoundedInduction, TLAPS

(* The inductive invariant: the bound needs to know nothing of times.      *)
ClockInv == TypeOK /\ BoundHolds

-----------------------------------------------------------------------------
(* Every delay that the clock arms is within the horizon.                  *)
LEMMA HorizonBounds ==
    /\ Horizon \in Nat /\ Never \in Nat /\ Never > Horizon
    /\ MaxDelay <= Horizon /\ Lease + Blind <= Horizon /\ Backoff <= Horizon
  <1> DEFINE S == {MaxDelay, Lease + Blind, Backoff}
  <1>1. MaxDelay \in Nat /\ Lease \in Nat /\ Blind \in Nat /\ Backoff \in Nat
    BY ClockAssumption
  <1>2. \E x \in S : \A y \in S : x >= y
    BY <1>1
  <1>3. Horizon \in S /\ \A y \in S : Horizon >= y
    BY <1>2 DEF Horizon, Max
  <1> QED
    BY <1>1, <1>3 DEF Never

(* The soonest of a set of times is one of them.                           *)
LEMMA SoonestType ==
    ASSUME NEW S \in SUBSET (Time \cup {Never})
    PROVE  Soonest(S) \in Time \cup {Never}
  <1>1. CASE S = {}
    BY <1>1 DEF Soonest
  <1>2. CASE S # {}
    <2>1. S \in SUBSET Nat
      BY HorizonBounds DEF Time
    <2>2. PICK n \in S : \A m \in S : <<m, n>> \notin OpToRel(<, Nat)
      BY <1>2, <2>1, NatLessThanWellFounded, WFMin
    <2>3. \A m \in S : ~(m < n)
      BY <2>1, <2>2, Zenon DEF OpToRel
    <2>4. \A m \in S : n <= m
      BY <2>1, <2>3
    <2>5. Min(S) \in S
      BY <2>4 DEF Min
    <2> QED
      BY <1>2, <2>5 DEF Soonest
  <1> QED
    BY <1>1, <1>2

(* The timer is set to a time within the horizon, or not at all.           *)
LEMMA WakeAtType ==
    ASSUME NEW d \in [Sessions -> Time \cup {Never}], NEW c,
           NEW l \in [Sessions -> Time \cup {Never}], NEW dl,
           NEW floor \in {Never, Blind}
    PROVE  WakeAt(d, c, l, dl, floor) \in Time \cup {Never}
  <1>1. EarliestLease(c, l) \in Time \cup {Never}
    BY SoonestType DEF EarliestLease
  <1>2. EarliestDeadline(d, dl) \in Time \cup {Never}
    BY SoonestType DEF EarliestDeadline
  <1>3. Blind \in Time
    BY HorizonBounds, ClockAssumption DEF Time
  <1> QED
    BY <1>1, <1>2, <1>3, HorizonBounds DEF WakeAt, Earlier, Later, Time

(* The bound counts a finite set.                                          *)
LEMMA LiveFinite ==
    ASSUME NEW d
    PROVE  IsFiniteSet(Live(d)) /\ Cardinality(Live(d)) \in Nat
  <1>1. Live(d) \in SUBSET Sessions
    BY DEF Live
  <1> QED
    BY <1>1, FS_Subset, FS_CardinalityType, ClockAssumption

(* Where no delivery comes to count, the bound still holds.                *)
LEMMA FewerLive ==
    ASSUME BoundHolds, Live(delivery') \subseteq Live(delivery)
    PROVE  BoundHolds'
  <1>1. Cardinality(Live(delivery')) <= Cardinality(Live(delivery))
    BY LiveFinite, FS_Subset
  <1>2. Cardinality(Live(delivery)) \in Nat /\ Cardinality(Live(delivery')) \in Nat
    BY LiveFinite
  <1> QED
    BY <1>1, <1>2, ClockAssumption DEF BoundHolds, Live

(* arm() keeps the timer within the horizon and counts its faults.         *)
LEMMA ArmType ==
    ASSUME HostOK, IndexOK', running' \in BOOLEAN, NEW floor \in {Never, Blind}, Arm(floor)
    PROVE  HostOK'
  <1>1. Blind \in Time
    BY HorizonBounds, ClockAssumption DEF Time
  <1>2. WakeAt(deadline', claim', lease', delivery', floor) \in Time \cup {Never}
    BY WakeAtType DEF IndexOK
  <1> QED
    BY <1>1, <1>2, ClockAssumption DEF Arm, HostOK, Fault

-----------------------------------------------------------------------------
(* Nothing is armed or under way in a new index.                           *)
LEMMA InitInv == Init => ClockInv
  <1> SUFFICES ASSUME Init PROVE ClockInv
    OBVIOUS
  <1>1. IndexOK /\ DeliveriesOK /\ ClaimsOK
    BY DEF Init, IndexOK, DeliveriesOK, ClaimsOK
  <1>2. HostOK
    BY ClockAssumption DEF Init, HostOK
  <1>3. Live(delivery) = {}
    BY DEF Init, Live
  <1>4. BoundHolds
    BY <1>3, FS_EmptySet, ClockAssumption DEF BoundHolds
  <1> QED
    BY <1>1, <1>2, <1>4 DEF ClockInv, TypeOK

(* A session arms a deadline.                                              *)
LEMMA SetAlarmStep ==
    ASSUME ClockInv, NEW s \in Sessions, NEW at \in 0..MaxDelay, SetAlarm(s, at)
    PROVE  ClockInv'
  <1>1. at \in Time
    BY HorizonBounds, ClockAssumption DEF Time
  <1>2. IndexOK'
    BY <1>1 DEF ClockInv, TypeOK, IndexOK, SetAlarm
  <1>3. DeliveriesOK' /\ ClaimsOK'
    BY DEF ClockInv, TypeOK, DeliveriesOK, ClaimsOK, SetAlarm
  <1>4. HostOK'
    BY <1>2, ArmType DEF ClockInv, TypeOK, HostOK, SetAlarm
  <1>5. BoundHolds'
    BY FewerLive DEF ClockInv, SetAlarm, Live
  <1> QED
    BY <1>2, <1>3, <1>4, <1>5 DEF ClockInv, TypeOK

(* A tick abandons the deliveries whose lease has run out and claims no    *)
(* more due sessions than there is room for beside the others.             *)
LEMMA TickBound ==
    ASSUME ClockInv, NEW C \in SUBSET Sessions, Tick(C)
    PROVE  BoundHolds'
  <1> DEFINE L == Live(Abandoned)
  <1>1. L \subseteq Live(delivery)
    BY DEF ClockInv, TypeOK, DeliveriesOK, Abandoned, Live
  <1>2. IsFiniteSet(L) /\ Cardinality(L) \in Nat /\ IsFiniteSet(C) /\ Cardinality(C) \in Nat
    BY LiveFinite, FS_Subset, FS_CardinalityType, ClockAssumption
  <1>3. Live(delivery') \subseteq L \cup C
    BY DEF Tick, Claim, Live
  <1>4. Cardinality(L \cup C) <= Cardinality(L) + Cardinality(C)
    <2>1. IsFiniteSet(L \cap C) /\ Cardinality(L \cap C) \in Nat
      BY <1>2, FS_Subset, FS_CardinalityType
    <2> QED
      BY <1>2, <2>1, FS_Union
  <1>5. Cardinality(Live(delivery')) <= Cardinality(L) + Cardinality(C)
    <2>1. IsFiniteSet(L \cup C)
      BY <1>2, FS_Union
    <2>2. Cardinality(Live(delivery')) <= Cardinality(L \cup C)
      BY <1>3, <2>1, FS_Subset
    <2>3. Cardinality(L \cup C) \in Nat /\ Cardinality(Live(delivery')) \in Nat
      BY <2>1, FS_CardinalityType, LiveFinite
    <2> QED
      BY <1>2, <1>4, <2>2, <2>3
  <1>6. Cardinality(L) <= MaxConcurrent
    <2>1. Cardinality(L) <= Cardinality(Live(delivery))
      BY <1>1, LiveFinite, FS_Subset
    <2> QED
      BY <2>1, <1>2, LiveFinite, ClockAssumption DEF ClockInv, BoundHolds
  <1>7. Cardinality(C) <= Room(Abandoned)
    <2>1. IsFiniteSet(Due(Abandoned)) /\ Cardinality(Due(Abandoned)) \in Nat
      <3>1. Due(Abandoned) \in SUBSET Sessions
        BY DEF Due
      <3> QED
        BY <3>1, FS_Subset, FS_CardinalityType, ClockAssumption
    <2>2. Room(Abandoned) \in Int
      BY <1>2, ClockAssumption DEF Room
    <2> QED
      BY <1>2, <2>1, <2>2 DEF Tick, Earlier
  <1>8. Cardinality(L) + Cardinality(C) <= MaxConcurrent
    BY <1>2, <1>6, <1>7, ClockAssumption DEF Room
  <1>9. Cardinality(Live(delivery')) \in Nat
    BY LiveFinite
  <1> QED
    BY <1>2, <1>5, <1>8, <1>9, ClockAssumption DEF BoundHolds, Live

LEMMA TickStep ==
    ASSUME ClockInv, NEW C \in SUBSET Sessions, Tick(C)
    PROVE  ClockInv'
  <1>1. Lease \in Time /\ Never \notin Time
    BY HorizonBounds, ClockAssumption DEF Time
  <1>2. IndexOK'
    BY <1>1 DEF ClockInv, TypeOK, IndexOK, Tick, Claim
  <1>3. DeliveriesOK'
    BY DEF ClockInv, TypeOK, DeliveriesOK, Tick, Claim, Abandoned
  <1>4. ClaimsOK'
    <2>1. \A s \in C : deadline[s] # Never /\ Lease # Never
      BY <1>1, HorizonBounds DEF Tick, Due, Time
    <2> QED
      BY <2>1 DEF ClockInv, TypeOK, IndexOK, DeliveriesOK, ClaimsOK, Tick, Claim, Abandoned
  <1>5. HostOK'
    <2>1. running' \in BOOLEAN
      BY DEF ClockInv, TypeOK, HostOK, Tick
    <2>2. CASE Arm(Never)
      BY <1>2, <2>1, <2>2, ArmType DEF ClockInv, TypeOK
    <2>3. CASE Fault /\ timer' = WakeAt(deadline', claim', lease', delivery', Blind)
      BY <1>2, <2>1, <2>3, WakeAtType, ClockAssumption DEF ClockInv, TypeOK, IndexOK, HostOK, Fault
    <2> QED
      BY <2>2, <2>3 DEF Tick
  <1>6. BoundHolds'
    BY TickBound
  <1> QED
    BY <1>2, <1>3, <1>4, <1>5, <1>6 DEF ClockInv, TypeOK

(* A delivery ends, and its claim with it.                                 *)
LEMMA SettleStep ==
    ASSUME ClockInv, NEW s \in Sessions, Settle(s)
    PROVE  ClockInv'
  <1>1. Backoff \in Time
    BY HorizonBounds, ClockAssumption DEF Time
  <1>2. IndexOK'
    BY <1>1 DEF ClockInv, TypeOK, IndexOK, Settle, Earlier
  <1>3. DeliveriesOK' /\ ClaimsOK'
    BY DEF ClockInv, TypeOK, IndexOK, DeliveriesOK, ClaimsOK, Settle
  <1>4. HostOK'
    BY <1>2, ArmType DEF ClockInv, TypeOK, HostOK, Settle
  <1>5. BoundHolds'
    <2>1. Live(delivery') \subseteq Live(delivery)
      BY DEF ClockInv, TypeOK, DeliveriesOK, Settle, Live
    <2> QED
      BY <2>1, FewerLive DEF ClockInv
  <1> QED
    BY <1>2, <1>3, <1>4, <1>5 DEF ClockInv, TypeOK

(* A delivery ends and its claim stays.                                    *)
LEMMA SettleFailsStep ==
    ASSUME ClockInv, NEW s \in Sessions, SettleFails(s)
    PROVE  ClockInv'
  <1>1. IndexOK' /\ DeliveriesOK' /\ ClaimsOK'
    BY DEF ClockInv, TypeOK, IndexOK, DeliveriesOK, ClaimsOK, SettleFails, index
  <1>2. HostOK'
    <2>1. WakeAt(deadline, claim, lease, delivery', Never) \in Time \cup {Never}
      BY WakeAtType DEF ClockInv, TypeOK, IndexOK
    <2> QED
      BY <2>1, ClockAssumption DEF ClockInv, TypeOK, HostOK, SettleFails, Fault
  <1>3. BoundHolds'
    <2>1. Live(delivery') \subseteq Live(delivery)
      BY DEF ClockInv, TypeOK, DeliveriesOK, SettleFails, Live
    <2> QED
      BY <2>1, FewerLive DEF ClockInv
  <1> QED
    BY <1>1, <1>2, <1>3 DEF ClockInv, TypeOK

(* Every claim of the previous process is armed again.                     *)
LEMMA RestartStep ==
    ASSUME ClockInv, Restart
    PROVE  ClockInv'
  <1>1. IndexOK'
    BY DEF ClockInv, TypeOK, IndexOK, Restart, Earlier
  <1>2. DeliveriesOK' /\ ClaimsOK'
    BY DEF DeliveriesOK, ClaimsOK, Restart
  <1>3. HostOK'
    <2>1. CASE running
      <3>1. WakeAt(deadline', claim', lease', delivery', Never) \in Time \cup {Never}
        BY <1>1, WakeAtType DEF IndexOK
      <3> QED
        BY <2>1, <3>1, ClockAssumption DEF ClockInv, TypeOK, HostOK, Restart, Fault
    <2>2. CASE ~running
      BY <1>1, <2>2, ArmType DEF ClockInv, TypeOK, HostOK, Restart
    <2> QED
      BY <2>1, <2>2
  <1>4. BoundHolds'
    <2>1. Live(delivery') \subseteq Live(delivery)
      BY DEF Restart, Live
    <2> QED
      BY <2>1, FewerLive DEF ClockInv
  <1> QED
    BY <1>1, <1>2, <1>3, <1>4 DEF ClockInv, TypeOK

(* Time passes: what was ahead comes closer.                               *)
LEMMA PassStep ==
    ASSUME ClockInv, Pass
    PROVE  ClockInv'
  <1>1. \A t \in Time \cup {Never} : /\ Closer(t) \in Time \cup {Never}
                                     /\ (Closer(t) = Never) = (t = Never)
    BY HorizonBounds DEF Closer, Time
  <1>2. IndexOK'
    BY <1>1 DEF ClockInv, TypeOK, IndexOK, Pass
  <1>3. DeliveriesOK'
    BY DEF ClockInv, TypeOK, DeliveriesOK, Pass
  <1>4. ClaimsOK'
    BY <1>1 DEF ClockInv, TypeOK, IndexOK, ClaimsOK, Pass
  <1>5. HostOK'
    BY <1>1 DEF ClockInv, TypeOK, HostOK, Pass
  <1>6. BoundHolds'
    BY FewerLive DEF ClockInv, Pass, Live
  <1> QED
    BY <1>2, <1>3, <1>4, <1>5, <1>6 DEF ClockInv, TypeOK

(* The clock is stopped, or nothing changes.                               *)
LEMMA StillStep ==
    ASSUME ClockInv, Stop \/ UNCHANGED vars
    PROVE  ClockInv'
  <1>1. UNCHANGED <<index, delivery, faults>> /\ timer' \in {timer, Never}
    BY DEF Stop, vars
  <1>2. BoundHolds'
    BY <1>1, FewerLive DEF ClockInv, Live
  <1>3. running' \in BOOLEAN
    BY DEF Stop, vars, ClockInv, TypeOK, HostOK
  <1> QED
    BY <1>1, <1>2, <1>3
    DEF ClockInv, TypeOK, IndexOK, DeliveriesOK, ClaimsOK, HostOK, index

LEMMA NextInv == ClockInv /\ [Next]_vars => ClockInv'
  <1> SUFFICES ASSUME ClockInv, [Next]_vars PROVE ClockInv'
    OBVIOUS
  <1>1. CASE \E s \in Sessions : Settle(s) \/ SettleFails(s)
    BY <1>1, SettleStep, SettleFailsStep
  <1>2. CASE \E s \in Sessions, at \in 0..MaxDelay : SetAlarm(s, at)
    BY <1>2, SetAlarmStep
  <1>3. CASE \E C \in SUBSET Sessions : Tick(C)
    BY <1>3, TickStep
  <1>4. CASE Stop \/ UNCHANGED vars
    BY <1>4, StillStep
  <1>5. CASE Restart \/ Pass
    BY <1>5, RestartStep, PassStep
  <1> QED
    BY <1>1, <1>2, <1>3, <1>4, <1>5 DEF Next

-----------------------------------------------------------------------------
(* The inductive invariant holds in every reachable state.                 *)
THEOREM ClockInvariance == Spec => []ClockInv
  <1> QED
    BY InitInv, NextInv, PTL DEF Spec

(* Every variable of the clock and its index stays what it should be.      *)
THEOREM ClockTypeCorrectness == Spec => []TypeOK
  <1>1. ClockInv => TypeOK
    BY DEF ClockInv
  <1> QED
    BY <1>1, ClockInvariance, PTL

(* However many sessions are due, deliveries hang, settlements fail and    *)
(* processes die, the deliveries that count stay within the bound.         *)
THEOREM DeliveriesAreBounded == Spec => []BoundHolds
  <1>1. ClockInv => BoundHolds
    BY DEF ClockInv
  <1> QED
    BY <1>1, ClockInvariance, PTL

(* A step never starts a delivery in a session that has one under way.     *)
LEMMA OverlapStep ==
    ASSUME ClockInv, [Next]_vars, NEW s \in Sessions,
           delivery[s] # "none", delivery'[s] # "none"
    PROVE  /\ delivery[s] = "abandoned" => delivery'[s] = "abandoned"
           /\ lease'[s] <= lease[s]
  <1> DEFINE P == /\ delivery[s] = "abandoned" => delivery'[s] = "abandoned"
                  /\ lease'[s] <= lease[s]
  <1>1. lease[s] \in Nat /\ Never \in Nat
    BY HorizonBounds DEF ClockInv, TypeOK, IndexOK, Time
  <1>2. CASE delivery'[s] = delivery[s] /\ lease'[s] = lease[s]
    BY <1>1, <1>2
  <1>3. ASSUME NEW r \in Sessions, Settle(r) \/ SettleFails(r) PROVE P
    BY <1>2, <1>3 DEF ClockInv, TypeOK, IndexOK, DeliveriesOK, Settle, SettleFails, index
  <1>4. ASSUME NEW r \in Sessions, NEW at \in 0..MaxDelay, SetAlarm(r, at) PROVE P
    BY <1>2, <1>4 DEF SetAlarm
  <1>5. ASSUME NEW C \in SUBSET Sessions, Tick(C) PROVE P
    <2>1. s \notin C
      BY <1>5 DEF Tick, Due, Abandoned
    <2> QED
      BY <1>1, <1>5, <2>1 DEF Tick, Claim, Abandoned
  <1>6. CASE Stop \/ UNCHANGED vars
    BY <1>2, <1>6 DEF Stop, vars, index
  <1>7. CASE Restart
    BY <1>7 DEF Restart
  <1>8. CASE Pass
    BY <1>1, <1>8, HorizonBounds DEF Pass, Closer
  <1> QED
    BY <1>3, <1>4, <1>5, <1>6, <1>7, <1>8 DEF Next

(* A session is never delivered to twice at once, whatever was abandoned.  *)
THEOREM DeliveriesNeverOverlap == Spec => NeverOverlapped
  <1>1. ClockInv /\ [Next]_vars =>
            [\A s \in Sessions : delivery[s] # "none" /\ delivery'[s] # "none" =>
                 /\ delivery[s] = "abandoned" => delivery'[s] = "abandoned"
                 /\ lease'[s] <= lease[s]]_vars
    BY OverlapStep
  <1> QED
    BY <1>1, ClockInvariance, PTL DEF Spec, NeverOverlapped

=============================================================================
