-------------------------- MODULE AlarmSlotProofs --------------------------
(***************************************************************************)
(* Proofs about AlarmSlot, for every clock range, retry budget and number  *)
(* of faults: the inductive invariant IInv, and what follows from it.      *)
(*                                                                         *)
(* The argument for StopIsArmed goes through the session's file, since it  *)
(* is from there that a boot, an activation or an acknowledgement arms the *)
(* host again: the file always knows the deadline (StopIsPersisted), and   *)
(* with no delivery under way the host agrees with it (HostIsArmed).  That *)
(* a boot scan may skip clean files takes CleanFile.                       *)
(***************************************************************************)
EXTENDS AlarmSlot, TLAPS

(* The empty session satisfies the inductive invariant.                    *)
LEMMA InitInv == Init => IInv
  <1> SUFFICES ASSUME Init PROVE IInv
    OBVIOUS
  <1>1. FlagsOK
    BY DEF Init, FlagsOK
  <1>2. TimesOK /\ CountsOK
    BY AlarmAssumption DEF Init, TimesOK, CountsOK, Time, Never
  <1>3. StopIsArmed /\ StopIsPersisted /\ HostIsArmed /\ CleanFile /\ PhaseFacts
    BY DEF Init, StopIsArmed, StopIsPersisted, HostIsArmed, CleanFile, PhaseFacts
  <1> QED
    BY <1>1, <1>2, <1>3 DEF IInv, TypeOK

(* Every step preserves it.  A step's effect on the host's slot comes      *)
(* before StopIsArmed, which is read off the two facts that explain it.    *)
LEMMA StepInv ==
    ASSUME IInv, [Next]_vars
    PROVE  IInv'
  <1> USE AlarmAssumption DEF IInv, TypeOK, Time, Never, file, host
  <1>1. CASE Fire
    <2>1. TimesOK' /\ CountsOK'
      BY <1>1 DEF Fire, TimesOK, CountsOK, PhaseFacts
    <2>2. FlagsOK'
      BY <1>1 DEF Fire, FlagsOK
    <2>3. StopIsPersisted' /\ HostIsArmed'
      BY <1>1 DEF Fire, TimesOK, StopIsArmed, StopIsPersisted, HostIsArmed, CleanFile, PhaseFacts
    <2>4. StopIsArmed'
      BY <1>1 DEF Fire, TimesOK, StopIsArmed, StopIsPersisted, HostIsArmed, CleanFile, PhaseFacts
    <2>5. CleanFile' /\ PhaseFacts'
      BY <1>1 DEF Fire, TimesOK, CountsOK, StopIsPersisted, HostIsArmed, CleanFile, PhaseFacts
    <2> QED
      BY <2>1, <2>2, <2>3, <2>4, <2>5
  <1>2. CASE BeginDelivery
    <2>1. TimesOK' /\ CountsOK'
      BY <1>2 DEF BeginDelivery, TimesOK, CountsOK, PhaseFacts
    <2>2. FlagsOK'
      BY <1>2 DEF BeginDelivery, FlagsOK
    <2>3. StopIsPersisted' /\ HostIsArmed'
      BY <1>2 DEF BeginDelivery, TimesOK, StopIsArmed, StopIsPersisted, HostIsArmed, CleanFile, PhaseFacts
    <2>4. StopIsArmed'
      BY <1>2 DEF BeginDelivery, TimesOK, StopIsArmed, StopIsPersisted, HostIsArmed, CleanFile, PhaseFacts
    <2>5. CleanFile' /\ PhaseFacts'
      BY <1>2 DEF BeginDelivery, TimesOK, CountsOK, StopIsPersisted, HostIsArmed, CleanFile, PhaseFacts
    <2> QED
      BY <2>1, <2>2, <2>3, <2>4, <2>5
  <1>3. CASE Handle
    <2>1. TimesOK' /\ CountsOK'
      BY <1>3 DEF Handle, Schedule, Persist, Arm, Earlier, TimesOK, CountsOK, PhaseFacts
    <2>2. FlagsOK'
      BY <1>3 DEF Handle, Schedule, Persist, Arm, Earlier, FlagsOK
    <2>3. StopIsPersisted' /\ HostIsArmed'
      BY <1>3 DEF Handle, Schedule, Persist, Arm, Earlier, TimesOK, StopIsArmed, StopIsPersisted, HostIsArmed, CleanFile, PhaseFacts
    <2>4. StopIsArmed'
      BY <1>3 DEF Handle, Schedule, Persist, Arm, Earlier, TimesOK, StopIsArmed, StopIsPersisted, HostIsArmed, CleanFile, PhaseFacts
    <2>5. CleanFile' /\ PhaseFacts'
      BY <1>3 DEF Handle, Schedule, Persist, Arm, Earlier, TimesOK, CountsOK, StopIsPersisted, HostIsArmed, CleanFile, PhaseFacts
    <2> QED
      BY <2>1, <2>2, <2>3, <2>4, <2>5
  <1>4. CASE Acknowledge
    <2>1. TimesOK' /\ CountsOK'
      BY <1>4 DEF Acknowledge, Arm, TimesOK, CountsOK, PhaseFacts
    <2>2. FlagsOK'
      BY <1>4 DEF Acknowledge, Arm, FlagsOK
    <2>3. StopIsPersisted' /\ HostIsArmed'
      BY <1>4 DEF Acknowledge, Arm, TimesOK, StopIsArmed, StopIsPersisted, HostIsArmed, CleanFile, PhaseFacts
    <2>4. StopIsArmed'
      BY <1>4 DEF Acknowledge, Arm, TimesOK, StopIsArmed, StopIsPersisted, HostIsArmed, CleanFile, PhaseFacts
    <2>5. CleanFile' /\ PhaseFacts'
      BY <1>4 DEF Acknowledge, Arm, TimesOK, CountsOK, StopIsPersisted, HostIsArmed, CleanFile, PhaseFacts
    <2> QED
      BY <2>1, <2>2, <2>3, <2>4, <2>5
  <1>5. CASE Settle
    <2>1. TimesOK' /\ CountsOK'
      BY <1>5 DEF Settle, Fault, TimesOK, CountsOK, PhaseFacts
    <2>2. FlagsOK'
      BY <1>5 DEF Settle, Fault, FlagsOK
    <2>3. StopIsPersisted' /\ HostIsArmed'
      BY <1>5 DEF Settle, Fault, TimesOK, StopIsArmed, StopIsPersisted, HostIsArmed, CleanFile, PhaseFacts
    <2>4. StopIsArmed'
      BY <1>5 DEF Settle, Fault, TimesOK, StopIsArmed, StopIsPersisted, HostIsArmed, CleanFile, PhaseFacts
    <2>5. CleanFile' /\ PhaseFacts'
      BY <1>5 DEF Settle, Fault, TimesOK, CountsOK, StopIsPersisted, HostIsArmed, CleanFile, PhaseFacts
    <2> QED
      BY <2>1, <2>2, <2>3, <2>4, <2>5
  <1>6. CASE DeliveryFails
    <2>1. TimesOK' /\ CountsOK'
      BY <1>6 DEF DeliveryFails, Fault, Earlier, TimesOK, CountsOK, PhaseFacts
    <2>2. FlagsOK'
      BY <1>6 DEF DeliveryFails, Fault, Earlier, FlagsOK
    <2>3. StopIsPersisted' /\ HostIsArmed'
      BY <1>6 DEF DeliveryFails, Fault, Earlier, TimesOK, StopIsArmed, StopIsPersisted, HostIsArmed, CleanFile, PhaseFacts
    <2>4. StopIsArmed'
      <3>1. CASE slot' \in Time
        BY <1>6, <2>3, <3>1 DEF DeliveryFails, TimesOK, StopIsArmed, HostIsArmed
      <3>2. CASE lapsed' = (slot = Never) /\ UNCHANGED slot
        <4>1. lapsed' \/ slot' # Never
          BY <3>2, Zenon
        <4> QED
          BY <1>6, <2>3, <4>1 DEF DeliveryFails, TimesOK, StopIsArmed, HostIsArmed
      <3> QED
        BY <1>6, <3>1, <3>2 DEF DeliveryFails, TimesOK, Earlier
    <2>5. CleanFile' /\ PhaseFacts'
      BY <1>6 DEF DeliveryFails, Fault, Earlier, TimesOK, CountsOK, StopIsPersisted, HostIsArmed, CleanFile, PhaseFacts
    <2> QED
      BY <2>1, <2>2, <2>3, <2>4, <2>5
  <1>7. CASE Confirm
    <2>1. TimesOK' /\ CountsOK'
      BY <1>7 DEF Confirm, TimesOK, CountsOK, PhaseFacts
    <2>2. FlagsOK'
      BY <1>7 DEF Confirm, FlagsOK
    <2>3. StopIsPersisted' /\ HostIsArmed'
      BY <1>7 DEF Confirm, TimesOK, StopIsArmed, StopIsPersisted, HostIsArmed, CleanFile, PhaseFacts
    <2>4. StopIsArmed'
      BY <1>7 DEF Confirm, TimesOK, StopIsArmed, StopIsPersisted, HostIsArmed, CleanFile, PhaseFacts
    <2>5. CleanFile' /\ PhaseFacts'
      BY <1>7 DEF Confirm, TimesOK, CountsOK, StopIsPersisted, HostIsArmed, CleanFile, PhaseFacts
    <2> QED
      BY <2>1, <2>2, <2>3, <2>4, <2>5
  <1>8. CASE Rehydrate
    <2>1. TimesOK' /\ CountsOK'
      BY <1>8 DEF Rehydrate, Arm, Earlier, TimesOK, CountsOK, PhaseFacts
    <2>2. FlagsOK'
      BY <1>8 DEF Rehydrate, Arm, Earlier, FlagsOK
    <2>3. StopIsPersisted' /\ HostIsArmed'
      BY <1>8 DEF Rehydrate, Arm, Earlier, TimesOK, StopIsArmed, StopIsPersisted, HostIsArmed, CleanFile, PhaseFacts
    <2>4. StopIsArmed'
      BY <1>8 DEF Rehydrate, Arm, Earlier, TimesOK, StopIsArmed, StopIsPersisted, HostIsArmed, CleanFile, PhaseFacts
    <2>5. CleanFile' /\ PhaseFacts'
      BY <1>8 DEF Rehydrate, Arm, Earlier, TimesOK, CountsOK, StopIsPersisted, HostIsArmed, CleanFile, PhaseFacts
    <2> QED
      BY <2>1, <2>2, <2>3, <2>4, <2>5
  <1>9. CASE Tick
    <2>1. TimesOK' /\ CountsOK'
      BY <1>9 DEF Tick, TimesOK, CountsOK, PhaseFacts
    <2>2. FlagsOK'
      BY <1>9 DEF Tick, FlagsOK
    <2>3. StopIsPersisted' /\ HostIsArmed'
      BY <1>9 DEF Tick, TimesOK, StopIsArmed, StopIsPersisted, HostIsArmed, CleanFile, PhaseFacts
    <2>4. StopIsArmed'
      BY <1>9 DEF Tick, TimesOK, StopIsArmed, StopIsPersisted, HostIsArmed, CleanFile, PhaseFacts
    <2>5. CleanFile' /\ PhaseFacts'
      BY <1>9 DEF Tick, TimesOK, CountsOK, StopIsPersisted, HostIsArmed, CleanFile, PhaseFacts
    <2> QED
      BY <2>1, <2>2, <2>3, <2>4, <2>5
  <1>10. CASE Crash
    <2>1. TimesOK' /\ CountsOK'
      BY <1>10 DEF Crash, Boot, Earlier, Fault, TimesOK, CountsOK, PhaseFacts
    <2>2. FlagsOK'
      BY <1>10 DEF Crash, Boot, Earlier, Fault, FlagsOK
    <2>3. StopIsPersisted' /\ HostIsArmed'
      BY <1>10 DEF Crash, Boot, Earlier, Fault, TimesOK, StopIsArmed, StopIsPersisted, HostIsArmed, CleanFile, PhaseFacts
    <2>4. StopIsArmed'
      <3>1. lapsed' = (lapsed /\ slot' = Never)
        BY <1>10 DEF Crash, Boot
      <3>2. CASE lapsed
        <4>1. lapsed' \/ slot' # Never
          BY <3>1, <3>2, Zenon
        <4> QED
          BY <1>10, <2>3, <4>1 DEF Crash, Boot, TimesOK, StopIsArmed, HostIsArmed
      <3>3. CASE ~lapsed
        BY <1>10, <2>3, <3>3 DEF Crash, Boot, Earlier, Fault, TimesOK, StopIsArmed, StopIsPersisted, HostIsArmed, CleanFile, PhaseFacts
      <3> QED
        BY <3>2, <3>3
    <2>5. CleanFile' /\ PhaseFacts'
      BY <1>10 DEF Crash, Boot, Earlier, Fault, TimesOK, CountsOK, StopIsPersisted, HostIsArmed, CleanFile, PhaseFacts
    <2> QED
      BY <2>1, <2>2, <2>3, <2>4, <2>5
  <1>11. CASE Shutdown
    <2>1. TimesOK' /\ CountsOK'
      BY <1>11 DEF Shutdown, Boot, Earlier, TimesOK, CountsOK, PhaseFacts
    <2>2. FlagsOK'
      BY <1>11 DEF Shutdown, Boot, Earlier, FlagsOK
    <2>3. StopIsPersisted' /\ HostIsArmed'
      BY <1>11 DEF Shutdown, Boot, Earlier, TimesOK, StopIsArmed, StopIsPersisted, HostIsArmed, CleanFile, PhaseFacts
    <2>4. StopIsArmed'
      <3>1. lapsed' = (lapsed /\ slot' = Never)
        BY <1>11 DEF Shutdown, Boot
      <3>2. CASE lapsed
        <4>1. lapsed' \/ slot' # Never
          BY <3>1, <3>2, Zenon
        <4> QED
          BY <1>11, <2>3, <4>1 DEF Shutdown, Boot, TimesOK, StopIsArmed, HostIsArmed
      <3>3. CASE ~lapsed
        BY <1>11, <2>3, <3>3 DEF Shutdown, Boot, Earlier, TimesOK, StopIsArmed, StopIsPersisted, HostIsArmed, CleanFile, PhaseFacts
      <3> QED
        BY <3>2, <3>3
    <2>5. CleanFile' /\ PhaseFacts'
      BY <1>11 DEF Shutdown, Boot, Earlier, TimesOK, CountsOK, StopIsPersisted, HostIsArmed, CleanFile, PhaseFacts
    <2> QED
      BY <2>1, <2>2, <2>3, <2>4, <2>5
  <1>12. ASSUME NEW d \in Time, Prepare(d) PROVE IInv'
    <2>1. TimesOK' /\ CountsOK'
      BY <1>12 DEF Prepare, Persist, Earlier, TimesOK, CountsOK, PhaseFacts
    <2>2. FlagsOK'
      BY <1>12 DEF Prepare, Persist, Earlier, FlagsOK
    <2>3. StopIsPersisted' /\ HostIsArmed'
      BY <1>12 DEF Prepare, Persist, Earlier, TimesOK, StopIsArmed, StopIsPersisted, HostIsArmed, CleanFile, PhaseFacts
    <2>4. StopIsArmed'
      BY <1>12 DEF Prepare, Persist, Earlier, TimesOK, StopIsArmed, StopIsPersisted, HostIsArmed, CleanFile, PhaseFacts
    <2>5. CleanFile' /\ PhaseFacts'
      BY <1>12 DEF Prepare, Persist, Earlier, TimesOK, CountsOK, StopIsPersisted, HostIsArmed, CleanFile, PhaseFacts
    <2> QED
      BY <2>1, <2>2, <2>3, <2>4, <2>5
  <1>13. ASSUME NEW d \in Time, Deliver(d) PROVE IInv'
    <2>1. TimesOK' /\ CountsOK'
      BY <1>13 DEF Deliver, Schedule, ScheduleFails, Persist, Arm, Earlier, Fault, TimesOK, CountsOK, PhaseFacts
    <2>2. FlagsOK'
      BY <1>13 DEF Deliver, Schedule, ScheduleFails, Persist, Arm, Earlier, Fault, FlagsOK
    <2>3. StopIsPersisted' /\ HostIsArmed'
      BY <1>13 DEF Deliver, Schedule, ScheduleFails, Persist, Arm, Earlier, Fault, TimesOK, StopIsArmed, StopIsPersisted, HostIsArmed, CleanFile, PhaseFacts
    <2>4. StopIsArmed'
      BY <1>13 DEF Deliver, Schedule, ScheduleFails, Persist, Arm, Earlier, Fault, TimesOK, StopIsArmed, StopIsPersisted, HostIsArmed, CleanFile, PhaseFacts
    <2>5. CleanFile' /\ PhaseFacts'
      BY <1>13 DEF Deliver, Schedule, ScheduleFails, Persist, Arm, Earlier, Fault, TimesOK, CountsOK, StopIsPersisted, HostIsArmed, CleanFile, PhaseFacts
    <2> QED
      BY <2>1, <2>2, <2>3, <2>4, <2>5
  <1>14. ASSUME NEW d \in Time, ScheduleOther(d) PROVE IInv'
    <2>1. TimesOK' /\ CountsOK'
      BY <1>14 DEF ScheduleOther, Schedule, ScheduleFails, Persist, Arm, Earlier, Fault, TimesOK, CountsOK, PhaseFacts
    <2>2. FlagsOK'
      BY <1>14 DEF ScheduleOther, Schedule, ScheduleFails, Persist, Arm, Earlier, Fault, FlagsOK
    <2>3. StopIsPersisted' /\ HostIsArmed'
      BY <1>14 DEF ScheduleOther, Schedule, ScheduleFails, Persist, Arm, Earlier, Fault, TimesOK, StopIsArmed, StopIsPersisted, HostIsArmed, CleanFile, PhaseFacts
    <2>4. StopIsArmed'
      BY <1>14 DEF ScheduleOther, Schedule, ScheduleFails, Persist, Arm, Earlier, Fault, TimesOK, StopIsArmed, StopIsPersisted, HostIsArmed, CleanFile, PhaseFacts
    <2>5. CleanFile' /\ PhaseFacts'
      BY <1>14 DEF ScheduleOther, Schedule, ScheduleFails, Persist, Arm, Earlier, Fault, TimesOK, CountsOK, StopIsPersisted, HostIsArmed, CleanFile, PhaseFacts
    <2> QED
      BY <2>1, <2>2, <2>3, <2>4, <2>5
  <1>15. CASE UNCHANGED vars
    BY <1>15 DEF vars, TimesOK, CountsOK, FlagsOK, StopIsArmed, StopIsPersisted, HostIsArmed, CleanFile, PhaseFacts
  <1> QED
    BY <1>1, <1>2, <1>3, <1>4, <1>5, <1>6, <1>7, <1>8, <1>9, <1>10, <1>11, <1>12, <1>13, <1>14, <1>15 DEF Next, Delivery

-----------------------------------------------------------------------------
(* The inductive invariant holds throughout every behaviour.               *)
THEOREM AlarmInvariance == Spec => []IInv
  BY InitInv, StepInv, PTL DEF Spec

(* Deadlines, counters and phases stay in range; in particular no alarm    *)
(* fails more often than it is retried (claimAndDeliver's over-budget      *)
(* branch is never taken).                                                 *)
THEOREM AlarmTypeCorrectness == Spec => []TypeOK
  <1>1. IInv => TypeOK
    BY DEF IInv
  <1> QED
    BY <1>1, AlarmInvariance, PTL

(* The session wakes for every stop it has to recover: through failed      *)
(* writes of the host's index, failed deliveries, crashes and clean        *)
(* shutdowns, the host is armed for the deadline or is handling an alarm   *)
(* that will look at it, unless it gave an alarm up.                       *)
THEOREM StopsAreArmed == Spec => []StopIsArmed
  <1>1. IInv => StopIsArmed
    BY DEF IInv
  <1> QED
    BY <1>1, AlarmInvariance, PTL

=============================================================================
