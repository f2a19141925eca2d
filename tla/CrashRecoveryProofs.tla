------------------------ MODULE CrashRecoveryProofs ------------------------
(***************************************************************************)
(* Proofs about CrashRecovery, for every value of its constants.           *)
(***************************************************************************)
EXTENDS CrashRecovery, TLAPS

(* A scan arms what it reads, forgets nothing that was armed, leaves the   *)
(* index made of deadlines, and clears the record only of what it reads.   *)
LEMMA ScanArms ==
    ASSUME TypeOK, NEW S, ArmRead(S)
    PROVE  /\ index' \in [Sessions -> 1..Never]
           /\ \A s \in Sessions : index'[s] <= index[s]
           /\ \A s \in Sessions : s \in S /\ InRange(s) => index'[s] <= file[s]
           /\ refused' \subseteq refused /\ lost' \subseteq lost
           /\ \A s \in lost \ lost' : s \in S /\ InRange(s)
  BY RecoveryAssumption DEF TypeOK, ArmRead, NotMissing, Earlier, Never

(* Every write to a session's file happens at a time the marker covers.    *)
LEMMA WrittenInRange ==
    ASSUME TypeOK, RunsUnclean, up
    PROVE  wall >= marker.through /\ ~marker.clean
  BY DEF TypeOK, RunsUnclean, Time

(* The invariant holds on the volume that the first boot finds.            *)
LEMMA InitIInv == Init => IInv
  <1> SUFFICES ASSUME Init PROVE IInv
    OBVIOUS
  <1>1. TypeOK
    <2>1. {MaxDeadline, Never} \subseteq 1..Never /\ Never \in 1..Never /\ 1 \in Time
      BY RecoveryAssumption DEF Never, Time
    <2>2. file \in [Sessions -> 1..Never] /\ index \in [Sessions -> 1..Never]
      BY <2>1 DEF Init
    <2>3. written \in [Sessions -> Time]
      BY <2>1 DEF Init
    <2>4. marker \in [through : 0..MaxTime, clean : BOOLEAN] /\ ~marker.clean
      BY RecoveryAssumption DEF Init, ScanEverything
    <2> QED
      BY <2>1, <2>2, <2>3, <2>4 DEF Init, TypeOK
  <1>2. RunsUnclean /\ UnarmedIsOwed
    BY DEF Init, RunsUnclean, UnarmedIsOwed
  <1>3. NothingForgotten
    BY DEF Init, NothingForgotten, ScanEverything
  <1> QED
    BY <1>1, <1>2, <1>3 DEF IInv

(* A session that persists a deadline owes it to the index.                *)
LEMMA PersistStep ==
    ASSUME IInv, NEW s \in Sessions, NEW d \in 1..MaxDeadline, Persist(s, d)
    PROVE  IInv'
  <1> USE DEF IInv
  <1>1. /\ owed' = owed \cup {s} /\ refused' = refused
        /\ UNCHANGED <<wall, up, marker, index>> /\ up
    BY DEF Persist
  <1>2. \/ UNCHANGED <<file, written, lost>>
        \/ /\ file' = [file EXCEPT ![s] = d] /\ lost' = lost \ {s}
           /\ written' = [written EXCEPT ![s] = wall]
    BY DEF Persist
  <1>3. TypeOK'
    BY <1>1, <1>2, RecoveryAssumption DEF TypeOK, Never
  <1>4. RunsUnclean'
    BY <1>1 DEF RunsUnclean
  <1>5. NothingForgotten' /\ UnarmedIsOwed'
    <2>1. CASE UNCHANGED <<file, written, lost>>
      BY <1>1, <2>1 DEF NothingForgotten, UnarmedIsOwed, Armed
    <2>2. CASE ~UNCHANGED <<file, written, lost>>
      <3>1. written'[s] >= marker.through /\ ~marker.clean
        BY <1>1, <1>2, <2>2, WrittenInRange DEF TypeOK
      <3>2. \A x \in Sessions \ {s} : /\ Armed(x)' = Armed(x) /\ written'[x] = written[x]
                                      /\ x \in lost' <=> x \in lost
        BY <1>1, <1>2, <2>2 DEF TypeOK, Armed
      <3> QED
        BY <1>1, <3>1, <3>2 DEF NothingForgotten, UnarmedIsOwed
    <2> QED
      BY <2>1, <2>2
  <1> QED
    BY <1>3, <1>4, <1>5

(* Arming, by schedule() or by an activation, only brings a deadline       *)
(* forward.                                                                *)
LEMMA ArmStep ==
    ASSUME IInv, NEW s \in Sessions, ArmIndex(s) \/ Rehydrate(s)
    PROVE  IInv'
  <1> USE DEF IInv
  <1>1. /\ index' = [index EXCEPT ![s] = Earlier(index[s], file[s])]
        /\ owed' = owed \/ owed' = owed \ {s}
        /\ refused' = refused \ {s} /\ lost' = lost \ {s}
        /\ UNCHANGED <<wall, up, marker, file, written>>
    BY DEF ArmIndex, Rehydrate, NotMissing
  <1>2. TypeOK'
    BY <1>1, RecoveryAssumption DEF TypeOK, Earlier, Never
  <1>3. \A x \in Sessions : Armed(x) \/ x = s => Armed(x)'
    BY <1>1, RecoveryAssumption DEF TypeOK, Armed, Earlier, Never
  <1>4. NothingForgotten' /\ UnarmedIsOwed' /\ RunsUnclean'
    BY <1>1, <1>3 DEF NothingForgotten, UnarmedIsOwed, RunsUnclean
  <1> QED
    BY <1>2, <1>4

(* A write that the index refuses is remembered as refused.                *)
LEMMA ArmFailsStep ==
    ASSUME IInv, NEW s \in Sessions, ArmFails(s)
    PROVE  IInv'
  <1> USE DEF IInv
  <1>1. TypeOK' /\ RunsUnclean'
    BY DEF ArmFails, TypeOK, RunsUnclean
  <1>2. NothingForgotten' /\ UnarmedIsOwed'
    BY DEF ArmFails, NothingForgotten, UnarmedIsOwed, Armed
  <1> QED
    BY <1>1, <1>2

(* A deadline that was handled is gone from both.                          *)
LEMMA FireStep ==
    ASSUME IInv, NEW s \in Sessions, Fire(s)
    PROVE  IInv'
  <1> USE DEF IInv
  <1>1. TypeOK'
    BY RecoveryAssumption DEF TypeOK, Fire, NotMissing, Never
  <1>2. Armed(s)' /\ \A x \in Sessions \ {s} : Armed(x)' = Armed(x) /\ written'[x] = written[x]
    BY RecoveryAssumption DEF TypeOK, Fire, Armed, Never
  <1>3. RunsUnclean'
    BY DEF RunsUnclean, Fire
  <1>4. NothingForgotten' /\ UnarmedIsOwed'
    BY <1>2 DEF Fire, NotMissing, NothingForgotten, UnarmedIsOwed
  <1> QED
    BY <1>1, <1>3, <1>4

(* The host stops.  A clean stop finds every deadline armed or refused, or *)
(* a point before every write.                                             *)
LEMMA StopStep ==
    ASSUME IInv, Shutdown \/ Crash
    PROVE  IInv'
  <1> USE DEF IInv
  <1>1. RunsUnclean' /\ UnarmedIsOwed'
    BY DEF Shutdown, Crash, RunsUnclean, UnarmedIsOwed
  <1>2. CASE Crash
    <2>1. TypeOK'
      BY <1>2 DEF Crash, history, TypeOK
    <2>2. NothingForgotten'
      BY <1>2 DEF Crash, history, NothingForgotten, Armed
    <2> QED
      BY <1>1, <2>1, <2>2
  <1>3. CASE Shutdown
    <2>1. TypeOK'
      <3>1. /\ marker' \in [through : 0..MaxTime, clean : BOOLEAN]
            /\ marker'.clean => marker'.through # 0
        BY <1>3, RecoveryAssumption
        DEF Shutdown, MarkCleanShutdown, ScanEverything, TypeOK, Time
      <3> QED
        BY <1>3, <3>1 DEF Shutdown, history, TypeOK
    <2>2. CASE marker.through = 0
      BY <1>1, <1>3, <2>1, <2>2
      DEF Shutdown, MarkCleanShutdown, ScanEverything, history, NothingForgotten, Armed, TypeOK,
          Time
    <2>3. CASE marker.through # 0
      <3>1. \A s \in Sessions : Armed(s) \/ s \in lost'
        BY <1>3, <2>3 DEF Shutdown, UnarmedIsOwed
      <3> QED
        BY <1>1, <1>3, <2>1, <3>1 DEF Shutdown, NothingForgotten, Armed
    <2> QED
      BY <2>2, <2>3
  <1> QED
    BY <1>2, <1>3

(* The marker that the boot goes by is no less cautious than the one it    *)
(* found.                                                                  *)
LEMMA PreviousIsCautious ==
    ASSUME IInv
    PROVE  /\ Previous \in [through : 0..MaxTime, clean : BOOLEAN]
           /\ Previous.through <= wall
           /\ Previous.clean => Previous = marker
           /\ \A s \in Sessions : Armed(s) \/ s \in lost \/ ~marker.clean
           /\ \A s \in Sessions : Armed(s) \/ s \in lost \/ InRange(s)
  <1> USE DEF IInv
  <1>1. /\ Previous \in [through : 0..MaxTime, clean : BOOLEAN]
        /\ Previous.through <= wall
        /\ Previous.clean => Previous = marker
        /\ Previous.through = 0 \/ Previous = marker
    BY RecoveryAssumption DEF Previous, ScanEverything, TypeOK, Time
  <1>2. \A s \in Sessions :
            ~Armed(s) => s \in lost \/ (~marker.clean /\ written[s] >= marker.through)
    BY DEF NothingForgotten
  <1>3. \A s \in Sessions : written[s] \in Time
    BY DEF TypeOK
  <1>4. \A s \in Sessions : Armed(s) \/ s \in lost \/ InRange(s)
    <2> TAKE s \in Sessions
    <2>1. CASE Previous.through = 0
      BY <1>3, <2>1, RecoveryAssumption DEF InRange, Time
    <2>2. CASE Previous = marker
      BY <1>2, <2>2 DEF InRange
    <2> QED
      BY <1>1, <2>1, <2>2
  <1> QED
    BY <1>1, <1>2, <1>4

(* The host starts.                                                        *)
LEMMA BootStep ==
    ASSUME IInv, NEW R \in SUBSET Sessions, Boot(R)
    PROVE  IInv'
  <1> USE DEF IInv
  <1>1. CASE Previous.clean
    <2>1. /\ marker' = [Previous EXCEPT !.clean = FALSE]
          /\ UNCHANGED <<index, refused, lost>>
      BY <1>1 DEF Boot, history
    <2>2. \A s \in Sessions : Armed(s) \/ s \in lost
      BY <1>1, PreviousIsCautious
    <2>3. TypeOK' /\ RunsUnclean'
      BY <2>1, PreviousIsCautious DEF Boot, TypeOK, RunsUnclean
    <2>4. NothingForgotten' /\ UnarmedIsOwed'
      BY <2>1, <2>2 DEF Boot, Armed, NothingForgotten, UnarmedIsOwed
    <2> QED
      BY <2>3, <2>4
  <1>2. CASE ~Previous.clean
    <2>1. /\ ArmRead(Sessions \ R)
          /\ marker' = [through |-> PointAfter(R), clean |-> FALSE]
          /\ UNCHANGED <<wall, file, written, owed>>
      BY <1>2 DEF Boot
    <2>2. /\ index' \in [Sessions -> 1..Never]
          /\ \A s \in Sessions : index'[s] <= index[s]
          /\ \A s \in Sessions \ R : InRange(s) => index'[s] <= file[s]
          /\ refused' \subseteq refused /\ lost' \subseteq lost
          /\ \A s \in lost \ lost' : s \in Sessions \ R /\ InRange(s)
      BY <2>1, ScanArms
    <2>3. TypeOK' /\ RunsUnclean'
      <3>1. /\ marker' \in [through : 0..MaxTime, clean : BOOLEAN]
            /\ marker'.through <= wall /\ ~marker'.clean
        <4>1. PointAfter(R) \in 0..MaxTime /\ PointAfter(R) <= wall
          <5>1. wall \in 1..MaxTime
            BY DEF TypeOK, Time
          <5>2. PointAfter(R) = wall \/ PointAfter(R) = 0
            BY DEF PointAfter
          <5> QED
            BY <5>1, <5>2, RecoveryAssumption
        <4> QED
          BY <2>1, <4>1
      <3>2. up' = TRUE
        BY DEF Boot
      <3> QED
        BY <2>1, <2>2, <3>1, <3>2 DEF TypeOK, RunsUnclean
    <2>4. \A s \in Sessions \ R : Armed(s)' \/ s \in lost'
      BY <2>1, <2>2, <2>3, PreviousIsCautious DEF TypeOK, Armed
    <2>5. NothingForgotten'
      BY <2>1, <2>3, <2>4 DEF NothingForgotten, PointAfter, TypeOK, Time
    <2>6. UnarmedIsOwed'
      BY <2>1, <2>4 DEF UnarmedIsOwed, PointAfter
    <2> QED
      BY <2>3, <2>5, <2>6
  <1> QED
    BY <1>1, <1>2

(* A boot that dies has armed what it read and left the marker alone.      *)
LEMMA BootDiesStep ==
    ASSUME IInv, NEW S \in SUBSET Sessions, BootDies(S)
    PROVE  IInv'
  <1> USE DEF IInv
  <1>1. /\ index' \in [Sessions -> 1..Never]
        /\ \A s \in Sessions : index'[s] <= index[s]
        /\ \A s \in Sessions : s \in S /\ InRange(s) => index'[s] <= file[s]
        /\ refused' \subseteq refused /\ lost' \subseteq lost
        /\ \A s \in lost \ lost' : s \in S /\ InRange(s)
    BY ScanArms DEF BootDies
  <1>2. TypeOK' /\ RunsUnclean' /\ UnarmedIsOwed'
    BY <1>1 DEF BootDies, TypeOK, RunsUnclean, UnarmedIsOwed
  <1>3. \A s \in Sessions : Armed(s) \/ s \in lost \ lost' => Armed(s)'
    BY <1>1, <1>2, RecoveryAssumption DEF BootDies, TypeOK, Armed, Never
  <1>4. NothingForgotten'
    BY <1>3 DEF BootDies, NothingForgotten
  <1> QED
    BY <1>2, <1>4

(* The clock moves.                                                        *)
LEMMA ClockStep ==
    ASSUME IInv, Tick \/ \E t \in Time : SetClock(t)
    PROVE  IInv'
  <1>1. wall' \in Time /\ (up => wall' >= wall)
        /\ UNCHANGED <<up, marker, file, written, index, owed, refused, lost>>
    BY RecoveryAssumption DEF IInv, TypeOK, Tick, SetClock, Time, history
  <1> QED
    BY <1>1, RecoveryAssumption
    DEF IInv, TypeOK, RunsUnclean, NothingForgotten, UnarmedIsOwed, Armed, Time

(* The invariant is inductive: a deadline that the index lacks is owed by  *)
(* a session at work or was refused, or a point before every write keeps   *)
(* its file in the range of the next scan.                                 *)
THEOREM RecoveryInvariance == Spec => []IInv
  <1>1. IInv /\ [Next]_vars => IInv'
    <2> SUFFICES ASSUME IInv, [Next]_vars PROVE IInv'
      OBVIOUS
    <2>1. CASE UNCHANGED vars
      BY <2>1 DEF vars, history, IInv, TypeOK, RunsUnclean, NothingForgotten, UnarmedIsOwed, Armed
    <2>2. CASE \E s \in Sessions, d \in 1..MaxDeadline : Persist(s, d)
      BY <2>2, PersistStep
    <2>3. CASE \E s \in Sessions : ArmIndex(s) \/ Rehydrate(s)
      BY <2>3, ArmStep
    <2>9. CASE \E s \in Sessions : ArmFails(s)
      BY <2>9, ArmFailsStep
    <2>4. CASE \E s \in Sessions : Fire(s)
      BY <2>4, FireStep
    <2>5. CASE Shutdown \/ Crash
      BY <2>5, StopStep
    <2>6. CASE \E S \in SUBSET Sessions : Boot(S)
      BY <2>6, BootStep
    <2>7. CASE \E S \in SUBSET Sessions : BootDies(S)
      BY <2>7, BootDiesStep
    <2>8. CASE Tick \/ \E t \in Time : SetClock(t)
      BY <2>8, ClockStep
    <2> QED
      BY <2>1, <2>2, <2>3, <2>4, <2>5, <2>6, <2>7, <2>8, <2>9 DEF Next
  <1> QED
    BY InitIInv, <1>1, PTL DEF Spec

(* The variables keep their types, and no marker is clean without a point. *)
THEOREM RecoveryTypeCorrectness == Spec => []TypeOK
  BY RecoveryInvariance, PTL DEF IInv

(* A process that dies always finds the marker of an unclean stop.         *)
THEOREM RunsAreUnclean == Spec => []RunsUnclean
  BY RecoveryInvariance, PTL DEF IInv

(* Whatever order of refused index writes, stops, crashes, unreadable      *)
(* files and clock changes: a deadline in a session's file is in the       *)
(* index, or the next boot reads the file, or the index refused it and a   *)
(* clean stop then hid it.                                                 *)
THEOREM NothingIsForgotten == Spec => []NothingForgotten
  BY RecoveryInvariance, PTL DEF IInv

=============================================================================
