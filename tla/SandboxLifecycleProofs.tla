----------------------- MODULE SandboxLifecycleProofs -----------------------
(***************************************************************************)
(* Proofs about SandboxLifecycle, for any number of generations and any    *)
(* breaker threshold.  The first part is about any provider and every      *)
(* fault the module has (but for LiveIsWatched, which takes alarms that    *)
(* can be written).  The second is about providers that do not resume, and *)
(* sandboxes that are not up before their attempt is over: without either  *)
(* condition TLC refutes all of it.                                        *)
(*                                                                         *)
(* SocketIsCurrent is inductive with the types.  LiveIsWatched is not: a   *)
(* snapshot puts an old status back long after it was taken, so one has to *)
(* know that what it puts back belongs to this generation (ShotFacts) and  *)
(* that nothing can be photographed before the first one (NothingYet).     *)
(*                                                                         *)
(* In the second part everything follows from there being one attempt at a *)
(* time, which is not what the flag says: any attempt that ends, and any   *)
(* bridge that connects, lowers it.  It holds because the one attempt is   *)
(* the last reservation's (OneAttempt), whose token is not published       *)
(* before its sandbox can be created, so nothing connects meanwhile.       *)
(***************************************************************************)
EXTENDS SandboxLifecycle, FiniteSetTheorems, TLAPS

(* The empty row satisfies the inductive invariant.                        *)
LEMMA InitInv == Init => IInv
  <1> SUFFICES ASSUME Init PROVE IInv
    OBVIOUS
  <1> USE LifecycleAssumption
  <1>1. RowOK
    BY DEF Init, RowOK, Status, Ids
  <1>5. FlagsOK
    BY DEF Init, FlagsOK
  <1>2. NoCall \in Calls /\ NoShot \in Shots /\ NoPass \in Passes
    BY DEF NoCall, NoShot, NoPass, Calls, Shots, Passes, Ids
  <1>3. CallsOK /\ ShotsOK /\ StopsOK
    BY <1>2 DEF Init, CallsOK, ShotsOK, StopsOK
  <1>4. SocketIsCurrent /\ NothingYet /\ ShotFacts /\ LiveIsWatched /\ ReadyBeats
    BY DEF Init, ReadyBeats, SocketIsCurrent, NothingYet, ShotFacts, LiveIsWatched, NoCall, NoShot, Dead
  <1> QED
    BY <1>1, <1>5, <1>3, <1>4 DEF IInv, TypeOK

(* The shapes of what is stored in the process.                            *)
LEMMA MovesType ==
    ASSUME CallsOK, NEW s \in Stamps, NEW at \in {"prior", "remote", "store"}, NEW obj \in Ids,
           Moves(s, at, obj)
    PROVE  CallsOK'
  BY DEF CallsOK, Calls, Moves

LEMMA ReplaceType ==
    ASSUME CallsOK, NEW s \in Stamps, NEW c \in Calls, call' = [call EXCEPT ![s] = c]
    PROVE  CallsOK'
  BY DEF CallsOK

LEMMA NoCallType == NoCall \in Calls
  BY LifecycleAssumption DEF NoCall, Calls, Ids

LEMMA CallType == ASSUME CallsOK, NEW s \in Stamps PROVE call[s].obj \in Ids /\ Box(s) \in Ids
  BY LifecycleAssumption DEF CallsOK, Calls, Box, Stamps, Ids

LEMMA ShotType == ASSUME RowOK PROVE Shot \in Shots /\ [Shot EXCEPT !.prev = "stale"] \in Shots
  BY DEF RowOK, Shot, Shots, Status

LEMMA PassType ==
    ASSUME RowOK, ShotsOK, NEW detach \in BOOLEAN, PassStops(detach)
    PROVE  pass' \in Passes
  <1>1. object \in Ids /\ id \in Ids /\ 0 \in Ids
    BY LifecycleAssumption DEF RowOK, Ids
  <1>2. NoPass \in Passes
    BY <1>1 DEF NoPass, Passes
  <1>3. [at |-> "stop", obj |-> object, id |-> id, detach |-> detach] \in Passes
    BY <1>1 DEF Passes
  <1> QED
    BY <1>2, <1>3 DEF PassStops

LEMMA StopsType ==
    ASSUME RowOK, NEW holds \in BOOLEAN
    PROVE  Stops(holds) \subseteq [obj : Ids, holds : BOOLEAN]
  BY DEF RowOK, Stops

(* SpawnStarts keeps the inductive invariant. *)
LEMMA SpawnStartsInv ==
    ASSUME IInv, \E kind \in {"spawn", "restore"} : SpawnStarts(kind)
    PROVE  IInv'
  <1> USE LifecycleAssumption DEF IInv, TypeOK, row, proc
  <1>1. RowOK'
    BY DEF RowOK, CallsOK, ShotsOK, Status, Ids, Stamps, Calls, Shots, Passes, SpawnStarts, Reserve, Enters, BreakerReset
  <1>2. FlagsOK'
    BY DEF FlagsOK, StopsOK, SpawnStarts, Reserve, Enters, BreakerReset
  <1>3. CallsOK'
    BY DEF RowOK, CallsOK, Ids, Stamps, Calls, NoCall, SpawnStarts, Reserve, Enters, BreakerReset
  <1>4. ShotsOK'
    BY DEF RowOK, ShotsOK, Status, Ids, Stamps, Shots, Passes, NoShot, NoPass, SpawnStarts, Reserve, Enters, BreakerReset
  <1>5. StopsOK'
    BY DEF RowOK, CallsOK, StopsOK, Ids, Stamps, Calls, SpawnStarts, Reserve, Enters, BreakerReset
  <1>6. SocketIsCurrent' /\ NothingYet'
    BY DEF RowOK, CallsOK, SocketIsCurrent, NothingYet, Ids, Stamps, Calls, Starting, Retired, Dead, NoCall, NoPass, SpawnStarts, Reserve, Enters, BreakerReset
  <1>7. ShotFacts'
    BY DEF RowOK, ShotsOK, NothingYet, ShotFacts, Ids, Stamps, Calls, Shots, Dead, NoShot, SpawnStarts, Reserve, Enters, BreakerReset
  <1>8. ReadyBeats' /\ (AlarmFails' \/ LiveIsWatched')
    BY DEF RowOK, CallsOK, ShotsOK, NothingYet, ShotFacts, ReadyBeats, LiveIsWatched, Status, Ids, Stamps, Calls, Shots, Dead, Retired, Starting, SpawnStarts, Reserve, Enters, BreakerReset
  <1> QED
    BY <1>1, <1>2, <1>3, <1>4, <1>5, <1>6, <1>7, <1>8

(* SpawnUnwatched keeps the inductive invariant. *)
LEMMA SpawnUnwatchedInv ==
    ASSUME IInv, \E kind \in {"spawn", "restore"} : SpawnUnwatched(kind)
    PROVE  IInv'
  <1> USE LifecycleAssumption DEF IInv, TypeOK, row, proc
  <1>1. RowOK'
    BY DEF RowOK, CallsOK, ShotsOK, Status, Ids, Stamps, Calls, Shots, Passes, SpawnUnwatched, Reserve, BreakerReset
  <1>2. FlagsOK'
    BY DEF FlagsOK, StopsOK, SpawnUnwatched, Reserve, BreakerReset
  <1>3. CallsOK'
    BY DEF RowOK, CallsOK, Ids, Stamps, Calls, NoCall, SpawnUnwatched, Reserve, BreakerReset
  <1>4. ShotsOK'
    BY DEF RowOK, ShotsOK, Status, Ids, Stamps, Shots, Passes, NoShot, NoPass, SpawnUnwatched, Reserve, BreakerReset
  <1>5. StopsOK'
    BY DEF RowOK, CallsOK, StopsOK, Ids, Stamps, Calls, SpawnUnwatched, Reserve, BreakerReset
  <1>6. SocketIsCurrent' /\ NothingYet'
    BY DEF RowOK, CallsOK, SocketIsCurrent, NothingYet, Ids, Stamps, Calls, Starting, Retired, Dead, NoCall, NoPass, SpawnUnwatched, Reserve, BreakerReset
  <1>7. ShotFacts'
    BY DEF RowOK, ShotsOK, NothingYet, ShotFacts, Ids, Stamps, Calls, Shots, Dead, NoShot, SpawnUnwatched, Reserve, BreakerReset
  <1>8. ReadyBeats' /\ (AlarmFails' \/ LiveIsWatched')
    BY DEF RowOK, CallsOK, ShotsOK, NothingYet, ShotFacts, ReadyBeats, LiveIsWatched, Status, Ids, Stamps, Calls, Shots, Dead, Retired, Starting, SpawnUnwatched, Reserve, BreakerReset
  <1> QED
    BY <1>1, <1>2, <1>3, <1>4, <1>5, <1>6, <1>7, <1>8

(* ResumeStarts keeps the inductive invariant. *)
LEMMA ResumeStartsInv ==
    ASSUME IInv, ResumeStarts
    PROVE  IInv'
  <1> USE LifecycleAssumption DEF IInv, TypeOK, row, proc
  <1>1. RowOK'
    BY DEF RowOK, CallsOK, ShotsOK, Status, Ids, Stamps, Calls, Shots, Passes, ResumeStarts, Resume, Resumable, BreakerReset
  <1>2. FlagsOK'
    BY DEF FlagsOK, StopsOK, ResumeStarts, Resume, Resumable, BreakerReset
  <1>3. CallsOK'
    <2>1. CASE UNCHANGED call
      BY <2>1 DEF CallsOK
    <2>2. [kind |-> "resume", at |-> "remote", obj |-> object] \in Calls
      BY DEF RowOK, Calls
    <2> QED
      BY <2>1, <2>2, ReplaceType DEF ResumeStarts
  <1>4. ShotsOK'
    BY DEF RowOK, ShotsOK, Status, Ids, Stamps, Shots, Passes, NoShot, NoPass, ResumeStarts, Resume, Resumable, BreakerReset
  <1>5. StopsOK'
    BY DEF RowOK, CallsOK, StopsOK, Ids, Stamps, Calls, ResumeStarts, Resume, Resumable, BreakerReset
  <1>6. SocketIsCurrent' /\ NothingYet'
    BY DEF RowOK, CallsOK, SocketIsCurrent, NothingYet, Ids, Stamps, Calls, Starting, Retired, Dead, NoCall, NoPass, ResumeStarts, Resume, Resumable, BreakerReset
  <1>7. ShotFacts'
    BY DEF RowOK, ShotsOK, NothingYet, ShotFacts, Ids, Stamps, Calls, Shots, Dead, NoShot, ResumeStarts, Resume, Resumable, BreakerReset
  <1>8. ReadyBeats' /\ (AlarmFails' \/ LiveIsWatched')
    BY DEF RowOK, CallsOK, ShotsOK, NothingYet, ShotFacts, ReadyBeats, LiveIsWatched, Status, Ids, Stamps, Calls, Shots, Dead, Retired, Starting, ResumeStarts, Resume, Resumable, BreakerReset
  <1> QED
    BY <1>1, <1>2, <1>3, <1>4, <1>5, <1>6, <1>7, <1>8

(* RequestRefused keeps the inductive invariant. *)
LEMMA RequestRefusedInv ==
    ASSUME IInv, RequestRefused
    PROVE  IInv'
  <1> USE LifecycleAssumption DEF IInv, TypeOK, row, proc
  <1>1. RowOK'
    BY DEF RowOK, CallsOK, ShotsOK, Status, Ids, Stamps, Calls, Shots, Passes, RequestRefused, UsableSocket, BreakerReset
  <1>2. FlagsOK'
    BY DEF FlagsOK, StopsOK, RequestRefused, UsableSocket, BreakerReset
  <1>3. CallsOK'
    BY DEF RowOK, CallsOK, Ids, Stamps, Calls, NoCall, RequestRefused, UsableSocket, BreakerReset
  <1>4. ShotsOK'
    BY DEF RowOK, ShotsOK, Status, Ids, Stamps, Shots, Passes, NoShot, NoPass, RequestRefused, UsableSocket, BreakerReset
  <1>5. StopsOK'
    BY DEF RowOK, CallsOK, StopsOK, Ids, Stamps, Calls, RequestRefused, UsableSocket, BreakerReset
  <1>6. SocketIsCurrent' /\ NothingYet'
    BY DEF RowOK, CallsOK, SocketIsCurrent, NothingYet, Ids, Stamps, Calls, Starting, Retired, Dead, NoCall, NoPass, RequestRefused, UsableSocket, BreakerReset
  <1>7. ShotFacts'
    BY DEF RowOK, ShotsOK, NothingYet, ShotFacts, Ids, Stamps, Calls, Shots, Dead, NoShot, RequestRefused, UsableSocket, BreakerReset
  <1>8. ReadyBeats' /\ (AlarmFails' \/ LiveIsWatched')
    BY DEF RowOK, CallsOK, ShotsOK, NothingYet, ShotFacts, ReadyBeats, LiveIsWatched, Status, Ids, Stamps, Calls, Shots, Dead, Retired, Starting, RequestRefused, UsableSocket, BreakerReset
  <1> QED
    BY <1>1, <1>2, <1>3, <1>4, <1>5, <1>6, <1>7, <1>8

(* Publish keeps the inductive invariant. *)
LEMMA PublishInv ==
    ASSUME IInv, \E s \in Stamps : Publish(s)
    PROVE  IInv'
  <1> USE LifecycleAssumption DEF IInv, TypeOK, row, proc
  <1>1. RowOK'
    BY DEF RowOK, CallsOK, ShotsOK, Status, Ids, Stamps, Calls, Shots, Passes, Publish, Moves, AttemptEnds
  <1>2. FlagsOK'
    BY DEF FlagsOK, StopsOK, Publish, Moves, AttemptEnds
  <1>3. CallsOK'
    <2>1. PICK s \in Stamps : Publish(s)
      OBVIOUS
    <2>2. 0 \in Ids /\ object \in Ids
      BY DEF RowOK, Ids
    <2>3. CASE Moves(s, "prior", object) \/ Moves(s, "remote", 0)
      BY <2>2, <2>3, MovesType
    <2>4. CASE AttemptEnds(s)
      BY <2>4, NoCallType, ReplaceType DEF AttemptEnds
    <2> QED
      BY <2>1, <2>3, <2>4 DEF Publish
  <1>4. ShotsOK'
    BY DEF RowOK, ShotsOK, Status, Ids, Stamps, Shots, Passes, NoShot, NoPass, Publish, Moves, AttemptEnds
  <1>5. StopsOK'
    BY DEF RowOK, CallsOK, StopsOK, Ids, Stamps, Calls, Publish, Moves, AttemptEnds
  <1>6. SocketIsCurrent' /\ NothingYet'
    BY DEF RowOK, CallsOK, SocketIsCurrent, NothingYet, Ids, Stamps, Calls, Starting, Retired, Dead, NoCall, NoPass, Publish, Moves, AttemptEnds
  <1>7. ShotFacts'
    BY DEF RowOK, ShotsOK, NothingYet, ShotFacts, Ids, Stamps, Calls, Shots, Dead, NoShot, Publish, Moves, AttemptEnds
  <1>8. ReadyBeats' /\ (AlarmFails' \/ LiveIsWatched')
    BY DEF RowOK, CallsOK, ShotsOK, NothingYet, ShotFacts, ReadyBeats, LiveIsWatched, Status, Ids, Stamps, Calls, Shots, Dead, Retired, Starting, Publish, Moves, AttemptEnds
  <1> QED
    BY <1>1, <1>2, <1>3, <1>4, <1>5, <1>6, <1>7, <1>8

(* PriorStopped keeps the inductive invariant. *)
LEMMA PriorStoppedInv ==
    ASSUME IInv, \E s \in Stamps : PriorStopped(s)
    PROVE  IInv'
  <1> USE LifecycleAssumption DEF IInv, TypeOK, row, proc
  <1>1. RowOK'
    BY DEF RowOK, CallsOK, ShotsOK, Status, Ids, Stamps, Calls, Shots, Passes, PriorStopped, Moves
  <1>2. FlagsOK'
    BY DEF FlagsOK, StopsOK, PriorStopped, Moves
  <1>3. CallsOK'
    BY MovesType DEF PriorStopped, Ids
  <1>4. ShotsOK'
    BY DEF RowOK, ShotsOK, Status, Ids, Stamps, Shots, Passes, NoShot, NoPass, PriorStopped, Moves
  <1>5. StopsOK'
    BY DEF RowOK, CallsOK, StopsOK, Ids, Stamps, Calls, PriorStopped, Moves
  <1>6. SocketIsCurrent' /\ NothingYet'
    BY DEF RowOK, CallsOK, SocketIsCurrent, NothingYet, Ids, Stamps, Calls, Starting, Retired, Dead, NoCall, NoPass, PriorStopped, Moves
  <1>7. ShotFacts'
    BY DEF RowOK, ShotsOK, NothingYet, ShotFacts, Ids, Stamps, Calls, Shots, Dead, NoShot, PriorStopped, Moves
  <1>8. ReadyBeats' /\ (AlarmFails' \/ LiveIsWatched')
    BY DEF RowOK, CallsOK, ShotsOK, NothingYet, ShotFacts, ReadyBeats, LiveIsWatched, Status, Ids, Stamps, Calls, Shots, Dead, Retired, Starting, PriorStopped, Moves
  <1> QED
    BY <1>1, <1>2, <1>3, <1>4, <1>5, <1>6, <1>7, <1>8

(* BoxStarts keeps the inductive invariant. *)
LEMMA BoxStartsInv ==
    ASSUME IInv, \E s \in Stamps : BoxStarts(s)
    PROVE  IInv'
  <1> USE LifecycleAssumption DEF IInv, TypeOK, row, proc
  <1>1. RowOK'
    BY DEF RowOK, CallsOK, ShotsOK, Status, Ids, Stamps, Calls, Shots, Passes, BoxStarts, Box
  <1>2. FlagsOK'
    BY DEF FlagsOK, StopsOK, BoxStarts, Box
  <1>3. CallsOK'
    BY DEF RowOK, CallsOK, Ids, Stamps, Calls, NoCall, BoxStarts, Box
  <1>4. ShotsOK'
    BY DEF RowOK, ShotsOK, Status, Ids, Stamps, Shots, Passes, NoShot, NoPass, BoxStarts, Box
  <1>5. StopsOK'
    BY CallType DEF StopsOK, BoxStarts
  <1>6. SocketIsCurrent' /\ NothingYet'
    BY DEF RowOK, CallsOK, SocketIsCurrent, NothingYet, Ids, Stamps, Calls, Starting, Retired, Dead, NoCall, NoPass, BoxStarts, Box
  <1>7. ShotFacts'
    BY DEF RowOK, ShotsOK, NothingYet, ShotFacts, Ids, Stamps, Calls, Shots, Dead, NoShot, BoxStarts, Box
  <1>8. ReadyBeats' /\ (AlarmFails' \/ LiveIsWatched')
    BY DEF RowOK, CallsOK, ShotsOK, NothingYet, ShotFacts, ReadyBeats, LiveIsWatched, Status, Ids, Stamps, Calls, Shots, Dead, Retired, Starting, BoxStarts, Box
  <1> QED
    BY <1>1, <1>2, <1>3, <1>4, <1>5, <1>6, <1>7, <1>8

(* Created keeps the inductive invariant. *)
LEMMA CreatedInv ==
    ASSUME IInv, \E s \in Stamps : Created(s)
    PROVE  IInv'
  <1> USE LifecycleAssumption DEF IInv, TypeOK, row, proc
  <1>1. RowOK'
    BY DEF RowOK, CallsOK, ShotsOK, Status, Ids, Stamps, Calls, Shots, Passes, Created, Moves, Box
  <1>2. FlagsOK'
    BY DEF FlagsOK, StopsOK, Created, Moves, Box
  <1>3. CallsOK'
    BY MovesType, CallType DEF Created
  <1>4. ShotsOK'
    BY DEF RowOK, ShotsOK, Status, Ids, Stamps, Shots, Passes, NoShot, NoPass, Created, Moves, Box
  <1>5. StopsOK'
    BY CallType DEF StopsOK, Created
  <1>6. SocketIsCurrent' /\ NothingYet'
    BY DEF RowOK, CallsOK, SocketIsCurrent, NothingYet, Ids, Stamps, Calls, Starting, Retired, Dead, NoCall, NoPass, Created, Moves, Box
  <1>7. ShotFacts'
    BY DEF RowOK, ShotsOK, NothingYet, ShotFacts, Ids, Stamps, Calls, Shots, Dead, NoShot, Created, Moves, Box
  <1>8. ReadyBeats' /\ (AlarmFails' \/ LiveIsWatched')
    BY DEF RowOK, CallsOK, ShotsOK, NothingYet, ShotFacts, ReadyBeats, LiveIsWatched, Status, Ids, Stamps, Calls, Shots, Dead, Retired, Starting, Created, Moves, Box
  <1> QED
    BY <1>1, <1>2, <1>3, <1>4, <1>5, <1>6, <1>7, <1>8

(* Finish keeps the inductive invariant. *)
LEMMA FinishInv ==
    ASSUME IInv, \E s \in Stamps : Finish(s)
    PROVE  IInv'
  <1> USE LifecycleAssumption DEF IInv, TypeOK, row, proc
  <1>1. RowOK'
    BY DEF RowOK, CallsOK, ShotsOK, Status, Ids, Stamps, Calls, Shots, Passes, Finish, UsableSocket, AttemptEnds
  <1>2. FlagsOK'
    BY DEF FlagsOK, StopsOK, Finish, UsableSocket, AttemptEnds
  <1>3. CallsOK'
    BY DEF RowOK, CallsOK, Ids, Stamps, Calls, NoCall, Finish, UsableSocket, AttemptEnds
  <1>4. ShotsOK'
    BY DEF RowOK, ShotsOK, Status, Ids, Stamps, Shots, Passes, NoShot, NoPass, Finish, UsableSocket, AttemptEnds
  <1>5. StopsOK'
    BY DEF RowOK, CallsOK, StopsOK, Ids, Stamps, Calls, Finish, UsableSocket, AttemptEnds
  <1>6. SocketIsCurrent' /\ NothingYet'
    BY DEF RowOK, CallsOK, SocketIsCurrent, NothingYet, Ids, Stamps, Calls, Starting, Retired, Dead, NoCall, NoPass, Finish, UsableSocket, AttemptEnds
  <1>7. ShotFacts'
    BY DEF RowOK, ShotsOK, NothingYet, ShotFacts, Ids, Stamps, Calls, Shots, Dead, NoShot, Finish, UsableSocket, AttemptEnds
  <1>8. ReadyBeats' /\ (AlarmFails' \/ LiveIsWatched')
    BY DEF RowOK, CallsOK, ShotsOK, NothingYet, ShotFacts, ReadyBeats, LiveIsWatched, Status, Ids, Stamps, Calls, Shots, Dead, Retired, Starting, Finish, UsableSocket, AttemptEnds
  <1> QED
    BY <1>1, <1>2, <1>3, <1>4, <1>5, <1>6, <1>7, <1>8

(* AttemptFails keeps the inductive invariant. *)
LEMMA AttemptFailsInv ==
    ASSUME IInv, \E s \in Stamps : AttemptFails(s)
    PROVE  IInv'
  <1> USE LifecycleAssumption DEF IInv, TypeOK, row, proc
  <1>1. RowOK'
    BY DEF RowOK, CallsOK, ShotsOK, Status, Ids, Stamps, Calls, Shots, Passes, AttemptFails, InFlight, CountFailure, AttemptEnds
  <1>2. FlagsOK'
    BY DEF FlagsOK, StopsOK, AttemptFails, InFlight, CountFailure, AttemptEnds
  <1>3. CallsOK'
    BY DEF RowOK, CallsOK, Ids, Stamps, Calls, NoCall, AttemptFails, InFlight, CountFailure, AttemptEnds
  <1>4. ShotsOK'
    BY DEF RowOK, ShotsOK, Status, Ids, Stamps, Shots, Passes, NoShot, NoPass, AttemptFails, InFlight, CountFailure, AttemptEnds
  <1>5. StopsOK'
    BY DEF RowOK, CallsOK, StopsOK, Ids, Stamps, Calls, AttemptFails, InFlight, CountFailure, AttemptEnds
  <1>6. SocketIsCurrent' /\ NothingYet'
    BY DEF RowOK, CallsOK, SocketIsCurrent, NothingYet, Ids, Stamps, Calls, Starting, Retired, Dead, NoCall, NoPass, AttemptFails, InFlight, CountFailure, AttemptEnds
  <1>7. ShotFacts'
    BY DEF RowOK, ShotsOK, NothingYet, ShotFacts, Ids, Stamps, Calls, Shots, Dead, NoShot, AttemptFails, InFlight, CountFailure, AttemptEnds
  <1>8. ReadyBeats' /\ (AlarmFails' \/ LiveIsWatched')
    BY DEF RowOK, CallsOK, ShotsOK, NothingYet, ShotFacts, ReadyBeats, LiveIsWatched, Status, Ids, Stamps, Calls, Shots, Dead, Retired, Starting, AttemptFails, InFlight, CountFailure, AttemptEnds
  <1> QED
    BY <1>1, <1>2, <1>3, <1>4, <1>5, <1>6, <1>7, <1>8

(* AttemptRetries keeps the inductive invariant. *)
LEMMA AttemptRetriesInv ==
    ASSUME IInv, \E s \in Stamps : AttemptRetries(s)
    PROVE  IInv'
  <1> USE LifecycleAssumption DEF IInv, TypeOK, row, proc
  <1>1. RowOK'
    <2>1. PICK n \in Stamps, kind \in {"spawn", "retry"} : Reserve(n, kind)
      BY DEF AttemptRetries
    <2>2. failures' \in Nat
      <3>1. UNCHANGED failures \/ CountFailure
        BY DEF AttemptRetries
      <3> QED
        BY <3>1 DEF RowOK, CountFailure
    <2>3. UNCHANGED snap
      BY DEF AttemptRetries
    <2> QED
      BY <2>1, <2>2, <2>3 DEF RowOK, Reserve, Status, Ids, Stamps
  <1>2. FlagsOK'
    BY DEF FlagsOK, StopsOK, AttemptRetries, Reserve, Enters, CountFailure, AttemptEnds
  <1>3. CallsOK'
    <2>1. PICK s \in Stamps : AttemptRetries(s)
      OBVIOUS
    <2>2. CASE AttemptEnds(s)
      BY <2>2, NoCallType, ReplaceType DEF AttemptEnds
    <2>3. ASSUME NEW n \in Stamps, NEW kind \in {"spawn", "retry"},
                 call' = [call EXCEPT ![s] = NoCall, ![n] = Enters(kind)]
          PROVE  CallsOK'
      <3>1. Enters(kind) \in Calls
        BY DEF Enters, Calls, Ids
      <3> QED
        BY <2>3, <3>1, NoCallType DEF CallsOK
    <2> QED
      BY <2>1, <2>2, <2>3 DEF AttemptRetries
  <1>4. ShotsOK'
    BY DEF RowOK, ShotsOK, Status, Ids, Stamps, Shots, Passes, NoShot, NoPass, AttemptRetries, Reserve, Enters, CountFailure, AttemptEnds
  <1>5. StopsOK'
    BY DEF RowOK, CallsOK, StopsOK, Ids, Stamps, Calls, AttemptRetries, Reserve, Enters, CountFailure, AttemptEnds
  <1>6. SocketIsCurrent' /\ NothingYet'
    BY DEF RowOK, CallsOK, SocketIsCurrent, NothingYet, Ids, Stamps, Calls, Starting, Retired, Dead, NoCall, NoPass, AttemptRetries, Reserve, Enters, CountFailure, AttemptEnds
  <1>7. ShotFacts'
    BY DEF RowOK, ShotsOK, NothingYet, ShotFacts, Ids, Stamps, Calls, Shots, Dead, NoShot, AttemptRetries, Reserve, Enters, CountFailure, AttemptEnds
  <1>8. ReadyBeats' /\ (AlarmFails' \/ LiveIsWatched')
    BY DEF RowOK, CallsOK, ShotsOK, NothingYet, ShotFacts, ReadyBeats, LiveIsWatched, Status, Ids, Stamps, Calls, Shots, Dead, Retired, Starting, AttemptRetries, Reserve, Enters, CountFailure, AttemptEnds
  <1> QED
    BY <1>1, <1>2, <1>3, <1>4, <1>5, <1>6, <1>7, <1>8

(* Connect keeps the inductive invariant. *)
LEMMA ConnectInv ==
    ASSUME IInv, \E s \in Stamps : Connect(s)
    PROVE  IInv'
  <1> USE LifecycleAssumption DEF IInv, TypeOK, row, proc
  <1>1. RowOK'
    <2>1. PICK s \in Stamps : Connect(s)
      OBVIOUS
    <2>2. status' \in Status /\ sock' \in Ids /\ beat' = "fresh"
      BY <2>1 DEF Connect, RowOK, Status, Ids, Stamps
    <2>3. UNCHANGED <<id, stamp, hash, object, snap, failures, age>>
      BY <2>1 DEF Connect
    <2> QED
      BY <2>2, <2>3 DEF RowOK
  <1>2. FlagsOK'
    BY DEF FlagsOK, StopsOK, Connect
  <1>3. CallsOK'
    BY DEF RowOK, CallsOK, Ids, Stamps, Calls, NoCall, Connect
  <1>4. ShotsOK'
    BY DEF RowOK, ShotsOK, Status, Ids, Stamps, Shots, Passes, NoShot, NoPass, Connect
  <1>5. StopsOK'
    BY DEF RowOK, CallsOK, StopsOK, Ids, Stamps, Calls, Connect
  <1>6. SocketIsCurrent' /\ NothingYet'
    BY DEF RowOK, CallsOK, SocketIsCurrent, NothingYet, Ids, Stamps, Calls, Starting, Retired, Dead, NoCall, NoPass, Connect
  <1>7. ShotFacts'
    BY DEF RowOK, ShotsOK, NothingYet, ShotFacts, Ids, Stamps, Calls, Shots, Dead, NoShot, Connect
  <1>8. ReadyBeats' /\ (AlarmFails' \/ LiveIsWatched')
    BY DEF RowOK, CallsOK, ShotsOK, NothingYet, ShotFacts, ReadyBeats, LiveIsWatched, Status, Ids, Stamps, Calls, Shots, Dead, Retired, Starting, Connect
  <1> QED
    BY <1>1, <1>2, <1>3, <1>4, <1>5, <1>6, <1>7, <1>8

(* SandboxDies keeps the inductive invariant. *)
LEMMA SandboxDiesInv ==
    ASSUME IInv, \E s \in Stamps : SandboxDies(s)
    PROVE  IInv'
  <1> USE LifecycleAssumption DEF IInv, TypeOK, row, proc
  <1>1. RowOK'
    BY DEF RowOK, CallsOK, ShotsOK, Status, Ids, Stamps, Calls, Shots, Passes, SandboxDies
  <1>2. FlagsOK'
    BY DEF FlagsOK, StopsOK, SandboxDies
  <1>3. CallsOK'
    BY DEF RowOK, CallsOK, Ids, Stamps, Calls, NoCall, SandboxDies
  <1>4. ShotsOK'
    BY DEF RowOK, ShotsOK, Status, Ids, Stamps, Shots, Passes, NoShot, NoPass, SandboxDies
  <1>5. StopsOK'
    BY DEF RowOK, CallsOK, StopsOK, Ids, Stamps, Calls, SandboxDies
  <1>6. SocketIsCurrent' /\ NothingYet'
    BY DEF RowOK, CallsOK, SocketIsCurrent, NothingYet, Ids, Stamps, Calls, Starting, Retired, Dead, NoCall, NoPass, SandboxDies
  <1>7. ShotFacts'
    BY DEF RowOK, ShotsOK, NothingYet, ShotFacts, Ids, Stamps, Calls, Shots, Dead, NoShot, SandboxDies
  <1>8. ReadyBeats' /\ (AlarmFails' \/ LiveIsWatched')
    BY DEF RowOK, CallsOK, ShotsOK, NothingYet, ShotFacts, ReadyBeats, LiveIsWatched, Status, Ids, Stamps, Calls, Shots, Dead, Retired, Starting, SandboxDies
  <1> QED
    BY <1>1, <1>2, <1>3, <1>4, <1>5, <1>6, <1>7, <1>8

(* Disconnect keeps the inductive invariant. *)
LEMMA DisconnectInv ==
    ASSUME IInv, Disconnect
    PROVE  IInv'
  <1> USE LifecycleAssumption DEF IInv, TypeOK, row, proc
  <1>1. RowOK'
    BY DEF RowOK, CallsOK, ShotsOK, Status, Ids, Stamps, Calls, Shots, Passes, Disconnect
  <1>2. FlagsOK'
    BY DEF FlagsOK, StopsOK, Disconnect
  <1>3. CallsOK'
    BY DEF RowOK, CallsOK, Ids, Stamps, Calls, NoCall, Disconnect
  <1>4. ShotsOK'
    BY DEF RowOK, ShotsOK, Status, Ids, Stamps, Shots, Passes, NoShot, NoPass, Disconnect
  <1>5. StopsOK'
    BY DEF RowOK, CallsOK, StopsOK, Ids, Stamps, Calls, Disconnect
  <1>6. SocketIsCurrent' /\ NothingYet'
    BY DEF RowOK, CallsOK, SocketIsCurrent, NothingYet, Ids, Stamps, Calls, Starting, Retired, Dead, NoCall, NoPass, Disconnect
  <1>7. ShotFacts'
    BY DEF RowOK, ShotsOK, NothingYet, ShotFacts, Ids, Stamps, Calls, Shots, Dead, NoShot, Disconnect
  <1>8. ReadyBeats' /\ (AlarmFails' \/ LiveIsWatched')
    BY DEF RowOK, CallsOK, ShotsOK, NothingYet, ShotFacts, ReadyBeats, LiveIsWatched, Status, Ids, Stamps, Calls, Shots, Dead, Retired, Starting, Disconnect
  <1> QED
    BY <1>1, <1>2, <1>3, <1>4, <1>5, <1>6, <1>7, <1>8

(* Heartbeat keeps the inductive invariant. *)
LEMMA HeartbeatInv ==
    ASSUME IInv, Heartbeat
    PROVE  IInv'
  <1> USE LifecycleAssumption DEF IInv, TypeOK, row, proc
  <1>1. RowOK'
    BY DEF RowOK, CallsOK, ShotsOK, Status, Ids, Stamps, Calls, Shots, Passes, Heartbeat
  <1>2. FlagsOK'
    BY DEF FlagsOK, StopsOK, Heartbeat
  <1>3. CallsOK'
    BY DEF RowOK, CallsOK, Ids, Stamps, Calls, NoCall, Heartbeat
  <1>4. ShotsOK'
    BY DEF RowOK, ShotsOK, Status, Ids, Stamps, Shots, Passes, NoShot, NoPass, Heartbeat
  <1>5. StopsOK'
    BY DEF RowOK, CallsOK, StopsOK, Ids, Stamps, Calls, Heartbeat
  <1>6. SocketIsCurrent' /\ NothingYet'
    BY DEF RowOK, CallsOK, SocketIsCurrent, NothingYet, Ids, Stamps, Calls, Starting, Retired, Dead, NoCall, NoPass, Heartbeat
  <1>7. ShotFacts'
    BY DEF RowOK, ShotsOK, NothingYet, ShotFacts, Ids, Stamps, Calls, Shots, Dead, NoShot, Heartbeat
  <1>8. ReadyBeats' /\ (AlarmFails' \/ LiveIsWatched')
    BY DEF RowOK, CallsOK, ShotsOK, NothingYet, ShotFacts, ReadyBeats, LiveIsWatched, Status, Ids, Stamps, Calls, Shots, Dead, Retired, Starting, Heartbeat
  <1> QED
    BY <1>1, <1>2, <1>3, <1>4, <1>5, <1>6, <1>7, <1>8

(* TurnEnds keeps the inductive invariant. *)
LEMMA TurnEndsInv ==
    ASSUME IInv, TurnEnds
    PROVE  IInv'
  <1> USE LifecycleAssumption DEF IInv, TypeOK, row, proc
  <1>1. RowOK'
    BY DEF RowOK, CallsOK, ShotsOK, Status, Ids, Stamps, Calls, Shots, Passes, TurnEnds
  <1>2. FlagsOK'
    BY DEF FlagsOK, StopsOK, TurnEnds
  <1>3. CallsOK'
    BY DEF RowOK, CallsOK, Ids, Stamps, Calls, NoCall, TurnEnds
  <1>4. ShotsOK'
    BY DEF RowOK, ShotsOK, Status, Ids, Stamps, Shots, Passes, NoShot, NoPass, TurnEnds
  <1>5. StopsOK'
    BY DEF RowOK, CallsOK, StopsOK, Ids, Stamps, Calls, TurnEnds
  <1>6. SocketIsCurrent' /\ NothingYet'
    BY DEF RowOK, CallsOK, SocketIsCurrent, NothingYet, Ids, Stamps, Calls, Starting, Retired, Dead, NoCall, NoPass, TurnEnds
  <1>7. ShotFacts'
    BY DEF RowOK, ShotsOK, NothingYet, ShotFacts, Ids, Stamps, Calls, Shots, Dead, NoShot, TurnEnds
  <1>8. ReadyBeats' /\ (AlarmFails' \/ LiveIsWatched')
    BY DEF RowOK, CallsOK, ShotsOK, NothingYet, ShotFacts, ReadyBeats, LiveIsWatched, Status, Ids, Stamps, Calls, Shots, Dead, Retired, Starting, TurnEnds
  <1> QED
    BY <1>1, <1>2, <1>3, <1>4, <1>5, <1>6, <1>7, <1>8

(* SnapshotTurn keeps the inductive invariant. *)
LEMMA SnapshotTurnInv ==
    ASSUME IInv, SnapshotTurn
    PROVE  IInv'
  <1> USE LifecycleAssumption DEF IInv, TypeOK, row, proc
  <1>1. RowOK'
    BY DEF RowOK, CallsOK, ShotsOK, Status, Ids, Stamps, Calls, Shots, Passes, SnapshotTurn, Photographable, Shot
  <1>2. FlagsOK'
    BY DEF FlagsOK, StopsOK, SnapshotTurn, Photographable, Shot
  <1>3. CallsOK'
    BY DEF RowOK, CallsOK, Ids, Stamps, Calls, NoCall, SnapshotTurn, Photographable, Shot
  <1>4. ShotsOK'
    BY DEF RowOK, ShotsOK, Status, Ids, Stamps, Shots, Passes, NoShot, NoPass, SnapshotTurn, Photographable, Shot
  <1>5. StopsOK'
    BY DEF RowOK, CallsOK, StopsOK, Ids, Stamps, Calls, SnapshotTurn, Photographable, Shot
  <1>6. SocketIsCurrent' /\ NothingYet'
    BY DEF RowOK, CallsOK, SocketIsCurrent, NothingYet, Ids, Stamps, Calls, Starting, Retired, Dead, NoCall, NoPass, SnapshotTurn, Photographable, Shot
  <1>7. ShotFacts'
    <2>1. CASE UNCHANGED shots
      BY <2>1 DEF SnapshotTurn, ShotFacts
    <2>2. ASSUME NEW j \in Slots, shots' = [shots EXCEPT ![j] = Shot], object # 0,
                 UNCHANGED <<stamp, beat>>
          PROVE  ShotFacts'
      <3>1. Shot.stamp = stamp /\ Shot.prev = status
        BY DEF Shot
      <3>2. status = "ready" => beat # "none"
        BY DEF ReadyBeats
      <3>3. status \in Status \ {"pending"} /\ stamp <= stamp
        BY <2>2 DEF RowOK, NothingYet, Ids
      <3> QED
        BY <2>2, <3>1, <3>2, <3>3 DEF ShotFacts, ShotsOK
    <2> QED
      BY <2>1, <2>2 DEF SnapshotTurn, Photographable
  <1>8. ReadyBeats' /\ (AlarmFails' \/ LiveIsWatched')
    BY DEF RowOK, CallsOK, ShotsOK, NothingYet, ShotFacts, ReadyBeats, LiveIsWatched, Status, Ids, Stamps, Calls, Shots, Dead, Retired, Starting, SnapshotTurn, Photographable, Shot
  <1> QED
    BY <1>1, <1>2, <1>3, <1>4, <1>5, <1>6, <1>7, <1>8

(* SnapshotDone keeps the inductive invariant. *)
LEMMA SnapshotDoneInv ==
    ASSUME IInv, \E k \in Slots : SnapshotDone(k)
    PROVE  IInv'
  <1> USE LifecycleAssumption DEF IInv, TypeOK, row, proc
  <1>1. RowOK'
    <2>1. PICK k \in Slots : SnapshotDone(k)
      OBVIOUS
    <2>2. shots[k] \in Shots /\ shots[k].prev \in Status \ {"pending"}
      BY <2>1 DEF SnapshotDone, ShotsOK, ShotFacts
    <2>3. shots[k].obj \in Ids
      BY <2>2 DEF Shots
    <2>4. snap' \in Ids
      BY <2>1, <2>3 DEF SnapshotDone, Recorded, RowOK
    <2> QED
      BY <2>1, <2>2, <2>4 DEF SnapshotDone, RowOK
  <1>2. FlagsOK'
    BY DEF FlagsOK, StopsOK, SnapshotDone, Recorded
  <1>3. CallsOK'
    BY DEF RowOK, CallsOK, Ids, Stamps, Calls, NoCall, SnapshotDone, Recorded
  <1>4. ShotsOK'
    BY DEF RowOK, ShotsOK, Status, Ids, Stamps, Shots, Passes, NoShot, NoPass, SnapshotDone, Recorded
  <1>5. StopsOK'
    BY DEF RowOK, CallsOK, StopsOK, Ids, Stamps, Calls, SnapshotDone, Recorded
  <1>6. SocketIsCurrent' /\ NothingYet'
    <2>1. PICK k \in Slots : SnapshotDone(k)
      OBVIOUS
    <2>2. status' = "pending" => status = "pending"
      BY <2>1 DEF SnapshotDone, ShotFacts
    <2> QED
      BY <2>1, <2>2 DEF SnapshotDone, SocketIsCurrent, NothingYet
  <1>7. ShotFacts'
    BY DEF RowOK, ShotsOK, NothingYet, ShotFacts, Ids, Stamps, Calls, Shots, Dead, NoShot, SnapshotDone, Recorded
  <1>8. ReadyBeats' /\ (AlarmFails' \/ LiveIsWatched')
    BY DEF RowOK, CallsOK, ShotsOK, NothingYet, ShotFacts, ReadyBeats, LiveIsWatched, Status, Ids, Stamps, Calls, Shots, Dead, Retired, Starting, SnapshotDone, Recorded
  <1> QED
    BY <1>1, <1>2, <1>3, <1>4, <1>5, <1>6, <1>7, <1>8

(* StopDone keeps the inductive invariant. *)
LEMMA StopDoneInv ==
    ASSUME IInv, \E x \in stops : StopDone(x)
    PROVE  IInv'
  <1> USE LifecycleAssumption DEF IInv, TypeOK, row, proc
  <1>1. RowOK'
    BY DEF RowOK, CallsOK, ShotsOK, Status, Ids, Stamps, Calls, Shots, Passes, StopDone
  <1>2. FlagsOK'
    BY DEF FlagsOK, StopsOK, StopDone
  <1>3. CallsOK'
    BY DEF RowOK, CallsOK, Ids, Stamps, Calls, NoCall, StopDone
  <1>4. ShotsOK'
    BY DEF RowOK, ShotsOK, Status, Ids, Stamps, Shots, Passes, NoShot, NoPass, StopDone
  <1>5. StopsOK'
    BY DEF RowOK, CallsOK, StopsOK, Ids, Stamps, Calls, StopDone
  <1>6. SocketIsCurrent' /\ NothingYet'
    BY DEF RowOK, CallsOK, SocketIsCurrent, NothingYet, Ids, Stamps, Calls, Starting, Retired, Dead, NoCall, NoPass, StopDone
  <1>7. ShotFacts'
    BY DEF RowOK, ShotsOK, NothingYet, ShotFacts, Ids, Stamps, Calls, Shots, Dead, NoShot, StopDone
  <1>8. ReadyBeats' /\ (AlarmFails' \/ LiveIsWatched')
    BY DEF RowOK, CallsOK, ShotsOK, NothingYet, ShotFacts, ReadyBeats, LiveIsWatched, Status, Ids, Stamps, Calls, Shots, Dead, Retired, Starting, StopDone
  <1> QED
    BY <1>1, <1>2, <1>3, <1>4, <1>5, <1>6, <1>7, <1>8

(* TerminateUnresponsive keeps the inductive invariant. *)
LEMMA TerminateUnresponsiveInv ==
    ASSUME IInv, TerminateUnresponsive
    PROVE  IInv'
  <1> USE LifecycleAssumption DEF IInv, TypeOK, row, proc
  <1>1. RowOK'
    BY DEF RowOK, CallsOK, ShotsOK, Status, Ids, Stamps, Calls, Shots, Passes, TerminateUnresponsive, Stops
  <1>2. FlagsOK'
    BY DEF FlagsOK, StopsOK, TerminateUnresponsive, Stops
  <1>3. CallsOK'
    BY DEF RowOK, CallsOK, Ids, Stamps, Calls, NoCall, TerminateUnresponsive, Stops
  <1>4. ShotsOK'
    BY DEF RowOK, ShotsOK, Status, Ids, Stamps, Shots, Passes, NoShot, NoPass, TerminateUnresponsive, Stops
  <1>5. StopsOK'
    BY StopsType DEF StopsOK, TerminateUnresponsive
  <1>6. SocketIsCurrent' /\ NothingYet'
    BY DEF RowOK, CallsOK, SocketIsCurrent, NothingYet, Ids, Stamps, Calls, Starting, Retired, Dead, NoCall, NoPass, TerminateUnresponsive, Stops
  <1>7. ShotFacts'
    BY DEF RowOK, ShotsOK, NothingYet, ShotFacts, Ids, Stamps, Calls, Shots, Dead, NoShot, TerminateUnresponsive, Stops
  <1>8. ReadyBeats' /\ (AlarmFails' \/ LiveIsWatched')
    BY DEF RowOK, CallsOK, ShotsOK, NothingYet, ShotFacts, ReadyBeats, LiveIsWatched, Status, Ids, Stamps, Calls, Shots, Dead, Retired, Starting, TerminateUnresponsive, Stops
  <1> QED
    BY <1>1, <1>2, <1>3, <1>4, <1>5, <1>6, <1>7, <1>8

(* TerminateFailed keeps the inductive invariant. *)
LEMMA TerminateFailedInv ==
    ASSUME IInv, TerminateFailed
    PROVE  IInv'
  <1> USE LifecycleAssumption DEF IInv, TypeOK, row, proc
  <1>1. RowOK'
    BY DEF RowOK, CallsOK, ShotsOK, Status, Ids, Stamps, Calls, Shots, Passes, TerminateFailed, Stops
  <1>2. FlagsOK'
    BY DEF FlagsOK, StopsOK, TerminateFailed, Stops
  <1>3. CallsOK'
    BY DEF RowOK, CallsOK, Ids, Stamps, Calls, NoCall, TerminateFailed, Stops
  <1>4. ShotsOK'
    BY DEF RowOK, ShotsOK, Status, Ids, Stamps, Shots, Passes, NoShot, NoPass, TerminateFailed, Stops
  <1>5. StopsOK'
    BY StopsType DEF StopsOK, TerminateFailed
  <1>6. SocketIsCurrent' /\ NothingYet'
    BY DEF RowOK, CallsOK, SocketIsCurrent, NothingYet, Ids, Stamps, Calls, Starting, Retired, Dead, NoCall, NoPass, TerminateFailed, Stops
  <1>7. ShotFacts'
    BY DEF RowOK, ShotsOK, NothingYet, ShotFacts, Ids, Stamps, Calls, Shots, Dead, NoShot, TerminateFailed, Stops
  <1>8. ReadyBeats' /\ (AlarmFails' \/ LiveIsWatched')
    BY DEF RowOK, CallsOK, ShotsOK, NothingYet, ShotFacts, ReadyBeats, LiveIsWatched, Status, Ids, Stamps, Calls, Shots, Dead, Retired, Starting, TerminateFailed, Stops
  <1> QED
    BY <1>1, <1>2, <1>3, <1>4, <1>5, <1>6, <1>7, <1>8

(* Cancel keeps the inductive invariant. *)
LEMMA CancelInv ==
    ASSUME IInv, Cancel
    PROVE  IInv'
  <1> USE LifecycleAssumption DEF IInv, TypeOK, row, proc
  <1>1. RowOK'
    BY DEF RowOK, CallsOK, ShotsOK, Status, Ids, Stamps, Calls, Shots, Passes, Cancel
  <1>2. FlagsOK'
    BY DEF FlagsOK, StopsOK, Cancel
  <1>3. CallsOK'
    BY DEF RowOK, CallsOK, Ids, Stamps, Calls, NoCall, Cancel
  <1>4. ShotsOK'
    BY DEF RowOK, ShotsOK, Status, Ids, Stamps, Shots, Passes, NoShot, NoPass, Cancel
  <1>5. StopsOK'
    BY DEF RowOK, CallsOK, StopsOK, Ids, Stamps, Calls, Cancel
  <1>6. SocketIsCurrent' /\ NothingYet'
    BY DEF RowOK, CallsOK, SocketIsCurrent, NothingYet, Ids, Stamps, Calls, Starting, Retired, Dead, NoCall, NoPass, Cancel
  <1>7. ShotFacts'
    BY DEF RowOK, ShotsOK, NothingYet, ShotFacts, Ids, Stamps, Calls, Shots, Dead, NoShot, Cancel
  <1>8. ReadyBeats' /\ (AlarmFails' \/ LiveIsWatched')
    BY DEF RowOK, CallsOK, ShotsOK, NothingYet, ShotFacts, ReadyBeats, LiveIsWatched, Status, Ids, Stamps, Calls, Shots, Dead, Retired, Starting, Cancel
  <1> QED
    BY <1>1, <1>2, <1>3, <1>4, <1>5, <1>6, <1>7, <1>8

(* AlarmDead keeps the inductive invariant. *)
LEMMA AlarmDeadInv ==
    ASSUME IInv, AlarmDead
    PROVE  IInv'
  <1> USE LifecycleAssumption DEF IInv, TypeOK, row, proc
  <1>1. RowOK'
    BY DEF RowOK, CallsOK, ShotsOK, Status, Ids, Stamps, Calls, Shots, Passes, AlarmDead
  <1>2. FlagsOK'
    BY DEF FlagsOK, StopsOK, AlarmDead
  <1>3. CallsOK'
    BY DEF RowOK, CallsOK, Ids, Stamps, Calls, NoCall, AlarmDead
  <1>4. ShotsOK'
    BY DEF RowOK, ShotsOK, Status, Ids, Stamps, Shots, Passes, NoShot, NoPass, AlarmDead
  <1>5. StopsOK'
    BY DEF RowOK, CallsOK, StopsOK, Ids, Stamps, Calls, AlarmDead
  <1>6. SocketIsCurrent' /\ NothingYet'
    BY DEF RowOK, CallsOK, SocketIsCurrent, NothingYet, Ids, Stamps, Calls, Starting, Retired, Dead, NoCall, NoPass, AlarmDead
  <1>7. ShotFacts'
    BY DEF RowOK, ShotsOK, NothingYet, ShotFacts, Ids, Stamps, Calls, Shots, Dead, NoShot, AlarmDead
  <1>8. ReadyBeats' /\ (AlarmFails' \/ LiveIsWatched')
    BY DEF RowOK, CallsOK, ShotsOK, NothingYet, ShotFacts, ReadyBeats, LiveIsWatched, Status, Ids, Stamps, Calls, Shots, Dead, Retired, Starting, AlarmDead
  <1> QED
    BY <1>1, <1>2, <1>3, <1>4, <1>5, <1>6, <1>7, <1>8

(* ConnectingTimeout keeps the inductive invariant. *)
LEMMA ConnectingTimeoutInv ==
    ASSUME IInv, ConnectingTimeout
    PROVE  IInv'
  <1> USE LifecycleAssumption DEF IInv, TypeOK, row, proc
  <1>1. RowOK'
    BY DEF RowOK, CallsOK, ShotsOK, Status, Ids, Stamps, Calls, Shots, Passes, ConnectingTimeout, TimedOut, PassStops
  <1>2. FlagsOK'
    BY DEF FlagsOK, StopsOK, ConnectingTimeout, TimedOut, PassStops
  <1>3. CallsOK'
    BY DEF RowOK, CallsOK, Ids, Stamps, Calls, NoCall, ConnectingTimeout, TimedOut, PassStops
  <1>4. ShotsOK'
    BY PassType DEF ShotsOK, ConnectingTimeout
  <1>5. StopsOK'
    BY DEF RowOK, CallsOK, StopsOK, Ids, Stamps, Calls, ConnectingTimeout, TimedOut, PassStops
  <1>6. SocketIsCurrent' /\ NothingYet'
    BY DEF RowOK, CallsOK, SocketIsCurrent, NothingYet, Ids, Stamps, Calls, Starting, Retired, Dead, NoCall, NoPass, ConnectingTimeout, TimedOut, PassStops
  <1>7. ShotFacts'
    BY DEF RowOK, ShotsOK, NothingYet, ShotFacts, Ids, Stamps, Calls, Shots, Dead, NoShot, ConnectingTimeout, TimedOut, PassStops
  <1>8. ReadyBeats' /\ (AlarmFails' \/ LiveIsWatched')
    BY DEF RowOK, CallsOK, ShotsOK, NothingYet, ShotFacts, ReadyBeats, LiveIsWatched, Status, Ids, Stamps, Calls, Shots, Dead, Retired, Starting, ConnectingTimeout, TimedOut, PassStops
  <1> QED
    BY <1>1, <1>2, <1>3, <1>4, <1>5, <1>6, <1>7, <1>8

(* HeartbeatStale keeps the inductive invariant. *)
LEMMA HeartbeatStaleInv ==
    ASSUME IInv, HeartbeatStale
    PROVE  IInv'
  <1> USE LifecycleAssumption DEF IInv, TypeOK, row, proc
  <1>1. RowOK'
    BY DEF RowOK, CallsOK, ShotsOK, Status, Ids, Stamps, Calls, Shots, Passes, HeartbeatStale, Retire, PassStops, Photographable, Shot
  <1>2. FlagsOK'
    BY DEF FlagsOK, StopsOK, HeartbeatStale, Retire, PassStops, Photographable, Shot
  <1>3. CallsOK'
    BY DEF RowOK, CallsOK, Ids, Stamps, Calls, NoCall, HeartbeatStale, Retire, PassStops, Photographable, Shot
  <1>4. ShotsOK'
    <2>1. Retire("stale")
      BY DEF HeartbeatStale
    <2>2. CASE PassStops(TRUE) /\ UNCHANGED shots
      BY <2>2, PassType DEF ShotsOK
    <2>3. CASE pass' = NoPass /\ \E k \in Slots : shots' = [shots EXCEPT ![k] = [Shot EXCEPT !.prev = "stale"]]
      BY <2>3, ShotType DEF ShotsOK, NoPass, Passes, Ids
    <2>4. CASE pass' = [at |-> "snapshot", obj |-> object, id |-> id, detach |-> TRUE] /\ UNCHANGED shots
      BY <2>4 DEF ShotsOK, RowOK, Passes
    <2> QED
      BY <2>1, <2>2, <2>3, <2>4 DEF Retire
  <1>5. StopsOK'
    BY DEF RowOK, CallsOK, StopsOK, Ids, Stamps, Calls, HeartbeatStale, Retire, PassStops, Photographable, Shot
  <1>6. SocketIsCurrent' /\ NothingYet'
    BY DEF RowOK, CallsOK, SocketIsCurrent, NothingYet, Ids, Stamps, Calls, Starting, Retired, Dead, NoCall, NoPass, HeartbeatStale, Retire, PassStops, Photographable, Shot
  <1>7. ShotFacts'
    <2>1. CASE UNCHANGED shots
      BY <2>1 DEF HeartbeatStale, Retire, ShotFacts
    <2>2. ASSUME NEW j \in Slots, shots' = [shots EXCEPT ![j] = [Shot EXCEPT !.prev = "stale"]]
          PROVE  ShotFacts'
      <3>1. [Shot EXCEPT !.prev = "stale"].prev = "stale" /\ [Shot EXCEPT !.prev = "stale"].stamp = stamp
        BY DEF Shot
      <3>2. UNCHANGED <<stamp, beat>>
        BY DEF HeartbeatStale, Retire
      <3> QED
        BY <2>2, <3>1, <3>2 DEF ShotFacts, ShotsOK, RowOK, Ids, Status
    <2> QED
      BY <2>1, <2>2 DEF HeartbeatStale, Retire
  <1>8. ReadyBeats' /\ (AlarmFails' \/ LiveIsWatched')
    BY DEF RowOK, CallsOK, ShotsOK, NothingYet, ShotFacts, ReadyBeats, LiveIsWatched, Status, Ids, Stamps, Calls, Shots, Dead, Retired, Starting, HeartbeatStale, Retire, PassStops, Photographable, Shot
  <1> QED
    BY <1>1, <1>2, <1>3, <1>4, <1>5, <1>6, <1>7, <1>8

(* InactivityTimeout keeps the inductive invariant. *)
LEMMA InactivityTimeoutInv ==
    ASSUME IInv, InactivityTimeout
    PROVE  IInv'
  <1> USE LifecycleAssumption DEF IInv, TypeOK, row, proc
  <1>1. RowOK'
    BY DEF RowOK, CallsOK, ShotsOK, Status, Ids, Stamps, Calls, Shots, Passes, InactivityTimeout, Retire, PassStops, Photographable, Shot
  <1>2. FlagsOK'
    BY DEF FlagsOK, StopsOK, InactivityTimeout, Retire, PassStops, Photographable, Shot
  <1>3. CallsOK'
    BY DEF RowOK, CallsOK, Ids, Stamps, Calls, NoCall, InactivityTimeout, Retire, PassStops, Photographable, Shot
  <1>4. ShotsOK'
    <2>1. Retire("stopped")
      BY DEF InactivityTimeout
    <2>2. CASE PassStops(TRUE) /\ UNCHANGED shots
      BY <2>2, PassType DEF ShotsOK
    <2>3. CASE pass' = NoPass /\ \E k \in Slots : shots' = [shots EXCEPT ![k] = [Shot EXCEPT !.prev = "stale"]]
      BY <2>3, ShotType DEF ShotsOK, NoPass, Passes, Ids
    <2>4. CASE pass' = [at |-> "snapshot", obj |-> object, id |-> id, detach |-> TRUE] /\ UNCHANGED shots
      BY <2>4 DEF ShotsOK, RowOK, Passes
    <2> QED
      BY <2>1, <2>2, <2>3, <2>4 DEF Retire
  <1>5. StopsOK'
    BY DEF RowOK, CallsOK, StopsOK, Ids, Stamps, Calls, InactivityTimeout, Retire, PassStops, Photographable, Shot
  <1>6. SocketIsCurrent' /\ NothingYet'
    BY DEF RowOK, CallsOK, SocketIsCurrent, NothingYet, Ids, Stamps, Calls, Starting, Retired, Dead, NoCall, NoPass, InactivityTimeout, Retire, PassStops, Photographable, Shot
  <1>7. ShotFacts'
    BY DEF RowOK, ShotsOK, NothingYet, ShotFacts, Ids, Stamps, Calls, Shots, Dead, NoShot, InactivityTimeout, Retire, PassStops, Photographable, Shot
  <1>8. ReadyBeats' /\ (AlarmFails' \/ LiveIsWatched')
    BY DEF RowOK, CallsOK, ShotsOK, NothingYet, ShotFacts, ReadyBeats, LiveIsWatched, Status, Ids, Stamps, Calls, Shots, Dead, Retired, Starting, InactivityTimeout, Retire, PassStops, Photographable, Shot
  <1> QED
    BY <1>1, <1>2, <1>3, <1>4, <1>5, <1>6, <1>7, <1>8

(* AlarmAgain keeps the inductive invariant. *)
LEMMA AlarmAgainInv ==
    ASSUME IInv, AlarmAgain
    PROVE  IInv'
  <1> USE LifecycleAssumption DEF IInv, TypeOK, row, proc
  <1>1. RowOK'
    BY DEF RowOK, CallsOK, ShotsOK, Status, Ids, Stamps, Calls, Shots, Passes, AlarmAgain
  <1>2. FlagsOK'
    BY DEF FlagsOK, StopsOK, AlarmAgain
  <1>3. CallsOK'
    BY DEF RowOK, CallsOK, Ids, Stamps, Calls, NoCall, AlarmAgain
  <1>4. ShotsOK'
    BY DEF RowOK, ShotsOK, Status, Ids, Stamps, Shots, Passes, NoShot, NoPass, AlarmAgain
  <1>5. StopsOK'
    BY DEF RowOK, CallsOK, StopsOK, Ids, Stamps, Calls, AlarmAgain
  <1>6. SocketIsCurrent' /\ NothingYet'
    BY DEF RowOK, CallsOK, SocketIsCurrent, NothingYet, Ids, Stamps, Calls, Starting, Retired, Dead, NoCall, NoPass, AlarmAgain
  <1>7. ShotFacts'
    BY DEF RowOK, ShotsOK, NothingYet, ShotFacts, Ids, Stamps, Calls, Shots, Dead, NoShot, AlarmAgain
  <1>8. ReadyBeats' /\ (AlarmFails' \/ LiveIsWatched')
    BY DEF RowOK, CallsOK, ShotsOK, NothingYet, ShotFacts, ReadyBeats, LiveIsWatched, Status, Ids, Stamps, Calls, Shots, Dead, Retired, Starting, AlarmAgain
  <1> QED
    BY <1>1, <1>2, <1>3, <1>4, <1>5, <1>6, <1>7, <1>8

(* PassSnapshotDone keeps the inductive invariant. *)
LEMMA PassSnapshotDoneInv ==
    ASSUME IInv, PassSnapshotDone
    PROVE  IInv'
  <1> USE LifecycleAssumption DEF IInv, TypeOK, row, proc
  <1>1. RowOK'
    BY DEF RowOK, CallsOK, ShotsOK, Status, Ids, Stamps, Calls, Shots, Passes, PassSnapshotDone, Recorded, PassStops
  <1>2. FlagsOK'
    BY DEF FlagsOK, StopsOK, PassSnapshotDone, Recorded, PassStops
  <1>3. CallsOK'
    BY DEF RowOK, CallsOK, Ids, Stamps, Calls, NoCall, PassSnapshotDone, Recorded, PassStops
  <1>4. ShotsOK'
    BY PassType DEF ShotsOK, PassSnapshotDone
  <1>5. StopsOK'
    BY DEF RowOK, CallsOK, StopsOK, Ids, Stamps, Calls, PassSnapshotDone, Recorded, PassStops
  <1>6. SocketIsCurrent' /\ NothingYet'
    BY DEF RowOK, CallsOK, SocketIsCurrent, NothingYet, Ids, Stamps, Calls, Starting, Retired, Dead, NoCall, NoPass, PassSnapshotDone, Recorded, PassStops
  <1>7. ShotFacts'
    BY DEF RowOK, ShotsOK, NothingYet, ShotFacts, Ids, Stamps, Calls, Shots, Dead, NoShot, PassSnapshotDone, Recorded, PassStops
  <1>8. ReadyBeats' /\ (AlarmFails' \/ LiveIsWatched')
    BY DEF RowOK, CallsOK, ShotsOK, NothingYet, ShotFacts, ReadyBeats, LiveIsWatched, Status, Ids, Stamps, Calls, Shots, Dead, Retired, Starting, PassSnapshotDone, Recorded, PassStops
  <1> QED
    BY <1>1, <1>2, <1>3, <1>4, <1>5, <1>6, <1>7, <1>8

(* PassStopDone keeps the inductive invariant. *)
LEMMA PassStopDoneInv ==
    ASSUME IInv, PassStopDone
    PROVE  IInv'
  <1> USE LifecycleAssumption DEF IInv, TypeOK, row, proc
  <1>1. RowOK'
    BY DEF RowOK, CallsOK, ShotsOK, Status, Ids, Stamps, Calls, Shots, Passes, PassStopDone
  <1>2. FlagsOK'
    BY DEF FlagsOK, StopsOK, PassStopDone
  <1>3. CallsOK'
    BY DEF RowOK, CallsOK, Ids, Stamps, Calls, NoCall, PassStopDone
  <1>4. ShotsOK'
    BY DEF RowOK, ShotsOK, Status, Ids, Stamps, Shots, Passes, NoShot, NoPass, PassStopDone
  <1>5. StopsOK'
    BY DEF RowOK, CallsOK, StopsOK, Ids, Stamps, Calls, PassStopDone
  <1>6. SocketIsCurrent' /\ NothingYet'
    BY DEF RowOK, CallsOK, SocketIsCurrent, NothingYet, Ids, Stamps, Calls, Starting, Retired, Dead, NoCall, NoPass, PassStopDone
  <1>7. ShotFacts'
    BY DEF RowOK, ShotsOK, NothingYet, ShotFacts, Ids, Stamps, Calls, Shots, Dead, NoShot, PassStopDone
  <1>8. ReadyBeats' /\ (AlarmFails' \/ LiveIsWatched')
    BY DEF RowOK, CallsOK, ShotsOK, NothingYet, ShotFacts, ReadyBeats, LiveIsWatched, Status, Ids, Stamps, Calls, Shots, Dead, Retired, Starting, PassStopDone
  <1> QED
    BY <1>1, <1>2, <1>3, <1>4, <1>5, <1>6, <1>7, <1>8

(* Tick keeps the inductive invariant. *)
LEMMA TickInv ==
    ASSUME IInv, Tick
    PROVE  IInv'
  <1> USE LifecycleAssumption DEF IInv, TypeOK, row, proc
  <1>1. RowOK'
    BY DEF RowOK, CallsOK, ShotsOK, Status, Ids, Stamps, Calls, Shots, Passes, Tick
  <1>2. FlagsOK'
    BY DEF FlagsOK, StopsOK, Tick
  <1>3. CallsOK'
    BY DEF RowOK, CallsOK, Ids, Stamps, Calls, NoCall, Tick
  <1>4. ShotsOK'
    BY DEF RowOK, ShotsOK, Status, Ids, Stamps, Shots, Passes, NoShot, NoPass, Tick
  <1>5. StopsOK'
    BY DEF RowOK, CallsOK, StopsOK, Ids, Stamps, Calls, Tick
  <1>6. SocketIsCurrent' /\ NothingYet'
    BY DEF RowOK, CallsOK, SocketIsCurrent, NothingYet, Ids, Stamps, Calls, Starting, Retired, Dead, NoCall, NoPass, Tick
  <1>7. ShotFacts'
    BY DEF RowOK, ShotsOK, NothingYet, ShotFacts, Ids, Stamps, Calls, Shots, Dead, NoShot, Tick
  <1>8. ReadyBeats' /\ (AlarmFails' \/ LiveIsWatched')
    BY DEF RowOK, CallsOK, ShotsOK, NothingYet, ShotFacts, ReadyBeats, LiveIsWatched, Status, Ids, Stamps, Calls, Shots, Dead, Retired, Starting, Tick
  <1> QED
    BY <1>1, <1>2, <1>3, <1>4, <1>5, <1>6, <1>7, <1>8

(* BeatGrowsOld keeps the inductive invariant. *)
LEMMA BeatGrowsOldInv ==
    ASSUME IInv, BeatGrowsOld
    PROVE  IInv'
  <1> USE LifecycleAssumption DEF IInv, TypeOK, row, proc
  <1>1. RowOK'
    BY DEF RowOK, CallsOK, ShotsOK, Status, Ids, Stamps, Calls, Shots, Passes, BeatGrowsOld
  <1>2. FlagsOK'
    BY DEF FlagsOK, StopsOK, BeatGrowsOld
  <1>3. CallsOK'
    BY DEF RowOK, CallsOK, Ids, Stamps, Calls, NoCall, BeatGrowsOld
  <1>4. ShotsOK'
    BY DEF RowOK, ShotsOK, Status, Ids, Stamps, Shots, Passes, NoShot, NoPass, BeatGrowsOld
  <1>5. StopsOK'
    BY DEF RowOK, CallsOK, StopsOK, Ids, Stamps, Calls, BeatGrowsOld
  <1>6. SocketIsCurrent' /\ NothingYet'
    BY DEF RowOK, CallsOK, SocketIsCurrent, NothingYet, Ids, Stamps, Calls, Starting, Retired, Dead, NoCall, NoPass, BeatGrowsOld
  <1>7. ShotFacts'
    BY DEF RowOK, ShotsOK, NothingYet, ShotFacts, Ids, Stamps, Calls, Shots, Dead, NoShot, BeatGrowsOld
  <1>8. ReadyBeats' /\ (AlarmFails' \/ LiveIsWatched')
    BY DEF RowOK, CallsOK, ShotsOK, NothingYet, ShotFacts, ReadyBeats, LiveIsWatched, Status, Ids, Stamps, Calls, Shots, Dead, Retired, Starting, BeatGrowsOld
  <1> QED
    BY <1>1, <1>2, <1>3, <1>4, <1>5, <1>6, <1>7, <1>8

(* WindowPasses keeps the inductive invariant. *)
LEMMA WindowPassesInv ==
    ASSUME IInv, WindowPasses
    PROVE  IInv'
  <1> USE LifecycleAssumption DEF IInv, TypeOK, row, proc
  <1>1. RowOK'
    BY DEF RowOK, CallsOK, ShotsOK, Status, Ids, Stamps, Calls, Shots, Passes, WindowPasses
  <1>2. FlagsOK'
    BY DEF FlagsOK, StopsOK, WindowPasses
  <1>3. CallsOK'
    BY DEF RowOK, CallsOK, Ids, Stamps, Calls, NoCall, WindowPasses
  <1>4. ShotsOK'
    BY DEF RowOK, ShotsOK, Status, Ids, Stamps, Shots, Passes, NoShot, NoPass, WindowPasses
  <1>5. StopsOK'
    BY DEF RowOK, CallsOK, StopsOK, Ids, Stamps, Calls, WindowPasses
  <1>6. SocketIsCurrent' /\ NothingYet'
    BY DEF RowOK, CallsOK, SocketIsCurrent, NothingYet, Ids, Stamps, Calls, Starting, Retired, Dead, NoCall, NoPass, WindowPasses
  <1>7. ShotFacts'
    BY DEF RowOK, ShotsOK, NothingYet, ShotFacts, Ids, Stamps, Calls, Shots, Dead, NoShot, WindowPasses
  <1>8. ReadyBeats' /\ (AlarmFails' \/ LiveIsWatched')
    BY DEF RowOK, CallsOK, ShotsOK, NothingYet, ShotFacts, ReadyBeats, LiveIsWatched, Status, Ids, Stamps, Calls, Shots, Dead, Retired, Starting, WindowPasses
  <1> QED
    BY <1>1, <1>2, <1>3, <1>4, <1>5, <1>6, <1>7, <1>8

(* Restart keeps the inductive invariant. *)
LEMMA RestartInv ==
    ASSUME IInv, Restart
    PROVE  IInv'
  <1> USE LifecycleAssumption DEF IInv, TypeOK, row, proc
  <1>1. RowOK'
    BY DEF RowOK, CallsOK, ShotsOK, Status, Ids, Stamps, Calls, Shots, Passes, Restart, Box
  <1>2. FlagsOK'
    BY DEF FlagsOK, StopsOK, Restart, Box
  <1>3. CallsOK'
    BY DEF RowOK, CallsOK, Ids, Stamps, Calls, NoCall, Restart, Box
  <1>4. ShotsOK'
    BY DEF RowOK, ShotsOK, Status, Ids, Stamps, Shots, Passes, NoShot, NoPass, Restart, Box
  <1>5. StopsOK'
    <2>1. {Box(t) : t \in {u \in Stamps : call[u].at = "remote"}} \subseteq Ids
      BY CallType
    <2> QED
      BY <2>1 DEF StopsOK, Restart
  <1>6. SocketIsCurrent' /\ NothingYet'
    BY DEF RowOK, CallsOK, SocketIsCurrent, NothingYet, Ids, Stamps, Calls, Starting, Retired, Dead, NoCall, NoPass, Restart, Box
  <1>7. ShotFacts'
    BY DEF RowOK, ShotsOK, NothingYet, ShotFacts, Ids, Stamps, Calls, Shots, Dead, NoShot, Restart, Box
  <1>8. ReadyBeats' /\ (AlarmFails' \/ LiveIsWatched')
    BY DEF RowOK, CallsOK, ShotsOK, NothingYet, ShotFacts, ReadyBeats, LiveIsWatched, Status, Ids, Stamps, Calls, Shots, Dead, Retired, Starting, Restart, Box
  <1> QED
    BY <1>1, <1>2, <1>3, <1>4, <1>5, <1>6, <1>7, <1>8

(* Every step preserves the inductive invariant.                            *)
LEMMA StepInv == ASSUME IInv, [Next]_vars PROVE IInv'
  <1>1. CASE UNCHANGED vars
    BY <1>1 DEF IInv, TypeOK, RowOK, FlagsOK, CallsOK, ShotsOK, StopsOK, SocketIsCurrent,
       NothingYet, ShotFacts, ReadyBeats, LiveIsWatched, vars, row, proc
  <1>2. CASE Request \/ Unwatched
    BY <1>2, SpawnStartsInv, SpawnUnwatchedInv, ResumeStartsInv, RequestRefusedInv
    DEF Request, Unwatched
  <1>3. CASE \E s \in Stamps : Attempt(s) \/ BoxStarts(s) \/ Connect(s) \/ SandboxDies(s)
    BY <1>3, PublishInv, PriorStoppedInv, CreatedInv, FinishInv, AttemptFailsInv,
       AttemptRetriesInv, BoxStartsInv, ConnectInv, SandboxDiesInv DEF Attempt
  <1>4. CASE Disconnect \/ Heartbeat \/ TurnEnds \/ SnapshotTurn
    BY <1>4, DisconnectInv, HeartbeatInv, TurnEndsInv, SnapshotTurnInv
  <1>5. CASE \/ \E k \in Slots : SnapshotDone(k)
             \/ \E x \in stops : StopDone(x)
    BY <1>5, SnapshotDoneInv, StopDoneInv
  <1>6. CASE Terminate
    BY <1>6, TerminateUnresponsiveInv, TerminateFailedInv, CancelInv DEF Terminate
  <1>7. CASE Alarm
    BY <1>7, AlarmDeadInv, ConnectingTimeoutInv, HeartbeatStaleInv, InactivityTimeoutInv,
       AlarmAgainInv DEF Alarm
  <1>8. CASE Passage
    BY <1>8, PassSnapshotDoneInv, PassStopDoneInv DEF Passage
  <1>9. CASE Tick \/ BeatGrowsOld \/ WindowPasses \/ Restart
    BY <1>9, TickInv, BeatGrowsOldInv, WindowPassesInv, RestartInv
  <1> QED
    BY <1>1, <1>2, <1>3, <1>4, <1>5, <1>6, <1>7, <1>8, <1>9 DEF Next

LEMMA Invariance == Spec => []IInv
  BY InitInv, StepInv, PTL DEF Spec

(* The row and what the process remembers of its attempts, snapshots and   *)
(* stops keep their shapes, for every provider and under every fault.      *)
THEOREM TypeCorrect == Spec => []TypeOK
  <1>1. IInv => TypeOK
    BY DEF IInv
  <1> QED
    BY Invariance, <1>1, PTL

(* The socket of the session is always the one of the sandbox the row      *)
(* names and whose token it publishes, for any number of generations:      *)
(* reserving revokes it in the write that changes the identity.            *)
THEOREM SocketCurrent == Spec => []SocketIsCurrent
  <1>1. IInv => SocketIsCurrent
    BY DEF IInv
  <1> QED
    BY Invariance, <1>1, PTL

(* As long as alarms can be written, a row that is not dead has one armed, *)
(* and one that says ready has a heartbeat to watch.                       *)
THEOREM LiveWatched == ASSUME ~AlarmFails PROVE Spec => []LiveIsWatched
  <1>1. IInv => LiveIsWatched
    BY DEF IInv
  <1> QED
    BY Invariance, <1>1, PTL

(* A retired generation stays retired: whatever comes back late, the row   *)
(* leaves stopped and stale only with a new stamp.                         *)
THEOREM RetirementStays == Spec => RetiredStays
  <1>1. ASSUME IInv, [Next]_vars
        PROVE  (status \in Retired /\ stamp' = stamp) => status' \in Retired
    <2> SUFFICES ASSUME status \in Retired, stamp' = stamp, Next PROVE status' \in Retired
      BY <1>1 DEF vars, row
    <2>1. stamp \in Nat
      BY <1>1, LifecycleAssumption DEF IInv, TypeOK, RowOK, Ids
    <2>2. CASE Request \/ Unwatched
      BY <2>1, <2>2 DEF Request, Unwatched, SpawnStarts, SpawnUnwatched, Reserve, ResumeStarts,
         Resume, RequestRefused
    <2>3. CASE \E s \in Stamps : Attempt(s) \/ BoxStarts(s) \/ Connect(s) \/ SandboxDies(s)
      <3> SUFFICES ASSUME NEW s \in Stamps,
                          Attempt(s) \/ BoxStarts(s) \/ Connect(s) \/ SandboxDies(s)
                   PROVE  status' \in Retired
        BY <2>3
      <3>1. CASE AttemptRetries(s)
        BY <2>1, <3>1 DEF AttemptRetries, Reserve
      <3>2. CASE Finish(s) \/ AttemptFails(s)
        BY <3>2 DEF Finish, AttemptFails, InFlight, Retired
      <3>3. CASE Publish(s) \/ PriorStopped(s) \/ Created(s)
        BY <3>3 DEF Publish, PriorStopped, Created
      <3>4. CASE BoxStarts(s) \/ SandboxDies(s)
        BY <3>4 DEF BoxStarts, SandboxDies, row
      <3>5. CASE Connect(s)
        BY <3>5 DEF Connect
      <3> QED
        BY <3>1, <3>2, <3>3, <3>4, <3>5 DEF Attempt
    <2>4. CASE \/ Disconnect \/ Heartbeat \/ TurnEnds \/ SnapshotTurn
               \/ \E k \in Slots : SnapshotDone(k)
               \/ \E x \in stops : StopDone(x)
      BY <2>4 DEF Disconnect, Heartbeat, TurnEnds, SnapshotTurn, SnapshotDone, StopDone,
         Retired, Dead, row
    <2>5. CASE Terminate \/ Alarm \/ Passage
      BY <2>5 DEF Terminate, TerminateUnresponsive, TerminateFailed, Cancel, Alarm, AlarmDead,
         ConnectingTimeout, TimedOut, HeartbeatStale, InactivityTimeout, Retire, AlarmAgain,
         Passage, PassSnapshotDone, PassStopDone, Retired, Dead, Starting, row
    <2>6. CASE Tick \/ BeatGrowsOld \/ WindowPasses \/ Restart
      BY <2>6 DEF Tick, BeatGrowsOld, WindowPasses, Restart, row
    <2> QED
      BY <2>2, <2>3, <2>4, <2>5, <2>6 DEF Next
  <1> QED
    BY Invariance, <1>1, PTL DEF Spec, RetiredStays

-----------------------------------------------------------------------------
(* One sandbox, one handle: for a provider that does not resume, and while *)
(* no sandbox is up before the attempt for it is over.                     *)

(* What concerns neither the identity of the row nor its attempts.         *)
LEMMA Bystander ==
    ASSUME IInv, SingleInv,
           UNCHANGED <<id, stamp, hash, object, call, spawning>>,
           failures' \in {failures, 0}, sock' \in {sock, 0}, running' \subseteq running,
           beat' = beat \/ (beat # "none" /\ beat' # "none"),
           pass' = pass \/ (pass'.at = "snapshot" => pass'.obj = pass'.id)
    PROVE  SingleInv'
  <1>1. failures \in Nat /\ Threshold \in Nat \ {0}
    BY LifecycleAssumption DEF IInv, TypeOK, RowOK
  <1>2. OneAttempt'
    BY <1>1 DEF SingleInv, OneAttempt
  <1>3. OwnObject'
    BY DEF SingleInv, OwnObject
  <1>4. BreakerHolds'
    BY <1>1 DEF SingleInv, BreakerHolds
  <1>5. CanStop /\ ~StopFails => NothingElseRuns'
    BY DEF SingleInv, NothingElseRuns
  <1> QED
    BY <1>2, <1>3, <1>4, <1>5 DEF SingleInv

(* Without the flag there is no attempt.                                   *)
LEMMA FlagDown ==
    ASSUME SingleInv, ~spawning
    PROVE  \A s \in Stamps : call[s].at = "none"
  BY DEF SingleInv, OneAttempt

(* There is one attempt, and it is the last reservation's.                 *)
LEMMA OnlyAttempt ==
    ASSUME SingleInv, NEW s \in Stamps, call[s].at # "none"
    PROVE  s = stamp /\ s = id /\ \A t \in Stamps \ {s} : call[t].at = "none"
  BY DEF SingleInv, OneAttempt, OwnObject

(* A reservation starts from nothing: its sandbox is not there yet, and no *)
(* socket or heartbeat is left of the one before.                          *)
LEMMA ReserveFacts ==
    ASSUME IInv, SingleInv, NEW n \in Stamps, NEW kind, Reserve(n, kind)
    PROVE  /\ stamp' = n /\ id' = n /\ n = stamp + 1 /\ n # 0 /\ hash' = 0 /\ sock' = 0 /\ beat' = "none"
           /\ object' = IF kind = "retry" THEN 0 ELSE object
           /\ n \notin running /\ running \subseteq 1..n /\ stamp \in Nat
  <1>1. stamp \in Nat /\ n \in Nat /\ n # 0
    BY LifecycleAssumption DEF IInv, TypeOK, RowOK, Ids, Stamps
  <1>2. running \subseteq 1..stamp
    BY DEF SingleInv, OwnObject
  <1> QED
    BY <1>1, <1>2 DEF Reserve

(* A reservation, with an attempt that has just entered or with none; what *)
(* else there was of attempts is over.                                     *)
LEMMA Reserved ==
    ASSUME IInv, SingleInv, NEW n \in Stamps, NEW kind \in {"spawn", "retry", "restore"},
           Reserve(n, kind), \A t \in Stamps \ {n} : call'[t].at = "none",
           \/ call'[n].at = "none"
           \/ call'[n] = Enters(kind) /\ spawning' /\ failures' < Threshold,
           failures' \in Nat, failures' <= Threshold, UNCHANGED <<running, pass>>,
           kind = "retry" /\ CanStop /\ ~StopFails => object = 0
    PROVE  SingleInv'
  <1>1. /\ stamp' = n /\ id' = n /\ n # 0 /\ hash' = 0 /\ sock' = 0 /\ beat' = "none"
        /\ object' = IF kind = "retry" THEN 0 ELSE object
        /\ n \notin running /\ running \subseteq 1..n
    BY ReserveFacts
  <1>2. call'[n].at = "none" \/ (call'[n].at = "hash" /\ call'[n].kind = kind /\ spawning' /\ failures' < Threshold)
    BY DEF Enters
  <1>3. OneAttempt'
    BY <1>1, <1>2 DEF OneAttempt
  <1>4. OwnObject'
    BY <1>1 DEF SingleInv, OwnObject
  <1>5. BreakerHolds'
    BY DEF BreakerHolds
  <1>6. ASSUME CanStop, ~StopFails PROVE NothingElseRuns'
    <2>1. running \subseteq {object}
      BY <1>6 DEF SingleInv, NothingElseRuns
    <2>2. running \subseteq {object'}
      BY <1>1, <1>6, <2>1
    <2> QED
      BY <1>1, <1>2, <2>2 DEF NothingElseRuns
  <1> QED
    BY <1>3, <1>4, <1>5, <1>6 DEF SingleInv

(* Requests.                                                               *)
LEMMA RequestSingle ==
    ASSUME IInv, SingleInv, ~CanResume, Request \/ Unwatched
    PROVE  SingleInv'
  <1>1. failures \in Nat /\ Threshold \in Nat \ {0} /\ call \in [Stamps -> Calls]
    BY LifecycleAssumption DEF IInv, TypeOK, RowOK, CallsOK
  <1>2. ~ResumeStarts
    BY DEF ResumeStarts, Resumable
  <1>3. ASSUME ~BreakerOpen, BreakerReset PROVE failures' \in Nat /\ failures' < Threshold
    BY <1>1, <1>3 DEF BreakerOpen, BreakerReset
  <1>4. ASSUME NEW kind \in {"spawn", "restore"}, SpawnStarts(kind) PROVE SingleInv'
    <2>1. PICK n \in Stamps : Reserve(n, kind) /\ call' = [call EXCEPT ![n] = Enters(kind)]
      BY <1>4 DEF SpawnStarts
    <2>2. \A t \in Stamps : call[t].at = "none"
      BY <1>4, FlagDown DEF SpawnStarts, Busy
    <2>3. call'[n] = Enters(kind) /\ \A t \in Stamps \ {n} : call'[t].at = "none"
      BY <1>1, <2>1, <2>2
    <2>4. spawning' /\ failures' \in Nat /\ failures' < Threshold /\ UNCHANGED <<running, pass>>
      BY <1>3, <1>4 DEF SpawnStarts
    <2> QED
      BY <1>1, <2>1, <2>3, <2>4, Reserved
  <1>5. ASSUME NEW kind \in {"spawn", "restore"}, SpawnUnwatched(kind) PROVE SingleInv'
    <2>1. PICK n \in Stamps : Reserve(n, kind)
      BY <1>5 DEF SpawnUnwatched
    <2>2. \A t \in Stamps : call'[t].at = "none"
      BY <1>5, FlagDown DEF SpawnUnwatched, Busy
    <2>3. failures' \in Nat /\ failures' <= Threshold /\ UNCHANGED <<running, pass>>
      BY <1>1, <1>5 DEF SpawnUnwatched, BreakerOpen, BreakerReset
    <2> QED
      BY <2>1, <2>2, <2>3, Reserved
  <1>6. ASSUME RequestRefused PROVE SingleInv'
    BY <1>6, Bystander DEF RequestRefused, UsableSocket, BreakerReset
  <1> QED
    BY <1>2, <1>4, <1>5, <1>6 DEF Request, Unwatched

-----------------------------------------------------------------------------
(* The attempt.                                                            *)

(* An attempt goes on: nothing of the row's identity changes, and nothing  *)
(* of the others', which there are none of.                                *)
LEMMA AttemptGoesOn ==
    ASSUME IInv, SingleInv, NEW s \in Stamps, call[s].at \in {"hash", "prior", "remote"},
           NEW at \in {"prior", "remote", "store"}, NEW obj, Moves(s, at, obj),
           UNCHANGED <<id, stamp, failures, beat, sock, spawning, pass>>,
           running' \subseteq running \cup {s},
           IF at = "store" THEN object' = s ELSE running' \subseteq running,
           CanStop /\ ~StopFails =>
               /\ running' \subseteq {object'}
               /\ at = "remote" => object' = 0
               /\ at = "prior" => object' = obj
    PROVE  SingleInv'
  <1>1. s = stamp /\ s = id /\ \A t \in Stamps \ {s} : call[t].at = "none"
    BY OnlyAttempt
  <1>2. /\ call'[s].at = at /\ call'[s].kind = call[s].kind /\ call'[s].obj = obj
        /\ \A t \in Stamps \ {s} : call'[t] = call[t]
    BY DEF Moves, IInv, TypeOK, CallsOK
  <1>3. /\ spawning /\ call[s].kind # "resume" /\ failures < Threshold
        /\ sock = 0 /\ beat = "none" /\ s \notin running
    BY DEF SingleInv, OneAttempt
  <1>4. OneAttempt'
    BY <1>1, <1>2, <1>3 DEF OneAttempt
  <1>5. OwnObject'
    <2>1. running \subseteq 1..stamp /\ id = stamp /\ (pass.at = "snapshot" => pass.obj = pass.id)
      BY DEF SingleInv, OwnObject
    <2>2. s \in 1..stamp
      BY <1>1 DEF Stamps
    <2> QED
      BY <1>1, <1>3, <2>1, <2>2 DEF OwnObject
  <1>6. BreakerHolds'
    BY DEF SingleInv, BreakerHolds
  <1>7. CanStop /\ ~StopFails => NothingElseRuns'
    BY <1>1, <1>2 DEF NothingElseRuns
  <1> QED
    BY <1>4, <1>5, <1>6, <1>7 DEF SingleInv

(* It ends; whatever it leaves, the breaker has counted one failure at most.*)
LEMMA AttemptIsOver ==
    ASSUME IInv, SingleInv, NEW s \in Stamps, call[s].at # "none", call' = [call EXCEPT ![s] = NoCall],
           UNCHANGED <<id, stamp, object, beat, running, pass>>, sock' \in {sock, 0},
           failures' \in {0, failures, failures + 1}
    PROVE  SingleInv'
  <1>1. failures \in Nat /\ Threshold \in Nat \ {0} /\ call \in [Stamps -> Calls]
    BY LifecycleAssumption DEF IInv, TypeOK, RowOK, CallsOK
  <1>2. \A t \in Stamps : call'[t].at = "none"
    BY <1>1, OnlyAttempt DEF NoCall
  <1>3. failures < Threshold
    BY DEF SingleInv, OneAttempt
  <1>4. OneAttempt'
    BY <1>2 DEF OneAttempt
  <1>5. OwnObject'
    BY DEF SingleInv, OwnObject
  <1>6. BreakerHolds'
    BY <1>1, <1>3 DEF BreakerHolds
  <1>7. CanStop /\ ~StopFails => NothingElseRuns'
    BY <1>2 DEF SingleInv, NothingElseRuns
  <1> QED
    BY <1>4, <1>5, <1>6, <1>7 DEF SingleInv

LEMMA AttemptSingle ==
    ASSUME IInv, SingleInv, ~CanResume, NEW s \in Stamps, Attempt(s)
    PROVE  SingleInv'
  <1>1. failures \in Nat /\ Threshold \in Nat \ {0} /\ call \in [Stamps -> Calls]
    BY LifecycleAssumption DEF IInv, TypeOK, RowOK, CallsOK
  <1>2. ASSUME call[s].at # "none"
        PROVE  s = id /\ call[s].kind # "resume" /\ (\A t \in Stamps \ {s} : call[t].at = "none")
    BY <1>2, OnlyAttempt DEF SingleInv, OneAttempt
  <1>3. CASE Publish(s)
    <2>1. call[s].at = "hash" /\ UNCHANGED <<id, stamp, failures, beat, sock, pass, running>>
      BY <1>3 DEF Publish
    <2>2. CASE ~(id = s /\ status = "spawning")
      BY <1>3, <2>1, <2>2, AttemptIsOver DEF Publish, AttemptEnds
    <2>3. CASE id = s /\ status = "spawning" /\ object # 0 /\ CanStop /\ call[s].kind # "retry"
      <3>1. Moves(s, "prior", object) /\ UNCHANGED <<object, spawning>>
        BY <1>3, <2>3 DEF Publish
      <3>2. CanStop /\ ~StopFails => running \subseteq {object}
        BY DEF SingleInv, NothingElseRuns
      <3> QED
        BY <2>1, <3>1, <3>2, AttemptGoesOn
    <2>4. CASE id = s /\ status = "spawning" /\ ~(object # 0 /\ CanStop /\ call[s].kind # "retry")
      <3>1. Moves(s, "remote", 0) /\ object' = (IF call[s].kind = "retry" THEN object ELSE 0) /\ UNCHANGED spawning
        BY <1>3, <2>4 DEF Publish
      <3>2. ASSUME CanStop, ~StopFails PROVE running \subseteq {object'} /\ object' = 0
        <4>1. running \subseteq {object} /\ (call[s].kind = "retry" => object = 0)
          BY <2>1, <3>2 DEF SingleInv, NothingElseRuns
        <4> QED
          BY <2>4, <3>1, <3>2, <4>1
      <3> QED
        BY <2>1, <3>1, <3>2, AttemptGoesOn
    <2> QED
      BY <2>2, <2>3, <2>4
  <1>4. CASE PriorStopped(s)
    <2>1. /\ call[s].at = "prior" /\ Moves(s, "remote", 0) /\ running' \subseteq running
          /\ UNCHANGED <<id, stamp, failures, beat, sock, spawning, pass>>
      BY <1>4 DEF PriorStopped
    <2>2. ASSUME CanStop, ~StopFails PROVE running' \subseteq {object'} /\ object' = 0
      <3>1. running \subseteq {object} /\ call[s].obj = object
        BY <2>1, <2>2 DEF SingleInv, NothingElseRuns
      <3> QED
        BY <1>4, <2>2, <3>1 DEF PriorStopped
    <2> QED
      BY <2>1, <2>2, AttemptGoesOn
  <1>5. CASE Created(s)
    <2>1. /\ call[s].at = "remote" /\ Moves(s, "store", call[s].obj)
          /\ UNCHANGED <<id, stamp, failures, beat, sock, spawning, pass>>
      BY <1>5 DEF Created
    <2>2. running' = running \cup {s} /\ object' = s
      BY <1>2, <1>5, <2>1 DEF Created, Box
    <2>3. ASSUME CanStop, ~StopFails PROVE running = {}
      <3>1. running \subseteq {0}
        BY <2>1, <2>3 DEF SingleInv, NothingElseRuns
      <3>2. 0 \notin running
        BY DEF SingleInv, OwnObject
      <3> QED
        BY <3>1, <3>2
    <2> QED
      BY <2>1, <2>2, <2>3, AttemptGoesOn
  <1>6. CASE Finish(s)
    BY <1>6, AttemptIsOver DEF Finish, AttemptEnds, UsableSocket
  <1>7. CASE AttemptFails(s)
    BY <1>7, AttemptIsOver DEF AttemptFails, AttemptEnds, CountFailure
  <1>8. CASE AttemptRetries(s)
    <2>1. call[s].at = "remote" /\ call[s].kind = "spawn" /\ failures < Threshold /\ spawning
      BY <1>2, <1>8 DEF AttemptRetries, SingleInv, OneAttempt
    <2>2. PICK n \in Stamps :
            /\ Reserve(n, "retry")
            /\ \/ /\ call' = [call EXCEPT ![s] = NoCall, ![n] = Enters("retry")]
                  /\ spawning' = spawning /\ UNCHANGED failures
               \/ AttemptEnds(s) /\ CountFailure
      BY <1>8, <2>1 DEF AttemptRetries
    <2>3. UNCHANGED <<running, pass>>
      BY <1>8 DEF AttemptRetries
    <2>4. CanStop /\ ~StopFails => object = 0
      BY <2>1 DEF SingleInv, NothingElseRuns
    <2>5. n # s
      BY <1>2, <2>1, <2>2, ReserveFacts, OnlyAttempt
    <2>6. call'[s] = NoCall /\ \A t \in Stamps \ {n, s} : call'[t] = call[t]
      <3>1. CASE call' = [call EXCEPT ![s] = NoCall, ![n] = Enters("retry")]
        BY <1>1, <2>5, <3>1
      <3>2. CASE AttemptEnds(s)
        BY <1>1, <3>2 DEF AttemptEnds
      <3> QED
        BY <2>2, <3>1, <3>2
    <2>7. \A t \in Stamps \ {n} : call'[t].at = "none"
      BY <1>2, <2>1, <2>6 DEF NoCall
    <2>8. CASE AttemptEnds(s) /\ CountFailure
      <3>1. call'[n].at = "none"
        BY <1>1, <1>2, <2>1, <2>5, <2>8 DEF AttemptEnds, NoCall
      <3>2. failures' \in Nat /\ failures' <= Threshold
        BY <1>1, <2>1, <2>8 DEF CountFailure
      <3> QED
        BY <2>2, <2>3, <2>4, <2>7, <3>1, <3>2, Reserved
    <2>9. CASE /\ call' = [call EXCEPT ![s] = NoCall, ![n] = Enters("retry")]
               /\ spawning' = spawning /\ UNCHANGED failures
      <3>1. call'[n] = Enters("retry") /\ spawning' /\ failures' < Threshold /\ failures' \in Nat /\ failures' <= Threshold
        BY <1>1, <2>1, <2>5, <2>9
      <3> QED
        BY <2>2, <2>3, <2>4, <2>7, <3>1, Reserved
    <2> QED
      BY <2>2, <2>8, <2>9
  <1> QED
    BY <1>3, <1>4, <1>5, <1>6, <1>7, <1>8 DEF Attempt

-----------------------------------------------------------------------------
(* The bridge.                                                             *)

(* Once the row's sandbox is up and its attempt over, it may be heard of   *)
(* and connected: the row names its object already.                        *)
LEMMA HeardOf ==
    ASSUME IInv, SingleInv, \A t \in Stamps : call[t].at = "none", object = id,
           UNCHANGED <<id, stamp, hash, object, failures, call, running, pass>>
    PROVE  SingleInv'
  <1>1. OneAttempt'
    BY DEF OneAttempt
  <1>2. OwnObject'
    BY DEF SingleInv, OwnObject
  <1>3. BreakerHolds' /\ (CanStop /\ ~StopFails => NothingElseRuns')
    BY DEF SingleInv, BreakerHolds, NothingElseRuns
  <1> QED
    BY <1>1, <1>2, <1>3 DEF SingleInv

(* A bridge is admitted only when no attempt is left: the token of the     *)
(* last one is not published before it is running, and it is not running   *)
(* to a bridge before its attempt is over.                                 *)
LEMMA ConnectSingle ==
    ASSUME IInv, SingleInv, ~Early, NEW s \in Stamps, Connect(s)
    PROVE  SingleInv'
  <1>1. s \in running /\ s = id /\ s = hash /\ s # 0 /\ \A t \in Stamps : call[t].at = "store" => Box(t) # s
    BY DEF Connect, Stamps
  <1>2. ASSUME NEW t \in Stamps, call[t].at # "none" PROVE FALSE
    <2>1. t = s
      BY <1>1, <1>2, OnlyAttempt
    <2>2. /\ call[t].kind # "resume" /\ (call[t].at = "hash" => hash = 0)
          /\ call[t].at # "store" => t \notin running
      BY <1>2 DEF SingleInv, OneAttempt
    <2> QED
      BY <1>1, <2>1, <2>2 DEF Box
  <1>3. object = id
    BY <1>1 DEF SingleInv, OwnObject
  <1> QED
    BY <1>2, <1>3, HeardOf DEF Connect

LEMMA HeartbeatSingle ==
    ASSUME IInv, SingleInv, Heartbeat
    PROVE  SingleInv'
  <1>1. sock # 0
    BY DEF Heartbeat, SingleInv, OwnObject
  <1>2. object = id /\ \A t \in Stamps : call[t].at = "none"
    BY <1>1 DEF SingleInv, OwnObject, OneAttempt
  <1> QED
    BY <1>2, HeardOf DEF Heartbeat, proc

-----------------------------------------------------------------------------
(* The alarm: what it photographs is the object of the sandbox it saw.     *)

LEMMA AlarmSingle ==
    ASSUME IInv, SingleInv, Alarm \/ Passage
    PROVE  SingleInv'
  <1>1. CASE AlarmDead \/ AlarmAgain
    BY <1>1, Bystander DEF AlarmDead, AlarmAgain, row, proc
  <1>2. CASE ConnectingTimeout \/ PassSnapshotDone \/ PassStopDone
    <2>1. UNCHANGED <<id, stamp, hash, object, call, spawning, failures, beat>> /\ sock' \in {sock, 0}
      BY <1>2 DEF ConnectingTimeout, PassSnapshotDone, PassStopDone, PassStops, row
    <2>2. running' \subseteq running
      BY <1>2 DEF ConnectingTimeout, PassSnapshotDone, PassStopDone
    <2>3. pass'.at # "snapshot"
      BY <1>2 DEF ConnectingTimeout, PassSnapshotDone, PassStopDone, PassStops, NoPass
    <2> QED
      BY <2>1, <2>2, <2>3, Bystander
  <1>3. CASE HeartbeatStale \/ InactivityTimeout
    <2>1. beat # "none"
      BY <1>3 DEF HeartbeatStale, InactivityTimeout, IInv, ReadyBeats
    <2>2. object = id
      BY <2>1 DEF SingleInv, OwnObject
    <2>3. PICK to : Retire(to)
      BY <1>3 DEF HeartbeatStale, InactivityTimeout
    <2>4. UNCHANGED <<id, stamp, hash, object, call, spawning, failures, beat, running>> /\ sock' \in {sock, 0}
      BY <2>3 DEF Retire, PassStops
    <2>5. pass'.at = "snapshot" => pass'.obj = pass'.id
      BY <2>2, <2>3 DEF Retire, PassStops, NoPass
    <2> QED
      BY <2>4, <2>5, Bystander
  <1> QED
    BY <1>1, <1>2, <1>3 DEF Alarm, Passage

-----------------------------------------------------------------------------
(* The rest, and the invariant.                                            *)

LEMMA RestartSingle ==
    ASSUME IInv, SingleInv, ~Early, Restart
    PROVE  SingleInv'
  <1>1. UNCHANGED <<id, stamp, hash, object, failures, beat, running>> /\ sock' \in {sock, 0}
    BY DEF Restart, row
  <1>2. pass'.at # "snapshot" /\ \A t \in Stamps : call'[t].at = "none"
    BY DEF Restart, NoPass, NoCall
  <1>3. OneAttempt' /\ OwnObject'
    BY <1>1, <1>2 DEF SingleInv, OneAttempt, OwnObject
  <1>4. BreakerHolds' /\ (CanStop /\ ~StopFails => NothingElseRuns')
    <2>1. \A t \in Stamps : call'[t].kind = "none"
      BY DEF Restart, NoCall
    <2> QED
      BY <1>1, <1>2, <2>1 DEF SingleInv, BreakerHolds, NothingElseRuns
  <1> QED
    BY <1>3, <1>4 DEF SingleInv

(* In the first state there is nothing.                                    *)
LEMMA InitSingle == Init => SingleInv
  <1> SUFFICES ASSUME Init PROVE SingleInv
    OBVIOUS
  <1>1. \A s \in Stamps : call[s].at = "none" /\ call[s].kind = "none"
    BY DEF Init, NoCall
  <1>2. OneAttempt /\ OwnObject
    BY <1>1 DEF Init, OneAttempt, OwnObject, NoPass
  <1>3. BreakerHolds
    BY LifecycleAssumption DEF Init, BreakerHolds
  <1>4. NothingElseRuns
    BY <1>1 DEF Init, NothingElseRuns
  <1> QED
    BY <1>2, <1>3, <1>4 DEF SingleInv

LEMMA SingleStep ==
    ASSUME IInv, SingleInv, ~Early, ~CanResume, [Next]_vars
    PROVE  SingleInv'
  <1>1. CASE UNCHANGED vars
    BY <1>1, Bystander DEF vars, row, proc
  <1>2. CASE Request \/ Unwatched
    BY <1>2, RequestSingle
  <1>3. CASE \E s \in Stamps : Attempt(s) \/ BoxStarts(s) \/ Connect(s) \/ SandboxDies(s)
    <2>1. PICK s \in Stamps : Attempt(s) \/ BoxStarts(s) \/ Connect(s) \/ SandboxDies(s)
      BY <1>3
    <2>2. ~BoxStarts(s)
      BY DEF BoxStarts
    <2>3. CASE SandboxDies(s)
      BY <2>3, Bystander DEF SandboxDies, row, proc
    <2> QED
      BY <2>1, <2>2, <2>3, AttemptSingle, ConnectSingle
  <1>4. CASE Heartbeat
    BY <1>4, HeartbeatSingle
  <1>5. CASE Disconnect \/ TurnEnds \/ SnapshotTurn
    BY <1>5, Bystander DEF Disconnect, TurnEnds, SnapshotTurn, row
  <1>6. CASE \/ \E k \in Slots : SnapshotDone(k)
             \/ \E x \in stops : StopDone(x)
    BY <1>6, Bystander DEF SnapshotDone, StopDone, row
  <1>7. CASE Terminate
    BY <1>7, Bystander DEF Terminate, TerminateUnresponsive, TerminateFailed, Cancel
  <1>8. CASE Alarm \/ Passage
    BY <1>8, AlarmSingle
  <1>9. CASE Tick \/ BeatGrowsOld \/ WindowPasses
    BY <1>9, Bystander DEF Tick, BeatGrowsOld, WindowPasses, proc
  <1>10. CASE Restart
    BY <1>10, RestartSingle
  <1> QED
    BY <1>1, <1>2, <1>3, <1>4, <1>5, <1>6, <1>7, <1>8, <1>9, <1>10 DEF Next

(* While no bridge connects before the attempt for its sandbox has ended,  *)
(* and the provider does not resume, there is one attempt at a time, it is *)
(* the last reservation's, and the row names the object of its own sandbox *)
(* (isSpawningSandbox, storeProviderObjectId).                             *)
THEOREM SingleInvariance == ASSUME ~Early, ~CanResume PROVE Spec => []SingleInv
  <1>1. Init => IInv /\ SingleInv
    BY InitInv, InitSingle
  <1>2. IInv /\ SingleInv /\ [Next]_vars => (IInv /\ SingleInv)'
    BY StepInv, SingleStep
  <1> QED
    BY <1>1, <1>2, PTL DEF Spec

(* ... so what is stopped, restored or photographed later is the sandbox   *)
(* that is connected.                                                      *)
THEOREM HandlesAreOwn == ASSUME ~Early, ~CanResume PROVE Spec => []HandleIsOwn
  <1>1. ASSUME IInv, SingleInv PROVE HandleIsOwn
    <2> DEFINE out == {s \in Stamps : call[s].at # "none"}
    <2>1. \A s \in out : s = stamp
      BY <1>1 DEF SingleInv, OneAttempt
    <2>2. out = {} \/ out = {stamp}
      BY <2>1
    <2>3. Cardinality(out) = 0 \/ Cardinality(out) = 1
      BY <2>2, FS_EmptySet, FS_Singleton
    <2>4. sock # 0 => object = sock
      BY <1>1 DEF SingleInv, OwnObject, IInv, SocketIsCurrent
    <2>5. Cardinality(out) <= 1
      BY <2>3
    <2> QED
      BY <2>4, <2>5 DEF HandleIsOwn
  <1> QED
    BY SingleInvariance, Invariance, <1>1, PTL

(* ... the breaker counts no further than its threshold, because only the  *)
(* one attempt it let through can fail ...                                 *)
THEOREM BreakerNeverOvershoots == ASSUME ~Early, ~CanResume PROVE Spec => []BreakerHolds
  <1>1. SingleInv => BreakerHolds
    BY DEF SingleInv
  <1> QED
    BY SingleInvariance, <1>1, PTL

(* ... and the alarm's snapshot becomes the restore image of the sandbox   *)
(* it was taken of or of none, even if a replacement was reserved while it *)
(* was taken.                                                              *)
THEOREM AlarmSnapshotIsOwn == ASSUME ~Early, ~CanResume PROVE Spec => SnapshotIsOwn
  <1>1. ASSUME IInv, SingleInv, [Next]_vars
        PROVE  pass.at = "snapshot" /\ pass'.at # "snapshot" /\ snap' # snap => snap' = id
    <2> SUFFICES ASSUME Next, pass.at = "snapshot", pass'.at # "snapshot", snap' # snap
                 PROVE  snap' = id
      BY <1>1 DEF vars, row, proc
    <2>1. pass.obj = pass.id
      BY <1>1 DEF SingleInv, OwnObject
    <2>2. CASE Request \/ Unwatched
      BY <2>2 DEF Request, Unwatched, SpawnStarts, SpawnUnwatched, ResumeStarts, RequestRefused
    <2>3. CASE \E s \in Stamps : Attempt(s) \/ BoxStarts(s) \/ Connect(s) \/ SandboxDies(s)
      BY <2>3 DEF Attempt, Publish, PriorStopped, Created, Finish, AttemptFails, AttemptRetries,
         BoxStarts, Connect, SandboxDies, row
    <2>4. CASE Disconnect \/ Heartbeat \/ TurnEnds \/ SnapshotTurn
      BY <2>4 DEF Disconnect, Heartbeat, TurnEnds, SnapshotTurn, row
    <2>5. CASE \/ \E k \in Slots : SnapshotDone(k)
               \/ \E x \in stops : StopDone(x)
      BY <2>5 DEF SnapshotDone, StopDone, row
    <2>6. CASE Terminate \/ Alarm
      BY <2>6 DEF Terminate, TerminateUnresponsive, TerminateFailed, Cancel, Alarm, AlarmDead,
         ConnectingTimeout, HeartbeatStale, InactivityTimeout, Retire, AlarmAgain, row
    <2>7. CASE Passage
      BY <2>1, <2>7 DEF Passage, PassSnapshotDone, PassStopDone, Recorded, row
    <2>8. CASE Tick \/ BeatGrowsOld \/ WindowPasses \/ Restart
      BY <2>8 DEF Tick, BeatGrowsOld, WindowPasses, Restart, row
    <2> QED
      BY <2>2, <2>3, <2>4, <2>5, <2>6, <2>7, <2>8 DEF Next
  <1> QED
    BY SingleInvariance, Invariance, <1>1, PTL DEF Spec, SnapshotIsOwn

-----------------------------------------------------------------------------
(* The refinement of SandboxSlot.  A step reserves, creates, or only lets  *)
(* attempts and sandboxes go.                                              *)

(* A step that starts no attempt and no sandbox gives one up, stops one or *)
(* is invisible; never both, since one thing happens at a time.            *)
LEMMA Stutters ==
    ASSUME UNCHANGED stamp, (Owed' /\ UNCHANGED Owed) \/ ~Owed',
           UNCHANGED running \/ (running' = {} /\ UNCHANGED Owed)
    PROVE  Slot!Next \/ UNCHANGED <<stamp, Owed, running>>
  <1>1. Owed \in BOOLEAN /\ Owed' \in BOOLEAN
    BY DEF Owed
  <1> QED
    BY <1>1 DEF Slot!Next, Slot!GiveUp, Slot!Stop

(* A sandbox that goes leaves none, there being one.                       *)
LEMMA NoneLeft ==
    ASSUME SingleInv, CanStop, ~StopFails, running' \subseteq running
    PROVE  running' = running \/ running' = {}
  <1>1. running \subseteq {object}
    BY DEF SingleInv, NothingElseRuns
  <1> QED
    BY <1>1

(* A reservation reserves.                                                 *)
LEMMA ReserveSlot ==
    ASSUME NEW n \in Stamps, NEW kind, Reserve(n, kind), UNCHANGED running
    PROVE  Slot!Next
  <1>1. Owed' \in BOOLEAN
    BY DEF Owed
  <1> QED
    BY <1>1 DEF Reserve, Slot!Next, Slot!Reserve

LEMMA AttemptSlot ==
    ASSUME IInv, SingleInv, CanStop, ~StopFails, NEW s \in Stamps, Attempt(s)
    PROVE  Slot!Next \/ UNCHANGED <<stamp, Owed, running>>
  <1>1. call \in [Stamps -> Calls]
    BY DEF IInv, TypeOK, CallsOK
  <1>2. call[s].at # "none"
    BY DEF Attempt, Publish, PriorStopped, Created, Finish, AttemptFails, AttemptRetries
  <1>3. s = stamp /\ call[s].kind # "resume" /\ \A t \in Stamps \ {s} : call[t].at = "none"
    BY <1>2, OnlyAttempt DEF SingleInv, OneAttempt
  <1>4. ASSUME AttemptEnds(s) PROVE ~Owed'
    <2>1. \A t \in Stamps : call'[t].at = "none"
      BY <1>1, <1>3, <1>4 DEF AttemptEnds, NoCall
    <2> QED
      BY <2>1 DEF Owed
  <1>5. CASE Finish(s) \/ AttemptFails(s)
    BY <1>4, <1>5, Stutters DEF Finish, AttemptFails
  <1>6. ASSUME NEW at \in {"prior", "remote"}, NEW obj, Moves(s, at, obj) PROVE Owed'
    <2>1. call'[s].at = at
      BY <1>1, <1>6 DEF Moves
    <2> QED
      BY <2>1 DEF Owed
  <1>7. CASE Publish(s)
    <2>1. Owed
      BY <1>7 DEF Publish, Owed
    <2>2. UNCHANGED <<stamp, running>> /\ (Owed' \/ ~Owed')
      BY <1>7 DEF Publish
    <2> QED
      BY <2>1, <2>2, Stutters
  <1>8. CASE PriorStopped(s)
    <2>1. Owed /\ Owed'
      BY <1>6, <1>8 DEF PriorStopped, Owed
    <2>2. UNCHANGED stamp /\ running' \subseteq running
      BY <1>8 DEF PriorStopped
    <2> QED
      BY <2>1, <2>2, NoneLeft, Stutters
  <1>9. CASE Created(s)
    <2>1. Owed /\ call[s].at = "remote" /\ UNCHANGED stamp /\ Moves(s, "store", call[s].obj)
      BY <1>9 DEF Created, Owed
    <2>2. running' = running \cup {s}
      BY <1>3, <1>9 DEF Created, Box
    <2>3. running = {}
      <3>1. running \subseteq {0}
        BY <2>1 DEF SingleInv, NothingElseRuns
      <3> QED
        BY <3>1 DEF SingleInv, OwnObject
    <2>4. call'[s].at = "store" /\ \A t \in Stamps \ {s} : call'[t].at = "none"
      BY <1>1, <1>3, <2>1 DEF Moves
    <2>5. Owed' = FALSE
      BY <2>4 DEF Owed
    <2>6. running' = {stamp}
      BY <1>3, <2>2, <2>3
    <2>7. Slot!Create
      BY <2>1, <2>3, <2>5, <2>6 DEF Slot!Create
    <2> QED
      BY <2>7 DEF Slot!Next
  <1>10. CASE AttemptRetries(s)
    <2>1. PICK n \in Stamps : Reserve(n, "retry")
      BY <1>3, <1>10 DEF AttemptRetries
    <2> QED
      BY <1>10, <2>1, ReserveSlot DEF AttemptRetries
  <1> QED
    BY <1>5, <1>7, <1>8, <1>9, <1>10 DEF Attempt

(* What the bridge, users, alarms and time do creates no sandbox.          *)
LEMMA OthersSlot ==
    ASSUME SingleInv, CanStop, ~StopFails, UNCHANGED <<stamp, call>>, running' \subseteq running
    PROVE  Slot!Next \/ UNCHANGED <<stamp, Owed, running>>
  <1>1. UNCHANGED Owed
    BY DEF Owed
  <1> QED
    BY <1>1, NoneLeft, Stutters

LEMMA StepSlot ==
    ASSUME IInv, SingleInv, ~Early, ~CanResume, CanStop, ~StopFails, [Next]_vars
    PROVE  Slot!Next \/ UNCHANGED <<stamp, Owed, running>>
  <1>1. CASE UNCHANGED vars
    BY <1>1, OthersSlot DEF vars, row, proc
  <1>2. CASE Request \/ Unwatched
    <2>1. CASE RequestRefused
      BY <2>1, OthersSlot DEF RequestRefused
    <2>2. ASSUME NEW kind \in {"spawn", "restore"}, SpawnStarts(kind) \/ SpawnUnwatched(kind)
          PROVE  Slot!Next
      BY <2>2, ReserveSlot DEF SpawnStarts, SpawnUnwatched
    <2> QED
      BY <1>2, <2>1, <2>2 DEF Request, Unwatched, ResumeStarts, Resumable
  <1>3. CASE \E s \in Stamps : Attempt(s) \/ BoxStarts(s) \/ Connect(s) \/ SandboxDies(s)
    <2>1. PICK s \in Stamps : Attempt(s) \/ Connect(s) \/ SandboxDies(s)
      BY <1>3 DEF BoxStarts
    <2>2. CASE Connect(s) \/ SandboxDies(s)
      BY <2>2, OthersSlot DEF Connect, SandboxDies, row, proc
    <2> QED
      BY <2>1, <2>2, AttemptSlot
  <1>4. CASE Disconnect \/ Heartbeat \/ TurnEnds \/ SnapshotTurn
    BY <1>4, OthersSlot DEF Disconnect, Heartbeat, TurnEnds, SnapshotTurn, row, proc
  <1>5. CASE \/ \E k \in Slots : SnapshotDone(k)
             \/ \E x \in stops : StopDone(x)
    BY <1>5, OthersSlot DEF SnapshotDone, StopDone, row
  <1>6. CASE Terminate \/ Alarm
    BY <1>6, OthersSlot DEF Terminate, TerminateUnresponsive, TerminateFailed, Cancel, Alarm,
       AlarmDead, ConnectingTimeout, HeartbeatStale, InactivityTimeout, Retire, AlarmAgain,
       row, proc
  <1>7. CASE Passage
    BY <1>7, OthersSlot DEF Passage, PassSnapshotDone, PassStopDone, row
  <1>8. CASE Tick \/ BeatGrowsOld \/ WindowPasses
    BY <1>8, OthersSlot DEF Tick, BeatGrowsOld, WindowPasses, proc
  <1>9. CASE Restart
    <2>1. UNCHANGED <<stamp, running>> /\ \A s \in Stamps : call'[s].at = "none"
      BY <1>9 DEF Restart, row, NoCall
    <2>2. ~Owed'
      BY <2>1 DEF Owed
    <2> QED
      BY <2>1, <2>2, Stutters
  <1> QED
    BY <1>1, <1>2, <1>3, <1>4, <1>5, <1>6, <1>7, <1>8, <1>9 DEF Next

(* With a provider that can stop sandboxes, and stops them when asked, the *)
(* sandboxes of a session run one after another: each is created at most   *)
(* once, as the newest, and only when the one it replaces is gone          *)
(* (stopPriorProviderSandbox).                                             *)
THEOREM OneAfterAnother ==
    ASSUME ~Early, ~CanResume, CanStop, ~StopFails PROVE Spec => ImplementsSandboxSlot
  <1>1. Init => Slot!Init
    BY DEF Init, Slot!Init, Owed, NoCall
  <1>2. IInv /\ SingleInv /\ [Next]_vars => [Slot!Next]_(Slot!slot)
    BY StepSlot DEF Slot!slot
  <1> QED
    BY SingleInvariance, Invariance, <1>1, <1>2, PTL DEF Spec, ImplementsSandboxSlot, Slot!Spec

(* In particular no two of them ever run at once.                          *)
THEOREM OnlyOneSandbox ==
    ASSUME ~Early, ~CanResume, CanStop, ~StopFails PROVE Spec => []OneSandbox
  <1>1. ASSUME SingleInv PROVE OneSandbox
    <2>1. running \subseteq {object}
      BY <1>1 DEF SingleInv, NothingElseRuns
    <2>2. running = {} \/ running = {object}
      BY <2>1
    <2>3. Cardinality(running) = 0 \/ Cardinality(running) = 1
      BY <2>2, FS_EmptySet, FS_Singleton
    <2> QED
      BY <2>3 DEF OneSandbox
  <1> QED
    BY SingleInvariance, <1>1, PTL

=============================================================================
