----------------------- MODULE SessionRegistryProofs -----------------------
(***************************************************************************)
(* The inductive invariant of SessionRegistry and its proof, for any number*)
(* of sessions, callers and resident runtimes.                             *)
(*                                                                         *)
(* The heart is the count of the leases: the number a runtime keeps is the *)
(* number of callers that hold one, and of its delivery.  A count of zero  *)
(* is all that a retirement looks at, and the count is right only because  *)
(* a caller that found a runtime looks at it again before it takes a lease,*)
(* and because nobody takes one once the runtime closes.                   *)
(*                                                                         *)
(* The proof goes session by session: what one keeps is WellKept, a step   *)
(* leaves most sessions Alone, and some of them Gone.                      *)
(***************************************************************************)
EXTENDS SessionRegistry, FiniteSetTheorems, TLAPS

-----------------------------------------------------------------------------
(* Callers, and sets of callers.                                           *)

CallType == [at : {"idle", "waiting", "granted", "found", "stale", "again", "using", "adopted"},
             on : SUBSET Sessions, kind : Kinds]

(* Of the callers, only c moves.                                           *)
Only(c) == call' \in [Callers -> CallType] /\ \A x \in Callers \ {c} : call'[x] = call[x]

(* Sets of callers can be counted.                                         *)
LEMMA OnFinite ==
    ASSUME NEW s, NEW W
    PROVE  IsFiniteSet(On(s, W)) /\ Cardinality(On(s, W)) \in Nat
  <1>1. On(s, W) \in SUBSET Callers
    BY DEF On
  <1> QED
    BY <1>1, RegistryAssumption, FS_Subset, FS_CardinalityType

LEMMA OnFiniteNext ==
    ASSUME NEW s, NEW W
    PROVE  IsFiniteSet(On(s, W)') /\ Cardinality(On(s, W)') \in Nat
  <1>1. On(s, W)' \in SUBSET Callers
    BY DEF On
  <1> QED
    BY <1>1, RegistryAssumption, FS_Subset, FS_CardinalityType

(* A caller that moves at one session leaves the others' callers alone.    *)
LEMMA OthersKept ==
    ASSUME NEW c, NEW s, NEW r \in Sessions, r # s, NEW W, Only(c),
           call[c].on \subseteq {s}, call'[c].on \subseteq {s}
    PROVE  On(r, W)' = On(r, W)
  <1>1. \A x \in Callers : x \in On(r, W)' <=> x \in On(r, W)
    BY DEF On, Only
  <1> QED
    BY <1>1 DEF On

(* One that comes to a set counts one more.                                *)
LEMMA Comes ==
    ASSUME NEW c \in Callers, NEW s, NEW W, Only(c),
           c \notin On(s, W), c \in On(s, W)'
    PROVE  /\ On(s, W)' = On(s, W) \cup {c}
           /\ Cardinality(On(s, W)') = Cardinality(On(s, W)) + 1
  <1>1. On(s, W)' = On(s, W) \cup {c}
    BY DEF On, Only
  <1> QED
    BY <1>1, OnFinite, FS_AddElement

(* One that goes counts one less.                                          *)
LEMMA Goes ==
    ASSUME NEW c \in Callers, NEW s, NEW W, Only(c),
           c \in On(s, W), c \notin On(s, W)'
    PROVE  /\ On(s, W)' = On(s, W) \ {c}
           /\ Cardinality(On(s, W)') = Cardinality(On(s, W)) - 1
  <1>1. On(s, W)' = On(s, W) \ {c}
    BY DEF On, Only
  <1> QED
    BY <1>1, OnFinite, FS_RemoveElement

(* One that is in it before and after, or neither, leaves it as it is.     *)
LEMMA Stays ==
    ASSUME NEW c \in Callers, NEW s, NEW W, Only(c),
           c \in On(s, W) <=> c \in On(s, W)'
    PROVE  On(s, W)' = On(s, W)
  BY DEF On, Only

(* What Move and Answer do to the caller.                                  *)
LEMMA Moves ==
    ASSUME call \in [Callers -> CallType], NEW c \in Callers,
           NEW to \in {"using", "adopted"}, Move(c, to)
    PROVE  Only(c) /\ call'[c].at = to /\ call'[c].on = call[c].on
  <1>1. call[c] \in CallType
    OBVIOUS
  <1>2. [call[c] EXCEPT !.at = to] \in CallType
    BY <1>1 DEF CallType
  <1> QED
    BY <1>1, <1>2 DEF Only, Move, CallType

LEMMA Answers ==
    ASSUME call \in [Callers -> CallType], NEW c \in Callers, Answer(c)
    PROVE  Only(c) /\ call'[c] = NoCall
  <1>1. NoCall \in CallType
    BY DEF NoCall, CallType, Kinds
  <1> QED
    BY <1>1 DEF Only, Answer

-----------------------------------------------------------------------------
(* What is kept of one session.                                            *)

Running(s) == IF delivery[s] = "running" THEN 1 ELSE 0

WellKept(s) ==
    /\ leases[s] = IF s \in Up THEN Cardinality(Users(s)) + Running(s) ELSE 0
    /\ waiters[s] = Cardinality(On(s, {"waiting"}))
    /\ s \notin Up => Users(s) = {}
    /\ On(s, {"waiting"}) # {} => life[s] \in Building
    /\ On(s, {"found"}) # {} => s \in Up
    /\ s \notin Up => sock[s] = "none" /\ delivery[s] = "none" /\ s \notin tasks
    /\ life[s] = "quiet" => Users(s) = {} /\ sock[s] = "none" /\ (s \in tasks => delivery[s] = "running")
    /\ down = "quiescing" => life[s] \in {"none", "quiescing", "quiet"}
    /\ down = "done" => life[s] = "none"

Placed(c) == call[c] = NoCall \/ (call[c].at # "idle" /\ \E s \in Sessions : call[c].on = {s})

(* The inductive invariant, taken apart by session and by caller.          *)
LEMMA IInvParts ==
    IInv <=> /\ TypeOK /\ IsFiniteSet(Up)
             /\ \A s \in Sessions : WellKept(s)
             /\ \A c \in Callers : Placed(c)
  <1>1. ASSUME IInv PROVE \A s \in Sessions : WellKept(s)
    <2> SUFFICES ASSUME NEW s \in Sessions PROVE WellKept(s)
      OBVIOUS
    <2>2. LeasesCounted /\ CallersPlaced /\ GoneIsEmpty /\ QuietIsLeft /\ ShutdownIsFinal
      BY <1>1 DEF IInv
    <2>3. s \notin Up => sock[s] = "none" /\ delivery[s] = "none" /\ s \notin tasks
      BY <2>2 DEF GoneIsEmpty
    <2>4. On(s, {"waiting"}) # {} => life[s] \in Building
      BY <2>2 DEF CallersPlaced
    <2>5. On(s, {"found"}) # {} => s \in Up
      BY <2>2 DEF CallersPlaced
    <2>6. leases[s] = IF s \in Up THEN Cardinality(Users(s)) + Running(s) ELSE 0
      BY <2>2 DEF LeasesCounted, Running
    <2>7. waiters[s] = Cardinality(On(s, {"waiting"})) /\ (s \notin Up => Users(s) = {})
      BY <2>2 DEF LeasesCounted
    <2>8. life[s] = "quiet" => Users(s) = {} /\ sock[s] = "none" /\ (s \in tasks => delivery[s] = "running")
      BY <2>2 DEF QuietIsLeft
    <2> QED
      BY <2>2, <2>3, <2>4, <2>5, <2>6, <2>7, <2>8 DEF WellKept, ShutdownIsFinal
  <1>2. ASSUME \A s \in Sessions : WellKept(s)
        PROVE  LeasesCounted /\ GoneIsEmpty /\ QuietIsLeft /\ ShutdownIsFinal
    <2>1. LeasesCounted
      BY <1>2 DEF LeasesCounted, WellKept, Running
    <2>2. GoneIsEmpty
      BY <1>2 DEF GoneIsEmpty, WellKept
    <2>3. QuietIsLeft
      BY <1>2 DEF QuietIsLeft, WellKept
    <2>4. ShutdownIsFinal
      BY <1>2 DEF ShutdownIsFinal, WellKept
    <2> QED
      BY <2>1, <2>2, <2>3, <2>4
  <1>3. ASSUME \A s \in Sessions : WellKept(s), \A c \in Callers : Placed(c)
        PROVE  CallersPlaced
    BY <1>3 DEF CallersPlaced, WellKept, Placed
  <1>4. ASSUME IInv PROVE \A c \in Callers : Placed(c)
    BY <1>4 DEF IInv, CallersPlaced, Placed
  <1> QED
    BY <1>1, <1>2, <1>3, <1>4 DEF IInv

(* The step does nothing to session r that matters here.                   *)
Alone(r) ==
    /\ life'[r] = life[r] /\ leases'[r] = leases[r] /\ waiters'[r] = waiters[r]
    /\ sock'[r] = sock[r] /\ delivery'[r] = delivery[r] /\ (r \in tasks' <=> r \in tasks)
    /\ Users(r)' = Users(r) /\ On(r, {"waiting"})' = On(r, {"waiting"})
    /\ On(r, {"found"})' \subseteq On(r, {"found"})

(* The step leaves nothing of the session's runtime.                       *)
Gone(r) ==
    /\ life'[r] = "none" /\ leases'[r] = 0 /\ waiters'[r] = 0
    /\ sock'[r] = "none" /\ delivery'[r] = "none" /\ r \notin tasks'
    /\ Users(r)' = {} /\ On(r, {"waiting"})' = {} /\ On(r, {"found"})' = {}

LEMMA AloneKeeps ==
    ASSUME NEW r \in Sessions, WellKept(r), Alone(r), down' = down
    PROVE  WellKept(r)'
  <1>1. r \in Up' <=> r \in Up
    BY DEF Up, Alone
  <1> QED
    BY <1>1 DEF WellKept, Alone, Running

LEMMA GoneKeeps ==
    ASSUME NEW r \in Sessions, Gone(r), down' \in {"no", "opening", "quiescing", "done"}
    PROVE  WellKept(r)'
  <1>1. r \notin Up'
    BY DEF Up, Gone, Published
  <1> QED
    BY <1>1, FS_EmptySet DEF WellKept, Gone, Running

(* Who holds a lease is counted, and so is a delivery.                     *)
LEMMA HolderCounts ==
    ASSUME NEW s \in Sessions, WellKept(s), NEW c \in Users(s)
    PROVE  s \in Up /\ leases[s] \in Nat /\ leases[s] > 0
  <1>1. s \in Up
    BY DEF WellKept
  <1>2. Cardinality(Users(s)) \in Nat /\ Cardinality(Users(s)) # 0
    <2>1. IsFiniteSet(Users(s)) /\ Cardinality(Users(s)) \in Nat
      BY OnFinite DEF Users
    <2> QED
      BY <2>1, FS_EmptySet
  <1> QED
    BY <1>1, <1>2 DEF WellKept, Running

LEMMA DeliveryCounts ==
    ASSUME NEW s \in Sessions, WellKept(s), delivery[s] = "running"
    PROVE  s \in Up /\ leases[s] \in Nat /\ leases[s] > 0
  <1>1. s \in Up
    BY DEF WellKept
  <1>2. Cardinality(Users(s)) \in Nat
    BY OnFinite DEF Users
  <1> QED
    BY <1>1, <1>2 DEF WellKept, Running

(* A runtime without leases has no users and no delivery under way.        *)
LEMMA NoLeases ==
    ASSUME NEW s \in Sessions, WellKept(s), leases[s] = 0
    PROVE  Users(s) = {} /\ delivery[s] # "running"
  <1>1. Users(s) = {}
    BY HolderCounts
  <1> QED
    BY <1>1, DeliveryCounts

-----------------------------------------------------------------------------

(* The state, as the proof takes it apart; it is IInv.                     *)
Kept == /\ TypeOK /\ IsFiniteSet(Up)
        /\ \A s \in Sessions : WellKept(s)
        /\ \A c \in Callers : Placed(c)

LEMMA CallTyped == TypeOK => call \in [Callers -> CallType]
  BY DEF TypeOK, CallType

(* The answers to many callers are well-typed, and so is what they become  *)
(* when runtimes are retired.                                              *)
LEMMA BulkTyped ==
    ASSUME TypeOK, NEW s \in Sessions, NEW W
    PROVE  Answered(s, W) \in [Callers -> CallType] /\ Admitted(s) \in [Callers -> CallType]
  <1>1. call \in [Callers -> CallType]
    BY CallTyped
  <1>2. NoCall \in CallType
    BY DEF NoCall, CallType, Kinds
  <1>3. \A c \in Callers : [call[c] EXCEPT !.at = "granted", !.kind = IF @ = "alarm" THEN "event" ELSE @]
                             \in CallType
    BY <1>1 DEF CallType, Kinds
  <1>4. Answered(s, W) \in [Callers -> CallType]
    BY <1>1, <1>2 DEF Answered
  <1>5. Admitted(s) \in [Callers -> CallType]
    BY <1>1, <1>3 DEF Admitted
  <1> QED
    BY <1>4, <1>5

LEMMA OutdatedTyped ==
    ASSUME NEW calls \in [Callers -> CallType], NEW R
    PROVE  Outdated(R, calls) \in [Callers -> CallType]
  <1>1. \A c \in Callers : [calls[c] EXCEPT !.at = "stale"] \in CallType
    BY DEF CallType
  <1> QED
    BY <1>1 DEF Outdated

(* Sockets and the sweep of retired runtimes are well-typed.               *)
LEMMA AbandonedTyped ==
    ASSUME TypeOK, NEW R, Abandoned(R)
    PROVE  /\ delivery' \in [Sessions -> {"none", "running", "next"}]
           /\ queued' \in SUBSET Sessions
  BY DEF TypeOK, Abandoned

LEMMA SweepTyped ==
    ASSUME TypeOK, NEW R
    PROVE  SweepAfter(R) \in [on : SUBSET Sessions, old : BOOLEAN]
  BY DEF TypeOK, SweepAfter

LEMMA RetireTyped ==
    ASSUME TypeOK, NEW s \in Sessions, Retire(s), sweep' \in {sweep, NoSweep},
           down' = down, forced' \in SUBSET Sessions
    PROVE  TypeOK'
  <1>1. call' \in [Callers -> CallType]
    BY BulkTyped, OutdatedTyped DEF Retire
  <1>2. delivery' \in [Sessions -> {"none", "running", "next"}] /\ queued' \in SUBSET Sessions
    BY AbandonedTyped DEF Retire
  <1>3. NoSweep \in [on : SUBSET Sessions, old : BOOLEAN]
    BY DEF NoSweep
  <1> QED
    BY <1>1, <1>2, <1>3 DEF TypeOK, Retire, CallType

(* Opening finds a build to join, begins one, is refused or finds a runtime.*)
LEMMA OpenKinds ==
    ASSUME TypeOK, NEW c \in Callers, NEW s \in Sessions, NEW k \in Kinds, Open(c, s, k)
    PROVE  \/ /\ life[s] \in Building /\ Join(c, s, k)
              /\ call' = [call EXCEPT ![c] = [at |-> "waiting", on |-> {s}, kind |-> k]]
           \/ /\ life[s] = "none" /\ down = "no" /\ Begin(c, s, k)
              /\ call' = [call EXCEPT ![c] = [at |-> "waiting", on |-> {s}, kind |-> k]]
           \/ /\ life[s] = "none" /\ down # "no" /\ UNCHANGED <<life, rehydrate, waiters>>
              /\ call' = [call EXCEPT ![c] = NoCall]
           \/ /\ s \in Up /\ UNCHANGED <<life, rehydrate, waiters>>
              /\ call' = [call EXCEPT ![c] = [at |-> "found", on |-> {s}, kind |-> k]]
  <1>1. life[s] = "none" \/ life[s] \in Building \/ life[s] \in Published
    BY DEF TypeOK
  <1>2. CASE life[s] \in Building
    <2>1. life[s] # "none" /\ s \notin Up
      BY <1>2 DEF Building, Up, Published
    <2> QED
      BY <1>2, <2>1 DEF Open
  <1>3. CASE life[s] = "none"
    <2>1. life[s] \notin Building /\ s \notin Up
      BY <1>3 DEF Building, Up, Published
    <2> QED
      BY <1>3, <2>1 DEF Open
  <1>4. CASE life[s] \in Published
    <2>1. life[s] \notin Building /\ life[s] # "none" /\ s \in Up
      BY <1>4 DEF Building, Up, Published
    <2> QED
      BY <2>1 DEF Open
  <1> QED
    BY <1>1, <1>2, <1>3, <1>4

LEMMA OpenTyped ==
    ASSUME TypeOK, NEW c \in Callers, NEW s \in Sessions, NEW k \in Kinds, Open(c, s, k)
    PROVE  TypeOK' /\ Only(c)
  <1>1. call \in [Callers -> CallType] /\ NoCall \in CallType
    BY CallTyped DEF NoCall, CallType, Kinds
  <1>2. \A at \in {"found", "waiting"} : [at |-> at, on |-> {s}, kind |-> k] \in CallType
    BY DEF CallType
  <1>3. call' \in [Callers -> CallType] /\ Only(c)
    BY <1>1, <1>2 DEF Open, Only
  <1>4. UNCHANGED <<life, rehydrate, waiters>> \/ Join(c, s, k) \/ Begin(c, s, k)
    BY OpenKinds
  <1>5. life' \in [Sessions -> {"none"} \cup Building \cup Published]
    <2>1. (IF k = "ifPresent" THEN "checking" ELSE "building") \in Building
      BY DEF Building
    <2> QED
      BY <1>4, <2>1 DEF TypeOK, Join, Begin
  <1>6. waiters' \in [Sessions -> Nat]
    BY <1>4 DEF TypeOK, Join, Begin
  <1>7. rehydrate' \in [Sessions -> BOOLEAN]
    <2>1. (rehydrate[s] /\ k # "alarm") \in BOOLEAN /\ (k # "alarm") \in BOOLEAN
      BY Zenon
    <2> QED
      BY <1>4, <2>1, Zenon DEF TypeOK, Join, Begin
  <1> QED
    BY <1>3, <1>5, <1>6, <1>7 DEF TypeOK, Open, sockets, CallType

-----------------------------------------------------------------------------
(* Steps at one session.                                                   *)

(* Nothing of another session's runtime changes.                           *)
Elsewhere(s) ==
    \A r \in Sessions \ {s} :
        /\ life'[r] = life[r] /\ leases'[r] = leases[r] /\ waiters'[r] = waiters[r]
        /\ sock'[r] = sock[r] /\ delivery'[r] = delivery[r] /\ (r \in tasks' <=> r \in tasks)

(* At most one runtime comes.                                              *)
LEMMA UpStaysFinite ==
    ASSUME NEW s \in Sessions, IsFiniteSet(Up), Elsewhere(s)
    PROVE  IsFiniteSet(Up')
  <1>1. Up' \in SUBSET (Up \cup {s})
    BY DEF Up, Elsewhere
  <1>2. IsFiniteSet(Up \cup {s})
    BY FS_AddElement
  <1> QED
    BY <1>1, <1>2, FS_Subset

(* A step of one caller at one session.                                    *)
LEMMA OneKeeps ==
    ASSUME Kept, NEW s \in Sessions, NEW c \in Callers, TypeOK', Only(c),
           call[c].on \subseteq {s}, call'[c].on \subseteq {s}, Placed(c)',
           down' = down, Elsewhere(s), WellKept(s)'
    PROVE  Kept'
  <1>1. ASSUME NEW r \in Sessions, r # s PROVE WellKept(r)'
    <2>1. \A W \in {{"waiting"}, {"found"}, Holding} : On(r, W)' = On(r, W)
      BY <1>1, OthersKept
    <2>2. Alone(r)
      BY <1>1, <2>1 DEF Alone, Elsewhere, Users
    <2> QED
      BY <2>2, AloneKeeps DEF Kept
  <1>2. \A x \in Callers : Placed(x)'
    BY DEF Kept, Placed, Only
  <1> QED
    BY <1>1, <1>2, UpStaysFinite DEF Kept

(* A step at one session that moves no caller.                             *)
LEMMA StillKeeps ==
    ASSUME Kept, NEW s \in Sessions, TypeOK', UNCHANGED <<call, down>>, Elsewhere(s), WellKept(s)'
    PROVE  Kept'
  <1>1. ASSUME NEW r \in Sessions, r # s PROVE WellKept(r)'
    <2>1. Alone(r)
      BY <1>1 DEF Alone, Elsewhere, Users, On
    <2> QED
      BY <2>1, AloneKeeps DEF Kept
  <1>2. \A x \in Callers : Placed(x)'
    BY DEF Kept, Placed
  <1> QED
    BY <1>1, <1>2, UpStaysFinite DEF Kept

(* Who is in the sets of a session's callers.                              *)
LEMMA InSet ==
    ASSUME NEW c \in Callers, NEW s, NEW W
    PROVE  /\ c \in On(s, W) <=> call[c].on = {s} /\ call[c].at \in W
           /\ c \in On(s, W)' <=> call'[c].on = {s} /\ call'[c].at \in W
  BY DEF On

-----------------------------------------------------------------------------
(* The steps of callers.                                                   *)

(* A new caller waits, found a runtime, or is refused; so does one whose   *)
(* runtime was retired when it opens again.                                *)
LEMMA OpenKeeps ==
    ASSUME Kept, NEW c \in Callers, NEW s \in Sessions, NEW k \in Kinds, Open(c, s, k),
           call[c] = NoCall \/ (call[c].on = {s} /\ call[c].at \in {"stale", "again"})
    PROVE  Kept'
  <1>1. TypeOK /\ TypeOK' /\ Only(c) /\ WellKept(s)
    BY OpenTyped DEF Kept
  <1>2. call[c] \in CallType /\ c \in DOMAIN call
    BY <1>1, CallTyped
  <1>3. \A W \in {{"waiting"}, {"found"}, Holding} : c \notin On(s, W)
    BY InSet DEF NoCall, Holding
  <1>4. /\ UNCHANGED <<leases, sock, delivery, tasks, down>>
        /\ UNCHANGED <<life, rehydrate, waiters>> \/ Join(c, s, k) \/ Begin(c, s, k)
    BY <1>1, OpenKinds DEF Open, sockets
  <1>5. Elsewhere(s)
    BY <1>1, <1>4 DEF Elsewhere, Join, Begin, TypeOK
  <1>6. ASSUME call' = [call EXCEPT ![c] = NoCall], UNCHANGED <<life, waiters>> PROVE Kept'
    <2>1. call'[c] = NoCall
      BY <1>2, <1>6
    <2>2. \A W \in {{"waiting"}, {"found"}, Holding} : On(s, W)' = On(s, W)
      BY <1>1, <1>3, <2>1, InSet, Stays DEF NoCall, Holding
    <2>3. Alone(s)
      BY <1>4, <1>6, <2>2 DEF Alone, Users
    <2>4. WellKept(s)'
      BY <1>1, <1>4, <2>3, AloneKeeps
    <2> QED
      BY <1>1, <1>4, <1>5, <2>1, <2>4, OneKeeps DEF Placed, NoCall
  <1>7. ASSUME NEW at \in {"waiting", "found"},
               call' = [call EXCEPT ![c] = [at |-> at, on |-> {s}, kind |-> k]]
        PROVE  /\ call'[c].on = {s} /\ call'[c].at = at /\ Placed(c)'
               /\ call[c].on \subseteq {s} /\ Users(s)' = Users(s)
               /\ \A W \in {{"waiting"}, {"found"}} : at \notin W => On(s, W)' = On(s, W)
    <2>1. call'[c].on = {s} /\ call'[c].at = at
      BY <1>2, <1>7
    <2>2. Placed(c)' /\ call[c].on \subseteq {s}
      BY <2>1 DEF Placed, NoCall
    <2>3. \A W \in {{"waiting"}, {"found"}, Holding} : at \notin W => On(s, W)' = On(s, W)
      BY <1>1, <1>3, <2>1, InSet, Stays
    <2>4. Users(s)' = Users(s)
      BY <2>3 DEF Users, Holding
    <2> QED
      BY <2>1, <2>2, <2>3, <2>4
  <1>8. ASSUME call' = [call EXCEPT ![c] = [at |-> "found", on |-> {s}, kind |-> k]],
               s \in Up, UNCHANGED <<life, waiters>>
        PROVE  Kept'
    <2>1. /\ call'[c].on = {s} /\ Placed(c)' /\ call[c].on \subseteq {s} /\ Users(s)' = Users(s)
          /\ On(s, {"waiting"})' = On(s, {"waiting"})
      BY <1>7, <1>8
    <2>2. s \in Up'
      BY <1>8 DEF Up
    <2>3. WellKept(s)'
      BY <1>1, <1>4, <1>8, <2>1, <2>2 DEF WellKept, Running
    <2> QED
      BY <1>1, <1>4, <1>5, <2>1, <2>3, OneKeeps
  <1>9. ASSUME call' = [call EXCEPT ![c] = [at |-> "waiting", on |-> {s}, kind |-> k]],
               life'[s] \in Building, life[s] \notin Published, waiters'[s] = waiters[s] + 1,
               down = "quiescing" => life'[s] = life[s], down = "done" => life'[s] = life[s]
        PROVE  Kept'
    <2>1. /\ call'[c].on = {s} /\ call'[c].at = "waiting" /\ Placed(c)'
          /\ call[c].on \subseteq {s} /\ Users(s)' = Users(s)
          /\ On(s, {"found"})' = On(s, {"found"})
      BY <1>7, <1>9
    <2>2. Cardinality(On(s, {"waiting"})') = Cardinality(On(s, {"waiting"})) + 1
      BY <1>1, <1>3, <2>1, InSet, Comes
    <2>3. s \notin Up /\ s \notin Up' /\ life'[s] # "quiet"
      BY <1>9 DEF Up, Building, Published
    <2>4. waiters'[s] = Cardinality(On(s, {"waiting"})')
      BY <1>1, <1>9, <2>2 DEF WellKept
    <2>5. WellKept(s)'
      BY <1>1, <1>4, <1>9, <2>1, <2>3, <2>4 DEF WellKept
    <2> QED
      BY <1>1, <1>4, <1>5, <2>1, <2>5, OneKeeps
  <1>10. ASSUME life[s] = "none" PROVE waiters[s] = 0 /\ life[s] \notin Published
    <2>1. life[s] \notin Building /\ life[s] \notin Published
      BY <1>10 DEF Building, Published
    <2> QED
      BY <1>1, <2>1, FS_EmptySet DEF WellKept
  <1>11. ASSUME life[s] \in Building, Join(c, s, k)
         PROVE  life'[s] \in Building /\ life[s] \notin Published /\ waiters'[s] = waiters[s] + 1 /\ life' = life
    BY <1>1, <1>11 DEF Join, Building, Published, TypeOK
  <1>12. ASSUME life[s] = "none", Begin(c, s, k)
         PROVE  life'[s] \in Building /\ life[s] \notin Published /\ waiters'[s] = waiters[s] + 1
    BY <1>1, <1>10, <1>12 DEF Begin, Building, TypeOK
  <1> QED
    BY <1>1, <1>6, <1>8, <1>9, <1>11, <1>12, OpenKinds

(* A caller to whom a lease was granted works with it or gives it back.    *)
LEMMA GrantedKeeps ==
    ASSUME Kept, NEW c \in Callers, NEW s \in Sessions, Granted(c, s)
    PROVE  Kept'
  <1>1. TypeOK /\ WellKept(s) /\ call \in [Callers -> CallType] /\ Placed(c)
    BY CallTyped DEF Kept
  <1>2. c \in Users(s) /\ c \notin On(s, {"waiting"}) /\ c \notin On(s, {"found"})
    BY InSet DEF Granted, Users, Holding
  <1>3. s \in Up /\ leases[s] \in Nat /\ leases[s] > 0
    BY <1>1, <1>2, HolderCounts
  <1>4. UNCHANGED <<life, waiters, sock, delivery, tasks, down>> /\ Up' = Up
    BY DEF Granted, sockets, Up
  <1>5. CASE Closing(s)
    <2>1. Only(c) /\ call'[c] = NoCall /\ leases' = [leases EXCEPT ![s] = @ - 1]
      BY <1>1, <1>5, Answers DEF Granted, Release
    <2>2. TypeOK'
      BY <1>1, <1>3, <2>1 DEF TypeOK, Granted, sockets, Only, CallType
    <2>3. c \notin On(s, Holding)' /\ c \notin On(s, {"waiting"})' /\ c \notin On(s, {"found"})'
      BY <2>1, InSet DEF NoCall, Holding
    <2>4. /\ On(s, {"waiting"})' = On(s, {"waiting"}) /\ On(s, {"found"})' = On(s, {"found"})
          /\ Users(s)' = Users(s) \ {c} /\ Cardinality(Users(s)') = Cardinality(Users(s)) - 1
      BY <1>2, <2>1, <2>3, Stays, Goes DEF Users
    <2>5. Cardinality(Users(s)) \in Nat
      BY OnFinite DEF Users
    <2>6. leases'[s] = leases[s] - 1
      BY <1>1, <2>1 DEF TypeOK
    <2>7. WellKept(s)'
      BY <1>1, <1>3, <1>4, <2>4, <2>5, <2>6 DEF WellKept, Running
    <2>8. Elsewhere(s)
      BY <1>1, <1>4, <2>1 DEF Elsewhere, TypeOK
    <2>9. Placed(c)' /\ call[c].on = {s} /\ call'[c].on = {}
      BY <2>1 DEF Placed, NoCall, Granted
    <2> QED
      BY <1>4, <2>1, <2>2, <2>7, <2>8, <2>9, OneKeeps
  <1>6. CASE ~Closing(s)
    <2>1. /\ Only(c) /\ call'[c].at = "using" /\ call'[c].on = {s} /\ call[c].on = {s}
          /\ leases' = leases
      BY <1>1, <1>6, Moves DEF Granted
    <2>2. TypeOK'
      BY <1>1, <2>1 DEF TypeOK, Granted, sockets, Only, CallType
    <2>3. c \in On(s, Holding)' /\ c \notin On(s, {"waiting"})' /\ c \notin On(s, {"found"})'
      BY <2>1, InSet DEF Holding
    <2>4. Alone(s)
      BY <1>2, <1>4, <2>1, <2>3, Stays DEF Users, Alone
    <2>5. WellKept(s)' /\ Elsewhere(s)
      BY <1>1, <1>4, <2>1, <2>4, AloneKeeps DEF Elsewhere
    <2> QED
      BY <1>4, <2>1, <2>2, <2>5, OneKeeps DEF Placed
  <1> QED
    BY <1>5, <1>6

(* One that found a runtime takes a lease on it, unless it closes.         *)
LEMMA FoundKeeps ==
    ASSUME Kept, NEW c \in Callers, NEW s \in Sessions, Found(c, s)
    PROVE  Kept'
  <1>1. TypeOK /\ WellKept(s) /\ call \in [Callers -> CallType] /\ Placed(c)
    BY CallTyped DEF Kept
  <1>2. c \notin Users(s) /\ c \notin On(s, {"waiting"}) /\ c \in On(s, {"found"})
    BY InSet DEF Found, Users, Holding
  <1>3. s \in Up
    BY <1>1, <1>2 DEF WellKept
  <1>4. UNCHANGED <<life, waiters, sock, delivery, tasks, down>> /\ Up' = Up
    BY DEF Found, sockets, Up
  <1>5. CASE Closing(s)
    <2>1. Only(c) /\ call'[c] = NoCall /\ leases' = leases
      BY <1>1, <1>5, Answers DEF Found
    <2>2. TypeOK'
      BY <1>1, <2>1 DEF TypeOK, Found, sockets, Only, CallType
    <2>3. c \notin On(s, Holding)' /\ c \notin On(s, {"waiting"})' /\ c \notin On(s, {"found"})'
      BY <2>1, InSet DEF NoCall, Holding
    <2>4. /\ On(s, {"waiting"})' = On(s, {"waiting"}) /\ Users(s)' = Users(s)
          /\ On(s, {"found"})' \subseteq On(s, {"found"})
      BY <1>2, <2>1, <2>3, Stays, Goes DEF Users
    <2>5. Alone(s) /\ Elsewhere(s)
      BY <1>4, <2>1, <2>4 DEF Alone, Elsewhere
    <2>6. Placed(c)' /\ call[c].on = {s} /\ call'[c].on = {}
      BY <2>1 DEF Placed, NoCall, Found
    <2> QED
      BY <1>1, <1>4, <2>1, <2>2, <2>5, <2>6, AloneKeeps, OneKeeps
  <1>6. CASE ~Closing(s)
    <2>1. /\ Only(c) /\ call'[c].at = "using" /\ call'[c].on = {s} /\ call[c].on = {s}
          /\ leases' = [leases EXCEPT ![s] = @ + 1]
      BY <1>1, <1>6, Moves DEF Found, TakeLease
    <2>2. TypeOK'
      BY <1>1, <2>1 DEF TypeOK, Found, sockets, Only, CallType
    <2>3. c \in On(s, Holding)' /\ c \notin On(s, {"waiting"})' /\ c \notin On(s, {"found"})'
      BY <2>1, InSet DEF Holding
    <2>4. /\ On(s, {"waiting"})' = On(s, {"waiting"})
          /\ Cardinality(Users(s)') = Cardinality(Users(s)) + 1
      BY <1>2, <2>1, <2>3, Stays, Comes DEF Users
    <2>5. leases'[s] = leases[s] + 1 /\ Cardinality(Users(s)) \in Nat
      BY <1>1, <2>1, OnFinite DEF TypeOK, Users
    <2>6. life[s] # "quiet" /\ life[s] \notin Building
      BY <1>3, <1>6 DEF Closing, Up, Building, Published
    <2>7. WellKept(s)'
      BY <1>1, <1>3, <1>4, <2>4, <2>5, <2>6 DEF WellKept, Running
    <2>8. Elsewhere(s)
      BY <1>1, <1>4, <2>1 DEF Elsewhere, TypeOK
    <2> QED
      BY <1>4, <2>1, <2>2, <2>7, <2>8, OneKeeps DEF Placed
  <1> QED
    BY <1>5, <1>6

(* A caller that leaves gives its lease back.                              *)
LEMMA LeaveKeeps ==
    ASSUME Kept, NEW c \in Callers, NEW s \in Sessions, Leave(c, s)
    PROVE  Kept'
  <1>1. TypeOK /\ WellKept(s) /\ call \in [Callers -> CallType]
    BY CallTyped DEF Kept
  <1>2. /\ c \in Users(s) /\ c \notin On(s, {"waiting"}) /\ c \notin On(s, {"found"})
        /\ call[c].on = {s}
    BY InSet DEF Leave, Users, Holding
  <1>3. s \in Up /\ leases[s] \in Nat /\ leases[s] > 0
    BY <1>1, <1>2, HolderCounts
  <1>4. UNCHANGED <<life, waiters, sock, delivery, tasks, down>> /\ Up' = Up
    BY DEF Leave, sockets, Up
  <1>5. Only(c) /\ call'[c] = NoCall /\ leases' = [leases EXCEPT ![s] = @ - 1]
    BY <1>1, Answers DEF Leave, Release
  <1>6. TypeOK'
    BY <1>1, <1>3, <1>5 DEF TypeOK, Leave, sockets, Only, CallType
  <1>7. c \notin On(s, Holding)' /\ c \notin On(s, {"waiting"})' /\ c \notin On(s, {"found"})'
    BY <1>5, InSet DEF NoCall, Holding
  <1>8. /\ On(s, {"waiting"})' = On(s, {"waiting"}) /\ On(s, {"found"})' = On(s, {"found"})
        /\ Users(s)' = Users(s) \ {c} /\ Cardinality(Users(s)') = Cardinality(Users(s)) - 1
    BY <1>2, <1>5, <1>7, Stays, Goes DEF Users
  <1>9. leases'[s] = leases[s] - 1 /\ Cardinality(Users(s)) \in Nat
    BY <1>1, <1>5, OnFinite DEF TypeOK, Users
  <1>10. WellKept(s)'
    BY <1>1, <1>3, <1>4, <1>8, <1>9 DEF WellKept, Running
  <1>11. Elsewhere(s)
    BY <1>1, <1>4, <1>5 DEF Elsewhere, TypeOK
  <1>12. Placed(c)' /\ call'[c].on = {}
    BY <1>5 DEF Placed, NoCall
  <1> QED
    BY <1>2, <1>4, <1>5, <1>6, <1>10, <1>11, <1>12, OneKeeps

(* An upgrade goes on with a socket, and stays a user.                     *)
LEMMA AdoptKeeps ==
    ASSUME Kept, NEW c \in Callers, NEW s \in Sessions, Adopt(c, s)
    PROVE  Kept'
  <1>1. TypeOK /\ WellKept(s) /\ call \in [Callers -> CallType]
    BY CallTyped DEF Kept
  <1>2. call[c].at = "using" /\ call[c].on = {s}
    BY DEF Adopt
  <1>3. c \in Users(s) /\ c \notin On(s, {"waiting"}) /\ c \notin On(s, {"found"})
    BY <1>2, InSet DEF Users, Holding
  <1>4. s \in Up
    BY <1>1, <1>3, HolderCounts
  <1>5. UNCHANGED <<life, leases, waiters, delivery, tasks, down>> /\ Up' = Up
    BY DEF Adopt, runtime, Up
  <1>6. Only(c) /\ call'[c].at = "adopted" /\ call'[c].on = {s} /\ sock' = [sock EXCEPT ![s] = "open"]
    BY <1>1, <1>2, Moves DEF Adopt
  <1>7. TypeOK'
    BY <1>1, <1>6 DEF TypeOK, Adopt, runtime, Only, CallType
  <1>8. c \in On(s, Holding)' /\ c \notin On(s, {"waiting"})' /\ c \notin On(s, {"found"})'
    BY <1>6, InSet DEF Holding
  <1>9. /\ On(s, {"waiting"})' = On(s, {"waiting"}) /\ On(s, {"found"})' = On(s, {"found"})
        /\ Users(s)' = Users(s)
    BY <1>3, <1>6, <1>8, Stays DEF Users
  <1>10. life[s] # "quiet"
    BY <1>1, <1>3 DEF WellKept
  <1>11. WellKept(s)'
    BY <1>1, <1>4, <1>5, <1>9, <1>10 DEF WellKept, Running
  <1>12. Elsewhere(s)
    BY <1>1, <1>5, <1>6 DEF Elsewhere, TypeOK
  <1> QED
    BY <1>2, <1>5, <1>6, <1>7, <1>11, <1>12, OneKeeps DEF Placed

-----------------------------------------------------------------------------
(* Steps in a runtime.                                                     *)

(* Callers who do not move stay in their sets.                             *)
LEMMA Still ==
    ASSUME UNCHANGED call, NEW s
    PROVE  Users(s)' = Users(s) /\ \A W : On(s, W)' = On(s, W)
  BY DEF Users, On

(* A task comes or ends.                                                   *)
LEMMA TaskKeeps ==
    ASSUME Kept, NEW s \in Sessions, Submit(s) \/ TaskEnds(s)
    PROVE  Kept'
  <1>1. TypeOK /\ WellKept(s) /\ UNCHANGED <<life, leases, waiters, sock, delivery, call, down>> /\ Up' = Up
    BY DEF Kept, Submit, TaskEnds, runtime, sockets, Up
  <1>2. TypeOK' /\ Elsewhere(s)
    BY <1>1 DEF TypeOK, Submit, TaskEnds, runtime, sockets, Elsewhere
  <1>3. s \notin Up => s \notin tasks'
    BY <1>1 DEF Submit, TaskEnds, WellKept
  <1>4. life[s] = "quiet" /\ s \in tasks' => delivery[s] = "running"
    <2>1. CASE TaskEnds(s)
      BY <2>1 DEF TaskEnds
    <2>2. ASSUME Submit(s), life[s] = "quiet" PROVE delivery[s] = "running"
      <3>1. Users(s) = {}
        BY <1>1, <2>2 DEF WellKept
      <3>2. On(s, {"using", "adopted"}) = {}
        BY <3>1 DEF Users, On, Holding
      <3> QED
        BY <2>2, <3>2 DEF Submit
    <2> QED
      BY <2>1, <2>2
  <1>5. WellKept(s)'
    BY <1>1, <1>3, <1>4, Still DEF WellKept, Running
  <1> QED
    BY <1>1, <1>2, <1>5, StillKeeps

(* A delivery starts, at once or after the one before it.                  *)
LEMMA DeliveryStarts ==
    ASSUME Kept, NEW s \in Sessions, TypeOK', s \in Up, delivery[s] # "running",
           delivery' = [delivery EXCEPT ![s] = "running"], TakeLease(s),
           UNCHANGED <<life, waiters, call, tasks, down>>,
           sock' = sock \/ sock' = [sock EXCEPT ![s] = "none"]
    PROVE  Kept'
  <1>1. TypeOK /\ WellKept(s) /\ Up' = Up
    BY DEF Kept, Up
  <1>2. /\ delivery'[s] = "running" /\ leases'[s] = leases[s] + 1
        /\ sock[s] = "none" => sock'[s] = "none"
    BY <1>1 DEF TypeOK, TakeLease
  <1>3. Cardinality(Users(s)) \in Nat
    BY OnFinite DEF Users
  <1>4. WellKept(s)'
    BY <1>1, <1>2, <1>3, Still DEF WellKept, Running
  <1>5. Elsewhere(s)
    BY <1>1 DEF Elsewhere, TakeLease, TypeOK
  <1> QED
    BY <1>4, <1>5, StillKeeps

LEMMA MessageKeeps ==
    ASSUME Kept, NEW s \in Sessions, Message(s) \/ NextDelivery(s)
    PROVE  Kept'
  <1>1. TypeOK /\ WellKept(s) /\ UNCHANGED <<life, waiters, sock, call, tasks, down>>
    BY DEF Kept, Message, NextDelivery
  <1>2. s \in Up /\ delivery[s] # "running"
    BY <1>1 DEF Message, NextDelivery, WellKept
  <1>3. delivery' = [delivery EXCEPT ![s] = "running"] /\ TakeLease(s)
    BY DEF Message, NextDelivery
  <1>4. TypeOK'
    BY <1>1 DEF TypeOK, Message, NextDelivery, TakeLease
  <1> QED
    BY <1>1, <1>2, <1>3, <1>4, DeliveryStarts

(* A socket that closes is delivered at once or behind a delivery.         *)
LEMMA SocketClosesKeeps ==
    ASSUME Kept, NEW s \in Sessions, SocketCloses(s)
    PROVE  Kept'
  <1>1. /\ TypeOK /\ WellKept(s) /\ UNCHANGED <<life, waiters, call, tasks, down>> /\ Up' = Up
        /\ sock' = [sock EXCEPT ![s] = "none"]
    BY DEF Kept, SocketCloses, Up
  <1>2. s \in Up
    BY DEF SocketCloses, Kept, WellKept
  <1>3. CASE delivery[s] = "none"
    <2>1. delivery' = [delivery EXCEPT ![s] = "running"] /\ TakeLease(s)
      BY <1>3 DEF SocketCloses
    <2>2. TypeOK'
      BY <1>1, <1>3 DEF TypeOK, SocketCloses, TakeLease
    <2> QED
      BY <1>1, <1>2, <1>3, <2>1, <2>2, DeliveryStarts
  <1>4. CASE delivery[s] # "none"
    <2>1. UNCHANGED <<delivery, leases>>
      BY <1>4 DEF SocketCloses
    <2>2. TypeOK' /\ Elsewhere(s)
      BY <1>1, <1>4 DEF TypeOK, SocketCloses, Elsewhere
    <2>3. sock'[s] = "none"
      BY <1>1 DEF TypeOK
    <2>4. WellKept(s)'
      BY <1>1, <2>1, <2>3, Still DEF WellKept, Running
    <2> QED
      BY <1>1, <2>2, <2>4, StillKeeps
  <1> QED
    BY <1>3, <1>4

(* A delivery that ends gives back its lease, and no other.                *)
LEMMA DeliveryEndsKeeps ==
    ASSUME Kept, NEW s \in Sessions, DeliveryEnds(s)
    PROVE  Kept'
  <1>1. /\ TypeOK /\ WellKept(s) /\ UNCHANGED <<life, waiters, sock, call, tasks, down>> /\ Up' = Up
        /\ delivery[s] = "running" /\ life[s] # "quiet"
    BY DEF Kept, DeliveryEnds, Up
  <1>2. s \in Up /\ leases[s] \in Nat /\ leases[s] > 0
    BY <1>1, DeliveryCounts
  <1>3. \E d \in {"none", "next"} : delivery' = [delivery EXCEPT ![s] = d]
    BY DEF DeliveryEnds
  <1>4. delivery'[s] # "running" /\ leases'[s] = leases[s] - 1
    BY <1>1, <1>3 DEF TypeOK, DeliveryEnds, Release
  <1>5. TypeOK' /\ Elsewhere(s)
    BY <1>1, <1>2, <1>3 DEF TypeOK, DeliveryEnds, Release, Elsewhere
  <1>6. Cardinality(Users(s)) \in Nat
    BY OnFinite DEF Users
  <1>7. WellKept(s)'
    BY <1>1, <1>2, <1>4, <1>6, Still DEF WellKept, Running
  <1> QED
    BY <1>1, <1>5, <1>7, StillKeeps

(* A build goes on; a drain closes a socket or finds its runtime quiet.    *)
LEMMA DrainKeeps ==
    ASSUME Kept, NEW s \in Sessions, Present(s) \/ ClosePass(s) \/ Verdict(s)
    PROVE  Kept'
  <1>1. TypeOK /\ WellKept(s) /\ UNCHANGED <<leases, waiters, delivery, call, tasks, down>>
    BY DEF Kept, Present, ClosePass, Verdict, runtime, sockets
  <1>2. TypeOK'
    BY <1>1 DEF TypeOK, Present, ClosePass, Verdict, runtime, sockets, Building, Published
  <1>3. Elsewhere(s)
    BY <1>1 DEF TypeOK, Present, ClosePass, Verdict, runtime, sockets, Elsewhere
  <1>4. CASE Present(s)
    <2>1. life[s] = "checking" /\ life'[s] = "building" /\ sock' = sock
      BY <1>1, <1>4 DEF Present, sockets, TypeOK
    <2>2. s \notin Up /\ s \notin Up' /\ {life[s], life'[s]} \subseteq Building
      BY <2>1 DEF Up, Published, Building
    <2>3. WellKept(s)'
      BY <1>1, <2>1, <2>2, Still DEF WellKept
    <2> QED
      BY <1>1, <1>2, <1>3, <2>3, StillKeeps
  <1>5. CASE ClosePass(s)
    <2>1. life[s] = "quiescing" /\ life'[s] = life[s] /\ Up' = Up /\ s \in Up
      BY <1>5 DEF ClosePass, runtime, Up, Published
    <2>2. WellKept(s)'
      BY <1>1, <2>1, Still DEF WellKept, Running
    <2> QED
      BY <1>1, <1>2, <1>3, <2>2, StillKeeps
  <1>6. CASE Verdict(s)
    <2>1. life[s] = "quiescing" /\ life'[s] = "quiet" /\ sock' = sock /\ Quiescent(s)
      BY <1>1, <1>6 DEF Verdict, sockets, TypeOK
    <2>2. s \in Up /\ s \in Up' /\ life[s] \notin Building
      BY <2>1 DEF Up, Published, Building
    <2>3. Users(s) = {} /\ sock[s] = "none" /\ s \notin tasks
      BY <1>1, <2>1, NoLeases DEF Quiescent
    <2>4. WellKept(s)'
      BY <1>1, <2>1, <2>2, <2>3, Still DEF WellKept, Running
    <2> QED
      BY <1>1, <1>2, <1>3, <2>4, StillKeeps
  <1> QED
    BY <1>4, <1>5, <1>6

(* The sweep looks and gives up, a shutdown starts.                        *)
LEMMA IdleKeeps ==
    ASSUME Kept,
           SweepKeeps \/ Shutdown \/ UNCHANGED vars \/ \E s \in Sessions : SweepLooks(s)
    PROVE  Kept'
  <1>1. /\ UNCHANGED <<life, rehydrate, waiters, leases, sock, delivery, queued, tasks, known, call, forced>>
        /\ down' \in {down, "opening"} /\ Up' = Up
    BY DEF SweepLooks, SweepKeeps, Shutdown, vars, runtime, sockets, Up
  <1>2. TypeOK'
    <2>1. sweep' \in [on : SUBSET Sessions, old : BOOLEAN]
      <3>1. sweep' \in {sweep, NoSweep} \/ \E s \in Sessions : sweep' = [on |-> {s}, old |-> FALSE]
        BY DEF SweepLooks, SweepKeeps, Shutdown, vars
      <3>2. /\ NoSweep \in [on : SUBSET Sessions, old : BOOLEAN]
            /\ \A s \in Sessions : [on |-> {s}, old |-> FALSE] \in [on : SUBSET Sessions, old : BOOLEAN]
        BY DEF NoSweep
      <3> QED
        BY <3>1, <3>2 DEF Kept, TypeOK
    <2> QED
      BY <1>1, <2>1 DEF Kept, TypeOK
  <1>3. ASSUME NEW s \in Sessions PROVE WellKept(s)'
    BY <1>1, Still DEF Kept, WellKept, Running
  <1>4. \A c \in Callers : Placed(c)'
    BY <1>1 DEF Kept, Placed
  <1> QED
    BY <1>1, <1>2, <1>3, <1>4 DEF Kept

(* Once the builds are over every runtime closes, and once these are gone  *)
(* the shutdown ends.                                                      *)
LEMMA QuiesceKeeps ==
    ASSUME Kept, Quiesce
    PROVE  Kept'
  <1>1. TypeOK /\ UNCHANGED <<rehydrate, waiters, leases, delivery, queued, tasks, known, call, sweep, forced>>
    BY DEF Kept, Quiesce
  <1>2. /\ \A s \in Sessions : life'[s] = IF s \in Up THEN "quiescing" ELSE life[s]
        /\ \A s \in Sessions : sock'[s] = IF sock[s] = "open" THEN "closing" ELSE sock[s]
        /\ down' = "quiescing"
    BY DEF Quiesce
  <1>3. TypeOK'
    BY <1>1, <1>2 DEF TypeOK, Quiesce, Published
  <1>4. Up' = Up
    BY <1>2 DEF Up, Published
  <1>5. ASSUME NEW s \in Sessions PROVE WellKept(s)'
    <2>1. WellKept(s) /\ life[s] \notin Building
      BY DEF Kept, Quiesce
    <2>2. CASE s \in Up
      BY <1>1, <1>2, <1>4, <2>1, <2>2, Still DEF WellKept, Running
    <2>3. CASE s \notin Up
      <3>1. life'[s] = "none" /\ life[s] = "none"
        BY <1>1, <1>2, <2>1, <2>3 DEF TypeOK, Up
      <3> QED
        BY <1>1, <1>2, <1>4, <2>1, <2>3, <3>1, Still DEF WellKept, Running
    <2> QED
      BY <2>2, <2>3
  <1>6. \A c \in Callers : Placed(c)'
    BY <1>1 DEF Kept, Placed
  <1> QED
    BY <1>3, <1>4, <1>5, <1>6 DEF Kept

LEMMA ShutdownEndsKeeps ==
    ASSUME Kept, ShutdownEnds
    PROVE  Kept'
  <1>1. /\ UNCHANGED <<life, rehydrate, waiters, leases, sock, delivery, queued, tasks, known, call, sweep, forced>>
        /\ down = "quiescing" /\ down' = "done" /\ Up' = Up
        /\ \A s \in Sessions : life[s] \notin {"quiescing", "quiet"}
    BY DEF ShutdownEnds, runtime, sockets, Up
  <1>2. TypeOK'
    BY <1>1 DEF Kept, TypeOK
  <1>3. ASSUME NEW s \in Sessions PROVE WellKept(s)'
    BY <1>1, Still DEF Kept, WellKept, Running
  <1>4. \A c \in Callers : Placed(c)'
    BY <1>1 DEF Kept, Placed
  <1> QED
    BY <1>1, <1>2, <1>3, <1>4 DEF Kept

-----------------------------------------------------------------------------
(* Steps that move many callers.                                           *)

In(calls, r, W) == {c \in Callers : calls[c].on = {r} /\ calls[c].at \in W}

PlacedIn(calls, c) ==
    calls[c] = NoCall \/ (calls[c].at # "idle" /\ \E s \in Sessions : calls[c].on = {s})

(* Where the callers are once those of a session have their answer.        *)
LEMMA AnsweredIn ==
    ASSUME NEW s, NEW from, NEW W, NEW r \in Sessions
    PROVE  /\ r # s \/ W \cap from = {} => In(Answered(s, from), r, W) = On(r, W)
           /\ W \subseteq from => In(Answered(s, from), s, W) = {}
  <1>1. \A c \in Callers : Answered(s, from)[c] = IF c \in On(s, from) THEN NoCall ELSE call[c]
    BY DEF Answered
  <1>2. \A x : \A c \in Callers : Answered(s, from)[c].on = {x} /\ Answered(s, from)[c].at \in W
                                    <=> c \in On(x, W) /\ c \notin On(s, from)
    BY <1>1 DEF On, NoCall
  <1>3. ASSUME r # s \/ W \cap from = {} PROVE In(Answered(s, from), r, W) = On(r, W)
    <2>1. \A c \in Callers : c \in On(r, W) => c \notin On(s, from)
      BY <1>3 DEF On
    <2> QED
      BY <1>2, <2>1 DEF In, On
  <1>4. ASSUME W \subseteq from PROVE In(Answered(s, from), s, W) = {}
    BY <1>2, <1>4 DEF In, On
  <1> QED
    BY <1>3, <1>4

LEMMA RefusedIn ==
    ASSUME NEW s, NEW r \in Sessions
    PROVE  /\ In(Answered(s, {"waiting"}), r, {"waiting"}) = IF r = s THEN {} ELSE On(r, {"waiting"})
           /\ In(Answered(s, {"waiting"}), r, {"found"}) = On(r, {"found"})
           /\ In(Answered(s, {"waiting"}), r, Holding) = Users(r)
  <1>1. {"found"} \cap {"waiting"} = {} /\ Holding \cap {"waiting"} = {}
    BY DEF Holding
  <1>2. In(Answered(s, {"waiting"}), r, {"waiting"}) = IF r = s THEN {} ELSE On(r, {"waiting"})
    BY AnsweredIn
  <1>3. In(Answered(s, {"waiting"}), r, {"found"}) = On(r, {"found"})
    BY <1>1, AnsweredIn
  <1>4. In(Answered(s, {"waiting"}), r, Holding) = Users(r)
    BY <1>1, AnsweredIn DEF Users
  <1> QED
    BY <1>2, <1>3, <1>4

LEMMA DismissedIn ==
    ASSUME NEW s, NEW r \in Sessions
    PROVE  /\ In(Answered(s, Holding), r, {"waiting"}) = On(r, {"waiting"})
           /\ In(Answered(s, Holding), r, {"found"}) = On(r, {"found"})
           /\ In(Answered(s, Holding), r, Holding) = IF r = s THEN {} ELSE Users(r)
  <1>1. {"found"} \cap Holding = {} /\ {"waiting"} \cap Holding = {}
    BY DEF Holding
  <1>2. In(Answered(s, Holding), r, {"waiting"}) = On(r, {"waiting"})
    BY <1>1, AnsweredIn
  <1>3. In(Answered(s, Holding), r, {"found"}) = On(r, {"found"})
    BY <1>1, AnsweredIn
  <1>4. In(Answered(s, Holding), r, Holding) = IF r = s THEN {} ELSE Users(r)
    BY AnsweredIn DEF Users
  <1> QED
    BY <1>2, <1>3, <1>4

(* Where they are once those who waited have their lease.                  *)
LEMMA AdmittedIn ==
    ASSUME TypeOK, NEW s, NEW r \in Sessions
    PROVE  /\ r # s => \A W : In(Admitted(s), r, W) = On(r, W)
           /\ In(Admitted(s), s, {"waiting"}) = {}
           /\ In(Admitted(s), s, {"found"}) = On(s, {"found"})
           /\ In(Admitted(s), s, Holding) = Users(s) \cup On(s, {"waiting"})
  <1>1. \A c \in Callers :
          /\ Admitted(s)[c].on = call[c].on
          /\ Admitted(s)[c].at = IF c \in On(s, {"waiting"}) THEN "granted" ELSE call[c].at
    <2>1. \A c \in Callers : call[c] \in CallType
      BY CallTyped
    <2> QED
      BY <2>1 DEF Admitted, CallType
  <1>2. r # s => \A W : In(Admitted(s), r, W) = On(r, W)
    BY <1>1 DEF In, On
  <1>3. In(Admitted(s), s, {"waiting"}) = {}
    BY <1>1 DEF In, On
  <1>4. In(Admitted(s), s, {"found"}) = On(s, {"found"})
    BY <1>1 DEF In, On
  <1>5. In(Admitted(s), s, Holding) = Users(s) \cup On(s, {"waiting"})
    BY <1>1 DEF In, On, Users, Holding
  <1> QED
    BY <1>2, <1>3, <1>4, <1>5

(* Who found a retired runtime is found no longer; nobody else moves.      *)
LEMMA OutdatedOn ==
    ASSUME NEW calls \in [Callers -> CallType], NEW R, call' = Outdated(R, calls), NEW r
    PROVE  /\ On(r, {"waiting"})' = In(calls, r, {"waiting"})
           /\ Users(r)' = In(calls, r, Holding)
           /\ On(r, {"found"})' = IF r \in R THEN {} ELSE In(calls, r, {"found"})
  <1>1. \A c \in Callers :
          /\ call'[c].on = calls[c].on
          /\ call'[c].at = IF calls[c].at = "found" /\ calls[c].on \subseteq R
                           THEN "stale" ELSE calls[c].at
    <2>1. \A c \in Callers : calls[c] \in CallType
      OBVIOUS
    <2> QED
      BY <2>1 DEF Outdated, CallType
  <1>2. On(r, {"waiting"})' = In(calls, r, {"waiting"})
    BY <1>1 DEF In, On
  <1>3. Users(r)' = In(calls, r, Holding)
    BY <1>1 DEF In, On, Users, Holding
  <1>4. On(r, {"found"})' = IF r \in R THEN {} ELSE In(calls, r, {"found"})
    BY <1>1 DEF In, On
  <1> QED
    BY <1>2, <1>3, <1>4

(* None of this leaves a caller out of place.                              *)
LEMMA BulkPlaced ==
    ASSUME TypeOK, \A c \in Callers : Placed(c), NEW s, NEW W, NEW c \in Callers
    PROVE  PlacedIn(Answered(s, W), c) /\ PlacedIn(Admitted(s), c)
  <1>1. call[c] \in CallType /\ Placed(c)
    BY CallTyped
  <1>2. PlacedIn(Answered(s, W), c)
    BY <1>1 DEF Answered, Placed, PlacedIn
  <1>3. PlacedIn(Admitted(s), c)
    <2>1. CASE c \in On(s, {"waiting"})
      <3>1. call[c].on = {s} /\ call[c] # NoCall
        BY <2>1 DEF On, NoCall
      <3>2. Admitted(s)[c].at = "granted" /\ Admitted(s)[c].on = call[c].on
        BY <1>1, <2>1 DEF Admitted, CallType
      <3> QED
        BY <1>1, <3>1, <3>2 DEF Placed, PlacedIn
    <2>2. CASE c \notin On(s, {"waiting"})
      BY <1>1, <2>2 DEF Admitted, Placed, PlacedIn
    <2> QED
      BY <2>1, <2>2
  <1> QED
    BY <1>2, <1>3

LEMMA OutdatedPlaced ==
    ASSUME NEW calls \in [Callers -> CallType], NEW R, call' = Outdated(R, calls),
           NEW c \in Callers, PlacedIn(calls, c)
    PROVE  Placed(c)'
  <1>1. calls[c] \in CallType
    OBVIOUS
  <1>2. CASE calls[c].at = "found" /\ calls[c].on \subseteq R
    <2>1. call'[c].at = "stale" /\ call'[c].on = calls[c].on
      BY <1>1, <1>2 DEF Outdated, CallType
    <2>2. calls[c] # NoCall
      BY <1>2 DEF NoCall
    <2> QED
      BY <2>1, <2>2 DEF Placed, PlacedIn
  <1>3. CASE ~(calls[c].at = "found" /\ calls[c].on \subseteq R)
    BY <1>3 DEF Outdated, Placed, PlacedIn
  <1> QED
    BY <1>2, <1>3

(* A build that ends without a runtime, for whatever reason: nobody waits  *)
(* any more, and nobody else has moved.                                    *)
LEMMA BuildEnds ==
    ASSUME Kept, NEW s \in Sessions, life[s] \in Building, TypeOK',
           life' = [life EXCEPT ![s] = "none"], waiters' = [waiters EXCEPT ![s] = 0],
           UNCHANGED <<leases, sock, delivery, tasks, down>>,
           \A c \in Callers : Placed(c)',
           On(s, {"waiting"})' = {}, Users(s)' = Users(s), On(s, {"found"})' = On(s, {"found"}),
           \A r \in Sessions \ {s} :
               /\ Users(r)' = Users(r) /\ On(r, {"waiting"})' = On(r, {"waiting"})
               /\ On(r, {"found"})' = On(r, {"found"})
    PROVE  Kept'
  <1>1. TypeOK /\ WellKept(s) /\ life'[s] = "none" /\ waiters'[s] = 0
    BY DEF Kept, TypeOK
  <1>2. s \notin Up /\ s \notin Up'
    BY <1>1 DEF Up, Published, Building
  <1>3. Elsewhere(s)
    BY <1>1 DEF Elsewhere, TypeOK
  <1>4. WellKept(s)'
    BY <1>1, <1>2, FS_EmptySet DEF WellKept
  <1>5. ASSUME NEW r \in Sessions, r # s PROVE WellKept(r)'
    <2>1. Alone(r)
      BY <1>3, <1>5 DEF Alone, Elsewhere
    <2> QED
      BY <2>1, AloneKeeps DEF Kept
  <1> QED
    BY <1>3, <1>4, <1>5, UpStaysFinite DEF Kept

LEMMA OpenFailsKeeps ==
    ASSUME Kept, NEW s \in Sessions, OpenFails(s)
    PROVE  Kept'
  <1>1. TypeOK /\ call' = Answered(s, {"waiting"})
    BY DEF Kept, OpenFails
  <1>2. TypeOK'
    <2>1. call' \in [Callers -> CallType]
      BY <1>1, BulkTyped
    <2>2. life' \in [Sessions -> {"none"} \cup Building \cup Published]
      BY <1>1 DEF OpenFails, TypeOK
    <2> QED
      BY <1>1, <2>1, <2>2 DEF OpenFails, TypeOK, sockets, CallType
  <1>3. \A c \in Callers : Placed(c)'
    BY <1>1, BulkPlaced DEF Kept, Placed, PlacedIn
  <1>4. \A r : /\ On(r, {"waiting"})' = In(Answered(s, {"waiting"}), r, {"waiting"})
               /\ On(r, {"found"})' = In(Answered(s, {"waiting"}), r, {"found"})
               /\ Users(r)' = In(Answered(s, {"waiting"}), r, Holding)
    BY <1>1 DEF On, In, Users
  <1>5. /\ On(s, {"waiting"})' = {} /\ Users(s)' = Users(s)
        /\ On(s, {"found"})' = On(s, {"found"})
    BY <1>4, RefusedIn
  <1>6. ASSUME NEW r \in Sessions \ {s}
        PROVE  /\ Users(r)' = Users(r) /\ On(r, {"waiting"})' = On(r, {"waiting"})
               /\ On(r, {"found"})' = On(r, {"found"})
    BY <1>4, RefusedIn
  <1> QED
    BY <1>2, <1>3, <1>5, <1>6, BuildEnds DEF OpenFails, sockets

LEMMA AbsentKeeps ==
    ASSUME Kept, NEW s \in Sessions, Absent(s)
    PROVE  Kept'
  <1>1. TypeOK /\ call \in [Callers -> CallType] /\ life[s] \in Building
    BY CallTyped DEF Kept, Absent, Building
  <1>2. \A c \in Callers :
          \/ c \notin On(s, {"waiting"}) /\ call'[c] = call[c]
          \/ c \in On(s, {"waiting"}) /\ call'[c] = NoCall
          \/ /\ c \in On(s, {"waiting"}) /\ call'[c] = [call[c] EXCEPT !.at = "again"]
             /\ call'[c].at = "again" /\ call'[c].on = {s}
    BY <1>1 DEF Absent, On, CallType
  <1>3. call' \in [Callers -> CallType]
    <2>1. NoCall \in CallType /\ \A c \in Callers : [call[c] EXCEPT !.at = "again"] \in CallType
      BY <1>1 DEF CallType, NoCall, Kinds
    <2> QED
      BY <1>1, <2>1 DEF Absent
  <1>4. TypeOK'
    <2>1. life' \in [Sessions -> {"none"} \cup Building \cup Published]
      BY <1>1 DEF Absent, TypeOK
    <2> QED
      BY <1>1, <1>3, <2>1 DEF Absent, TypeOK, sockets, CallType
  <1>5. \A c \in Callers : Placed(c)'
    BY <1>2 DEF Kept, Placed
  <1>6. /\ On(s, {"waiting"})' = {} /\ Users(s)' = Users(s)
        /\ On(s, {"found"})' = On(s, {"found"})
    <2>1. NoCall.on = {}
      BY DEF NoCall
    <2>2. On(s, {"waiting"})' = {}
      BY <1>2, <2>1 DEF On
    <2>3. Users(s)' = Users(s)
      BY <1>2, <2>1 DEF On, Users, Holding
    <2>4. On(s, {"found"})' = On(s, {"found"})
      BY <1>2, <2>1 DEF On
    <2> QED
      BY <2>2, <2>3, <2>4
  <1>7. ASSUME NEW r \in Sessions \ {s}
        PROVE  /\ Users(r)' = Users(r) /\ On(r, {"waiting"})' = On(r, {"waiting"})
               /\ On(r, {"found"})' = On(r, {"found"})
    <2>1. \A c \in Callers : call'[c] = call[c] \/ (call[c].on # {r} /\ call'[c].on # {r})
      <3>1. NoCall.on # {r} /\ {s} # {r}
        BY DEF NoCall
      <3>2. \A c \in On(s, {"waiting"}) : call[c].on # {r}
        BY <3>1 DEF On
      <3> QED
        BY <1>2, <3>1, <3>2
    <2> QED
      BY <2>1 DEF Users, On
  <1> QED
    BY <1>1, <1>4, <1>5, <1>6, <1>7, BuildEnds DEF Absent, sockets

-----------------------------------------------------------------------------
(* Room is made, and runtimes are retired.                                 *)

(* Only quiescent runtimes make room.                                      *)
LEMMA EvictedIdle ==
    ASSUME NEW R \in Evicted
    PROVE  R \subseteq Up /\ \A r \in R : life[r] = "resident" /\ Quiescent(r)
  <1> DEFINE Q == {r \in Up : life[r] = "resident" /\ Quiescent(r)}
  <1>1. R = {} \/ R \in SUBSET Q
    BY DEF Evicted, kSubset
  <1> QED
    BY <1>1

(* What is left of a runtime that makes room.                              *)
LEMMA EvictedGone ==
    ASSUME Kept, NEW R \in Evicted, NEW r \in R,
           life'[r] = "none", leases'[r] = leases[r], waiters'[r] = waiters[r],
           sock'[r] = sock[r], delivery'[r] = "none", r \notin tasks \/ r \notin tasks',
           r \in tasks' => r \in tasks,
           Users(r)' = Users(r), On(r, {"waiting"})' = On(r, {"waiting"}), On(r, {"found"})' = {}
    PROVE  Gone(r)
  <1>1. r \in Sessions /\ WellKept(r) /\ Quiescent(r) /\ r \in Up
    BY EvictedIdle DEF Kept, Up
  <1>2. leases[r] = 0 /\ sock[r] = "none" /\ r \notin tasks /\ Users(r) = {}
    BY <1>1, NoLeases DEF Quiescent
  <1>3. On(r, {"waiting"}) = {}
    BY <1>1 DEF WellKept, Up, Building, Published
  <1>4. waiters[r] = 0
    BY <1>1, <1>3, FS_EmptySet DEF WellKept
  <1> QED
    BY <1>2, <1>3, <1>4 DEF Gone

(* What a build's last continuation does to the runtimes that were there,  *)
(* whether or not it leaves one of its own.                                *)
LEMMA OthersAtPublication ==
    ASSUME Kept, NEW s \in Sessions, life[s] = "building", NEW R \in Evicted,
           NEW calls \in {Admitted(s), Answered(s, {"waiting"})}, call' = Outdated(R, calls),
           NEW r \in Sessions, r # s,
           life'[r] = IF r \in R THEN "none" ELSE life[r],
           leases'[r] = leases[r], waiters'[r] = waiters[r], sock' = sock, Abandoned(R),
           r \in tasks' <=> r \in tasks, down' = down
    PROVE  WellKept(r)'
  <1>1. TypeOK /\ WellKept(r)
    BY DEF Kept
  <1>2. calls \in [Callers -> CallType]
    BY <1>1, BulkTyped
  <1>3. /\ In(calls, r, {"waiting"}) = On(r, {"waiting"}) /\ In(calls, r, Holding) = Users(r)
        /\ In(calls, r, {"found"}) = On(r, {"found"})
    <2>1. CASE calls = Admitted(s)
      BY <1>1, <2>1, AdmittedIn DEF Users
    <2>2. CASE calls = Answered(s, {"waiting"})
      BY <2>2, RefusedIn
    <2> QED
      BY <2>1, <2>2
  <1>4. /\ On(r, {"waiting"})' = On(r, {"waiting"}) /\ Users(r)' = Users(r)
        /\ On(r, {"found"})' = IF r \in R THEN {} ELSE On(r, {"found"})
    BY <1>2, <1>3, OutdatedOn
  <1>5. delivery'[r] = IF r \in R THEN "none" ELSE delivery[r]
    BY DEF Abandoned
  <1>6. CASE r \in R
    <2>1. r \notin tasks
      BY <1>6, EvictedIdle DEF Quiescent
    <2>2. Gone(r)
      BY <1>4, <1>5, <1>6, <2>1, EvictedGone
    <2> QED
      BY <1>1, <2>2, GoneKeeps DEF TypeOK
  <1>7. CASE r \notin R
    <2>1. Alone(r)
      BY <1>4, <1>5, <1>7 DEF Alone
    <2> QED
      BY <1>1, <2>1, AloneKeeps
  <1> QED
    BY <1>6, <1>7

(* A runtime is published with a lease for each of those who waited.       *)
LEMMA PublishKeeps ==
    ASSUME Kept, NEW s \in Sessions, Publish(s)
    PROVE  Kept'
  <1>1. TypeOK /\ WellKept(s) /\ life[s] = "building" /\ s \notin Up
    BY DEF Kept, Publish, Up, Published
  <1>2. PICK R \in Evicted :
          /\ life' = [r \in Sessions |-> IF r = s THEN "resident" ELSE IF r \in R THEN "none" ELSE life[r]]
          /\ call' = Outdated(R, Admitted(s))
          /\ sweep' = SweepAfter(R)
          /\ Abandoned(R)
    BY DEF Publish
  <1>3. /\ leases' = [leases EXCEPT ![s] = waiters[s]] /\ waiters' = [waiters EXCEPT ![s] = 0]
        /\ sock' = sock /\ down' = down /\ tasks' \in {tasks, tasks \cup {s}}
    BY DEF Publish
  <1>4. R \subseteq Up /\ s \notin R
    BY <1>1, EvictedIdle
  <1>5. TypeOK'
    <2>1. call' \in [Callers -> CallType]
      BY <1>1, <1>2, BulkTyped, OutdatedTyped
    <2>2. life' \in [Sessions -> {"none"} \cup Building \cup Published]
      BY <1>1, <1>2 DEF TypeOK, Published
    <2>3. /\ delivery' \in [Sessions -> {"none", "running", "next"}] /\ queued' \in SUBSET Sessions
          /\ sweep' \in [on : SUBSET Sessions, old : BOOLEAN]
      BY <1>1, <1>2, AbandonedTyped, SweepTyped
    <2>4. /\ leases' \in [Sessions -> Nat] /\ waiters' \in [Sessions -> Nat]
          /\ tasks' \in SUBSET Sessions
      BY <1>1, <1>3 DEF TypeOK
    <2>5. /\ rehydrate' \in [Sessions -> BOOLEAN] /\ known' \in SUBSET Sessions
          /\ UNCHANGED <<sock, down, forced>>
      BY <1>1 DEF Publish, TypeOK
    <2> QED
      BY <1>1, <2>1, <2>2, <2>3, <2>4, <2>5 DEF TypeOK, CallType
  <1>6. /\ Up' = (Up \ R) \cup {s} /\ IsFiniteSet(Up')
    <2>1. Up' = (Up \ R) \cup {s}
      BY <1>2, <1>4 DEF Up, Published
    <2>2. Up \ R \in SUBSET Up
      OBVIOUS
    <2> QED
      BY <2>1, <2>2, FS_Subset, FS_AddElement DEF Kept
  <1>7. WellKept(s)'
    <2>1. /\ life'[s] = "resident" /\ leases'[s] = waiters[s] /\ waiters'[s] = 0
          /\ delivery'[s] = delivery[s]
      BY <1>1, <1>2, <1>3, <1>4 DEF TypeOK, Abandoned
    <2>2. Admitted(s) \in [Callers -> CallType]
      BY <1>1, BulkTyped
    <2>3. /\ On(s, {"waiting"})' = {} /\ Users(s)' = Users(s) \cup On(s, {"waiting"})
          /\ On(s, {"found"})' = On(s, {"found"})
      BY <1>1, <1>2, <1>4, <2>2, AdmittedIn, OutdatedOn
    <2>4. Users(s) = {} /\ delivery[s] = "none" /\ sock[s] = "none" /\ On(s, {"found"}) = {}
      BY <1>1 DEF WellKept
    <2>5. s \in Up'
      BY <1>6
    <2>6. waiters[s] = Cardinality(Users(s)') /\ waiters[s] \in Nat
      BY <1>1, <2>3, <2>4 DEF WellKept, TypeOK
    <2>7. ~(down = "quiescing") /\ ~(down = "done")
      BY <1>1 DEF WellKept
    <2>8. leases'[s] = Cardinality(Users(s)') + Running(s)'
      BY <2>1, <2>4, <2>6 DEF Running
    <2>9. waiters'[s] = Cardinality(On(s, {"waiting"})')
      BY <2>1, <2>3, FS_EmptySet
    <2> QED
      BY <1>3, <2>1, <2>3, <2>4, <2>5, <2>7, <2>8, <2>9 DEF WellKept
  <1>8. ASSUME NEW r \in Sessions, r # s PROVE WellKept(r)'
    BY <1>1, <1>2, <1>3, <1>8, OthersAtPublication DEF TypeOK
  <1>9. \A c \in Callers : Placed(c)'
    BY <1>1, <1>2, BulkTyped, BulkPlaced, OutdatedPlaced DEF Kept
  <1> QED
    BY <1>5, <1>6, <1>7, <1>8, <1>9 DEF Kept

(* A runtime whose rehydration throws is gone again, and so is who waited. *)
LEMMA ActivationFailsKeeps ==
    ASSUME Kept, NEW s \in Sessions, ActivationFails(s)
    PROVE  Kept'
  <1>1. TypeOK /\ WellKept(s) /\ life[s] = "building" /\ s \notin Up
    BY DEF Kept, ActivationFails, Up, Published
  <1>2. PICK R \in Evicted :
          /\ life' = [r \in Sessions |-> IF r \in R \cup {s} THEN "none" ELSE life[r]]
          /\ call' = Outdated(R, Answered(s, {"waiting"}))
          /\ sweep' = SweepAfter(R)
          /\ Abandoned(R)
    BY DEF ActivationFails
  <1>3. /\ UNCHANGED <<leases, sock, tasks, down, forced>> /\ waiters' = [waiters EXCEPT ![s] = 0]
    BY DEF ActivationFails
  <1>4. R \subseteq Up /\ s \notin R
    BY <1>1, EvictedIdle
  <1>5. TypeOK'
    <2>1. call' \in [Callers -> CallType]
      BY <1>1, <1>2, BulkTyped, OutdatedTyped
    <2>2. life' \in [Sessions -> {"none"} \cup Building \cup Published]
      BY <1>1, <1>2 DEF TypeOK
    <2>3. /\ delivery' \in [Sessions -> {"none", "running", "next"}] /\ queued' \in SUBSET Sessions
          /\ sweep' \in [on : SUBSET Sessions, old : BOOLEAN]
      BY <1>1, <1>2, AbandonedTyped, SweepTyped
    <2>4. /\ rehydrate' \in [Sessions -> BOOLEAN] /\ known' \in SUBSET Sessions
          /\ waiters' \in [Sessions -> Nat]
      BY <1>1 DEF ActivationFails, TypeOK
    <2> QED
      BY <1>1, <1>3, <2>1, <2>2, <2>3, <2>4 DEF TypeOK, CallType
  <1>6. IsFiniteSet(Up')
    <2>1. Up' \in SUBSET Up
      BY <1>2, <1>4 DEF Up, Published
    <2> QED
      BY <2>1, FS_Subset DEF Kept
  <1>7. WellKept(s)'
    <2>1. life'[s] = "none" /\ waiters'[s] = 0 /\ delivery'[s] = delivery[s]
      BY <1>1, <1>2, <1>3, <1>4 DEF TypeOK, Abandoned
    <2>2. Answered(s, {"waiting"}) \in [Callers -> CallType]
      BY <1>1, BulkTyped
    <2>3. On(s, {"waiting"})' = {} /\ Users(s)' = Users(s) /\ On(s, {"found"})' = On(s, {"found"})
      BY <1>1, <1>2, <1>4, <2>2, RefusedIn, OutdatedOn
    <2>4. /\ Users(s) = {} /\ delivery[s] = "none" /\ sock[s] = "none" /\ On(s, {"found"}) = {}
          /\ leases[s] = 0 /\ s \notin tasks
      BY <1>1 DEF WellKept
    <2>5. Gone(s)
      BY <1>3, <2>1, <2>3, <2>4 DEF Gone
    <2> QED
      BY <1>1, <1>3, <2>5, GoneKeeps DEF TypeOK
  <1>8. ASSUME NEW r \in Sessions, r # s PROVE WellKept(r)'
    BY <1>1, <1>2, <1>3, <1>8, OthersAtPublication DEF TypeOK
  <1>9. \A c \in Callers : Placed(c)'
    BY <1>1, <1>2, BulkTyped, BulkPlaced, OutdatedPlaced DEF Kept
  <1> QED
    BY <1>5, <1>6, <1>7, <1>8, <1>9 DEF Kept

(* A retirement takes everything with it, and nothing of other sessions.   *)
LEMMA RetireKeeps ==
    ASSUME Kept, NEW s \in Sessions, life[s] \in Published, Retire(s),
           sweep' \in {sweep, NoSweep}, down' = down, forced' \in SUBSET Sessions
    PROVE  Kept'
  <1>1. TypeOK /\ TypeOK' /\ WellKept(s)
    BY RetireTyped DEF Kept
  <1>2. /\ life' = [life EXCEPT ![s] = "none"] /\ leases' = [leases EXCEPT ![s] = 0]
        /\ sock' = [sock EXCEPT ![s] = "none"] /\ tasks' = tasks \ {s} /\ waiters' = waiters
        /\ delivery' = [r \in Sessions |-> IF r \in {s} THEN "none" ELSE delivery[r]]
        /\ call' = Outdated({s}, Answered(s, Holding))
    BY DEF Retire, Abandoned
  <1>3. Answered(s, Holding) \in [Callers -> CallType]
    BY <1>1, BulkTyped
  <1>4. On(s, {"waiting"}) = {} /\ waiters[s] = 0
    <2>1. On(s, {"waiting"}) = {}
      BY <1>1 DEF WellKept, Building, Published
    <2> QED
      BY <1>1, <2>1, FS_EmptySet DEF WellKept
  <1>5. \A r \in Sessions :
          /\ In(Answered(s, Holding), r, {"waiting"}) = On(r, {"waiting"})
          /\ In(Answered(s, Holding), r, {"found"}) = On(r, {"found"})
          /\ In(Answered(s, Holding), r, Holding) = IF r = s THEN {} ELSE Users(r)
    BY DismissedIn
  <1>6. \A r \in Sessions :
          /\ On(r, {"waiting"})' = On(r, {"waiting"})
          /\ On(r, {"found"})' = IF r = s THEN {} ELSE On(r, {"found"})
          /\ Users(r)' = IF r = s THEN {} ELSE Users(r)
    BY <1>2, <1>3, <1>5, OutdatedOn
  <1>7. WellKept(s)'
    <2>1. Gone(s)
      BY <1>1, <1>2, <1>4, <1>6 DEF Gone, TypeOK
    <2> QED
      BY <1>1, <2>1, GoneKeeps DEF TypeOK
  <1>8. ASSUME NEW r \in Sessions, r # s PROVE WellKept(r)'
    <2>1. Alone(r)
      BY <1>1, <1>2, <1>6, <1>8 DEF Alone, TypeOK
    <2> QED
      BY <2>1, AloneKeeps DEF Kept
  <1>9. \A c \in Callers : Placed(c)'
    BY <1>1, <1>2, <1>3, BulkPlaced, OutdatedPlaced DEF Kept
  <1>10. IsFiniteSet(Up')
    <2>1. Up' \in SUBSET Up
      BY <1>1, <1>2 DEF Up, TypeOK, Published
    <2> QED
      BY <2>1, FS_Subset DEF Kept
  <1> QED
    BY <1>1, <1>7, <1>8, <1>9, <1>10 DEF Kept

-----------------------------------------------------------------------------
(* The inductive invariant, and what follows from it.                      *)

LEMMA InitKept == Init => Kept
  <1> SUFFICES ASSUME Init PROVE Kept
    OBVIOUS
  <1>1. Up = {} /\ IsFiniteSet(Up)
    BY FS_EmptySet DEF Init, Up, Published
  <1>2. TypeOK
    BY DEF Init, TypeOK, NoCall, NoSweep, Kinds
  <1>3. \A s, W : On(s, W) = {}
    BY DEF Init, On, NoCall
  <1>4. ASSUME NEW s \in Sessions PROVE WellKept(s)
    <2>1. s \notin Up /\ Users(s) = {} /\ On(s, {"waiting"}) = {} /\ On(s, {"found"}) = {}
      BY <1>1, <1>3 DEF Users
    <2> QED
      BY <2>1, FS_EmptySet DEF Init, WellKept
  <1>5. \A c \in Callers : Placed(c)
    BY DEF Init, Placed
  <1> QED
    BY <1>1, <1>2, <1>4, <1>5 DEF Kept

(* Every step of the registry keeps it.                                    *)
LEMMA KeptStep ==
    ASSUME Kept, [Next]_vars
    PROVE  Kept'
  <1>1. ASSUME NEW c \in Callers, NEW s \in Sessions, Continue(c, s) PROVE Kept'
    <2>1. CASE Granted(c, s)
      BY <2>1, GrantedKeeps
    <2>2. CASE Found(c, s)
      BY <2>2, FoundKeeps
    <2>3. CASE OpenAgain(c, s)
      <3>1. CASE call[c].at = "stale" /\ down # "no"
        <4>1. /\ TypeOK /\ call \in [Callers -> CallType] /\ Answer(c) /\ call[c].on = {s}
              /\ UNCHANGED <<life, rehydrate, waiters, leases, sock, delivery, queued, tasks, known,
                             sweep, down, forced>>
          BY <2>3, <3>1, CallTyped DEF OpenAgain, runtime, sockets, Kept
        <4>2. Only(c) /\ call'[c] = NoCall
          BY <4>1, Answers
        <4>3. \A W \in {{"waiting"}, {"found"}, Holding} : c \notin On(s, W) /\ c \notin On(s, W)'
          BY <3>1, <4>2, InSet DEF NoCall, Holding
        <4>4. \A W \in {{"waiting"}, {"found"}, Holding} : On(s, W)' = On(s, W)
          BY <4>2, <4>3, Stays
        <4>5. Alone(s) /\ Elsewhere(s)
          BY <4>1, <4>4 DEF Alone, Elsewhere, Users
        <4>6. WellKept(s)'
          BY <4>1, <4>5, AloneKeeps DEF Kept
        <4>7. TypeOK'
          BY <4>1, <4>2 DEF TypeOK, Only, CallType
        <4>8. Placed(c)' /\ call'[c].on = {}
          BY <4>2 DEF Placed, NoCall
        <4> QED
          BY <4>1, <4>2, <4>5, <4>6, <4>7, <4>8, OneKeeps
      <3>2. CASE ~(call[c].at = "stale" /\ down # "no")
        <4>1. call[c].kind \in Kinds
          BY CallTyped DEF Kept, CallType
        <4>2. Open(c, s, call[c].kind) /\ call[c].on = {s} /\ call[c].at \in {"stale", "again"}
          BY <2>3, <3>2 DEF OpenAgain
        <4> QED
          BY <4>1, <4>2, OpenKeeps
      <3> QED
        BY <3>1, <3>2
    <2> QED
      BY <1>1, <2>1, <2>2, <2>3 DEF Continue
  <1>2. ASSUME NEW c \in Callers, NEW s \in Sessions, User(c, s) PROVE Kept'
    <2>1. ASSUME NEW k \in Calls(c), Call(c, s, k) PROVE Kept'
      <3>1. k \in Kinds
        BY DEF Calls, Kinds
      <3> QED
        BY <2>1, <3>1, OpenKeeps DEF Call
    <2> QED
      BY <1>2, <2>1, LeaveKeeps, AdoptKeeps DEF User
  <1>3. ASSUME NEW s \in Sessions, Build(s) PROVE Kept'
    BY <1>3, DrainKeeps, AbsentKeeps, OpenFailsKeeps, PublishKeeps, ActivationFailsKeeps DEF Build
  <1>4. ASSUME NEW s \in Sessions, Work(s) PROVE Kept'
    BY <1>4, TaskKeeps, MessageKeeps, SocketClosesKeeps, DeliveryEndsKeeps DEF Work
  <1>5. ASSUME NEW s \in Sessions, Sweeps(s) PROVE Kept'
    <2>1. CASE SweepRetires(s)
      <3>1. life[s] \in Published /\ forced' \in SUBSET Sessions
        BY <2>1 DEF SweepRetires, Published, Kept, TypeOK
      <3> QED
        BY <2>1, <3>1, RetireKeeps DEF SweepRetires
    <2> QED
      BY <1>5, <2>1, IdleKeeps DEF Sweeps
  <1>6. ASSUME NEW s \in Sessions, Closes(s) PROVE Kept'
    <2>1. CASE RetireQuiet(s)
      <3>1. life[s] \in Published /\ forced' \in SUBSET Sessions
        BY <2>1 DEF RetireQuiet, Published, Kept, TypeOK
      <3> QED
        BY <2>1, <3>1, RetireKeeps DEF RetireQuiet
    <2>2. CASE ForceRetire(s)
      <3>1. life[s] \in Published /\ forced' \in SUBSET Sessions
        BY <2>2 DEF ForceRetire, Published, Kept, TypeOK
      <3> QED
        BY <2>2, <3>1, RetireKeeps DEF ForceRetire
    <2> QED
      BY <1>6, <2>1, <2>2, DrainKeeps DEF Closes
  <1> QED
    BY <1>1, <1>2, <1>3, <1>4, <1>5, <1>6, IdleKeeps, QuiesceKeeps, ShutdownEndsKeeps DEF Next

(* The inductive invariant holds in every state of the registry.           *)
THEOREM RegistryInvariance == Spec => []IInv
  <1>1. Kept /\ [Next]_vars => Kept'
    BY KeptStep
  <1>2. Kept => IInv
    BY IInvParts DEF Kept
  <1> QED
    BY InitKept, <1>1, <1>2, PTL DEF Spec

(* Every variable of the registry holds a state of the code.               *)
THEOREM RegistryTypeCorrectness == Spec => []TypeOK
  <1>1. IInv => TypeOK
    BY DEF IInv
  <1> QED
    BY <1>1, RegistryInvariance, PTL

(* A runtime has a lease for every caller that uses it or is about to, and *)
(* one for a delivery under way; a runtime that is gone has none.          *)
THEOREM LeasesAreCounted == Spec => []LeasesCounted
  <1>1. IInv => LeasesCounted
    BY DEF IInv
  <1> QED
    BY <1>1, RegistryInvariance, PTL

(* Past the wait for the builds a shutdown sees only runtimes that close,  *)
(* and past its end there never is a runtime again.                        *)
THEOREM ShutdownLeavesNothing == Spec => []ShutdownIsFinal
  <1>1. IInv => ShutdownIsFinal
    BY DEF IInv
  <1> QED
    BY <1>1, RegistryInvariance, PTL

-----------------------------------------------------------------------------
(* What a step may never do.                                               *)

(* Nobody uses a runtime that is quiescent, or that was found quiescent.   *)
LEMMA QuietIsUnused ==
    ASSUME Kept, NEW s \in Sessions, Quiescent(s) \/ life[s] = "quiet"
    PROVE  Users(s) = {} /\ sock[s] = "none" /\ (s \in tasks => delivery[s] = "running")
  BY NoLeases DEF Kept, WellKept, Quiescent

(* A step that takes a runtime away found it quiescent or quiet, or reports*)
(* it.                                                                     *)
LEMMA RetiredForAReason ==
    ASSUME TypeOK, NEW s \in Up, [Next]_vars, life'[s] = "none"
    PROVE  \/ Quiescent(s) \/ life[s] = "quiet"
           \/ s \in forced'
  <1>1. s \in Sessions /\ life[s] \in Published /\ life[s] # "none" /\ life[s] \notin Building
    BY DEF Up, Published, Building
  <1>2. life' # life
    BY <1>1
  <1>3. ASSUME NEW c \in Callers, NEW r \in Sessions, NEW k \in Kinds, Open(c, r, k) PROVE FALSE
    <2>1. Join(c, r, k) \/ (life[r] = "none" /\ Begin(c, r, k)) \/ UNCHANGED life
      BY <1>3, OpenKinds
    <2>2. life[r] = "none" /\ Begin(c, r, k)
      BY <1>2, <2>1 DEF Join
    <2> QED
      BY <1>1, <2>2 DEF Begin, TypeOK
  <1>4. ASSUME NEW c \in Callers, NEW r \in Sessions, Continue(c, r) \/ User(c, r) PROVE FALSE
    <2>1. call[c].kind \in Kinds /\ Calls(c) \subseteq Kinds
      BY CallTyped DEF CallType, Calls, Kinds
    <2> QED
      BY <1>2, <1>3, <1>4, <2>1 DEF Continue, User, Granted, Found, OpenAgain, Leave, Adopt, Call, runtime
  <1>5. ASSUME NEW r \in Sessions, Work(r) \/ SweepLooks(r) \/ ClosePass(r) PROVE FALSE
    BY <1>2, <1>5 DEF Work, Submit, TaskEnds, Message, SocketCloses, DeliveryEnds, NextDelivery,
                      SweepLooks, ClosePass, runtime
  <1>6. ASSUME NEW r \in Sessions, Present(r) \/ Absent(r) \/ OpenFails(r) \/ Verdict(r) PROVE FALSE
    <2>1. r # s \/ life'[s] = "quiet"
      BY <1>1, <1>6 DEF Present, Absent, OpenFails, Verdict, Building, TypeOK
    <2>2. r # s => life'[s] = life[s]
      BY <1>1, <1>6 DEF Present, Absent, OpenFails, Verdict, TypeOK
    <2> QED
      BY <1>1, <2>1, <2>2
  <1>7. ASSUME NEW r \in Sessions, Publish(r) \/ ActivationFails(r) PROVE Quiescent(s)
    <2>1. PICK R \in Evicted : life'[s] = "none" => s \in R \/ s = r
      BY <1>1, <1>7 DEF Publish, ActivationFails
    <2>2. s # r
      BY <1>1, <1>7 DEF Publish, ActivationFails, Building
    <2> QED
      BY <2>1, <2>2, EvictedIdle
  <1>8. ASSUME NEW r \in Sessions, SweepRetires(r) \/ RetireQuiet(r) \/ ForceRetire(r)
        PROVE  Quiescent(s) \/ life[s] = "quiet" \/ s \in forced'
    <2>1. r = s
      BY <1>1, <1>8 DEF SweepRetires, RetireQuiet, ForceRetire, Retire, TypeOK
    <2> QED
      BY <1>8, <2>1 DEF SweepRetires, RetireQuiet, ForceRetire, Idle
  <1>9. ASSUME SweepKeeps \/ Shutdown \/ ShutdownEnds \/ UNCHANGED vars PROVE FALSE
    BY <1>2, <1>9 DEF SweepKeeps, Shutdown, ShutdownEnds, vars, runtime
  <1>10. ~Quiesce
    BY <1>1 DEF Quiesce
  <1> QED
    BY <1>4, <1>5, <1>6, <1>7, <1>8, <1>9, <1>10 DEF Next, Build, Sweeps, Closes

(* A runtime is never retired under a caller, a socket or a task, unless   *)
(* the shutdown reports it as forced.                                      *)
THEOREM NothingRetiredUnderneath == Spec => NotUnderneath
  <1> DEFINE Spared == \A s \in Up : life'[s] = "none" /\ s \notin forced' =>
                         /\ Users(s) = {} /\ sock[s] = "none"
                         /\ s \in tasks => delivery[s] = "running"
  <1>1. ASSUME Kept, [Next]_vars PROVE Spared
    <2>1. TypeOK /\ Up \subseteq Sessions
      BY <1>1 DEF Kept, Up
    <2> QED
      BY <1>1, <2>1, RetiredForAReason, QuietIsUnused
  <1>2. Kept /\ [Next]_vars => [Spared]_vars
    BY <1>1
  <1>3. Kept /\ [Next]_vars => Kept'
    BY KeptStep
  <1> QED
    BY InitKept, <1>2, <1>3, PTL DEF Spec, NotUnderneath

(* Only a publication brings a runtime.                                    *)
LEMMA OnlyPublished ==
    ASSUME TypeOK, [Next]_vars, NEW s \in Up', s \notin Up
    PROVE  Publish(s)
  <1>1. s \in Sessions /\ life'[s] \in Published /\ life[s] \notin Published
    BY DEF Up
  <1>2. life' # life /\ life'[s] # "none" /\ life'[s] \notin Building
    BY <1>1 DEF Published, Building
  <1>3. ASSUME NEW c \in Callers, NEW r \in Sessions, NEW k \in Kinds, Open(c, r, k) PROVE FALSE
    <2>1. Begin(c, r, k)
      BY <1>2, <1>3, OpenKinds DEF Join
    <2> QED
      BY <1>1, <1>2, <2>1 DEF Begin, TypeOK, Building
  <1>4. ASSUME NEW c \in Callers, NEW r \in Sessions, Continue(c, r) \/ User(c, r) PROVE FALSE
    <2>1. call[c].kind \in Kinds /\ Calls(c) \subseteq Kinds
      BY CallTyped DEF CallType, Calls, Kinds
    <2> QED
      BY <1>2, <1>3, <1>4, <2>1 DEF Continue, User, Granted, Found, OpenAgain, Leave, Adopt, Call, runtime
  <1>5. ASSUME NEW r \in Sessions, Work(r) \/ SweepLooks(r) \/ ClosePass(r) PROVE FALSE
    BY <1>2, <1>5 DEF Work, Submit, TaskEnds, Message, SocketCloses, DeliveryEnds, NextDelivery,
                      SweepLooks, ClosePass, runtime
  <1>6. ASSUME NEW r \in Sessions, Present(r) \/ Absent(r) \/ OpenFails(r) PROVE FALSE
    BY <1>1, <1>2, <1>6 DEF Present, Absent, OpenFails, TypeOK, Building
  <1>7. ASSUME NEW r \in Sessions, Verdict(r) \/ SweepRetires(r) \/ RetireQuiet(r) \/ ForceRetire(r)
        PROVE  FALSE
    <2>1. r = s => life[s] = "quiescing" \/ life'[s] = "none"
      BY <1>1, <1>7 DEF Verdict, SweepRetires, RetireQuiet, ForceRetire, Retire, TypeOK
    <2>2. r # s => life'[s] = life[s]
      BY <1>1, <1>7 DEF Verdict, SweepRetires, RetireQuiet, ForceRetire, Retire, TypeOK
    <2> QED
      BY <1>1, <1>2, <2>1, <2>2 DEF Published
  <1>8. ASSUME NEW r \in Sessions, ActivationFails(r) PROVE FALSE
    BY <1>1, <1>2, <1>8 DEF ActivationFails
  <1>9. ASSUME NEW r \in Sessions, Publish(r) PROVE Publish(s)
    <2>1. r = s
      BY <1>1, <1>2, <1>9 DEF Publish
    <2> QED
      BY <1>9, <2>1
  <1>10. ~(SweepKeeps \/ Shutdown \/ ShutdownEnds \/ UNCHANGED vars)
    BY <1>2 DEF SweepKeeps, Shutdown, ShutdownEnds, vars, runtime
  <1>11. ~Quiesce
    BY <1>1, <1>2 DEF Quiesce, Up
  <1> QED
    BY <1>4, <1>5, <1>6, <1>7, <1>8, <1>9, <1>10, <1>11 DEF Next, Build, Sweeps, Closes

(* Nothing makes room only when nothing can.                               *)
LEMMA NothingToEvict ==
    ASSUME IsFiniteSet(Up), {} \in Evicted, Cardinality(Up) >= MaxResident
    PROVE  \A s \in Up : ~Quiescent(s) \/ life[s] # "resident"
  <1> DEFINE Q == {r \in Up : life[r] = "resident" /\ Quiescent(r)}
             excess == Cardinality(Up) + 1 - MaxResident
  <1>1. Cardinality(Up) \in Nat /\ MaxResident \in Nat /\ excess \in Nat /\ excess # 0
    BY FS_CardinalityType, RegistryAssumption
  <1>2. IsFiniteSet(Q) /\ Cardinality(Q) \in Nat
    <2>1. Q \in SUBSET Up
      OBVIOUS
    <2> QED
      BY <2>1, FS_Subset, FS_CardinalityType
  <1>3. Cardinality({}) = (IF excess < Cardinality(Q) THEN excess ELSE Cardinality(Q))
    BY <1>1 DEF Evicted, kSubset
  <1>4. Cardinality(Q) = 0
    <2> HIDE DEF Q, excess
    <2> QED
      BY <1>1, <1>2, <1>3, FS_EmptySet
  <1>5. Q = {}
    BY <1>2, <1>4, FS_EmptySet
  <1> QED
    BY <1>5

(* There are more runtimes than the bound only when none that was there    *)
(* could go.                                                               *)
THEOREM BoundYieldsToBusyOnly == Spec => BeyondBoundIfBusy
  <1> DEFINE Justified == Up \ Up' = {} /\ Up' # Up /\ Cardinality(Up') > MaxResident =>
                            \A s \in Up : ~Quiescent(s) \/ life[s] # "resident"
  <1>1. ASSUME Kept, [Next]_vars PROVE Justified
    <2> SUFFICES ASSUME Up \ Up' = {}, Up' # Up, Cardinality(Up') > MaxResident
                 PROVE  \A s \in Up : ~Quiescent(s) \/ life[s] # "resident"
      OBVIOUS
    <2>1. PICK s \in Up' : s \notin Up
      OBVIOUS
    <2>2. Publish(s) /\ s \in Sessions
      BY <1>1, <2>1, OnlyPublished DEF Kept, Up
    <2>3. PICK R \in Evicted :
            life' = [r \in Sessions |-> IF r = s THEN "resident" ELSE IF r \in R THEN "none" ELSE life[r]]
      BY <2>2 DEF Publish
    <2>4. R \subseteq Up
      BY EvictedIdle
    <2>5. Up' = (Up \ R) \cup {s}
      BY <2>1, <2>2, <2>3, <2>4 DEF Up, Published
    <2>6. R = {} /\ Up' = Up \cup {s}
      BY <2>1, <2>4, <2>5
    <2>7. IsFiniteSet(Up) /\ Cardinality(Up) \in Nat /\ MaxResident \in Nat
      BY <1>1, FS_CardinalityType, RegistryAssumption DEF Kept
    <2>8. Cardinality(Up') = Cardinality(Up) + 1
      BY <2>1, <2>6, <2>7, FS_AddElement
    <2>9. Cardinality(Up) >= MaxResident
      BY <2>7, <2>8
    <2> QED
      BY <2>6, <2>7, <2>9, NothingToEvict
  <1>2. Kept /\ [Next]_vars => [Justified]_vars
    BY <1>1
  <1>3. Kept /\ [Next]_vars => Kept'
    BY KeptStep
  <1> QED
    BY InitKept, <1>2, <1>3, PTL DEF Spec, BeyondBoundIfBusy

=============================================================================
