-------------------------- MODULE ImageBuildsProofs --------------------------
(***************************************************************************)
(* Proofs about ImageBuilds, for any number of builds, deliveries and      *)
(* upsets.  Most steps only let rows age, artifacts go and deliveries come *)
(* to rest; that this keeps the invariant is proved once (Waning).  What   *)
(* is left are the steps that put something new into the world: a build, a *)
(* lease, an attempt, an artifact, or an artifact's name in a row.         *)
(***************************************************************************)
EXTENDS ImageBuilds, FiniteSetTheorems, TLAPS

(* A build's row ages: it is over, or ready with the artifact it has; it   *)
(* forgets an artifact that is gone, and a lease that protects nothing.    *)
(* Before its trigger has bound it, it is just there.                      *)
Appears(c) ==
    /\ trigger[c] \in Early /\ row[c].status \in {"none", "building"}
    /\ row'[c].status = "building" /\ row'[c].image = 0 /\ row'[c].lease = 0

StatusAges(c) ==
    \/ row'[c].status = row[c].status
    \/ row[c].status \in {"building", "ready"} /\ row'[c].status \in {"failed", "superseded"}
    \/ row[c].status = "building" /\ row'[c].status = "ready" /\ row[c].image # 0
    \/ row[c].status \in {"failed", "superseded"} /\ row'[c].status = "gone" /\ row'[c].session = "none"

ImageAges(c) ==
    \/ row'[c].image = row[c].image
    \/ /\ row'[c].image = 0 /\ row'[c].session = "none"
       /\ row[c].status \in {"failed", "superseded"} /\ row[c].image \notin there'[c]

LeaseAges(c) ==
    \/ row'[c].lease = row[c].lease /\ (row[c].expired => row'[c].expired)
    \/ /\ row'[c].lease = 0
       /\ \/ row'[c].status # "building" \/ row[c].image # 0
          \/ Nobody(c) /\ there[c] = {}

RowAges(c) ==
    \/ Appears(c)
    \/ /\ StatusAges(c) /\ ImageAges(c) /\ LeaseAges(c)
       /\ row[c].session = "none" => row'[c].session = "none"

(* Only artifacts go that no row under way or ready, and no delivery that  *)
(* is about to record it, relies on.                                       *)
ArtifactsGo ==
    \A c \in Builds :
        /\ there'[c] \subseteq there[c]
        /\ \A i \in there[c] \ there'[c] :
               \/ row[c].status \notin {"none", "building", "ready"}
               \/ /\ i # row[c].image
                  /\ \A v \in Workers : worker[v].b = c /\ worker[v].lease = i => worker'[v].at # "record"

(* A delivery stays where it is, ends, or goes on without a new attempt.   *)
Goes(v) ==
    LET b == worker[v].b  to == worker'[v].at IN
    /\ Leased(v) /\ worker'[v].b = b /\ worker'[v].lease = worker[v].lease
    /\ \/ to \in {"fail", "replace", "supersede", "reap"}
       \/ to \in {"publish", "refused"} /\ (row'[b].status # "building" \/ row'[b].image # 0)
       \/ /\ to = "release"
          /\ \/ row'[b].status # "building" \/ row'[b].lease # worker[v].lease \/ row'[b].image # 0
             \/ Nobody(b)' /\ there'[b] = {}
       \/ /\ to \in {"reread", "compensate", "quarantine"} /\ worker[v].at \in Making
          /\ to = "reread" \/ row'[b].image # worker[v].lease

(* Or it begins with what it notes of its build.                           *)
Notes(v) ==
    LET b == worker'[v].b  lease == worker'[v].lease IN
    /\ lease <= leases[b]
    /\ lease # 0 /\ row'[b].lease = lease => row'[b].expired
    /\ lease # 0 /\ row'[b].status = "building" => worker'[v].late \/ row'[b].image # 0

Rests(v) ==
    \/ worker'[v] = worker[v]
    \/ worker'[v].at \in {"idle", "cleanup", "clear"}
    \/ worker'[v].at = "claim" /\ Notes(v)
    \/ Goes(v)

Waning ==
    /\ leases' = leases /\ ArtifactsGo
    /\ \A c \in Builds : RowAges(c)
    /\ \A v \in Workers : Rests(v)

-----------------------------------------------------------------------------
(* Leases, and who holds them.                                             *)
LEMMA WaningLeases ==
    ASSUME IInv, Waning
    PROVE  InOrder' /\ Noted' /\ Distinct'
  <1> USE DEF IInv, Waning
  <1>1. \A v \in Workers : Leased(v)' =>
            Leased(v) /\ worker'[v].b = worker[v].b /\ worker'[v].lease = worker[v].lease
    BY DEF Rests, Goes, Leased
  <1>2. \A v \in Workers : worker[v].b \in Builds /\ worker[v].lease \in Nat
    BY DEF TypeOK, Deliveries
  <1>3. \A c \in Builds : leases[c] \in Nat /\ row[c].lease \in Nat
    BY DEF TypeOK, RowTypes
  <1>4. \A c \in Builds : row'[c].lease \in {row[c].lease, 0}
    BY <1>3 DEF RowAges, Appears, LeaseAges, InOrder, Unplanned
  <1>5. InOrder'
    BY <1>1, <1>2, <1>3, <1>4 DEF InOrder, ArtifactsGo
  <1>6. Noted'
    <2> SUFFICES ASSUME NEW w \in Workers, worker'[w].at = "claim"
                 PROVE  LET b == worker'[w].b IN
                        /\ worker'[w].lease <= leases[b]
                        /\ worker'[w].lease # 0 /\ row'[b].lease = worker'[w].lease => row'[b].expired
                        /\ worker'[w].lease # 0 /\ row'[b].status = "building" =>
                               worker'[w].late \/ row'[b].image # 0
      BY DEF Noted, Owns, Is
    <2>1. CASE worker'[w] = worker[w]
      <3>1. ~Appears(worker[w].b)
        BY <1>2, <2>1 DEF Appears, Unplanned
      <3> QED
        BY <1>2, <2>1, <3>1 DEF Noted, Owns, Is, RowAges, StatusAges, ImageAges, LeaseAges
    <2>2. CASE Notes(w)
      BY <2>2 DEF Notes
    <2> QED
      BY <2>1, <2>2 DEF Rests, Goes
  <1>7. Distinct'
    BY <1>1, <1>2 DEF Distinct
  <1> QED
    BY <1>5, <1>6, <1>7

(* And who makes and records artifacts.                                    *)
LEMMA WaningWork ==
    ASSUME IInv, Waning
    PROVE  Attempting' /\ Recording' /\ Fresh' /\ Free' /\ Single'
  <1> USE DEF IInv, Waning
  <1>1. \A v \in Workers : worker'[v].at \in Active =>
            worker[v].at \in Active /\ worker'[v].b = worker[v].b /\ worker'[v].lease = worker[v].lease
    BY DEF Rests, Goes, Active, Making
  <1>2. \A v \in Workers : worker[v].b \in Builds /\ worker[v].lease \in Nat
    BY DEF TypeOK, Deliveries
  <1>3. \A w \in Workers : worker'[w].at \in Active /\ Alone(w) => Alone(w)'
    BY <1>1 DEF Alone
  <1>4. \A c \in Builds : Nobody(c) => Nobody(c)'
    BY <1>1 DEF Nobody
  <1>5. \A v \in Workers : worker[v].at # "idle" => ~Appears(worker[v].b)
    BY <1>2 DEF Appears, Unplanned
  <1>6. \A c \in Builds : there'[c] \subseteq there[c]
    BY DEF ArtifactsGo
  <1>7. Attempting'
    <2> SUFFICES ASSUME NEW w \in Workers, worker'[w].at = "attempt"
                 PROVE  Alone(w)' /\ Nothing(worker[w].b)' /\ worker'[w].b = worker[w].b
      BY DEF Attempting, Nothing
    <2>1. worker'[w] = worker[w]
      BY DEF Rests, Goes
    <2> QED
      BY <1>2, <1>3, <1>5, <1>6, <2>1 DEF Attempting, Nothing, RowAges, ImageAges, Active
  <1>8. Recording'
    <2> SUFFICES ASSUME NEW w \in Workers, worker'[w].at \in Making
                 PROVE  /\ Alone(w)' /\ there'[worker[w].b] \subseteq {worker[w].lease}
                        /\ worker'[w].b = worker[w].b /\ worker'[w].lease = worker[w].lease
      BY DEF Recording
    <2>1. worker[w].at \in Making
      BY DEF Rests, Goes, Making
    <2> QED
      BY <1>1, <1>2, <1>3, <1>6, <2>1 DEF Recording, Active
  <1>9. Fresh'
    <2> SUFFICES ASSUME NEW w \in Workers, NEW b \in Builds, b = worker'[w].b,
                        row'[b].lease = worker'[w].lease, row'[b].image = 0,
                        \/ worker'[w].at = "claimed" /\ ~worker'[w].late /\ row'[b].session # "none"
                        \/ worker'[w].at = "release" /\ row'[b].status = "building"
                 PROVE  Nobody(b)' /\ there'[b] = {}
      BY <1>2 DEF Fresh, Owns, Is, Rests, Goes
    <2>1. CASE worker'[w] = worker[w]
      <3>1. ~Appears(b) /\ worker[w].lease # 0
        BY <1>5, <1>2, <2>1 DEF InOrder, Leased
      <3>2. row[b].lease = worker[w].lease
        BY <2>1, <3>1 DEF RowAges, LeaseAges
      <3>3. row[b].image = 0 \/ (worker[w].at = "release" /\ row[b].status # "building")
        BY <2>1, <3>1 DEF RowAges, ImageAges
      <3>4. row'[b].status = "building" => row[b].status = "building"
        BY <3>1 DEF RowAges, StatusAges
      <3>5. Nobody(b) /\ there[b] = {}
        BY <2>1, <3>1, <3>2, <3>3, <3>4 DEF Fresh, Owns, Is, RowAges
      <3> QED
        BY <1>4, <1>6, <3>5
    <2>2. CASE worker'[w] # worker[w]
      BY <2>2 DEF Rests, Goes
    <2> QED
      BY <2>1, <2>2
  <1>10. Free'
    <2> SUFFICES ASSUME NEW b \in Builds, row'[b].status = "building", row'[b].lease = 0, row'[b].image = 0
                 PROVE  Nobody(b)' /\ there'[b] = {}
      BY DEF Free, Is
    <2>1. CASE Appears(b)
      <3>1. leases[b] = 0 /\ \A v \in Workers : worker[v].at # "idle" => worker[v].b # b
        BY <2>1 DEF Appears, Unplanned
      <3> QED
        BY <1>4, <1>6, <3>1 DEF Nobody, Active, Making, InOrder
    <2>2. CASE ~Appears(b)
      BY <1>4, <1>6, <2>2 DEF Free, Is, RowAges, StatusAges, ImageAges, LeaseAges
    <2> QED
      BY <2>1, <2>2
  <1>11. Single'
    BY <1>6 DEF Single
  <1> QED
    BY <1>7, <1>8, <1>9, <1>10, <1>11

(* And that artifacts in use are there.                                    *)
LEMMA WaningArtifacts ==
    ASSUME IInv, Waning
    PROVE  ImagesThere' /\ AtHand' /\ ReadyIsThere'
  <1> USE DEF IInv, Waning
  <1>1. \A c \in Builds : row'[c].status \in {"building", "ready"} /\ ~Appears(c) =>
            /\ row'[c].image = row[c].image
            /\ row[c].status = "ready" \/ (row[c].status = "building" /\ row'[c].status = "building")
               \/ (row[c].status = "building" /\ row[c].image # 0)
    BY DEF RowAges, StatusAges, ImageAges
  <1>2. \A c \in Builds : row'[c].status = "building" /\ ~Appears(c) => row[c].status = "building"
    BY DEF RowAges, StatusAges
  <1>3. ImagesThere' /\ ReadyIsThere'
    BY <1>1, <1>2 DEF ImagesThere, ReadyIsThere, Is, ArtifactsGo, Appears
  <1>4. AtHand'
    <2> SUFFICES ASSUME NEW w \in Workers, NEW b \in Builds, b = worker[w].b,
                        worker'[w].at \in {"record", "publish", "refused", "compensate", "quarantine"}
                 PROVE  /\ worker'[w].b = b
                        /\ worker'[w].at = "record" /\ row'[b].status = "building" => worker'[w].lease \in there'[b]
                        /\ worker'[w].at \in {"publish", "refused"} /\ row'[b].status = "building" =>
                               row'[b].image # 0
                        /\ worker'[w].at \notin {"publish", "refused"} => row'[b].image # worker'[w].lease
      BY SMTT(60) DEF AtHand, Is, TypeOK, Deliveries
    <2>1. Leased(w) /\ worker'[w].b = b /\ worker'[w].lease = worker[w].lease /\ worker[w].lease # 0
      BY DEF Rests, Goes, Leased, InOrder
    <2>2. ~Appears(b)
      BY <2>1 DEF Appears, Unplanned, Leased
    <2>3. CASE worker'[w] = worker[w]
      <3>1. row'[b].image \in {row[b].image, 0}
        BY <2>2 DEF RowAges, ImageAges
      <3>2. worker'[w].at \notin {"publish", "refused"} => row'[b].image # worker'[w].lease
        BY <2>1, <2>3, <3>1 DEF AtHand
      <3>3. row'[b].status = "building" => row[b].status = "building" /\ row'[b].image = row[b].image
        BY <1>1, <1>2, <2>2
      <3> QED
        BY <2>1, <2>3, <3>2, <3>3 DEF AtHand, Is, ArtifactsGo
    <2>4. CASE worker'[w] # worker[w]
      BY <2>1, <2>4 DEF Rests, Goes
    <2> QED
      BY <2>3, <2>4
  <1> QED
    BY <1>3, <1>4

-----------------------------------------------------------------------------
(* The rest of the invariant, where a step leaves its subjects alone.      *)
LEMMA OldKept ==
    ASSUME IInv, Waning,
           \A v \in Workers : \/ worker'[v].old = {}
                              \/ worker'[v].old \subseteq worker[v].old /\ worker'[v].at = worker[v].at
    PROVE  OldOver'
  <1> SUFFICES ASSUME NEW w \in Workers
               PROVE  /\ worker'[w].at \notin {"supersede", "reap"} => worker'[w].old = {}
                      /\ \A old \in worker'[w].old :
                            /\ row'[old[1]].status \notin {"none", "building"}
                            /\ row'[old[1]].status = "ready" =>
                                  worker'[w].at = "supersede" /\ row'[old[1]].image = old[2]
    BY DEF OldOver, Is
  <1>1. \A old \in worker[w].old : old[1] \in Builds
    BY DEF IInv, TypeOK, Deliveries
  <1>2. \A c \in Builds : row[c].status \notin {"none", "building"} =>
            /\ row'[c].status \notin {"none", "building"}
            /\ row'[c].status = "ready" => row[c].status = "ready" /\ row'[c].image = row[c].image
    BY DEF Waning, RowAges, Appears, StatusAges, ImageAges
  <1> QED
    BY <1>1, <1>2 DEF IInv, OldOver, Is

LEMMA SweepKept ==
    ASSUME IInv, Waning, sweep' = sweep,
           \A c \in Builds :
               Appears(c) \/ row'[c].image = row[c].image
               \/ (row'[c].status = "gone" /\ row'[c].session = "none")
    PROVE  SweepOver'
  <1>1. sweep.b \in Builds
    BY DEF IInv, TypeOK, Maintenance
  <1>2. \A c \in Builds : row[c].status \in {"failed", "superseded", "gone"} =>
            /\ row'[c].status \in {"failed", "superseded", "gone"}
            /\ row[c].status = "gone" /\ row[c].session = "none" =>
                   row'[c].status = "gone" /\ row'[c].session = "none"
    BY DEF Waning, RowAges, Appears, StatusAges
  <1>3. \A w \in Workers : worker'[w].at = "attempt" => worker'[w] = worker[w]
    BY DEF Waning, Rests, Goes
  <1> QED
    BY <1>1, <1>2, <1>3 DEF IInv, SweepOver, Is, Waning, ArtifactsGo, Appears

(* What a delivery no longer has to record is gone, recorded or cut off.   *)
LEMMA AllKnown ==
    ASSUME IInv, Waning, cut \subseteq cut',
           \A v \in Workers : worker[v].at \in Making =>
               \/ worker[v].lease \notin there'[worker[v].b]
               \/ row'[worker[v].b].image = worker[v].lease \/ worker[v].b \in cut'
               \/ worker'[v].at \in Making /\ worker'[v].b = worker[v].b /\ worker'[v].lease = worker[v].lease
    PROVE  NoneForgotten'
  <1> SUFFICES ASSUME NEW b \in Builds, NEW image \in there'[b]
               PROVE  \/ row'[b].image = image \/ b \in cut'
                      \/ \E w \in Workers : worker'[w].at \in Making /\ worker'[w].b = b /\ worker'[w].lease = image
    BY DEF NoneForgotten, Unrecorded, Making
  <1>1. image \in there[b]
    BY DEF Waning, ArtifactsGo
  <1>2. ~Appears(b)
    BY <1>1 DEF IInv, Appears, Unplanned, InOrder
  <1>3. row[b].image = image => row'[b].image = image
    BY <1>2 DEF Waning, RowAges, ImageAges
  <1>4. CASE \E w \in Workers : worker[w].at \in Making /\ worker[w].b = b /\ worker[w].lease = image
    BY <1>4
  <1> QED
    BY <1>1, <1>3, <1>4 DEF IInv, NoneForgotten, Unrecorded, Making

LEMMA SecretsKept ==
    ASSUME IInv, Waning, UNCHANGED <<baked, secrets, changing>>
    PROVE  NoStaleEnvironmentSecrets'
  BY DEF IInv, Waning, RowAges, Appears, StatusAges, NoStaleEnvironmentSecrets, Unplanned, Is

LEMMA PlanKept ==
    ASSUME IInv, Waning, UNCHANGED baked,
           \A c \in Builds : \/ trigger'[c] = trigger[c]
                             \/ trigger[c] \notin Early /\ trigger'[c] \notin Early,
           call' \cup queue' \subseteq call \cup queue \cup {c \in Builds : trigger[c] \notin Early},
           \A c \in Builds : trigger[c] \in Early =>
               row'[c].session = row[c].session /\ row'[c].accepted = row[c].accepted,
           \A v \in Workers : worker'[v].at # "idle" => trigger[worker'[v].b] \notin Early
    PROVE  Unplanned'
  <1> SUFFICES ASSUME NEW c \in Builds
               PROVE  /\ row'[c].status = "none" => baked[c] = 0 /\ trigger'[c] = "none"
                      /\ trigger'[c] \in Early =>
                            /\ leases[c] = 0 /\ row'[c].session = "none" /\ row'[c].accepted = "no"
                            /\ c \notin call' \cup queue'
                            /\ \A w \in Workers : worker'[w].at # "idle" => worker'[w].b # c
    BY DEF Unplanned, Is, Waning
  <1>1. row'[c].status = "none" => row[c].status = "none"
    BY DEF Waning, RowAges, StatusAges, Appears
  <1>2. row'[c].status = "none" => baked[c] = 0 /\ trigger'[c] = "none"
    BY <1>1 DEF IInv, Unplanned, Is, Early
  <1>3. trigger'[c] \in Early => trigger[c] \in Early
    OBVIOUS
  <1> QED
    BY <1>2, <1>3 DEF IInv, Unplanned

LEMMA Bound ==
    ASSUME IInv, NEW w \in Workers, worker[w].at # "idle"
    PROVE  worker[w].b \in Builds /\ trigger[worker[w].b] \notin Early
  BY DEF IInv, TypeOK, Unplanned, Deliveries

-----------------------------------------------------------------------------
(* What an update of one row, or of one delivery, leaves.                  *)
LEMMA RowPut ==
    ASSUME TypeOK, NEW b \in Builds, NEW r \in RowTypes, Put(b, r)
    PROVE  /\ row' \in [Builds -> RowTypes] /\ row'[b] = r
           /\ \A c \in Builds : c # b => row'[c] = row[c]
  BY DEF TypeOK, Put

LEMMA WorkerGoes ==
    ASSUME TypeOK, NEW w \in Workers, NEW at \in Phases, Go(w, at)
    PROVE  /\ worker' \in [Workers -> Deliveries]
           /\ worker'[w].at = at /\ worker'[w].b = worker[w].b /\ worker'[w].lease = worker[w].lease
           /\ worker'[w].late = worker[w].late /\ worker'[w].old = worker[w].old
           /\ \A v \in Workers : v # w => worker'[v] = worker[v]
  BY DEF TypeOK, Go, Deliveries

LEMMA WorkerEnds ==
    ASSUME TypeOK, NEW w \in Workers, Acked(w)
    PROVE  /\ worker' \in [Workers -> Deliveries]
           /\ worker'[w] = NoWork /\ worker'[w].at = "idle" /\ worker'[w].old = {}
           /\ \A v \in Workers : v # w => worker'[v] = worker[v]
  <1>1. NoWork \in Deliveries
    BY ImageAssumption DEF NoWork, Deliveries, Phases, Builds
  <1> QED
    BY <1>1 DEF TypeOK, Acked, NoWork

(* The usual changes of a row.                                             *)
LEMMA RowChanges ==
    ASSUME NEW r \in RowTypes
    PROVE  /\ Failed(r) \in RowTypes /\ Failed(r).status = "failed"
           /\ Failed(r).image = r.image /\ Failed(r).session = r.session
           /\ Failed(r).accepted = r.accepted
           /\ Failed(r).lease = r.lease /\ Failed(r).expired = r.expired
           /\ Unleased(r) \in RowTypes /\ Unleased(r).lease = 0 /\ Unleased(r).status = r.status
           /\ Unleased(r).image = r.image /\ Unleased(r).session = r.session
           /\ Unleased(r).accepted = r.accepted
  BY DEF RowTypes, Failed, Unleased, Terminal

(* A step that touches one row, or none, and no delivery.                  *)
LEMMA OneRowAges ==
    ASSUME IInv, NEW b \in Builds, UNCHANGED <<leases, worker, there>>,
           \A c \in Builds : c # b => row'[c] = row[c],
           RowAges(b)
    PROVE  Waning
  <1>1. \A c \in Builds : RowAges(c)
    BY DEF RowAges, StatusAges, ImageAges, LeaseAges
  <1> QED
    BY <1>1 DEF Waning, ArtifactsGo, Rests

LEMMA NoRowAges ==
    ASSUME UNCHANGED <<row, leases, worker, there>>
    PROVE  Waning
  BY DEF Waning, ArtifactsGo, Rests, RowAges, StatusAges, ImageAges, LeaseAges

(* A step that touches one delivery, and at most its build.                *)
LEMMA OneRests ==
    ASSUME IInv, NEW w \in Workers, UNCHANGED <<leases, there>>,
           \A c \in Builds : c # worker[w].b => row'[c] = row[c],
           \A v \in Workers : v # w => worker'[v] = worker[v],
           RowAges(worker[w].b), Rests(w)
    PROVE  Waning
  <1>1. \A c \in Builds : RowAges(c)
    BY DEF RowAges, StatusAges, ImageAges, LeaseAges
  <1> QED
    BY <1>1 DEF Waning, ArtifactsGo, Rests

-----------------------------------------------------------------------------
(* Steps that leave rows, deliveries and artifacts alone.                  *)
LEMMA StillSafe ==
    ASSUME IInv, UNCHANGED <<row, leases, worker, there, cut>>
    PROVE  /\ Waning /\ InOrder' /\ Noted' /\ Distinct'
           /\ Attempting' /\ Recording' /\ Fresh' /\ Free' /\ Single'
           /\ ImagesThere' /\ AtHand' /\ OldOver' /\ ReadyIsThere' /\ NoneForgotten'
           /\ UNCHANGED <<baked, secrets, changing>> => NoStaleEnvironmentSecrets'
           /\ sweep' = sweep => SweepOver'
  <1>1. Waning
    BY NoRowAges
  <1> QED
    BY <1>1, WaningLeases, WaningWork, WaningArtifacts, OldKept, AllKnown, SecretsKept, SweepKept
    DEF IInv, OldOver

(* What Upset and its alternatives do to their counter.                    *)
LEMMA Upsets ==
    ASSUME TypeOK, Upset \/ UNCHANGED upsets
    PROVE  upsets' \in 0..MaxUpsets
  BY ImageAssumption DEF TypeOK, Upset

(* The trigger of a build goes on without its row.                         *)
LEMMA PlanInv ==
    ASSUME IInv, NEW b \in Builds, Plan(b)
    PROVE  IInv'
  <1>1. UNCHANGED <<row, leases, worker, there, cut, sweep>>
    BY DEF Plan, rows, prov
  <1>2. TypeOK'
    BY DEF IInv, TypeOK, Plan, To, rows, jobs, prov
  <1>3. Unplanned'
    BY DEF IInv, TypeOK, Unplanned, Early, Is, Plan, To, rows, jobs
  <1>4. NoStaleEnvironmentSecrets'
    BY <1>1 DEF IInv, TypeOK, NoStaleEnvironmentSecrets, Is, Plan
  <1> QED
    BY <1>1, <1>2, <1>3, <1>4, StillSafe DEF IInv

LEMMA TriggerGoesInv ==
    ASSUME IInv, NEW b \in Builds, Create(b) \/ Started(b) \/ StartFails(b) \/ TriggerDies(b)
    PROVE  IInv'
  <1>1. UNCHANGED <<row, leases, worker, there, cut, sweep, baked, secrets, changing, call, queue>>
    BY DEF Create, Started, StartFails, TriggerDies, rows, prov, jobs
  <1>2. trigger[b] # "none"
    BY DEF Create, Started, StartFails, TriggerDies
  <1>3. \E to \in {"created", "over", "failing"} : trigger' = [trigger EXCEPT ![b] = to]
                                           /\ (to = "created" => trigger[b] \in Early)
    BY DEF Create, Started, StartFails, TriggerDies, To, Early
  <1>4. TypeOK'
    <2>1. box' \in [Builds -> {"none", "up", "down"}]
      BY DEF IInv, TypeOK, Create, Started, StartFails, TriggerDies, prov
    <2>2. upsets' \in 0..MaxUpsets
      BY Upsets DEF IInv, Create, Started, StartFails, TriggerDies
    <2> QED
      BY <1>1, <1>3, <2>1, <2>2 DEF IInv, TypeOK
  <1>5. Unplanned'
    BY <1>1, <1>2, <1>3 DEF IInv, TypeOK, Unplanned, Early, Is
  <1> QED
    BY <1>1, <1>4, <1>5, StillSafe DEF IInv

(* Jobs are sent, lost, or published again.                                *)
LEMMA JobsInv ==
    ASSUME IInv, NEW b \in Builds, Replay(b) \/ Send(b) \/ SendFails(b) \/ Republish(b)
    PROVE  IInv'
  <1>1. UNCHANGED <<row, leases, worker, there, cut, sweep, baked, secrets, changing, trigger, box>>
    BY DEF Replay, Send, SendFails, Republish, rows, prov, plan
  <1>2. TypeOK'
    <2>1. call' \subseteq Builds /\ queue' \subseteq Builds
      BY DEF IInv, TypeOK, Replay, Send, SendFails, Republish
    <2>2. upsets' \in 0..MaxUpsets
      BY Upsets DEF IInv, Replay, Send, SendFails, Republish
    <2> QED
      BY <1>1, <2>1, <2>2 DEF IInv, TypeOK
  <1>3. Unplanned'
    BY <1>1 DEF IInv, Unplanned, Is, Replay, Send, SendFails, Republish
  <1> QED
    BY <1>1, <1>2, <1>3, StillSafe DEF IInv

LEMMA WorldInv ==
    ASSUME IInv, (\E b \in Builds : BoxDies(b)) \/ ChangeEnvironmentSecrets
    PROVE  IInv'
  <1>1. UNCHANGED <<row, leases, worker, there, cut, sweep, baked, trigger, call, queue>>
    BY DEF BoxDies, ChangeEnvironmentSecrets, rows, prov, plan, jobs
  <1>2. TypeOK'
    <2>1. box' \in [Builds -> {"none", "up", "down"}]
      BY DEF IInv, TypeOK, BoxDies, ChangeEnvironmentSecrets, prov
    <2>2. upsets' \in 0..MaxUpsets
      BY Upsets DEF IInv, BoxDies, ChangeEnvironmentSecrets
    <2>3. secrets' \in Nat \ {0} /\ changing' \in BOOLEAN
      <3>1. CASE ChangeEnvironmentSecrets
        BY <3>1 DEF IInv, TypeOK, ChangeEnvironmentSecrets
      <3>2. CASE \E b \in Builds : BoxDies(b)
        BY <3>2, Zenon DEF IInv, TypeOK, BoxDies, plan
      <3> QED
        BY <3>1, <3>2
    <2> QED
      BY <1>1, <2>1, <2>2, <2>3 DEF IInv, TypeOK
  <1>3. Unplanned'
    BY <1>1 DEF IInv, Unplanned, Is
  <1>4. NoStaleEnvironmentSecrets'
    BY <1>1 DEF IInv, NoStaleEnvironmentSecrets, Is, BoxDies, ChangeEnvironmentSecrets, plan
  <1> QED
    BY <1>1, <1>2, <1>3, <1>4, StillSafe DEF IInv

(* The maintenance of a row begins, calls the provider, or gives up.       *)
LEMMA SweepGoesInv ==
    ASSUME IInv, (\E b \in Builds : SweepCleans(b) \/ SweepReaps(b)) \/ SweepCalls \/ SweepFails
    PROVE  IInv'
  <1>1. UNCHANGED <<row, leases, worker, there, cut, baked, secrets, changing, trigger, call, queue>>
    BY DEF SweepCleans, SweepReaps, SweepCalls, SweepFails, rows, prov, plan, jobs
  <1>2. TypeOK'
    <2>1. box' \in [Builds -> {"none", "up", "down"}]
      BY DEF IInv, TypeOK, SweepCleans, SweepReaps, SweepCalls, SweepFails, prov
    <2>2. upsets' \in 0..MaxUpsets
      BY Upsets DEF IInv, SweepCleans, SweepReaps, SweepCalls, SweepFails
    <2>3. sweep' \in Maintenance
      <3>1. NoSweep \in Maintenance
        BY ImageAssumption DEF NoSweep, Maintenance, Builds
      <3>2. ASSUME NEW b \in Builds, NEW at \in {"clean", "reap", "commit"}, Sweeps(at, b)
            PROVE  sweep' \in Maintenance
        BY <3>2 DEF Sweeps, Maintenance, IInv, TypeOK, RowTypes
      <3>3. CASE SweepCalls
        BY <3>3 DEF SweepCalls, Maintenance, IInv, TypeOK
      <3> QED
        BY <3>1, <3>2, <3>3 DEF SweepCleans, SweepReaps, SweepFails
    <2> QED
      BY <1>1, <2>1, <2>2, <2>3 DEF IInv, TypeOK
  <1>3. Unplanned'
    BY <1>1 DEF IInv, Unplanned, Is
  <1>4. SweepOver'
    <2>1. CASE \E b \in Builds : SweepReaps(b)
      <3>1. PICK b \in Builds : SweepReaps(b)
        BY <2>1
      <3>2. sweep'.b = b /\ sweep'.image = row[b].image /\ sweep'.at = IF row[b].image # 0 THEN "reap" ELSE "commit"
        BY <3>1 DEF SweepReaps, Sweeps
      <3>3. row[b].status \in {"failed", "superseded"}
        BY <3>1 DEF SweepReaps, Is
      <3>4. row[b].image # 0 => \A w \in Workers : worker[w].b = b => worker[w].at # "attempt"
        BY DEF IInv, Attempting, Nothing
      <3>5. 0 \notin there[b]
        BY DEF IInv, InOrder, TypeOK
      <3> QED
        BY <1>1, <3>2, <3>3, <3>4, <3>5 DEF SweepOver, Is
    <2>2. CASE ~\E b \in Builds : SweepReaps(b)
      BY <2>2 DEF SweepOver, SweepCleans, Sweeps, SweepCalls, SweepFails, NoSweep, IInv, TypeOK, Maintenance
    <2> QED
      BY <2>1, <2>2
  <1> QED
    BY <1>1, <1>2, <1>3, <1>4, StillSafe DEF IInv

-----------------------------------------------------------------------------
(* Steps that change a row and leave the deliveries and artifacts alone.   *)
LEMMA RowSafe ==
    ASSUME IInv, TypeOK', Unplanned', NoStaleEnvironmentSecrets',
           NEW b \in Builds, UNCHANGED <<leases, worker, there, cut>>,
           \A c \in Builds : c # b => row'[c] = row[c],
           RowAges(b),
           \/ sweep' = NoSweep
           \/ sweep' = sweep /\ (Appears(b) \/ row'[b].image = row[b].image)
    PROVE  IInv'
  <1>1. Waning
    BY OneRowAges
  <1>2. OldOver'
    BY <1>1, OldKept DEF IInv, OldOver
  <1>3. SweepOver'
    BY <1>1, SweepKept DEF SweepOver, NoSweep
  <1>4. NoneForgotten'
    BY <1>1, AllKnown
  <1> QED
    BY <1>1, <1>2, <1>3, <1>4, WaningLeases, WaningWork, WaningArtifacts DEF IInv

LEMMA RegisterInv ==
    ASSUME IInv, NEW b \in Builds, Register(b)
    PROVE  IInv'
  <1> DEFINE r == [NoRow EXCEPT !.status = "building"]
  <1>1. r \in RowTypes /\ r.status = "building" /\ r.image = 0 /\ r.lease = 0
        /\ r.session = "none" /\ r.accepted = "no"
    BY DEF NoRow, RowTypes
  <1>2. /\ row' \in [Builds -> RowTypes] /\ row'[b] = r
        /\ \A c \in Builds : c # b => row'[c] = row[c]
    BY <1>1, RowPut DEF IInv, Register
  <1>3. UNCHANGED <<leases, baked, secrets, changing, call, queue, worker, sweep, box, there, cut, upsets>>
    BY DEF Register, jobs, prov
  <1>4. row[b].status = "none" /\ trigger[b] = "none" /\ trigger' = [trigger EXCEPT ![b] = "registered"]
    BY DEF Register, To, Is, IInv, Unplanned
  <1> HIDE DEF r
  <1>5. Appears(b) /\ RowAges(b)
    BY <1>1, <1>2, <1>4 DEF RowAges, Appears, Early
  <1>6. TypeOK'
    BY <1>2, <1>3, <1>4 DEF IInv, TypeOK
  <1>7. Unplanned'
    BY <1>1, <1>2, <1>3, <1>4 DEF IInv, TypeOK, Unplanned, Early, Is
  <1>8. NoStaleEnvironmentSecrets'
    BY <1>2, <1>3, <1>4 DEF IInv, NoStaleEnvironmentSecrets, Unplanned, Is
  <1> QED
    BY <1>2, <1>3, <1>5, <1>6, <1>7, <1>8, RowSafe

LEMMA BindInv ==
    ASSUME IInv, NEW b \in Builds, Bind(b)
    PROVE  IInv'
  <1>1. row[b] \in RowTypes
    BY DEF IInv, TypeOK
  <1>2. UNCHANGED <<leases, baked, secrets, changing, call, queue, worker, sweep, box, there, cut, upsets>>
    BY DEF Bind, jobs, prov
  <1>3. /\ trigger[b] = "created"
        /\ \E to \in {"bound", "failing"} : trigger' = [trigger EXCEPT ![b] = to]
    BY DEF Bind, To
  <1>4. leases[b] = 0 /\ row[b].lease = 0 /\ row[b].accepted = "no"
    BY <1>1, <1>3 DEF IInv, Unplanned, Early, InOrder, RowTypes, TypeOK
  <1>5. /\ row' \in [Builds -> RowTypes]
        /\ \A c \in Builds : c # b => row'[c] = row[c]
        /\ row'[b].status = row[b].status /\ row'[b].image = row[b].image
        /\ row'[b].lease = row[b].lease /\ row'[b].expired = row[b].expired
        /\ row[b].status # "building" => row'[b] = row[b]
    <2>1. CASE row[b].status = "building"
      <3> DEFINE r == [row[b] EXCEPT !.session = "bound"]
      <3>1. r \in RowTypes /\ r.status = row[b].status /\ r.image = row[b].image
            /\ r.lease = row[b].lease /\ r.expired = row[b].expired
        BY <1>1 DEF RowTypes
      <3>2. Put(b, r)
        BY <2>1 DEF Bind, Is
      <3> HIDE DEF r
      <3> QED
        BY <2>1, <3>1, <3>2, RowPut DEF IInv
    <2>2. CASE row[b].status # "building"
      BY <2>2 DEF IInv, TypeOK, Bind, Is
    <2> QED
      BY <2>1, <2>2
  <1>6. TypeOK'
    BY <1>2, <1>3, <1>5 DEF IInv, TypeOK
  <1>7. Unplanned'
    BY <1>2, <1>3, <1>5 DEF IInv, TypeOK, Unplanned, Early, Is
  <1>8. NoStaleEnvironmentSecrets'
    BY <1>2, <1>5 DEF IInv, NoStaleEnvironmentSecrets, Is
  <1>9. RowAges(b)
    <2>1. CASE row[b].status = "building"
      BY <1>3, <1>4, <1>5, <2>1 DEF RowAges, Appears, Early, IInv, Unplanned, Free, Is, ImagesThere, InOrder
    <2>2. CASE row[b].status # "building"
      BY <1>5, <2>2 DEF RowAges, StatusAges, ImageAges, LeaseAges
    <2> QED
      BY <2>1, <2>2
  <1> QED
    BY <1>2, <1>5, <1>6, <1>7, <1>8, <1>9, RowSafe

(* Most only take it further: nothing of its plan changes.                 *)
LEMMA RowStep ==
    ASSUME IInv, TypeOK', NEW b \in Builds,
           UNCHANGED <<leases, worker, there, cut, baked, secrets, changing, queue>>,
           \/ trigger' = trigger
           \/ trigger[b] \notin Early /\ trigger' = [trigger EXCEPT ![b] = "over"],
           call' = call \/ (call' = call \cup {b} /\ trigger[b] \notin Early),
           \A c \in Builds : c # b => row'[c] = row[c],
           StatusAges(b), LeaseAges(b), ImageAges(b),
           sweep' = NoSweep \/ (sweep' = sweep /\ row'[b].image = row[b].image),
           row[b].session = "none" => row'[b].session = "none",
           trigger[b] \in Early => row'[b].accepted = row[b].accepted
    PROVE  IInv'
  <1>1. RowAges(b)
    BY DEF RowAges
  <1>2. Waning
    BY <1>1, OneRowAges
  <1>3. Unplanned'
    <2>1. \A c \in Builds : \/ trigger'[c] = trigger[c]
                            \/ trigger[c] \notin Early /\ trigger'[c] \notin Early
      BY DEF IInv, TypeOK, Early
    <2>2. \A c \in Builds : trigger[c] \in Early =>
              row'[c].session = row[c].session /\ row'[c].accepted = row[c].accepted
      BY DEF IInv, Unplanned
    <2>3. \A v \in Workers : worker'[v].at # "idle" => trigger[worker'[v].b] \notin Early
      BY Bound
    <2> QED
      BY <1>2, <2>1, <2>2, <2>3, PlanKept
  <1>4. NoStaleEnvironmentSecrets'
    BY <1>2, SecretsKept
  <1> QED
    BY <1>1, <1>3, <1>4, RowSafe

LEMMA FailedInv ==
    ASSUME IInv, NEW b \in Builds,
           StaleFails(b) \/ RestoreFails(b) \/ \E torn \in BOOLEAN : TriggerFails(b, torn)
    PROVE  IInv'
  <1>1. row[b] \in RowTypes
    BY DEF IInv, TypeOK
  <1>2. UNCHANGED <<leases, worker, there, cut, sweep, baked, secrets, changing, call, queue>>
    BY DEF StaleFails, RestoreFails, TriggerFails, plan, prov, jobs
  <1>3. \/ trigger' = trigger
        \/ trigger[b] \notin Early /\ trigger' = [trigger EXCEPT ![b] = "over"]
    BY DEF StaleFails, RestoreFails, TriggerFails, plan, To, Early
  <1>4. \/ row' = row
        \/ row[b].status \in {"building", "ready"} /\ Put(b, Failed(row[b]))
    BY DEF StaleFails, RestoreFails, TriggerFails, Is
  <1>5. /\ row' \in [Builds -> RowTypes]
        /\ \A c \in Builds : c # b => row'[c] = row[c]
        /\ row'[b].image = row[b].image /\ row'[b].session = row[b].session
        /\ row'[b].accepted = row[b].accepted
        /\ row'[b].lease = row[b].lease /\ row'[b].expired = row[b].expired
        /\ \/ row'[b].status = row[b].status
           \/ row[b].status \in {"building", "ready"} /\ row'[b].status = "failed"
    <2>1. CASE row' = row
      BY <2>1 DEF IInv, TypeOK
    <2>2. CASE row[b].status \in {"building", "ready"} /\ Put(b, Failed(row[b]))
      BY <1>1, <2>2, RowPut, RowChanges DEF IInv
    <2> QED
      BY <1>4, <2>1, <2>2
  <1>6. TypeOK'
    <2>1. box' \in [Builds -> {"none", "up", "down"}]
      BY DEF IInv, TypeOK, StaleFails, RestoreFails, TriggerFails, prov
    <2>2. upsets' \in 0..MaxUpsets
      <3>1. Upset \/ UNCHANGED upsets
        BY DEF StaleFails, RestoreFails, TriggerFails
      <3> QED
        BY <3>1, Upsets DEF IInv
    <2> QED
      BY <1>2, <1>3, <1>5, <2>1, <2>2 DEF IInv, TypeOK
  <1>7. StatusAges(b) /\ LeaseAges(b) /\ ImageAges(b)
    BY <1>5 DEF StatusAges, LeaseAges, ImageAges
  <1> QED
    BY <1>2, <1>3, <1>5, <1>6, <1>7, RowStep

LEMMA AcceptInv ==
    ASSUME IInv, NEW b \in Builds, NEW outcome \in {"success", "failure"}, Accept(b, outcome)
    PROVE  IInv'
  <1> DEFINE r == [row[b] EXCEPT !.accepted = outcome,
                                 !.status = IF outcome = "failure" THEN "failed" ELSE @]
  <1>1. row[b] \in RowTypes /\ row[b].status = "building"
    BY DEF IInv, TypeOK, Accept, Is
  <1>2. r \in RowTypes /\ r.image = row[b].image /\ r.session = row[b].session
        /\ r.lease = row[b].lease /\ r.expired = row[b].expired
        /\ r.status \in {"building", "failed"}
    BY <1>1 DEF RowTypes, Terminal
  <1>3. /\ row' \in [Builds -> RowTypes] /\ row'[b] = r
        /\ \A c \in Builds : c # b => row'[c] = row[c]
    BY <1>2, RowPut DEF IInv, Accept
  <1> HIDE DEF r
  <1>4. UNCHANGED <<leases, trigger, baked, secrets, changing, queue, worker, sweep, box, there, cut, upsets>>
        /\ call' = call \cup {b} /\ trigger[b] \notin Early
    BY DEF Accept, plan, prov, Early
  <1>5. TypeOK'
    BY <1>3, <1>4 DEF IInv, TypeOK
  <1>6. StatusAges(b) /\ LeaseAges(b) /\ ImageAges(b)
    BY <1>1, <1>2, <1>3 DEF StatusAges, LeaseAges, ImageAges
  <1> QED
    BY <1>2, <1>3, <1>4, <1>5, <1>6, RowStep

LEMMA LeaseExpiresInv ==
    ASSUME IInv, NEW b \in Builds, LeaseExpires(b)
    PROVE  IInv'
  <1> DEFINE r == [row[b] EXCEPT !.expired = TRUE]
  <1>1. row[b] \in RowTypes
    BY DEF IInv, TypeOK
  <1>2. r \in RowTypes /\ r.image = row[b].image /\ r.session = row[b].session
        /\ r.lease = row[b].lease /\ r.expired /\ r.status = row[b].status
        /\ r.accepted = row[b].accepted
    BY <1>1 DEF RowTypes
  <1>3. /\ row' \in [Builds -> RowTypes] /\ row'[b] = r
        /\ \A c \in Builds : c # b => row'[c] = row[c]
    BY <1>2, RowPut DEF IInv, LeaseExpires
  <1> HIDE DEF r
  <1>4. UNCHANGED <<leases, trigger, baked, secrets, changing, call, queue, worker, sweep, box, there, cut>>
    BY DEF LeaseExpires, plan, prov, jobs
  <1>5. TypeOK'
    <2>1. Upset \/ UNCHANGED upsets
      BY DEF LeaseExpires
    <2>2. upsets' \in 0..MaxUpsets
      BY <2>1, Upsets DEF IInv
    <2> QED
      BY <1>3, <1>4, <2>2 DEF IInv, TypeOK
  <1>6. StatusAges(b) /\ LeaseAges(b) /\ ImageAges(b)
    BY <1>2, <1>3 DEF StatusAges, LeaseAges, ImageAges
  <1> QED
    BY <1>2, <1>3, <1>4, <1>5, <1>6, RowStep

LEMMA DeleteOldInv ==
    ASSUME IInv, NEW b \in Builds, DeleteOld(b)
    PROVE  IInv'
  <1>1. Gone \in RowTypes /\ Gone.image = 0 /\ Gone.session = "none" /\ Gone.accepted = "no"
        /\ Gone.lease = 0 /\ Gone.status = "gone"
    BY DEF Gone, NoRow, RowTypes
  <1>2. /\ row' \in [Builds -> RowTypes] /\ row'[b] = Gone
        /\ \A c \in Builds : c # b => row'[c] = row[c]
    BY <1>1, RowPut DEF IInv, DeleteOld
  <1>3. UNCHANGED <<leases, trigger, baked, secrets, changing, call, queue, worker, sweep, box, there, cut, upsets>>
    BY DEF DeleteOld, plan, prov, jobs
  <1>4. TypeOK'
    BY <1>2, <1>3 DEF IInv, TypeOK
  <1>5. StatusAges(b) /\ LeaseAges(b) /\ ImageAges(b) /\ row'[b].image = row[b].image
    BY <1>1, <1>2 DEF StatusAges, LeaseAges, ImageAges, DeleteOld, Is
  <1>6. trigger[b] \in Early => row'[b].accepted = row[b].accepted
    BY <1>1, <1>2 DEF IInv, Unplanned
  <1> QED
    BY <1>1, <1>2, <1>3, <1>4, <1>5, <1>6, RowStep

(* The end of the maintenance of a row.                                    *)
LEMMA SweepCommitsInv ==
    ASSUME IInv, SweepCommits
    PROVE  IInv'
  <1> DEFINE b == sweep.b
  <1>1. b \in Builds /\ row[b] \in RowTypes
    BY DEF IInv, TypeOK, Maintenance
  <1>2. UNCHANGED <<leases, trigger, baked, secrets, changing, call, queue, worker, box, there, cut, upsets>>
        /\ sweep' = NoSweep
    BY DEF SweepCommits, plan, prov, jobs
  <1>3. PICK r \in RowTypes :
            /\ Put(b, r) /\ (row[b].session = "none" => r.session = "none")
            /\ r.accepted = row[b].accepted \/ (r.accepted = "no" /\ r.status = "gone")
            /\ \/ r.status = row[b].status /\ r.lease = row[b].lease /\ r.expired = row[b].expired
               \/ r.status = "gone" /\ row[b].status = "superseded" /\ r.lease = 0 /\ r.session = "none"
            /\ \/ r.image = row[b].image
               \/ /\ r.image = 0 /\ r.session = "none" /\ row[b].status \in {"failed", "superseded"}
                  /\ row[b].image \notin there[b]
    <2>1. CASE sweep.at = "clear"
      <3> DEFINE r == Cleared(row[b])
      <3>1. /\ r \in RowTypes /\ (row[b].session = "none" => r.session = "none")
            /\ r.accepted = row[b].accepted /\ r.image = row[b].image
            /\ r.status = row[b].status /\ r.lease = row[b].lease /\ r.expired = row[b].expired
        BY <1>1 DEF Cleared, RowTypes
      <3>2. Put(b, r)
        BY <2>1 DEF SweepCommits
      <3> HIDE DEF r
      <3> QED
        BY <3>1, <3>2
    <2>2. CASE /\ sweep.at = "commit" /\ row[b].status = "failed" /\ row[b].session # "bound"
               /\ sweep.image # 0 /\ row[b].image = sweep.image
      <3> DEFINE r == [row[b] EXCEPT !.image = 0, !.session = "none"]
      <3>1. /\ r \in RowTypes /\ r.session = "none" /\ r.accepted = row[b].accepted /\ r.image = 0
            /\ r.status = row[b].status /\ r.lease = row[b].lease /\ r.expired = row[b].expired
        BY <1>1 DEF RowTypes
      <3>2. Put(b, r)
        BY <2>2 DEF SweepCommits, Is
      <3>3. row[b].image \notin there[b]
        BY <2>2 DEF IInv, SweepOver
      <3> HIDE DEF r
      <3> QED
        BY <2>2, <3>1, <3>2, <3>3
    <2>3. CASE /\ sweep.at = "commit"
               /\ ~(/\ row[b].status = "failed" /\ row[b].session # "bound"
                    /\ sweep.image # 0 /\ row[b].image = sweep.image)
      <3>1. Put(b, WithoutImage(b, sweep.image))
        BY <2>3 DEF SweepCommits, Is
      <3>2. Gone \in RowTypes /\ Gone.image = 0 /\ Gone.session = "none" /\ Gone.accepted = "no"
            /\ Gone.lease = 0 /\ Gone.status = "gone"
        BY DEF Gone, NoRow, RowTypes
      <3>3. sweep.image \notin there[b]
        BY <2>3 DEF IInv, SweepOver
      <3> QED
        BY <1>1, <3>1, <3>2, <3>3 DEF WithoutImage, Is
    <2> QED
      BY <2>1, <2>2, <2>3 DEF SweepCommits
  <1>4. /\ row' \in [Builds -> RowTypes] /\ row'[b] = r
        /\ \A c \in Builds : c # b => row'[c] = row[c]
    BY <1>1, <1>3, RowPut DEF IInv
  <1>5. TypeOK'
    <2>1. NoSweep \in Maintenance
      BY ImageAssumption DEF NoSweep, Maintenance, Builds
    <2> QED
      BY <1>2, <1>4, <2>1 DEF IInv, TypeOK
  <1>6. StatusAges(b) /\ LeaseAges(b) /\ ImageAges(b)
    BY <1>2, <1>3, <1>4 DEF StatusAges, LeaseAges, ImageAges
  <1>7. trigger[b] \in Early => row'[b].accepted = row[b].accepted
    BY <1>1, <1>3, <1>4 DEF IInv, Unplanned
  <1> HIDE DEF b
  <1> QED
    BY <1>1, <1>2, <1>3, <1>4, <1>5, <1>6, <1>7, RowStep

LEMMA SweepDeletesInv ==
    ASSUME IInv, SweepDeletes
    PROVE  IInv'
  <1> DEFINE b == sweep.b
  <1>1. b \in Builds /\ sweep.at = "reap" /\ sweep.image \in Nat
    BY DEF IInv, TypeOK, Maintenance, SweepDeletes
  <1>2. UNCHANGED <<row, leases, trigger, baked, secrets, changing, call, queue, worker, box, cut, upsets>>
        /\ there' = [there EXCEPT ![b] = @ \ {sweep.image}] /\ sweep' = [sweep EXCEPT !.at = "commit"]
    BY DEF SweepDeletes, rows, plan, jobs
  <1>3. TypeOK'
    BY <1>2 DEF IInv, TypeOK, Maintenance
  <1>4. there'[b] = there[b] \ {sweep.image} /\ \A c \in Builds : c # b => there'[c] = there[c]
    BY <1>1, <1>2 DEF IInv, TypeOK
  <1>5. /\ sweep'.at = "commit" /\ sweep'.b = b /\ sweep'.image = sweep.image
    BY <1>2 DEF IInv, TypeOK, Maintenance
  <1>6. Waning
    <2>1. row[b].status \notin {"none", "building", "ready"}
      BY <1>1 DEF IInv, SweepOver
    <2> QED
      BY <1>2, <1>4, <2>1 DEF Waning, ArtifactsGo, Rests, RowAges, StatusAges, ImageAges, LeaseAges
  <1>7. Unplanned' /\ NoStaleEnvironmentSecrets'
    BY <1>2 DEF IInv, Unplanned, NoStaleEnvironmentSecrets, Is
  <1>8. SweepOver'
    BY <1>1, <1>2, <1>4, <1>5 DEF IInv, SweepOver, Is
  <1>9. OldOver'
    BY <1>2, <1>6, OldKept DEF IInv, OldOver
  <1>10. NoneForgotten'
    BY <1>2, <1>6, AllKnown
  <1> QED
    BY <1>3, <1>6, <1>7, <1>8, <1>9, <1>10, WaningLeases, WaningWork, WaningArtifacts DEF IInv

(* The invalidation of the images that hold older secrets.                 *)
LEMMA SupersedeInv ==
    ASSUME IInv, Supersede
    PROVE  IInv'
  <1>1. UNCHANGED <<leases, trigger, baked, secrets, call, queue, worker, sweep, box, there, cut, upsets>>
        /\ changing' = FALSE
    BY DEF Supersede, jobs, prov
  <1>2. ASSUME NEW c \in Builds
        PROVE  /\ row'[c] \in RowTypes
               /\ \/ row[c].status \in {"building", "ready"} /\ row'[c].status = "superseded"
                  \/ row[c].status \notin {"building", "ready"} /\ row'[c].status = row[c].status
               /\ row'[c].image = row[c].image /\ row'[c].session = row[c].session
               /\ row'[c].accepted = row[c].accepted
               /\ row'[c].lease = row[c].lease /\ row'[c].expired = row[c].expired
    <2>1. row[c] \in RowTypes
      BY DEF IInv, TypeOK
    <2>2. row'[c] = IF row[c].status \in {"building", "ready"}
                    THEN [row[c] EXCEPT !.status = "superseded"] ELSE row[c]
      BY DEF Supersede
    <2> QED
      BY <2>1, <2>2 DEF RowTypes, Terminal
  <1>3. TypeOK'
    <2>1. row' = [c \in Builds |-> row'[c]]
      BY DEF Supersede
    <2>2. row' \in [Builds -> RowTypes]
      BY <1>2, <2>1
    <2> QED
      BY <1>1, <2>2 DEF IInv, TypeOK
  <1>4. Waning
    BY <1>1, <1>2 DEF Waning, ArtifactsGo, Rests, RowAges, StatusAges, ImageAges, LeaseAges
  <1>5. Unplanned'
    BY <1>1, <1>2 DEF IInv, Unplanned, Is
  <1>6. NoStaleEnvironmentSecrets'
    BY <1>2 DEF NoStaleEnvironmentSecrets
  <1>7. OldOver'
    BY <1>1, <1>4, OldKept DEF IInv, OldOver
  <1>8. SweepOver'
    BY <1>1, <1>2, <1>4, SweepKept
  <1>9. NoneForgotten'
    BY <1>1, <1>4, AllKnown
  <1> QED
    BY <1>3, <1>4, <1>5, <1>6, <1>7, <1>8, <1>9, WaningLeases, WaningWork, WaningArtifacts DEF IInv

-----------------------------------------------------------------------------
(* Steps of one delivery that begin no attempt and name no artifact.       *)
LEMMA WorkStep ==
    ASSUME IInv, TypeOK', Waning, NEW w \in Workers,
           UNCHANGED <<trigger, baked, secrets, changing, call, sweep>>,
           queue' \subseteq queue \cup {c \in Builds : trigger[c] \notin Early},
           cut \subseteq cut',
           \A c \in Builds :
               /\ row'[c].image = row[c].image \/ (row'[c].status = "gone" /\ row'[c].session = "none")
               /\ trigger[c] \in Early => row'[c].session = row[c].session /\ row'[c].accepted = row[c].accepted,
           \A v \in Workers : v # w => worker'[v] = worker[v],
           worker'[w].at # "idle" => trigger[worker'[w].b] \notin Early,
           worker'[w].old = {} \/ OldOver',
           worker[w].at \in Making =>
               \/ worker[w].lease \notin there'[worker[w].b]
               \/ row'[worker[w].b].image = worker[w].lease \/ worker[w].b \in cut'
               \/ worker'[w].at \in Making /\ worker'[w].b = worker[w].b /\ worker'[w].lease = worker[w].lease
    PROVE  IInv'
  <1>1. Unplanned'
    <2>1. \A v \in Workers : worker'[v].at # "idle" => trigger[worker'[v].b] \notin Early
      BY Bound
    <2> QED
      BY <2>1, PlanKept
  <1>2. NoStaleEnvironmentSecrets'
    BY SecretsKept
  <1>3. OldOver'
    BY OldKept
  <1>4. SweepOver'
    BY SweepKept
  <1>5. NoneForgotten'
    BY AllKnown
  <1> QED
    BY <1>1, <1>2, <1>3, <1>4, <1>5, WaningLeases, WaningWork, WaningArtifacts DEF IInv

(* Most touch no other build than their own.                               *)
LEMMA OwnStep ==
    ASSUME IInv, NEW w \in Workers, worker[w].at # "idle", NEW b \in Builds, b = worker[w].b,
           UNCHANGED <<leases, trigger, baked, secrets, changing, call, there, sweep>>,
           queue' \in {queue, queue \cup {b}}, cut' \in {cut, cut \cup {b}},
           box' \in [Builds -> {"none", "up", "down"}], upsets' \in 0..MaxUpsets,
           worker' \in [Workers -> Deliveries], row' \in [Builds -> RowTypes],
           \A c \in Builds : c # b => row'[c] = row[c],
           StatusAges(b), LeaseAges(b), row'[b].image = row[b].image,
           row[b].session = "none" => row'[b].session = "none",
           \A v \in Workers : v # w => worker'[v] = worker[v],
           Rests(w), worker'[w].at # "idle" => worker'[w].b = b,
           worker'[w].old = {} \/ OldOver',
           worker[w].at \in Making =>
               \/ row'[b].image = worker[w].lease \/ b \in cut'
               \/ worker'[w].at \in Making /\ worker'[w].b = b /\ worker'[w].lease = worker[w].lease
    PROVE  IInv'
  <1>1. trigger[b] \notin Early
    BY Bound
  <1>2. RowAges(b)
    BY DEF RowAges, ImageAges
  <1>3. Waning
    BY <1>2, OneRests
  <1>4. TypeOK'
    BY DEF IInv, TypeOK
  <1>5. \A c \in Builds :
            /\ row'[c].image = row[c].image \/ (row'[c].status = "gone" /\ row'[c].session = "none")
            /\ trigger[c] \in Early => row'[c].session = row[c].session /\ row'[c].accepted = row[c].accepted
    BY <1>1
  <1>6. queue' \subseteq queue \cup {c \in Builds : trigger[c] \notin Early} /\ cut \subseteq cut'
    BY <1>1
  <1> QED
    BY <1>1, <1>3, <1>4, <1>5, <1>6, WorkStep

LEMMA RetriedLeaves ==
    ASSUME IInv, NEW w \in Workers, Retried(w)
    PROVE  /\ queue' \in {queue, queue \cup {worker[w].b}}
           /\ worker' \in [Workers -> Deliveries]
           /\ worker'[w].at = "idle" /\ worker'[w].old = {}
           /\ \A v \in Workers : v # w => worker'[v] = worker[v]
  BY WorkerEnds DEF IInv, Retried

(* Of these, some leave the rows alone.                                    *)
LEMMA RowsStay ==
    ASSUME UNCHANGED row, NEW b \in Builds
    PROVE  StatusAges(b) /\ LeaseAges(b) /\ \A c \in Builds : row'[c] = row[c]
  BY DEF StatusAges, LeaseAges

LEMMA GoesOnInv ==
    ASSUME IInv, NEW w \in Workers, worker[w].at # "idle", NEW to \in Phases, Go(w, to),
           UNCHANGED <<row, leases, trigger, baked, secrets, changing, call, queue, there, cut, sweep>>,
           box' \in [Builds -> {"none", "up", "down"}], upsets' \in 0..MaxUpsets,
           Goes(w) \/ to = "cleanup" \/ to = "clear", worker[w].old = {},
           worker[w].at \in Making => to \in Making \/ row[worker[w].b].image = worker[w].lease
    PROVE  IInv'
  <1> DEFINE b == worker[w].b
  <1>1. b \in Builds /\ b = worker[w].b
    BY DEF IInv, TypeOK, Deliveries
  <1> HIDE DEF b
  <1>2. /\ worker' \in [Workers -> Deliveries]
        /\ worker'[w].at = to /\ worker'[w].b = b /\ worker'[w].lease = worker[w].lease
        /\ worker'[w].old = {}
        /\ \A v \in Workers : v # w => worker'[v] = worker[v]
    BY <1>1, WorkerGoes DEF IInv
  <1>3. Rests(w)
    BY <1>2 DEF Rests
  <1>4. row' \in [Builds -> RowTypes]
    BY DEF IInv, TypeOK
  <1> QED
    BY <1>1, <1>2, <1>3, <1>4, RowsStay, OwnStep

(* Or they give up.                                                        *)
LEMMA RetriedInv ==
    ASSUME IInv, NEW w \in Workers, worker[w].at # "idle", Retried(w),
           UNCHANGED <<row, leases, trigger, baked, secrets, changing, call, there, sweep>>,
           cut' \in {cut, cut \cup {worker[w].b}},
           box' \in [Builds -> {"none", "up", "down"}], upsets' \in 0..MaxUpsets,
           worker[w].at \in Making => worker[w].b \in cut'
    PROVE  IInv'
  <1> DEFINE b == worker[w].b
  <1>1. b \in Builds /\ b = worker[w].b
    BY DEF IInv, TypeOK, Deliveries
  <1> HIDE DEF b
  <1>2. Rests(w)
    BY RetriedLeaves DEF Rests
  <1>3. row' \in [Builds -> RowTypes]
    BY DEF IInv, TypeOK
  <1> QED
    BY <1>1, <1>2, <1>3, RetriedLeaves, RowsStay, OwnStep

LEMMA ClaimedEndsInv ==
    ASSUME IInv, NEW w \in Workers, Claimed(w), worker'[w].at # "attempt"
    PROVE  IInv'
  <1> DEFINE b == worker[w].b
  <1>1. UNCHANGED <<row, leases, trigger, baked, secrets, changing, call, box, there, cut, sweep, upsets>>
        /\ worker[w].at = "claimed"
    BY DEF Claimed, rows, plan, prov
  <1>2. box' \in [Builds -> {"none", "up", "down"}] /\ upsets' \in 0..MaxUpsets
    BY <1>1 DEF IInv, TypeOK
  <1>3. CASE Retried(w)
    BY <1>1, <1>2, <1>3, RetriedInv DEF Making
  <1>4. CASE \E to \in {"publish", "fail", "attempt"} :
               Go(w, to) /\ UNCHANGED queue /\ (to = "publish" => row[b].image # 0)
    <2>1. PICK to \in {"publish", "fail", "attempt"} :
               Go(w, to) /\ UNCHANGED queue /\ (to = "publish" => row[b].image # 0)
      BY <1>4
    <2>2. to \in Phases
      BY DEF Phases
    <2>3. /\ worker'[w].b = worker[w].b /\ worker'[w].lease = worker[w].lease
          /\ worker'[w].at = to
      <3>1. Go(w, to) /\ TypeOK
        BY <2>1 DEF IInv
      <3> QED
        BY <2>2, <3>1, WorkerGoes
    <2>4. Goes(w)
      BY <1>1, <2>1, <2>3 DEF Goes, Leased
    <2>5. worker[w].old = {}
      BY <1>1 DEF IInv, OldOver
    <2> QED
      BY <1>1, <1>2, <2>1, <2>2, <2>4, <2>5, GoesOnInv DEF Making
  <1> QED
    BY <1>3, <1>4 DEF Claimed

LEMMA RereadInv ==
    ASSUME IInv, NEW w \in Workers, Reread(w)
    PROVE  IInv'
  <1> DEFINE b == worker[w].b
             to == IF row[b].image = worker[w].lease THEN "publish" ELSE "compensate"
  <1>1. UNCHANGED <<row, leases, trigger, baked, secrets, changing, call, queue, box, there, cut, sweep, upsets>>
        /\ worker[w].at = "reread" /\ Go(w, to)
    BY DEF Reread, rows, plan, prov, jobs
  <1>2. box' \in [Builds -> {"none", "up", "down"}] /\ upsets' \in 0..MaxUpsets /\ to \in Phases
    BY <1>1 DEF IInv, TypeOK, Phases
  <1>3. /\ worker'[w].b = b /\ worker'[w].lease = worker[w].lease /\ worker'[w].at = to
    BY <1>1, <1>2, WorkerGoes DEF IInv
  <1>4. worker[w].lease # 0 /\ worker[w].old = {}
    BY <1>1 DEF IInv, OldOver, InOrder, Leased
  <1>5. Goes(w)
    BY <1>1, <1>3, <1>4 DEF Goes, Leased, Making
  <1>6. to \in Making \/ row[b].image = worker[w].lease
    BY DEF Making
  <1>7. worker[w].at # "idle"
    BY <1>1
  <1> HIDE DEF to
  <1> QED
    BY <1>1, <1>2, <1>4, <1>5, <1>6, <1>7, GoesOnInv

LEMMA RefusedInv ==
    ASSUME IInv, NEW w \in Workers, Refused(w)
    PROVE  IInv'
  <1> DEFINE b == worker[w].b
             to == IF row[b].status = "building" THEN "release" ELSE "cleanup"
  <1>1. UNCHANGED <<row, leases, trigger, baked, secrets, changing, call, queue, box, there, cut, sweep, upsets>>
        /\ worker[w].at = "refused" /\ Go(w, to)
    BY DEF Refused, rows, plan, prov, jobs, Is
  <1>2. box' \in [Builds -> {"none", "up", "down"}] /\ upsets' \in 0..MaxUpsets /\ to \in Phases
    BY <1>1 DEF IInv, TypeOK, Phases
  <1>3. /\ worker'[w].b = b /\ worker'[w].lease = worker[w].lease /\ worker'[w].at = to
    BY <1>1, <1>2, WorkerGoes DEF IInv
  <1>4. worker[w].old = {} /\ (row[b].status = "building" => row[b].image # 0)
    BY <1>1 DEF IInv, OldOver, AtHand, Is
  <1>5. Goes(w) \/ to = "cleanup"
    BY <1>1, <1>3, <1>4 DEF Goes, Leased
  <1>6. worker[w].at # "idle" /\ worker[w].at \notin Making
    BY <1>1 DEF Making
  <1> HIDE DEF to
  <1> QED
    BY <1>1, <1>2, <1>4, <1>5, <1>6, GoesOnInv

LEMMA CleanupInv ==
    ASSUME IInv, NEW w \in Workers, Cleanup(w)
    PROVE  IInv'
  <1>1. UNCHANGED <<row, leases, trigger, baked, secrets, changing, call, there, cut, sweep>>
        /\ worker[w].at = "cleanup"
    BY DEF Cleanup, rows, plan
  <1>2. box' \in [Builds -> {"none", "up", "down"}]
    BY DEF IInv, TypeOK, Cleanup
  <1>3. upsets' \in 0..MaxUpsets
    <2>1. Upset \/ UNCHANGED upsets
      BY DEF Cleanup
    <2> QED
      BY <2>1, Upsets DEF IInv
  <1>4. worker[w].at # "idle" /\ worker[w].at \notin Making /\ worker[w].old = {}
    BY <1>1 DEF Making, IInv, OldOver
  <1>5. CASE Retried(w)
    BY <1>1, <1>2, <1>3, <1>4, <1>5, RetriedInv
  <1>6. CASE Go(w, "clear") /\ UNCHANGED queue
    <2>1. "clear" \in Phases
      BY DEF Phases
    <2> QED
      BY <1>1, <1>2, <1>3, <1>4, <1>6, <2>1, GoesOnInv
  <1>7. Retried(w) \/ (Go(w, "clear") /\ UNCHANGED queue)
    BY DEF Cleanup, Retried
  <1> QED
    BY <1>5, <1>6, <1>7

LEMMA CompensateInv ==
    ASSUME IInv, NEW w \in Workers, Compensate(w)
    PROVE  IInv'
  <1> DEFINE b == worker[w].b
  <1>1. UNCHANGED <<row, leases, trigger, baked, secrets, changing, call, queue, box, cut, sweep>>
        /\ worker[w].at = "compensate"
    BY DEF Compensate, rows, plan, jobs
  <1>2. b \in Builds /\ worker[w].lease \in Nat \ {0} /\ worker[w].old = {} /\ row[b].image # worker[w].lease
    BY <1>1 DEF IInv, OldOver, InOrder, Leased, AtHand, TypeOK, Deliveries
  <1>3. Alone(w) /\ there[b] \subseteq {worker[w].lease}
    BY <1>1 DEF IInv, Recording, Making
  <1>4. upsets' \in 0..MaxUpsets
    <2>1. Upset \/ UNCHANGED upsets
      BY DEF Compensate
    <2> QED
      BY <2>1, Upsets DEF IInv
  <1>5. CASE Go(w, "quarantine") /\ UNCHANGED there
    <2>1. "quarantine" \in Phases
      BY DEF Phases
    <2>2. /\ worker'[w].b = b /\ worker'[w].lease = worker[w].lease /\ worker'[w].at = "quarantine"
      BY <1>5, <2>1, WorkerGoes DEF IInv
    <2>3. Goes(w)
      BY <1>1, <1>2, <2>2 DEF Goes, Leased, Making
    <2>4. box' \in [Builds -> {"none", "up", "down"}] /\ worker[w].at # "idle" /\ "quarantine" \in Making
      BY <1>1 DEF IInv, TypeOK, Making
    <2> QED
      BY <1>1, <1>2, <1>4, <1>5, <2>1, <2>3, <2>4, GoesOnInv
  <1>6. ASSUME NEW at \in {"release", "quarantine"}, Go(w, at),
               there' = [there EXCEPT ![b] = @ \ {worker[w].lease}]
        PROVE  IInv'
    <2>1. at \in Phases
      BY DEF Phases
    <2>2. /\ worker' \in [Workers -> Deliveries]
          /\ worker'[w].b = b /\ worker'[w].lease = worker[w].lease /\ worker'[w].at = at
          /\ worker'[w].old = {} /\ \A v \in Workers : v # w => worker'[v] = worker[v]
      BY <1>2, <1>6, <2>1, WorkerGoes DEF IInv
    <2>3. there' \in [Builds -> SUBSET Nat] /\ there'[b] = {} /\ \A c \in Builds : c # b => there'[c] = there[c]
      BY <1>2, <1>3, <1>6 DEF IInv, TypeOK
    <2>4. at = "release" => Nobody(b)'
      BY <1>3, <2>2 DEF Nobody, Alone, Active, Making
    <2>5. Goes(w)
      BY <1>1, <1>2, <2>2, <2>3, <2>4 DEF Goes, Leased, Making
    <2>6. ArtifactsGo
      <3>1. \A v \in Workers : worker[v].b = b => worker'[v].at # "record"
        BY <1>3, <2>2 DEF Alone, Active, Making
      <3>2. there'[b] \subseteq there[b] /\ there[b] \ there'[b] \subseteq {worker[w].lease}
        BY <1>3, <2>3
      <3> QED
        BY <1>2, <2>3, <3>1, <3>2 DEF ArtifactsGo
    <2>7. Waning
      BY <1>1, <2>2, <2>5, <2>6 DEF Waning, Rests, RowAges, StatusAges, ImageAges, LeaseAges
    <2>8. TypeOK'
      BY <1>1, <1>4, <2>2, <2>3 DEF IInv, TypeOK
    <2>9. trigger[b] \notin Early
      BY <1>1, Bound
    <2> QED
      BY <1>1, <2>2, <2>3, <2>7, <2>8, <2>9, WorkStep
  <1> QED
    BY <1>5, <1>6 DEF Compensate

LEMMA ClearInv ==
    ASSUME IInv, NEW w \in Workers, Clear(w)
    PROVE  IInv'
  <1> DEFINE b == worker[w].b
             r == Cleared(row[b])
  <1>1. UNCHANGED <<leases, trigger, baked, secrets, changing, call, queue, box, there, cut, sweep, upsets>>
        /\ worker[w].at = "clear" /\ Acked(w) /\ Put(b, r)
    BY DEF Clear, plan, prov, jobs
  <1>2. b \in Builds /\ b = worker[w].b /\ row[b] \in RowTypes
    BY DEF IInv, TypeOK, Deliveries
  <1>3. /\ r \in RowTypes /\ (row[b].session = "none" => r.session = "none") /\ r.image = row[b].image
        /\ r.status = row[b].status /\ r.lease = row[b].lease /\ r.expired = row[b].expired
    BY <1>2 DEF Cleared, RowTypes
  <1> HIDE DEF r, b
  <1>4. /\ row' \in [Builds -> RowTypes] /\ row'[b] = r
        /\ \A c \in Builds : c # b => row'[c] = row[c]
    BY <1>1, <1>2, <1>3, RowPut DEF IInv
  <1>5. /\ worker' \in [Workers -> Deliveries] /\ worker'[w].at = "idle" /\ worker'[w].old = {}
        /\ \A v \in Workers : v # w => worker'[v] = worker[v]
    BY <1>1, WorkerEnds DEF IInv
  <1>6. StatusAges(b) /\ LeaseAges(b) /\ Rests(w)
    BY <1>3, <1>4, <1>5 DEF StatusAges, LeaseAges, Rests
  <1>7. box' \in [Builds -> {"none", "up", "down"}] /\ upsets' \in 0..MaxUpsets /\ worker[w].at \notin Making \cup {"idle"}
    BY <1>1 DEF IInv, TypeOK, Making
  <1> QED
    BY <1>1, <1>2, <1>3, <1>4, <1>5, <1>6, <1>7, OwnStep

LEMMA ReleaseInv ==
    ASSUME IInv, NEW w \in Workers, Release(w)
    PROVE  IInv'
  <1> DEFINE b == worker[w].b
  <1>1. UNCHANGED <<leases, trigger, baked, secrets, changing, call, box, there, cut, sweep, upsets>>
        /\ worker[w].at = "release" /\ Retried(w)
    BY DEF Release, plan, prov
  <1>2. b \in Builds /\ b = worker[w].b /\ row[b] \in RowTypes
    BY DEF IInv, TypeOK, Deliveries
  <1>3. /\ row' \in [Builds -> RowTypes] /\ \A c \in Builds : c # b => row'[c] = row[c]
        /\ row'[b].image = row[b].image /\ row'[b].session = row[b].session
        /\ row'[b].status = row[b].status
        /\ \/ row'[b] = row[b]
           \/ row[b].lease = worker[w].lease /\ row'[b].lease = 0
    <2>1. CASE Owns(w)
      <3>1. Put(b, Unleased(row[b]))
        BY <2>1 DEF Release
      <3> QED
        BY <1>2, <2>1, <3>1, RowPut, RowChanges DEF IInv, Owns
    <2>2. CASE ~Owns(w)
      BY <2>2 DEF IInv, TypeOK, Release
    <2> QED
      BY <2>1, <2>2
  <1>4. LeaseAges(b)
    <2>1. row[b].lease = worker[w].lease /\ row[b].image = 0 /\ row[b].status = "building" =>
              Nobody(b) /\ there[b] = {}
      BY <1>1 DEF IInv, Fresh, Owns, Is
    <2> QED
      BY <1>3, <2>1 DEF LeaseAges
  <1>5. StatusAges(b) /\ Rests(w)
    BY <1>1, <1>3, RetriedLeaves DEF StatusAges, Rests
  <1>6. box' \in [Builds -> {"none", "up", "down"}] /\ upsets' \in 0..MaxUpsets /\ worker[w].at \notin Making \cup {"idle"}
    BY <1>1 DEF IInv, TypeOK, Making
  <1> HIDE DEF b
  <1> QED
    BY <1>1, <1>2, <1>3, <1>4, <1>5, <1>6, RetriedLeaves, OwnStep

LEMMA FailInv ==
    ASSUME IInv, NEW w \in Workers, Fail(w)
    PROVE  IInv'
  <1> DEFINE b == worker[w].b
  <1>1. UNCHANGED <<leases, trigger, baked, secrets, changing, call, queue, box, there, cut, sweep, upsets>>
        /\ worker[w].at = "fail" /\ Go(w, "cleanup")
    BY DEF Fail, plan, prov, jobs
  <1>2. b \in Builds /\ b = worker[w].b /\ row[b] \in RowTypes
    BY DEF IInv, TypeOK, Deliveries
  <1>3. /\ row' \in [Builds -> RowTypes] /\ \A c \in Builds : c # b => row'[c] = row[c]
        /\ row'[b].image = row[b].image /\ row'[b].session = row[b].session
        /\ \/ row'[b] = row[b]
           \/ row[b].status = "building" /\ row'[b].status = "failed" /\ row'[b].lease = 0
    <2>1. CASE row[b].status = "building" /\ Owns(w)
      <3>1. Put(b, Unleased(Failed(row[b])))
        BY <2>1 DEF Fail, Is
      <3>2. Failed(row[b]) \in RowTypes /\ Unleased(Failed(row[b])) \in RowTypes
        BY <1>2, RowChanges
      <3> QED
        BY <1>2, <2>1, <3>1, <3>2, RowPut, RowChanges DEF IInv
    <2>2. CASE ~(row[b].status = "building" /\ Owns(w))
      BY <2>2 DEF IInv, TypeOK, Fail, Is
    <2> QED
      BY <2>1, <2>2
  <1>4. "cleanup" \in Phases /\ worker[w].old = {}
    BY <1>1 DEF Phases, IInv, OldOver
  <1>5. /\ worker' \in [Workers -> Deliveries] /\ worker'[w].at = "cleanup" /\ worker'[w].old = {}
        /\ worker'[w].b = b /\ \A v \in Workers : v # w => worker'[v] = worker[v]
    BY <1>1, <1>4, WorkerGoes DEF IInv
  <1>6. StatusAges(b) /\ LeaseAges(b) /\ Rests(w)
    BY <1>3, <1>5 DEF StatusAges, LeaseAges, Rests
  <1>7. box' \in [Builds -> {"none", "up", "down"}] /\ upsets' \in 0..MaxUpsets /\ worker[w].at \notin Making \cup {"idle"}
    BY <1>1 DEF IInv, TypeOK, Making
  <1> HIDE DEF b
  <1> QED
    BY <1>1, <1>2, <1>3, <1>5, <1>6, <1>7, OwnStep

LEMMA PublishInv ==
    ASSUME IInv, NEW w \in Workers, Publish(w)
    PROVE  IInv'
  <1> DEFINE b == worker[w].b
  <1>1. UNCHANGED <<leases, trigger, baked, secrets, changing, call, queue, box, there, cut, sweep, upsets>>
        /\ worker[w].at = "publish"
    BY DEF Publish, plan, prov, jobs
  <1>2. b \in Builds /\ b = worker[w].b /\ row[b] \in RowTypes /\ worker[w].old = {}
    BY <1>1 DEF IInv, TypeOK, Deliveries, OldOver
  <1>3. row[b].status = "building" => row[b].image # 0
    BY <1>1 DEF IInv, AtHand, Is
  <1>4. box' \in [Builds -> {"none", "up", "down"}] /\ upsets' \in 0..MaxUpsets /\ worker[w].at \notin Making \cup {"idle"}
    BY <1>1 DEF IInv, TypeOK, Making
  <1>5. CASE row[b].status = "building" /\ Owns(w)
    <2>1. PICK status \in {"superseded", "ready"} : Put(b, Unleased([row[b] EXCEPT !.status = status]))
      BY <1>5 DEF Publish, Is
    <2>2. PICK to \in {"reap", "replace"} : Go(w, to)
      BY <1>5 DEF Publish, Is
    <2> DEFINE r == [row[b] EXCEPT !.status = status]
    <2>3. r \in RowTypes /\ r.status = status /\ r.image = row[b].image /\ r.session = row[b].session
      BY <1>2 DEF RowTypes, Terminal
    <2>4. Put(b, Unleased(r))
      BY <2>1
    <2> HIDE DEF r
    <2>5. /\ row' \in [Builds -> RowTypes] /\ \A c \in Builds : c # b => row'[c] = row[c]
          /\ row'[b].image = row[b].image /\ row'[b].session = row[b].session
          /\ row'[b].status = status /\ row'[b].lease = 0
      BY <1>2, <2>3, <2>4, RowPut, RowChanges DEF IInv
    <2>6. to \in Phases
      BY DEF Phases
    <2>7. /\ worker' \in [Workers -> Deliveries] /\ worker'[w].at = to /\ worker'[w].old = {}
          /\ worker'[w].b = b /\ worker'[w].lease = worker[w].lease
          /\ \A v \in Workers : v # w => worker'[v] = worker[v]
      BY <1>2, <2>2, <2>6, WorkerGoes DEF IInv
    <2>8. StatusAges(b) /\ LeaseAges(b) /\ Rests(w)
      BY <1>1, <1>3, <1>5, <2>5, <2>7 DEF StatusAges, LeaseAges, Rests, Goes, Leased
    <2> HIDE DEF b
    <2> QED
      BY <1>1, <1>2, <1>4, <2>5, <2>7, <2>8, OwnStep
  <1>6. CASE ~(row[b].status = "building" /\ Owns(w))
    <2>1. Go(w, "refused") /\ UNCHANGED row
      BY <1>6 DEF Publish, Is
    <2>2. "refused" \in Phases
      BY DEF Phases
    <2>3. worker'[w].b = b /\ worker'[w].lease = worker[w].lease /\ worker'[w].at = "refused"
      BY <2>1, <2>2, WorkerGoes DEF IInv
    <2>4. Goes(w)
      BY <1>1, <1>3, <2>1, <2>3 DEF Goes, Leased
    <2> QED
      BY <1>1, <1>2, <1>4, <2>1, <2>2, <2>4, GoesOnInv
  <1> QED
    BY <1>5, <1>6

LEMMA ReplaceInv ==
    ASSUME IInv, NEW w \in Workers, Replace(w)
    PROVE  IInv'
  <1> DEFINE b == worker[w].b
             older == {c \in 1..(b - 1) : row[c].status = "ready"}
             to == IF older = {} THEN "cleanup" ELSE "supersede"
             old == {<<c, row[c].image>> : c \in older}
  <1>1. UNCHANGED <<row, leases, trigger, baked, secrets, changing, call, queue, box, there, cut, sweep, upsets>>
        /\ worker[w].at = "replace"
    BY DEF Replace, rows, plan, prov, jobs
  <1>2. b \in Builds /\ b = worker[w].b /\ worker[w] \in Deliveries /\ worker \in [Workers -> Deliveries]
    BY DEF IInv, TypeOK, Deliveries
  <1>3. older \subseteq Builds
    BY <1>2, ImageAssumption DEF Builds
  <1>4. old \in SUBSET (Builds \X Nat)
    BY <1>3 DEF IInv, TypeOK, RowTypes
  <1>5. worker' = [worker EXCEPT ![w].at = to, ![w].old = old]
    BY DEF Replace, Is
  <1>6. to \in {"cleanup", "supersede"} /\ (to = "cleanup" => old = {})
    OBVIOUS
  <1>7. \A o \in old : row[o[1]].status = "ready" /\ row[o[1]].image = o[2]
    OBVIOUS
  <1> HIDE DEF old, to, older
  <1>8. /\ worker' \in [Workers -> Deliveries] /\ worker'[w].at = to /\ worker'[w].old = old
        /\ worker'[w].b = b /\ worker'[w].lease = worker[w].lease
        /\ \A v \in Workers : v # w => worker'[v] = worker[v]
    BY <1>2, <1>4, <1>5, <1>6 DEF Deliveries, Phases
  <1>9. OldOver'
    BY <1>1, <1>6, <1>7, <1>8 DEF IInv, OldOver, Is
  <1>10. Rests(w)
    BY <1>1, <1>6, <1>8 DEF Rests, Goes, Leased
  <1>11. row' \in [Builds -> RowTypes] /\ box' \in [Builds -> {"none", "up", "down"}] /\ upsets' \in 0..MaxUpsets
         /\ worker[w].at \notin Making \cup {"idle"}
    BY <1>1 DEF IInv, TypeOK, Making
  <1> HIDE DEF b
  <1> QED
    BY <1>1, <1>2, <1>8, <1>9, <1>10, <1>11, RowsStay, OwnStep

LEMMA SupersedeOlderInv ==
    ASSUME IInv, NEW w \in Workers, SupersedeOlder(w)
    PROVE  IInv'
  <1>1. UNCHANGED <<leases, trigger, baked, secrets, changing, call, queue, box, there, cut, sweep, upsets>>
        /\ worker[w].at = "supersede" /\ Go(w, "reap")
    BY DEF SupersedeOlder, plan, prov, jobs
  <1>2. "reap" \in Phases
    BY DEF Phases
  <1>3. /\ worker' \in [Workers -> Deliveries] /\ worker'[w].at = "reap" /\ worker'[w].old = worker[w].old
        /\ worker'[w].b = worker[w].b /\ worker'[w].lease = worker[w].lease
        /\ \A v \in Workers : v # w => worker'[v] = worker[v]
    BY <1>1, <1>2, WorkerGoes DEF IInv
  <1>4. ASSUME NEW c \in Builds
        PROVE  /\ row'[c] \in RowTypes
               /\ \/ row[c].status = "ready" /\ row'[c].status = "superseded"
                  \/ row'[c].status = row[c].status
               /\ row'[c].image = row[c].image /\ row'[c].session = row[c].session
               /\ row'[c].accepted = row[c].accepted
               /\ row'[c].lease = row[c].lease /\ row'[c].expired = row[c].expired
               /\ <<c, row[c].image>> \in worker[w].old /\ row[c].status = "ready" =>
                      row'[c].status = "superseded"
    <2>1. row[c] \in RowTypes
      BY DEF IInv, TypeOK
    <2>2. row'[c] = IF <<c, row[c].image>> \in worker[w].old /\ row[c].status = "ready"
                    THEN [row[c] EXCEPT !.status = "superseded"] ELSE row[c]
      BY DEF SupersedeOlder, Is
    <2> QED
      BY <2>1, <2>2 DEF RowTypes, Terminal
  <1>5. TypeOK'
    <2>1. row' = [c \in Builds |-> row'[c]]
      BY DEF SupersedeOlder
    <2>2. row' \in [Builds -> RowTypes]
      BY <1>4, <2>1
    <2> QED
      BY <1>1, <1>3, <2>2 DEF IInv, TypeOK
  <1>6. Rests(w)
    BY <1>1, <1>3 DEF Rests, Goes, Leased
  <1>7. Waning
    BY <1>1, <1>3, <1>4, <1>6 DEF Waning, ArtifactsGo, Rests, RowAges, StatusAges, ImageAges, LeaseAges
  <1>8. OldOver'
    <2> SUFFICES ASSUME NEW v \in Workers
                 PROVE  /\ worker'[v].at \notin {"supersede", "reap"} => worker'[v].old = {}
                        /\ \A old \in worker'[v].old :
                              /\ row'[old[1]].status \notin {"none", "building"}
                              /\ row'[old[1]].status = "ready" =>
                                    worker'[v].at = "supersede" /\ row'[old[1]].image = old[2]
      BY DEF OldOver, Is
    <2>1. worker'[v].old = worker[v].old /\ worker[v].old \subseteq Builds \X Nat
      BY <1>3 DEF IInv, TypeOK, Deliveries
    <2>2. \A old \in worker[v].old :
              /\ old[1] \in Builds /\ old = <<old[1], old[2]>>
              /\ row[old[1]].status \notin {"none", "building"}
              /\ row[old[1]].status = "ready" => worker[v].at = "supersede" /\ row[old[1]].image = old[2]
      BY <2>1 DEF IInv, OldOver, Is
    <2>3. worker'[v].at \notin {"supersede", "reap"} => worker'[v].old = {}
      BY <1>1, <1>3 DEF IInv, OldOver
    <2>4. ASSUME NEW old \in worker[v].old
          PROVE  /\ row'[old[1]].status \notin {"none", "building"}
                 /\ row'[old[1]].status = "ready" =>
                        worker'[v].at = "supersede" /\ row'[old[1]].image = old[2]
      <3>1. CASE v = w
        BY <1>4, <2>2, <3>1
      <3>2. CASE v # w
        <4>1. worker'[v] = worker[v] /\ old[1] \in Builds
          BY <1>3, <2>2, <3>2
        <4>2. /\ row'[old[1]].status \in {row[old[1]].status, "superseded"}
              /\ row'[old[1]].image = row[old[1]].image
          BY <1>4, <4>1
        <4> QED
          BY <2>2, <4>1, <4>2
      <3> QED
        BY <3>1, <3>2
    <2> QED
      BY <2>1, <2>3, <2>4
  <1>9. trigger[worker[w].b] \notin Early /\ worker[w].at \notin Making
    BY <1>1, Bound DEF Making
  <1> QED
    BY <1>1, <1>3, <1>4, <1>5, <1>7, <1>8, <1>9, WorkStep

LEMMA ReapInv ==
    ASSUME IInv, NEW w \in Workers, Reap(w)
    PROVE  IInv'
  <1>1. UNCHANGED <<leases, trigger, baked, secrets, changing, call, queue, box, cut, sweep>>
        /\ worker[w].at = "reap" /\ worker[w].at \notin Making
    BY DEF Reap, plan, jobs, Making
  <1>2. upsets' \in 0..MaxUpsets
    <2>1. Upset \/ UNCHANGED upsets
      BY DEF Reap
    <2> QED
      BY <2>1, Upsets DEF IInv
  <1>3. CASE worker[w].old = {} /\ Go(w, "cleanup") /\ UNCHANGED <<row, there>>
    <2>1. "cleanup" \in Phases /\ box' \in [Builds -> {"none", "up", "down"}]
      BY <1>1 DEF Phases, IInv, TypeOK
    <2> QED
      BY <1>1, <1>2, <1>3, <2>1, GoesOnInv
  <1>4. ASSUME NEW old \in worker[w].old, worker' = [worker EXCEPT ![w].old = @ \ {old}],
               \/ /\ there' = [there EXCEPT ![old[1]] = @ \ {old[2]}]
                  /\ Put(old[1], WithoutImage(old[1], old[2]))
               \/ UNCHANGED <<row, there>>
        PROVE  IInv'
    <2>1. old[1] \in Builds /\ old[2] \in Nat /\ row[old[1]] \in RowTypes
          /\ worker[w] \in Deliveries /\ worker \in [Workers -> Deliveries]
      BY DEF IInv, TypeOK, Deliveries
    <2>2. /\ worker' \in [Workers -> Deliveries] /\ worker'[w].at = "reap"
          /\ worker'[w].old \subseteq worker[w].old
          /\ worker'[w].b = worker[w].b /\ worker'[w].lease = worker[w].lease
          /\ \A v \in Workers : v # w => worker'[v] = worker[v]
      BY <1>1, <1>4, <2>1 DEF Deliveries
    <2>3. row[old[1]].status \notin {"none", "building", "ready"}
      BY <1>1 DEF IInv, OldOver, Is
    <2>4. /\ there' \in [Builds -> SUBSET Nat]
          /\ \/ there' = there
             \/ there'[old[1]] = there[old[1]] \ {old[2]} /\ \A c \in Builds : c # old[1] => there'[c] = there[c]
      BY <1>4, <2>1 DEF IInv, TypeOK
    <2>5. ArtifactsGo
      BY <2>1, <2>3, <2>4 DEF ArtifactsGo
    <2>6. /\ row' \in [Builds -> RowTypes] /\ \A c \in Builds : c # old[1] => row'[c] = row[c]
          /\ \/ row'[old[1]] = row[old[1]]
             \/ /\ row[old[1]].status = "superseded" /\ row'[old[1]] = Gone
                /\ row[old[1]].image = 0 \/ row[old[1]].image \notin there'[old[1]]
      <3>1. Gone \in RowTypes
        BY DEF Gone, NoRow, RowTypes
      <3>2. CASE UNCHANGED row
        BY <3>2 DEF IInv, TypeOK
      <3>3. CASE /\ there' = [there EXCEPT ![old[1]] = @ \ {old[2]}]
                 /\ Put(old[1], WithoutImage(old[1], old[2]))
        <4>1. \/ Put(old[1], row[old[1]])
              \/ Put(old[1], Gone) /\ row[old[1]].status = "superseded" /\ row[old[1]].image \in {old[2], 0}
          BY <3>3 DEF WithoutImage, Is
        <4>2. old[2] \notin there'[old[1]]
          BY <2>1, <3>3 DEF IInv, TypeOK
        <4> QED
          BY <2>1, <3>1, <4>1, <4>2, RowPut DEF IInv
      <3> QED
        BY <1>4, <3>2, <3>3
    <2>7. Gone.image = 0 /\ Gone.session = "none" /\ Gone.accepted = "no" /\ Gone.lease = 0 /\ Gone.status = "gone"
      BY DEF Gone, NoRow
    <2>8. \A c \in Builds : RowAges(c)
      BY <2>6, <2>7 DEF RowAges, StatusAges, ImageAges, LeaseAges
    <2>9. Rests(w)
      BY <1>1, <2>2 DEF Rests, Goes, Leased
    <2>10. Waning
      BY <1>1, <2>2, <2>5, <2>8, <2>9 DEF Waning, Rests
    <2>11. TypeOK'
      BY <1>1, <1>2, <2>2, <2>4, <2>6 DEF IInv, TypeOK
    <2>12. OldOver'
      BY <1>1, <2>2, <2>10, OldKept
    <2>13. trigger[worker[w].b] \notin Early
      BY <1>1, Bound
    <2>14. \A c \in Builds :
               /\ row'[c].image = row[c].image \/ (row'[c].status = "gone" /\ row'[c].session = "none")
               /\ trigger[c] \in Early =>
                      row'[c].session = row[c].session /\ row'[c].accepted = row[c].accepted
      BY <2>6, <2>7 DEF IInv, Unplanned
    <2> QED
      BY <1>1, <2>2, <2>10, <2>11, <2>12, <2>13, <2>14, WorkStep
  <1> QED
    BY <1>3, <1>4 DEF Reap

(* A delivery of a job begins.                                             *)
LEMMA TakeInv ==
    ASSUME IInv, NEW w \in Workers, NEW b \in Builds, Take(w, b)
    PROVE  IInv'
  <1> DEFINE seen == IF row[b].expired THEN row[b].lease ELSE 0
  <1>1. UNCHANGED <<row, leases, trigger, baked, secrets, changing, call, box, there, cut, sweep>>
        /\ worker[w].at = "idle" /\ b \in queue /\ queue' = queue \ {b}
    BY DEF Take, rows, plan, prov, NoWork
  <1>2. upsets' \in 0..MaxUpsets
    <2>1. Upset \/ UNCHANGED upsets
      BY DEF Take
    <2> QED
      BY <2>1, Upsets DEF IInv
  <1>3. row[b].lease \in Nat /\ leases[b] \in Nat /\ row[b].lease <= leases[b] /\ trigger[b] \notin Early
        /\ worker \in [Workers -> Deliveries]
    BY <1>1 DEF IInv, TypeOK, RowTypes, InOrder, Unplanned
  <1>4. seen \in Nat /\ seen <= leases[b] /\ (seen # 0 => row[b].expired)
    BY <1>3
  <1>5. \/ /\ row[b].status = "building"
           /\ worker' = [worker EXCEPT ![w] = [NoWork EXCEPT !.at = "claim", !.b = b, !.lease = seen,
                                                 !.late = (seen # 0 /\ row[b].image = 0)]]
        \/ worker' = [worker EXCEPT ![w] = [NoWork EXCEPT !.at = "cleanup", !.b = b]]
        \/ worker' = [worker EXCEPT ![w] = NoWork]
    BY DEF Take, Is
  <1> HIDE DEF seen
  <1>6. /\ worker' \in [Workers -> Deliveries] /\ \A v \in Workers : v # w => worker'[v] = worker[v]
        /\ worker'[w].old = {} /\ (worker'[w].at # "idle" => worker'[w].b = b)
        /\ \/ /\ worker'[w].at = "claim" /\ worker'[w].b = b /\ worker'[w].lease = seen
              /\ worker'[w].late = (seen # 0 /\ row[b].image = 0)
           \/ worker'[w].at \in {"cleanup", "idle"}
    <2>1. CASE worker' = [worker EXCEPT ![w] = [NoWork EXCEPT !.at = "claim", !.b = b, !.lease = seen,
                                                  !.late = (seen # 0 /\ row[b].image = 0)]]
      BY <1>3, <1>4, <2>1 DEF NoWork, Deliveries, Phases
    <2>2. CASE worker' = [worker EXCEPT ![w] = [NoWork EXCEPT !.at = "cleanup", !.b = b]]
      BY <1>3, <2>2 DEF NoWork, Deliveries, Phases
    <2>3. CASE worker' = [worker EXCEPT ![w] = NoWork]
      BY <1>3, <2>3, WorkerEnds DEF Acked, IInv
    <2> QED
      BY <1>5, <2>1, <2>2, <2>3
  <1>7. Rests(w)
    BY <1>1, <1>4, <1>6 DEF Rests, Notes
  <1>8. Waning
    BY <1>1, <1>6, <1>7 DEF Waning, ArtifactsGo, Rests, RowAges, StatusAges, ImageAges, LeaseAges
  <1>9. TypeOK'
    BY <1>1, <1>2, <1>6 DEF IInv, TypeOK
  <1>10. worker[w].at \notin Making
    BY <1>1 DEF Making
  <1> QED
    BY <1>1, <1>3, <1>6, <1>8, <1>9, <1>10, WorkStep

LEMMA DiesInv ==
    ASSUME IInv, NEW w \in Workers, WorkerDies(w), UNCHANGED there
    PROVE  IInv'
  <1>1. UNCHANGED <<row, leases, trigger, baked, secrets, changing, call, box, sweep>>
        /\ worker[w].at # "idle" /\ Retried(w)
    BY DEF WorkerDies, rows, plan
  <1>2. upsets' \in 0..MaxUpsets
    BY Upsets DEF IInv, WorkerDies
  <1>3. cut' \in {cut, cut \cup {worker[w].b}} /\ (worker[w].at \in Making => worker[w].b \in cut')
    BY DEF WorkerDies, Making
  <1>4. box' \in [Builds -> {"none", "up", "down"}]
    BY <1>1 DEF IInv, TypeOK
  <1> QED
    BY <1>1, <1>2, <1>3, <1>4, RetriedInv

-----------------------------------------------------------------------------
(* Steps that put something new into the world.  A lease of a build: it is *)
(* taken over from an attempt whose outcome nobody knows, which the        *)
(* delivery has noted, or there is no artifact to be found.                *)
LEMMA ClaimInv ==
    ASSUME IInv, NEW w \in Workers, Claim(w)
    PROVE  IInv'
  <1> DEFINE b == worker[w].b
             token == leases[b] + 1
             r == [row[b] EXCEPT !.lease = token, !.expired = FALSE]
  <1>1. UNCHANGED <<trigger, baked, secrets, changing, call, box, there, cut, sweep, upsets>>
        /\ worker[w].at = "claim"
    BY DEF Claim, plan, prov
  <1>2. b \in Builds /\ row[b] \in RowTypes /\ leases[b] \in Nat /\ token \in Nat /\ worker[w].old = {}
        /\ worker \in [Workers -> Deliveries] /\ leases \in [Builds -> Nat] /\ trigger[b] \notin Early
    BY <1>1, Bound DEF IInv, TypeOK, Deliveries, OldOver
  <1>3. CASE Retried(w) /\ UNCHANGED rows
    BY <1>1, <1>3, RetriedInv DEF rows, Making, IInv, TypeOK
  <1>4. CASE /\ row[b].status = "building" /\ (row[b].lease = 0 \/ Owns(w)) /\ Put(b, r)
             /\ leases' = [leases EXCEPT ![b] = token] /\ UNCHANGED queue
             /\ worker' = [worker EXCEPT ![w].at = "claimed", ![w].lease = token]
    <2>1. r \in RowTypes /\ r.status = row[b].status /\ r.image = row[b].image
          /\ r.session = row[b].session /\ r.accepted = row[b].accepted /\ r.lease = token
      BY <1>2 DEF RowTypes
    <2>2. Put(b, r)
      BY <1>4
    <2> HIDE DEF r
    <2>3. /\ row' \in [Builds -> RowTypes] /\ \A c \in Builds : c # b => row'[c] = row[c]
          /\ row'[b].status = row[b].status /\ row'[b].image = row[b].image /\ row'[b].lease = token
          /\ row'[b].session = row[b].session /\ row'[b].accepted = row[b].accepted
      BY <1>2, <2>1, <2>2, RowPut DEF IInv
    <2>4. /\ worker' \in [Workers -> Deliveries] /\ worker'[w].at = "claimed" /\ worker'[w].old = {}
          /\ worker'[w].b = b /\ worker'[w].lease = token /\ worker'[w].late = worker[w].late
          /\ \A v \in Workers : v # w => worker'[v] = worker[v]
      BY <1>2, <1>4 DEF Deliveries, Phases
    <2>5. leases' \in [Builds -> Nat] /\ leases'[b] = token /\ \A c \in Builds : c # b => leases'[c] = leases[c]
      BY <1>2, <1>4
    <2>6. \A v \in Workers : worker[v].b \in Builds /\ worker[v].lease \in Nat
      BY DEF IInv, TypeOK, Deliveries
    <2>7. \A v \in Workers : v # w /\ Leased(v) /\ worker[v].b = b => worker[v].lease # token
      BY <1>2, <2>6 DEF IInv, InOrder
    <2>8. /\ \A c \in Builds : row'[c].status = row[c].status /\ row'[c].image = row[c].image
                               /\ row'[c].session = row[c].session /\ row'[c].accepted = row[c].accepted
          /\ \A v \in Workers : worker'[v].b = worker[v].b /\ worker'[v].old = worker[v].old
          /\ \A v \in Workers : worker'[v].at = worker[v].at \/ (v = w /\ worker'[v].at = "claimed")
      BY <1>2, <2>3, <2>4
    <2>9. \A c \in Builds : Nobody(c) => Nobody(c)'
      BY <2>4, <2>8 DEF Nobody, Active, Making
    <2> HIDE DEF token
    <2>10. TypeOK'
      BY <1>1, <1>4, <2>3, <2>4, <2>5 DEF IInv, TypeOK
    <2>11. Unplanned'
      BY <1>1, <1>2, <1>4, <2>3, <2>4, <2>5, <2>8 DEF IInv, Unplanned, Is
    <2>12. NoStaleEnvironmentSecrets'
      BY <1>1, <2>8 DEF IInv, NoStaleEnvironmentSecrets, Is
    <2>13. InOrder'
      <3>1. \A c \in Builds : leases[c] \in Nat /\ leases'[c] \in Nat /\ leases[c] <= leases'[c]
                              /\ there[c] \subseteq 1..leases[c] /\ row[c].lease <= leases[c]
                              /\ row[c].lease \in Nat /\ row'[c].lease <= leases'[c]
        BY <1>2, <2>3, <2>5 DEF token, IInv, InOrder, TypeOK, RowTypes
      <3>2. \A c \in Builds : row'[c].lease <= leases'[c] /\ there'[c] \subseteq 1..leases'[c]
        BY <1>1, <3>1
      <3>3. ASSUME NEW v \in Workers, Leased(v)'
            PROVE  worker'[v].lease \in 1..leases'[worker'[v].b]
        <4>1. CASE v = w
          BY <1>2, <2>4, <2>5, <4>1 DEF token
        <4>2. CASE v # w
          BY <2>4, <2>6, <3>1, <3>3, <4>2 DEF IInv, InOrder, Leased
        <4> QED
          BY <4>1, <4>2
      <3> QED
        BY <3>2, <3>3 DEF InOrder
    <2>14. Noted'
      <3> SUFFICES ASSUME NEW v \in Workers, worker'[v].at = "claim"
                   PROVE  LET c == worker'[v].b IN
                          /\ worker'[v].lease <= leases'[c]
                          /\ worker'[v].lease # 0 /\ row'[c].lease = worker'[v].lease => row'[c].expired
                          /\ worker'[v].lease # 0 /\ row'[c].status = "building" =>
                                 worker'[v].late \/ row'[c].image # 0
        BY DEF Noted, Owns, Is
      <3>1. v # w /\ worker'[v] = worker[v] /\ worker[v].b \in Builds /\ worker[v].lease \in Nat
        BY <2>4, <2>6
      <3>2. worker[v].lease <= leases[worker[v].b]
        BY <3>1 DEF IInv, Noted
      <3>3. CASE worker[v].b = b
        <4>1. worker[v].lease # token /\ worker[v].lease <= leases'[b]
          BY <1>2, <2>5, <3>1, <3>2, <3>3 DEF token
        <4> QED
          BY <2>3, <3>1, <3>3, <4>1 DEF IInv, Noted, Is
      <3>4. CASE worker[v].b # b
        BY <2>3, <2>5, <3>1, <3>2, <3>4 DEF IInv, Noted, Is, Owns
      <3> QED
        BY <3>3, <3>4
    <2>15. Distinct'
      BY <1>2, <2>4, <2>7 DEF IInv, Distinct, Leased
    <2>16. Attempting' /\ Recording'
      <3>1. \A v \in Workers : worker'[v].at \in Active => v # w /\ worker'[v] = worker[v]
        BY <2>4 DEF Active, Making
      <3>2. \A v \in Workers : worker'[v].at \in Active /\ Alone(v) => Alone(v)'
        BY <3>1 DEF Alone
      <3>3. Attempting'
        BY <1>1, <2>6, <2>8, <3>1, <3>2 DEF IInv, Attempting, Nothing, Active
      <3>4. Recording'
        BY <1>1, <3>1, <3>2 DEF IInv, Recording, Active
      <3> QED
        BY <3>3, <3>4
    <2>17. Fresh'
      <3> SUFFICES ASSUME NEW v \in Workers, NEW c \in Builds, c = worker[v].b,
                          row'[c].lease = worker'[v].lease, row[c].image = 0,
                          \/ worker'[v].at = "claimed" /\ ~worker'[v].late /\ row[c].session # "none"
                          \/ worker'[v].at = "release" /\ row[c].status = "building"
                   PROVE  Nobody(c) /\ there[c] = {}
        BY <1>1, <2>6, <2>8, <2>9 DEF Fresh, Owns, Is
      <3>1. CASE v = w
        <4>1. ~worker[w].late /\ row[b].status = "building" /\ row[b].image = 0
          BY <1>4, <2>4, <3>1
        <4>2. row[b].lease = 0
          BY <1>1, <1>4, <4>1 DEF IInv, Noted, Is, Owns
        <4> QED
          BY <3>1, <4>1, <4>2 DEF IInv, Free, Is
      <3>2. CASE v # w /\ c = b
        BY <2>3, <2>4, <2>7, <3>2 DEF Leased
      <3>3. CASE v # w /\ c # b
        BY <2>3, <2>4, <3>3 DEF IInv, Fresh, Owns, Is
      <3> QED
        BY <3>1, <3>2, <3>3
    <2>18. Free'
      <3>1. token # 0
        BY <1>2 DEF token
      <3> QED
        BY <1>1, <2>3, <2>9, <3>1 DEF IInv, Free, Is
    <2>19. Single' /\ ImagesThere' /\ ReadyIsThere'
      BY <1>1, <2>8 DEF IInv, Single, ImagesThere, ReadyIsThere, Is
    <2>20. AtHand'
      BY <1>1, <2>4, <2>6, <2>8 DEF IInv, AtHand, Is
    <2>21. OldOver'
      <3>1. \A v \in Workers : \A old \in worker[v].old : old[1] \in Builds
        BY DEF IInv, TypeOK, Deliveries
      <3>2. \A v \in Workers : worker'[v].at # worker[v].at => worker[v].old = {}
        BY <1>2, <2>8
      <3> QED
        BY <2>8, <3>1, <3>2 DEF IInv, OldOver, Is
    <2>22. SweepOver'
      <3>1. sweep.b \in Builds
        BY DEF IInv, TypeOK, Maintenance
      <3> QED
        BY <1>1, <2>8, <3>1 DEF IInv, SweepOver, Is
    <2>23. NoneForgotten'
      BY <1>1, <2>4, <2>8 DEF IInv, NoneForgotten, Unrecorded
    <2> QED
      BY <2>10, <2>11, <2>12, <2>13, <2>14, <2>15, <2>16, <2>17, <2>18, <2>19, <2>20, <2>21, <2>22, <2>23 DEF IInv
  <1> QED
    BY <1>3, <1>4 DEF Claim, Is

(* An attempt, of a delivery whose lease is fresh.                         *)
LEMMA BeginInv ==
    ASSUME IInv, NEW w \in Workers, Claimed(w), worker'[w].at = "attempt"
    PROVE  IInv'
  <1> DEFINE b == worker[w].b
  <1>1. UNCHANGED <<row, leases, trigger, baked, secrets, changing, call, box, there, cut, sweep, upsets>>
        /\ worker[w].at = "claimed"
    BY DEF Claimed, rows, plan, prov
  <1>2. b \in Builds /\ worker[w].old = {} /\ worker \in [Workers -> Deliveries] /\ trigger[b] \notin Early
    BY <1>1, Bound DEF IInv, TypeOK, Deliveries, OldOver
  <1>3. ~Retried(w)
    BY RetriedLeaves
  <1>4. Owns(w) /\ row[b].session # "none" /\ UNCHANGED queue
    BY <1>3 DEF Claimed
  <1>5. PICK to \in {"publish", "fail", "attempt"} :
            /\ Go(w, to) /\ (to = "attempt" => row[b].image = 0 /\ ~worker[w].late)
    BY <1>3 DEF Claimed
  <1>6. to \in Phases
    BY DEF Phases
  <1>7. /\ worker' \in [Workers -> Deliveries] /\ worker'[w].at = to /\ worker'[w].b = b
        /\ worker'[w].lease = worker[w].lease /\ worker'[w].old = {}
        /\ \A v \in Workers : v # w => worker'[v] = worker[v]
    BY <1>2, <1>5, <1>6, WorkerGoes DEF IInv
  <1>8. row[b].image = 0 /\ Nobody(b) /\ there[b] = {}
    BY <1>1, <1>4, <1>5, <1>7 DEF IInv, Fresh
  <1>9. \A v \in Workers : worker[v].b \in Builds
    BY DEF IInv, TypeOK, Deliveries
  <1>10. \A v \in Workers : worker'[v].b = worker[v].b /\ worker'[v].lease = worker[v].lease /\ worker'[v].old = worker[v].old
    BY <1>2, <1>7
  <1>11. worker[w].lease \in 1..leases[b] /\ leases[b] \in Nat
    BY <1>1, <1>2 DEF IInv, InOrder, Leased, TypeOK
  <1>12. TypeOK' /\ Unplanned' /\ NoStaleEnvironmentSecrets'
    BY <1>1, <1>2, <1>4, <1>7 DEF IInv, TypeOK, Unplanned, NoStaleEnvironmentSecrets, Is
  <1>13. InOrder' /\ Noted' /\ Distinct'
    BY <1>1, <1>7, <1>10 DEF IInv, InOrder, Noted, Distinct, Leased, Owns, Is
  <1>14. Attempting' /\ Recording'
    BY <1>1, <1>7, <1>8, <1>9, <1>10 DEF IInv, Attempting, Recording, Nobody, Alone, Nothing, Active, Making
  <1>15. \A c \in Builds : c # b /\ Nobody(c) => Nobody(c)'
    BY <1>7 DEF Nobody
  <1>16. Fresh'
    <2> SUFFICES ASSUME NEW v \in Workers, NEW c \in Builds, c = worker[v].b,
                        row[c].lease = worker[v].lease, row[c].image = 0,
                        \/ worker'[v].at = "claimed" /\ ~worker'[v].late /\ row[c].session # "none"
                        \/ worker'[v].at = "release" /\ row[c].status = "building"
                 PROVE  Nobody(c)' /\ there[c] = {}
      BY <1>1, <1>9, <1>10 DEF Fresh, Owns, Is
    <2>1. v # w /\ worker'[v] = worker[v]
      BY <1>7
    <2>2. c # b
      BY <1>1, <1>4, <2>1 DEF IInv, Distinct, Leased, Owns
    <2> QED
      BY <1>15, <2>1, <2>2 DEF IInv, Fresh, Owns, Is
  <1>17. Free'
    BY <1>1, <1>4, <1>11, <1>15 DEF IInv, Free, Is, Owns
  <1>18. Single' /\ ImagesThere' /\ ReadyIsThere' /\ NoneForgotten'
    <2>1. Single' /\ ImagesThere' /\ ReadyIsThere'
      BY <1>1 DEF IInv, Single, ImagesThere, ReadyIsThere, Is
    <2>2. \A v \in Workers : Unrecorded(v) \subseteq Unrecorded(v)'
      BY <1>1, <1>7 DEF Unrecorded
    <2>3. NoneForgotten'
      BY <1>1, <2>2 DEF IInv, NoneForgotten
    <2> QED
      BY <2>1, <2>3
  <1>19. AtHand' /\ OldOver'
    BY <1>1, <1>7, <1>10 DEF IInv, AtHand, OldOver, Is
  <1>20. SweepOver'
    BY <1>1, <1>4, <1>7, <1>8, <1>10 DEF IInv, SweepOver, Is
  <1> QED
    BY <1>12, <1>13, <1>14, <1>16, <1>17, <1>18, <1>19, <1>20 DEF IInv

(* An artifact, of the only attempt at a build that has none.              *)
LEMMA MakesInv ==
    ASSUME IInv, TypeOK', NEW w \in Workers, worker[w].at = "attempt", Made(w),
           UNCHANGED <<row, leases, trigger, baked, secrets, changing, call, sweep>>,
           queue' \in {queue, queue \cup {worker[w].b}}, cut \subseteq cut',
           \A v \in Workers : v # w => worker'[v] = worker[v],
           worker'[w].old = {},
           \/ /\ worker'[w].at = "record" /\ worker'[w].b = worker[w].b
              /\ worker'[w].lease = worker[w].lease
           \/ /\ worker[w].b \in cut'
              /\ \/ worker'[w].at = "idle"
                 \/ /\ worker'[w].at = "fail" /\ worker'[w].b = worker[w].b
                    /\ worker'[w].lease = worker[w].lease
    PROVE  IInv'
  <1> DEFINE b == worker[w].b
             lease == worker[w].lease
  <1>1. b \in Builds /\ trigger[b] \notin Early /\ lease \in 1..leases[b] /\ leases[b] \in Nat
    BY Bound DEF IInv, InOrder, Leased, TypeOK
  <1>2. Alone(w) /\ row[b].image = 0 /\ there[b] = {}
    BY DEF IInv, Attempting, Nothing
  <1>3. there'[b] = {lease} /\ \A c \in Builds : c # b => there'[c] = there[c]
    BY <1>1, <1>2 DEF Made, IInv, TypeOK
  <1>4. \A v \in Workers : worker[v].b \in Builds
    BY DEF IInv, TypeOK, Deliveries
  <1>5. \A v \in Workers : v # w /\ worker[v].at \in Active => worker[v].b # b
    BY <1>2 DEF Alone
  <1>6. ~Nobody(b)
    BY DEF Nobody, Active
  <1>7. \A c \in Builds : c # b /\ Nobody(c) => Nobody(c)'
    BY DEF Nobody, Active, Making
  <1>8. \A v \in Workers : Leased(v)' => Leased(v) /\ worker'[v].b = worker[v].b /\ worker'[v].lease = worker[v].lease
    BY DEF Leased
  <1>9. Unplanned'
    BY <1>1 DEF IInv, Unplanned, Is
  <1>10. NoStaleEnvironmentSecrets'
    BY DEF IInv, NoStaleEnvironmentSecrets, Is
  <1>11. InOrder'
    BY <1>1, <1>3, <1>8 DEF IInv, InOrder
  <1>12. Noted' /\ Distinct'
    BY <1>8 DEF IInv, Noted, Distinct, Owns, Is
  <1>13. worker'[w].at = "record" => Alone(w)'
    BY <1>5 DEF Alone
  <1>14. \A v \in Workers : v # w /\ Alone(v) /\ worker[v].b # b => Alone(v)'
    BY DEF Alone, Active, Making
  <1>15. Attempting'
    BY <1>3, <1>4, <1>5, <1>14 DEF IInv, Attempting, Nothing, Active
  <1>16. Recording'
    <2> SUFFICES ASSUME NEW v \in Workers, worker'[v].at \in Making
                 PROVE  Alone(v)' /\ there'[worker'[v].b] \subseteq {worker'[v].lease}
      BY DEF Recording
    <2>1. CASE v = w
      BY <1>3, <1>13, <2>1 DEF Making
    <2>2. CASE v # w
      BY <1>3, <1>4, <1>5, <1>14, <2>2 DEF IInv, Recording, Active
    <2> QED
      BY <2>1, <2>2
  <1>17. Fresh'
    <2> SUFFICES ASSUME NEW v \in Workers, v # w, NEW c \in Builds, c = worker[v].b,
                        row[c].lease = worker[v].lease, row[c].image = 0,
                        \/ worker[v].at = "claimed" /\ ~worker[v].late /\ row[c].session # "none"
                        \/ worker[v].at = "release" /\ row[c].status = "building"
                 PROVE  Nobody(c)' /\ there'[c] = {}
      BY <1>4 DEF Fresh, Owns, Is
    <2>1. Nobody(c) /\ there[c] = {}
      BY DEF IInv, Fresh, Owns, Is
    <2> QED
      BY <1>3, <1>6, <1>7, <2>1
  <1>18. Free'
    BY <1>3, <1>6, <1>7 DEF IInv, Free, Is
  <1>19. Single' /\ ImagesThere' /\ ReadyIsThere'
    BY <1>2, <1>3 DEF IInv, Single, ImagesThere, ReadyIsThere, Is
  <1>20. AtHand'
    <2> SUFFICES ASSUME NEW v \in Workers
                 PROVE  LET c == worker'[v].b IN
                        /\ worker'[v].at = "record" /\ row[c].status = "building" =>
                               worker'[v].lease \in there'[c]
                        /\ worker'[v].at \in {"publish", "refused"} /\ row[c].status = "building" => row[c].image # 0
                        /\ worker'[v].at \in {"record", "compensate", "quarantine"} =>
                               row[c].image # worker'[v].lease
      BY DEF AtHand, Is
    <2>1. CASE v = w
      BY <1>1, <1>2, <1>3, <2>1
    <2>2. CASE v # w
      BY <1>3, <1>4, <1>5, <2>2 DEF IInv, AtHand, Is, Active, Making
    <2> QED
      BY <2>1, <2>2
  <1>21. OldOver'
    BY DEF IInv, OldOver, Is
  <1>22. SweepOver'
    <2>1. sweep.b \in Builds
      BY DEF IInv, TypeOK, Maintenance
    <2>2. sweep.b = b /\ sweep.at \in {"reap", "commit"} => sweep.image = 0
      BY DEF IInv, SweepOver
    <2>3. \A v \in Workers : worker'[v].at = "attempt" => worker'[v] = worker[v]
      OBVIOUS
    <2> QED
      BY <1>1, <1>3, <2>1, <2>2, <2>3 DEF IInv, SweepOver, Is
  <1>23. NoneForgotten'
    <2> SUFFICES ASSUME NEW c \in Builds, NEW image \in there'[c]
                 PROVE  \/ row[c].image = image \/ c \in cut'
                        \/ \E v \in Workers : worker'[v].at \in Making /\ worker'[v].b = c /\ worker'[v].lease = image
      BY DEF NoneForgotten, Unrecorded, Making
    <2>1. CASE c = b
      BY <1>3, <2>1 DEF Making
    <2>2. CASE c # b
      <3>1. \/ row[c].image = image \/ c \in cut
            \/ \E v \in Workers : worker[v].at \in Making /\ worker[v].b = c /\ worker[v].lease = image
        <4>1. image \in there[c]
          BY <1>3, <2>2
        <4>2. NoneForgotten
          BY DEF IInv
        <4> QED
          BY <4>1, <4>2 DEF NoneForgotten, Unrecorded, Making
      <3> QED
        BY <2>2, <3>1
    <2> QED
      BY <2>1, <2>2
  <1> QED
    BY <1>9, <1>10, <1>11, <1>12, <1>15, <1>16, <1>17, <1>18, <1>19, <1>20, <1>21, <1>22, <1>23 DEF IInv

(* The name of an artifact in its row, once for each build: recorded by    *)
(* the attempt that made it, or kept for its deletion.                     *)
LEMMA NamedInv ==
    ASSUME IInv, TypeOK', NEW w \in Workers, worker[w].at \in {"record", "quarantine"},
           UNCHANGED <<leases, trigger, baked, secrets, changing, call, queue, there, cut, sweep>>,
           row[worker[w].b].image = 0, row[worker[w].b].status \notin {"none", "ready", "gone"},
           \A c \in Builds : c # worker[w].b => row'[c] = row[c],
           row'[worker[w].b].image = worker[w].lease,
           \/ /\ row'[worker[w].b].status = row[worker[w].b].status
              /\ row'[worker[w].b].status = "building" => worker[w].at = "record"
           \/ row[worker[w].b].status = "building" /\ row'[worker[w].b].status = "failed",
           \/ /\ row'[worker[w].b].lease = row[worker[w].b].lease
              /\ row'[worker[w].b].expired = row[worker[w].b].expired
           \/ row'[worker[w].b].lease = 0,
           \A v \in Workers : v # w => worker'[v] = worker[v],
           worker'[w].old = {},
           \/ worker'[w].at = "idle"
           \/ /\ worker'[w].at \in {"publish", "reread"} /\ worker'[w].b = worker[w].b
              /\ worker'[w].lease = worker[w].lease
    PROVE  IInv'
  <1> DEFINE b == worker[w].b
             lease == worker[w].lease
  <1>1. b \in Builds /\ trigger[b] \notin Early /\ lease \in 1..leases[b] /\ leases[b] \in Nat
    BY Bound DEF IInv, InOrder, Leased, TypeOK
  <1>2. Alone(w) /\ there[b] \subseteq {lease}
    BY DEF IInv, Recording, Making
  <1>3. \A v \in Workers : worker[v].b \in Builds /\ worker[v].lease \in Nat
    BY DEF IInv, TypeOK, Deliveries
  <1>4. \A v \in Workers : v # w /\ worker[v].at \in Active => worker[v].b # b
    BY <1>2 DEF Alone
  <1>5. \A v \in Workers : worker'[v].at \in Active =>
            worker[v].at \in Active /\ worker'[v].b = worker[v].b /\ worker'[v].lease = worker[v].lease
    BY DEF Active, Making
  <1>6. \A c \in Builds : Nobody(c) => Nobody(c)'
    BY <1>5 DEF Nobody
  <1>7. \A v \in Workers : worker'[v].at \in Active /\ Alone(v) => Alone(v)'
    BY <1>5 DEF Alone
  <1>8. \A v \in Workers : Leased(v)' => Leased(v) /\ worker'[v].b = worker[v].b /\ worker'[v].lease = worker[v].lease
    BY DEF Leased
  <1>9. Unplanned'
    BY <1>1 DEF IInv, Unplanned, Is
  <1>10. NoStaleEnvironmentSecrets'
    BY <1>1 DEF IInv, NoStaleEnvironmentSecrets, Is
  <1>11. InOrder'
    BY <1>1, <1>3, <1>8 DEF IInv, InOrder
  <1>12. Noted'
    <2> SUFFICES ASSUME NEW v \in Workers, worker'[v].at = "claim"
                 PROVE  LET c == worker'[v].b IN
                        /\ worker'[v].lease <= leases[c]
                        /\ worker'[v].lease # 0 /\ row'[c].lease = worker'[v].lease => row'[c].expired
                        /\ worker'[v].lease # 0 /\ row'[c].status = "building" =>
                               worker'[v].late \/ row'[c].image # 0
      BY DEF Noted, Owns, Is
    <2>1. worker'[v] = worker[v]
      OBVIOUS
    <2>2. CASE worker[v].b = b
      BY <1>1, <2>1, <2>2 DEF IInv, Noted, Owns, Is
    <2>3. CASE worker[v].b # b
      BY <1>3, <2>1, <2>3 DEF IInv, Noted, Owns, Is
    <2> QED
      BY <2>2, <2>3
  <1>13. Distinct'
    BY <1>8 DEF IInv, Distinct
  <1>14. Attempting'
    <2> SUFFICES ASSUME NEW v \in Workers, worker'[v].at = "attempt"
                 PROVE  Alone(v)' /\ Nothing(worker[v].b)' /\ worker'[v].b = worker[v].b
      BY DEF Attempting, Nothing
    <2>1. worker'[v] = worker[v] /\ worker[v].b # b
      BY <1>4 DEF Active
    <2> QED
      BY <1>3, <1>7, <2>1 DEF IInv, Attempting, Nothing, Active
  <1>15. Recording'
    <2> SUFFICES ASSUME NEW v \in Workers, worker'[v].at \in Making
                 PROVE  Alone(v)' /\ there[worker'[v].b] \subseteq {worker'[v].lease}
      BY DEF Recording
    <2>1. worker[v].at \in Making /\ worker'[v].b = worker[v].b /\ worker'[v].lease = worker[v].lease
      BY DEF Making
    <2> QED
      BY <1>7, <2>1 DEF IInv, Recording, Active
  <1>16. Fresh'
    <2> SUFFICES ASSUME NEW v \in Workers, v # w, NEW c \in Builds, c = worker[v].b,
                        row'[c].lease = worker[v].lease, row'[c].image = 0,
                        \/ worker[v].at = "claimed" /\ ~worker[v].late /\ row'[c].session # "none"
                        \/ worker[v].at = "release" /\ row'[c].status = "building"
                 PROVE  Nobody(c)' /\ there[c] = {}
      BY <1>3 DEF Fresh, Owns, Is
    <2>1. row'[c] = row[c]
      BY <1>1
    <2> QED
      BY <1>6, <2>1 DEF IInv, Fresh, Owns, Is
  <1>17. Free'
    BY <1>1, <1>6 DEF IInv, Free, Is
  <1>18. Single'
    BY DEF IInv, Single
  <1>19. row'[b].status = "building" => lease \in there[b]
    BY DEF IInv, AtHand, Is
  <1>20. ImagesThere' /\ ReadyIsThere'
    BY <1>19 DEF IInv, ImagesThere, ReadyIsThere, Is
  <1>21. AtHand'
    <2> SUFFICES ASSUME NEW v \in Workers
                 PROVE  LET c == worker'[v].b IN
                        /\ worker'[v].at = "record" /\ row'[c].status = "building" =>
                               worker'[v].lease \in there[c]
                        /\ worker'[v].at \in {"publish", "refused"} /\ row'[c].status = "building" => row'[c].image # 0
                        /\ worker'[v].at \in {"record", "compensate", "quarantine"} =>
                               row'[c].image # worker'[v].lease
      BY DEF AtHand, Is
    <2>1. CASE v = w
      BY <1>1, <2>1
    <2>2. CASE v # w /\ worker[v].b = b
      BY <1>1, <1>4, <2>2 DEF Active, Making
    <2>3. CASE v # w /\ worker[v].b # b
      BY <1>3, <2>3 DEF IInv, AtHand, Is
    <2> QED
      BY <2>1, <2>2, <2>3
  <1>22. OldOver'
    <2>1. \A v \in Workers : \A old \in worker[v].old : old[1] \in Builds
      BY DEF IInv, TypeOK, Deliveries
    <2>2. \A c \in Builds : row[c].status \notin {"none", "building"} =>
              /\ row'[c].status = row[c].status
              /\ row[c].status = "ready" => row'[c].image = row[c].image
      BY <1>1
    <2>3. \A v \in Workers : worker'[v].old = {} \/ worker'[v] = worker[v]
      OBVIOUS
    <2> QED
      BY <2>1, <2>2, <2>3 DEF IInv, OldOver, Is
  <1>23. SweepOver'
    <2>1. sweep.b \in Builds
      BY DEF IInv, TypeOK, Maintenance
    <2>2. sweep.b = b /\ sweep.at \in {"reap", "commit"} =>
              sweep.image = 0 /\ row'[b].status = row[b].status
      BY DEF IInv, SweepOver, Is
    <2>3. \A v \in Workers : worker'[v].at = "attempt" => worker'[v] = worker[v]
      OBVIOUS
    <2> QED
      BY <1>1, <2>1, <2>2, <2>3 DEF IInv, SweepOver, Is
  <1>24. NoneForgotten'
    <2> SUFFICES ASSUME NEW c \in Builds, NEW image \in there[c]
                 PROVE  \/ row'[c].image = image \/ c \in cut
                        \/ \E v \in Workers : worker'[v].at \in Making /\ worker'[v].b = c /\ worker'[v].lease = image
      BY DEF NoneForgotten, Unrecorded, Making
    <2>1. CASE c = b
      BY <1>2, <2>1
    <2>2. CASE c # b
      <3>1. NoneForgotten
        BY DEF IInv
      <3>2. \/ row[c].image = image \/ c \in cut
            \/ \E v \in Workers : worker[v].at \in Making /\ worker[v].b = c /\ worker[v].lease = image
        BY <3>1 DEF NoneForgotten, Unrecorded, Making
      <3> QED
        BY <2>2, <3>2
    <2> QED
      BY <2>1, <2>2
  <1> QED
    BY <1>9, <1>10, <1>11, <1>12, <1>13, <1>14, <1>15, <1>16, <1>17, <1>18, <1>20, <1>21, <1>22, <1>23, <1>24 DEF IInv

LEMMA RecordInv ==
    ASSUME IInv, NEW w \in Workers, Record(w)
    PROVE  IInv'
  <1> DEFINE b == worker[w].b
             r == [row[b] EXCEPT !.image = worker[w].lease]
  <1>1. UNCHANGED <<leases, trigger, baked, secrets, changing, call, queue, box, there, cut, sweep>>
        /\ worker[w].at = "record"
    BY DEF Record, plan, prov, jobs
  <1>2. b \in Builds /\ row[b] \in RowTypes /\ worker[w].old = {}
        /\ worker[w].lease \in 1..leases[b] /\ leases[b] \in Nat
    BY <1>1 DEF IInv, TypeOK, Deliveries, OldOver, InOrder, Leased
  <1>3. upsets' \in 0..MaxUpsets
    <2>1. Upset \/ UNCHANGED upsets
      BY DEF Record
    <2> QED
      BY <2>1, Upsets DEF IInv
  <1>4. PICK to \in {"publish", "reread"} : Go(w, to) /\ (row' = row => to = "reread")
    BY DEF Record
  <1>5. to \in Phases
    BY DEF Phases
  <1>6. /\ worker' \in [Workers -> Deliveries] /\ worker'[w].at = to /\ worker'[w].b = b
        /\ worker'[w].lease = worker[w].lease /\ worker'[w].old = {}
        /\ \A v \in Workers : v # w => worker'[v] = worker[v]
    BY <1>2, <1>4, <1>5, WorkerGoes DEF IInv
  <1>7. CASE UNCHANGED row
    <2>1. row[b].image # worker[w].lease \/ to = "reread"
      BY <1>4, <1>7
    <2>2. Goes(w)
      BY <1>1, <1>4, <1>6, <1>7 DEF Goes, Leased, Making
    <2>3. box' \in [Builds -> {"none", "up", "down"}] /\ worker[w].at # "idle" /\ to \in Making
      BY <1>1, <1>4, <1>7 DEF IInv, TypeOK, Making
    <2> QED
      BY <1>1, <1>2, <1>3, <1>4, <1>5, <1>7, <2>2, <2>3, GoesOnInv
  <1>8. CASE row[b].status = "building" /\ row[b].image = 0 /\ Put(b, r)
    <2>1. r \in RowTypes /\ r.status = "building" /\ r.image = worker[w].lease
          /\ r.lease = row[b].lease /\ r.expired = row[b].expired
      BY <1>2, <1>8 DEF RowTypes
    <2>2. Put(b, r)
      BY <1>8
    <2> HIDE DEF r
    <2>3. /\ row' \in [Builds -> RowTypes] /\ \A c \in Builds : c # b => row'[c] = row[c]
          /\ row'[b] = r
      BY <1>2, <2>1, <2>2, RowPut DEF IInv
    <2>4. TypeOK'
      BY <1>1, <1>3, <1>6, <2>3 DEF IInv, TypeOK
    <2> QED
      BY <1>1, <1>6, <1>8, <2>1, <2>3, <2>4, NamedInv
  <1> QED
    BY <1>7, <1>8 DEF Record, Is

LEMMA QuarantineInv ==
    ASSUME IInv, NEW w \in Workers, Quarantine(w)
    PROVE  IInv'
  <1> DEFINE b == worker[w].b
             r == [row[b] EXCEPT !.image = worker[w].lease,
                                 !.status = IF @ = "building" THEN "failed" ELSE @]
             keeps == /\ row[b].session # "none" /\ row[b].image = 0
                      /\ row[b].status \in {"building", "failed", "superseded"}
  <1>1. UNCHANGED <<leases, trigger, baked, secrets, changing, call, box, there, sweep, upsets>>
        /\ worker[w].at = "quarantine"
    BY DEF Quarantine, plan
  <1>2. b \in Builds /\ row[b] \in RowTypes /\ worker[w].lease \in Nat
    BY DEF IInv, TypeOK, Deliveries
  <1>3. CASE keeps
    <2>1. Put(b, Unleased(r)) /\ Acked(w) /\ UNCHANGED <<queue, cut>>
      BY <1>3 DEF Quarantine
    <2>2. r \in RowTypes /\ r.image = worker[w].lease /\ r.lease = row[b].lease
          /\ \/ row[b].status = "building" /\ r.status = "failed"
             \/ row[b].status # "building" /\ r.status = row[b].status
      BY <1>2 DEF RowTypes, Terminal
    <2> HIDE DEF r
    <2>3. /\ row' \in [Builds -> RowTypes] /\ \A c \in Builds : c # b => row'[c] = row[c]
          /\ row'[b].image = worker[w].lease /\ row'[b].lease = 0 /\ row'[b].status = r.status
      BY <1>2, <2>1, <2>2, RowPut, RowChanges DEF IInv
    <2>4. /\ worker' \in [Workers -> Deliveries] /\ worker'[w].at = "idle" /\ worker'[w].old = {}
          /\ \A v \in Workers : v # w => worker'[v] = worker[v]
      BY <2>1, WorkerEnds DEF IInv
    <2>5. TypeOK'
      BY <1>1, <2>1, <2>3, <2>4 DEF IInv, TypeOK
    <2> QED
      BY <1>1, <1>3, <2>1, <2>2, <2>3, <2>4, <2>5, NamedInv
  <1>4. CASE ~keeps
    <2>1. Retried(w) /\ cut' = cut \cup {b} /\ UNCHANGED row
      BY <1>4 DEF Quarantine
    <2>2. box' \in [Builds -> {"none", "up", "down"}] /\ upsets' \in 0..MaxUpsets /\ worker[w].at # "idle"
      BY <1>1 DEF IInv, TypeOK
    <2> QED
      BY <1>1, <1>2, <2>1, <2>2, RetriedInv
  <1> QED
    BY <1>3, <1>4

LEMMA AttemptInv ==
    ASSUME IInv, NEW w \in Workers, Attempt(w) \/ AttemptFails(w)
    PROVE  IInv'
  <1>1. UNCHANGED <<row, leases, trigger, baked, secrets, changing, call, queue, box, sweep>>
        /\ worker[w].at = "attempt"
    BY DEF Attempt, AttemptFails, rows, plan, jobs
  <1>2. worker[w].old = {} /\ worker[w].b \in Builds /\ worker[w].lease \in Nat
    BY <1>1 DEF IInv, OldOver, TypeOK, Deliveries
  <1>3. upsets' \in 0..MaxUpsets
    <2>1. Upset \/ UNCHANGED upsets
      BY DEF Attempt, AttemptFails
    <2> QED
      BY <2>1, Upsets DEF IInv
  <1>4. box' \in [Builds -> {"none", "up", "down"}] /\ worker[w].at \notin Making \cup {"idle"}
    BY <1>1 DEF IInv, TypeOK, Making
  <1>5. ASSUME NEW to \in {"release", "fail"}, Go(w, to), UNCHANGED <<there, cut>>
        PROVE  IInv'
    <2>1. to \in Phases
      BY DEF Phases
    <2>2. /\ worker'[w].at = to /\ worker'[w].b = worker[w].b /\ worker'[w].lease = worker[w].lease
          /\ \A v \in Workers : v # w => worker'[v] = worker[v]
      BY <1>5, <2>1, WorkerGoes DEF IInv
    <2>3. Alone(w) /\ there[worker[w].b] = {}
      BY <1>1 DEF IInv, Attempting, Nothing
    <2>4. Nobody(worker[w].b)'
      BY <2>2, <2>3 DEF Nobody, Alone, Active, Making
    <2>5. Goes(w)
      BY <1>1, <1>5, <2>2, <2>3, <2>4 DEF Goes, Leased
    <2> QED
      BY <1>1, <1>2, <1>3, <1>4, <1>5, <2>1, <2>5, GoesOnInv
  <1>6. ASSUME Made(w), NEW to \in {"record", "fail"}, Go(w, to),
               (to = "record" /\ UNCHANGED cut) \/ (to = "fail" /\ cut' = cut \cup {worker[w].b})
        PROVE  IInv'
    <2>1. to \in Phases
      BY DEF Phases
    <2>2. /\ worker' \in [Workers -> Deliveries] /\ worker'[w].old = {}
          /\ worker'[w].at = to /\ worker'[w].b = worker[w].b /\ worker'[w].lease = worker[w].lease
          /\ \A v \in Workers : v # w => worker'[v] = worker[v]
      BY <1>2, <1>6, <2>1, WorkerGoes DEF IInv
    <2>3. there' \in [Builds -> SUBSET Nat]
      BY <1>2, <1>6 DEF IInv, TypeOK, Made
    <2>4. TypeOK'
      BY <1>1, <1>2, <1>3, <1>6, <2>2, <2>3 DEF IInv, TypeOK
    <2> QED
      BY <1>1, <1>6, <2>2, <2>4, MakesInv
  <1> QED
    BY <1>5, <1>6 DEF Attempt, AttemptFails, prov

LEMMA DiesMakingInv ==
    ASSUME IInv, NEW w \in Workers, WorkerDies(w), worker[w].at = "attempt", Made(w)
    PROVE  IInv'
  <1>1. UNCHANGED <<row, leases, trigger, baked, secrets, changing, call, box, sweep>>
        /\ Retried(w) /\ cut' = cut \cup {worker[w].b}
    BY DEF WorkerDies, rows, plan
  <1>2. upsets' \in 0..MaxUpsets
    BY Upsets DEF IInv, WorkerDies
  <1>3. worker[w].b \in Builds /\ worker[w].lease \in Nat
    BY DEF IInv, TypeOK, Deliveries
  <1>4. there' \in [Builds -> SUBSET Nat]
    BY <1>3 DEF IInv, TypeOK, Made
  <1>5. TypeOK'
    BY <1>1, <1>2, <1>3, <1>4, RetriedLeaves DEF IInv, TypeOK
  <1> QED
    BY <1>1, <1>5, RetriedLeaves, MakesInv

-----------------------------------------------------------------------------
(* The invariant holds of the first image, and every step keeps it.        *)
LEMMA InitInv ==
    ASSUME Init
    PROVE  IInv
  <1> USE ImageAssumption DEF Init
  <1>1. 1 \in Builds /\ Builds \subseteq Nat \ {0}
    BY DEF Builds
  <1>2. TypeOK
    <2>1. NoRow \in RowTypes /\ [NoRow EXCEPT !.status = "ready", !.image = 1,
              !.session = "cleaned", !.accepted = "success"] \in RowTypes
      BY DEF NoRow, RowTypes, Terminal
    <2>2. row \in [Builds -> RowTypes]
      BY <2>1
    <2>3. NoWork \in Deliveries /\ NoSweep \in Maintenance
      BY <1>1 DEF NoWork, Deliveries, Phases, NoSweep, Maintenance
    <2>4. worker \in [Workers -> Deliveries] /\ sweep \in Maintenance
      BY <2>3
    <2>5. leases \in [Builds -> Nat] /\ baked \in [Builds -> Nat]
      OBVIOUS
    <2>6. trigger \in [Builds -> {"none", "registered", "planned", "created", "bound", "failing", "over"}]
      OBVIOUS
    <2>7. box \in [Builds -> {"none", "up", "down"}] /\ there \in [Builds -> SUBSET Nat]
      OBVIOUS
    <2>8. secrets \in Nat \ {0} /\ changing \in BOOLEAN /\ upsets \in 0..MaxUpsets
      <3>1. changing \in BOOLEAN
        BY Zenon
      <3>2. secrets \in Nat \ {0} /\ upsets \in 0..MaxUpsets
        OBVIOUS
      <3> QED
        BY <3>1, <3>2
    <2>9. call \subseteq Builds /\ queue \subseteq Builds /\ cut \subseteq Builds
      OBVIOUS
    <2> QED
      BY <2>2, <2>4, <2>5, <2>6, <2>7, <2>8, <2>9 DEF TypeOK
  <1>3. \A w \in Workers : worker[w].at = "idle" /\ worker[w].old = {}
    BY DEF NoWork
  <1>4. \A b \in Builds :
            \/ b = 1 /\ row[b].status = "ready" /\ row[b].image = 1 /\ row[b].lease = 0 /\ there[b] = {1}
            \/ b # 1 /\ row[b].status = "none" /\ row[b].image = 0 /\ row[b].lease = 0
               /\ row[b].session = "none" /\ row[b].accepted = "no" /\ there[b] = {}
    BY DEF NoRow
  <1>5. Unplanned
    BY <1>3, <1>4 DEF Unplanned, Is, Early
  <1>6. NoStaleEnvironmentSecrets
    BY <1>4 DEF NoStaleEnvironmentSecrets, Is
  <1>7. InOrder /\ Noted /\ Distinct
    BY <1>3, <1>4 DEF InOrder, Noted, Distinct, Leased
  <1>8. Attempting /\ Recording /\ Fresh /\ Free /\ Single
    BY <1>3, <1>4 DEF Attempting, Recording, Fresh, Free, Single, Is, Making
  <1>9. ImagesThere /\ AtHand /\ ReadyIsThere
    BY <1>3, <1>4 DEF ImagesThere, AtHand, ReadyIsThere, Is
  <1>10. OldOver /\ SweepOver /\ NoneForgotten
    BY <1>3, <1>4 DEF OldOver, SweepOver, NoSweep, NoneForgotten
  <1> QED
    BY <1>2, <1>5, <1>6, <1>7, <1>8, <1>9, <1>10 DEF IInv

LEMMA StutterInv ==
    ASSUME IInv, UNCHANGED vars
    PROVE  IInv'
  <1>1. UNCHANGED <<row, leases, trigger, baked, secrets, changing, call, queue, worker, sweep, box, there, cut, upsets>>
    BY DEF vars, rows, plan, jobs, prov
  <1>2. TypeOK' /\ Unplanned'
    BY <1>1 DEF IInv, TypeOK, Unplanned, Is
  <1> QED
    BY <1>1, <1>2, StillSafe DEF IInv

LEMMA StepInv ==
    ASSUME IInv, [Next]_vars
    PROVE  IInv'
  <1>1. ASSUME NEW b \in Builds, Triggers(b)
        PROVE  IInv'
    BY <1>1, RegisterInv, PlanInv, TriggerGoesInv, BindInv, FailedInv DEF Triggers
  <1>2. ASSUME NEW b \in Builds, Calls(b)
        PROVE  IInv'
    BY <1>2, AcceptInv, JobsInv, WorldInv DEF Calls
  <1>3. ASSUME NEW b \in Builds,
               \/ LeaseExpires(b) \/ Republish(b) \/ StaleFails(b) \/ DeleteOld(b) \/ RestoreFails(b)
               \/ SweepCleans(b) \/ SweepReaps(b) \/ \E w \in Workers : Take(w, b)
        PROVE  IInv'
    BY <1>3, LeaseExpiresInv, JobsInv, FailedInv, DeleteOldInv, SweepGoesInv, TakeInv
  <1>4. ASSUME NEW w \in Workers, Works(w)
        PROVE  IInv'
    <2>1. CASE Claim(w) \/ Claimed(w)
      BY <2>1, ClaimInv, ClaimedEndsInv, BeginInv
    <2>2. CASE Attempt(w) \/ AttemptFails(w) \/ Record(w) \/ Reread(w) \/ Compensate(w) \/ Quarantine(w)
      BY <2>2, AttemptInv, RecordInv, RereadInv, CompensateInv, QuarantineInv
    <2>3. CASE Release(w) \/ Fail(w) \/ Publish(w) \/ Refused(w)
      BY <2>3, ReleaseInv, FailInv, PublishInv, RefusedInv
    <2>4. CASE Replace(w) \/ SupersedeOlder(w) \/ Reap(w) \/ Cleanup(w) \/ Clear(w)
      BY <2>4, ReplaceInv, SupersedeOlderInv, ReapInv, CleanupInv, ClearInv
    <2> QED
      BY <1>4, <2>1, <2>2, <2>3, <2>4 DEF Works
  <1>5. ASSUME NEW w \in Workers, WorkerDies(w)
        PROVE  IInv'
    <2>1. UNCHANGED there \/ (worker[w].at = "attempt" /\ Made(w))
      BY <1>5 DEF WorkerDies
    <2> QED
      BY <1>5, <2>1, DiesInv, DiesMakingInv
  <1>6. CASE SweepWorks
    BY <1>6, SweepGoesInv, SweepDeletesInv, SweepCommitsInv DEF SweepWorks
  <1>7. CASE ChangeEnvironmentSecrets \/ Supersede
    BY <1>7, WorldInv, SupersedeInv
  <1>8. CASE UNCHANGED vars
    BY <1>8, StutterInv
  <1> QED
    BY <1>1, <1>2, <1>3, <1>4, <1>5, <1>6, <1>7, <1>8 DEF Next

-----------------------------------------------------------------------------
(* The theorems.  The inductive invariant always holds ...                 *)
THEOREM ImageInvariance == Spec => []IInv
  <1>1. Init => IInv
    BY InitInv
  <1>2. IInv /\ [Next]_vars => IInv'
    BY StepInv
  <1> QED
    BY <1>1, <1>2, PTL DEF Spec

(* ... with it, each variable holds a state of the code;                   *)
THEOREM ImageTypes == Spec => []TypeOK
  <1>1. IInv => TypeOK
    BY DEF IInv
  <1> QED
    BY <1>1, ImageInvariance, PTL

(* an image that a spawn can select is there: no delivery, sweep or        *)
(* compensation ever deletes the artifact of a ready row;                  *)
THEOREM ReadyImagesAreThere == Spec => []ReadyIsThere
  <1>1. IInv => ReadyIsThere
    BY DEF IInv
  <1> QED
    BY <1>1, ImageInvariance, PTL

(* once a change of the environment's own secrets is answered, no image    *)
(* that holds older ones is ready or can become ready;                     *)
THEOREM EnvironmentSecretsAreFresh == Spec => []NoStaleEnvironmentSecrets
  <1>1. IInv => NoStaleEnvironmentSecrets
    BY DEF IInv
  <1> QED
    BY <1>1, ImageInvariance, PTL

(* deliveries that come again, late or at once leave at most one artifact  *)
(* of a build;                                                             *)
THEOREM ArtifactsAreSingle == Spec => []OneArtifact
  <1>1. IInv => OneArtifact
    <2> SUFFICES ASSUME Single, NEW b \in Builds
                 PROVE  Cardinality(there[b]) <= 1
      BY DEF IInv, OneArtifact
    <2>1. CASE there[b] = {}
      BY <2>1, FS_EmptySet
    <2>2. ASSUME NEW i \in there[b]
          PROVE  Cardinality(there[b]) <= 1
      <3>1. there[b] = {i}
        BY DEF Single
      <3>2. Cardinality(there[b]) = 1
        BY <3>1, FS_Singleton
      <3> QED
        BY <3>2
    <2> QED
      BY <2>1, <2>2
  <1> QED
    BY <1>1, ImageInvariance, PTL

(* and none of them is forgotten, but where an attempt was cut off.        *)
THEOREM ArtifactsAreKnown == Spec => []NoneForgotten
  <1>1. IInv => NoneForgotten
    BY DEF IInv
  <1> QED
    BY <1>1, ImageInvariance, PTL

=============================================================================
