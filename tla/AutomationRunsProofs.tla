------------------------ MODULE AutomationRunsProofs ------------------------
(***************************************************************************)
(* Proofs about AutomationRuns, for every number of firings, targets, keys *)
(* and events, every threshold and any number of upsets.                   *)
(***************************************************************************)
EXTENDS AutomationRuns, FiniteSetTheorems, TLAPS

(* A firing has no invocation before startInvocation has inserted one, and *)
(* launches the runs of one that has started.                              *)
Inserted ==
    \A f \in Firings :
        /\ firing[f].at \in {"idle", "due", "build", "skip", "skipAdvanced", "collided"} =>
               inv[f].is = "none"
        /\ firing[f].at = "launching" => f \in Started

(* Runs belong to an invocation that has started, and invocations are      *)
(* numbered in the order they start.                                       *)
Rooted ==
    \A f \in Firings :
        /\ f \notin Started => \A t \in Targets : run[f][t].status = "none"
        /\ f \in Started => inv[f].no <= Cardinality(Started)

(* A slot has come when it fires, and the next one is ahead of it.         *)
Ahead ==
    \A f \in Firings :
        firing[f].source = "schedule" =>
            /\ firing[f].at = "due" => firing[f].slot <= now
            /\ firing[f].at \in {"build", "skip"} => firing[f].slot < firing[f].upto

(* What is accounted for, or about to be, is an invocation that started;   *)
(* one whose strike is about to be marked has a failed run.                *)
Accountable ==
    /\ \A c \in Callers :
           /\ acct[c].at \in {"read", "mark"} => acct[c].on \subseteq Started
           /\ acct[c].at = "mark" => \A f \in acct[c].on : Failed(f)
    /\ \A f \in Firings, t \in Targets, status \in {"starting", "running"} :
           <<f, t, status>> \in stuck => f \in Started

Shape == TypeOK /\ Inserted /\ Rooted

-----------------------------------------------------------------------------
(* The invocations are finitely many.                                      *)
LEMMA StartedFinite ==
    /\ IsFiniteSet(Started) /\ Cardinality(Started) \in Nat
    /\ IsFiniteSet(Struck) /\ Cardinality(Struck) \in Nat
  <1>1. Started \in SUBSET Firings /\ Struck \in SUBSET Firings
    BY DEF Started, Struck
  <1> QED
    BY <1>1, FS_Subset, FS_CardinalityType, AutomationAssumption

(* Updates of rows keep them rows.                                         *)
LEMMA AutoTyped ==
    ASSUME NEW a \in Automations, NEW n \in Nat
    PROVE  /\ [a EXCEPT !.enabled = FALSE, !.next = 0] \in Automations
           /\ [a EXCEPT !.enabled = TRUE, !.failures = 0, !.next = n] \in Automations
           /\ [a EXCEPT !.next = n] \in Automations
           /\ [a EXCEPT !.failures = n] \in Automations
  <1>1. \A b \in BOOLEAN, k \in Nat :
            /\ [a EXCEPT !.enabled = b, !.next = k] \in Automations
            /\ [a EXCEPT !.enabled = b, !.failures = k, !.next = n] \in Automations
    BY DEF Automations
  <1>2. FALSE \in BOOLEAN /\ TRUE \in BOOLEAN /\ 0 \in Nat
    OBVIOUS
  <1>3. /\ [a EXCEPT !.enabled = FALSE, !.next = 0] \in Automations
        /\ [a EXCEPT !.enabled = TRUE, !.failures = 0, !.next = n] \in Automations
    BY <1>1, <1>2, Zenon
  <1> QED
    BY <1>3 DEF Automations

LEMMA ForgottenTyped == NoFiring \in Attempts /\ Forgotten \in Attempts
  <1>1. <<>> \in EventIds
    BY DEF EventIds
  <1>2. NoFiring \in Attempts
    BY <1>1 DEF NoFiring, Attempts
  <1> QED
    BY <1>2 DEF Forgotten, Attempts

(* Nothing has fired.                                                      *)
LEMMA InitShape == Init => Shape
  <1> SUFFICES ASSUME Init PROVE Shape
    OBVIOUS
  <1>2. auto \in Automations
    <2>1. \A trigger \in {"schedule", "event"}, b \in BOOLEAN, n \in Nat :
              [trigger |-> trigger, enabled |-> b, next |-> n, failures |-> 0] \in Automations
      BY DEF Automations
    <2> QED
      BY <2>1 DEF Init
  <1>3. firing \in [Firings -> Attempts]
    BY ForgottenTyped DEF Init
  <1>4. inv \in [Firings -> Invocations]
    <2>1. [is |-> "none", counted |-> FALSE, no |-> 0] \in Invocations
      BY DEF Invocations
    <2> QED
      BY <2>1 DEF Init
  <1>5. run \in [Firings -> [Targets -> RunRows]]
    BY DEF Init, RunRows
  <1>6. acct \in [Callers -> Accountings]
    BY DEF Init, NoAcct, Accountings
  <1>7. HostOK
    <2>1. now \in 1..MaxNow /\ upsets \in 0..MaxUpsets
      BY AutomationAssumption DEF Init
    <2> QED
      BY <2>1 DEF Init, HostOK
  <1>8. Inserted /\ Rooted
    BY DEF Init, Inserted, Rooted, Started, NoFiring
  <1> QED
    BY <1>2, <1>3, <1>4, <1>5, <1>6, <1>7, <1>8 DEF Shape, TypeOK, RowsOK

-----------------------------------------------------------------------------
(* The types of the rows, one table at a time.                             *)

LEMMA AutoStep == Shape /\ [Next]_vars => auto' \in Automations
  <1> SUFFICES ASSUME Shape, [Next]_vars PROVE auto' \in Automations
    OBVIOUS
  <1>1. auto \in Automations /\ firing \in [Firings -> Attempts] /\ now \in Nat
    BY AutomationAssumption DEF Shape, TypeOK, RowsOK, HostOK
  <1>2. CASE Pause \/ Resume
    <2> DEFINE next == IF auto.trigger = "schedule" THEN now + 1 ELSE 0
    <2>1. next \in Nat
      BY <1>1
    <2>2. [auto EXCEPT !.enabled = FALSE, !.next = 0] \in Automations
      BY <1>1, <2>1, AutoTyped
    <2>3. [auto EXCEPT !.enabled = TRUE, !.failures = 0, !.next = next] \in Automations
      BY <1>1, <2>1, AutoTyped
    <2> QED
      BY <1>2, <2>2, <2>3 DEF Pause, Resume
  <1>3. ASSUME NEW f \in Firings, Fires(f) PROVE auto' \in Automations
    <2>1. firing[f].upto \in Nat
      BY <1>1 DEF Attempts
    <2>2. Advanced(f) \in Automations
      BY <1>1, <2>1, AutoTyped DEF Advanced
    <2>3. CASE \E lost \in SUBSET Targets : Insert(f, lost)
      BY <2>2, <2>3 DEF Insert
    <2>4. CASE InsertBlocked(f) \/ Skip(f)
      BY <1>1, <2>2, <2>4 DEF InsertBlocked, Skip
    <2>5. CASE AdvanceAgain(f)
      <3>1. auto.next \in Nat
        BY <1>1 DEF Automations
      <3> QED
        BY <1>1, <2>1, <2>5, <3>1, AutoTyped DEF AdvanceAgain
    <2>6. CASE Deny(f)
      <3>1. [auto EXCEPT !.enabled = FALSE, !.next = 0] \in Automations
        BY <1>1, <2>1, AutoTyped
      <3> QED
        BY <1>1, <2>6, <3>1 DEF Deny
    <2>7. CASE auto' = auto
      BY <1>1, <2>7
    <2> QED
      BY <1>3, <2>3, <2>4, <2>5, <2>6, <2>7
      DEF Fires, TickReads, Trigger, EventComes, Check, InsertCollides, Launched, FiringDies
  <1>4. ASSUME NEW c \in Callers, Accounts(c) PROVE auto' \in Automations
    <2>1. auto.failures + 1 \in Nat /\ 0 \in Nat
      BY <1>1 DEF Automations
    <2> QED
      BY <1>1, <1>4, <2>1, AutoTyped
      DEF Accounts, Aggregate, Mark, Strike, Count, AutoPause, Reset
  <1>5. CASE auto' = auto
    BY <1>1, <1>5
  <1>6. ASSUME NEW f \in Firings, NEW t \in Targets,
               Runs(f, t) \/ SweepReads(f, t) \/ SweepEnds(f, t)
        PROVE  auto' = auto
    BY <1>6 DEF Runs, Claim, Prompt, LaunchFails, RunCompletes, SweepReads, SweepEnds, SweepFails
  <1>7. ASSUME NEW c \in Callers, AccountingDies(c) PROVE auto' = auto
    BY <1>7 DEF AccountingDies
  <1>8. ASSUME NEW f \in Firings, SweepFinalizes(f) PROVE auto' = auto
    BY <1>8 DEF SweepFinalizes
  <1> QED
    BY <1>2, <1>3, <1>4, <1>5, <1>6, <1>7, <1>8 DEF Next, SlotComes, vars

LEMMA FiringStep == Shape /\ [Next]_vars => firing' \in [Firings -> Attempts]
  <1> SUFFICES ASSUME Shape, [Next]_vars PROVE firing' \in [Firings -> Attempts]
    OBVIOUS
  <1>1. auto \in Automations /\ firing \in [Firings -> Attempts] /\ now \in Nat
    BY AutomationAssumption DEF Shape, TypeOK, RowsOK, HostOK
  <1>2. ASSUME NEW f \in Firings, Over(f) PROVE firing' \in [Firings -> Attempts]
    <2>1. [firing[f] EXCEPT !.at = "done", !.upto = 0] \in Attempts
      BY <1>1 DEF Attempts
    <2> QED
      BY <1>1, <1>2, <2>1, ForgottenTyped DEF Over
  <1>3. ASSUME NEW f \in Firings, Fires(f) PROVE firing' \in [Firings -> Attempts]
    <2>1. CASE TickReads(f)
      <3>1. auto.next \in Nat
        BY <1>1 DEF Automations
      <3>2. [firing[f] EXCEPT !.at = "due", !.source = "schedule", !.slot = auto.next] \in Attempts
        BY <1>1, <3>1 DEF Attempts
      <3> QED
        BY <1>1, <2>1, <3>2 DEF TickReads
    <2>2. CASE Trigger(f)
      <3>1. [firing[f] EXCEPT !.at = "due", !.source = "manual"] \in Attempts
        BY <1>1 DEF Attempts
      <3> QED
        BY <1>1, <2>2, <3>1 DEF Trigger
    <2>3. ASSUME NEW k \in Keys, NEW e \in Events, EventComes(f, k, e)
          PROVE  firing' \in [Firings -> Attempts]
      <3>1. <<k, e>> \in EventIds
        BY DEF EventIds
      <3>2. [firing[f] EXCEPT !.at = "due", !.source = "event", !.on = <<k, e>>] \in Attempts
        BY <1>1, <3>1 DEF Attempts
      <3> QED
        BY <1>1, <2>3, <3>2 DEF EventComes
    <2>4. CASE Check(f)
      <3>1. \A at \in {"skip", "build"}, n \in Nat :
                [firing[f] EXCEPT !.at = at, !.upto = n] \in Attempts
        BY <1>1 DEF Attempts
      <3>2. now + 1 \in Nat /\ 0 \in Nat
        BY <1>1
      <3> QED
        BY <1>1, <2>4, <3>1, <3>2, ForgottenTyped DEF Check
    <2>5. \A at \in {"launching", "skipAdvanced", "collided"} : [firing[f] EXCEPT !.at = at] \in Attempts
      BY <1>1 DEF Attempts
    <2>6. CASE \E lost \in SUBSET Targets : Insert(f, lost)
      BY <1>1, <2>5, <2>6 DEF Insert, Move
    <2>7. CASE InsertBlocked(f) \/ InsertCollides(f)
      BY <1>1, <1>2, <2>5, <2>7 DEF InsertBlocked, InsertCollides, Move
    <2>8. CASE Deny(f) \/ AdvanceAgain(f) \/ Skip(f) \/ Launched(f) \/ FiringDies(f)
      BY <1>2, <2>8 DEF Deny, AdvanceAgain, Skip, Launched, FiringDies
    <2> QED
      BY <1>3, <2>1, <2>2, <2>3, <2>4, <2>6, <2>7, <2>8 DEF Fires
  <1>4. CASE firing' = firing
    BY <1>1, <1>4
  <1>5. ASSUME NEW f \in Firings, NEW t \in Targets,
               Runs(f, t) \/ SweepReads(f, t) \/ SweepEnds(f, t)
        PROVE  firing' = firing
    BY <1>5 DEF Runs, Claim, Prompt, LaunchFails, RunCompletes, SweepReads, SweepEnds, SweepFails
  <1>6. ASSUME NEW c \in Callers, Accounts(c) \/ AccountingDies(c) PROVE firing' = firing
    BY <1>6 DEF Accounts, Aggregate, Mark, Strike, Count, AutoPause, Reset, AccountingDies
  <1>7. ASSUME NEW f \in Firings, SweepFinalizes(f) PROVE firing' = firing
    BY <1>7 DEF SweepFinalizes
  <1> QED
    BY <1>3, <1>4, <1>5, <1>6, <1>7 DEF Next, SlotComes, Pause, Resume, vars

LEMMA InvStep == Shape /\ [Next]_vars => inv' \in [Firings -> Invocations]
  <1> SUFFICES ASSUME Shape, [Next]_vars PROVE inv' \in [Firings -> Invocations]
    OBVIOUS
  <1>1. inv \in [Firings -> Invocations]
    BY DEF Shape, TypeOK, RowsOK
  <1>2. ASSUME NEW f \in Firings, Fires(f) PROVE inv' \in [Firings -> Invocations]
    <2>1. [inv[f] EXCEPT !.is = "skipped"] \in Invocations /\ [inv[f] EXCEPT !.is = @] \in Invocations
      BY <1>1 DEF Invocations
    <2>2. CASE Deny(f) \/ Skip(f)
      BY <1>1, <2>1, <2>2 DEF Deny, Skip
    <2>3. CASE \E lost \in SUBSET Targets : Insert(f, lost)
      <3>1. Cardinality(Started) + 1 \in Nat
        BY StartedFinite
      <3>2. [inv[f] EXCEPT !.is = "started", !.no = Cardinality(Started) + 1] \in Invocations
        BY <1>1, <3>1 DEF Invocations
      <3> QED
        BY <1>1, <2>3, <3>2 DEF Insert
    <2> QED
      BY <1>1, <1>2, <2>2, <2>3
      DEF Fires, TickReads, Trigger, EventComes, Check, InsertBlocked, InsertCollides, AdvanceAgain,
          Launched, FiringDies
  <1>3. ASSUME NEW c \in Callers, Accounts(c) \/ AccountingDies(c)
        PROVE  inv' \in [Firings -> Invocations]
    <2>1. \A f \in Firings : [inv[f] EXCEPT !.counted = TRUE] \in Invocations
      BY <1>1 DEF Invocations
    <2> QED
      BY <1>1, <1>3, <2>1
      DEF Accounts, Aggregate, Mark, Strike, Count, AutoPause, Reset, AccountingDies
  <1>4. CASE inv' = inv
    BY <1>1, <1>4
  <1>5. ASSUME NEW f \in Firings, NEW t \in Targets,
               Runs(f, t) \/ SweepReads(f, t) \/ SweepEnds(f, t)
        PROVE  inv' = inv
    BY <1>5 DEF Runs, Claim, Prompt, LaunchFails, RunCompletes, SweepReads, SweepEnds, SweepFails
  <1>6. ASSUME NEW f \in Firings, SweepFinalizes(f) PROVE inv' = inv
    BY <1>6 DEF SweepFinalizes
  <1> QED
    BY <1>2, <1>3, <1>4, <1>5, <1>6 DEF Next, SlotComes, Pause, Resume, vars

LEMMA RunStep == Shape /\ [Next]_vars => run' \in [Firings -> [Targets -> RunRows]]
  <1> SUFFICES ASSUME Shape, [Next]_vars PROVE run' \in [Firings -> [Targets -> RunRows]]
    OBVIOUS
  <1>1. run \in [Firings -> [Targets -> RunRows]]
    BY DEF Shape, TypeOK, RowsOK
  <1>2. ASSUME NEW f \in Firings, Fires(f) PROVE run' \in [Firings -> [Targets -> RunRows]]
    <2>1. \A lost \in SUBSET Targets : Children(lost) \in [Targets -> RunRows]
      BY DEF Children, RunRows
    <2>2. Left(f) \in [Firings -> [Targets -> RunRows]]
      BY <1>1 DEF Left, RunRows
    <2> QED
      BY <1>1, <1>2, <2>1, <2>2
      DEF Fires, TickReads, Trigger, EventComes, Check, Deny, Insert, InsertBlocked, InsertCollides,
          AdvanceAgain, Skip, Launched, FiringDies
  <1>3. ASSUME NEW f \in Firings, NEW t \in Targets, Runs(f, t) \/ SweepEnds(f, t)
        PROVE  run' \in [Firings -> [Targets -> RunRows]]
    <2> DEFINE r == run[f][t]
    <2>1. r \in RunRows /\ run[f] \in [Targets -> RunRows]
      BY <1>1
    <2>2. \A row \in RunRows :
              [run EXCEPT ![f] = [run[f] EXCEPT ![t] = row]] \in [Firings -> [Targets -> RunRows]]
      BY <1>1, <2>1
    <2>3. \A status \in {"none", "starting", "running", "completed", "failed"},
             child \in {"none", "todo", "claimed", "prompted", "failed", "lost"} :
              /\ [status |-> status, child |-> child] \in RunRows
              /\ [r EXCEPT !.child = child] \in RunRows
              /\ [r EXCEPT !.status = status] \in RunRows
              /\ [r EXCEPT !.child = child, !.status = status] \in RunRows
      BY <2>1 DEF RunRows
    <2>4. r.status \in {"none", "starting", "running", "completed", "failed"}
      BY <2>1 DEF RunRows
    <2> HIDE DEF r
    <2>5. CASE Claim(f, t)
      <3>1. [status |-> "running", child |-> "claimed"] \in RunRows /\ [r EXCEPT !.child = "failed"] \in RunRows
        BY <2>3
      <3> QED
        BY <2>2, <2>5, <3>1 DEF Claim, r
    <2>6. CASE Prompt(f, t)
      <3>1. [r EXCEPT !.child = "prompted"] \in RunRows
        BY <2>3
      <3> QED
        BY <2>2, <2>6, <3>1 DEF Prompt, r
    <2>7. ASSUME NEW child \in {"failed", "lost"}, LaunchFails(f, t, child)
          PROVE  run' \in [Firings -> [Targets -> RunRows]]
      <3>1. [r EXCEPT !.child = child] \in RunRows
        BY <2>3
      <3>2. CASE run' = [run EXCEPT ![f][t].child = child]
        BY <2>2, <3>1, <3>2 DEF r
      <3>3. CASE run' = [run EXCEPT ![f][t].child = child,
                                    ![f][t].status = IF IsActive(r) THEN "failed" ELSE @]
        <4>1. PICK status \in {"none", "starting", "running", "completed", "failed"} :
                  run' = [run EXCEPT ![f][t].child = child, ![f][t].status = status]
          <5>1. CASE IsActive(r)
            BY <3>3, <5>1
          <5>2. CASE ~IsActive(r)
            BY <3>3, <5>2, <2>4, <1>1, <2>1 DEF r
          <5> QED
            BY <5>1, <5>2
        <4> DEFINE mid == [r EXCEPT !.child = child]
                   first == [run EXCEPT ![f] = [run[f] EXCEPT ![t] = mid]]
        <4>2. first \in [Firings -> [Targets -> RunRows]] /\ first[f][t] = mid
          BY <2>2, <3>1, <1>1, <2>1
        <4>3. [mid EXCEPT !.status = status] \in RunRows
          BY <3>1 DEF RunRows
        <4>4. run' = [first EXCEPT ![f][t].status = status]
          BY <4>1 DEF r
        <4> HIDE DEF mid, first
        <4> QED
          BY <4>2, <4>3, <4>4
      <3> QED
        BY <2>7, <3>2, <3>3 DEF LaunchFails, r
    <2>8. ASSUME NEW status \in {"completed", "failed"}, RunCompletes(f, t, status)
          PROVE  run' \in [Firings -> [Targets -> RunRows]]
      <3>1. [r EXCEPT !.status = status] \in RunRows
        BY <2>3
      <3> QED
        BY <2>2, <2>8, <3>1 DEF RunCompletes, r
    <2>9. CASE SweepEnds(f, t)
      <3>1. [r EXCEPT !.status = "failed"] \in RunRows /\ [r EXCEPT !.status = r.status] \in RunRows
        BY <2>3, <2>4
      <3> QED
        BY <2>2, <2>9, <3>1 DEF SweepEnds, SweepFails, r
    <2> QED
      BY <1>3, <2>5, <2>6, <2>7, <2>8, <2>9 DEF Runs
  <1>4. CASE run' = run
    BY <1>1, <1>4
  <1>5. ASSUME NEW f \in Firings, NEW t \in Targets, SweepReads(f, t) \/ SweepFinalizes(f)
        PROVE  run' = run
    BY <1>5 DEF SweepReads, SweepFinalizes
  <1>6. ASSUME NEW f \in Firings, SweepFinalizes(f) PROVE run' = run
    BY <1>6 DEF SweepFinalizes
  <1>7. ASSUME NEW c \in Callers, Accounts(c) \/ AccountingDies(c) PROVE run' = run
    BY <1>7 DEF Accounts, Aggregate, Mark, Strike, Count, AutoPause, Reset, AccountingDies
  <1> QED
    BY <1>2, <1>3, <1>4, <1>5, <1>6, <1>7 DEF Next, SlotComes, Pause, Resume, vars

LEMMA AcctStep == Shape /\ [Next]_vars => acct' \in [Callers -> Accountings]
  <1> SUFFICES ASSUME Shape, [Next]_vars PROVE acct' \in [Callers -> Accountings]
    OBVIOUS
  <1>1. acct \in [Callers -> Accountings]
    BY DEF Shape, TypeOK, RowsOK
  <1>2. ASSUME NEW c \in Callers, NEW f \in Firings, Account(c, f)
        PROVE  acct' \in [Callers -> Accountings]
    <2>1. [at |-> "read", on |-> {f}] \in Accountings
      BY DEF Accountings
    <2> QED
      BY <1>1, <1>2, <2>1 DEF Account
  <1>3. ASSUME NEW c \in Callers, NEW at \in {"idle", "mark", "strike", "count", "pause", "reset"}, To(c, at)
        PROVE  acct' \in [Callers -> Accountings]
    <2>1. [at |-> at, on |-> IF at = "mark" THEN acct[c].on ELSE {}] \in Accountings
      BY <1>1 DEF Accountings
    <2> QED
      BY <1>1, <1>3, <2>1 DEF To
  <1>4. "handler" \in Callers /\ "sweep" \in Callers
    BY DEF Callers
  <1>5. ASSUME NEW f \in Firings, Fires(f) PROVE acct' \in [Callers -> Accountings]
    BY <1>1, <1>2, <1>4, <1>5
    DEF Fires, TickReads, Trigger, EventComes, Check, Deny, Insert, InsertBlocked, InsertCollides,
        AdvanceAgain, Skip, Launched, FiringDies
  <1>6. ASSUME NEW f \in Firings, NEW t \in Targets,
               Runs(f, t) \/ SweepReads(f, t) \/ SweepEnds(f, t) \/ SweepFinalizes(f)
        PROVE  acct' \in [Callers -> Accountings]
    BY <1>1, <1>2, <1>4, <1>6
    DEF Runs, Claim, Prompt, LaunchFails, RunCompletes, SweepReads, SweepEnds, SweepFails,
        SweepFinalizes
  <1>7. ASSUME NEW f \in Firings, SweepFinalizes(f) PROVE acct' \in [Callers -> Accountings]
    BY <1>2, <1>4, <1>7 DEF SweepFinalizes
  <1>8. ASSUME NEW c \in Callers, Accounts(c) \/ AccountingDies(c)
        PROVE  acct' \in [Callers -> Accountings]
    BY <1>3, <1>8 DEF Accounts, Aggregate, Mark, Strike, Count, AutoPause, Reset, AccountingDies
  <1> QED
    BY <1>1, <1>5, <1>6, <1>7, <1>8 DEF Next, SlotComes, Pause, Resume, vars

LEMMA HostStep == Shape /\ [Next]_vars => HostOK'
  <1> SUFFICES ASSUME Shape, [Next]_vars PROVE HostOK'
    OBVIOUS
  <1>1. HostOK /\ run \in [Firings -> [Targets -> RunRows]]
    BY DEF Shape, TypeOK, RowsOK
  <1>2. /\ now \in 1..MaxNow /\ MaxNow \in Nat
        /\ upsets \in 0..MaxUpsets /\ MaxUpsets \in Nat
    BY <1>1, AutomationAssumption DEF HostOK
  <1>3. ASSUME NEW f \in Firings, Fires(f) PROVE HostOK'
    BY <1>1, <1>2, <1>3
    DEF HostOK, Fires, TickReads, Trigger, EventComes, Check, Deny, Insert, InsertBlocked,
        InsertCollides, AdvanceAgain, Skip, Launched, FiringDies
  <1>4. ASSUME NEW f \in Firings, NEW t \in Targets, Runs(f, t) \/ SweepReads(f, t) \/ SweepEnds(f, t)
        PROVE  HostOK'
    <2>1. CASE SweepReads(f, t)
      <3>1. run[f][t].status \in {"starting", "running"}
        BY <2>1 DEF SweepReads, IsActive
      <3> QED
        BY <1>1, <2>1, <3>1 DEF SweepReads, HostOK
    <2>2. CASE Runs(f, t) \/ SweepEnds(f, t)
      BY <1>1, <1>2, <2>2
      DEF HostOK, Runs, Claim, Prompt, LaunchFails, RunCompletes, SweepEnds, SweepFails
    <2> QED
      BY <1>4, <2>1, <2>2
  <1>5. ASSUME NEW c \in Callers, Accounts(c) \/ AccountingDies(c) PROVE HostOK'
    <2>1. cut' \in BOOLEAN
      BY <1>1, <1>5, Zenon
      DEF HostOK, Accounts, Aggregate, Mark, Strike, Count, AutoPause, Reset, AccountingDies
    <2>2. now' = now /\ stuck' = stuck /\ upsets' \in 0..MaxUpsets
      <3>1. CASE Accounts(c)
        BY <1>2, <3>1 DEF Accounts, Aggregate, Mark, Strike, Count, AutoPause, Reset
      <3>2. CASE AccountingDies(c)
        <4>1. now' = now /\ stuck' = stuck /\ upsets' = upsets + 1 /\ upsets < MaxUpsets
          BY <3>2, Zenon DEF AccountingDies
        <4> QED
          BY <1>2, <4>1
      <3> QED
        BY <1>5, <3>1, <3>2
    <2> QED
      BY <1>1, <2>1, <2>2 DEF HostOK
  <1>6. ASSUME NEW f \in Firings, SweepFinalizes(f) PROVE HostOK'
    BY <1>1, <1>6 DEF HostOK, SweepFinalizes
  <1>7. CASE SlotComes \/ Pause \/ Resume \/ UNCHANGED vars
    BY <1>1, <1>2, <1>7 DEF HostOK, SlotComes, Pause, Resume, vars
  <1> QED
    BY <1>3, <1>4, <1>5, <1>6, <1>7 DEF Next

LEMMA TypeStep == Shape /\ [Next]_vars => TypeOK'
  BY AutoStep, FiringStep, InvStep, RunStep, AcctStep, HostStep DEF TypeOK, RowsOK

-----------------------------------------------------------------------------
(* What a step keeps.                                                      *)
Inserts(f) == \E lost \in SUBSET Targets : Insert(f, lost)

(* A run that is not active keeps its status.                              *)
LEMMA EndedRunsStay ==
    ASSUME Shape, [Next]_vars, NEW g \in Firings, NEW t \in Targets,
           ~Inserts(g), ~IsActive(run[g][t])
    PROVE  run'[g][t].status = run[g][t].status
  <1>1. run \in [Firings -> [Targets -> RunRows]]
    BY DEF Shape, TypeOK, RowsOK
  <1>2. \A r \in RunRows : \A s, c : [r EXCEPT !.child = c].status = r.status /\ [r EXCEPT !.status = s].status = s
    BY DEF RunRows
  <1>3. ASSUME NEW f \in Firings, run' = Left(f) PROVE run'[g][t].status = run[g][t].status
    BY <1>1, <1>2, <1>3 DEF Left
  <1>4. ASSUME NEW f \in Firings, Fires(f) PROVE run'[g][t].status = run[g][t].status
    <2>1. CASE \E lost \in SUBSET Targets : Insert(f, lost)
      BY <1>1, <2>1 DEF Insert, Inserts
    <2> QED
      BY <1>3, <1>4, <2>1
      DEF Fires, TickReads, Trigger, EventComes, Check, Deny, InsertBlocked, InsertCollides,
          AdvanceAgain, Skip, Launched, FiringDies
  <1>5. ASSUME NEW f \in Firings, NEW u \in Targets, Runs(f, u)
        PROVE  run'[g][t].status = run[g][t].status
    <2>1. CASE Claim(f, u)
      BY <1>1, <1>2, <2>1 DEF Claim, IsActive
    <2>2. CASE Prompt(f, u)
      BY <1>1, <1>2, <2>2 DEF Prompt
    <2>3. ASSUME NEW child \in {"failed", "lost"}, LaunchFails(f, u, child)
          PROVE  run'[g][t].status = run[g][t].status
      <3>1. CASE run' = [run EXCEPT ![f][u].child = child]
        BY <1>1, <1>2, <3>1
      <3>2. CASE run' = [run EXCEPT ![f][u].child = child,
                                    ![f][u].status = IF IsActive(run[f][u]) THEN "failed" ELSE @]
        <4>1. CASE f = g /\ u = t
          BY <1>1, <1>2, <3>2, <4>1 DEF RunRows
        <4>2. CASE ~(f = g /\ u = t)
          BY <1>1, <3>2, <4>2
        <4> QED
          BY <4>1, <4>2
      <3> QED
        BY <2>3, <3>1, <3>2 DEF LaunchFails
    <2>4. CASE \E status \in {"completed", "failed"} : RunCompletes(f, u, status)
      BY <1>1, <1>2, <2>4 DEF RunCompletes
    <2> QED
      BY <1>5, <2>1, <2>2, <2>3, <2>4 DEF Runs
  <1>6. ASSUME NEW f \in Firings, NEW u \in Targets, SweepReads(f, u) \/ SweepEnds(f, u)
        PROVE  run'[g][t].status = run[g][t].status
    <2>1. CASE SweepReads(f, u)
      BY <2>1 DEF SweepReads
    <2>2. ASSUME NEW status \in {"starting", "running"}, SweepFails(f, u, status)
          PROVE  run'[g][t].status = run[g][t].status
      <3>1. run' = [run EXCEPT ![f][u].status = IF run[f][u].status = status THEN "failed" ELSE @]
        BY <2>2 DEF SweepFails
      <3>2. CASE f = g /\ u = t
        <4>1. run[f][u].status # status
          BY <2>2, <3>2 DEF IsActive
        <4> QED
          BY <1>1, <3>1, <3>2, <4>1 DEF RunRows
      <3>3. CASE ~(f = g /\ u = t)
        BY <1>1, <3>1, <3>3
      <3> QED
        BY <3>2, <3>3
    <2> QED
      BY <1>6, <2>1, <2>2 DEF SweepEnds
  <1>7. ASSUME NEW c \in Callers, Accounts(c) \/ AccountingDies(c) PROVE run' = run
    BY <1>7 DEF Accounts, Aggregate, Mark, Strike, Count, AutoPause, Reset, AccountingDies
  <1>8. ASSUME NEW f \in Firings, SweepFinalizes(f) PROVE run' = run
    BY <1>8 DEF SweepFinalizes
  <1> QED
    BY <1>4, <1>5, <1>6, <1>7, <1>8 DEF Next, SlotComes, Pause, Resume, vars

(* An invocation keeps its number, and what it is once it is recorded.     *)
LEMMA InvocationsStay ==
    ASSUME Shape, [Next]_vars, NEW g \in Firings, ~Inserts(g)
    PROVE  /\ inv'[g].no = inv[g].no
           /\ inv'[g].is \in {inv[g].is, "skipped"} /\ (inv[g].is # "none" => inv'[g].is = inv[g].is)
  <1>1. inv \in [Firings -> Invocations]
    BY DEF Shape, TypeOK, RowsOK
  <1>2. ASSUME NEW f \in Firings, Fires(f)
        PROVE  /\ inv'[g].no = inv[g].no
               /\ inv'[g].is \in {inv[g].is, "skipped"} /\ (inv[g].is # "none" => inv'[g].is = inv[g].is)
    <2>1. CASE \E lost \in SUBSET Targets : Insert(f, lost)
      <3>1. f # g
        BY <2>1 DEF Inserts
      <3>2. inv' = [inv EXCEPT ![f].is = "started", ![f].no = Cardinality(Started) + 1]
        BY <2>1 DEF Insert
      <3> QED
        BY <1>1, <3>1, <3>2
    <2>2. CASE Deny(f) \/ Skip(f)
      <3>1. inv[f].is = "none"
        BY <2>2 DEF Shape, Inserted, Deny, Skip
      <3>2. PICK is : (inv' = [inv EXCEPT ![f].is = is] /\ is \in {inv[f].is, "skipped"}) \/ inv' = inv
        BY <1>1, <2>2 DEF Deny, Skip
      <3>3. \A v \in Invocations : \A w : [v EXCEPT !.is = w].no = v.no /\ [v EXCEPT !.is = w].is = w
        BY DEF Invocations
      <3>4. CASE inv' = inv
        BY <3>4
      <3>5. CASE inv' = [inv EXCEPT ![f].is = is] /\ is \in {inv[f].is, "skipped"}
        <4>1. CASE f = g
          BY <1>1, <3>1, <3>3, <3>5, <4>1
        <4>2. CASE f # g
          BY <1>1, <3>5, <4>2
        <4> QED
          BY <4>1, <4>2
      <3> QED
        BY <3>2, <3>4, <3>5
    <2>3. CASE inv' = inv
      BY <2>3
    <2> QED
      BY <1>2, <2>1, <2>2, <2>3
      DEF Fires, TickReads, Trigger, EventComes, Check, InsertBlocked, InsertCollides,
          AdvanceAgain, Launched, FiringDies
  <1>3. ASSUME NEW c \in Callers, Accounts(c) \/ AccountingDies(c)
        PROVE  inv'[g].no = inv[g].no /\ inv'[g].is = inv[g].is
    <2>1. \A v \in Invocations : [v EXCEPT !.counted = TRUE].no = v.no /\ [v EXCEPT !.counted = TRUE].is = v.is
      BY DEF Invocations
    <2> QED
      BY <1>1, <1>3, <2>1 DEF Accounts, Aggregate, Mark, Strike, Count, AutoPause, Reset, AccountingDies
  <1>4. ASSUME NEW f \in Firings, NEW t \in Targets, Runs(f, t) \/ SweepReads(f, t) \/ SweepEnds(f, t)
        PROVE  inv' = inv
    BY <1>4 DEF Runs, Claim, Prompt, LaunchFails, RunCompletes, SweepReads, SweepEnds, SweepFails
  <1>5. ASSUME NEW f \in Firings, SweepFinalizes(f) PROVE inv' = inv
    BY <1>5 DEF SweepFinalizes
  <1>6. CASE inv' = inv
    BY <1>6
  <1> QED
    BY <1>2, <1>3, <1>4, <1>5, <1>6 DEF Next, SlotComes, Pause, Resume, vars

(* The firing of an invocation keeps what it fired for.                    *)
LEMMA FiringsStay ==
    ASSUME Shape, [Next]_vars, NEW g \in Started
    PROVE  /\ firing'[g].source = firing[g].source
           /\ firing'[g].on = firing[g].on
           /\ firing'[g].at \in {firing[g].at, "done"}
  <1> DEFINE Stays == /\ firing'[g].source = firing[g].source
                      /\ firing'[g].on = firing[g].on
                      /\ firing'[g].at \in {firing[g].at, "done"}
  <1>1. firing \in [Firings -> Attempts] /\ inv \in [Firings -> Invocations]
    BY DEF Shape, TypeOK, RowsOK
  <1>2. g \in Firings /\ inv[g].is = "started"
    BY DEF Started
  <1>3. firing[g].at \notin {"idle", "due", "build", "skip", "skipAdvanced", "collided"}
    BY <1>2 DEF Shape, Inserted
  <1>4. inv'[g].is = "started"
    <2>1. ~Inserts(g)
      BY <1>3 DEF Inserts, Insert
    <2> QED
      BY <1>2, <2>1, InvocationsStay
  <1>5. CASE firing' = firing
    BY <1>5
  <1>6. ASSUME NEW f \in Firings, Fires(f) PROVE Stays
    <2>1. CASE Over(f)
      <3>1. \A r \in Attempts : /\ [r EXCEPT !.at = "done", !.upto = 0].source = r.source
                                /\ [r EXCEPT !.at = "done", !.upto = 0].on = r.on
                                /\ [r EXCEPT !.at = "done", !.upto = 0].at = "done"
        BY DEF Attempts
      <3>2. CASE f = g
        <4>1. firing' = [firing EXCEPT ![g] = [@ EXCEPT !.at = "done", !.upto = 0]]
          BY <1>4, <2>1, <3>2 DEF Over
        <4> QED
          BY <1>1, <1>2, <3>1, <4>1
      <3>3. CASE f # g
        BY <1>1, <1>2, <2>1, <3>3 DEF Over
      <3> QED
        BY <3>2, <3>3
    <2>2. CASE f # g /\ \E row : firing' = [firing EXCEPT ![f] = row]
      BY <1>1, <1>2, <2>2
    <2>3. CASE TickReads(f) \/ Trigger(f) \/ \E k \in Keys, e \in Events : EventComes(f, k, e)
      <3>1. firing[f] = NoFiring
        BY <2>3 DEF TickReads, Trigger, EventComes
      <3>2. f # g
        BY <1>3, <3>1 DEF NoFiring
      <3> QED
        BY <1>1, <1>2, <2>3, <3>2 DEF TickReads, Trigger, EventComes
    <2>4. CASE Check(f)
      BY <1>3, <2>2, <2>4 DEF Check
    <2>5. CASE \E lost \in SUBSET Targets : Insert(f, lost)
      BY <1>1, <1>2, <1>3, <2>5 DEF Insert, Move
    <2>6. CASE InsertBlocked(f) \/ InsertCollides(f)
      BY <1>1, <1>2, <1>3, <2>1, <2>6 DEF InsertBlocked, InsertCollides, Move
    <2>7. CASE Deny(f) \/ AdvanceAgain(f) \/ Skip(f) \/ Launched(f) \/ FiringDies(f)
      BY <2>1, <2>7 DEF Deny, AdvanceAgain, Skip, Launched, FiringDies
    <2> QED
      BY <1>6, <2>3, <2>4, <2>5, <2>6, <2>7 DEF Fires
  <1>7. ASSUME NEW f \in Firings, NEW t \in Targets,
               Runs(f, t) \/ SweepReads(f, t) \/ SweepEnds(f, t)
        PROVE  firing' = firing
    BY <1>7 DEF Runs, Claim, Prompt, LaunchFails, RunCompletes, SweepReads, SweepEnds, SweepFails
  <1>8. ASSUME NEW c \in Callers, Accounts(c) \/ AccountingDies(c) PROVE firing' = firing
    BY <1>8 DEF Accounts, Aggregate, Mark, Strike, Count, AutoPause, Reset, AccountingDies
  <1>9. ASSUME NEW f \in Firings, SweepFinalizes(f) PROVE firing' = firing
    BY <1>9 DEF SweepFinalizes
  <1> QED
    BY <1>5, <1>6, <1>7, <1>8, <1>9 DEF Next, SlotComes, Pause, Resume, vars

(* Only startInvocation itself leads a firing to an invocation.            *)
LEMMA FiringsMove ==
    ASSUME Shape, [Next]_vars, NEW g \in Firings, ~Inserts(g)
    PROVE  /\ firing'[g].at = "launching" => firing[g].at = "launching"
           /\ firing[g].at = "done" => firing'[g].at = "done"
           /\ firing'[g].at # "done" => inv'[g].is = inv[g].is
  <1> DEFINE Moves == /\ firing'[g].at = "launching" => firing[g].at = "launching"
                      /\ firing[g].at = "done" => firing'[g].at = "done"
                      /\ firing'[g].at # "done" => inv'[g].is = inv[g].is
  <1>1. firing \in [Firings -> Attempts] /\ inv \in [Firings -> Invocations]
    BY DEF Shape, TypeOK, RowsOK
  <1>2. CASE firing' = firing /\ inv' = inv
    BY <1>2
  <1>3. ASSUME NEW f \in Firings, Over(f) PROVE firing'[f].at = "done"
    <2>1. [firing[f] EXCEPT !.at = "done", !.upto = 0].at = "done" /\ Forgotten.at = "done"
      BY <1>1 DEF Attempts, Forgotten, NoFiring
    <2>2. firing'[f] = Forgotten \/ firing'[f] = [firing[f] EXCEPT !.at = "done", !.upto = 0]
      BY <1>1, <1>3 DEF Over
    <2> QED
      BY <2>1, <2>2
  <1>4. ASSUME NEW f \in Firings, Fires(f) PROVE Moves
    <2>1. CASE f # g
      <3>1. firing'[g] = firing[g]
        BY <1>1, <1>4, <2>1
        DEF Fires, TickReads, Trigger, EventComes, Check, Deny, Insert, InsertBlocked, InsertCollides,
            AdvanceAgain, Skip, Launched, FiringDies, Move, Over
      <3>2. inv'[g] = inv[g]
        BY <1>1, <1>4, <2>1
        DEF Fires, TickReads, Trigger, EventComes, Check, Deny, Insert, InsertBlocked, InsertCollides,
            AdvanceAgain, Skip, Launched, FiringDies
      <3> QED
        BY <3>1, <3>2
    <2>2. CASE f = g
      <3>1. CASE TickReads(f) \/ Trigger(f) \/ \E k \in Keys, e \in Events : EventComes(f, k, e)
        <4>1. firing[g].at = "idle" /\ firing'[g].at = "due" /\ inv' = inv
          BY <1>1, <2>2, <3>1 DEF TickReads, Trigger, EventComes, NoFiring
        <4> QED
          BY <4>1
      <3>2. CASE Check(f)
        <4>1. firing[g].at = "due" /\ firing'[g].at \in {"skip", "build", "done"} /\ inv' = inv
          BY <1>1, <2>2, <3>2 DEF Check, Forgotten, NoFiring, Attempts
        <4> QED
          BY <4>1
      <3>3. CASE InsertBlocked(f) \/ InsertCollides(f)
        <4>1. firing[g].at = "build" /\ firing'[g].at \in {"skipAdvanced", "collided", "done"} /\ inv' = inv
          BY <1>1, <1>3, <2>2, <3>3 DEF InsertBlocked, InsertCollides, Move, Attempts
        <4> QED
          BY <4>1
      <3>4. CASE Over(f)
        BY <1>3, <2>2, <3>4
      <3>5. CASE \E lost \in SUBSET Targets : Insert(f, lost)
        BY <2>2, <3>5 DEF Inserts
      <3> QED
        BY <1>4, <3>1, <3>2, <3>3, <3>4, <3>5
        DEF Fires, Deny, AdvanceAgain, Skip, Launched, FiringDies
    <2> QED
      BY <2>1, <2>2
  <1>5. ASSUME NEW f \in Firings, NEW t \in Targets,
               Runs(f, t) \/ SweepReads(f, t) \/ SweepEnds(f, t)
        PROVE  firing' = firing /\ inv' = inv
    BY <1>5 DEF Runs, Claim, Prompt, LaunchFails, RunCompletes, SweepReads, SweepEnds, SweepFails
  <1>6. ASSUME NEW c \in Callers, Accounts(c) \/ AccountingDies(c) PROVE Moves
    <2>1. firing' = firing
      BY <1>6 DEF Accounts, Aggregate, Mark, Strike, Count, AutoPause, Reset, AccountingDies
    <2>2. \A v \in Invocations : [v EXCEPT !.counted = TRUE].is = v.is
      BY DEF Invocations
    <2>3. inv'[g].is = inv[g].is
      BY <1>1, <1>6, <2>2 DEF Accounts, Aggregate, Mark, Strike, Count, AutoPause, Reset, AccountingDies
    <2> QED
      BY <2>1, <2>3
  <1>7. ASSUME NEW f \in Firings, SweepFinalizes(f) PROVE firing' = firing /\ inv' = inv
    BY <1>7 DEF SweepFinalizes
  <1> QED
    BY <1>2, <1>4, <1>5, <1>6, <1>7 DEF Next, SlotComes, Pause, Resume, vars

LEMMA InsertedStep == Shape /\ [Next]_vars => Inserted'
  <1> SUFFICES ASSUME Shape, [Next]_vars, NEW g \in Firings
               PROVE  /\ firing'[g].at \in {"idle", "due", "build", "skip", "skipAdvanced", "collided"} =>
                             inv'[g].is = "none"
                      /\ firing'[g].at = "launching" => inv'[g].is = "started"
    BY DEF Inserted, Started
  <1>1. firing \in [Firings -> Attempts] /\ inv \in [Firings -> Invocations]
    BY DEF Shape, TypeOK, RowsOK
  <1>2. CASE Inserts(g)
    <2>1. firing'[g].at = "launching"
      BY <1>1, <1>2 DEF Inserts, Insert, Move, Attempts
    <2>2. inv'[g].is = "started"
      <3>1. inv' = [inv EXCEPT ![g].is = "started", ![g].no = Cardinality(Started) + 1]
        BY <1>2 DEF Inserts, Insert
      <3> QED
        BY <1>1, <3>1 DEF Invocations
    <2> QED
      BY <2>1, <2>2
  <1>3. CASE ~Inserts(g)
    <2>1. /\ firing'[g].at = "launching" => firing[g].at = "launching"
          /\ firing[g].at = "done" => firing'[g].at = "done"
          /\ firing'[g].at # "done" => inv'[g].is = inv[g].is
      BY <1>3, FiringsMove
    <2>2. /\ firing[g].at \in {"idle", "due", "build", "skip", "skipAdvanced", "collided"} =>
                 inv[g].is = "none"
          /\ firing[g].at = "launching" => inv[g].is = "started"
      BY DEF Shape, Inserted, Started
    <2>3. inv[g].is = "started" => firing'[g].at \in {firing[g].at, "done"}
      BY FiringsStay DEF Started
    <2>4. firing[g].at \in {"idle", "due", "build", "collided", "skip", "skipAdvanced", "launching", "done"}
      BY <1>1 DEF Attempts
    <2> QED
      BY <2>1, <2>2, <2>3, <2>4
  <1> QED
    BY <1>2, <1>3

-----------------------------------------------------------------------------
(* The invocations that have started grow by the one that is inserted.     *)
LEMMA InsertAdds ==
    ASSUME Shape, NEW h \in Firings, Inserts(h)
    PROVE  /\ Started' = Started \cup {h} /\ h \notin Started
           /\ inv'[h].no = Cardinality(Started) + 1
           /\ Cardinality(Started') = Cardinality(Started) + 1
           /\ firing'[h].source = firing[h].source /\ firing'[h].on = firing[h].on
           /\ \A g \in Firings \ {h} :
                  firing'[g] = firing[g] /\ inv'[g] = inv[g] /\ run'[g] = run[g]
  <1>1. /\ firing \in [Firings -> Attempts] /\ inv \in [Firings -> Invocations]
        /\ run \in [Firings -> [Targets -> RunRows]]
    BY DEF Shape, TypeOK, RowsOK
  <1>2. PICK lost \in SUBSET Targets : Insert(h, lost)
    BY DEF Inserts
  <1>3. h \notin Started
    BY <1>2 DEF Insert, Shape, Inserted, Started
  <1>4. inv'[h].is = "started" /\ inv'[h].no = Cardinality(Started) + 1
    <2>1. inv' = [inv EXCEPT ![h].is = "started", ![h].no = Cardinality(Started) + 1]
      BY <1>2 DEF Insert
    <2> QED
      BY <1>1, <2>1 DEF Invocations
  <1>5. \A g \in Firings \ {h} : inv'[g] = inv[g]
    <2>1. inv' = [inv EXCEPT ![h].is = "started", ![h].no = Cardinality(Started) + 1]
      BY <1>2 DEF Insert
    <2> QED
      BY <1>1, <2>1
  <1>6. Started' = Started \cup {h}
    BY <1>4, <1>5 DEF Started
  <1>7. Cardinality(Started') = Cardinality(Started) + 1
    BY <1>3, <1>6, StartedFinite, FS_AddElement
  <1>8. firing'[h].source = firing[h].source /\ firing'[h].on = firing[h].on
    BY <1>1, <1>2 DEF Insert, Move, Attempts
  <1>9. \A g \in Firings \ {h} : firing'[g] = firing[g] /\ run'[g] = run[g]
    BY <1>1, <1>2 DEF Insert, Move
  <1> QED
    BY <1>3, <1>4, <1>5, <1>6, <1>7, <1>8, <1>9

LEMMA NothingAdded ==
    ASSUME Shape, [Next]_vars, \A g \in Firings : ~Inserts(g)
    PROVE  Started' = Started
  <1>1. \A g \in Firings : inv'[g].is = "started" <=> inv[g].is = "started"
    BY InvocationsStay
  <1> QED
    BY <1>1 DEF Started

LEMMA RootedStep == Shape /\ [Next]_vars => Rooted'
  <1> SUFFICES ASSUME Shape, [Next]_vars, NEW g \in Firings
               PROVE  /\ g \notin Started' => \A t \in Targets : run'[g][t].status = "none"
                      /\ g \in Started' => inv'[g].no <= Cardinality(Started')
    BY DEF Rooted
  <1>1. inv \in [Firings -> Invocations] /\ Cardinality(Started) \in Nat
    BY StartedFinite DEF Shape, TypeOK, RowsOK
  <1>2. inv[g].no \in Nat
    BY <1>1 DEF Invocations
  <1>3. ASSUME NEW h \in Firings, Inserts(h)
        PROVE  /\ g \notin Started' => \A t \in Targets : run'[g][t].status = "none"
               /\ g \in Started' => inv'[g].no <= Cardinality(Started')
    <2>1. CASE g = h
      BY <1>1, <1>3, <2>1, InsertAdds
    <2>2. CASE g # h
      <3>1. inv'[g] = inv[g] /\ run'[g] = run[g] /\ (g \in Started' <=> g \in Started)
        BY <1>3, <2>2, InsertAdds
      <3>2. Cardinality(Started') = Cardinality(Started) + 1
        BY <1>3, InsertAdds
      <3> QED
        BY <1>1, <1>2, <3>1, <3>2 DEF Shape, Rooted
    <2> QED
      BY <2>1, <2>2
  <1>4. CASE \A h \in Firings : ~Inserts(h)
    <2>1. Started' = Started
      BY <1>4, NothingAdded
    <2>2. inv'[g].no = inv[g].no
      BY <1>4, InvocationsStay
    <2>3. ASSUME g \notin Started, NEW t \in Targets PROVE run'[g][t].status = "none"
      <3>1. run[g][t].status = "none"
        BY <2>3 DEF Shape, Rooted
      <3> QED
        BY <1>4, <3>1, EndedRunsStay DEF IsActive
    <2> QED
      BY <2>1, <2>2, <2>3 DEF Shape, Rooted
  <1> QED
    BY <1>3, <1>4

LEMMA ShapeStep == Shape /\ [Next]_vars => Shape'
  BY TypeStep, InsertedStep, RootedStep DEF Shape

LEMMA NoOverlapStep == Shape /\ NoOverlap /\ [Next]_vars => NoOverlap'
  <1> SUFFICES ASSUME Shape, NoOverlap, [Next]_vars,
                      NEW f \in Started', NEW g \in Started',
                      Active(f)', Active(g)', inv'[f].no < inv'[g].no
               PROVE  /\ firing'[g].source = "event"
                      /\ firing'[f].source = "event" => firing'[f].on[1] # firing'[g].on[1]
    BY DEF NoOverlap
  <1>1. inv \in [Firings -> Invocations] /\ Cardinality(Started) \in Nat
    BY StartedFinite DEF Shape, TypeOK, RowsOK
  <1>2. f \in Firings /\ g \in Firings
    BY DEF Started
  <1>3. inv[f].no \in Nat /\ inv[g].no \in Nat
    BY <1>1, <1>2 DEF Invocations
  <1>4. CASE \A h \in Firings : ~Inserts(h)
    <2>1. f \in Started /\ g \in Started
      BY <1>4, NothingAdded
    <2>2. inv[f].no < inv[g].no
      BY <1>2, <1>4, InvocationsStay
    <2>3. Active(f) /\ Active(g)
      BY <1>2, <1>4, EndedRunsStay DEF Active, IsActive
    <2>4. /\ firing'[f].source = firing[f].source /\ firing'[f].on = firing[f].on
          /\ firing'[g].source = firing[g].source /\ firing'[g].on = firing[g].on
      BY <2>1, FiringsStay
    <2> QED
      BY <2>1, <2>2, <2>3, <2>4 DEF NoOverlap
  <1>5. ASSUME NEW h \in Firings, Inserts(h)
        PROVE  /\ firing'[g].source = "event"
               /\ firing'[f].source = "event" => firing'[f].on[1] # firing'[g].on[1]
    <2>1. f # h
      <3>1. SUFFICES ASSUME f = h PROVE FALSE
        OBVIOUS
      <3>2. g # h /\ g \in Started /\ inv'[g].no = inv[g].no
        BY <1>1, <1>2, <1>5, <3>1, InsertAdds
      <3>3. inv[g].no <= Cardinality(Started) /\ inv'[f].no = Cardinality(Started) + 1
        BY <1>2, <1>5, <3>1, <3>2, InsertAdds DEF Shape, Rooted
      <3> QED
        BY <1>1, <1>3, <3>2, <3>3
    <2>2. f \in Started /\ firing'[f] = firing[f] /\ inv'[f] = inv[f] /\ run'[f] = run[f]
      BY <1>2, <1>5, <2>1, InsertAdds
    <2>3. Active(f)
      BY <2>2 DEF Active, IsActive
    <2>4. CASE g = h
      <3>1. ~Overlap(g)
        BY <1>5, <2>4 DEF Inserts, Insert
      <3>2. firing'[g].source = firing[g].source /\ firing'[g].on = firing[g].on
        BY <1>5, <2>4, InsertAdds
      <3> QED
        BY <1>2, <2>2, <2>3, <3>1, <3>2 DEF Overlap
    <2>5. CASE g # h
      <3>1. g \in Started /\ firing'[g] = firing[g] /\ inv'[g] = inv[g] /\ run'[g] = run[g]
        BY <1>2, <1>5, <2>5, InsertAdds
      <3>2. Active(g)
        BY <3>1 DEF Active, IsActive
      <3> QED
        BY <2>2, <2>3, <3>1, <3>2 DEF NoOverlap
    <2> QED
      BY <2>4, <2>5
  <1> QED
    BY <1>4, <1>5

-----------------------------------------------------------------------------
(* The schedule.                                                           *)

LEMMA AheadStep == Shape /\ Ahead /\ [Next]_vars => Ahead'
  <1> DEFINE AheadOf(f) == firing[f].source = "schedule" =>
                 /\ firing[f].at = "due" => firing[f].slot <= now
                 /\ firing[f].at \in {"build", "skip"} => firing[f].slot < firing[f].upto
  <1> SUFFICES ASSUME Shape, Ahead, [Next]_vars, NEW g \in Firings PROVE AheadOf(g)'
    BY DEF Ahead
  <1>1. /\ firing \in [Firings -> Attempts] /\ now \in Nat /\ auto \in Automations
        /\ AheadOf(g)
    BY AutomationAssumption DEF Shape, TypeOK, RowsOK, HostOK, Ahead
  <1>2. firing[g].slot \in Nat /\ firing[g].upto \in Nat
    BY <1>1 DEF Attempts
  <1>3. CASE firing'[g] = firing[g] /\ now' \in {now, now + 1}
    BY <1>1, <1>2, <1>3
  <1>4. CASE firing'[g].at \notin {"due", "build", "skip"}
    BY <1>4
  <1>5. ASSUME NEW f \in Firings, Over(f)
        PROVE  firing'[g] = firing[g] \/ firing'[g].at \notin {"due", "build", "skip"}
    <2>1. [firing[f] EXCEPT !.at = "done", !.upto = 0].at = "done" /\ Forgotten.at = "done"
      BY <1>1 DEF Attempts, Forgotten, NoFiring
    <2> QED
      BY <1>1, <1>5, <2>1 DEF Over
  <1>6. ASSUME NEW f \in Firings, Fires(f) PROVE AheadOf(g)'
    <2>1. CASE TickReads(f)
      <3>1. CASE f = g
        <4>1. firing'[g].at = "due" /\ firing'[g].slot = auto.next /\ auto.next \in 1..now /\ now' = now
          BY <1>1, <2>1, <3>1 DEF TickReads, Attempts
        <4> QED
          BY <1>1, <4>1
      <3>2. CASE f # g
        BY <1>1, <1>3, <2>1, <3>2 DEF TickReads
      <3> QED
        BY <3>1, <3>2
    <2>2. CASE Trigger(f) \/ \E k \in Keys, e \in Events : EventComes(f, k, e)
      <3>1. CASE f = g
        <4>1. firing'[g].source \in {"manual", "event"}
          BY <1>1, <2>2, <3>1 DEF Trigger, EventComes, Attempts
        <4> QED
          BY <4>1
      <3>2. CASE f # g
        BY <1>1, <1>3, <2>2, <3>2 DEF Trigger, EventComes
      <3> QED
        BY <3>1, <3>2
    <2>3. CASE Check(f)
      <3>1. CASE f = g
        <4>1. CASE firing'[g].at = "done"
          BY <1>4, <4>1
        <4>2. CASE firing'[g].at # "done"
          <5>1. firing[g].at = "due"
            BY <2>3, <3>1 DEF Check
          <5>2. firing'[g] # Forgotten
            BY <4>2 DEF Forgotten, NoFiring
          <5>3. firing'[g] = [firing[g] EXCEPT !.at = IF Overlap(g) THEN "skip" ELSE "build",
                                               !.upto = IF firing[g].source = "schedule" THEN now + 1 ELSE 0]
            BY <1>1, <2>3, <3>1, <5>2 DEF Check
          <5>4. /\ firing'[g].source = firing[g].source /\ firing'[g].slot = firing[g].slot
                /\ firing'[g].upto = IF firing[g].source = "schedule" THEN now + 1 ELSE 0
                /\ firing'[g].at \in {"skip", "build"}
            BY <1>1, <5>3 DEF Attempts
          <5> QED
            BY <1>1, <1>2, <5>1, <5>4
        <4> QED
          BY <4>1, <4>2
      <3>2. CASE f # g
        BY <1>1, <1>3, <2>3, <3>2 DEF Check
      <3> QED
        BY <3>1, <3>2
    <2>4. ASSUME NEW at \in {"launching", "skipAdvanced", "collided"}, Move(f, at), now' = now
          PROVE  AheadOf(g)'
      <3>1. firing'[g] = firing[g] \/ firing'[g].at = at
        BY <1>1, <2>4 DEF Move, Attempts
      <3> QED
        BY <1>3, <1>4, <2>4, <3>1
    <2>5. CASE Over(f) /\ now' = now
      BY <1>3, <1>4, <1>5, <2>5
    <2>6. CASE \E lost \in SUBSET Targets : Insert(f, lost)
      BY <2>4, <2>6 DEF Insert
    <2>7. CASE InsertBlocked(f) \/ InsertCollides(f)
      BY <2>4, <2>5, <2>7 DEF InsertBlocked, InsertCollides
    <2> QED
      BY <1>6, <2>1, <2>2, <2>3, <2>5, <2>6, <2>7
      DEF Fires, Deny, AdvanceAgain, Skip, Launched, FiringDies
  <1>7. ASSUME NEW f \in Firings, NEW t \in Targets,
               Runs(f, t) \/ SweepReads(f, t) \/ SweepEnds(f, t)
        PROVE  firing' = firing /\ now' = now
    BY <1>7 DEF Runs, Claim, Prompt, LaunchFails, RunCompletes, SweepReads, SweepEnds, SweepFails
  <1>8. ASSUME NEW c \in Callers, Accounts(c) \/ AccountingDies(c) PROVE firing' = firing /\ now' = now
    BY <1>8 DEF Accounts, Aggregate, Mark, Strike, Count, AutoPause, Reset, AccountingDies
  <1>9. ASSUME NEW f \in Firings, SweepFinalizes(f) PROVE firing' = firing /\ now' = now
    BY <1>9 DEF SweepFinalizes
  <1> QED
    BY <1>3, <1>6, <1>7, <1>8, <1>9 DEF Next, SlotComes, Pause, Resume, vars

LEMMA NeverRewindsStep ==
    ASSUME Shape, Ahead, [Next]_vars, firing' # firing, auto.next # 0, auto'.next # 0
    PROVE  auto.next <= auto'.next
  <1>1. auto \in Automations /\ firing \in [Firings -> Attempts] /\ auto.next \in Nat
    BY DEF Shape, TypeOK, RowsOK, Automations
  <1>2. CASE auto' = auto
    BY <1>1, <1>2
  <1>3. ASSUME NEW f \in Firings, Fires(f) PROVE auto.next <= auto'.next
    <2>1. firing[f].upto \in Nat /\ firing[f].slot \in Nat
      BY <1>1 DEF Attempts
    <2>2. CASE firing[f].at \in {"build", "skip"} /\ auto' = Advanced(f)
      BY <1>1, <2>1, <2>2 DEF Advanced, Ahead, Automations
    <2>3. CASE AdvanceAgain(f)
      BY <1>1, <2>1, <2>3 DEF AdvanceAgain, Automations
    <2>4. CASE Deny(f)
      <3>1. auto' = auto \/ auto'.next = 0
        BY <1>1, <2>4 DEF Deny, Automations
      <3> QED
        BY <1>2, <3>1
    <2> QED
      BY <1>2, <1>3, <2>2, <2>3, <2>4
      DEF Fires, TickReads, Trigger, EventComes, Check, Insert, InsertBlocked, InsertCollides, Skip,
          Launched, FiringDies
  <1>4. ASSUME NEW f \in Firings, NEW t \in Targets,
               Runs(f, t) \/ SweepReads(f, t) \/ SweepEnds(f, t) \/ SweepFinalizes(f)
        PROVE  firing' = firing
    BY <1>4
    DEF Runs, Claim, Prompt, LaunchFails, RunCompletes, SweepReads, SweepEnds, SweepFails, SweepFinalizes
  <1>5. ASSUME NEW c \in Callers, Accounts(c) \/ AccountingDies(c) PROVE firing' = firing
    BY <1>5 DEF Accounts, Aggregate, Mark, Strike, Count, AutoPause, Reset, AccountingDies
  <1>6. ASSUME NEW f \in Firings, SweepFinalizes(f) PROVE firing' = firing
    BY <1>6 DEF SweepFinalizes
  <1> QED
    BY <1>3, <1>4, <1>5, <1>6 DEF Next, SlotComes, Pause, Resume, vars

-----------------------------------------------------------------------------
(* The strikes.                                                            *)

(* A step that is not one of an accounting counts no strike, enables       *)
(* nothing without forgiving them all, and marks nothing.                  *)
LEMMA OthersKeep ==
    ASSUME Shape, [Next]_vars, \A c \in Callers : ~Accounts(c) /\ ~AccountingDies(c)
    PROVE  /\ \/ auto'.failures = 0
              \/ auto'.failures = auto.failures /\ (auto'.enabled => auto.enabled)
           /\ cut' = cut
           /\ \A g \in Firings : inv'[g].counted = inv[g].counted
  <1> DEFINE Kept == \/ auto'.failures = 0
                     \/ auto'.failures = auto.failures /\ (auto'.enabled => auto.enabled)
  <1>1. auto \in Automations /\ inv \in [Firings -> Invocations]
    BY DEF Shape, TypeOK, RowsOK
  <1>2. \A n : /\ [auto EXCEPT !.enabled = FALSE, !.next = n].failures = auto.failures
               /\ ~[auto EXCEPT !.enabled = FALSE, !.next = n].enabled
               /\ [auto EXCEPT !.next = n].failures = auto.failures
               /\ [auto EXCEPT !.next = n].enabled = auto.enabled
    BY <1>1 DEF Automations
  <1>3. CASE Resume
    <2> DEFINE next == IF auto.trigger = "schedule" THEN now + 1 ELSE 0
    <2>1. auto' = [auto EXCEPT !.enabled = TRUE, !.failures = 0, !.next = next]
      BY <1>3 DEF Resume
    <2>2. auto'.failures = 0
      BY <1>1, <2>1 DEF Automations
    <2> QED
      BY <1>3, <2>2 DEF Resume
  <1>4. CASE Pause
    <2>1. auto' = [auto EXCEPT !.enabled = FALSE, !.next = 0]
      BY <1>4 DEF Pause
    <2> QED
      BY <1>2, <1>4, <2>1 DEF Pause
  <1>5. ASSUME NEW f \in Firings, Fires(f)
        PROVE  Kept /\ cut' = cut /\ \A g \in Firings : inv'[g].counted = inv[g].counted
    <2>1. Advanced(f).failures = auto.failures /\ Advanced(f).enabled = auto.enabled
      BY <1>2 DEF Advanced
    <2>2. Kept
      <3>1. CASE auto' = auto \/ auto' = Advanced(f)
        BY <2>1, <3>1
      <3>2. CASE \E n : auto' = [auto EXCEPT !.next = n]
        BY <1>2, <3>2
      <3>3. CASE auto' = [auto EXCEPT !.enabled = FALSE, !.next = 0]
        BY <1>2, <3>3
      <3> QED
        BY <1>5, <3>1, <3>2, <3>3
        DEF Fires, TickReads, Trigger, EventComes, Check, Deny, Insert, InsertBlocked, InsertCollides,
            AdvanceAgain, Skip, Launched, FiringDies
    <2>3. cut' = cut
      BY <1>5
      DEF Fires, TickReads, Trigger, EventComes, Check, Deny, Insert, InsertBlocked, InsertCollides,
          AdvanceAgain, Skip, Launched, FiringDies
    <2>4. \A v \in Invocations : \A is, no :
            /\ [v EXCEPT !.is = is].counted = v.counted
            /\ [v EXCEPT !.is = is, !.no = no].counted = v.counted
      BY DEF Invocations
    <2>5. CASE \E lost \in SUBSET Targets : Insert(f, lost)
      <3>1. inv' = [inv EXCEPT ![f].is = "started", ![f].no = Cardinality(Started) + 1]
        BY <2>5 DEF Insert
      <3>2. \A g \in Firings : inv'[g].counted = inv[g].counted
        BY <1>1, <2>4, <3>1
      <3> QED
        BY <2>2, <2>3, <3>2
    <2>6. CASE Deny(f) \/ Skip(f)
      <3>1. inv' = inv \/ \E is : inv' = [inv EXCEPT ![f].is = is]
        BY <2>6 DEF Deny, Skip
      <3>2. ASSUME NEW is, inv' = [inv EXCEPT ![f].is = is], NEW g \in Firings
            PROVE  inv'[g].counted = inv[g].counted
        <4>1. inv'[g] = IF g = f THEN [inv[g] EXCEPT !.is = is] ELSE inv[g]
          BY <1>1, <3>2
        <4> QED
          BY <1>1, <2>4, <4>1
      <3> QED
        BY <2>2, <2>3, <3>1, <3>2
    <2>7. CASE inv' = inv
      BY <2>2, <2>3, <2>7
    <2> QED
      BY <1>5, <2>5, <2>6, <2>7
      DEF Fires, TickReads, Trigger, EventComes, Check, InsertBlocked, InsertCollides, AdvanceAgain,
          Launched, FiringDies
  <1>6. ASSUME NEW f \in Firings, NEW t \in Targets, Runs(f, t) \/ SweepReads(f, t) \/ SweepEnds(f, t)
        PROVE  auto' = auto /\ cut' = cut /\ inv' = inv
    BY <1>6 DEF Runs, Claim, Prompt, LaunchFails, RunCompletes, SweepReads, SweepEnds, SweepFails
  <1>7. ASSUME NEW f \in Firings, SweepFinalizes(f) PROVE auto' = auto /\ cut' = cut /\ inv' = inv
    BY <1>7 DEF SweepFinalizes
  <1>8. CASE auto' = auto /\ cut' = cut /\ inv' = inv
    BY <1>8
  <1> QED
    BY <1>3, <1>4, <1>5, <1>6, <1>7, <1>8 DEF Next, SlotComes, vars

(* An accounting begins, for an invocation that has started.               *)
LEMMA OthersAccount ==
    ASSUME Shape, Accountable, [Next]_vars, \A c \in Callers : ~Accounts(c) /\ ~AccountingDies(c)
    PROVE  acct' = acct \/ \E c \in Callers, f \in Started : Account(c, f)
  <1>1. "handler" \in Callers /\ "sweep" \in Callers
    BY DEF Callers
  <1>2. ASSUME NEW f \in Firings, Fires(f)
        PROVE  acct' = acct \/ \E c \in Callers, g \in Started : Account(c, g)
    <2>1. CASE Launched(f)
      BY <1>1, <2>1 DEF Launched, Shape, Inserted
    <2> QED
      BY <1>2, <2>1
      DEF Fires, TickReads, Trigger, EventComes, Check, Deny, Insert, InsertBlocked, InsertCollides,
          AdvanceAgain, Skip, FiringDies
  <1>3. ASSUME NEW f \in Firings, NEW t \in Targets, Runs(f, t) \/ SweepReads(f, t) \/ SweepEnds(f, t)
        PROVE  acct' = acct \/ \E c \in Callers, g \in Started : Account(c, g)
    <2>1. CASE \E status \in {"completed", "failed"} : RunCompletes(f, t, status)
      <3>1. f \in Started
        BY <2>1 DEF RunCompletes, IsActive, Shape, Rooted
      <3> QED
        BY <1>1, <2>1, <3>1 DEF RunCompletes
    <2>2. CASE SweepEnds(f, t)
      <3>1. f \in Started
        BY <2>2 DEF SweepEnds, SweepFails, Accountable
      <3> QED
        BY <1>1, <2>2, <3>1 DEF SweepEnds, SweepFails
    <2> QED
      BY <1>3, <2>1, <2>2 DEF Runs, Claim, Prompt, LaunchFails, SweepReads
  <1>4. ASSUME NEW f \in Firings, SweepFinalizes(f)
        PROVE  acct' = acct \/ \E c \in Callers, g \in Started : Account(c, g)
    BY <1>1, <1>4 DEF SweepFinalizes, Uncounted, ResetCandidates
  <1> QED
    BY <1>2, <1>3, <1>4 DEF Next, SlotComes, Pause, Resume, vars

LEMMA PauseFollowsStep == Shape /\ Accountable /\ PauseFollows /\ [Next]_vars => PauseFollows'
  <1> SUFFICES ASSUME Shape, Accountable, PauseFollows, [Next]_vars,
                      auto'.enabled, auto'.failures >= Threshold
               PROVE  cut' \/ \E c \in Callers : acct'[c].at \in {"count", "pause"}
    BY DEF PauseFollows
  <1>1. /\ auto \in Automations /\ acct \in [Callers -> Accountings]
        /\ Threshold \in Nat /\ Threshold > 0
    BY AutomationAssumption DEF Shape, TypeOK, RowsOK
  <1>2. \A n : ~[auto EXCEPT !.enabled = FALSE, !.next = n].enabled
    BY <1>1 DEF Automations
  <1>3. [auto EXCEPT !.failures = 0].failures = 0
    BY <1>1 DEF Automations
  <1>4. CASE \A c \in Callers : ~Accounts(c) /\ ~AccountingDies(c)
    <2>1. auto.failures >= Threshold /\ auto.enabled
      BY <1>1, <1>4, OthersKeep
    <2>2. cut \/ \E c \in Callers : acct[c].at \in {"count", "pause"}
      BY <2>1 DEF PauseFollows
    <2>3. \A c \in Callers : acct[c].at \in {"count", "pause"} => acct'[c] = acct[c]
      BY <1>1, <1>4, OthersAccount DEF Account, NoAcct
    <2> QED
      BY <1>4, <2>2, <2>3, OthersKeep
  <1>5. ASSUME NEW c \in Callers, AccountingDies(c)
        PROVE  cut' \/ \E d \in Callers : acct'[d].at \in {"count", "pause"}
    <2>1. cut' = (cut \/ acct[c].at \in {"count", "pause"}) /\ auto' = auto
      BY <1>5, Zenon DEF AccountingDies
    <2>2. \A d \in Callers \ {c} : acct'[d] = acct[d]
      BY <1>1, <1>5 DEF AccountingDies, To
    <2>3. cut \/ \E d \in Callers : acct[d].at \in {"count", "pause"}
      BY <2>1 DEF PauseFollows
    <2> QED
      BY <2>1, <2>2, <2>3, Zenon
  <1>6. ASSUME NEW c \in Callers, Accounts(c)
        PROVE  cut' \/ \E d \in Callers : acct'[d].at \in {"count", "pause"}
    <2>1. ASSUME NEW at, To(c, at) PROVE acct'[c].at = at /\ \A d \in Callers \ {c} : acct'[d] = acct[d]
      BY <1>1, <2>1 DEF To
    <2>2. CASE Strike(c)
      <3>1. acct'[c].at = "count"
        BY <2>1, <2>2 DEF Strike
      <3> QED
        BY <3>1
    <2>3. CASE Count(c)
      <3>1. auto' = auto /\ acct'[c].at = "pause"
        BY <2>1, <2>3 DEF Count
      <3> QED
        BY <3>1
    <2>4. CASE AutoPause(c)
      BY <1>2, <2>4 DEF AutoPause
    <2>5. CASE Reset(c)
      BY <1>1, <1>3, <2>5 DEF Reset
    <2>6. CASE \E f \in Firings : Aggregate(c, f) \/ Mark(c, f)
      <3>1. auto' = auto /\ cut' = cut /\ acct[c].at \in {"read", "mark"}
        BY <2>6 DEF Aggregate, Mark
      <3>2. \A d \in Callers \ {c} : acct'[d] = acct[d]
        BY <2>1, <2>6 DEF Aggregate, Mark
      <3>3. cut \/ \E d \in Callers : acct[d].at \in {"count", "pause"}
        BY <3>1 DEF PauseFollows
      <3> QED
        BY <3>1, <3>2, <3>3
    <2> QED
      BY <1>6, <2>2, <2>3, <2>4, <2>5, <2>6 DEF Accounts
  <1> QED
    BY <1>4, <1>5, <1>6

LEMMA AccountableStep == Shape /\ Accountable /\ [Next]_vars => Accountable'
  <1> SUFFICES ASSUME Shape, Accountable, [Next]_vars PROVE Accountable'
    OBVIOUS
  <1>1. /\ acct \in [Callers -> Accountings]
        /\ \A c \in Callers : acct[c].on \subseteq Firings
    BY DEF Shape, TypeOK, RowsOK, Accountings
  <1>2. Started \subseteq Started'
    <2>1. \A h \in Firings : Inserts(h) => Started \subseteq Started'
      BY InsertAdds
    <2> QED
      BY <2>1, NothingAdded
  <1>3. ASSUME NEW f \in Started, Failed(f) PROVE Failed(f)'
    <2>1. f \in Firings /\ ~Inserts(f)
      BY DEF Started, Inserts, Insert, Shape, Inserted
    <2>2. PICK t \in Targets : run[f][t].status = "failed"
      BY <1>3 DEF Failed
    <2>3. run'[f][t].status = "failed"
      BY <2>1, <2>2, EndedRunsStay DEF IsActive
    <2> QED
      BY <2>3 DEF Failed
  <1>4. ASSUME NEW f \in Firings, NEW t \in Targets, NEW status \in {"starting", "running"},
               <<f, t, status>> \in stuck'
        PROVE  f \in Started'
    <2>1. CASE <<f, t, status>> \in stuck
      BY <1>2, <2>1 DEF Accountable
    <2>2. CASE \E g \in Firings, u \in Targets : SweepReads(g, u)
      <3>1. PICK g \in Firings, u \in Targets : SweepReads(g, u)
        BY <2>2
      <3>2. f = g
        BY <1>4, <3>1 DEF SweepReads
      <3>3. g \in Started
        BY <3>1 DEF SweepReads, IsActive, Shape, Rooted
      <3> QED
        BY <1>2, <3>2, <3>3
    <2>3. ASSUME NEW g \in Firings, Fires(g) PROVE stuck' = stuck
      BY <2>3
      DEF Fires, TickReads, Trigger, EventComes, Check, Deny, Insert, InsertBlocked, InsertCollides,
          AdvanceAgain, Skip, Launched, FiringDies
    <2>4. ASSUME NEW g \in Firings, NEW u \in Targets, Runs(g, u) \/ SweepEnds(g, u)
          PROVE  stuck' \subseteq stuck
      BY <2>4 DEF Runs, Claim, Prompt, LaunchFails, RunCompletes, SweepEnds, SweepFails
    <2>5. ASSUME NEW c \in Callers, Accounts(c) \/ AccountingDies(c) PROVE stuck' = stuck
      BY <2>5 DEF Accounts, Aggregate, Mark, Strike, Count, AutoPause, Reset, AccountingDies
    <2>6. ASSUME NEW g \in Firings, SweepFinalizes(g) PROVE stuck' = stuck
      BY <2>6 DEF SweepFinalizes
    <2>7. CASE SlotComes \/ Pause \/ Resume \/ UNCHANGED vars
      BY <1>4, <2>1, <2>7 DEF SlotComes, Pause, Resume, vars
    <2> QED
      BY <1>4, <2>1, <2>2, <2>3, <2>4, <2>5, <2>6, <2>7 DEF Next
  <1> DEFINE Founded(c) == /\ acct[c].at \in {"read", "mark"} => acct[c].on \subseteq Started
                           /\ acct[c].at = "mark" => \A f \in acct[c].on : Failed(f)
  <1>5. ASSUME NEW c \in Callers, acct'[c] = acct[c] PROVE Founded(c)'
    BY <1>2, <1>3, <1>5 DEF Accountable
  <1>6. ASSUME NEW c \in Callers PROVE Founded(c)'
    <2>1. CASE \A d \in Callers : ~Accounts(d) /\ ~AccountingDies(d)
      <3>1. CASE acct' = acct
        BY <1>5, <3>1
      <3>2. ASSUME NEW d \in Callers, NEW f \in Started, Account(d, f) PROVE Founded(c)'
        <4>1. acct'[c] = acct[c] \/ acct'[c] = [at |-> "read", on |-> {f}]
          BY <1>1, <3>2 DEF Account
        <4> QED
          BY <1>2, <1>5, <4>1
      <3> QED
        BY <2>1, <3>1, <3>2, OthersAccount
    <2>2. ASSUME NEW d \in Callers, Accounts(d) \/ AccountingDies(d) PROVE Founded(c)'
      <3>1. CASE d # c
        BY <1>1, <1>5, <2>2, <3>1
        DEF Accounts, Aggregate, Mark, Strike, Count, AutoPause, Reset, AccountingDies, To
      <3>2. ASSUME NEW at \in {"idle", "strike", "count", "pause", "reset"}, d = c, To(d, at)
            PROVE  Founded(c)'
        <4>1. acct'[c].at = at
          BY <1>1, <3>2 DEF To
        <4> QED
          BY <4>1
      <3>3. ASSUME NEW f \in Firings, Aggregate(d, f), d = c PROVE Founded(c)'
        <4>1. CASE Failed(f)
          <5>1. acct'[c] = [at |-> "mark", on |-> {f}]
            BY <1>1, <3>3, <4>1 DEF Aggregate, To
          <5>2. f \in Started
            BY <3>3 DEF Aggregate, Accountable
          <5> QED
            BY <1>2, <1>3, <4>1, <5>1, <5>2
        <4>2. CASE ~Failed(f)
          BY <3>2, <3>3, <4>2 DEF Aggregate
        <4> QED
          BY <4>1, <4>2
      <3> QED
        BY <2>2, <3>1, <3>2, <3>3 DEF Accounts, Mark, Strike, Count, AutoPause, Reset, AccountingDies
    <2> QED
      BY <2>1, <2>2
  <1> QED
    BY <1>4, <1>6 DEF Accountable

Strikers == {c \in Callers : At(c, "strike")}

LEMMA OneStrikeEachStep == Shape /\ Accountable /\ OneStrikeEach /\ [Next]_vars => OneStrikeEach'
  <1> SUFFICES ASSUME Shape, Accountable, OneStrikeEach, [Next]_vars
               PROVE  /\ \A f \in Struck' : f \in Started' /\ Failed(f)'
                      /\ auto'.failures + Cardinality(Strikers') <= Cardinality(Struck')
    BY DEF OneStrikeEach, Strikers
  <1>1. /\ auto \in Automations /\ auto.failures \in Nat /\ acct \in [Callers -> Accountings]
        /\ inv \in [Firings -> Invocations]
    BY DEF Shape, TypeOK, RowsOK, Automations
  <1>2. \A S \in SUBSET Callers : IsFiniteSet(S) /\ Cardinality(S) \in Nat
    <2>1. IsFiniteSet(Callers)
      <3>1. IsFiniteSet({"handler"}) /\ Callers = {"handler"} \cup {"sweep"}
        BY FS_Singleton DEF Callers
      <3> QED
        BY <3>1, FS_AddElement
    <2> QED
      BY <2>1, FS_Subset, FS_CardinalityType
  <1>3. Strikers \in SUBSET Callers /\ Strikers' \in SUBSET Callers
    BY DEF Strikers
  <1>4. \A f \in Started : f \in Started' /\ (Failed(f) => Failed(f)')
    <2>1. ASSUME NEW f \in Started PROVE f \in Started' /\ (Failed(f) => Failed(f)')
      <3>1. f \in Firings /\ ~Inserts(f)
        BY DEF Started, Inserts, Insert, Shape, Inserted
      <3>2. f \in Started'
        BY <3>1, InvocationsStay DEF Started
      <3>3. \A t \in Targets : run[f][t].status = "failed" => run'[f][t].status = "failed"
        BY <3>1, EndedRunsStay DEF IsActive
      <3> QED
        BY <3>2, <3>3 DEF Failed
    <2> QED
      BY <2>1
  <1>5. /\ \A f \in Struck : f \in Started /\ Failed(f)
        /\ auto.failures + Cardinality(Strikers) <= Cardinality(Struck)
        /\ Cardinality(Struck) \in Nat /\ IsFiniteSet(Struck)
    BY StartedFinite DEF OneStrikeEach, Strikers
  <1>6. ASSUME Struck' = Struck, Strikers' \subseteq Strikers, auto'.failures \in {0, auto.failures}
        PROVE  /\ \A f \in Struck' : f \in Started' /\ Failed(f)'
               /\ auto'.failures + Cardinality(Strikers') <= Cardinality(Struck')
    <2>1. Cardinality(Strikers') <= Cardinality(Strikers)
      BY <1>2, <1>3, <1>6, FS_Subset
    <2> QED
      BY <1>1, <1>2, <1>3, <1>4, <1>5, <1>6, <2>1
  <1>7. ASSUME NEW c \in Callers, NEW at, To(c, at)
        PROVE  Strikers' = IF at = "strike" THEN Strikers \cup {c} ELSE Strikers \ {c}
    BY <1>1, <1>7 DEF To, Strikers, At
  <1>8. CASE \A c \in Callers : ~Accounts(c) /\ ~AccountingDies(c)
    <2>1. Struck' = Struck
      BY <1>8, OthersKeep DEF Struck
    <2>2. auto'.failures \in {0, auto.failures}
      BY <1>8, OthersKeep
    <2>3. Strikers' \subseteq Strikers
      <3>1. ASSUME NEW c \in Callers, NEW f \in Started, Account(c, f)
            PROVE  Strikers' \subseteq Strikers
        BY <1>1, <3>1 DEF Account, Strikers, At
      <3>2. CASE acct' = acct
        BY <3>2 DEF Strikers, At
      <3> QED
        BY <1>8, <3>1, <3>2, OthersAccount
    <2> QED
      BY <1>6, <2>1, <2>2, <2>3
  <1>9. ASSUME NEW c \in Callers, NEW f \in Firings, Mark(c, f)
        PROVE  /\ \A g \in Struck' : g \in Started' /\ Failed(g)'
               /\ auto'.failures + Cardinality(Strikers') <= Cardinality(Struck')
    <2>1. Struck' = Struck \cup {f}
      <3>1. \A v \in Invocations : [v EXCEPT !.counted = TRUE].counted = TRUE
        BY DEF Invocations
      <3>2. inv' = [inv EXCEPT ![f].counted = TRUE]
        BY <1>9 DEF Mark
      <3>3. inv'[f].counted = TRUE /\ \A g \in Firings \ {f} : inv'[g] = inv[g]
        BY <1>1, <3>1, <3>2
      <3> QED
        BY <3>3 DEF Struck
    <2>2. auto' = auto
      BY <1>9 DEF Mark
    <2>3. CASE inv[f].counted
      <3>1. Struck' = Struck
        BY <2>1, <2>3 DEF Struck
      <3>2. To(c, "idle")
        BY <1>9, <2>3 DEF Mark
      <3> QED
        BY <1>6, <1>7, <2>2, <3>1, <3>2
    <2>4. CASE ~inv[f].counted
      <3>1. f \notin Struck
        BY <2>4 DEF Struck
      <3>2. Cardinality(Struck') = Cardinality(Struck) + 1
        BY <1>5, <2>1, <3>1, FS_AddElement
      <3>3. Strikers' = Strikers \cup {c} /\ c \notin Strikers
        BY <1>7, <1>9, <2>4 DEF Mark, Strikers, At
      <3>4. Cardinality(Strikers') = Cardinality(Strikers) + 1
        BY <1>2, <1>3, <3>3, FS_AddElement
      <3>5. f \in Started /\ Failed(f)
        BY <1>9 DEF Mark, Accountable
      <3>6. \A g \in Struck' : g \in Started' /\ Failed(g)'
        BY <1>4, <1>5, <2>1, <3>5
      <3>7. Cardinality(Strikers) \in Nat
        BY <1>2, <1>3
      <3> QED
        BY <1>1, <1>5, <2>2, <3>2, <3>4, <3>6, <3>7
    <2> QED
      BY <2>3, <2>4
  <1>10. ASSUME NEW c \in Callers, Strike(c)
         PROVE  /\ \A g \in Struck' : g \in Started' /\ Failed(g)'
                /\ auto'.failures + Cardinality(Strikers') <= Cardinality(Struck')
    <2>1. Struck' = Struck
      BY <1>10 DEF Strike, Struck
    <2>2. auto'.failures = auto.failures + 1
      BY <1>1, <1>10 DEF Strike, Automations
    <2>3. Strikers' = Strikers \ {c} /\ c \in Strikers
      BY <1>7, <1>10 DEF Strike, Strikers
    <2>4. Cardinality(Strikers') = Cardinality(Strikers) - 1
      BY <1>2, <1>3, <2>3, FS_RemoveElement
    <2>5. Cardinality(Strikers) \in Nat
      BY <1>2, <1>3
    <2> QED
      BY <1>1, <1>4, <1>5, <2>1, <2>2, <2>4, <2>5
  <1>11. ASSUME NEW c \in Callers, NEW f \in Firings, Aggregate(c, f)
         PROVE  Struck' = Struck /\ Strikers' \subseteq Strikers /\ auto'.failures = auto.failures
    <2>1. PICK at \in {"mark", "reset", "idle"} : To(c, at)
      BY <1>11 DEF Aggregate
    <2> QED
      BY <1>7, <1>11, <2>1 DEF Aggregate, Struck
  <1>12. ASSUME NEW c \in Callers, Count(c) \/ AutoPause(c) \/ Reset(c) \/ AccountingDies(c)
         PROVE  Struck' = Struck /\ Strikers' \subseteq Strikers /\ auto'.failures \in {0, auto.failures}
    <2>1. PICK at \in {"pause", "idle"} : To(c, at)
      BY <1>12 DEF Count, AutoPause, Reset, AccountingDies
    <2>2. Struck' = Struck
      BY <1>12 DEF Count, AutoPause, Reset, AccountingDies, Struck
    <2>3. auto'.failures \in {0, auto.failures}
      <3>1. /\ [auto EXCEPT !.enabled = FALSE, !.next = 0].failures = auto.failures
            /\ [auto EXCEPT !.failures = 0].failures = 0
        BY <1>1 DEF Automations
      <3> QED
        BY <1>12, <3>1 DEF Count, AutoPause, Reset, AccountingDies
    <2> QED
      BY <1>7, <2>1, <2>2, <2>3
  <1> QED
    BY <1>6, <1>8, <1>9, <1>10, <1>11, <1>12 DEF Accounts

-----------------------------------------------------------------------------
IInv == Shape /\ Ahead /\ Accountable

THEOREM AutomationInvariance == Spec => []IInv
  <1>1. Init => IInv
    <2>1. ASSUME Init PROVE Ahead /\ Accountable
      BY <2>1 DEF Init, NoFiring, NoAcct, Ahead, Accountable
    <2> QED
      BY <2>1, InitShape DEF IInv
  <1>2. IInv /\ [Next]_vars => IInv'
    BY ShapeStep, AheadStep, AccountableStep DEF IInv
  <1> QED
    BY <1>1, <1>2, PTL DEF Spec

(* Every variable of the automation always holds a state of the code.      *)
THEOREM AutomationTypeCorrectness == Spec => []TypeOK
  <1>1. IInv => TypeOK
    BY DEF IInv, Shape
  <1> QED
    BY <1>1, AutomationInvariance, PTL

(* While runs of an automation are active only events start others, and no *)
(* two invocations with active runs have one concurrency key, however many *)
(* ticks, triggers, events, launches, reports and sweeps there are.        *)
THEOREM RunsNeverOverlap == Spec => []NoOverlap
  <1>1. Init => NoOverlap
    BY DEF Init, NoOverlap, Started
  <1>2. IInv /\ NoOverlap /\ [Next]_vars => NoOverlap'
    BY NoOverlapStep DEF IInv
  <1> QED
    BY <1>1, <1>2, AutomationInvariance, PTL DEF Spec

(* No invocation counts as two strikes, however many callers account for   *)
(* it at once.                                                             *)
THEOREM StrikesAreSingle == Spec => []OneStrikeEach
  <1>1. Init => OneStrikeEach
    <2> SUFFICES ASSUME Init PROVE OneStrikeEach
      OBVIOUS
    <2>1. Struck = {} /\ Strikers = {} /\ auto.failures = 0
      BY DEF Init, Struck, Strikers, At, NoAcct
    <2>2. auto.failures + Cardinality(Strikers) <= Cardinality(Struck)
      <3>1. Cardinality(Strikers) = 0 /\ Cardinality(Struck) = 0
        BY <2>1, FS_EmptySet
      <3> QED
        BY <2>1, <3>1
    <2>3. \A f \in Struck : f \in Started /\ Failed(f)
      BY <2>1
    <2> QED
      BY <2>2, <2>3 DEF OneStrikeEach, Strikers
  <1>2. IInv /\ OneStrikeEach /\ [Next]_vars => OneStrikeEach'
    BY OneStrikeEachStep DEF IInv
  <1> QED
    BY <1>1, <1>2, AutomationInvariance, PTL DEF Spec

(* An automation at the threshold is paused, unless the accounting that    *)
(* would pause it is still at it or has died.                              *)
THEOREM StrikesPause == Spec => []PauseFollows
  <1>1. Init => PauseFollows
    BY AutomationAssumption DEF Init, PauseFollows
  <1>2. IInv /\ PauseFollows /\ [Next]_vars => PauseFollows'
    BY PauseFollowsStep DEF IInv
  <1> QED
    BY <1>1, <1>2, AutomationInvariance, PTL DEF Spec

(* No firing, however late its statements are, takes the schedule back to  *)
(* a slot it had left.                                                     *)
THEOREM ScheduleNeverRewinds == Spec => NeverRewinds
  <1>1. IInv /\ [Next]_vars =>
            [firing' # firing /\ auto.next # 0 /\ auto'.next # 0 => auto.next <= auto'.next]_vars
    BY NeverRewindsStep DEF IInv
  <1> QED
    BY <1>1, AutomationInvariance, PTL DEF Spec, NeverRewinds

=============================================================================
