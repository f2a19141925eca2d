--------------------------- MODULE AutomationRuns ---------------------------
(***************************************************************************)
(* One automation: scheduler/scheduler.ts over the tables of               *)
(* db/automation-store.ts.  A firing (a cron slot, an event or a manual    *)
(* trigger) becomes an invocation with one run per target, unless a run it *)
(* may not overlap is active; runs are launched into sessions that report  *)
(* back; a sweep ends the runs nobody reports on; and every invocation     *)
(* with a failed run is one strike towards the pause of the automation.    *)
(*                                                                         *)
(* Ticks, events, triggers, callbacks and sweeps all run at once, on hosts *)
(* that share nothing but the database: an action is one statement or one  *)
(* batch of it.                                                            *)
(***************************************************************************)
EXTENDS Naturals, FiniteSets

CONSTANTS
    Firings,        \* bound: firings in all
    Targets,        \* repositories and environments of the automation
    Keys, Events,   \* concurrency keys, and the events of each
    Threshold,      \* AUTO_PAUSE_THRESHOLD
    MaxNow,         \* bound: cron slots, of which slot n is due at time n
    MaxUpsets       \* bound: handlers that die, writes that fail, acts of the owner

ASSUME AutomationAssumption ==
    /\ IsFiniteSet(Firings) /\ Targets # {} /\ IsFiniteSet(Targets)
    /\ Threshold \in Nat \ {0} /\ MaxNow \in Nat \ {0} /\ MaxUpsets \in Nat

VARIABLES
    now,
    auto,       \* the automation: trigger_type, enabled, next_run_at (0: NULL),
                \* consecutive_failures
    firing,     \* the startInvocation of each firing
    inv,        \* its row in automation_invocations
    run,        \* its rows in automation_runs, and how far their launch is
    acct,       \* bound: one applyInvocationAccounting of the sweeps, one of all others
    stuck,      \* bound: the run that a sweep has found active for too long
    cut,        \* an accounting has died between a strike and its pause
    upsets

vars == <<now, auto, firing, inv, run, acct, stuck, cut, upsets>>

Callers == {"handler", "sweep"}

NoFiring == [at |-> "idle", source |-> "none", slot |-> 0, upto |-> 0, on |-> <<>>]
Forgotten == [NoFiring EXCEPT !.at = "done"]
NoAcct   == [at |-> "idle", on |-> {}]

IsActive(r)  == r.status \in {"starting", "running"}
Active(f)    == \E t \in Targets : IsActive(run[f][t])
Failed(f)    == \E t \in Targets : run[f][t].status = "failed"
Completed(f) == \A t \in Targets : run[f][t].status = "completed"

Started  == {f \in Firings : inv[f].is = "started"}
Struck   == {f \in Firings : inv[f].counted}

(* overlapPredicate: an event firing overlaps the firings of its key, any  *)
(* other every active run.                                                 *)
Overlap(f) ==
    \E g \in Firings : /\ Active(g)
                       /\ firing[f].source = "event" =>
                              /\ firing[g].source = "event"
                              /\ firing[g].on[1] = firing[f].on[1]

(* idx_invocations_idempotency and idx_invocations_trigger_key.            *)
Recorded(slot) ==
    \E g \in Firings : inv[g].is # "none" /\ firing[g].source = "schedule" /\ firing[g].slot = slot

Duplicate(f) ==
    \/ firing[f].source = "schedule" /\ Recorded(firing[f].slot)
    \/ /\ firing[f].source = "event"
       /\ \E g \in Started : firing[g].source = "event" /\ firing[g].on = firing[f].on

Move(f, to) == firing' = [firing EXCEPT ![f].at = to]

(* A firing is over; of one that has no invocation nothing is kept.        *)
Over(f) == firing' = [firing EXCEPT ![f] = IF inv'[f].is = "none" THEN Forgotten
                                           ELSE [@ EXCEPT !.at = "done", !.upto = 0]]

(* ScheduleAdvance: compare and set on the slot of the firing.             *)
Advanced(f) ==
    IF firing[f].source = "schedule" /\ auto.next = firing[f].slot
    THEN [auto EXCEPT !.next = firing[f].upto] ELSE auto

Account(c, f) == acct[c] = NoAcct /\ acct' = [acct EXCEPT ![c] = [at |-> "read", on |-> {f}]]

-----------------------------------------------------------------------------
(* What makes an automation fire, and its owner.                           *)

SlotComes ==
    /\ now < MaxNow /\ now' = now + 1
    /\ UNCHANGED <<auto, firing, inv, run, acct, stuck, cut, upsets>>

(* A tick has read the automation as overdue.                              *)
TickReads(f) ==
    /\ firing[f] = NoFiring
    /\ auto.trigger = "schedule" /\ auto.enabled /\ auto.next \in 1..now
    /\ firing' = [firing EXCEPT ![f].at = "due", ![f].source = "schedule", ![f].slot = auto.next]
    /\ UNCHANGED <<now, auto, inv, run, acct, stuck, cut, upsets>>

EventComes(f, k, e) ==
    /\ firing[f] = NoFiring
    /\ auto.trigger = "event" /\ auto.enabled
    /\ firing' = [firing EXCEPT ![f].at = "due", ![f].source = "event", ![f].on = <<k, e>>]
    /\ UNCHANGED <<now, auto, inv, run, acct, stuck, cut, upsets>>

Trigger(f) ==
    /\ firing[f] = NoFiring
    /\ firing' = [firing EXCEPT ![f].at = "due", ![f].source = "manual"]
    /\ UNCHANGED <<now, auto, inv, run, acct, stuck, cut, upsets>>

Pause ==
    /\ auto.enabled /\ upsets < MaxUpsets /\ upsets' = upsets + 1
    /\ auto' = [auto EXCEPT !.enabled = FALSE, !.next = 0]
    /\ UNCHANGED <<now, firing, inv, run, acct, stuck, cut>>

Resume ==
    /\ upsets < MaxUpsets /\ upsets' = upsets + 1
    /\ auto' = [auto EXCEPT !.enabled = TRUE, !.failures = 0,
                            !.next = IF auto.trigger = "schedule" THEN now + 1 ELSE 0]
    /\ UNCHANGED <<now, firing, inv, run, acct, stuck, cut>>

-----------------------------------------------------------------------------
(* startInvocation.                                                        *)

(* The cheap check comes first; a tick has computed the next slot by then. *)
(* A manual firing that overlaps leaves nothing behind.                    *)
Check(f) ==
    /\ firing[f].at = "due"
    /\ firing' = [firing EXCEPT
           ![f] = IF Overlap(f) /\ @.source = "manual" THEN Forgotten
                  ELSE [@ EXCEPT !.at = IF Overlap(f) THEN "skip" ELSE "build",
                                 !.upto = IF firing[f].source = "schedule" THEN now + 1 ELSE 0]]
    /\ UNCHANGED <<now, auto, inv, run, acct, stuck, cut, upsets>>

(* The principal may not run it: recordAuthorizationDenied pauses a slot's *)
(* automation, if the slot is still the one to come.                       *)
Deny(f) ==
    /\ firing[f].at = "build"
    /\ IF firing[f].source = "schedule"
       THEN /\ inv' = [inv EXCEPT ![f].is = IF Recorded(firing[f].slot) THEN @ ELSE "skipped"]
            /\ auto' = IF auto.enabled /\ auto.next = firing[f].slot
                       THEN [auto EXCEPT !.enabled = FALSE, !.next = 0] ELSE auto
       ELSE UNCHANGED <<auto, inv>>
    /\ Over(f)
    /\ UNCHANGED <<now, run, acct, stuck, cut, upsets>>

(* A run is born failed when its repository does not resolve.              *)
Children(lost) ==
    [t \in Targets |-> [status |-> IF t \in lost THEN "failed" ELSE "starting",
                        child  |-> IF t \in lost THEN "failed" ELSE "todo"]]

(* Mutant: the insert trusts the check before it.                          *)
Insert_Unguarded(f, lost) ==
    /\ firing[f].at = "build" /\ ~Duplicate(f)
    /\ Move(f, "launching") /\ auto' = Advanced(f)
    /\ inv' = [inv EXCEPT ![f].is = "started", ![f].no = Cardinality(Started) + 1]
    /\ run' = [run EXCEPT ![f] = Children(lost)]
    /\ UNCHANGED <<now, acct, stuck, cut, upsets>>

(* insertInvocationGuarded: one batch inserts the invocation, unless it    *)
(* overlaps, and its runs, and advances the schedule.                      *)
Insert(f, lost) ==
    /\ firing[f].at = "build" /\ ~Overlap(f) /\ ~Duplicate(f)
    /\ Move(f, "launching") /\ auto' = Advanced(f)
    /\ inv' = [inv EXCEPT ![f].is = "started", ![f].no = Cardinality(Started) + 1]
    /\ run' = [run EXCEPT ![f] = Children(lost)]
    /\ UNCHANGED <<now, acct, stuck, cut, upsets>>

(* It does overlap by now: the batch has advanced the schedule all the     *)
(* same, and the skip is still to be recorded.                             *)
InsertBlocked(f) ==
    /\ firing[f].at = "build" /\ Overlap(f) /\ UNCHANGED inv
    /\ IF firing[f].source = "manual" THEN Over(f) ELSE Move(f, "skipAdvanced")
    /\ auto' = Advanced(f)
    /\ UNCHANGED <<now, run, acct, stuck, cut, upsets>>

(* Another firing has the slot or the event: the whole batch is undone.    *)
InsertCollides(f) ==
    /\ firing[f].at = "build" /\ ~Overlap(f) /\ Duplicate(f) /\ UNCHANGED inv
    /\ IF firing[f].source = "schedule" THEN Move(f, "collided") ELSE Over(f)
    /\ UNCHANGED <<now, auto, run, acct, stuck, cut, upsets>>

(* Mutant: the later of the two slots does not matter.                     *)
AdvanceAgain_Rewinds(f) ==
    /\ firing[f].at = "collided" /\ UNCHANGED inv /\ Over(f)
    /\ auto' = [auto EXCEPT !.next = firing[f].upto]
    /\ UNCHANGED <<now, run, acct, stuck, cut, upsets>>

(* advanceNextRunAt: the schedule advances once more, never backwards.     *)
AdvanceAgain(f) ==
    /\ firing[f].at = "collided" /\ UNCHANGED inv /\ Over(f)
    /\ auto' = [auto EXCEPT !.next = IF @ < firing[f].upto THEN firing[f].upto ELSE @]
    /\ UNCHANGED <<now, run, acct, stuck, cut, upsets>>

(* recordOverlapSkip: a childless invocation that holds its slot.          *)
Skip(f) ==
    /\ firing[f].at \in {"skip", "skipAdvanced"}
    /\ inv' = [inv EXCEPT ![f].is = IF firing[f].source = "schedule" /\ Recorded(firing[f].slot)
                                    THEN @ ELSE "skipped"]
    /\ auto' = IF firing[f].at = "skip" THEN Advanced(f) ELSE auto
    /\ Over(f)
    /\ UNCHANGED <<now, run, acct, stuck, cut, upsets>>

-----------------------------------------------------------------------------
(* launchChild, for several runs at once.                                  *)

(* claimRunSession; a run the sweep has ended meanwhile is not launched.   *)
Claim(f, t) ==
    /\ firing[f].at = "launching" /\ run[f][t].child = "todo"
    /\ run' = [run EXCEPT ![f][t] =
           IF @.status = "starting" THEN [status |-> "running", child |-> "claimed"]
           ELSE [@ EXCEPT !.child = "failed"]]
    /\ UNCHANGED <<now, auto, firing, inv, acct, stuck, cut, upsets>>

(* The session is created and has its prompt.                              *)
Prompt(f, t) ==
    /\ firing[f].at = "launching" /\ run[f][t].child = "claimed"
    /\ run' = [run EXCEPT ![f][t].child = "prompted"]
    /\ UNCHANGED <<now, auto, firing, inv, acct, stuck, cut, upsets>>

(* It fails, or only its answer is lost: an active run is failed, if that  *)
(* can be written.                                                         *)
LaunchFails(f, t, child) ==
    /\ firing[f].at = "launching"
    /\ \/ run[f][t].child = "todo" /\ child = "failed"
       \/ run[f][t].child = "claimed" /\ child \in {"failed", "lost"}
    /\ \/ /\ run' = [run EXCEPT ![f][t].child = child,
                                ![f][t].status = IF IsActive(run[f][t]) THEN "failed" ELSE @]
          /\ UNCHANGED upsets
       \/ /\ upsets < MaxUpsets /\ upsets' = upsets + 1
          /\ run' = [run EXCEPT ![f][t].child = child]
    /\ UNCHANGED <<now, auto, firing, inv, acct, stuck, cut>>

(* From here on it only matters which runs have their prompt.              *)
Left(f) ==
    [run EXCEPT ![f] = [t \in Targets |->
        [@[t] EXCEPT !.child = IF @ \in {"prompted", "lost"} THEN "prompted" ELSE "failed"]]]

(* All are launched; failures among them are accounted for at once.        *)
Launched(f) ==
    /\ firing[f].at = "launching" /\ UNCHANGED inv /\ Over(f)
    /\ \A t \in Targets : run[f][t].child \in {"prompted", "failed", "lost"}
    /\ IF \E t \in Targets : run[f][t].child \in {"failed", "lost"}
       THEN Account("handler", f) ELSE UNCHANGED acct
    /\ run' = Left(f)
    /\ UNCHANGED <<now, auto, stuck, cut, upsets>>

(* The host dies, or a statement fails, in the middle of a firing.         *)
FiringDies(f) ==
    /\ upsets < MaxUpsets /\ upsets' = upsets + 1
    /\ firing[f].at \notin {"idle", "done"} /\ UNCHANGED inv /\ Over(f)
    /\ run' = IF firing[f].at = "launching" THEN Left(f) ELSE run
    /\ UNCHANGED <<now, auto, acct, stuck, cut>>

(* runComplete: the session of a run reports.  For a run that has ended,   *)
(* by this report or otherwise, nothing is done.                           *)
RunCompletes(f, t, status) ==
    /\ run[f][t].child \in {"prompted", "lost"} /\ IsActive(run[f][t])
    /\ run' = [run EXCEPT ![f][t].status = status]
    /\ Account("handler", f)
    /\ UNCHANGED <<now, auto, firing, inv, stuck, cut, upsets>>

-----------------------------------------------------------------------------
(* applyInvocationAccounting.                                              *)

At(c, at) == acct[c].at = at

(* Beyond the mark it no longer matters whose failure it is.               *)
To(c, at) == acct' = [acct EXCEPT ![c] = [at |-> at, on |-> IF at = "mark" THEN @.on ELSE {}]]

Aggregate(c, f) ==
    /\ acct[c] = [at |-> "read", on |-> {f}]
    /\ To(c, IF Failed(f) THEN "mark" ELSE IF Completed(f) THEN "reset" ELSE "idle")
    /\ UNCHANGED <<now, auto, firing, inv, run, stuck, cut, upsets>>

(* Mutant: everybody who saw the failure wins.                             *)
Mark_NoCas(c, f) ==
    /\ acct[c] = [at |-> "mark", on |-> {f}]
    /\ To(c, "strike")
    /\ inv' = [inv EXCEPT ![f].counted = TRUE]
    /\ UNCHANGED <<now, auto, firing, run, stuck, cut, upsets>>

(* tryMarkInvocationFailureCounted: one caller wins the strike.            *)
Mark(c, f) ==
    /\ acct[c] = [at |-> "mark", on |-> {f}]
    /\ To(c, IF inv[f].counted THEN "idle" ELSE "strike")
    /\ inv' = [inv EXCEPT ![f].counted = TRUE]
    /\ UNCHANGED <<now, auto, firing, run, stuck, cut, upsets>>

Strike(c) ==
    /\ At(c, "strike") /\ To(c, "count")
    /\ auto' = [auto EXCEPT !.failures = @ + 1]
    /\ UNCHANGED <<now, firing, inv, run, stuck, cut, upsets>>

(* Mutant: one strike more is allowed.                                     *)
Count_OffByOne(c) ==
    /\ At(c, "count") /\ To(c, IF auto.failures > Threshold THEN "pause" ELSE "idle")
    /\ UNCHANGED <<now, auto, firing, inv, run, stuck, cut, upsets>>

(* The count is read back by a statement of its own.                       *)
Count(c) ==
    /\ At(c, "count") /\ To(c, IF auto.failures >= Threshold THEN "pause" ELSE "idle")
    /\ UNCHANGED <<now, auto, firing, inv, run, stuck, cut, upsets>>

AutoPause(c) ==
    /\ At(c, "pause") /\ To(c, "idle")
    /\ auto' = [auto EXCEPT !.enabled = FALSE, !.next = 0]
    /\ UNCHANGED <<now, firing, inv, run, stuck, cut, upsets>>

Reset(c) ==
    /\ At(c, "reset") /\ To(c, "idle")
    /\ auto' = [auto EXCEPT !.failures = 0]
    /\ UNCHANGED <<now, firing, inv, run, stuck, cut, upsets>>

(* A statement of it fails, or its host dies.                              *)
AccountingDies(c) ==
    /\ upsets < MaxUpsets /\ upsets' = upsets + 1
    /\ acct[c] # NoAcct /\ To(c, "idle")
    /\ cut' = (cut \/ acct[c].at \in {"count", "pause"})
    /\ UNCHANGED <<now, auto, firing, inv, run, stuck>>

-----------------------------------------------------------------------------
(* recoverySweep.                                                          *)

(* It reads which runs have been starting or running for too long.         *)
SweepReads(f, t) ==
    /\ stuck = {} /\ IsActive(run[f][t])
    /\ stuck' = {<<f, t, run[f][t].status>>}
    /\ UNCHANGED <<now, auto, firing, inv, run, acct, cut, upsets>>

(* bulkFailRunsInStatus: it fails the run if it is still what it was, and  *)
(* accounts for its invocation in any case.                                *)
SweepFails(f, t, status) ==
    /\ stuck = {<<f, t, status>>} /\ stuck' = {}
    /\ run' = [run EXCEPT ![f][t].status = IF @ = status THEN "failed" ELSE @]
    /\ Account("sweep", f)
    /\ UNCHANGED <<now, auto, firing, inv, cut, upsets>>

(* getUncountedFailedInvocations: over, with a failure, and no strike.     *)
Uncounted == {f \in Started \ Struck : Failed(f) /\ ~Active(f)}

(* getStaleFailureResetCandidates: the latest invocation, while there are  *)
(* strikes.                                                                *)
ResetCandidates ==
    {f \in Started : auto.failures > 0 /\ \A g \in Started : inv[g].no <= inv[f].no}

(* finalizationSweep.  Whether an invocation it has found is still to be   *)
(* accounted for is asked again by the accounting.                         *)
SweepFinalizes(f) ==
    /\ f \in Uncounted \cup ResetCandidates
    /\ Account("sweep", f)
    /\ UNCHANGED <<now, auto, firing, inv, run, stuck, cut, upsets>>

-----------------------------------------------------------------------------
Init ==
    /\ now = 1 /\ upsets = 0 /\ cut = FALSE
    /\ auto \in {[trigger |-> "schedule", enabled |-> TRUE, next |-> 1, failures |-> 0],
                 [trigger |-> "event", enabled |-> TRUE, next |-> 0, failures |-> 0]}
    /\ firing = [f \in Firings |-> NoFiring]
    /\ inv = [f \in Firings |-> [is |-> "none", counted |-> FALSE, no |-> 0]]
    /\ run = [f \in Firings |->
                 [t \in Targets |-> [status |-> "none", child |-> "none"]]]
    /\ acct = [c \in Callers |-> NoAcct] /\ stuck = {}

Fires(f) ==
    \/ TickReads(f) \/ Trigger(f) \/ \E k \in Keys, e \in Events : EventComes(f, k, e)
    \/ Check(f) \/ Deny(f) \/ \E lost \in SUBSET Targets : Insert(f, lost)
    \/ InsertBlocked(f) \/ InsertCollides(f) \/ AdvanceAgain(f) \/ Skip(f)
    \/ Launched(f) \/ FiringDies(f)

Runs(f, t) ==
    \/ Claim(f, t) \/ Prompt(f, t) \/ \E child \in {"failed", "lost"} : LaunchFails(f, t, child)
    \/ \E status \in {"completed", "failed"} : RunCompletes(f, t, status)

Accounts(c) ==
    \/ \E f \in Firings : Aggregate(c, f) \/ Mark(c, f)
    \/ Strike(c) \/ Count(c) \/ AutoPause(c) \/ Reset(c)

SweepEnds(f, t) == \E status \in {"starting", "running"} : SweepFails(f, t, status)

Next ==
    \/ SlotComes \/ Pause \/ Resume
    \/ \E f \in Firings : \/ Fires(f) \/ SweepFinalizes(f)
                          \/ \E t \in Targets : Runs(f, t) \/ SweepReads(f, t) \/ SweepEnds(f, t)
    \/ \E c \in Callers : Accounts(c) \/ AccountingDies(c)

Spec == Init /\ [][Next]_vars

-----------------------------------------------------------------------------
(* Every variable holds a state of the code.                               *)
Automations == [trigger : {"schedule", "event"}, enabled : BOOLEAN, next : Nat, failures : Nat]
EventIds    == {<<>>} \cup (Keys \X Events)
Attempts    == [at : {"idle", "due", "build", "collided", "skip", "skipAdvanced", "launching", "done"},
                source : {"none", "schedule", "manual", "event"},
                slot : Nat, upto : Nat, on : EventIds]
Invocations == [is : {"none", "started", "skipped"}, counted : BOOLEAN, no : Nat]
RunRows     == [status : {"none", "starting", "running", "completed", "failed"},
                child : {"none", "todo", "claimed", "prompted", "failed", "lost"}]
Accountings == [at : {"idle", "read", "mark", "strike", "count", "pause", "reset"},
                on : SUBSET Firings]

RowsOK ==
    /\ auto \in Automations /\ firing \in [Firings -> Attempts]
    /\ inv \in [Firings -> Invocations] /\ run \in [Firings -> [Targets -> RunRows]]
    /\ acct \in [Callers -> Accountings]

HostOK ==
    /\ now \in 1..MaxNow /\ upsets \in 0..MaxUpsets /\ cut \in BOOLEAN
    /\ stuck \subseteq Firings \X Targets \X {"starting", "running"}

TypeOK == RowsOK /\ HostOK

(* Invocations overlap only as far as they may: while one is active, only  *)
(* events start another, and no two with runs under way have one key.      *)
NoOverlap ==
    \A f, g \in Started :
        Active(f) /\ Active(g) /\ inv[f].no < inv[g].no =>
            /\ firing[g].source = "event"
            /\ firing[f].source = "event" => firing[f].on[1] # firing[g].on[1]

(* Nobody counts an invocation twice: there are no more strikes, counted   *)
(* or about to be, than invocations with a failed run that have a mark.    *)
OneStrikeEach ==
    /\ \A f \in Struck : f \in Started /\ Failed(f)
    /\ auto.failures + Cardinality({c \in Callers : At(c, "strike")}) <= Cardinality(Struck)

(* An automation at the threshold is paused, or is about to be, unless an  *)
(* accounting died in between.                                             *)
PauseFollows ==
    auto.enabled /\ auto.failures >= Threshold => cut \/ \E c \in Callers : acct[c].at \in {"count", "pause"}

(* A firing never moves the schedule backwards.                            *)
NeverRewinds ==
    [][firing' # firing /\ auto.next # 0 /\ auto'.next # 0 => auto.next <= auto'.next]_vars

(* A firing moves the schedule past a slot only if that slot has an        *)
(* invocation, or is skipped for a run that is active.                     *)
SlotsAreKept ==
    [][\A slot \in 1..MaxNow :
           firing' # firing /\ auto.next = slot /\ auto'.next > slot =>
               Recorded(slot)' \/ \E f \in Firings : Active(f)]_vars

=============================================================================
