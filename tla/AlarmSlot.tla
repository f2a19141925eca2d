----------------------------- MODULE AlarmSlot -----------------------------
(***************************************************************************)
(* How a deadline becomes a wake-up: session/alarm/scheduler.ts over the   *)
(* single alarm that the host keeps for a session (node/host-alarm-clock,  *)
(* host-alarm-index and crash-recovery), for the deadline of a stop.       *)
(*                                                                         *)
(* Everybody in a session shares one alarm, so the scheduler keeps only    *)
(* the earliest deadline it was given and forgets the later ones; whoever  *)
(* wants those must ask again when the alarm fires.  A deadline is written *)
(* twice, to the session's file and to the host's index, by a process that *)
(* can fail or die between the two.                                        *)
(*                                                                         *)
(* A scheduler operation awaits nothing but the host's synchronous index,  *)
(* so no other event comes between its reads and writes: one action.       *)
(***************************************************************************)
EXTENDS Naturals

CONSTANTS
    MaxTime,        \* bound: the clock stops here
    MaxRetries,     \* MAX_RETRIES of the alarm clock
    MaxFaults       \* bound: failed writes, failed deliveries and crashes

ASSUME AlarmAssumption == {MaxTime, MaxRetries, MaxFaults} \subseteq Nat

Time  == 0..MaxTime
Never == MaxTime + 1    \* no deadline; later than every deadline

VARIABLES
    now,
    stop,       \* stop_confirmation_deadline of the prompt being stopped
    owed,       \* stop deadlines committed whose schedule() call is still to run
    pending,    \* session_alarm_state.pending_deadline
    inFlight,   \* session_alarm_state.in_flight_deadline
    dirty,      \* the session's file was written since the point the boot scan starts at
    slot,       \* session_deadlines.deadline: what the host will fire
    claim,      \* session_deadlines.in_flight: what the host is delivering
    failures,   \* session_deadlines.failures
    tried,      \* failures when the claim was taken
    phase,      \* how far the delivery has come
    faults,     \* faults so far
    lapsed      \* history: the host let go of an alarm and has armed nothing since

file == <<pending, inFlight, dirty>>
host == <<slot, claim, failures, tried>>
vars == <<now, stop, owed, file, host, phase, faults, lapsed>>

Earlier(a, b) == IF a < b THEN a ELSE b

(* Arm the runtime unless it is armed at or before the deadline; arming    *)
(* renews the host's retry budget.                                         *)
Arm(deadline) ==
    IF deadline < slot THEN slot' = deadline /\ failures' = 0
    ELSE UNCHANGED <<slot, failures>>

Fault == faults < MaxFaults /\ faults' = faults + 1

-----------------------------------------------------------------------------
(* The scheduler.                                                          *)

(* setPendingEarliest.                                                     *)
Persist(deadline) == pending' = Earlier(pending, deadline) /\ dirty' = TRUE

(* schedule(): persist the earlier of the two, then arm it.  If the host's *)
(* index cannot be written the deadline stays persisted.                   *)
Schedule(deadline)      == Persist(deadline) /\ Arm(pending')
ScheduleFails(deadline) == Fault /\ Persist(deadline) /\ UNCHANGED <<slot, failures>>

(* ExecutionStopCoordinator.prepare: the fence and the pending deadline in *)
(* one transaction; deliver will call schedule() for it.  A prompt is at   *)
(* work only when no stop is unconfirmed (PromptQueue's OneAtATime).       *)
Prepare(deadline) ==
    /\ deadline > now /\ stop = Never
    /\ stop' = deadline
    /\ owed' = owed \cup {deadline}
    /\ Persist(deadline)
    /\ UNCHANGED <<now, inFlight, host, phase, faults, lapsed>>

(* deliver's call; if it fails, deliver terminates the sandbox and drops   *)
(* the fence itself, provided it is still this stop's.                     *)
Deliver(deadline) ==
    /\ deadline \in owed
    /\ owed' = owed \ {deadline}
    /\ \/ Schedule(deadline) /\ UNCHANGED <<stop, faults>>
       \/ ScheduleFails(deadline) /\ stop' = IF stop = deadline THEN Never ELSE stop
    /\ UNCHANGED <<now, inFlight, claim, tried, phase, lapsed>>

(* Some other caller: a lifecycle check, an execution timeout, a lease.    *)
ScheduleOther(deadline) ==
    /\ deadline > now
    /\ \/ Schedule(deadline) /\ UNCHANGED faults
       \/ ScheduleFails(deadline)
    /\ UNCHANGED <<now, stop, owed, inFlight, claim, tried, phase, lapsed>>

(* The stop is confirmed, or its sandbox lost: nobody disarms the alarm.   *)
Confirm ==
    /\ stop # Never /\ stop' = Never
    /\ UNCHANGED <<now, owed, file, host, phase, faults, lapsed>>

(* rehydrate() at an activation of the session.                            *)
Rehydrate ==
    /\ Arm(Earlier(pending, inFlight))
    /\ lapsed' = FALSE
    /\ UNCHANGED <<now, stop, owed, file, claim, tried, phase, faults>>

-----------------------------------------------------------------------------
(* Delivery.                                                               *)

(* The host claims a due deadline, with the failures its alarm has had:    *)
(* the session reads as disarmed while the delivery runs.                  *)
Fire ==
    /\ phase = "none" /\ phase' = "claimed"
    /\ slot <= now
    /\ claim' = slot /\ slot' = Never /\ tried' = failures
    /\ UNCHANGED <<now, stop, owed, file, failures, faults, lapsed>>

(* beginDelivery: a deadline still in flight is a retry of it, and leaves  *)
(* the pending one alone.                                                  *)
BeginDelivery ==
    /\ phase = "claimed" /\ phase' = "handling"
    /\ IF inFlight = Never THEN inFlight' = pending /\ pending' = Never
       ELSE UNCHANGED <<inFlight, pending>>
    /\ dirty' = TRUE
    /\ UNCHANGED <<now, stop, owed, host, faults, lapsed>>

(* Mutant: a stop whose deadline is still ahead is not scheduled again.    *)
Handle_NoReassert ==
    /\ phase = "handling" /\ phase' = "handled"
    /\ stop' = IF stop <= now THEN Never ELSE stop
    /\ UNCHANGED <<now, owed, file, host, faults, lapsed>>

(* The alarm handler recovers a stop that is overdue, and schedules again  *)
(* one that is not, since this alarm may have been the only one.           *)
Handle ==
    /\ phase = "handling" /\ phase' = "handled"
    /\ IF stop <= now \/ stop = Never
       THEN stop' = Never /\ UNCHANGED <<pending, dirty, slot, failures>>
       ELSE Schedule(stop) /\ UNCHANGED stop
    /\ UNCHANGED <<now, owed, inFlight, claim, tried, faults, lapsed>>

(* rearmPending and completeDelivery, if the alarm had a deadline at all.  *)
Acknowledge ==
    /\ phase = "handled" /\ phase' = "acknowledged"
    /\ IF inFlight = Never THEN UNCHANGED <<slot, failures, inFlight, dirty>>
       ELSE Arm(pending) /\ inFlight' = Never /\ dirty' = TRUE
    /\ UNCHANGED <<now, stop, owed, pending, claim, tried, faults, lapsed>>

(* The host settles a delivery that succeeded; a settlement that cannot be *)
(* written leaves the claim in the index.                                  *)
Settle ==
    /\ phase = "acknowledged" /\ phase' = "none"
    /\ \/ claim' = Never /\ failures' = 0 /\ UNCHANGED faults
       \/ Fault /\ UNCHANGED <<claim, failures>>
    /\ UNCHANGED <<now, stop, owed, file, slot, tried, lapsed>>

(* The handler or the re-arming throws.  The alarm is armed again after a  *)
(* backoff (or sooner, if something sooner was armed) unless the attempts  *)
(* are spent or the retry cannot be written.                               *)
DeliveryFails ==
    /\ phase \in {"handling", "handled"} /\ phase' = "none"
    /\ Fault
    /\ \/ /\ tried < MaxRetries
          /\ \E at \in Time : at >= now /\ slot' = Earlier(slot, at)
          /\ claim' = Never /\ failures' = failures + 1
          /\ UNCHANGED lapsed
       \/ /\ tried >= MaxRetries
          /\ claim' = Never /\ failures' = 0
          /\ lapsed' = (slot = Never)
          /\ UNCHANGED slot
       \/ /\ lapsed' = (slot = Never)
          /\ UNCHANGED <<slot, claim, failures>>
    /\ UNCHANGED <<now, stop, owed, file, tried>>

-----------------------------------------------------------------------------
(* The process ends and boots; a boot arms every claim it finds.           *)

Boot(sooner) ==
    /\ slot' = Earlier(Earlier(slot, claim), sooner)
    /\ claim' = Never /\ phase' = "none" /\ owed' = {}
    /\ dirty' = FALSE
    /\ lapsed' = (lapsed /\ slot' = Never)
    /\ UNCHANGED <<now, stop, pending, inFlight, failures, tried>>

(* Mutant: the session files are not scanned.                              *)
Crash_NoScan == Fault /\ Boot(Never)

(* After an unclean stop the earliest deadline in each session file that   *)
(* was written since the last scan is armed too.                           *)
Crash == Fault /\ Boot(IF dirty THEN Earlier(pending, inFlight) ELSE Never)

(* A stop that abandoned no work is marked clean: nothing is scanned.      *)
Shutdown == phase = "none" /\ owed = {} /\ Boot(Never) /\ UNCHANGED faults

Tick == now < MaxTime /\ now' = now + 1
        /\ UNCHANGED <<stop, owed, file, host, phase, faults, lapsed>>

-----------------------------------------------------------------------------
Init ==
    /\ now = 0 /\ stop = Never /\ owed = {}
    /\ pending = Never /\ inFlight = Never /\ dirty = FALSE
    /\ slot = Never /\ claim = Never /\ failures = 0 /\ tried = 0
    /\ phase = "none" /\ faults = 0 /\ lapsed = FALSE

Delivery == Fire \/ BeginDelivery \/ Handle \/ Acknowledge \/ Settle

Next ==
    \/ Delivery \/ DeliveryFails \/ Confirm \/ Rehydrate \/ Tick \/ Crash \/ Shutdown
    \/ \E d \in Time : Prepare(d) \/ Deliver(d) \/ ScheduleOther(d)

Spec == Init /\ [][Next]_vars

(* Time passes, a due alarm fires and its delivery runs on, and a call     *)
(* already made runs.                                                      *)
HostFairness == WF_vars(Tick) /\ WF_vars(Delivery) /\ WF_vars(\E d \in Time : Deliver(d))

(* And a session whose alarm the host let go of is some day used again.    *)
FairSpec == Spec /\ HostFairness /\ WF_vars(lapsed /\ Rehydrate)

-----------------------------------------------------------------------------
(* Every variable holds a deadline, a counter or a phase of the code.  No  *)
(* alarm ever fails more often than it is retried, so the clock's check    *)
(* for a claim over budget never finds one.                                *)
TimesOK ==
    /\ now \in Time /\ owed \in SUBSET Time
    /\ stop \in Time \cup {Never}
    /\ pending \in Time \cup {Never} /\ inFlight \in Time \cup {Never}
    /\ slot \in Time \cup {Never} /\ claim \in Time \cup {Never}

CountsOK ==
    /\ failures \in 0..MaxRetries /\ tried \in 0..MaxRetries
    /\ faults \in 0..MaxFaults
    /\ phase \in {"none", "claimed", "handling", "handled", "acknowledged"}

FlagsOK == dirty \in BOOLEAN /\ lapsed \in BOOLEAN

TypeOK == TimesOK /\ CountsOK /\ FlagsOK

(* A stop deadline is always going to wake the session: its schedule()     *)
(* call is about to run, a delivery that will look at it is running, or    *)
(* the host is armed no later than the deadline, retries of an earlier     *)
(* alarm apart.  Only a host that let go of an alarm leaves one behind.    *)
StopIsArmed ==
    stop # Never /\ stop \notin owed /\ phase \notin {"claimed", "handling"} /\ ~lapsed =>
        /\ slot # Never
        /\ inFlight = Never => slot <= stop

(* Why it holds.  The session's file knows the stop's deadline, or has one *)
(* in flight whose delivery will look at the stop.                         *)
StopIsPersisted ==
    stop # Never => \/ pending <= stop
                    \/ inFlight # Never /\ phase \in {"none", "claimed", "handling"}

(* With nothing in flight, the host is armed for it.                       *)
HostIsArmed ==
    stop # Never /\ stop \notin owed /\ inFlight = Never /\ phase # "claimed" => slot <= stop

(* A session file not written since the last scan is one the scan may skip.*)
CleanFile ==
    ~dirty => /\ phase \in {"none", "claimed"} /\ owed = {}
              /\ phase = "claimed" /\ inFlight = Never /\ stop # Never =>
                    claim <= stop \/ slot <= stop

PhaseFacts ==
    /\ phase = "claimed" => claim # Never
    /\ phase = "acknowledged" => inFlight = Never
    /\ phase # "none" => failures <= tried

(* The inductive invariant.                                                *)
IInv == TypeOK /\ StopIsArmed /\ StopIsPersisted /\ HostIsArmed /\ CleanFile /\ PhaseFacts

(* Every stop deadline is recovered from, if faults are finitely many.     *)
StopIsRecovered == \A d \in Time : (stop = d) ~> (stop # d)

=============================================================================
