--------------------------- MODULE HostAlarmClock ---------------------------
(***************************************************************************)
(* The alarm clock of a Node host: node/host-alarm-clock.ts over the index *)
(* in node/host-alarm-index.ts.  One timer serves every session; firing    *)
(* claims the due deadlines, soonest first and a bounded number at a time, *)
(* and runs each session's handler.  A claim is a lease.  A delivery that  *)
(* outlives its lease stops counting against the bound, but its session is *)
(* excluded until it ends, which it may never do.                          *)
(*                                                                         *)
(* Times are distances from now: 0 is due or run out, Never is none.  The  *)
(* index keeps the order of overdue deadlines; here any of them can be the *)
(* soonest.  A session is claimed only while no delivery of this process   *)
(* is under way for it, so the claim in the index is that of its delivery  *)
(* or of nobody, and claim tokens need no representation.  How many times  *)
(* a delivery is retried is AlarmSlot's; here either may happen.           *)
(***************************************************************************)
EXTENDS Naturals, FiniteSets, FiniteSetsExt

CONSTANTS
    Sessions,
    Hanging,        \* sessions whose handler may never return
    MaxConcurrent,  \* maxConcurrentDeliveries
    Lease,          \* ALARM_CLAIM_LEASE_MS
    Blind,          \* BLIND_RETRY_INTERVAL_MS
    Backoff,        \* the delay of a retry
    MaxDelay,       \* bound: how far ahead a session arms a deadline
    MaxFaults       \* bound: reads and writes of the index that fail, and crashes

ASSUME ClockAssumption ==
    /\ Hanging \subseteq Sessions /\ IsFiniteSet(Sessions)
    /\ {MaxConcurrent, Lease, Blind, Backoff} \subseteq Nat \ {0}
    /\ {MaxDelay, MaxFaults} \subseteq Nat

Horizon == Max({MaxDelay, Lease + Blind, Backoff})
Never   == Horizon + 1
Time    == 0..Horizon

VARIABLES
    deadline,   \* session_deadlines.deadline
    claim,      \* session_deadlines.in_flight
    lease,      \* session_deadlines.lease_expires_at
    delivery,   \* inFlight: none, live (counted) or abandoned
    timer,      \* when the timer fires
    running,    \* the clock is started
    faults      \* faults so far

index == <<deadline, claim, lease>>
vars  == <<index, delivery, timer, running, faults>>

Earlier(a, b) == IF a < b THEN a ELSE b
Later(a, b)   == IF a < b THEN b ELSE a
Soonest(S)    == IF S = {} THEN Never ELSE Min(S)

Fault == faults < MaxFaults /\ faults' = faults + 1

Live(d) == {s \in Sessions : d[s] = "live"}
Free(d) == Cardinality(Live(d)) < MaxConcurrent

-----------------------------------------------------------------------------
(* earliestLease: the soonest lease in the index, the run-out ones too.    *)
EarliestLease(c, l) == Soonest({l[s] : s \in {x \in Sessions : c[x] # Never}})

(* earliest: the soonest deadline of a session not being delivered to.     *)
EarliestDeadline(d, dl) == Soonest({d[s] : s \in {x \in Sessions : dl[x] = "none"}})

(* What arm() wakes for: the soonest lease if it is still to run out and,  *)
(* below the bound, the soonest deadline; neither before notBefore.        *)
WakeAt(d, c, l, dl, notBefore) ==
    LET ahead == EarliestLease(c, l)
        next  == EarliestDeadline(d, dl)
        floor == IF notBefore = Never THEN 0 ELSE notBefore
        onLease == IF ahead \in 1..Horizon THEN Later(ahead, floor) ELSE notBefore
    IN  IF Free(dl) /\ next # Never THEN Earlier(onLease, Later(next, floor))
        ELSE onLease

(* arm(): set the timer, if the clock runs.  Where the index cannot be     *)
(* read the clock wakes blind.                                             *)
Arm(notBefore) ==
    IF ~running' THEN timer' = Never /\ UNCHANGED faults
    ELSE \/ timer' = WakeAt(deadline', claim', lease', delivery', notBefore) /\ UNCHANGED faults
         \/ Fault /\ timer' = Blind

-----------------------------------------------------------------------------
(* storeFor(s).setAlarm; nothing calls deleteAlarm.                        *)
SetAlarm(s, at) ==
    /\ deadline' = [deadline EXCEPT ![s] = at]
    /\ UNCHANGED <<claim, lease, delivery, running>>
    /\ Arm(Never)

(* abandonExpiredDeliveries.                                               *)
Abandoned == [s \in Sessions |-> IF delivery[s] = "live" /\ lease[s] = 0 THEN "abandoned"
                                 ELSE delivery[s]]

(* Mutant: a session whose delivery was abandoned is due again.            *)
Due_Abandoned(dl) == {s \in Sessions : deadline[s] = 0 /\ dl[s] # "live"}

(* due(): armed, not ahead, and nothing under way for the session.         *)
Due(dl) == {s \in Sessions : deadline[s] = 0 /\ dl[s] = "none"}

(* claim() of each session in C, and the delivery registered for it.       *)
Claim(C) ==
    /\ claim'    = [s \in Sessions |-> IF s \in C THEN deadline[s] ELSE claim[s]]
    /\ deadline' = [s \in Sessions |-> IF s \in C THEN Never ELSE deadline[s]]
    /\ lease'    = [s \in Sessions |-> IF s \in C THEN Lease ELSE lease[s]]
    /\ delivery' = [s \in Sessions |-> IF s \in C THEN "live" ELSE Abandoned[s]]

(* Mutant: the bound is checked once and not for every claim.              *)
Room_Unbounded(dl) == IF Free(dl) THEN Cardinality(Sessions) ELSE 0

(* The capacity a tick has left.                                           *)
Room(dl) == IF Free(dl) THEN MaxConcurrent - Cardinality(Live(dl)) ELSE 0

(* tick() claims as many due sessions as there is room for.  An index that *)
(* fails part-way leaves the claims made so far, and is left alone for a   *)
(* while.                                                                  *)
Tick(C) ==
    LET due == Due(Abandoned)
        all == Earlier(Cardinality(due), Room(Abandoned))
    IN  /\ running /\ timer = 0
        /\ C \subseteq due /\ Cardinality(C) <= all
        /\ Claim(C)
        /\ UNCHANGED running
        /\ \/ Cardinality(C) = all /\ Arm(Never)
           \/ Fault /\ timer' = WakeAt(deadline', claim', lease', delivery', Blind)

(* Mutant: the end of a delivery does not arm the timer again.             *)
Settle_NoArm(s) ==
    /\ delivery[s] # "none"
    /\ claim' = [claim EXCEPT ![s] = Never] /\ lease' = [lease EXCEPT ![s] = Never]
    /\ delivery' = [delivery EXCEPT ![s] = "none"]
    /\ UNCHANGED <<deadline, timer, running, faults>>

(* The delivery of s ends: its handler succeeded or was retried often      *)
(* enough, or failed and is armed again after a backoff (or sooner, if its *)
(* handler armed something sooner).                                        *)
Settle(s) ==
    /\ delivery[s] # "none"
    /\ claim' = [claim EXCEPT ![s] = Never] /\ lease' = [lease EXCEPT ![s] = Never]
    /\ \/ UNCHANGED deadline
       \/ deadline' = [deadline EXCEPT ![s] = Earlier(@, Backoff)]
    /\ delivery' = [delivery EXCEPT ![s] = "none"]
    /\ UNCHANGED running
    /\ Arm(Never)

(* The end of it cannot be written: the claim stays in the index.          *)
SettleFails(s) ==
    /\ delivery[s] # "none"
    /\ delivery' = [delivery EXCEPT ![s] = "none"]
    /\ UNCHANGED <<index, running>>
    /\ Fault
    /\ timer' = IF running THEN WakeAt(deadline, claim, lease, delivery', Never) ELSE Never

(* stop(): deliveries under way go on.                                     *)
Stop ==
    /\ running /\ running' = FALSE /\ timer' = Never
    /\ UNCHANGED <<index, delivery, faults>>

(* The process ends, by a crash or after a stop, and the next one starts:  *)
(* start() arms every claim it finds in the index.                         *)
Restart ==
    /\ delivery' = [s \in Sessions |-> "none"]
    /\ deadline' = [s \in Sessions |-> Earlier(deadline[s], claim[s])]
    /\ claim'    = [s \in Sessions |-> Never]
    /\ lease'    = [s \in Sessions |-> Never]
    /\ running' = TRUE
    /\ IF running THEN Fault /\ timer' = WakeAt(deadline', claim', lease', delivery', Never)
                  ELSE Arm(Never)

(* Time passes; a timer that is due fires first.                           *)
Closer(t) == IF t = Never \/ t = 0 THEN t ELSE t - 1

Pass ==
    /\ timer # 0
    /\ deadline' = [s \in Sessions |-> Closer(deadline[s])]
    /\ claim'    = [s \in Sessions |-> Closer(claim[s])]
    /\ lease'    = [s \in Sessions |-> Closer(lease[s])]
    /\ timer' = Closer(timer)
    /\ UNCHANGED <<delivery, running, faults>>

-----------------------------------------------------------------------------
Init ==
    /\ deadline = [s \in Sessions |-> Never]
    /\ claim = [s \in Sessions |-> Never] /\ lease = [s \in Sessions |-> Never]
    /\ delivery = [s \in Sessions |-> "none"]
    /\ timer = Never /\ running = TRUE /\ faults = 0

Next ==
    \/ \E s \in Sessions : Settle(s) \/ SettleFails(s)
    \/ \E s \in Sessions, at \in 0..MaxDelay : SetAlarm(s, at)
    \/ \E C \in SUBSET Sessions : Tick(C)
    \/ Stop \/ Restart \/ Pass

Spec == Init /\ [][Next]_vars

(* Time passes and timers fire; a handler that does not hang returns; a    *)
(* stopped host is started again.  The index hands out deadlines in their  *)
(* order, so a session is not passed over for ever (strong fairness).      *)
FairSpec ==
    /\ Spec /\ WF_vars(Pass) /\ WF_vars(\E C \in SUBSET Sessions : Tick(C))
    /\ WF_vars(~running /\ Restart)
    /\ \A s \in Sessions :
           /\ SF_vars(\E C \in SUBSET Sessions : s \in C /\ Tick(C))
           /\ s \notin Hanging => WF_vars(Settle(s))

-----------------------------------------------------------------------------
(* Every variable holds a time, a state of a delivery or a counter, and a  *)
(* delivery under way has its claim and its lease in the index.            *)
IndexOK      == {deadline, claim, lease} \subseteq [Sessions -> Time \cup {Never}]
DeliveriesOK == delivery \in [Sessions -> {"none", "live", "abandoned"}]
ClaimsOK     == \A s \in Sessions : /\ delivery[s] # "none" => claim[s] # Never
                                    /\ (claim[s] = Never) = (lease[s] = Never)
HostOK       == timer \in Time \cup {Never} /\ running \in BOOLEAN /\ faults \in 0..MaxFaults

TypeOK == IndexOK /\ DeliveriesOK /\ ClaimsOK /\ HostOK

(* No more deliveries count at a time than the bound allows, whatever was  *)
(* abandoned, lost or started again meanwhile.                             *)
BoundHolds == Cardinality(Live(delivery)) <= MaxConcurrent

(* A delivery is never started in a session beside one that has not ended, *)
(* be it abandoned: while it is under way its claim and lease stand.       *)
NeverOverlapped ==
    [][\A s \in Sessions : delivery[s] # "none" /\ delivery'[s] # "none" =>
           /\ delivery[s] = "abandoned" => delivery'[s] = "abandoned"
           /\ lease'[s] <= lease[s]]_vars

(* A deadline that is due is delivered, or changed by its session, as long *)
(* as handlers return: one that hangs costs the clock no more than a lease.*)
DueIsServed ==
    \A s \in Sessions : deadline[s] = 0 ~> (delivery[s] # "none" \/ deadline[s] # 0)

=============================================================================
