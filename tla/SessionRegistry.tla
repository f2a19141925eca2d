-------------------------- MODULE SessionRegistry --------------------------
(***************************************************************************)
(* The runtimes of a Node host: node/session-runtime-registry.ts over the  *)
(* sockets of node/socket-host.ts.  A session's runtime is built when an   *)
(* event first needs it, by one build that all events of that moment       *)
(* share, stays while something holds it, and is retired by the idle       *)
(* sweep, by a build that needs its place, or by the shutdown.             *)
(*                                                                         *)
(* One action is what runs between two awaits.  A caller's continuation is *)
(* an action of its own, so anything may come between finding a runtime    *)
(* and taking a lease on it, or between the verdict that a runtime is      *)
(* quiescent and its retirement.                                           *)
(***************************************************************************)
EXTENDS Naturals, FiniteSets, FiniteSetsExt

CONSTANTS
    Sessions,
    Wired,          \* bound: sessions that have sockets
    Callers,        \* bound: who calls the registry at once
    Alarms,         \* of those, the deliveries of the alarm clock
    MaxResident     \* maxResident

ASSUME RegistryAssumption ==
    /\ Wired \subseteq Sessions /\ Alarms \subseteq Callers /\ IsFiniteSet(Callers)
    /\ MaxResident \in Nat \ {0}

(* withRuntime, withRuntimeIfPresent, deliverScheduledDeadline.            *)
Kinds    == {"event", "ifPresent", "alarm"}
Calls(c) == IF c \in Alarms THEN {"alarm"} ELSE {"event", "ifPresent"}

VARIABLES
    life,       \* of the session's runtime: none, a build, or its residency state
    rehydrate,  \* ActivationIntent.rehydrate of the build
    waiters,    \* ActivationIntent.waiters of the build
    leases,     \* activeLeases of the runtime
    sock,       \* the socket it has adopted
    delivery,   \* its socket's deliveries: one under way, or the next about to start
    queued,     \* a close waits behind the delivery under way
    tasks,      \* sessions whose runtime has background tasks running
    known,      \* sessions with a store or a row in the index
    call,       \* the callers: how far they are, for which session, with which call
    sweep,      \* the runtime the sweep reads the deadline of; old once it is retired
    down,       \* how far the shutdown is
    forced      \* the sessions it had to force

runtime == <<life, rehydrate, waiters, leases>>
sockets == <<sock, delivery, queued>>
vars == <<runtime, sockets, tasks, known, call, sweep, down, forced>>

NoSweep == [on |-> {}, old |-> FALSE]
NoCall  == [at |-> "idle", on |-> {}, kind |-> "event"]

Building  == {"checking", "building"}
Published == {"resident", "quiescing", "quiet"}    \* in the map `resident`
Up        == {s \in Sessions : life[s] \in Published}

On(s, where) == {c \in Callers : call[c].on = {s} /\ call[c].at \in where}

(* Callers with a lease: not run yet, at work, or with their socket adopted.*)
Holding  == {"granted", "using", "adopted"}
Users(s) == On(s, Holding)

(* isQuiescent, and isIdle: idleAfterMs have gone by as well, which is more *)
(* than the continuations that are due take.                               *)
Quiescent(s) == leases[s] = 0 /\ sock[s] = "none" /\ s \notin tasks
Idle(s)      == Quiescent(s) /\ delivery[s] # "next" /\ On(s, {"found"}) = {}

(* The callers who wait for a build get its runtime: which call they made   *)
(* no longer matters, but for an upgrade.  Or callers have their answer.   *)
Admitted(s) ==
    [c \in Callers |-> IF c \notin On(s, {"waiting"}) THEN call[c]
                       ELSE [call[c] EXCEPT !.at = "granted", !.kind = IF @ = "alarm" THEN "event" ELSE @]]

Answered(s, from) == [c \in Callers |-> IF c \in On(s, from) THEN NoCall ELSE call[c]]

Move(c, to) == call' = [call EXCEPT ![c].at = to]
Answer(c)   == call' = [call EXCEPT ![c] = NoCall]

-----------------------------------------------------------------------------
(* Opening.                                                                *)

(* Mutant: a joiner is not counted.                                        *)
Join_Uncounted(c, s, k) ==
    /\ rehydrate' = [rehydrate EXCEPT ![s] = @ /\ k # "alarm"]
    /\ UNCHANGED <<life, waiters>>

(* An event that finds a build in progress joins it.                       *)
Join(c, s, k) ==
    /\ rehydrate' = [rehydrate EXCEPT ![s] = @ /\ k # "alarm"]
    /\ waiters' = [waiters EXCEPT ![s] = @ + 1]
    /\ UNCHANGED life

Begin(c, s, k) ==
    /\ life' = [life EXCEPT ![s] = IF k = "ifPresent" THEN "checking" ELSE "building"]
    /\ rehydrate' = [rehydrate EXCEPT ![s] = k # "alarm"]
    /\ waiters' = [waiters EXCEPT ![s] = 1]

(* open(): the resident runtime, the build in progress, or a new build,    *)
(* which a shutdown refuses.                                               *)
Open(c, s, k) ==
    /\ call' = [call EXCEPT ![c] =
           IF life[s] = "none" /\ down # "no" THEN NoCall
           ELSE [at |-> IF s \in Up THEN "found" ELSE "waiting", on |-> {s}, kind |-> k]]
    /\ CASE life[s] \in Building          -> Join(c, s, k)
         [] life[s] = "none" /\ down = "no" -> Begin(c, s, k)
         [] OTHER                         -> UNCHANGED <<life, rehydrate, waiters>>
    /\ UNCHANGED <<leases, sockets, tasks, known, sweep, down, forced>>

(* A new call; who has to open again does so in a continuation that is due.*)
Call(c, s, k) == call[c] = NoCall /\ On(s, {"again"}) = {} /\ Open(c, s, k)

(* isPresent finds a store or a row, and the build goes on.                *)
Present(s) ==
    /\ life[s] = "checking" /\ s \in known
    /\ life' = [life EXCEPT ![s] = "building"]
    /\ UNCHANGED <<rehydrate, waiters, leases, sockets, tasks, known, call, sweep,
                   down, forced>>

(* Mutant: an unconditional caller that joined is not told.                *)
Absent_KeepsJoiners(s) ==
    /\ life[s] = "checking" /\ s \notin known
    /\ life' = [life EXCEPT ![s] = "none"]
    /\ waiters' = [waiters EXCEPT ![s] = 0] /\ rehydrate' = [rehydrate EXCEPT ![s] = TRUE]
    /\ call' = [c \in Callers |-> IF c \notin On(s, {"waiting"}) THEN call[c]
                                  ELSE IF call[c].kind = "ifPresent" THEN NoCall
                                  ELSE call[c]]
    /\ UNCHANGED <<leases, sockets, tasks, known, sweep, down, forced>>

(* It finds neither: conditional callers have their answer, others that    *)
(* joined them build on their own turn.                                    *)
Absent(s) ==
    /\ life[s] = "checking" /\ s \notin known
    /\ life' = [life EXCEPT ![s] = "none"]
    /\ waiters' = [waiters EXCEPT ![s] = 0] /\ rehydrate' = [rehydrate EXCEPT ![s] = TRUE]
    /\ call' = [c \in Callers |-> IF c \notin On(s, {"waiting"}) THEN call[c]
                                  ELSE IF call[c].kind = "ifPresent" THEN NoCall
                                  ELSE [call[c] EXCEPT !.at = "again"]]
    /\ UNCHANGED <<leases, sockets, tasks, known, sweep, down, forced>>

(* A store that does not open, or a runtime that does not build: everybody *)
(* who waits has the error.                                                *)
OpenFails(s) ==
    /\ life[s] \in Building
    /\ life' = [life EXCEPT ![s] = "none"]
    /\ waiters' = [waiters EXCEPT ![s] = 0] /\ rehydrate' = [rehydrate EXCEPT ![s] = TRUE]
    /\ call' = Answered(s, {"waiting"})
    /\ known' \in {known, IF life[s] = "building" THEN known \cup {s} ELSE known}
    /\ UNCHANGED <<leases, sockets, tasks, sweep, down, forced>>

(* Mutant: room for one more is not needed before there is one too many.   *)
Evicted_OffByOne ==
    LET Q == {r \in Up : life[r] = "resident" /\ Quiescent(r)}
        excess == Cardinality(Up) - MaxResident
    IN  IF Cardinality(Up) <= MaxResident THEN {{}}
        ELSE kSubset(IF excess < Cardinality(Q) THEN excess ELSE Cardinality(Q), Q)

(* makeRoom: quiescent runtimes, as many as it takes to be below the bound *)
(* or all there are.  Which of them were active last is left out.          *)
Evicted ==
    LET Q == {r \in Up : life[r] = "resident" /\ Quiescent(r)}
        excess == Cardinality(Up) + 1 - MaxResident
    IN  IF Cardinality(Up) < MaxResident THEN {{}}
        ELSE kSubset(IF excess < Cardinality(Q) THEN excess ELSE Cardinality(Q), Q)

(* Who holds a reference to a runtime of R finds it retired.               *)
Outdated(R, calls) ==
    [c \in Callers |-> IF calls[c].at = "found" /\ calls[c].on \subseteq R
                       THEN [calls[c] EXCEPT !.at = "stale"] ELSE calls[c]]

(* A delivery that is due in a retired runtime goes on without a store: it *)
(* is no longer of interest here.                                          *)
Abandoned(R) ==
    /\ delivery' = [s \in Sessions |-> IF s \in R THEN "none" ELSE delivery[s]]
    /\ queued' = queued \ R

SweepAfter(R) == [sweep EXCEPT !.old = @ \/ sweep.on \cap R # {}]

(* The build's last continuation: room is made, and the runtime published  *)
(* with a lease for everybody who waits.  Rehydration is a background task.*)
Publish(s) ==
    /\ life[s] = "building"
    /\ \E R \in Evicted :
         /\ life' = [r \in Sessions |-> IF r = s THEN "resident" ELSE IF r \in R THEN "none" ELSE life[r]]
         /\ call' = Outdated(R, Admitted(s))
         /\ sweep' = SweepAfter(R)
         /\ Abandoned(R)
    /\ leases' = [leases EXCEPT ![s] = waiters[s]]
    /\ waiters' = [waiters EXCEPT ![s] = 0] /\ rehydrate' = [rehydrate EXCEPT ![s] = TRUE]
    /\ tasks' = IF rehydrate[s] THEN tasks \cup {s} ELSE tasks
    /\ known' = known \cup {s}
    /\ UNCHANGED <<sock, down, forced>>

(* The rehydration throws: the runtime is retired as soon as published,    *)
(* with the leases of those who waited, and they have the error.           *)
ActivationFails(s) ==
    /\ life[s] = "building" /\ rehydrate[s]
    /\ \E R \in Evicted :
         /\ life' = [r \in Sessions |-> IF r \in R \cup {s} THEN "none" ELSE life[r]]
         /\ call' = Outdated(R, Answered(s, {"waiting"}))
         /\ sweep' = SweepAfter(R)
         /\ Abandoned(R)
    /\ waiters' = [waiters EXCEPT ![s] = 0] /\ rehydrate' = [rehydrate EXCEPT ![s] = TRUE]
    /\ known' = known \cup {s}
    /\ UNCHANGED <<leases, sock, tasks, down, forced>>

-----------------------------------------------------------------------------
(* Leases: the continuation of acquireLease, and their end.                *)

TakeLease(s) ==
    leases' = [leases EXCEPT ![s] = @ + 1]

Release(s) ==
    leases' = [leases EXCEPT ![s] = @ - 1]

Closing(s) == down # "no" \/ life[s] \in {"quiescing", "quiet"}

(* A caller whose lease was taken for it at publication.                   *)
Granted(c, s) ==
    /\ call[c].on = {s}
    /\ call[c].at = "granted"
    /\ IF Closing(s) THEN Answer(c) /\ Release(s)
       ELSE Move(c, "using") /\ UNCHANGED leases
    /\ UNCHANGED <<life, rehydrate, waiters, sockets, tasks, known, sweep, down, forced>>

(* One that found a resident runtime takes its lease now.                  *)
Found(c, s) ==
    /\ call[c].on = {s}
    /\ call[c].at = "found"
    /\ IF Closing(s) THEN Answer(c) /\ UNCHANGED leases
       ELSE Move(c, "using") /\ TakeLease(s)
    /\ UNCHANGED <<life, rehydrate, waiters, sockets, tasks, known, sweep, down, forced>>

(* The runtime it found was retired, or there was none: it opens again.    *)
OpenAgain(c, s) ==
    /\ call[c].on = {s} /\ call[c].at \in {"stale", "again"}
    /\ IF call[c].at = "stale" /\ down # "no"
       THEN Answer(c) /\ UNCHANGED <<runtime, sockets, tasks, known, sweep, down, forced>>
       ELSE Open(c, s, call[c].kind)

(* The event of a caller settles.                                          *)
Leave(c, s) ==
    /\ c \in On(s, {"using", "adopted"})
    /\ Answer(c) /\ Release(s)
    /\ UNCHANGED <<life, rehydrate, waiters, sockets, tasks, known, sweep, down, forced>>

-----------------------------------------------------------------------------
(* What happens in a runtime.                                              *)

(* An upgrade adopts its socket.                                           *)
Adopt(c, s) ==
    /\ call[c] = [at |-> "using", on |-> {s}, kind |-> "ifPresent"]
    /\ s \in Wired /\ sock[s] = "none" /\ delivery[s] = "none"
    /\ sock' = [sock EXCEPT ![s] = "open"] /\ Move(c, "adopted")
    /\ UNCHANGED <<runtime, delivery, queued, tasks, known, sweep, down, forced>>

(* An event at work leaves a background task behind.                       *)
Submit(s) ==
    /\ s \in Up /\ s \notin tasks
    /\ On(s, {"using", "adopted"}) # {} \/ delivery[s] = "running"
    /\ tasks' = tasks \cup {s}
    /\ UNCHANGED <<runtime, sockets, known, call, sweep, down, forced>>

TaskEnds(s) ==
    /\ s \in tasks /\ tasks' = tasks \ {s}
    /\ UNCHANGED <<runtime, sockets, known, call, sweep, down, forced>>

(* A message is delivered under a lease of its own.                        *)
Message(s) ==
    /\ sock[s] = "open" /\ delivery[s] = "none"
    /\ delivery' = [delivery EXCEPT ![s] = "running"]
    /\ TakeLease(s)
    /\ UNCHANGED <<life, rehydrate, waiters, sock, queued, tasks, known, call, sweep, down, forced>>

(* The socket closes: it no longer counts, and its close is delivered,     *)
(* behind the delivery under way if there is one.                          *)
SocketCloses(s) ==
    /\ sock[s] # "none" /\ sock' = [sock EXCEPT ![s] = "none"]
    /\ IF delivery[s] = "none"
       THEN /\ delivery' = [delivery EXCEPT ![s] = "running"] /\ TakeLease(s)
            /\ UNCHANGED queued
       ELSE queued' = queued \cup {s} /\ UNCHANGED <<delivery, leases>>
    /\ UNCHANGED <<life, rehydrate, waiters, tasks, known, call, sweep, down, forced>>

(* A delivery settles: its lease is released at once, and the next one is  *)
(* started by a continuation of its own.  The retirement that a verdict    *)
(* leads to is one continuation away, and no delivery settles before.      *)
DeliveryEnds(s) ==
    /\ delivery[s] = "running" /\ life[s] # "quiet"
    /\ delivery' = [delivery EXCEPT ![s] = IF s \in queued THEN "next" ELSE "none"]
    /\ Release(s)
    /\ UNCHANGED <<life, rehydrate, waiters, sock, queued, tasks, known, call, sweep, down, forced>>

NextDelivery(s) ==
    /\ delivery[s] = "next" /\ delivery' = [delivery EXCEPT ![s] = "running"]
    /\ queued' = queued \ {s}
    /\ TakeLease(s)
    /\ UNCHANGED <<life, rehydrate, waiters, sock, tasks, known, call, sweep, down, forced>>

-----------------------------------------------------------------------------
(* Retirement.                                                             *)

(* retire(s).  So do the callers and tasks that are still at work in it.   *)
Retire(s) ==
    /\ life' = [life EXCEPT ![s] = "none"]
    /\ call' = Outdated({s}, Answered(s, Holding))
    /\ leases' = [leases EXCEPT ![s] = 0]
    /\ sock' = [sock EXCEPT ![s] = "none"] /\ tasks' = tasks \ {s}
    /\ Abandoned({s})
    /\ UNCHANGED <<rehydrate, waiters, known>>

(* The sweep finds an idle runtime and reads its deadline.                 *)
SweepLooks(s) ==
    /\ sweep = NoSweep /\ down \in {"no", "opening"}
    /\ s \in Up /\ Idle(s)
    /\ sweep' = [on |-> {s}, old |-> FALSE]
    /\ UNCHANGED <<runtime, sockets, tasks, known, call, down, forced>>

(* The deadline is close or cannot be read, or there is nothing to retire. *)
SweepKeeps ==
    /\ sweep # NoSweep /\ sweep' = NoSweep
    /\ UNCHANGED <<runtime, sockets, tasks, known, call, down, forced>>

(* Mutant: whether the runtime is idle is not asked again.                 *)
SweepRetires_NoRecheck(s) ==
    /\ sweep = [on |-> {s}, old |-> FALSE] /\ life[s] = "resident"
    /\ Retire(s) /\ sweep' = NoSweep
    /\ UNCHANGED <<down, forced>>

SweepRetires(s) ==
    /\ sweep = [on |-> {s}, old |-> FALSE] /\ life[s] = "resident" /\ Idle(s)
    /\ Retire(s) /\ sweep' = NoSweep
    /\ UNCHANGED <<down, forced>>

-----------------------------------------------------------------------------
(* The shutdown.                                                           *)

Shutdown ==
    /\ down = "no" /\ down' = "opening"
    /\ UNCHANGED <<runtime, sockets, tasks, known, call, sweep, forced>>

(* Builds in progress publish, a sweep ends, and then every runtime closes *)
(* its sockets and waits.                                                  *)
Quiesce ==
    /\ down = "opening" /\ sweep = NoSweep
    /\ \A s \in Sessions : life[s] \notin Building
    /\ down' = "quiescing"
    /\ life' = [s \in Sessions |-> IF s \in Up THEN "quiescing" ELSE life[s]]
    /\ sock' = [s \in Sessions |-> IF sock[s] = "open" THEN "closing" ELSE sock[s]]
    /\ UNCHANGED <<rehydrate, waiters, leases, delivery, queued, tasks, known, call,
                   sweep, forced>>

(* A pass of waitForQuiescence closes a socket adopted since the last, or  *)
(* finds the runtime quiescent.                                            *)
ClosePass(s) ==
    /\ life[s] = "quiescing" /\ sock[s] = "open"
    /\ sock' = [sock EXCEPT ![s] = "closing"]
    /\ UNCHANGED <<runtime, delivery, queued, tasks, known, call, sweep, down, forced>>

Verdict(s) ==
    /\ life[s] = "quiescing" /\ Quiescent(s)
    /\ life' = [life EXCEPT ![s] = "quiet"]
    /\ UNCHANGED <<rehydrate, waiters, leases, sockets, tasks, known, call, sweep,
                   down, forced>>

RetireQuiet(s) ==
    /\ life[s] = "quiet"
    /\ Retire(s)
    /\ UNCHANGED <<sweep, down, forced>>

(* Mutant: the budget does not end the wait.                               *)
ForceRetire_Waits(s) ==
    /\ life[s] = "quiescing" /\ Quiescent(s) /\ On(s, {"granted"}) = {}
    /\ forced' = IF Quiescent(s) THEN forced ELSE forced \cup {s}
    /\ Retire(s)
    /\ UNCHANGED <<sweep, down>>

(* The budget is spent: a runtime still busy is retired all the same, and  *)
(* reported.                                                               *)
ForceRetire(s) ==
    /\ life[s] = "quiescing" /\ On(s, {"granted"}) = {}
    /\ forced' = IF Quiescent(s) THEN forced ELSE forced \cup {s}
    /\ Retire(s)
    /\ UNCHANGED <<sweep, down>>

ShutdownEnds ==
    /\ down = "quiescing" /\ \A s \in Sessions : life[s] \notin {"quiescing", "quiet"}
    /\ down' = "done"
    /\ UNCHANGED <<runtime, sockets, tasks, known, call, sweep, forced>>

-----------------------------------------------------------------------------
Init ==
    /\ life = [s \in Sessions |-> "none"] /\ rehydrate = [s \in Sessions |-> TRUE]
    /\ waiters = [s \in Sessions |-> 0] /\ leases = [s \in Sessions |-> 0]
    /\ sock = [s \in Sessions |-> "none"] /\ delivery = [s \in Sessions |-> "none"]
    /\ queued = {} /\ tasks = {} /\ known \in SUBSET Sessions
    /\ call = [c \in Callers |-> NoCall]
    /\ sweep = NoSweep /\ down = "no" /\ forced = {}

Build(s) == Present(s) \/ Absent(s) \/ OpenFails(s) \/ Publish(s) \/ ActivationFails(s)

Continue(c, s) == Granted(c, s) \/ Found(c, s) \/ OpenAgain(c, s)

User(c, s) == Leave(c, s) \/ Adopt(c, s) \/ \E k \in Calls(c) : Call(c, s, k)

Work(s) == \/ Submit(s) \/ TaskEnds(s) \/ Message(s) \/ SocketCloses(s) \/ DeliveryEnds(s)
           \/ NextDelivery(s)

Sweeps(s) == SweepLooks(s) \/ SweepRetires(s)

Closes(s) == ClosePass(s) \/ Verdict(s) \/ RetireQuiet(s) \/ ForceRetire(s)

Next ==
    \/ \E c \in Callers, s \in Sessions : Continue(c, s) \/ User(c, s)
    \/ \E s \in Sessions : Build(s) \/ Work(s) \/ Sweeps(s) \/ Closes(s)
    \/ SweepKeeps \/ Shutdown \/ Quiesce \/ ShutdownEnds

Spec == Init /\ [][Next]_vars

(* Stores open, the index answers, continuations run and the budget of a   *)
(* shutdown ends.  A sweep looks at each runtime once, so that there is an  *)
(* end to it; and between finding a runtime and taking the lease, one turn *)
(* of the microtask queue away, it can be retired, but not every time      *)
(* (strong fairness).  Nothing is owed by events at work, tasks or peers.  *)
FairSpec ==
    /\ Spec
    /\ \A s \in Sessions : WF_vars(Build(s)) /\ WF_vars(RetireQuiet(s) \/ ForceRetire(s))
    /\ \A c \in Callers : /\ WF_vars(\E s \in Sessions : Continue(c, s))
                             /\ SF_vars(\E s \in Sessions : Found(c, s))
    /\ WF_vars(SweepKeeps \/ \E s \in Sessions : SweepRetires(s))
    /\ SF_vars(Quiesce) /\ WF_vars(ShutdownEnds)

-----------------------------------------------------------------------------
(* Every variable holds a state of the code.                               *)
TypeOK ==
    /\ life \in [Sessions -> {"none"} \cup Building \cup Published]
    /\ rehydrate \in [Sessions -> BOOLEAN]
    /\ waiters \in [Sessions -> Nat] /\ leases \in [Sessions -> Nat]
    /\ sock \in [Sessions -> {"none", "open", "closing"}]
    /\ delivery \in [Sessions -> {"none", "running", "next"}]
    /\ {queued, tasks, known, forced} \subseteq SUBSET Sessions
    /\ call \in [Callers -> [at : {"idle", "waiting", "granted", "found", "stale", "again", "using", "adopted"},
                             on : SUBSET Sessions, kind : Kinds]]
    /\ sweep \in [on : SUBSET Sessions, old : BOOLEAN]
    /\ down \in {"no", "opening", "quiescing", "done"}

(* Leases are counted right: a runtime has one for every caller that uses  *)
(* it or is about to, and one for a delivery under way; nobody holds one   *)
(* on a runtime that is gone, and a build counts all who wait for it.      *)
LeasesCounted ==
    \A s \in Sessions :
        /\ leases[s] = IF s \in Up THEN Cardinality(Users(s))
                                         + (IF delivery[s] = "running" THEN 1 ELSE 0) ELSE 0
        /\ waiters[s] = Cardinality(On(s, {"waiting"}))
        /\ s \notin Up => Users(s) = {}

(* A runtime is not retired while a caller uses it, a background task runs *)
(* or a socket is open, unless the shutdown reports it as forced. A task   *)
(* is not counted while a close is being delivered: the delivery may have  *)
(* started it between the drain's verdict and the retirement, a deviation  *)
(* the README describes (session-runtime-registry.ts:254-260).             *)
NotUnderneath ==
    [][\A s \in Up : life'[s] = "none" /\ s \notin forced' =>
           /\ Users(s) = {} /\ sock[s] = "none"
           /\ s \in tasks => delivery[s] = "running"]_vars

(* There are more runtimes than the bound only when none of those that     *)
(* were there could go.                                                    *)
BeyondBoundIfBusy ==
    [][Up \ Up' = {} /\ Up' # Up /\ Cardinality(Up') > MaxResident =>
           \A s \in Up : ~Quiescent(s) \/ life[s] # "resident"]_vars

(* A shutdown ends, whatever is at work, and leaves no runtime behind,     *)
(* then or later.                                                          *)
ShutdownCompletes == down # "no" ~> [](down = "done" /\ \A s \in Sessions : life[s] = "none")

(* Every caller gets its runtime, an error, or a refusal.                  *)
CallersServed ==
    \A c \in Callers :
        call[c].at \in {"waiting", "found", "stale", "again", "granted"} ~>
        call[c].at \in {"using", "adopted", "idle"}

-----------------------------------------------------------------------------
(* What the invariants rest on: an inductive invariant.                    *)

(* Who waits has a build to wait for, and who found a runtime still has it.*)
CallersPlaced ==
    /\ \A c \in Callers :
          call[c] = NoCall \/ (call[c].at # "idle" /\ \E s \in Sessions : call[c].on = {s})
    /\ \A s \in Sessions : On(s, {"waiting"}) # {} => life[s] \in Building
    /\ \A s \in Sessions : On(s, {"found"}) # {} => s \in Up

(* Sockets, deliveries and tasks belong to a runtime that is there.        *)
GoneIsEmpty ==
    \A s \in Sessions \ Up : sock[s] = "none" /\ delivery[s] = "none" /\ s \notin tasks

(* Between its verdict and its retirement nothing comes to a quiet runtime *)
(* but the close of a socket that is gone, and what that leaves behind.    *)
QuietIsLeft ==
    \A s \in Sessions : life[s] = "quiet" =>
        /\ Users(s) = {} /\ sock[s] = "none"
        /\ s \in tasks => delivery[s] = "running"

(* Past the wait for the builds there are only runtimes that close, and    *)
(* past their end none at all.                                             *)
ShutdownIsFinal ==
    \A s \in Sessions :
        /\ down = "quiescing" => life[s] \in {"none", "quiescing", "quiet"}
        /\ down = "done" => life[s] = "none"

IInv == /\ TypeOK /\ LeasesCounted /\ CallersPlaced /\ GoneIsEmpty /\ QuietIsLeft
        /\ ShutdownIsFinal /\ IsFiniteSet(Up)

=============================================================================
