# A TLA+ model of the Open-Inspect control plane

This directory specifies and verifies the parts of the control plane that decide what
happens to a user's prompt and to the work that automations and image builds start on
their own: the session core (`src/packages/control-plane/src/session`), the sandbox
lifecycle (`sandbox/lifecycle`), the alarm machinery and the session runtimes of the Node
host (`session/alarm`, `node`), the scheduler's automations (`scheduler`,
`db/automation-store.ts`), and pre-built images (`image-builds`, `db/image-build*.ts`).
Safety is checked by TLC on small instances and, for most modules, proved by TLAPS for
every value of the constants; liveness is checked by TLC.

## The system

A *session* is one single-threaded actor (a Durable Object, or a session runtime of the
Node host) over a SQLite file. It queues *prompts*, runs one *sandbox*, and sends one
prompt at a time over a WebSocket to the *bridge* in it. Handlers of one session
interleave only where they `await` something other than their own storage; what a handler
read before such an await can be stale after it. An eviction or a crash loses every
suspended handler and keeps the file.

| Component | State | Operations | Talks to |
|---|---|---|---|
| Prompt queue (`message-queue.ts`, `message-repository.ts`) | `messages` rows: status, order, stop deadline | enqueue, autofix, cancel queued, `processMessageQueue`, fail stuck, cancel all | bridge (prompt), lifecycle (spawn), status, stop coordinator |
| Stop coordinator (`execution-stop-coordinator.ts`) | the stop fence: `stop_confirmation_deadline` of one message | stop, prepare/deliver, recover overdue stop, resume after termination | bridge (stop), alarm, lifecycle, queue |
| Session status (`session-status-service.ts`, `session-lifecycle.handler.ts`) | session status | transition, reconcile, archive, unarchive, expire draft, cancel | message rows, session index |
| Budget (`budget-service.ts`) | total, limit, `budget_exhausted` | observe cost, update limit | stop coordinator, queue |
| Sandbox events (`sandbox-events/*`, `message-router.ts`) | none of its own | execution_complete, step_finish, fatal error, ack | all of the above |
| Alarm handler (`alarm/handler.ts`) | none of its own | one pass: stop timeout, execution timeout, lifecycle check | stop coordinator, queue, lifecycle |
| Alarm scheduler (`alarm/scheduler.ts`) | pending and in-flight deadline in the session's file | schedule, rehydrate, deliver | host alarm |
| Host alarm clock and index (`node/host-alarm-*.ts`, `node/crash-recovery.ts`) | a deadline, a claim and a failure count per session; the clean-shutdown marker | arm, claim, settle, retry, boot recovery | session delivery |
| Sandbox lifecycle (`sandbox/lifecycle/*`) | sandbox row (status, generation, identity, token), circuit breaker | spawn, restore, resume, snapshot, alarm check, terminate | provider, socket, alarm |
| Connection (`connection-authenticator.ts`, `websocket-manager.ts`, `disconnect-handler.ts`) | the authoritative socket, client registry | attach, detach, close, recover after hibernation | lifecycle, queue |
| Bridge (`bridge.py`) | prompt tasks, current task, unacknowledged events | prompt, stop, re-send, reconnect | session |
| Terminal projection, session index | projection version, status mirror | project, flush, repair | D1 |
| Session registry (`node/session-runtime-registry.ts`, `socket-host.ts`) | the resident runtimes, builds in progress, leases, sockets | open, join, lease, idle sweep, eviction, shutdown | sessions, clock, sockets |
| Job queue, callbacks (Node host) | persisted jobs, deliveries to bots | claim, retry, dead-letter | image builds, bots |
| Scheduler and automations (`scheduler/scheduler.ts`, `db/automation-store.ts`) | automation row (enabled, next run, strikes), invocations, runs | tick, event, trigger, launch, run complete, recovery sweeps, pause, resume | sessions (launch and callback), D1 |
| Image builds (`image-builds/*`, `db/image-builds.ts`, `db/image-build-finalization.ts`) | build rows (status, artifact, finalization lease) | trigger, callbacks, finalize, publish, supersede, clean up, reap, invalidate | providers, job queue, sandbox spawns |
| Autofix | feedback rows | admit a prompt | queue |
| Auth, source control, routes, bots, web | stateless for our purposes | - | clients of the above |

`PROJECT.json` lists every component with what is modelled of it, and the hazards of the
code line by line. The hard behaviours, and what correctness means for each component:

* **Queue**: overlapping pumps suspended in the provider-auth lookup, while clients stop,
  remove, cancel and archive. Correct: one prompt at a time, in order, never past an
  unconfirmed stop, a closed session or an exhausted budget; never stranded.
* **Stops**: confirmation, timeout, failed delivery and loss of the sandbox race for one
  fence. Correct: every stop settles, once, and does not harm what came after it.
* **Status**: derived from rows by handlers that come back from awaits. Correct: an open
  session with work is active, a draft is empty, a closed session stays closed.
* **Alarms**: one slot for many deadlines, written in two places. Correct: no stop
  deadline is ever left without something that will wake the session.
* **Lifecycle**: attempts superseded by newer ones, decisions older than the await
  before their write. Correct: one live sandbox, and writes only by the generation
  that owns the row.
* **Bridge**: tasks that outlive sockets, events sent again. Correct: outcomes recorded
  once.
* **Clock**: one timer and a bounded number of deliveries for every session, some of which
  hang. Correct: the bound holds, no session is delivered to twice at a time, every due
  deadline is delivered.
* **Crash recovery**: the file and the index of a deadline are written one after the
  other, the second write may be refused, and a boot does not read every file. Correct: no
  deadline is in neither the index nor the range of the next scan, except one that the
  index refused before a clean stop.
* **Registry**: a runtime may go idle, be evicted or be shut down while somebody is about
  to use it. Correct: leases are counted right, nothing is retired underneath its users
  unreported, shutdowns end.
* **Automations**: ticks, callbacks and sweeps that share only the database. Correct:
  invocations do not overlap, each failed one is one strike, strikes pause, the schedule
  never goes back.
* **Image builds**: an artifact exists at the provider before the row knows it, and the
  answer of a write can be lost. Correct: what is ready exists and holds the current
  secrets of its environment, artifacts are neither doubled nor lost, builds end.

## The modules

Every action names the function it stands for, and `PROJECT.json` "map" has its lines. An
action is one stretch of a handler between two awaits (a statement or batch of the
database, where the database is all that is shared). Variables that stand for a handler
suspended at an await hold what it read before and uses after.

| Module | Models | Theorems in |
|---|---|---|
| `SerialQueue` | what the prompt queue promises (abstract) | `PromptQueueProofs` |
| `PromptQueue` | queue, stop fence, status, budget, alarm handler, events; the sandbox as the queue sees it | `PromptQueueProofs` |
| `SandboxSlot` | what the lifecycle manager promises of its sandboxes (abstract) | `SandboxLifecycleProofs` |
| `SandboxLifecycle` | the sandbox row, its generations and the manager's attempts; the authoritative socket | `SandboxLifecycleProofs` |
| `AlarmSlot` | the deadline of one session, from its file to its handler | `AlarmSlotProofs` |
| `HostAlarmClock` | the clock of all sessions: claims, leases, the bound | `HostAlarmClockProofs` |
| `CrashRecovery` | what a boot knows of the stop before it | `CrashRecoveryProofs` |
| `SessionRegistry` | the runtimes of a Node host | `SessionRegistryProofs` |
| `AutomationRuns` | one automation, its invocations and runs | `AutomationRunsProofs` |
| `ImageBuilds` | the pre-built images of one scope | `ImageBuildsProofs` |

The `MC` modules extend these for TLC: `MCPromptQueue`, `MCCrashRecovery` and
`MCAutomationRuns` add the symmetry of interchangeable pumps, sessions, or firings and
keys; the others only give the instance a name. Their constants are in the `.cfg` files.

### SerialQueue
Each prompt moves `absent -> waiting -> running -> over`, with `draining` between
`running` and `over` for a prompt whose stop is not confirmed; starts happen in order and
only when nothing runs or drains.

### PromptQueue

| Variables | In the code |
|---|---|
| `msg`, `last` | `messages.status` by insertion order (`withdrawn` = the row is deleted); the status of the latest finished message |
| `session`, `exhausted` | session status, `budget_exhausted` |
| `awaiting`, `due` | messages with `stop_confirmation_deadline` set; those whose deadline is past |
| `kicks` | handlers about to call `processMessageQueue` |
| `held` | per pump, the prompt it holds across the provider-auth await |
| `resumes`, `delivering`, `settling`, `closing`, `alarm` | handlers suspended in a termination, in `deliver`, in `handleExecutionComplete`, in the cancel route, and in the alarm handler (by stage) |
| `box`, `sock` | sandbox status (grouped), the authoritative socket |
| `inbox`, `tasks`, `cur`, `outbox` | commands on the wire, the bridge's prompt tasks, `_current_prompt_task`, unacknowledged terminal events |

* ids are numbers in queue order, so ordering by `(created_at, rowid)` is `<`;
* `Enqueue` stands for prompts from the web, the API and autofix; `Resubmit` for a request
  seen before. The model caps inserts at `MaxMsg`;
* `kicks` and `resumes` count callers and saturate at their bounds: a call absorbed there
  runs as one with another, and a pump has no effect of its own that two calls add to;
* a spawn either starts a sandbox or does nothing: breaker, cooldown, snapshot and resume
  are in `SandboxLifecycle`;
* events of the bridge are a set: a re-send is the event staying in `outbox`, and it can be
  handled again until it is acknowledged. Order between events is not assumed;
* the send of a command, the write of an alarm and the provider lookup can fail at any
  time; the synchronous writes of the session's own storage cannot (one transaction).

### SandboxSlot
Sandboxes are reserved in order (`newest`); each is created at most once, as the newest, and
only when nothing runs any more; what runs stops before another starts.

### SandboxLifecycle
One row, one manager, and everything remote an await. Generations are numbered in the
order of their `created_at` stamps; a reservation's number is also the id, token and
provider object of the sandbox it creates, a resume takes the next stamp and keeps the
rest.

| Variables | In the code |
|---|---|
| `status`, `id`, `stamp`, `hash`, `object`, `snap`, `failures`, `recent`, `beat`, `age` | the sandbox row: status, logical id, `created_at`, token hash, provider object, restore image, breaker, heartbeat and age in the classes the decisions tell apart |
| `sock` | the sandbox whose socket has authority |
| `spawning`, `terminating` | the manager's two flags |
| `call` | by generation, the attempt under way: spawn, retry from the base image, restore or resume, and which await it is in |
| `shots`, `pass`, `stops`, `ended` | snapshots in the background, the alarm handler at an await, stops in flight, a turn whose snapshot is still to be triggered |
| `alarm`, `running`, `closed` | the session's alarm, what runs at the provider, the cancelled session |

`Request` is `spawnSandbox` with the circuit breaker and `evaluateSpawnDecision`;
`Attempt` is the rest of an attempt await by await, each continuation with the generation
check the code makes there (or does not make); `Alarm` is `handleAlarm` with watchdog,
heartbeat and inactivity checks; `Terminate*` and `Cancel` the three terminations;
`Connect`, `Disconnect` admission and loss of the bridge. The capabilities of the
provider are constants, and so are the faults: a provider that refuses stops, an alarm
that is not written, a restart of the process, and (`Early`) a sandbox that is up, and whose
bridge may call, before the attempt for it has ended - a creation that fails may then have
created it all the same (`manager.ts:647-651`).

### AlarmSlot
The pending and in-flight deadlines of the session's file (`pending`, `inFlight`), the
host's index row (`slot`, `claim`, `failures`), the delivery under way (`phase`, `tried`),
and what a boot has to scan (`dirty`). `owed` are deadlines committed by `prepare` whose
`schedule()` call has not run. `lapsed` is a history variable: the host used up an alarm's
retries, or failed to settle it, and has nothing armed. Time is a counter up to `MaxTime`;
writes to the index, deliveries and the process fail at most `MaxFaults` times. Left out:
`cancel()` (nothing calls it), and what the next two modules are about.

### HostAlarmClock
All sessions behind one timer. `deadline`, `claim` and `lease` are the rows of the index,
as distances from now; `delivery` is the clock's `inFlight` map, with deliveries that no
longer count `abandoned`; `timer` is when the timer fires. `Tick` claims as many due
sessions as there is room for; `Settle` is the end of a delivery, with a retry or without;
`SettleFails` one whose settlement cannot be written; `Stop` and `Restart` the process.
Which of the overdue sessions is soonest is not kept (any may be), and a claim token needs
no representation, since a session is claimed only while this process has no delivery
for it.

### CrashRecovery
The marker file (`marker`), the session files with their modification times (`file`,
`written`), the index and the wall clock, which can be set back while the host is down.
`Persist` and `ArmIndex` are the two halves of `schedule()`, `ArmFails` a second half that
the index refuses; `Boot` reads the files in range, all but an arbitrary unreadable set;
`BootDies` reads some and dies; `Shutdown` marks a clean stop, `Crash` is any other. Two
history variables follow the refusals: a session is `refused` until its deadline is armed
or handled, and `lost` once a clean stop was marked meanwhile, until it is active, writes
an earlier deadline or is scanned.

### SessionRegistry
`life` is the state of each session's runtime: being checked for presence, being built,
resident, or being retired. `rehydrate` and `waiters` are the activation intent that the
callers of one build share; `leases` its users; `sock`, `delivery`, `queued` its socket
and the events of it; `tasks` background work; `call` the callers of the registry, each
suspended between finding a runtime, waiting for it, taking a lease, and using it; `sweep`
and `down` the idle sweep and the shutdown. Left out: which idle runtime is evicted first
(any may be), `idleAfterMs` (what is quiescent may be idle), the backlog limit of a
socket; a session has one socket and one delivery queue. Rehydration is a background task
submitted when the runtime is published. `quiet` is a runtime the drain has found
quiescent and not yet retired.

### AutomationRuns
`auto` is the automation's row; `firing` each `startInvocation` (tick, event or manual)
with the slot it read; `inv` and `run` the rows it inserted, with how far each launch is;
`acct` the two accountings of failed invocations that can be under way at once (the
sweeps', and anybody else's) by statement: read, mark, strike, count, pause or reset;
`stuck` the run a sweep holds. `cut` remembers that an accounting died half-way.

### ImageBuilds
`row` is a build by order of `created_at`: status, artifact, provider session, accepted
outcome, finalization lease. `trigger` is how far `ImageBuildWorkflow.trigger` is;
`worker` the deliveries of the finalization job, statement by statement; `sweep` the
scheduler's maintenance; `box` and `there` what exists at the provider. An artifact is
named by the lease token of the attempt that made it. `cut` remembers builds with an
attempt after which nobody knows of its artifact. Three abstractions matter:

* the job queue is a set `queue`: a job is delivered at least once, possibly twice at a
  time, or dead-lettered. That is what the queue gives, not how it does it;
* a lease expires only after its delivery's attempt has (`LeaseExpires`): the deadline of
  an attempt is 5 minutes, the lease 6;
* staleness and expiry of callback tokens are a matter of age and can come at any time
  the guards of the code allow; a read and the provider call after it are one step in
  `Cleanup`, and a deletion and its commit in `Reap`.

`Publish` has a branch for a newer build that is ready already. No behaviour reaches it:
`registerBuild` admits no build of the scope while one is under way.

## What the runs check

| Run | Shows |
|---|---|
| `pq_safety` | Two prompts, two overlapping pumps, with execution timeouts, restarts, withdrawals and refused calls. `OneAtATime`: nothing starts past a fence or a prompt at work. `HeldPromptSafe`: what a pump read before its await is still true after it, for a prompt still pending. `SessionTellsWork`: status against rows. `CleanDispatch`: the conditions under which a prompt starts. `OutcomeIsFinal`: outcomes are written once. `ImplementsSerialQueue`: refinement. |
| `pq_pumped` | `NothingStranded`: with no timeouts, sandbox faults, restarts, withdrawals or refused calls, a prompt that could be sent has somebody about to pump the queue; a pump whose own prompt is gone does not count. |
| `pq_stop` | Liveness with sandbox faults, timeouts, restarts and refused calls. `StopSettles`: every stop is confirmed or recovered from. `ProcessingEnds`: no prompt stays at work. |
| `lc_live` | A provider that resumes, bridges that call early, stops that fail, restarts. `SocketIsCurrent`, `LiveIsWatched`, `RetiredStays`: late completions and connections do not touch a newer generation or revive an old one, and whatever is live has an alarm. `StartupEnds`, `FlagFalls`, `LossIsNoticed`: startups, flags and lost sandboxes come to an end. |
| `lc_vercel` | A provider that stops when asked, takes snapshots and never resumes, bridges that do not call early. `ImplementsSandboxSlot`: refinement; sandboxes run one after another. `HandleIsOwn`: the row's object is the connected sandbox's. `BreakerHolds`: the breaker counts no further than one window can clear. `SnapshotIsOwn`: the alarm's snapshot is recorded for the sandbox it is of. |
| `alarm_served` | `StopIsArmed`, `StopIsRecovered` through failed writes, failed deliveries, crashes and clean shutdowns. |
| `clock` | Three sessions, two places, one handler that may hang, one fault. `BoundHolds`, `NeverOverlapped`, `DueIsServed`. |
| `boot` | `RunsUnclean`, `NothingForgotten` through crashes, clean stops, refused index writes, clocks set back, unreadable files and boots that die. |
| `registry` | Two sessions over a bound of one, an event and an alarm caller, one socket, the sweep and the shutdown. `LeasesCounted`, `NotUnderneath`, `BeyondBoundIfBusy`, `ShutdownCompletes`, `CallersServed`. |
| `automation` | Two firings of any kind, with one death, failed write or act of the owner. `NoOverlap`, `OneStrikeEach`, `PauseFollows`, `NeverRewinds`. |
| `automation_slots` | The one run that ends in a violation: a tick whose slot another tick has served advances the schedule a second time and skips a slot (`SlotsAreKept`; details and quotes in `PROJECT.json`, "findings"). |
| `images` | One build besides the one that is ready at first, two deliveries, two upsets. `ReadyIsThere`, `NoStaleEnvironmentSecrets`, `OneArtifact`, `NoneForgotten`, `BuildsEnd`. |

### Bounds
* **PromptQueue**: two prompts are one at work and one waiting, which every ordering hazard
  needs; two pumps are enough for two to hold the same prompt, or for one to hold it while
  another sends it. One pending call and one pending resume stand for any number.
  `CallFailures` switches the refused calls on: an alarm write that a completion or an
  alarm awaits, or the lookup a pump awaits.
* **SandboxLifecycle**: two generations are the one that is superseded and the one that
  supersedes it. Safety of the row, and what `lc_vercel` checks, is also proved for any number.
* **AlarmSlot**: three ticks let an earlier deadline, the stop and a later one differ, one
  retry separates the first and the last attempt, three faults let a write, a delivery and
  the process fail in one behaviour.
* **HostAlarmClock**: one place for the handler that hangs, one for the others, one session
  more than there are places; a lease of two ticks outlasts a delay of one.
* **CrashRecovery**: two sessions, one read and one not; four times, for a write before, at
  and after the marker and a clock set back; two deadlines, an earlier and a later.
* **SessionRegistry**: a bound of one makes any second session evict; two callers, one of
  each kind of activation, meet in every pair of positions.
* **AutomationRuns**: two firings are what overlap, deduplication and double accounting
  need, and two strikes reach the threshold. One target: the runs of one invocation are
  equal to each other, and the proofs are for any number of targets.
* **ImageBuilds**: an old image to be superseded, two deliveries of one job, and two
  upsets: one that loses an answer and one that kills who could tell.

### Fairness
* `pq_stop`: time passes (`StopDeadlinePasses`), the alarm fires and its handler returns
  from each await (`Alarm`: the alarm is persisted, provider calls have timeouts), and one
  alarm gets to what it is for, the release of an unconfirmed stop or a prompt that has
  timed out (strong fairness: any number of them may come too early, or be cut short by a
  restart or a refused call). Nothing is assumed of clients, pumps, sandbox, network.
* `lc_live`: remote calls answer (their clients time out), time passes, an armed alarm is
  delivered, and a socket without a sandbox behind it misses its heartbeats. The two
  timeouts are strongly fair, since an alarm may look at something else first.
* `alarm_served`: time passes, deliveries and calls already made run on, and a session
  whose alarm the host gave up on is used again some day, since only an activation re-arms
  it (`host-alarm-clock.ts:318`).
* `clock`: timers fire, handlers that do not hang return, a stopped host is started again.
  The index hands out deadlines in their order, which the model does not keep: strong
  fairness of claiming each session stands for it.
* `registry`: stores open, the index answers, continuations run, the shutdown's budget
  ends. `Found` and `Quiesce` are strongly fair: between finding a runtime and leasing it,
  a microtask away, it can be retired, but not every time; and a sweep that looks at each
  runtime once has an end. Nothing is owed by events at work, tasks or peers.
* `images`: maintenance ticks come for ever, the queue delivers what they publish again,
  calls come back (they have deadlines), time passes. Nothing is owed by the first
  delivery, the callback or the trigger.

## What is proved

For every value of the constants that satisfies the assumption of the module (natural
bounds, finite sets, Boolean switches):

* **PromptQueue.** `Invariance` proves `IInv == TypeOK /\ QueueInv` inductive.
  `HeldPromptSafe` is the heart: a pump reads the fence and the queue before its await and
  never again. It is safe because a fence needs a prompt at work, a prompt at work needs a
  pump that held the head, and a pump that holds a pending prompt holds *the* head; so as
  long as the held prompt is pending, nothing was started and nothing was stopped. To carry
  that through an insert, `InsertedInOrder` (ids in order) and `HeldInserted` are needed;
  through a stop, `FencedFailed`; for drafts through a withdrawal, `LastTellsFinished`.
  `OneAtATime`, `SessionTellsWork` and the others follow (`PromptsRunOneAtATime`,
  `HeldPromptsStaySafe`, `StatusTellsTruth`, `TypeCorrectness`).
* **Nothing stranded.** `NothingStranded` (nothing that could be sent waits without a caller,
  a resumption, a settling completion or a pump that holds a pending prompt) is inductive
  with `IInv`: a step that makes a prompt sendable, or takes away who would have pumped,
  leaves somebody who will. `NothingIsStranded` assumes no withdrawals, no execution
  timeouts, no sandbox faults, no restarts and no refused calls. Each of the five is
  needed: TLC finds a stranded prompt if any one of them is allowed, in at most ten steps,
  and each is what the code does (the handler fails or drops a prompt, or forgets its
  callers, without a pump; a refused alarm write or a failed lookup ends it before one).
* **Refinement.** `StepKinds` classifies every step by what it does to messages and
  fences; `RefinesSerialQueue` maps each kind to a step of `SerialQueue` or a stutter.
  `DispatchIsClean` and `OutcomesAreFinal` are the two action properties.
* **AlarmSlot.** `StopIsArmed` is not inductive: a boot, an activation and an
  acknowledgement arm the host from the session's file. `StopIsPersisted` says the file
  knows the deadline, `HostIsArmed` that with nothing in flight the host agrees with it,
  `CleanFile` that the boot scan may skip the files it skips (`AlarmInvariance`,
  `StopsAreArmed`, `AlarmTypeCorrectness`).
* **SandboxLifecycle.** `SocketIsCurrent`, `LiveIsWatched` (where alarms can be written)
  and `RetiredStays`, with every provider and fault. Two facts make them inductive:
  `NothingYet` (before the first reservation there is nothing to photograph or create) and
  `ShotFacts` (a snapshot that may put `ready` back is of the generation that had a
  heartbeat). Theorems `TypeCorrect`, `SocketCurrent`, `LiveWatched`, `RetirementStays`.
* **One sandbox, one handle** (`SandboxLifecycle`). For a provider that does not resume and
  sandboxes that are not up before their attempt is over, `SingleInv` is inductive with
  `IInv`: the attempt under way is the last reservation's and holds the flag, below the
  breaker's threshold, with no socket and no heartbeat (`OneAttempt`); the row names the
  object of its own sandbox once that runs, has connected or has been heard of
  (`OwnObject`). The flag alone would not do: every attempt that ends and every bridge that
  connects lowers it. From it follow `HandlesAreOwn`, `BreakerNeverOvershoots`,
  `AlarmSnapshotIsOwn`; and with stops that are supported and work, nothing runs but what
  the row names and nothing is created while it names anything (`NothingElseRuns`), hence
  the refinement `OneAfterAnother` and `OnlyOneSandbox`. The conditions are needed. With
  `Early`, TLC refutes all of it. With a resume, the sandbox that is being resumed may
  still be up and its bridge connects, which lowers the flag under the attempt: TLC refutes
  `HandleIsOwn` and `OneSandbox` at three generations, and `BreakerHolds` and
  `SnapshotIsOwn` at five. Restarts and alarms that cannot be written are allowed
  throughout, and stops that fail in all but the last two.
* **HostAlarmClock.** `BoundHolds` is inductive with the type invariant, once the
  cardinality of the live deliveries is followed through a tick, an abandonment and a
  settlement; `NeverOverlapped` is read off each action (`ClockInvariance`,
  `DeliveriesAreBounded`, `DeliveriesNeverOverlap`).
* **CrashRecovery.** `NothingForgotten` needs to know why it holds while the host runs:
  only a deadline that is about to be armed or was refused is missing, unless the boot
  could not read every file and the point has not moved (`UnarmedIsOwed`), and the marker of a running
  host is never clean nor ahead (`RunsUnclean`). `RecoveryInvariance`,
  `NothingIsForgotten`, `RunsAreUnclean`.
* **SessionRegistry.** `IInv` is proved session by session. A runtime's lease count is the
  number of callers placed at it, plus one for the delivery of its socket, and a build counts
  all who wait for it: each step moves one caller, so the other sessions keep their counts
  and the one it concerns gains or loses one (`WellKept`, `Placed`). `LeasesCounted` is one
  part; that a runtime found quiet gets no user before it is retired, that nothing is left
  at what is gone and that a shutdown past its waits sees only what closes are the others (`QuietIsLeft`,
  `GoneIsEmpty`, `ShutdownIsFinal`). The two action properties, `NotUnderneath` and
  `BeyondBoundIfBusy`, are read off each action with it. Theorems `RegistryInvariance`,
  `RegistryTypeCorrectness`, `LeasesAreCounted`, `NothingRetiredUnderneath`,
  `BoundYieldsToBusyOnly`, `ShutdownLeavesNothing`.
* **AutomationRuns.** `IInv` relates the three tables: `Inserted` and `Rooted` tie runs and
  accountings to the invocation they are of, `Ahead` bounds what a late firing can write to
  the schedule, `Accountable` counts marks against strikes. `NoOverlap` follows because the
  insert checks again, in the batch, what the firing checked before
  (`AutomationInvariance`, `RunsNeverOverlap`, `StrikesAreSingle`, `StrikesPause`,
  `ScheduleNeverRewinds`).
* **ImageBuilds.** That two artifacts of a build never exist rests on the lease: tokens are
  given out once and in order (`InOrder`, `Distinct`), a delivery that takes over an expired
  lease knows it does (`Noted`), and so whoever makes or records an artifact is alone at its
  build (`Attempting`, `Recording`), as is whoever holds a lease under which nothing was
  made yet, or would take a free one (`Fresh`, `Free`). That a ready image is there rests on
  what deletes artifacts: a compensation, of one that was not recorded (`AtHand`); the sweep
  and the deletion of replaced images, of rows that are over and stay so (`SweepOver`,
  `OldOver`). Most steps only let rows age, artifacts go and deliveries come to rest, which
  keeps the invariant whatever the step (`Waning`); the four that add something (a lease, an
  attempt, an artifact, its name in a row) are proved one by one. `ImageInvariance`,
  `ReadyImagesAreThere`, `EnvironmentSecretsAreFresh`, `ArtifactsAreSingle`, `ArtifactsAreKnown`,
  `ImageTypes`.

Only model-checked: the liveness properties (`StopSettles`, `ProcessingEnds`,
`StartupEnds`, `FlagFalls`, `LossIsNoticed`, `StopIsRecovered`, `DueIsServed`,
`ShutdownCompletes`, `CallersServed`, `BuildsEnd`), which need fairness and ENABLED and
are out of the prover's reach. Every safety property of a passing run, state or step, has
a theorem.

## Known deviations

What the models do because the code does, and what a reader of the documentation or the
comments would not expect. The first is listed as a finding with its run; the properties
of the other modules are stated so as to leave these behaviours in.

| Where | What happens |
|---|---|
| `scheduler.ts:518` | A tick that loses the race for a slot advances the schedule from its own later estimate and skips the next slot, which `automation-store.ts:978-981` says must not happen. |
| `message-queue.ts:510` | A pump whose held prompt was removed meanwhile returns without looking at the queue again; the next prompt waits for some other event. |
| `execution.handler.ts:129` | A completion awaits the write of the inactivity alarm before it pumps (`:130`). If the write is refused, `message-router.ts:82-88` logs the error and nobody pumps: the next prompt waits for some other event. |
| `message-queue.ts:402` | The provider-auth lookup fails hard when secrets cannot be loaded (`user-env-resolver.ts`); the pump ends there and the prompt it held stays pending until some other event. |
| `alarm/handler.ts:70` | A prompt that times out is failed but not stopped in the sandbox; the next one joins it there, although `docs/HOW_IT_WORKS.md:422` has prompts run one at a time. |
| `execution.handler.ts:115` | A completion reconciles, after an await, with its own outcome rather than the latest: the idle status may be the older one. |
| `execution-stop-coordinator.ts:113` | The end of one termination drops the fence of a newer stop in a newer sandbox. |
| `host-alarm-clock.ts:273` | A claim whose settlement cannot be written is reclaimed at the next start only, though its lease expires; at the bound, `arm` ignores leases that have run out. |
| `alarm/scheduler.ts:147-157`, `crash-recovery.ts` | A deadline whose index write is refused is in the file only; a clean stop that follows has the next boot skip the scan that would find it. `NothingForgotten` exempts such a session (`lost`), and no other. Its next activation arms it. |
| `manager.ts:670` | A spawn that succeeds late overwrites the row's provider object with that of a sandbox that is no longer the row's, if a bridge connected early. |
| `manager.ts:1814` | The bridge of a sandbox that is being resumed and never went away connects during the resume and lowers `isSpawningSandbox`; a second attempt may start beside the first, and both may count as failures of one window. |
| `manager.ts:647-651` | A creation that is reported as failed may have created a sandbox; its identity is rotated so that it cannot connect, but nobody stops it. |
| `manager.ts:1509` | The alarm, back from its snapshot, stops the provider object the row names then, which may be the successor's. |
| `session-runtime-registry.ts:254-260` | A socket's close queued behind a delivery is delivered with a lease of its own, but the end of the delivery's lease wakes the drain first: a store may be closed while the close is being delivered, and the shutdown does not report it as forced. |
| `scheduler.ts`, tick | A tick holds its snapshot of overdue automations while their owner pauses one; the firing starts all the same (compare `docs/AUTOMATIONS.md:455-456`). |
| `scheduler.ts`, accounting | Mark, strike, threshold and pause are separate statements: a strike is lost if its handler dies after the mark; a pause decided before a Resume pauses the automation afterwards; the reset of an older completion erases a newer strike. |
| `image-builds/finalizer.ts` | An artifact whose recording fails, whose deletion fails and whose row maintenance has already detached from its provider session cannot be quarantined, and nobody knows of it. |
| `image-builds/planner.ts:84-119`, `routes/secrets.ts` | A build also holds global and repository secrets. Changing those supersedes no image, as `docs/SECRETS.md:191-195` says: images that hold older ones stay selectable. `NoStaleEnvironmentSecrets` is about the environment's own secrets, whose changes do (`routes/environment-secrets.ts:44-66`). |
| `image-builds/finalizer.ts` | A delivery that dies between marking a build ready and superseding the older one leaves two ready rows until the next build is. |

## What is not modelled

* **Background jobs** (Node host): claims, leases, retries and dead letters of persisted
  jobs. They follow the pattern of `HostAlarmClock`; `ImageBuilds` assumes the at-least-once
  delivery they give.
* **Terminal projection and session index**: a versioned mirror of message rows in D1. No
  decision of a session rests on it, apart from the draft sweep, whose effect
  (`expireDraft`) is in `PromptQueue`.
* **Callback delivery**: notifications to bots, which nothing waits for. The scheduler's own
  callback is in `AutomationRuns`, in every order and with every loss.
* **Autofix consumer**: only its admission into the queue is modelled.
* **Client sockets, presence, streaming**: broadcasts and reads.
* **Bridge internals**: reconnection back-off, snapshots, pushes and diffs of
  `packages/sandbox-runtime`; its prompt tasks, stops and unacknowledged events are in
  `PromptQueue`.
* **Automations' catalogue, Slack steering and thread context; fingerprints and scope
  reconciliation of images; callback tokens**: data or request-scoped.
* **Providers, harness and plugins**: remote services; each call is an await that may fail.
* **Authentication, secrets, source control, routes, webhooks, bots, web client, shared
  types, deployment**: stateless translation of requests, cryptography, or clients whose
  commands are the inputs of the models. They are most of the repository by size.

The sandbox as the queue sees it (`PromptQueue`) and the sandbox as its manager does
(`SandboxLifecycle`) are separate models: the queue's is the coarser, in which a spawn, a
loss or a termination may come whenever the lifecycle allows one. They share the alarm and
the socket; a composition in one state space would be beyond TLC.
