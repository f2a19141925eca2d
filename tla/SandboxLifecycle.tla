-------------------------- MODULE SandboxLifecycle --------------------------
(***************************************************************************)
(* The sandbox of one session: sandbox/lifecycle/manager.ts and decisions, *)
(* the sandbox row (session/sandbox-repository.ts), the admission of       *)
(* bridges (connection-authenticator.ts) and the socket that has authority *)
(* (websocket-manager.ts).                                                 *)
(*                                                                         *)
(* There is one row and one manager, but everything remote is an await:    *)
(* creating, restoring, resuming, stopping and photographing a sandbox.    *)
(* While one of them is out, alarms fire, bridges connect, users cancel    *)
(* and further attempts replace the row.  What keeps them apart is the     *)
(* generation: the logical sandbox id with the created_at that the         *)
(* reservation or the resume stamped.  Generations are numbered here in    *)
(* the order of their stamps; a reservation's number is also the id, the   *)
(* token and the provider object of the sandbox it creates, and a resume   *)
(* takes the next stamp and keeps the rest.  0 is none.                    *)
(***************************************************************************)
EXTENDS Naturals, FiniteSets

CONSTANTS
    MaxStamp,       \* bound: reservations and resumes of the row
    Threshold,      \* circuitBreaker.threshold
    Slots,          \* bound: snapshots that run in the background at once
    CanStop,        \* capabilities.supportsExplicitStop
    CanResume,      \* capabilities.supportsPersistentResume
    CanSnapshot,    \* takeSnapshot and restoreFromSnapshot are there
    HasImages,      \* prebuilt images may be selected for a spawn
    Early,          \* fault: a sandbox may run, and its bridge connect, before its attempt
                    \* ends; so a creation that fails may have created it all the same
    StopFails,      \* fault: a provider may refuse or time out a stop
    AlarmFails,     \* fault: an alarm may not be written
    Restarts        \* fault: the process may restart

ASSUME LifecycleAssumption ==
    /\ MaxStamp \in Nat /\ Threshold \in Nat \ {0}
    /\ {CanStop, CanResume, CanSnapshot, HasImages, Early, StopFails, AlarmFails, Restarts}
           \subseteq BOOLEAN

Stamps == 1..MaxStamp
Ids    == 0..MaxStamp

Status  == {"pending", "spawning", "connecting", "ready", "snapshotting",
            "stopped", "stale", "failed"}
Dead    == {"stopped", "stale", "failed"}
Retired == {"stopped", "stale"}         \* isSandboxReconnectBlockedStatus
Starting == {"spawning", "connecting"}

VARIABLES
    (* the row *)
    status, id, stamp,
    hash,           \* auth_token_hash: the sandbox whose token is published
    object,         \* modal_object_id
    snap,           \* snapshot_image_id: the object it was taken of
    failures,       \* spawn_failure_count
    recent,         \* the last counted failure is within the breaker's window
    beat,           \* last_heartbeat: none, fresh or old (past the timeout)
    age,            \* since created_at: 0 cooldown, 1 ready wait, 2, 3 watchdog
    (* the process *)
    sock,           \* the sandbox whose open socket has authority
    spawning,       \* isSpawningSandbox
    terminating,    \* isTerminatingSandbox
    call,           \* attempts: what each is doing and for which object
    shots,          \* snapshots in the background
    pass,           \* the alarm handler, when it awaits a snapshot or a stop
    stops,          \* other stops in flight, and whether they hold the flag
    ended,          \* a turn ended whose snapshot has not been triggered yet
    (* the rest of the world *)
    alarm,          \* the session's alarm is armed
    running,        \* sandboxes that run at the provider
    closed          \* the session was cancelled

row   == <<status, id, stamp, hash, object, snap, failures, recent, beat, age>>
proc  == <<sock, spawning, terminating, call, shots, pass, stops, ended>>
vars  == <<row, proc, alarm, running, closed>>

NoCall == [kind |-> "none", at |-> "none", obj |-> 0]
NoShot == [at |-> "none", stamp |-> 0, id |-> 0, obj |-> 0, prev |-> "none"]
NoPass == [at |-> "none", obj |-> 0, id |-> 0, detach |-> FALSE]

Calls == [kind : {"none", "spawn", "retry", "restore", "resume"},
          at : {"none", "hash", "prior", "remote", "store"}, obj : Ids]
Shots == [at : {"none", "taking"}, stamp : Ids, id : Ids, obj : Ids, prev : Status \cup {"none"}]
Passes == [at : {"none", "snapshot", "stop"}, obj : Ids, id : Ids, detach : BOOLEAN]

Init ==
    /\ status = "pending" /\ id = 0 /\ stamp = 0 /\ hash = 0 /\ object = 0 /\ snap = 0
    /\ failures = 0 /\ recent = FALSE /\ beat = "none" /\ age = 3
    /\ sock = 0 /\ spawning = FALSE /\ terminating = FALSE
    /\ call = [s \in Stamps |-> NoCall]
    /\ shots = [k \in Slots |-> NoShot]
    /\ pass = NoPass /\ stops = {} /\ ended = FALSE
    /\ alarm = FALSE /\ running = {} /\ closed = FALSE

-----------------------------------------------------------------------------
(* Deciding: spawnSandbox, with evaluateCircuitBreaker and                 *)
(* evaluateSpawnDecision.                                                  *)

(* Mutant: the breaker opens one failure late.                             *)
BreakerOpen_OffByOne == failures > Threshold /\ recent

BreakerOpen == failures >= Threshold /\ recent

Busy        == spawning \/ terminating
Resumable   == CanResume /\ object # 0 /\ status \in Retired
Restorable  == ~Resumable /\ snap # 0 /\ status \in Dead

(* What is left is a fresh spawn: at once if the snapshot is too old to    *)
(* run, else unless the row is believed to be on its way, attached, about  *)
(* to reconnect, or too young.                                             *)
MaySpawn ==
    /\ ~Resumable
    /\ \/ Restorable
       \/ /\ status \in Starting => age = 3
          /\ status = "ready" => sock = 0 /\ age >= 2
          /\ age = 0 => status \in {"failed", "stopped"}

(* getSandboxWebSocket, which every decision calls first, closes whatever  *)
(* socket a dead row still has.                                            *)
UsableSocket == IF status \in Dead THEN 0 ELSE sock

BreakerReset == failures' = IF recent THEN failures ELSE 0

-----------------------------------------------------------------------------
(* Attempts.                                                               *)

Reserve_KeepsSocket(n, kind) ==
    /\ stamp < MaxStamp /\ n = stamp + 1
    /\ stamp' = n /\ id' = n /\ hash' = 0
    /\ status' = "spawning" /\ age' = 0 /\ beat' = "none"
    /\ UNCHANGED sock
    /\ object' = IF kind = "retry" THEN 0 ELSE object

(* updateSandboxForSpawn and the watchdog's alarm, in front of the first   *)
(* remote await.  The provider object stays in the row, except for the     *)
(* second try of a spawn.                                                  *)
Reserve(n, kind) ==
    /\ stamp < MaxStamp /\ n = stamp + 1
    /\ stamp' = n /\ id' = n /\ hash' = 0
    /\ status' = "spawning" /\ age' = 0 /\ beat' = "none"
    /\ sock' = 0
    /\ object' = IF kind = "retry" THEN 0 ELSE object

(* updateSandboxForResume.                                                 *)
Resume(n) ==
    /\ stamp < MaxStamp /\ n = stamp + 1
    /\ stamp' = n /\ status' = "connecting" /\ age' = 0 /\ beat' = "none"
    /\ UNCHANGED <<id, hash, object>>

(* An attempt goes on to its next await, with the object it is about.      *)
Moves(s, at, obj) == call' = [call EXCEPT ![s] = [kind |-> @.kind, at |-> at, obj |-> obj]]

Enters(kind) == [kind |-> kind, at |-> "hash", obj |-> 0]

CountFailure == failures' = failures + 1 /\ recent' = TRUE

(* A request for a sandbox (a prompt, a typing user) starts an attempt.    *)
SpawnStarts(kind) ==
    /\ ~BreakerOpen /\ ~Busy
    /\ CASE kind = "restore" -> CanSnapshot /\ Restorable
         [] kind = "spawn"   -> MaySpawn
    /\ \E n \in Stamps :
        /\ Reserve(n, kind)
        /\ call' = [call EXCEPT ![n] = Enters(kind)]
    /\ spawning' = TRUE /\ alarm' = TRUE
    /\ BreakerReset
    /\ UNCHANGED <<snap, recent, terminating, shots, pass, stops, ended, running, closed>>

(* The same, when the watchdog's alarm cannot be written: the attempt      *)
(* counts as one that reserved nothing, but the row is already reserved.   *)
SpawnUnwatched(kind) ==
    /\ AlarmFails
    /\ ~BreakerOpen /\ ~Busy
    /\ CASE kind = "restore" -> CanSnapshot /\ Restorable
         [] kind = "spawn"   -> MaySpawn
    /\ \E n \in Stamps : Reserve(n, kind)
    /\ IF kind = "spawn"
         THEN failures' = (IF recent THEN failures ELSE 0) + 1 /\ recent' = TRUE
         ELSE BreakerReset /\ UNCHANGED recent
    /\ UNCHANGED <<snap, spawning, terminating, call, shots, pass, stops, ended,
                   alarm, running, closed>>

(* resumeSandbox: the object comes back under the same id and token.  The  *)
(* alarm's failure fails the attempt, which knows its generation.          *)
ResumeStarts ==
    /\ ~BreakerOpen /\ ~Busy /\ Resumable
    /\ BreakerReset
    /\ sock' = 0
    /\ \/ /\ \E n \in Stamps :
                /\ Resume(n)
                /\ call' = [call EXCEPT ![n] = [kind |-> "resume", at |-> "remote", obj |-> object]]
          /\ spawning' = TRUE /\ alarm' = TRUE
       \/ /\ AlarmFails /\ stamp < MaxStamp
          /\ stamp' = stamp + 1 /\ status' = "failed" /\ age' = 0 /\ beat' = "none"
          /\ UNCHANGED <<id, hash, object, call, spawning, alarm>>
    /\ UNCHANGED <<snap, recent, terminating, shots, pass, stops, ended, running, closed>>

(* A request that starts nothing may still reset the breaker and close the *)
(* sockets of a dead row.                                                  *)
RequestRefused ==
    /\ ~BreakerOpen
    /\ Busy \/ (~Resumable /\ ~MaySpawn)
    /\ BreakerReset
    /\ sock' = UsableSocket
    /\ UNCHANGED <<status, id, stamp, hash, object, snap, recent, beat, age, spawning,
                   terminating, call, shots, pass, stops, ended, alarm, running, closed>>

(* Every attempt ends by clearing the flag, whosever it is by then.        *)
AttemptEnds(s) == call' = [call EXCEPT ![s] = NoCall] /\ spawning' = FALSE

(* Mutants: a superseded attempt returns without lowering the flag; the    *)
(* object that is replaced is forgotten and not stopped.                   *)
Publish_KeepsFlag(s) ==
    /\ call[s].at = "hash"
    /\ IF id = s /\ status = "spawning"
         THEN /\ hash' = s
              /\ Moves(s, "remote", 0) /\ object' = 0
         ELSE call' = [call EXCEPT ![s] = NoCall] /\ UNCHANGED <<hash, object>>
    /\ UNCHANGED <<status, id, stamp, snap, failures, recent, beat, age, sock, spawning,
                   terminating, shots, pass, stops, ended, alarm, running, closed>>

Publish_NoStop(s) ==
    /\ call[s].at = "hash"
    /\ IF id = s /\ status = "spawning"
         THEN /\ hash' = s /\ UNCHANGED spawning
              /\ Moves(s, "remote", 0) /\ object' = 0
         ELSE AttemptEnds(s) /\ UNCHANGED <<hash, object>>
    /\ UNCHANGED <<status, id, stamp, snap, failures, recent, beat, age, sock, terminating,
                   shots, pass, stops, ended, alarm, running, closed>>

(* Phase 2 of the reservation, after the token is hashed: publish it if    *)
(* the row is still this reservation's, and stop the object that the row   *)
(* still names.  A superseded attempt goes no further.                     *)
Publish(s) ==
    /\ call[s].at = "hash"
    /\ IF id = s /\ status = "spawning"
         THEN /\ hash' = s
              /\ IF object # 0 /\ CanStop /\ call[s].kind # "retry"
                   THEN Moves(s, "prior", object) /\ UNCHANGED object
                   ELSE /\ Moves(s, "remote", 0)
                        /\ object' = IF call[s].kind = "retry" THEN object ELSE 0
              /\ UNCHANGED spawning
         ELSE AttemptEnds(s) /\ UNCHANGED <<hash, object>>
    /\ UNCHANGED <<status, id, stamp, snap, failures, recent, beat, age, sock, terminating,
                   shots, pass, stops, ended, alarm, running, closed>>

(* stopPriorProviderSandbox comes back: the handle is dropped only if the  *)
(* object was stopped.  A stop that times out may still take effect.       *)
PriorStopped(s) ==
    /\ call[s].at = "prior"
    /\ Moves(s, "remote", 0)
    /\ \/ object' = 0 /\ running' = running \ {call[s].obj}
       \/ StopFails /\ UNCHANGED object /\ running' \in {running, running \ {call[s].obj}}
    /\ UNCHANGED <<status, id, stamp, hash, snap, failures, recent, beat, age, sock, spawning,
                   terminating, shots, pass, stops, ended, alarm, closed>>

Box(s) == IF call[s].kind = "resume" THEN call[s].obj ELSE s

(* The sandbox may be up, and its bridge calling, before the call returns. *)
BoxStarts(s) ==
    /\ Early /\ call[s].at = "remote"
    /\ running' = running \cup {Box(s)}
    /\ UNCHANGED <<row, proc, alarm, closed>>

(* Mutant: the object is recorded for a fresh creation only.               *)
Created_NotRestored(s) ==
    /\ call[s].at = "remote"
    /\ running' = running \cup {Box(s)}
    /\ object' = IF call[s].kind = "spawn" THEN s ELSE object
    /\ Moves(s, "store", call[s].obj)
    /\ UNCHANGED <<status, id, stamp, hash, snap, failures, recent, beat, age, sock, spawning,
                   terminating, shots, pass, stops, ended, alarm, closed>>

(* The provider call succeeds: its object is written to the row, whatever  *)
(* the row is about by now.  A resume keeps the one it has.                *)
Created(s) ==
    /\ call[s].at = "remote"
    /\ running' = running \cup {Box(s)}
    /\ object' = IF call[s].kind = "resume" THEN object ELSE s
    /\ Moves(s, "store", call[s].obj)
    /\ UNCHANGED <<status, id, stamp, hash, snap, failures, recent, beat, age, sock, spawning,
                   terminating, shots, pass, stops, ended, alarm, closed>>

(* Mutant: connecting is written whatever the row says by then.            *)
Finish_AnyStatus(s) ==
    /\ call[s].at = "store"
    /\ sock' = UsableSocket
    /\ status' = IF UsableSocket = 0 /\ stamp = s THEN "connecting" ELSE status
    /\ failures' = IF call[s].kind = "restore" THEN failures ELSE 0
    /\ AttemptEnds(s)
    /\ UNCHANGED <<id, stamp, hash, object, snap, recent, beat, age, terminating, shots, pass,
                   stops, ended, alarm, running, closed>>

(* finishProviderStartup, after the access data is encrypted and stored.   *)
Finish(s) ==
    /\ call[s].at = "store"
    /\ sock' = UsableSocket
    /\ status' = IF UsableSocket = 0 /\ stamp = s /\ status = "spawning" THEN "connecting" ELSE status
    /\ failures' = IF call[s].kind = "restore" THEN failures ELSE 0
    /\ AttemptEnds(s)
    /\ UNCHANGED <<id, stamp, hash, object, snap, recent, beat, age, terminating, shots, pass,
                   stops, ended, alarm, running, closed>>

InFlight(s) == IF call[s].kind = "resume" THEN "connecting" ELSE "spawning"

(* The call, or what it needs, fails for good: failAttempt.  Only a spawn  *)
(* counts for the breaker, and not if the error was transient.             *)
AttemptFails(s) ==
    /\ call[s].at \in {"remote", "store"}
    /\ status' = IF stamp = s /\ status = InFlight(s) THEN "failed" ELSE status
    /\ \/ call[s].kind \in {"spawn", "retry"} /\ CountFailure
       \/ UNCHANGED <<failures, recent>>
    /\ AttemptEnds(s)
    /\ UNCHANGED <<id, stamp, hash, object, snap, beat, age, sock, terminating, shots, pass,
                   stops, ended, alarm, running, closed>>

(* A spawn from a prebuilt image fails: once more from the base image,     *)
(* under an identity of its own and without looking at the row again.  A   *)
(* resume that finds its object gone spawns likewise.                      *)
AttemptRetries(s) ==
    /\ call[s].at = "remote"
    /\ \/ HasImages /\ call[s].kind = "spawn"
       \/ call[s].kind = "resume"
    /\ LET kind == IF call[s].kind = "resume" THEN "spawn" ELSE "retry" IN
       \E n \in Stamps :
         /\ Reserve(n, kind)
         /\ \/ /\ call' = [call EXCEPT ![s] = NoCall, ![n] = Enters(kind)]
               /\ spawning' = (IF kind = "spawn" THEN TRUE ELSE spawning)
               /\ alarm' = TRUE
               /\ UNCHANGED <<failures, recent>>
            \/ /\ AlarmFails
               /\ AttemptEnds(s) /\ CountFailure /\ UNCHANGED alarm
    /\ UNCHANGED <<snap, terminating, shots, pass, stops, ended, running, closed>>

-----------------------------------------------------------------------------
(* The bridge.                                                             *)

(* Mutants: the attachment does not schedule the inactivity check; or does *)
(* not count as a heartbeat.                                               *)
Connect_NoAlarm(s) ==
    /\ s \in running /\ s = id /\ s = hash /\ ~closed /\ status \notin Retired
    /\ beat' = "fresh" /\ sock' = s /\ status' = "ready" /\ spawning' = FALSE
    /\ UNCHANGED <<id, stamp, hash, object, snap, failures, recent, age, terminating, call,
                   shots, pass, stops, ended, alarm, running, closed>>

Connect_NoBeat(s) ==
    /\ s \in running /\ s = id /\ s = hash /\ ~closed /\ status \notin Retired
    /\ sock' = s /\ status' = "ready" /\ spawning' = FALSE /\ alarm' = TRUE
    /\ UNCHANGED <<id, stamp, hash, object, snap, failures, recent, beat, age, terminating,
                   call, shots, pass, stops, ended, running, closed>>

(* authorize and attachSandbox: id, token, session and row are checked     *)
(* (again) after the last await in front of the attachment, which is       *)
(* prepared by the inactivity alarm.  A failed row may still be taken up.  *)
Connect(s) ==
    /\ s \in running /\ s = id /\ s = hash /\ ~closed /\ status \notin Retired
    /\ Early \/ \A t \in Stamps : call[t].at = "store" => Box(t) # s
    /\ beat' = "fresh"
    /\ \/ /\ sock' = s /\ status' = "ready" /\ spawning' = FALSE /\ alarm' = TRUE
       \/ AlarmFails /\ UNCHANGED <<sock, status, spawning, alarm>>
    /\ UNCHANGED <<id, stamp, hash, object, snap, failures, recent, age, terminating, call,
                   shots, pass, stops, ended, running, closed>>

(* Its socket closes: a check is scheduled unless the row is retired.      *)
Disconnect ==
    /\ sock # 0 /\ sock' = 0
    /\ alarm' = (alarm \/ status \notin Retired)
    /\ UNCHANGED <<row, spawning, terminating, call, shots, pass, stops, ended, running, closed>>

Heartbeat ==
    /\ sock \in running /\ beat' = "fresh"
    /\ UNCHANGED <<status, id, stamp, hash, object, snap, failures, recent, age, proc,
                   alarm, running, closed>>

(* execution_complete: the snapshot is triggered after further awaits.     *)
TurnEnds ==
    /\ CanSnapshot /\ sock # 0 /\ ~ended /\ ended' = TRUE
    /\ UNCHANGED <<row, sock, spawning, terminating, call, shots, pass, stops, alarm,
                   running, closed>>

-----------------------------------------------------------------------------
(* Snapshots and stops.                                                    *)

Photographable == CanSnapshot /\ object # 0

Shot == [at |-> "taking", stamp |-> stamp, id |-> id, obj |-> object, prev |-> status]

(* triggerSnapshot after a turn.  A dead row keeps its status.             *)
SnapshotTurn ==
    /\ ended /\ ended' = FALSE
    /\ IF Photographable /\ status # "snapshotting"
         THEN /\ \E k \in Slots : shots[k].at = "none" /\ shots' = [shots EXCEPT ![k] = Shot]
              /\ status' = IF status \in Dead THEN status ELSE "snapshotting"
         ELSE UNCHANGED <<shots, status>>
    /\ UNCHANGED <<id, stamp, hash, object, snap, failures, recent, beat, age, sock, spawning,
                   terminating, call, pass, stops, alarm, running, closed>>

(* Mutant: recorded for whichever sandbox the row is about by now.         *)
Recorded_ForAny(identity, obj) == obj

(* recordSandboxSnapshot: only for the identity it was triggered for.      *)
Recorded(identity, obj) == IF id = identity THEN obj ELSE snap

(* It comes back: recorded if it succeeded, and the status put back if the *)
(* row is still this generation's and still says snapshotting.             *)
SnapshotDone(k) ==
    /\ shots[k].at = "taking"
    /\ snap' \in {snap, Recorded(shots[k].id, shots[k].obj)}
    /\ status' = IF /\ shots[k].prev \notin Dead
                    /\ stamp = shots[k].stamp /\ status = "snapshotting"
                 THEN shots[k].prev ELSE status
    /\ shots' = [shots EXCEPT ![k] = NoShot]
    /\ UNCHANGED <<id, stamp, hash, object, failures, recent, beat, age, sock, spawning,
                   terminating, call, pass, stops, ended, alarm, running, closed>>

(* A stop the manager does not wait with anything else for.                *)
StopDone(x) ==
    /\ x \in stops /\ stops' = stops \ {x}
    /\ \/ running' = running \ {x.obj}
       \/ StopFails /\ UNCHANGED running
    /\ terminating' = (terminating /\ ~x.holds)
    /\ UNCHANGED <<row, sock, spawning, call, shots, pass, ended, alarm, closed>>

Stops(holds) == IF CanStop /\ object # 0 THEN {[obj |-> object, holds |-> holds]} ELSE {}

(* terminateUnresponsiveSandbox: for a stop or a prompt that gets nowhere. *)
TerminateUnresponsive ==
    /\ status \notin Dead /\ status' = "stale" /\ sock' = 0
    /\ stops' = stops \cup Stops(FALSE)
    /\ UNCHANGED <<id, stamp, hash, object, snap, failures, recent, beat, age, spawning,
                   terminating, call, shots, pass, ended, alarm, running, closed>>

(* terminateFailedSandbox: the bridge reports a fatal runtime error.  No   *)
(* request starts anything until the provider has stopped it.              *)
TerminateFailed ==
    /\ sock # 0 /\ status \notin Retired /\ ~terminating
    /\ status' = "failed" /\ sock' = 0
    /\ stops' = stops \cup Stops(TRUE)
    /\ terminating' = (Stops(TRUE) # {})
    /\ UNCHANGED <<id, stamp, hash, object, snap, failures, recent, beat, age, spawning, call,
                   shots, pass, ended, alarm, running, closed>>

(* cancel: the row is stopped; the socket is only asked to shut down.      *)
Cancel ==
    /\ ~closed /\ closed' = TRUE
    /\ status' = IF status = "failed" THEN status ELSE "stopped"
    /\ sock' = IF status = "stale" THEN 0 ELSE sock
    /\ UNCHANGED <<id, stamp, hash, object, snap, failures, recent, beat, age, spawning,
                   terminating, call, shots, pass, stops, ended, alarm, running>>

-----------------------------------------------------------------------------
(* The alarm: handleAlarm.  A dead row is left alone and not re-armed.     *)

Fires == alarm /\ pass.at = "none"
(* Mutant: a sandbox that is connecting is waited for without end.         *)
TimedOut_SpawningOnly == status = "spawning" /\ age = 3

TimedOut == status \in Starting /\ age = 3

AlarmDead ==
    /\ Fires /\ status \in Dead /\ alarm' = FALSE
    /\ UNCHANGED <<row, proc, running, closed>>

(* Where a pass goes once nothing is left to await but the stop of the     *)
(* object the row names now; at its end every sandbox socket is detached,  *)
(* except after a connecting timeout.                                      *)
PassStops(detach) ==
    IF CanStop /\ object # 0
      THEN /\ pass' = [at |-> "stop", obj |-> object, id |-> id, detach |-> detach]
           /\ UNCHANGED sock
      ELSE pass' = NoPass /\ sock' = IF detach THEN 0 ELSE sock

ConnectingTimeout ==
    /\ Fires /\ TimedOut
    /\ status' = "failed" /\ alarm' = FALSE
    /\ PassStops(FALSE)
    /\ UNCHANGED <<id, stamp, hash, object, snap, failures, recent, beat, age, spawning,
                   terminating, call, shots, stops, ended, running, closed>>

(* A retired sandbox is stopped at once if the provider keeps it for a     *)
(* resume, and else after a snapshot.  A stale one that cannot be stopped  *)
(* is photographed in the background.                                      *)
Retire(to) ==
    /\ status' = to /\ alarm' = FALSE
    /\ IF (CanStop /\ CanResume) \/ ~Photographable
         THEN PassStops(TRUE) /\ UNCHANGED shots
         ELSE IF to = "stale" /\ ~CanStop
           THEN /\ pass' = NoPass /\ sock' = 0
                /\ \E k \in Slots : /\ shots[k].at = "none"
                                    /\ shots' = [shots EXCEPT ![k] = [Shot EXCEPT !.prev = to]]
           ELSE /\ pass' = [at |-> "snapshot", obj |-> object, id |-> id, detach |-> TRUE]
                /\ UNCHANGED <<sock, shots>>
    /\ UNCHANGED <<id, stamp, hash, object, snap, failures, recent, beat, age, spawning,
                   terminating, call, stops, ended, running, closed>>

HeartbeatStale ==
    /\ Fires /\ status \notin Dead /\ ~TimedOut /\ beat = "old"
    /\ Retire("stale")

(* Nobody was active for long, and no client is connected.                 *)
InactivityTimeout ==
    /\ Fires /\ status = "ready" /\ beat # "old"
    /\ Retire("stopped")

AlarmAgain ==
    /\ Fires /\ status \notin Dead /\ ~TimedOut /\ beat # "old"
    /\ \/ UNCHANGED alarm
       \/ AlarmFails /\ alarm' = FALSE
    /\ UNCHANGED <<row, proc, running, closed>>

PassSnapshotDone ==
    /\ pass.at = "snapshot"
    /\ snap' \in {snap, Recorded(pass.id, pass.obj)}
    /\ PassStops(TRUE)
    /\ UNCHANGED <<status, id, stamp, hash, object, failures, recent, beat, age, spawning,
                   terminating, call, shots, stops, ended, alarm, running, closed>>

PassStopDone ==
    /\ pass.at = "stop"
    /\ \/ running' = running \ {pass.obj}
       \/ StopFails /\ UNCHANGED running
    /\ sock' = IF pass.detach THEN 0 ELSE sock
    /\ pass' = NoPass
    /\ UNCHANGED <<row, spawning, terminating, call, shots, stops, ended, alarm, closed>>

-----------------------------------------------------------------------------
(* Time, and what goes wrong by itself.                                    *)

Tick ==
    /\ age < 3 /\ age' = age + 1
    /\ UNCHANGED <<status, id, stamp, hash, object, snap, failures, recent, beat, proc,
                   alarm, running, closed>>

(* Heartbeats stay away for 90 s, which is later than the ready wait.      *)
BeatGrowsOld ==
    /\ beat = "fresh" /\ age >= 2 /\ beat' = "old"
    /\ UNCHANGED <<status, id, stamp, hash, object, snap, failures, recent, age, proc,
                   alarm, running, closed>>

WindowPasses ==
    /\ recent /\ recent' = FALSE
    /\ UNCHANGED <<status, id, stamp, hash, object, snap, failures, beat, age, proc,
                   alarm, running, closed>>

(* A sandbox dies, or reaches the end of its lifetime; its socket may stay *)
(* half open.                                                              *)
SandboxDies(s) ==
    /\ s \in running /\ running' = running \ {s}
    /\ UNCHANGED <<row, proc, alarm, closed>>

(* The process restarts, or the session's object is evicted: what was      *)
(* awaited is forgotten, the row and the alarm are not, and the socket may *)
(* survive.  An alarm whose handler did not end is delivered again.  A     *)
(* creation that was under way may still succeed.                          *)
Restart ==
    /\ Restarts
    /\ sock' \in {sock, 0}
    /\ spawning' = FALSE /\ terminating' = FALSE /\ ended' = FALSE
    /\ call' = [s \in Stamps |-> NoCall]
    /\ shots' = [k \in Slots |-> NoShot]
    /\ pass' = NoPass /\ stops' = {}
    /\ alarm' = (alarm \/ pass.at # "none")
    /\ \E more \in SUBSET {Box(s) : s \in {t \in Stamps : call[t].at = "remote"}} :
          running' = running \cup (IF Early THEN more ELSE {})
    /\ UNCHANGED <<row, closed>>

Request == SpawnStarts("spawn") \/ SpawnStarts("restore") \/ ResumeStarts \/ RequestRefused

Unwatched == SpawnUnwatched("spawn") \/ SpawnUnwatched("restore")

Attempt(s) ==
    \/ Publish(s) \/ PriorStopped(s) \/ Created(s) \/ Finish(s)
    \/ AttemptFails(s) \/ AttemptRetries(s)

Alarm == AlarmDead \/ ConnectingTimeout \/ HeartbeatStale \/ InactivityTimeout \/ AlarmAgain

Terminate == TerminateUnresponsive \/ TerminateFailed \/ Cancel

Passage == PassSnapshotDone \/ PassStopDone

Next ==
    \/ Request \/ Unwatched
    \/ \E s \in Stamps : Attempt(s) \/ BoxStarts(s) \/ Connect(s) \/ SandboxDies(s)
    \/ Disconnect \/ Heartbeat \/ TurnEnds
    \/ SnapshotTurn \/ \E k \in Slots : SnapshotDone(k)
    \/ \E x \in stops : StopDone(x)
    \/ Terminate \/ Alarm \/ Passage
    \/ Tick \/ BeatGrowsOld \/ WindowPasses \/ Restart

Spec == Init /\ [][Next]_vars

(* Remote calls answer (the providers' clients time out), time passes, the *)
(* host delivers an alarm that is armed, of which at least some see what   *)
(* it is for, and a closed or dead socket is noticed by its missing        *)
(* heartbeats.  Nothing is owed by users, bridges or sandboxes, and nobody *)
(* need be inactive for long.                                              *)
Fairness ==
    /\ \A s \in Stamps : WF_vars(Attempt(s))
    /\ \A k \in Slots : WF_vars(SnapshotDone(k))
    /\ WF_vars(\E x \in stops : StopDone(x))
    /\ WF_vars(Passage) /\ WF_vars(SnapshotTurn)
    /\ WF_vars(Tick) /\ WF_vars(sock \notin running /\ BeatGrowsOld)
    /\ SF_vars(ConnectingTimeout) /\ SF_vars(HeartbeatStale)

FairSpec == Spec /\ Fairness

-----------------------------------------------------------------------------
(* Properties.                                                             *)

RowOK ==
    /\ status \in Status
    /\ {id, stamp, hash, object, snap, sock} \subseteq Ids
    /\ failures \in Nat /\ age \in 0..3 /\ beat \in {"none", "fresh", "old"}

FlagsOK == {recent, spawning, terminating, ended, alarm, closed} \subseteq BOOLEAN

CallsOK == call \in [Stamps -> Calls]

ShotsOK == shots \in [Slots -> Shots] /\ pass \in Passes

StopsOK == stops \subseteq [obj : Ids, holds : BOOLEAN] /\ running \subseteq Ids

TypeOK == RowOK /\ FlagsOK /\ CallsOK /\ ShotsOK /\ StopsOK

(* The socket the session dispatches to is always one of the sandbox the   *)
(* row names, and of the token it publishes: whatever a superseded attempt *)
(* or a sandbox it left running still does, its bridge is never that of    *)
(* the session (updateSandboxForSpawn, authorize, acceptAndSetSandboxSocket). *)
SocketIsCurrent == sock # 0 => sock = id /\ sock = hash

(* A row that is not dead is watched: the session's alarm is armed, so the *)
(* watchdog, the heartbeat check or the inactivity check will look at it,  *)
(* and a row that says ready has a heartbeat that can grow old - a missing *)
(* one is never stale (enterProviderStartup, attachSandbox, handleAlarm).  *)
ReadyBeats == status = "ready" => beat # "none"

LiveIsWatched == (status \notin Dead \cup {"pending"} => alarm) /\ ReadyBeats

(* While no bridge connects before the attempt for its sandbox has ended,  *)
(* and the provider does not resume, there is one attempt at a time and    *)
(* the row's provider object is that of the sandbox that is connected, so  *)
(* that it is the one that is stopped, restored or photographed later      *)
(* (isSpawningSandbox, storeProviderObjectId).                             *)
HandleIsOwn ==
    /\ Cardinality({s \in Stamps : call[s].at # "none"}) <= 1
    /\ status = "ready" /\ sock # 0 => object = sock

(* An attempt that may still create its sandbox.                           *)
Owed == \E s \in Stamps : call[s].at \in {"hash", "prior", "remote"}

Slot == INSTANCE SandboxSlot WITH newest <- stamp, due <- Owed, up <- running

(* With a provider that can stop, and stops when asked, the sandboxes of   *)
(* the session run one after another: a replacement is created once, and   *)
(* only when the object it replaces is gone (stopPriorProviderSandbox).    *)
ImplementsSandboxSlot == Slot!Spec

(* So two of them never run at once.                                       *)
OneSandbox == Cardinality(running) <= 1

(* The breaker counts no further than its threshold, so a single window    *)
(* without failures is enough to try again (evaluateCircuitBreaker).       *)
BreakerHolds == failures <= Threshold

(* What was retired stays retired until somebody starts a new generation:  *)
(* no late completion, snapshot, connection or failure brings it back.     *)
RetiredStays == [][(status \in Retired /\ stamp' = stamp) => status' \in Retired]_vars

(* What the alarm's snapshot is recorded as is of the sandbox the row      *)
(* names: a replacement reserved while it was taken keeps its own restore  *)
(* image (triggerSnapshot, recordSandboxSnapshot).                         *)
SnapshotIsOwn ==
    [][pass.at = "snapshot" /\ pass'.at # "snapshot" /\ snap' # snap => snap' = id]_vars

(* What makes LiveIsWatched inductive: before the first reservation there  *)
(* is nothing to photograph or to create, and a snapshot that may put      *)
(* ready back belongs to a generation that had a heartbeat.                *)
NothingYet == status = "pending" => object = 0 /\ \A s \in Stamps : call[s].at = "none"

ShotFacts ==
    \A k \in Slots : shots[k].at = "taking" =>
        /\ shots[k].stamp <= stamp /\ shots[k].prev \in Status \ {"pending"}
        /\ shots[k].prev = "ready" /\ shots[k].stamp = stamp => beat # "none"

IInv == /\ TypeOK /\ SocketIsCurrent /\ NothingYet /\ ShotFacts /\ ReadyBeats
        /\ AlarmFails \/ LiveIsWatched

(* What HandleIsOwn, BreakerHolds and SnapshotIsOwn rest on, with a provider *)
(* that does not resume and no bridge before its attempt has ended.        *)

(* An attempt belongs to the last reservation and holds the flag; no other *)
(* starts before it ends, because nothing connects meanwhile.              *)
OneAttempt ==
    \A s \in Stamps : call[s].at # "none" =>
        /\ s = stamp /\ spawning /\ call[s].kind # "resume" /\ failures < Threshold
        /\ sock = 0 /\ beat = "none"
        /\ call[s].at = "hash" => hash = 0
        /\ IF call[s].at = "store" THEN object = s ELSE s \notin running

(* The row names the object of its own sandbox as soon as that is running, *)
(* has been connected or has been heard of.                                *)
OwnObject ==
    /\ id = stamp /\ running \subseteq 1..stamp
    /\ id \in running \/ beat # "none" \/ sock # 0 => object = id
    /\ pass.at = "snapshot" => pass.obj = pass.id

(* What OneSandbox rests on as well, if stops work: nothing runs but what  *)
(* the row names, and nothing is created while it names anything.          *)
NothingElseRuns ==
    /\ running \subseteq {object}
    /\ \A s \in Stamps :
          /\ call[s].at = "remote" => object = 0
          /\ call[s].kind = "retry" /\ call[s].at = "hash" => object = 0
          /\ call[s].at = "prior" => call[s].obj = object

SingleInv == /\ OneAttempt /\ OwnObject /\ BreakerHolds
             /\ CanStop /\ ~StopFails => NothingElseRuns

(* A startup ends: the bridge connects or the watchdog fails it, and the   *)
(* flag that keeps requests away falls.                                    *)
StartupEnds == status \in Starting ~> status \notin Starting

FlagFalls == spawning \/ terminating ~> ~(spawning \/ terminating)

(* A session that believes in a sandbox which is not there finds out.      *)
LossIsNoticed == status = "ready" /\ sock = 0 ~> status # "ready" \/ sock # 0

=============================================================================
