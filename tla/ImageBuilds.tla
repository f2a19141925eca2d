---------------------------- MODULE ImageBuilds ----------------------------
(***************************************************************************)
(* The pre-built images of one scope at one provider: the rows of          *)
(* db/image-builds.ts and db/image-build-finalization.ts, written by the   *)
(* trigger and the callbacks (image-builds/workflow.ts), by deliveries of  *)
(* the finalization job (finalizer.ts), by the scheduler's maintenance     *)
(* (scheduler.ts, reaper.ts, session-cleanup.ts), by session spawns and by *)
(* changes of the environment's own secrets.                               *)
(*                                                                         *)
(* The scope is an environment, or a repository, which has no secrets of   *)
(* this kind.  A plan folds in global and repository secrets as well       *)
(* (planner.ts, scope.ts).  Their versions are not followed: a change of   *)
(* them (routes/secrets.ts) touches no build, by design.                   *)
(*                                                                         *)
(* Nothing but the database is shared, and its rows are not all there is:  *)
(* the provider has a sandbox for each build and an artifact for each      *)
(* finalization, which only a row or a running delivery knows of.  An      *)
(* action is one statement or batch, or one provider call.                 *)
(***************************************************************************)
EXTENDS Naturals, FiniteSets

CONSTANTS
    MaxBuilds,      \* bound: builds registered
    Workers,        \* bound: deliveries of finalization jobs at one time
    MaxUpsets       \* bound: handlers that die or stall, calls that fail or lose
                    \* their answer, sandboxes that die, changes of the environment's secrets

ASSUME ImageAssumption ==
    /\ MaxBuilds \in Nat \ {0} /\ IsFiniteSet(Workers) /\ Workers # {}
    /\ MaxUpsets \in Nat

VARIABLES
    row,        \* by build, in the order of created_at: status; provider_image_id
                \* (0: NULL); session: provider_session_id is NULL, bound with its
                \* cleanup pending, or cleaned; accepted: the completion_hash;
                \* finalization_lease_token (0: NULL), and whether it has expired
    leases,     \* lease tokens given out; an artifact is named by its attempt's
    trigger,    \* how far the trigger of each build is
    baked,      \* the version of the environment's own secrets in its plan (0: none)
    secrets,    \* their version
    changing,   \* a new version is stored, and the images of older ones still live
    call,       \* builds whose accepted callback is about to send the job
    queue,      \* builds with a finalization job to be delivered
    worker,     \* the delivery of each worker
    sweep,      \* the maintenance of one row
    box,        \* at the provider: the sandbox of each build
    there,      \* at the provider: the artifacts of each build
    cut,        \* builds with an attempt after which nobody knows of its artifact
    upsets

rows == <<row, leases>>
plan == <<trigger, baked, secrets, changing>>
jobs == <<call, queue>>
prov == <<box, there, cut>>
vars == <<rows, plan, jobs, worker, sweep, prov, upsets>>

Builds   == 1..MaxBuilds
Terminal == {"ready", "failed", "superseded"}

NoRow    == [status |-> "none", image |-> 0, session |-> "none", accepted |-> "no",
             lease |-> 0, expired |-> FALSE]
Gone     == [NoRow EXCEPT !.status = "gone"]
NoWork   == [at |-> "idle", b |-> 1, lease |-> 0, late |-> FALSE, old |-> {}]
NoSweep  == [at |-> "idle", b |-> 1, image |-> 0]

Is(b, status)  == row[b].status = status
Pending(b)     == row[b].status \in Terminal /\ row[b].session = "bound"
Failed(r)      == [r EXCEPT !.status = "failed"]
Unleased(r)    == [r EXCEPT !.lease = 0, !.expired = FALSE]
Put(b, r)      == row' = [row EXCEPT ![b] = r]
Upset          == upsets < MaxUpsets /\ upsets' = upsets + 1

-----------------------------------------------------------------------------
(* ImageBuildWorkflow.trigger.                                             *)

To(b, at) == trigger' = [trigger EXCEPT ![b] = at]

(* registerBuild: unless a build is under way.                             *)
Register(b) ==
    /\ Is(b, "none") /\ \A c \in 1..(b - 1) : ~Is(c, "none")
    /\ \A c \in Builds : ~Is(c, "building")
    /\ Put(b, [NoRow EXCEPT !.status = "building"]) /\ To(b, "registered")
    /\ UNCHANGED <<leases, baked, secrets, changing, jobs, worker, sweep, prov, upsets>>

(* planBuild decrypts the secrets, the environment's own among them.       *)
Plan(b) ==
    /\ trigger[b] = "registered" /\ To(b, "planned")
    /\ baked' = [baked EXCEPT ![b] = secrets]
    /\ UNCHANGED <<rows, secrets, changing, jobs, worker, sweep, prov, upsets>>

(* startBuild: the provider has a sandbox before its session is bound.     *)
Create(b) ==
    /\ trigger[b] = "planned" /\ To(b, "created")
    /\ box' = [box EXCEPT ![b] = "up"]
    /\ UNCHANGED <<rows, baked, secrets, changing, jobs, worker, sweep, there, cut, upsets>>

(* bindProviderSession.                                                    *)
Bind(b) ==
    /\ trigger[b] = "created"
    /\ IF Is(b, "building")
       THEN To(b, "bound") /\ Put(b, [row[b] EXCEPT !.session = "bound"])
       ELSE To(b, "failing") /\ UNCHANGED row
    /\ UNCHANGED <<leases, baked, secrets, changing, jobs, worker, sweep, prov, upsets>>

Started(b) ==
    /\ trigger[b] = "bound" /\ To(b, "over")
    /\ UNCHANGED <<rows, baked, secrets, changing, jobs, worker, sweep, prov, upsets>>

StartFails(b) ==
    /\ Upset /\ trigger[b] \in {"registered", "planned", "bound"} /\ To(b, "failing")
    /\ UNCHANGED <<rows, baked, secrets, changing, jobs, worker, sweep, prov>>

(* The sandbox is torn down, if that can be done, and the row is failed.   *)
TriggerFails(b, torn) ==
    /\ trigger[b] = "failing" /\ To(b, "over")
    /\ IF torn THEN UNCHANGED upsets ELSE Upset
    /\ box' = [box EXCEPT ![b] = IF torn /\ @ = "up" THEN "down" ELSE @]
    /\ IF Is(b, "building") THEN Put(b, Failed(row[b])) ELSE UNCHANGED row
    /\ UNCHANGED <<leases, baked, secrets, changing, jobs, worker, sweep, there, cut>>

TriggerDies(b) ==
    /\ Upset /\ trigger[b] \notin {"none", "over"} /\ To(b, "over")
    /\ UNCHANGED <<rows, baked, secrets, changing, jobs, worker, sweep, prov>>

-----------------------------------------------------------------------------
(* The callbacks of the build, and the secrets of its environment.         *)

(* acceptSuccessfulCompletion and acceptFailedCompletion: once per build.  *)
Accept(b, outcome) ==
    /\ box[b] = "up" /\ trigger[b] \in {"bound", "over"}
    /\ Is(b, "building") /\ row[b].session = "bound" /\ row[b].accepted = "no"
    /\ Put(b, [row[b] EXCEPT !.accepted = outcome,
                             !.status = IF outcome = "failure" THEN "failed" ELSE @])
    /\ call' = call \cup {b}
    /\ UNCHANGED <<leases, plan, queue, worker, sweep, prov, upsets>>

(* An exact duplicate, of a lost answer, sends the job again.              *)
Replay(b) ==
    /\ Upset /\ box[b] = "up" /\ b \notin call /\ row[b].session # "none"
    /\ row[b].accepted = "failure" \/ (row[b].accepted = "success" /\ Is(b, "building"))
    /\ call' = call \cup {b}
    /\ UNCHANGED <<rows, plan, queue, worker, sweep, prov>>

Send(b) ==
    /\ b \in call /\ call' = call \ {b} /\ queue' = queue \cup {b}
    /\ UNCHANGED <<rows, plan, worker, sweep, prov, upsets>>

SendFails(b) ==
    /\ Upset /\ b \in call /\ call' = call \ {b}
    /\ UNCHANGED <<rows, plan, queue, worker, sweep, prov>>

BoxDies(b) ==
    /\ Upset /\ box[b] = "up" /\ box' = [box EXCEPT ![b] = "down"]
    /\ UNCHANGED <<rows, plan, jobs, worker, sweep, there, cut>>

(* The environment's own secrets are stored, then the images that hold     *)
(* older ones retired.                                                     *)
ChangeEnvironmentSecrets ==
    /\ Upset /\ secrets' = secrets + 1 /\ changing' = TRUE
    /\ UNCHANGED <<rows, trigger, baked, jobs, worker, sweep, prov>>

(* Mutant: only images that can be selected are retired.                   *)
Supersede_ReadyOnly ==
    /\ changing /\ changing' = FALSE
    /\ row' = [b \in Builds |-> IF Is(b, "ready")
                                THEN [row[b] EXCEPT !.status = "superseded"] ELSE row[b]]
    /\ UNCHANGED <<leases, trigger, baked, secrets, jobs, worker, sweep, prov, upsets>>

(* supersedeActiveImages; a change whose invalidation failed is retried.   *)
Supersede ==
    /\ changing /\ changing' = FALSE
    /\ row' = [b \in Builds |-> IF row[b].status \in {"building", "ready"}
                                THEN [row[b] EXCEPT !.status = "superseded"] ELSE row[b]]
    /\ UNCHANGED <<leases, trigger, baked, secrets, jobs, worker, sweep, prov, upsets>>

-----------------------------------------------------------------------------
(* ImageBuildFinalizer.process, for several deliveries at once.            *)

Go(w, at)  == worker' = [worker EXCEPT ![w].at = at]
Acked(w)   == worker' = [worker EXCEPT ![w] = NoWork]

(* The job is delivered again, unless its attempts are exhausted.          *)
Retried(w) == Acked(w) /\ queue' \in {queue, queue \cup {worker[w].b}}

Owns(w) == row[worker[w].b].lease = worker[w].lease

(* Of a build under way the delivery notes the lease that has expired.     *)
Take(w, b) ==
    /\ worker[w] = NoWork /\ b \in queue /\ queue' = queue \ {b}
    /\ IF \E v \in Workers : worker[v] # NoWork /\ worker[v].b = b THEN Upset ELSE UNCHANGED upsets
    /\ LET seen == IF row[b].expired THEN row[b].lease ELSE 0 IN
       worker' = [worker EXCEPT ![w] =
           IF Is(b, "building")
           THEN [NoWork EXCEPT !.at = "claim", !.b = b, !.lease = seen,
                               !.late = (seen # 0 /\ row[b].image = 0)]
           ELSE IF Is(b, "gone") THEN NoWork ELSE [NoWork EXCEPT !.at = "cleanup", !.b = b]]
    /\ UNCHANGED <<rows, plan, call, sweep, prov>>

(* claimLease: free, or expired when the row was read.                     *)
Claim(w) ==
    /\ worker[w].at = "claim"
    /\ LET b == worker[w].b  token == leases[b] + 1 IN
       IF Is(b, "building") /\ (row[b].lease = 0 \/ Owns(w))
       THEN /\ Put(b, [row[b] EXCEPT !.lease = token, !.expired = FALSE])
            /\ leases' = [leases EXCEPT ![b] = token]
            /\ worker' = [worker EXCEPT ![w].at = "claimed", ![w].lease = token]
            /\ UNCHANGED queue
       ELSE Retried(w) /\ UNCHANGED rows
    /\ UNCHANGED <<plan, call, sweep, prov, upsets>>

(* Mutant: an attempt that nobody knows the outcome of is simply repeated. *)
Claimed_Repeats(w) ==
    /\ worker[w].at = "claimed"
    /\ LET r == row[worker[w].b] IN
       IF ~Owns(w) \/ r.session = "none" THEN Retried(w)
       ELSE UNCHANGED queue /\ Go(w, IF r.image # 0 THEN "publish" ELSE "attempt")
    /\ UNCHANGED <<rows, plan, call, sweep, prov, upsets>>

(* An artifact that is recorded is never made anew; an attempt that ran    *)
(* out of its lease without one may have made one, and ends the build.     *)
Claimed(w) ==
    /\ worker[w].at = "claimed"
    /\ LET r == row[worker[w].b] IN
       IF ~Owns(w) \/ r.session = "none" THEN Retried(w)
       ELSE /\ UNCHANGED queue
            /\ Go(w, IF r.image # 0 THEN "publish"
                     ELSE IF worker[w].late THEN "fail" ELSE "attempt")
    /\ UNCHANGED <<rows, plan, call, sweep, prov, upsets>>

Made(w) == there' = [there EXCEPT ![worker[w].b] = @ \cup {worker[w].lease}]

(* finalizeSuccessfulBuild, within its deadline: it makes the artifact.    *)
Attempt(w) ==
    /\ worker[w].at = "attempt" /\ box[worker[w].b] = "up"
    /\ Made(w) /\ Go(w, "record")
    /\ UNCHANGED <<rows, plan, jobs, sweep, box, cut, upsets>>

(* It fails: for certain, in which case it may be repeated, or not.        *)
AttemptFails(w) ==
    /\ worker[w].at = "attempt"
    /\ \/ Upset /\ Go(w, "release") /\ UNCHANGED <<there, cut>>
       \/ Go(w, "fail") /\ box[worker[w].b] = "down" /\ UNCHANGED <<there, cut, upsets>>
       \/ Upset /\ Go(w, "fail") /\ Made(w) /\ cut' = cut \cup {worker[w].b}
    /\ UNCHANGED <<rows, plan, jobs, sweep, box>>

(* recordArtifact; after an error nobody knows whether it was written.     *)
Record(w) ==
    /\ worker[w].at = "record"
    /\ LET b == worker[w].b
           fits == Is(b, "building") /\ Owns(w) /\ row[b].image = 0 IN
       /\ \/ fits /\ Put(b, [row[b] EXCEPT !.image = worker[w].lease])
          \/ UNCHANGED row
       /\ IF row'[b] # row[b] THEN \/ Go(w, "publish") /\ UNCHANGED upsets
                                   \/ Go(w, "reread") /\ Upset
          ELSE Go(w, "reread") /\ IF fits THEN Upset ELSE UNCHANGED upsets
    /\ UNCHANGED <<leases, plan, jobs, sweep, prov>>

(* Mutant: a write that failed did not happen.                             *)
Reread_Trusts(w) ==
    /\ worker[w].at = "reread" /\ Go(w, "compensate")
    /\ UNCHANGED <<rows, plan, jobs, sweep, prov, upsets>>

(* Deleting an artifact that was recorded would leave a dead image.        *)
Reread(w) ==
    /\ worker[w].at = "reread"
    /\ Go(w, IF row[worker[w].b].image = worker[w].lease THEN "publish" ELSE "compensate")
    /\ UNCHANGED <<rows, plan, jobs, sweep, prov, upsets>>

(* compensateUnrecordedArtifact: it is deleted, or else kept on its row,   *)
(* also when it was deleted and only clearLease failed.                    *)
Compensate(w) ==
    /\ worker[w].at = "compensate"
    /\ \/ /\ there' = [there EXCEPT ![worker[w].b] = @ \ {worker[w].lease}]
          /\ Go(w, "release") /\ UNCHANGED upsets
       \/ /\ Upset /\ Go(w, "quarantine")
          /\ there' \in {there, [there EXCEPT ![worker[w].b] = @ \ {worker[w].lease}]}
    /\ UNCHANGED <<rows, plan, jobs, sweep, box, cut>>

(* Mutant: nothing is kept.                                                *)
Quarantine_Drops(w) ==
    /\ worker[w].at = "quarantine"
    /\ Acked(w) /\ UNCHANGED <<row, queue, cut>>
    /\ UNCHANGED <<leases, plan, call, sweep, box, there, upsets>>

(* quarantineArtifact, which a row without a session or no row refuses.    *)
Quarantine(w) ==
    /\ worker[w].at = "quarantine"
    /\ LET b == worker[w].b IN
       IF /\ row[b].session # "none" /\ row[b].image = 0
          /\ row[b].status \in {"building", "failed", "superseded"}
       THEN /\ Put(b, Unleased([row[b] EXCEPT !.image = worker[w].lease,
                                   !.status = IF @ = "building" THEN "failed" ELSE @]))
            /\ Acked(w) /\ UNCHANGED <<queue, cut>>
       ELSE Retried(w) /\ cut' = cut \cup {b} /\ UNCHANGED row
    /\ UNCHANGED <<leases, plan, call, sweep, box, there, upsets>>

(* clearLease, before the job is retried.                                  *)
Release(w) ==
    /\ worker[w].at = "release" /\ Retried(w)
    /\ IF Owns(w) THEN Put(worker[w].b, Unleased(row[worker[w].b])) ELSE UNCHANGED row
    /\ UNCHANGED <<leases, plan, call, sweep, prov, upsets>>

(* markFailed.                                                             *)
Fail(w) ==
    /\ worker[w].at = "fail" /\ Go(w, "cleanup")
    /\ LET b == worker[w].b IN
       IF Is(b, "building") /\ Owns(w) THEN Put(b, Unleased(Failed(row[b]))) ELSE UNCHANGED row
    /\ UNCHANGED <<leases, plan, jobs, sweep, prov, upsets>>

(* tryMarkImageBuildReady, of the holder of the lease; a newer image that  *)
(* is ready already supersedes it.                                         *)
Publish(w) ==
    /\ worker[w].at = "publish"
    /\ LET b == worker[w].b
           newer == \E c \in (b + 1)..MaxBuilds : Is(c, "ready") IN
       IF Is(b, "building") /\ Owns(w)
       THEN /\ Put(b, Unleased([row[b] EXCEPT !.status = IF newer THEN "superseded" ELSE "ready"]))
            /\ Go(w, IF newer THEN "reap" ELSE "replace")
       ELSE Go(w, "refused") /\ UNCHANGED row
    /\ UNCHANGED <<leases, plan, jobs, sweep, prov, upsets>>

Refused(w) ==
    /\ worker[w].at = "refused"
    /\ Go(w, IF Is(worker[w].b, "building") THEN "release" ELSE "cleanup")
    /\ UNCHANGED <<rows, plan, jobs, sweep, prov, upsets>>

(* It reads which older images are ready, and then supersedes them.        *)
Replace(w) ==
    /\ worker[w].at = "replace"
    /\ LET old == {c \in 1..(worker[w].b - 1) : Is(c, "ready")} IN
       worker' = [worker EXCEPT ![w].at = IF old = {} THEN "cleanup" ELSE "supersede",
                                ![w].old = {<<c, row[c].image>> : c \in old}]
    /\ UNCHANGED <<rows, plan, jobs, sweep, prov, upsets>>

SupersedeOlder(w) ==
    /\ worker[w].at = "supersede" /\ Go(w, "reap")
    /\ row' = [c \in Builds |-> IF <<c, row[c].image>> \in worker[w].old /\ Is(c, "ready")
                                THEN [row[c] EXCEPT !.status = "superseded"] ELSE row[c]]
    /\ UNCHANGED <<leases, plan, jobs, sweep, prov, upsets>>

(* deleteSupersededImage, once its artifact is deleted.                    *)
WithoutImage(b, image) ==
    IF Is(b, "superseded") /\ row[b].session # "bound" /\ row[b].image \in {image, 0}
    THEN Gone ELSE row[b]

(* deleteReplacedImages: best effort, the scheduler comes back to the rest.*)
Reap(w) ==
    /\ worker[w].at = "reap"
    /\ \/ /\ worker[w].old = {} /\ Go(w, "cleanup")
          /\ UNCHANGED <<row, there, upsets>>
       \/ \E old \in worker[w].old :
              /\ worker' = [worker EXCEPT ![w].old = @ \ {old}]
              /\ \/ /\ there' = [there EXCEPT ![old[1]] = @ \ {old[2]}]
                    /\ Put(old[1], WithoutImage(old[1], old[2])) /\ UNCHANGED upsets
                 \/ Upset /\ UNCHANGED <<row, there>>
    /\ UNCHANGED <<leases, plan, jobs, sweep, box, cut>>

(* The sandbox of a build that is over is torn down.                       *)
Cleanup(w) ==
    /\ worker[w].at = "cleanup"
    /\ IF ~Pending(worker[w].b) THEN Acked(w) /\ UNCHANGED <<queue, box, upsets>>
       ELSE \/ /\ box' = [box EXCEPT ![worker[w].b] = "down"]
               /\ Go(w, "clear") /\ UNCHANGED <<queue, upsets>>
            \/ Upset /\ Retried(w) /\ UNCHANGED box
    /\ UNCHANGED <<rows, plan, call, sweep, there, cut>>

(* clearSessionCleanup: a row without an artifact drops the session's id.  *)
Cleared(r) ==
    IF r.status \in Terminal /\ r.session = "bound"
    THEN [r EXCEPT !.session = IF r.image = 0 THEN "none" ELSE "cleaned"] ELSE r

Clear(w) ==
    /\ worker[w].at = "clear" /\ Acked(w)
    /\ Put(worker[w].b, Cleared(row[worker[w].b]))
    /\ UNCHANGED <<leases, plan, jobs, sweep, prov, upsets>>

(* Its artifact dies with a delivery that has not recorded it.             *)
WorkerDies(w) ==
    /\ Upset /\ worker[w].at # "idle" /\ Retried(w)
    /\ \/ UNCHANGED there
       \/ worker[w].at = "attempt" /\ Made(w)
    /\ cut' = IF worker[w].at \in {"attempt", "record", "reread", "compensate", "quarantine"}
              THEN cut \cup {worker[w].b} ELSE cut
    /\ UNCHANGED <<rows, plan, call, sweep, box>>

(* A lease outlives the deadline of the provider call made under it.       *)
LeaseExpires(b) ==
    /\ row[b].lease # 0 /\ ~row[b].expired
    /\ LET holders == {w \in Workers : worker[w].b = b /\ worker[w].lease = row[b].lease} IN
       /\ \A w \in holders : worker[w].at # "attempt"
       /\ IF holders = {} THEN UNCHANGED upsets ELSE Upset
    /\ Put(b, [row[b] EXCEPT !.expired = TRUE])
    /\ UNCHANGED <<leases, plan, jobs, worker, sweep, prov>>

-----------------------------------------------------------------------------
(* ImageBuildScheduler.run, and the spawns that use the images.            *)

(* Mutant: only builds that were never delivered are published again.      *)
Republish_Unleased(b) ==
    /\ Is(b, "building") /\ row[b].accepted = "success" /\ row[b].lease = 0
    /\ queue' = queue \cup {b}
    /\ UNCHANGED <<rows, plan, call, worker, sweep, prov, upsets>>

(* republishRecoverableFinalizations.                                      *)
Republish(b) ==
    /\ Is(b, "building") /\ row[b].accepted = "success"
    /\ row[b].lease = 0 \/ row[b].expired
    /\ queue' = queue \cup {b}
    /\ UNCHANGED <<rows, plan, call, worker, sweep, prov, upsets>>

(* markStaleBuildsAsFailed and markScopeStaleBuildFailed: for too long no  *)
(* callback has come.                                                      *)
StaleFails(b) ==
    /\ Is(b, "building") /\ row[b].accepted = "no" /\ row[b].image = 0 /\ row[b].lease = 0
    /\ Put(b, Failed(row[b]))
    /\ UNCHANGED <<leases, plan, jobs, worker, sweep, prov, upsets>>

(* deleteOldFailedBuilds.                                                  *)
DeleteOld(b) ==
    /\ Is(b, "failed") /\ row[b].image = 0 /\ row[b].session # "bound"
    /\ Put(b, Gone)
    /\ UNCHANGED <<leases, plan, jobs, worker, sweep, prov, upsets>>

(* markRestoreFailed: a spawn could not restore the image.                 *)
RestoreFails(b) ==
    /\ Upset /\ Is(b, "ready") /\ Put(b, Failed(row[b]))
    /\ UNCHANGED <<leases, plan, jobs, worker, sweep, prov>>

Sweeps(at, b) == sweep' = [at |-> at, b |-> b, image |-> row[b].image]

SweepCleans(b) ==
    /\ sweep = NoSweep /\ Pending(b) /\ Sweeps("clean", b)
    /\ UNCHANGED <<rows, plan, jobs, worker, prov, upsets>>

(* getFailedImagesWithArtifacts and getSupersededImages.                   *)
SweepReaps(b) ==
    /\ sweep = NoSweep /\ row[b].session # "bound"
    /\ (Is(b, "failed") /\ row[b].image # 0) \/ Is(b, "superseded")
    /\ Sweeps(IF row[b].image # 0 THEN "reap" ELSE "commit", b)
    /\ UNCHANGED <<rows, plan, jobs, worker, prov, upsets>>

SweepCalls ==
    /\ sweep.at = "clean"
    /\ box' = [box EXCEPT ![sweep.b] = "down"] /\ sweep' = [sweep EXCEPT !.at = "clear"]
    /\ UNCHANGED <<rows, plan, jobs, worker, there, cut, upsets>>

SweepDeletes ==
    /\ sweep.at = "reap" /\ there' = [there EXCEPT ![sweep.b] = @ \ {sweep.image}]
    /\ sweep' = [sweep EXCEPT !.at = "commit"]
    /\ UNCHANGED <<rows, plan, jobs, worker, box, cut, upsets>>

(* A provider call fails, or the host dies.                                *)
SweepFails ==
    /\ Upset /\ sweep # NoSweep /\ sweep' = NoSweep
    /\ UNCHANGED <<rows, plan, jobs, worker, prov>>

(* clearSessionCleanup, clearFailedImageArtifact of the very artifact that *)
(* was deleted, or deleteSupersededImage.                                  *)
SweepCommits ==
    /\ sweep.at \in {"clear", "commit"} /\ sweep' = NoSweep
    /\ LET b == sweep.b IN
       Put(b, IF sweep.at = "clear" THEN Cleared(row[b])
              ELSE IF /\ Is(b, "failed") /\ row[b].session # "bound"
                      /\ sweep.image # 0 /\ row[b].image = sweep.image
              THEN [row[b] EXCEPT !.image = 0, !.session = "none"]
              ELSE WithoutImage(b, sweep.image))
    /\ UNCHANGED <<leases, plan, jobs, worker, prov, upsets>>

-----------------------------------------------------------------------------
(* The scope starts with an image, its first build.                        *)
Init ==
    /\ row = [b \in Builds |->
                 IF b = 1 THEN [NoRow EXCEPT !.status = "ready", !.image = 1,
                                             !.session = "cleaned", !.accepted = "success"]
                 ELSE NoRow]
    /\ leases = [b \in Builds |-> IF b = 1 THEN 1 ELSE 0]
    /\ trigger = [b \in Builds |-> IF b = 1 THEN "over" ELSE "none"]
    /\ baked = [b \in Builds |-> IF b = 1 THEN 1 ELSE 0]
    /\ secrets = 1 /\ changing = FALSE /\ call = {} /\ queue = {}
    /\ worker = [w \in Workers |-> NoWork] /\ sweep = NoSweep
    /\ box = [b \in Builds |-> IF b = 1 THEN "down" ELSE "none"]
    /\ there = [b \in Builds |-> IF b = 1 THEN {1} ELSE {}]
    /\ cut = {} /\ upsets = 0

Triggers(b) ==
    \/ Register(b) \/ Plan(b) \/ Create(b) \/ Bind(b) \/ Started(b) \/ StartFails(b)
    \/ \E torn \in BOOLEAN : TriggerFails(b, torn)
    \/ TriggerDies(b)

Calls(b) ==
    \/ \E outcome \in {"success", "failure"} : Accept(b, outcome)
    \/ Replay(b) \/ Send(b) \/ SendFails(b) \/ BoxDies(b)

Works(w) ==
    \/ Claim(w) \/ Claimed(w) \/ Attempt(w) \/ AttemptFails(w) \/ Record(w) \/ Reread(w)
    \/ Compensate(w) \/ Quarantine(w) \/ Release(w) \/ Fail(w) \/ Publish(w) \/ Refused(w)
    \/ Replace(w) \/ SupersedeOlder(w) \/ Reap(w) \/ Cleanup(w) \/ Clear(w)

SweepWorks == SweepCalls \/ SweepDeletes \/ SweepFails \/ SweepCommits

Next ==
    \/ \E b \in Builds : \/ Triggers(b) \/ Calls(b) \/ LeaseExpires(b)
                         \/ Republish(b) \/ StaleFails(b) \/ DeleteOld(b) \/ RestoreFails(b)
                         \/ SweepCleans(b) \/ SweepReaps(b)
                         \/ \E w \in Workers : Take(w, b)
    \/ \E w \in Workers : Works(w) \/ WorkerDies(w)
    \/ SweepWorks \/ ChangeEnvironmentSecrets \/ Supersede

Spec == Init /\ [][Next]_vars

(* Ticks of the scheduler come for ever and publish what is recoverable,   *)
(* and the queue delivers it; a delivery comes back from each call, since  *)
(* calls have deadlines; time passes.                                      *)
FairSpec ==
    /\ Spec
    /\ \A w \in Workers : WF_vars(Works(w))
    /\ \A b \in Builds : /\ WF_vars(Republish(b)) /\ WF_vars(StaleFails(b))
                         /\ WF_vars(LeaseExpires(b))
                         /\ SF_vars(\E w \in Workers : Take(w, b))

-----------------------------------------------------------------------------
(* Every variable holds a state of the code.                               *)
Phases == {"idle", "claim", "claimed", "attempt", "record", "reread", "compensate", "quarantine",
           "release", "fail", "publish", "refused", "replace", "supersede", "reap", "cleanup",
           "clear"}
RowTypes == [status : {"none", "building", "gone"} \cup Terminal, image : Nat,
             session : {"none", "bound", "cleaned"}, accepted : {"no", "success", "failure"},
             lease : Nat, expired : BOOLEAN]
Deliveries == [at : Phases, b : Builds, lease : Nat, late : BOOLEAN, old : SUBSET (Builds \X Nat)]
Maintenance == [at : {"idle", "clean", "clear", "reap", "commit"}, b : Builds, image : Nat]

TypeOK ==
    /\ row \in [Builds -> RowTypes] /\ leases \in [Builds -> Nat] /\ baked \in [Builds -> Nat]
    /\ trigger \in [Builds -> {"none", "registered", "planned", "created", "bound", "failing", "over"}]
    /\ secrets \in Nat \ {0} /\ changing \in BOOLEAN
    /\ call \subseteq Builds /\ queue \subseteq Builds /\ cut \subseteq Builds
    /\ worker \in [Workers -> Deliveries] /\ sweep \in Maintenance
    /\ box \in [Builds -> {"none", "up", "down"}] /\ there \in [Builds -> SUBSET Nat]
    /\ upsets \in 0..MaxUpsets

(* An image that spawns can select is there: nobody deletes the artifact   *)
(* of a row that is ready, or that a delivery goes on to make ready.       *)
ReadyIsThere == \A b \in Builds : Is(b, "ready") => row[b].image \in there[b]

(* After a change of the environment's own secrets has been answered, no   *)
(* build that holds older ones is ready, or can still become ready.  It    *)
(* says nothing of the global and repository secrets that a build also     *)
(* holds.                                                                  *)
NoStaleEnvironmentSecrets ==
    ~changing => \A b \in Builds : row[b].status \in {"building", "ready"} => baked[b] \in {0, secrets}

(* Redelivered, late and repeated deliveries never leave two artifacts of  *)
(* one build at the provider.                                              *)
OneArtifact == \A b \in Builds : Cardinality(there[b]) <= 1

Unrecorded(w) ==
    IF worker[w].at \in {"record", "reread", "compensate", "quarantine"}
    THEN {<<worker[w].b, worker[w].lease>>} ELSE {}

(* An artifact at the provider is known to a row or to a running delivery, *)
(* so that it can be deleted, unless its attempt was cut off.              *)
NoneForgotten ==
    \A b \in Builds : \A image \in there[b] :
        \/ row[b].image = image \/ b \in cut
        \/ \E w \in Workers : <<b, image>> \in Unrecorded(w)

(* What makes them inductive.  A build is planned once, and its jobs come  *)
(* after its trigger has bound it.                                         *)
Early == {"none", "registered", "planned", "created"}

Unplanned ==
    \A b \in Builds :
        /\ Is(b, "none") => baked[b] = 0 /\ trigger[b] = "none"
        /\ trigger[b] \in Early =>
               /\ leases[b] = 0 /\ row[b].session = "none" /\ row[b].accepted = "no"
               /\ b \notin call \cup queue
               /\ \A w \in Workers : worker[w].at # "idle" => worker[w].b # b

(* Tokens are given out in order and once.  One that a delivery has noted  *)
(* and the row still has is expired, and if no artifact was recorded under *)
(* it, the delivery knows that it is late.                                 *)
Leased(w) == worker[w].at \notin {"idle", "claim", "cleanup", "clear"}

InOrder ==
    /\ \A b \in Builds : row[b].lease <= leases[b] /\ there[b] \subseteq 1..leases[b]
    /\ \A w \in Workers : Leased(w) => worker[w].lease \in 1..leases[worker[w].b]

Noted ==
    \A w \in Workers :
        LET b == worker[w].b IN
        worker[w].at = "claim" =>
            /\ worker[w].lease <= leases[b]
            /\ worker[w].lease # 0 /\ Owns(w) => row[b].expired
            /\ worker[w].lease # 0 /\ Is(b, "building") => worker[w].late \/ row[b].image # 0

Distinct ==
    \A w, v \in Workers :
        w # v /\ Leased(w) /\ Leased(v) /\ worker[w].b = worker[v].b =>
            worker[w].lease # worker[v].lease

(* A delivery that may make an artifact is the only one that may, and of a *)
(* build that has none; so is one with an artifact to record, and so will  *)
(* be the holder of a lease, or whoever takes the build once it is free.   *)
Making == {"record", "reread", "compensate", "quarantine"}
Active == Making \cup {"attempt"}

Nobody(b)   == \A v \in Workers : worker[v].b = b => worker[v].at \notin Active
Alone(w)    == \A v \in Workers : v # w /\ worker[v].b = worker[w].b => worker[v].at \notin Active
Nothing(b)  == row[b].image = 0 /\ there[b] = {}

Attempting == \A w \in Workers : worker[w].at = "attempt" => Alone(w) /\ Nothing(worker[w].b)

Recording ==
    \A w \in Workers :
        worker[w].at \in Making => Alone(w) /\ there[worker[w].b] \subseteq {worker[w].lease}

Fresh ==
    \A w \in Workers :
        LET b == worker[w].b IN
        /\ Owns(w) /\ row[b].image = 0
        /\ \/ worker[w].at = "claimed" /\ ~worker[w].late /\ row[b].session # "none"
           \/ worker[w].at = "release" /\ Is(b, "building")
        => Nobody(b) /\ there[b] = {}

Free ==
    \A b \in Builds :
        Is(b, "building") /\ row[b].lease = 0 /\ row[b].image = 0 => Nobody(b) /\ there[b] = {}

Single == \A b \in Builds : \A i, j \in there[b] : i = j

(* What is deleted was never recorded, or is of a row that is over and     *)
(* stays so; and a row forgets its artifact after it is gone.              *)
ImagesThere ==
    \A b \in Builds : Is(b, "building") /\ row[b].image # 0 => row[b].image \in there[b]

AtHand ==
    \A w \in Workers :
        LET b == worker[w].b IN
        /\ worker[w].at = "record" /\ Is(b, "building") => worker[w].lease \in there[b]
        /\ worker[w].at \in {"publish", "refused"} /\ Is(b, "building") => row[b].image # 0
        /\ worker[w].at \in {"record", "compensate", "quarantine"} => row[b].image # worker[w].lease

OldOver ==
    \A w \in Workers :
        /\ worker[w].at \notin {"supersede", "reap"} => worker[w].old = {}
        /\ \A old \in worker[w].old :
               /\ row[old[1]].status \notin {"none", "building"}
               /\ Is(old[1], "ready") => worker[w].at = "supersede" /\ row[old[1]].image = old[2]

SweepOver ==
    LET b == sweep.b IN
    sweep.at \in {"reap", "commit"} =>
        /\ row[b].status \in {"failed", "superseded", "gone"}
        /\ sweep.image # 0 =>
               /\ row[b].image = sweep.image \/ (Is(b, "gone") /\ row[b].session = "none")
               /\ \A w \in Workers : worker[w].b = b => worker[w].at # "attempt"
        /\ sweep.at = "commit" => sweep.image \notin there[b]

(* The inductive invariant.                                                *)
IInv == /\ TypeOK /\ Unplanned /\ NoStaleEnvironmentSecrets
        /\ InOrder /\ Noted /\ Distinct
        /\ Attempting /\ Recording /\ Fresh /\ Free /\ Single
        /\ ImagesThere /\ AtHand /\ OldOver /\ SweepOver
        /\ ReadyIsThere /\ NoneForgotten

(* A build ends, whether its callback is lost, its job dead-lettered or    *)
(* its delivery dies; otherwise the scope would never be built again.      *)
BuildsEnd == \A b \in Builds : Is(b, "building") ~> ~Is(b, "building")

=============================================================================
