---------------------------- MODULE PromptQueue ----------------------------
(***************************************************************************)
(* The prompt queue of one session: session/message-queue.ts together with *)
(* the message table, the stop coordinator, the status service, the budget *)
(* service, the execution_complete handler and the alarm handler that      *)
(* share its state.                                                        *)
(*                                                                         *)
(* A session is one single-threaded Durable Object, so a stretch of code   *)
(* between two awaits is one action.  A handler suspended on an await is   *)
(* a continuation, kept in a variable of its own (kicks, held, resumes,    *)
(* delivering, settling, closing, alarm); anything may happen before it    *)
(* runs again.  Storage is durable, continuations are lost by a restart.   *)
(*                                                                         *)
(* The sandbox is what the queue sees of it: a row status, one             *)
(* authoritative socket, the commands in flight, and the bridge's prompt   *)
(* tasks.  How it is created and replaced is the lifecycle manager's.      *)
(***************************************************************************)
EXTENDS Naturals, Sequences, FiniteSets

CONSTANTS
    MaxMsg,             \* bound: messages ever inserted, numbered in queue order
    Pumps,              \* processMessageQueue calls that can overlap
    Capacity,           \* MAX_UNFINISHED_PROMPTS
    MaxKicks,           \* bound: callers about to start processMessageQueue
    MaxResumes,         \* bound: callers awaiting a sandbox termination
    MaxInbox,           \* bound: commands in flight on the socket
    ExecutionTimeouts,  \* may a prompt outlive the execution timeout?
    SandboxFaults,      \* may a sandbox boot too slowly, lose its tasks, go stale, idle or fail?
    Restarts,           \* may the Durable Object be evicted and restarted?
    CallFailures,       \* may an alarm write or a provider-auth lookup be refused?
    Withdrawals         \* do clients remove queued prompts?

ASSUME BoundsAssumption ==
    /\ MaxMsg \in Nat /\ Capacity \in Nat \ {0}
    /\ MaxKicks \in Nat \ {0} /\ MaxResumes \in Nat \ {0} /\ MaxInbox \in Nat
    /\ {ExecutionTimeouts, SandboxFaults, Restarts, CallFailures, Withdrawals} \subseteq BOOLEAN

Messages == 1..MaxMsg
NoMsg    == 0
StopCmd  == 0           \* the stop command in the inbox

VARIABLES
    msg,        \* message status by id
    last,       \* status of the most recently finished message, "created" if none
    session,    \* session status
    exhausted,  \* session.budget_exhausted
    awaiting,   \* messages whose stop_confirmation_deadline is set
    due,        \* those whose deadline has passed
    kicks,      \* continuations that will call processMessageQueue
    held,       \* per pump: the prompt whose provider-auth lookup is awaited
    resumes,    \* continuations awaiting terminate..., then resumeAfterSandboxTermination
    delivering, \* stops whose command or alarm failed, awaiting reconciliation
    settling,   \* completions awaiting their terminal projection
    closing,    \* cancel() awaiting its status projection
    alarm,      \* where the alarm handler is suspended
    box,        \* sandbox row: down = none, stopped or stale; ending = being terminated
    sock,       \* an authoritative sandbox socket is open
    inbox,      \* commands sent on it and not yet read
    tasks,      \* prompts the bridge is executing
    cur,        \* the bridge's _current_prompt_task
    outbox      \* execution_complete events not yet acknowledged

rows     == <<msg, last>>
fence    == <<awaiting, due>>
conts    == <<kicks, held, resumes, delivering, settling, closing, alarm>>
boxVars  == <<box, sock, inbox, tasks, cur, outbox>>
vars     == <<rows, session, exhausted, fence, conts, boxVars>>

-----------------------------------------------------------------------------
Finished   == {"completed", "failed"}
Unfinished == {"pending", "processing"}
MsgStatus  == Unfinished \cup Finished \cup {"absent", "withdrawn"}
Promptable == session \in {"created", "active", "completed", "failed"}
SessionStatus == {"created", "active", "completed", "failed", "archived", "cancelled"}
AlarmStage == {"idle", "recovering", "timeout", "lifecycle", "terminating", "giveup", "resume"}

Rows         == {m \in Messages : msg[m] \notin {"absent", "withdrawn"}}
Queue        == {m \in Messages : msg[m] \in Unfinished}
Processing   == {m \in Messages : msg[m] = "processing"}

(* Mutant: ORDER BY created_at DESC.                                       *)
IsHead_Newest(m) == /\ m \in Messages
                    /\ msg[m] = "pending"
                    /\ \A n \in Messages : n > m => msg[n] # "pending"

(* getNextPendingMessage: the oldest pending row.                          *)
IsHead(m) == /\ m \in Messages
             /\ msg[m] = "pending"
             /\ \A n \in Messages : n < m => msg[n] # "pending"

(* getSandboxSocket: an open authoritative socket of a sandbox row that is *)
(* not stopped, stale or failed.                                           *)
Connected == sock /\ box = "up"

(* A caller reached `await processMessageQueue()` behind another await.    *)
Bump(n, max) == IF n < max THEN n + 1 ELSE n
Kick         == kicks' = Bump(kicks, MaxKicks)

(* The other await is an alarm write.  Whoever receives its rejection logs *)
(* it, and nobody pumps the queue.                                         *)
KickIfArmed  == Kick \/ (CallFailures /\ UNCHANGED kicks)

(* Mutant: the outcome alone decides, whatever is still queued.            *)
Reconcile_IgnoresQueue(success) ==
    session' = IF ~Promptable THEN session ELSE IF success THEN "completed" ELSE "failed"

(* The session status that message state implies, for a session the user   *)
(* has not closed: reconcileAfterExecution, in the turn that wrote msg'.   *)
Reconcile(success) ==
    session' = IF ~Promptable THEN session
               ELSE IF \E m \in Messages : msg'[m] \in Unfinished THEN "active"
               ELSE IF success THEN "completed" ELSE "failed"

(* recordMessageCompletion for one message.                                *)
Finish(m, outcome) ==
    /\ msg' = [msg EXCEPT ![m] = outcome]
    /\ last' = outcome

(* Nothing of the old sandbox can be heard once its socket is revoked.     *)
LoseSandbox ==
    /\ sock' = FALSE /\ inbox' = <<>> /\ tasks' = {} /\ cur' = NoMsg /\ outbox' = {}

(* terminateUnresponsiveSandbox up to its await.                           *)
Terminate ==
    IF box \in {"starting", "up"}
    THEN box' = "down" /\ LoseSandbox
    ELSE UNCHANGED boxVars

(* Mutant: the stopped prompt goes back to the queue.                      *)
StopPrompt_Requeues(m, released) ==
    /\ msg' = [msg EXCEPT ![m] = "pending"]
    /\ awaiting' = (awaiting \ released) \cup {m}
    /\ due' = due \ released
    /\ Reconcile(FALSE)
    /\ delivering' = delivering \cup {m}
    /\ UNCHANGED <<last, box, sock, inbox, tasks, cur>>

(* ExecutionStopCoordinator.prepare and the synchronous part of deliver:   *)
(* fail the prompt, set its stop fence, reconcile, and send the stop.  If  *)
(* the send or the alarm write fails, deliver comes back after the awaits. *)
(* The fences of `released` are dropped in the same turn.                  *)
StopPrompt(m, released) ==
    /\ Finish(m, "failed")
    /\ awaiting' = (awaiting \ released) \cup {m}
    /\ due' = due \ released
    /\ Reconcile(FALSE)
    /\ \E sent, alarmSet \in BOOLEAN :
          /\ sent => Connected /\ Len(inbox) < MaxInbox
          /\ inbox' = IF sent THEN Append(inbox, StopCmd) ELSE inbox
          /\ delivering' = IF sent /\ alarmSet THEN delivering ELSE delivering \cup {m}
    /\ UNCHANGED <<box, sock, tasks, cur>>

(* failStuckProcessingMessage: no fence, no stop command, no pump.         *)
FailStuck ==
    IF Processing = {} THEN UNCHANGED <<rows, session>>
    ELSE \E m \in Processing : Finish(m, "failed") /\ Reconcile(FALSE)

-----------------------------------------------------------------------------
(* Admission.                                                              *)

(* enqueuePromptCore after the fingerprint hash, or admitAutofixMessage:   *)
(* one turn from the promptability check to the insert.                    *)
Enqueue ==
    /\ Promptable
    /\ ~exhausted
    /\ Cardinality(Queue) < Capacity
    /\ \E m \in Messages :
          /\ msg[m] = "absent" /\ \A n \in Messages : n < m => msg[n] # "absent"
          /\ msg' = [msg EXCEPT ![m] = "pending"]
    /\ session' = "active"
    /\ Kick
    /\ UNCHANGED <<last, exhausted, fence, held, resumes, delivering, settling, closing,
                   alarm, boxVars>>

(* A request id or feedback key seen before returns its row and pumps the  *)
(* queue; for a pending autofix row the session is marked active again.    *)
Resubmit(m) ==
    /\ Promptable
    /\ m \in Rows
    /\ \/ session' = session
       \/ msg[m] = "pending" /\ session' = "active"
    /\ Kick
    /\ UNCHANGED <<rows, exhausted, fence, held, resumes, delivering, settling, closing,
                   alarm, boxVars>>

(* cancelQueuedPrompt: the row is deleted; the queue is not pumped.        *)
Withdraw(m) ==
    /\ Withdrawals
    /\ m \in Messages /\ msg[m] = "pending"
    /\ msg' = [msg EXCEPT ![m] = "withdrawn"]
    /\ session' = IF ~Promptable \/ Queue \ {m} # {} THEN session ELSE last
    /\ UNCHANGED <<last, exhausted, fence, conts, boxVars>>

-----------------------------------------------------------------------------
(* processMessageQueue.                                                    *)

(* Mutant: the stop fence is not consulted.                                *)
PumpPrefix_NoFence(p) ==
    /\ IF ~Promptable \/ exhausted \/ Processing # {} \/ {m \in Messages : msg[m] = "pending"} = {}
       THEN held' = [held EXCEPT ![p] = NoMsg]
       ELSE \E m \in Messages : IsHead(m) /\ held' = [held EXCEPT ![p] = m]
    /\ UNCHANGED <<resumes, boxVars>>

(* Its synchronous prefix, up to the provider-auth lookup: stop at a       *)
(* closed session, an unconfirmed stop (recovering it when it is overdue), *)
(* an exhausted budget, a prompt at work or an empty queue; otherwise hold *)
(* the oldest pending prompt across the lookup.                            *)
PumpPrefix(p) ==
    \/ /\ ~Promptable
       /\ held' = [held EXCEPT ![p] = NoMsg]
       /\ UNCHANGED <<resumes, boxVars>>
    \/ /\ Promptable
       /\ \E m \in awaiting :
             IF m \in due
             THEN Terminate /\ resumes' = Bump(resumes, MaxResumes)
             ELSE UNCHANGED <<resumes, boxVars>>
       /\ held' = [held EXCEPT ![p] = NoMsg]
    \/ /\ Promptable /\ awaiting = {}
       /\ IF exhausted \/ Processing # {} \/ {m \in Messages : msg[m] = "pending"} = {}
          THEN held' = [held EXCEPT ![p] = NoMsg]
          ELSE \E m \in Messages : IsHead(m) /\ held' = [held EXCEPT ![p] = m]
       /\ UNCHANGED <<resumes, boxVars>>

PumpBegin(p) ==
    /\ kicks > 0 /\ held[p] = NoMsg
    /\ kicks' = kicks - 1
    /\ PumpPrefix(p)
    /\ UNCHANGED <<rows, session, exhausted, fence, delivering, settling, closing, alarm>>

(* After the lookup only the budget is read again before the branches.     *)
PumpExhausted(p) ==
    /\ held[p] # NoMsg /\ exhausted
    /\ held' = [held EXCEPT ![p] = NoMsg]
    /\ UNCHANGED <<rows, session, exhausted, fence, kicks, resumes, delivering, settling,
                   closing, alarm, boxVars>>

(* Mutant: the next prompt is left to somebody else.                       *)
PumpAuthFails_NoPump(p) ==
    /\ held[p] # NoMsg /\ ~exhausted
    /\ held' = [held EXCEPT ![p] = NoMsg]
    /\ IF msg[held[p]] = "pending"
       THEN Finish(held[p], "failed") /\ Reconcile(FALSE)
       ELSE UNCHANGED <<rows, session>>
    /\ UNCHANGED <<exhausted, fence, kicks, resumes, delivering, settling, closing, alarm, boxVars>>

(* No credentials: fail the prompt if it is still pending, then pump again *)
(* once the status is projected.                                           *)
PumpAuthFails(p) ==
    /\ held[p] # NoMsg /\ ~exhausted
    /\ held' = [held EXCEPT ![p] = NoMsg]
    /\ IF msg[held[p]] = "pending"
       THEN Finish(held[p], "failed") /\ Reconcile(FALSE) /\ Kick
       ELSE UNCHANGED <<rows, session, kicks>>
    /\ UNCHANGED <<exhausted, fence, resumes, delivering, settling, closing, alarm, boxVars>>

(* The lookup fails hard, on the secrets or the database: the pump throws, *)
(* and its prompt stays where it is.                                       *)
PumpLookupFails(p) ==
    /\ CallFailures
    /\ held[p] # NoMsg
    /\ held' = [held EXCEPT ![p] = NoMsg]
    /\ UNCHANGED <<rows, session, exhausted, fence, kicks, resumes, delivering, settling,
                   closing, alarm, boxVars>>

(* spawnSandbox may start a sandbox, skip, or wait (breaker, cooldown, a   *)
(* spawn in progress), which the lifecycle manager decides.                *)
SpawnSandbox ==
    \/ UNCHANGED boxVars
    \/ /\ box \in {"down", "failed"} \/ (box = "up" /\ ~sock)
       /\ box' = "starting"
       /\ LoseSandbox

(* No socket: spawn for a prompt that is still dispatchable, or run the    *)
(* prefix again over the state that moved.                                 *)
PumpWithoutSocket(p) ==
    /\ held[p] # NoMsg /\ ~exhausted /\ ~Connected
    /\ IF Promptable /\ msg[held[p]] = "pending"
       THEN /\ SpawnSandbox
            /\ held' = [held EXCEPT ![p] = NoMsg]
            /\ UNCHANGED resumes
       ELSE PumpPrefix(p)
    /\ UNCHANGED <<rows, session, exhausted, fence, kicks, delivering, settling, closing, alarm>>

(* startMessageProcessing: pending, and nothing else processing.           *)
CanClaim(m) == msg[m] = "pending" /\ Processing = {}

(* Mutant: the budget is not read again after the lookup.                  *)
PumpSends_NoBudget(p) ==
    /\ held[p] # NoMsg /\ Connected
    /\ CanClaim(held[p])
    /\ Len(inbox) < MaxInbox
    /\ msg' = [msg EXCEPT ![held[p]] = "processing"]
    /\ inbox' = Append(inbox, held[p])
    /\ held' = [held EXCEPT ![p] = NoMsg]
    /\ UNCHANGED <<last, session, exhausted, fence, kicks, resumes, delivering, settling,
                   closing, alarm, box, sock, tasks, cur, outbox>>

(* A socket: claim the prompt and send it.                                 *)
PumpSends(p) ==
    /\ held[p] # NoMsg /\ ~exhausted /\ Connected
    /\ CanClaim(held[p])
    /\ Len(inbox) < MaxInbox
    /\ msg' = [msg EXCEPT ![held[p]] = "processing"]
    /\ inbox' = Append(inbox, held[p])
    /\ held' = [held EXCEPT ![p] = NoMsg]
    /\ UNCHANGED <<last, session, exhausted, fence, kicks, resumes, delivering,
                   settling, closing, alarm, box, sock, tasks, cur, outbox>>

(* The claim succeeds but the send does not: back to pending in the same   *)
(* turn, and the sandbox is terminated.                                    *)
PumpSendFails(p) ==
    /\ held[p] # NoMsg /\ ~exhausted /\ Connected
    /\ CanClaim(held[p])
    /\ Terminate
    /\ resumes' = Bump(resumes, MaxResumes)
    /\ held' = [held EXCEPT ![p] = NoMsg]
    /\ UNCHANGED <<rows, session, exhausted, fence, kicks, delivering, settling, closing, alarm>>

(* The claim is lost: the pump ends without looking at the queue again.    *)
PumpLosesClaim(p) ==
    /\ held[p] # NoMsg /\ ~exhausted /\ Connected
    /\ ~CanClaim(held[p])
    /\ held' = [held EXCEPT ![p] = NoMsg]
    /\ UNCHANGED <<rows, session, exhausted, fence, kicks, resumes, delivering, settling,
                   closing, alarm, boxVars>>

Pump(p) == \/ PumpBegin(p) \/ PumpExhausted(p) \/ PumpAuthFails(p) \/ PumpLookupFails(p)
           \/ PumpWithoutSocket(p) \/ PumpSends(p) \/ PumpSendFails(p) \/ PumpLosesClaim(p)

-----------------------------------------------------------------------------
(* Stopping and the budget.                                                *)

(* A client's stop command.                                                *)
StopExecution ==
    /\ \E m \in Processing : StopPrompt(m, {}) /\ UNCHANGED outbox
    /\ UNCHANGED <<exhausted, kicks, held, resumes, settling, closing, alarm>>

(* The total reaches the limit, by a step_finish report or a lower limit.  *)
ExhaustBudget ==
    /\ ~exhausted
    /\ exhausted' = TRUE
    /\ IF Processing = {}
       THEN UNCHANGED <<rows, session, fence, delivering, boxVars>>
       ELSE \E m \in Processing : StopPrompt(m, {}) /\ UNCHANGED outbox
    /\ UNCHANGED <<kicks, held, resumes, settling, closing, alarm>>

(* updateLimit to a value above the total, or to none.                     *)
RaiseLimit ==
    /\ exhausted
    /\ exhausted' = FALSE
    /\ Kick
    /\ UNCHANGED <<rows, session, fence, held, resumes, delivering, settling, closing, alarm,
                   boxVars>>

(* deliver, after its awaits: give up on the sandbox only if this stop is  *)
(* still unconfirmed.  A message is fenced at most once, so its id tells   *)
(* one stop from another.                                                  *)
StopUndelivered(m) ==
    /\ m \in delivering
    /\ delivering' = delivering \ {m}
    /\ IF m \in awaiting
       THEN Terminate /\ resumes' = Bump(resumes, MaxResumes)
       ELSE UNCHANGED <<resumes, boxVars>>
    /\ UNCHANGED <<rows, session, exhausted, fence, kicks, held, settling, closing, alarm>>

(* Fifteen seconds pass without a confirmation.                            *)
StopDeadlinePasses ==
    /\ awaiting \ due # {}
    /\ due' = awaiting
    /\ UNCHANGED <<rows, session, exhausted, awaiting, conts, boxVars>>

(* resumeAfterSandboxTermination: clear whichever fence is set, then pump. *)
ReleaseFence ==
    IF awaiting = {} THEN UNCHANGED fence
    ELSE \E m \in awaiting : awaiting' = awaiting \ {m} /\ due' = due \ {m}

ResumeAfterTermination ==
    /\ resumes > 0
    /\ resumes' = resumes - 1
    /\ ReleaseFence
    /\ Kick
    /\ box' = IF box = "ending" THEN "failed" ELSE box
    /\ UNCHANGED <<rows, session, exhausted, held, delivering, settling, closing, alarm,
                   sock, inbox, tasks, cur, outbox>>

-----------------------------------------------------------------------------
(* Completion.                                                             *)

(* Mutant: the event ends its prompt in whatever state that is.            *)
Complete_AnyState(m, outcome) ==
    /\ sock /\ m \in outbox
    /\ outbox' \in {outbox, outbox \ {m}}
    /\ Finish(m, outcome)
    /\ settling' = settling \cup {m}
    /\ UNCHANGED <<session, exhausted, fence, kicks, held, resumes, delivering, closing, alarm,
                   box, sock, inbox, tasks, cur>>

(* handleExecutionComplete up to its first await, for an event the active  *)
(* socket delivers.  It ends the prompt if it is still processing, and     *)
(* otherwise only confirms its stop, arms the inactivity check and pumps.  *)
(* Its cost may reach the limit, which stops the prompt at work by then.   *)
(* An event not acknowledged is resent.                                    *)
Complete(m, outcome) ==
    /\ sock /\ m \in outbox
    /\ outbox' \in {outbox, outbox \ {m}}
    /\ exhausted' \in {exhausted, TRUE}
    /\ \/ /\ msg[m] = "processing"
          /\ Finish(m, outcome)
          /\ settling' = settling \cup {m}
          /\ UNCHANGED <<session, fence, kicks, delivering, box, sock, inbox, tasks, cur>>
       \/ /\ msg[m] # "processing"
          /\ KickIfArmed
          /\ UNCHANGED settling
          /\ IF exhausted' # exhausted /\ Processing # {}
             THEN \E n \in Processing : StopPrompt(n, {m})
             ELSE /\ awaiting' = awaiting \ {m} /\ due' = due \ {m}
                  /\ UNCHANGED <<rows, session, delivering, box, sock, inbox, tasks, cur>>
    /\ UNCHANGED <<held, resumes, closing, alarm>>

(* The rest of it, after the terminal projection: reconcile with the       *)
(* outcome this event carried, arm the inactivity check, then pump.        *)
Settle(m) ==
    /\ m \in settling
    /\ settling' = settling \ {m}
    /\ UNCHANGED rows /\ Reconcile(msg[m] = "completed")
    /\ KickIfArmed
    /\ UNCHANGED <<exhausted, fence, held, resumes, delivering, closing, alarm, boxVars>>

-----------------------------------------------------------------------------
(* The session's own lifecycle.                                            *)

Archive ==
    /\ session # "cancelled" /\ Queue = {}
    /\ session' = "archived"
    /\ UNCHANGED <<rows, exhausted, fence, conts, boxVars>>

(* settleFromMessageState.                                                 *)
Unarchive ==
    /\ session = "archived"
    /\ session' = IF Queue # {} THEN "active" ELSE last
    /\ UNCHANGED <<rows, exhausted, fence, conts, boxVars>>

(* The draft sweep: archive an empty draft, settle one that has rows.      *)
ExpireDraft ==
    /\ session = "created"
    /\ session' = IF Rows = {} THEN "archived" ELSE IF Queue # {} THEN "active" ELSE last
    /\ UNCHANGED <<rows, exhausted, fence, conts, boxVars>>

(* SessionStatusService.cancel with cancelExecution: close the session and *)
(* fail everything unfinished in one turn, then ask the bridge to stop.    *)
CancelSession ==
    /\ session \in {"created", "active"}
    /\ session' = "cancelled"
    /\ msg' = [m \in Messages |-> IF m \in Queue THEN "failed" ELSE msg[m]]
    /\ last' = IF Queue # {} THEN "failed" ELSE last
    /\ inbox' = IF Connected /\ Len(inbox) < MaxInbox THEN Append(inbox, StopCmd) ELSE inbox
    /\ closing' = TRUE
    /\ UNCHANGED <<exhausted, fence, kicks, held, resumes, delivering, settling, alarm,
                   box, sock, tasks, cur, outbox>>

(* The cancel route, once the status is projected.                         *)
CancelSandbox ==
    /\ closing
    /\ closing' = FALSE
    /\ box' = IF box \in {"failed", "ending"} THEN box ELSE "down"
    /\ UNCHANGED <<rows, session, exhausted, fence, kicks, held, resumes, delivering, settling,
                   alarm, sock, inbox, tasks, cur, outbox>>

-----------------------------------------------------------------------------
(* The alarm handler, stage by stage; each stage ends at an await.         *)

ToStage(s) == alarm' = s

(* recoverStopConfirmationTimeout.                                         *)
AlarmFires ==
    /\ alarm = "idle"
    /\ due # {} \/ Processing # {} \/ box \in {"starting", "up"}
    /\ IF due # {}
       THEN ToStage("recovering") /\ Terminate
       ELSE ToStage("timeout") /\ UNCHANGED boxVars
    /\ UNCHANGED <<rows, session, exhausted, fence, kicks, held, resumes, delivering, settling,
                   closing>>

(* Mutant: the sandbox is terminated and its fence stays.                  *)
AlarmRecovers_KeepsFence ==
    /\ alarm = "recovering" /\ ToStage("timeout")
    /\ Kick
    /\ UNCHANGED <<rows, session, exhausted, fence, held, resumes, delivering, settling, closing,
                   boxVars>>

AlarmRecovers ==
    /\ alarm = "recovering" /\ ToStage("timeout")
    /\ ReleaseFence /\ Kick
    /\ UNCHANGED <<rows, session, exhausted, held, resumes, delivering, settling, closing, boxVars>>

(* Mutant: a timed out prompt is logged and kept.                          *)
ExecutionTimesOut_Kept ==
    /\ ExecutionTimeouts
    /\ alarm = "timeout" /\ ToStage("lifecycle")
    /\ UNCHANGED <<rows, session, exhausted, fence, kicks, held, resumes, delivering, settling,
                   closing, boxVars>>

(* The execution timeout fails the prompt at work and nothing more.        *)
ExecutionTimesOut ==
    /\ ExecutionTimeouts
    /\ alarm = "timeout" /\ ToStage("lifecycle")
    /\ FailStuck
    /\ UNCHANGED <<exhausted, fence, kicks, held, resumes, delivering, settling, closing, boxVars>>

NothingTimesOut ==
    /\ alarm = "timeout" /\ ToStage("lifecycle")
    /\ UNCHANGED <<rows, session, exhausted, fence, kicks, held, resumes, delivering, settling,
                   closing, boxVars>>

(* handleAlarm of the lifecycle manager: nothing to do, or a sandbox that  *)
(* never connected, or one that went stale or idle.  The last one's socket *)
(* is detached only after the snapshot and the provider stop.              *)
SandboxChecked ==
    /\ alarm = "lifecycle"
    /\ \/ ToStage("idle") /\ UNCHANGED box
       \/ SandboxFaults /\ box = "starting" /\ box' = "failed" /\ ToStage("giveup")
       \/ SandboxFaults /\ box = "up" /\ box' = "down" /\ ToStage("terminating")
    /\ UNCHANGED <<rows, session, exhausted, fence, kicks, held, resumes, delivering, settling,
                   closing, sock, inbox, tasks, cur, outbox>>

(* sandbox_failed: after the provider stop, fail the prompt at work.       *)
SandboxGivenUp ==
    /\ alarm = "giveup" /\ ToStage("idle")
    /\ FailStuck
    /\ UNCHANGED <<exhausted, fence, kicks, held, resumes, delivering, settling, closing, boxVars>>

(* sandbox_terminated: detach every socket and fail the prompt at work,    *)
(* whichever they are by now.                                              *)
SandboxTerminated ==
    /\ alarm = "terminating" /\ ToStage("resume")
    /\ sock' = FALSE /\ inbox' = <<>>
    /\ FailStuck
    /\ UNCHANGED <<exhausted, fence, kicks, held, resumes, delivering, settling, closing,
                   box, tasks, cur, outbox>>

AlarmResumes ==
    /\ alarm = "resume" /\ ToStage("idle")
    /\ ReleaseFence /\ Kick
    /\ UNCHANGED <<rows, session, exhausted, held, resumes, delivering, settling, closing, boxVars>>

(* An alarm write before the sandbox is looked at, or the pump of a stop   *)
(* that was recovered, throws: the delivery ends there and is retried.     *)
AlarmThrows ==
    /\ CallFailures
    /\ alarm \in {"timeout", "lifecycle"} /\ ToStage("idle")
    /\ UNCHANGED <<rows, session, exhausted, fence, kicks, held, resumes, delivering, settling,
                   closing, boxVars>>

Alarm == \/ AlarmFires \/ AlarmRecovers \/ ExecutionTimesOut \/ NothingTimesOut \/ AlarmThrows
         \/ SandboxChecked \/ SandboxGivenUp \/ SandboxTerminated \/ AlarmResumes

-----------------------------------------------------------------------------
(* The sandbox and its bridge, as far as the queue sees them.              *)

(* handleTyping.                                                           *)
Warm ==
    /\ ~Connected /\ SpawnSandbox
    /\ UNCHANGED <<rows, session, exhausted, fence, conts>>

SpawnFails ==
    /\ box = "starting" /\ box' = "failed"
    /\ UNCHANGED <<rows, session, exhausted, fence, conts, sock, inbox, tasks, cur, outbox>>

(* attachSandbox: a first connection, a reconnection, or a failed sandbox  *)
(* that comes up after all.  Commands in flight on the old socket are lost.*)
Connect ==
    /\ Promptable
    /\ box \in {"starting", "failed", "ending"} \/ (box = "up" /\ ~sock)
    /\ box' = "up" /\ sock' = TRUE /\ inbox' = <<>>
    /\ Kick
    /\ UNCHANGED <<rows, session, exhausted, fence, held, resumes, delivering, settling, closing,
                   alarm, tasks, cur, outbox>>

(* The socket closes; the bridge lives on, or loses its tasks with it.     *)
Disconnect ==
    /\ sock
    /\ sock' = FALSE /\ inbox' = <<>>
    /\ \/ UNCHANGED <<tasks, cur, outbox>>
       \/ SandboxFaults /\ tasks' = {} /\ cur' = NoMsg /\ outbox' = {}
    /\ UNCHANGED <<rows, session, exhausted, fence, conts, box>>

(* handleFatalSandboxFailure: revoke the sandbox and fail its prompt; the  *)
(* pump comes after the provider stop, unless one is already in progress.  *)
FatalFailure ==
    /\ SandboxFaults /\ sock
    /\ IF box \in {"down", "ending"} THEN UNCHANGED <<box, sock, inbox, resumes>>
       ELSE /\ box' = "ending" /\ sock' = FALSE /\ inbox' = <<>>
            /\ resumes' = Bump(resumes, MaxResumes)
    /\ FailStuck
    /\ UNCHANGED <<exhausted, fence, kicks, held, delivering, settling, closing, alarm,
                   tasks, cur, outbox>>

(* _handle_command in bridge.py: a prompt becomes a task of its own; a     *)
(* stop cancels the current task, whose cancellation is reported.          *)
BridgeReads ==
    /\ inbox # <<>>
    /\ inbox' = Tail(inbox)
    /\ LET c == Head(inbox) IN
         IF c = StopCmd
         THEN /\ tasks' = tasks \ {cur} /\ cur' = NoMsg
              /\ outbox' = outbox \cup ({cur} \ {NoMsg})
         ELSE /\ tasks' = tasks \cup {c} /\ cur' = c /\ UNCHANGED outbox
    /\ UNCHANGED <<rows, session, exhausted, fence, conts, box, sock>>

(* A turn ends: its task is done and execution_complete is queued.         *)
BridgeFinishes(m) ==
    /\ m \in tasks
    /\ tasks' = tasks \ {m} /\ outbox' = outbox \cup {m}
    /\ cur' = IF cur = m THEN NoMsg ELSE cur
    /\ UNCHANGED <<rows, session, exhausted, fence, conts, box, sock, inbox>>

(* The Durable Object is evicted: every continuation is lost, the rows,    *)
(* the alarm and (hibernation) possibly the socket survive.                *)
Restart ==
    /\ Restarts
    /\ kicks' = 0 /\ held' = [p \in Pumps |-> NoMsg] /\ resumes' = 0
    /\ delivering' = {} /\ settling' = {} /\ closing' = FALSE /\ alarm' = "idle"
    /\ box' = IF box = "ending" THEN "failed" ELSE box
    /\ sock' \in {sock, FALSE}
    /\ inbox' = IF sock' THEN inbox ELSE <<>>
    /\ UNCHANGED <<rows, session, exhausted, fence, tasks, cur, outbox>>

-----------------------------------------------------------------------------
Init ==
    /\ msg = [m \in Messages |-> "absent"] /\ last = "created"
    /\ session = "created" /\ exhausted = FALSE
    /\ awaiting = {} /\ due = {}
    /\ kicks = 0 /\ held = [p \in Pumps |-> NoMsg] /\ resumes = 0
    /\ delivering = {} /\ settling = {} /\ closing = FALSE /\ alarm = "idle"
    /\ box = "down" /\ sock = FALSE /\ inbox = <<>>
    /\ tasks = {} /\ cur = NoMsg /\ outbox = {}

Stop     == StopExecution \/ ExhaustBudget \/ RaiseLimit \/ StopDeadlinePasses
            \/ ResumeAfterTermination \/ \E m \in Messages : StopUndelivered(m)
Client   == Enqueue \/ \E m \in Messages : Resubmit(m) \/ Withdraw(m)
Closing  == Archive \/ Unarchive \/ ExpireDraft \/ CancelSession \/ CancelSandbox
Sandbox  == \/ Warm \/ SpawnFails \/ Connect \/ Disconnect \/ FatalFailure \/ BridgeReads
            \/ \E m \in Messages : BridgeFinishes(m)
Finishing == \E m \in Messages : Settle(m) \/ \E outcome \in Finished : Complete(m, outcome)

Next == \/ Client \/ \E p \in Pumps : Pump(p)
        \/ Stop \/ Finishing \/ Closing \/ Alarm \/ Sandbox \/ Restart

Spec == Init /\ [][Next]_vars

(* What recovery relies on: time passes, the persisted alarm fires and its *)
(* handler comes back from each await (provider calls time out), and one   *)
(* alarm gets to what it is for: to the release of a stop that was not     *)
(* confirmed, or to a prompt that has timed out.  Any number may be cut    *)
(* short by a restart or a refused call, or come too early, before; hence  *)
(* strong fairness.  Nothing is assumed of clients, pumps, sandbox or      *)
(* network.                                                                *)
Fairness ==
    /\ WF_vars(StopDeadlinePasses) /\ WF_vars(Alarm)
    /\ SF_vars(AlarmRecovers \/ ExecutionTimesOut)

FairSpec == Spec /\ Fairness

-----------------------------------------------------------------------------
(* Properties.                                                             *)

(* Every variable ranges over what the code can store in it.               *)
RowsOK ==
    /\ msg \in [Messages -> MsgStatus]
    /\ last \in Finished \cup {"created"}
    /\ session \in SessionStatus

FenceOK == awaiting \in SUBSET Messages /\ due \in SUBSET awaiting

ContsOK ==
    /\ kicks \in 0..MaxKicks /\ resumes \in 0..MaxResumes
    /\ held \in [Pumps -> 0..MaxMsg]
    /\ delivering \in SUBSET Messages /\ settling \in SUBSET Messages
    /\ alarm \in AlarmStage

BoxOK ==
    /\ box \in {"down", "failed", "ending", "starting", "up"}
    /\ inbox \in Seq(0..MaxMsg)
    /\ tasks \in SUBSET Messages /\ cur \in 0..MaxMsg /\ outbox \in SUBSET Messages

FlagsOK == exhausted \in BOOLEAN /\ closing \in BOOLEAN /\ sock \in BOOLEAN

(* And a deadline that has passed is that of a stop still unconfirmed.     *)
TypeOK == RowsOK /\ FenceOK /\ ContsOK /\ BoxOK /\ FlagsOK

(* At most one prompt is executing or waiting for its stop to be confirmed *)
(* as far as the session knows: no prompt is started past a stop fence,    *)
(* however pumps, stops, completions and terminations interleave.          *)
OneAtATime == \A m, n \in Processing \cup awaiting : m = n

(* A stop fence belongs to a prompt that has been failed.                  *)
FencedFailed == \A m \in awaiting : msg[m] = "failed"

(* Ids are given out in queue order (created_at, then rowid).              *)
InsertedInOrder == \A m, n \in Messages : n < m /\ msg[n] = "absent" => msg[m] = "absent"

(* A pump comes back from the provider-auth lookup without reading the     *)
(* stop fence or the queue again.  If its prompt is still pending, it is   *)
(* still the oldest, no stop is unconfirmed and nothing is at work.        *)
HeldPromptSafe ==
    \A p \in Pumps : held[p] # NoMsg /\ msg[held[p]] = "pending" =>
        IsHead(held[p]) /\ Processing = {} /\ awaiting = {}

(* A session with unfinished prompts is active: never a draft, never       *)
(* settled, and never closed by an archive or a cancel.                    *)
SessionTellsWork == Queue # {} => session = "active"

(* A draft has no messages at all, so the sweep that archives drafts       *)
(* never archives a conversation (http/handlers/session-lifecycle).        *)
DraftIsEmpty == session = "created" => Rows = {}

(* `last` is "created" exactly as long as nothing has finished.            *)
LastTellsFinished == last = "created" => \A m \in Messages : msg[m] \notin Finished

(* A pump holds prompts that were inserted.                                *)
HeldInserted == \A p \in Pumps : held[p] # NoMsg => msg[held[p]] # "absent"

(* The inductive invariant: what TLC checks of the state, and the facts    *)
(* its preservation needs (FencedFailed, InsertedInOrder, HeldInserted and *)
(* LastTellsFinished).                                                     *)
QueueInv == /\ OneAtATime /\ FencedFailed /\ InsertedInOrder
            /\ HeldInserted /\ HeldPromptSafe /\ SessionTellsWork /\ DraftIsEmpty /\ LastTellsFinished

IInv == TypeOK /\ QueueInv

(* A prompt starts only if it is the oldest pending one, in a session that *)
(* is open and within budget, with no other at work and no stop pending.   *)
CleanDispatch ==
    [][\A m \in Messages : msg[m] = "pending" /\ msg'[m] = "processing" =>
          /\ IsHead(m) /\ Processing = {} /\ awaiting = {}
          /\ Promptable /\ ~exhausted]_vars

(* A finished prompt keeps its first outcome: a late execution_complete, a *)
(* second stop, a timeout or a cancel never rewrites or reopens it.        *)
OutcomeIsFinal ==
    [][\A m \in Messages : msg[m] \in Finished \cup {"withdrawn"} => msg'[m] = msg[m]]_vars

(* The queue as its users see it.                                          *)
Phase == [m \in Messages |->
            IF m \in awaiting THEN "draining"
            ELSE IF msg[m] = "absent" THEN "absent"
            ELSE IF msg[m] = "pending" THEN "waiting"
            ELSE IF msg[m] = "processing" THEN "running" ELSE "over"]

SQ == INSTANCE SerialQueue WITH Prompts <- Messages, phase <- Phase

(* The code's queue is a serial queue: each handler step is one of its     *)
(* operations or invisible to it.                                          *)
ImplementsSerialQueue == SQ!Spec

(* A caller or a suspended handler that pumps the queue without anything   *)
(* new happening.  A pump whose prompt is gone by now does not: it may end *)
(* without looking at the queue again.                                     *)
SomeoneWillPump ==
    \/ kicks > 0 \/ resumes > 0 \/ settling # {}
    \/ \E p \in Pumps : held[p] # NoMsg /\ msg[held[p]] = "pending"

(* A pending prompt that nothing keeps from being sent.                    *)
Sendable ==
    /\ Promptable /\ ~exhausted /\ Connected /\ Processing = {} /\ awaiting = {}
    /\ \E m \in Messages : msg[m] = "pending"

(* A prompt that could be sent is never left to wait for the next client   *)
(* command: whoever made it sendable pumps the queue.  It breaks as soon   *)
(* as one of Withdrawals, ExecutionTimeouts, SandboxFaults, Restarts and   *)
(* CallFailures is allowed.                                                *)
NothingStranded == Sendable => SomeoneWillPump

(* Every stop is settled: its fence falls by a confirmation, by its        *)
(* deadline or by the loss of the sandbox, and the queue goes on.          *)
StopSettles == \A m \in Messages : (m \in awaiting) ~> (m \notin awaiting)

(* No prompt stays in processing forever, whatever became of its sandbox.  *)
ProcessingEnds == \A m \in Messages : (msg[m] = "processing") ~> (msg[m] # "processing")

=============================================================================
