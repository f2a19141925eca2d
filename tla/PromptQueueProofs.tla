------------------------- MODULE PromptQueueProofs -------------------------
(***************************************************************************)
(* The inductive invariant of PromptQueue and its proof, for any number of *)
(* prompts, pumps, callers and commands in flight, and for every choice of *)
(* the faults.                                                             *)
(*                                                                         *)
(* The heart is HeldPromptSafe.  A pump reads the stop fence and the queue *)
(* before an await and never again; it is safe because a fence needs a     *)
(* prompt at work, a prompt at work needs a pump that holds the head, and  *)
(* two pumps that hold a pending head hold the same one.                   *)
(***************************************************************************)
EXTENDS PromptQueue, SequenceTheorems, TLAPS

-----------------------------------------------------------------------------
(* Typing.                                                                 *)

(* A sandbox that is lost leaves well-typed wires.                         *)
LEMMA LoseTyped ==
    ASSUME BoxOK, LoseSandbox, box' \in {"down", "failed", "ending", "starting", "up"}
    PROVE  BoxOK'
  BY EmptySeq, BoundsAssumption DEF LoseSandbox, BoxOK, NoMsg

(* So does terminateUnresponsiveSandbox.                                   *)
LEMMA TerminateTyped ==
    ASSUME BoxOK, FlagsOK, Terminate
    PROVE  BoxOK' /\ sock' \in BOOLEAN
  <1>1. CASE box \in {"starting", "up"}
    BY <1>1, LoseTyped DEF Terminate, LoseSandbox
  <1>2. CASE UNCHANGED boxVars
    BY <1>2 DEF boxVars, BoxOK, FlagsOK
  <1> QED
    BY <1>1, <1>2 DEF Terminate

(* So does a spawn, whatever it decides.                                   *)
LEMMA SpawnTyped ==
    ASSUME BoxOK, FlagsOK, SpawnSandbox
    PROVE  BoxOK' /\ sock' \in BOOLEAN
  <1>1. CASE UNCHANGED boxVars
    BY <1>1 DEF boxVars, BoxOK, FlagsOK
  <1> QED
    BY <1>1, LoseTyped DEF SpawnSandbox, LoseSandbox

(* A command put on the wire is a stop or a prompt.                        *)
LEMMA SendTyped ==
    ASSUME BoxOK, NEW c \in 0..MaxMsg, inbox' \in {inbox, Append(inbox, c)},
           UNCHANGED <<box, tasks, cur>>, outbox' \in SUBSET Messages
    PROVE  BoxOK'
  <1>1. Append(inbox, c) \in Seq(0..MaxMsg)
    BY DEF BoxOK
  <1>2. inbox' \in Seq(0..MaxMsg)
    BY <1>1 DEF BoxOK
  <1> QED
    BY <1>2 DEF BoxOK

(* The bridge reads a stop or a prompt, and reports prompts.               *)
LEMMA ReadTyped == 
    ASSUME BoxOK, BridgeReads
    PROVE  BoxOK'
  <1>1. inbox' \in Seq(0..MaxMsg) /\ Head(inbox) \in 0..MaxMsg
    BY HeadTailProperties DEF BoxOK, BridgeReads
  <1>2. CASE Head(inbox) = StopCmd
    <2>1. cur = NoMsg \/ cur \in Messages
      BY BoundsAssumption DEF BoxOK, NoMsg, Messages
    <2> QED
      BY <1>1, <1>2, <2>1, BoundsAssumption DEF BridgeReads, BoxOK, NoMsg
  <1>3. CASE Head(inbox) # StopCmd
    <2>1. Head(inbox) \in Messages
      BY <1>1, <1>3, BoundsAssumption DEF StopCmd, Messages
    <2> QED
      BY <1>1, <1>3, <2>1, BoundsAssumption DEF BridgeReads, BoxOK
  <1> QED
    BY <1>2, <1>3

(* Reconciliation yields a status of a session.                            *)
LEMMA ReconcileTyped ==
    ASSUME RowsOK, NEW success \in BOOLEAN, Reconcile(success)
    PROVE  session' \in SessionStatus
  BY DEF RowsOK, Reconcile, SessionStatus

(* Completing a message keeps the message table typed.                     *)
LEMMA FinishTyped ==
    ASSUME RowsOK, NEW m \in Messages, NEW outcome \in Finished, Finish(m, outcome),
           session' \in SessionStatus
    PROVE  RowsOK'
  BY DEF RowsOK, Finish, MsgStatus, Finished

(* So does failing the prompt at work.                                     *)
LEMMA StuckTyped ==
    ASSUME RowsOK, FailStuck
    PROVE  RowsOK'
  <1>1. CASE Processing = {}
    BY <1>1 DEF FailStuck, RowsOK, rows
  <1>2. CASE Processing # {}
    BY <1>2, FinishTyped, ReconcileTyped DEF FailStuck, Processing, Finished
  <1> QED
    BY <1>1, <1>2

(* Releasing the fence keeps the passed deadlines among the fences.        *)
LEMMA ReleaseTyped ==
    ASSUME FenceOK, ReleaseFence
    PROVE  FenceOK'
  BY DEF FenceOK, ReleaseFence, fence

(* Stopping a prompt keeps every variable it writes typed.                 *)
LEMMA StopTyped ==
    ASSUME TypeOK, NEW m \in Messages, NEW released, StopPrompt(m, released),
           outbox' \in SUBSET Messages
    PROVE  RowsOK' /\ FenceOK' /\ BoxOK' /\ delivering' \in SUBSET Messages
  <1>1. RowsOK'
    BY FinishTyped, ReconcileTyped DEF TypeOK, StopPrompt, Finished
  <1>2. FenceOK' /\ delivering' \in SUBSET Messages
    BY DEF TypeOK, StopPrompt, FenceOK, ContsOK
  <1>3. BoxOK'
    <2>1. StopCmd \in 0..MaxMsg
      BY BoundsAssumption DEF StopCmd
    <2> QED
      BY <2>1, SendTyped DEF TypeOK, StopPrompt
  <1> QED
    BY <1>1, <1>2, <1>3

(* So does the synchronous prefix of processMessageQueue.                  *)
LEMMA PrefixTyped ==
    ASSUME TypeOK, NEW p \in Pumps, PumpPrefix(p)
    PROVE  /\ BoxOK' /\ sock' \in BOOLEAN
           /\ held' \in [Pumps -> 0..MaxMsg] /\ resumes' \in 0..MaxResumes
  <1>1. BoxOK' /\ sock' \in BOOLEAN
    BY TerminateTyped DEF TypeOK, PumpPrefix, BoxOK, FlagsOK, boxVars
  <1>2. held' \in [Pumps -> 0..MaxMsg]
    BY BoundsAssumption DEF TypeOK, ContsOK, PumpPrefix, IsHead, Messages, NoMsg
  <1>3. resumes' \in 0..MaxResumes
    BY BoundsAssumption DEF TypeOK, ContsOK, PumpPrefix, Bump
  <1> QED
    BY <1>1, <1>2, <1>3

(* Every step preserves the type invariant.                                *)
LEMMA StepTyped ==
    ASSUME TypeOK, [Next]_vars
    PROVE  TypeOK'
  <1> USE DEF TypeOK, ContsOK, FlagsOK, rows, fence, conts, boxVars
  <1>1. Bump(kicks, MaxKicks) \in 0..MaxKicks
    BY BoundsAssumption DEF Bump
  <1>2. Bump(resumes, MaxResumes) \in 0..MaxResumes
    BY BoundsAssumption DEF Bump
  <1>3. NoMsg \in 0..MaxMsg
    BY BoundsAssumption DEF NoMsg
  <1>4. <<>> \in Seq(0..MaxMsg)
    BY EmptySeq
  <1>5. CASE Enqueue
    BY <1>5, <1>1 DEF Enqueue, RowsOK, MsgStatus, Unfinished, SessionStatus, Kick, FenceOK, BoxOK
  <1>6. ASSUME NEW m \in Messages, Resubmit(m) PROVE TypeOK'
    BY <1>6, <1>1 DEF Resubmit, RowsOK, SessionStatus, Kick, FenceOK, BoxOK
  <1>7. ASSUME NEW m \in Messages, Withdraw(m) PROVE TypeOK'
    BY <1>7 DEF Withdraw, RowsOK, MsgStatus, SessionStatus, Finished, FenceOK, BoxOK
  <1>8. ASSUME NEW p \in Pumps, PumpBegin(p) PROVE TypeOK'
    <2>1. kicks' \in 0..MaxKicks
      BY <1>8, BoundsAssumption DEF PumpBegin
    <2> QED
      BY <1>8, <2>1, PrefixTyped DEF PumpBegin, RowsOK, FenceOK
  <1>9. ASSUME NEW p \in Pumps, PumpExhausted(p) PROVE TypeOK'
    BY <1>9, <1>3 DEF PumpExhausted, RowsOK, FenceOK, BoxOK
  <1>45. ASSUME NEW p \in Pumps, PumpLookupFails(p) PROVE TypeOK'
    BY <1>45, <1>3 DEF PumpLookupFails, RowsOK, FenceOK, BoxOK
  <1>10. ASSUME NEW p \in Pumps, PumpAuthFails(p) PROVE TypeOK'
    <2>1. RowsOK'
      <3>1. CASE msg[held[p]] = "pending"
        <4>1. held[p] \in Messages
          BY <1>10, BoundsAssumption DEF PumpAuthFails, NoMsg, Messages
        <4> QED
          BY <1>10, <3>1, <4>1, FinishTyped, ReconcileTyped DEF PumpAuthFails, Finished
      <3>2. CASE msg[held[p]] # "pending"
        BY <1>10, <3>2 DEF PumpAuthFails, RowsOK
      <3> QED
        BY <3>1, <3>2
    <2>2. ContsOK'
      BY <1>10, <1>1, <1>3 DEF PumpAuthFails, Kick
    <2> QED
      BY <1>10, <2>1, <2>2 DEF PumpAuthFails, FenceOK, BoxOK
  <1>11. ASSUME NEW p \in Pumps, PumpWithoutSocket(p) PROVE TypeOK'
    BY <1>11, <1>3, PrefixTyped, SpawnTyped DEF PumpWithoutSocket, RowsOK, FenceOK, BoxOK
  <1>12. ASSUME NEW p \in Pumps, PumpSends(p) PROVE TypeOK'
    BY <1>12, <1>3, SendTyped DEF PumpSends, RowsOK, MsgStatus, Unfinished, CanClaim, FenceOK,
       BoxOK
  <1>13. ASSUME NEW p \in Pumps, PumpSendFails(p) PROVE TypeOK'
    BY <1>13, <1>2, <1>3, TerminateTyped DEF PumpSendFails, RowsOK, FenceOK, BoxOK
  <1>14. ASSUME NEW p \in Pumps, PumpLosesClaim(p) PROVE TypeOK'
    BY <1>14, <1>3 DEF PumpLosesClaim, RowsOK, FenceOK, BoxOK
  <1>15. CASE StopExecution
    <2>1. RowsOK' /\ FenceOK' /\ BoxOK' /\ delivering' \in SUBSET Messages
      BY <1>15, StopTyped DEF StopExecution, Processing, BoxOK
    <2>2. FlagsOK'
      BY <1>15 DEF StopExecution, StopPrompt
    <2> QED
      BY <1>15, <2>1, <2>2 DEF StopExecution
  <1>16. CASE ExhaustBudget
    <2>1. CASE Processing = {}
      BY <1>16, <2>1 DEF ExhaustBudget, RowsOK, FenceOK, BoxOK
    <2>2. CASE Processing # {}
      <3>1. RowsOK' /\ FenceOK' /\ BoxOK' /\ delivering' \in SUBSET Messages
        BY <1>16, <2>2, StopTyped DEF ExhaustBudget, Processing, BoxOK
      <3>2. FlagsOK'
        BY <1>16, <2>2 DEF ExhaustBudget, StopPrompt
      <3> QED
        BY <1>16, <3>1, <3>2 DEF ExhaustBudget
    <2> QED
      BY <2>1, <2>2
  <1>17. CASE RaiseLimit
    BY <1>17, <1>1 DEF RaiseLimit, Kick, RowsOK, FenceOK, BoxOK
  <1>18. CASE StopDeadlinePasses
    BY <1>18 DEF StopDeadlinePasses, RowsOK, FenceOK, BoxOK
  <1>19. CASE ResumeAfterTermination
    <2>1. resumes' \in 0..MaxResumes /\ kicks' \in 0..MaxKicks
      BY <1>19, <1>1, BoundsAssumption DEF ResumeAfterTermination, Kick
    <2> QED
      BY <1>19, <2>1, ReleaseTyped DEF ResumeAfterTermination, RowsOK, BoxOK
  <1>20. ASSUME NEW m \in Messages, StopUndelivered(m) PROVE TypeOK'
    BY <1>20, <1>2, TerminateTyped DEF StopUndelivered, RowsOK, FenceOK, BoxOK
  <1>21. ASSUME NEW m \in Messages, Settle(m) PROVE TypeOK'
    BY <1>21, <1>1, ReconcileTyped DEF Settle, KickIfArmed, Kick, RowsOK, FenceOK, BoxOK
  <1>22. CASE Archive
    BY <1>22 DEF Archive, RowsOK, SessionStatus, FenceOK, BoxOK
  <1>23. CASE Unarchive
    BY <1>23 DEF Unarchive, RowsOK, SessionStatus, Finished, FenceOK, BoxOK
  <1>24. CASE ExpireDraft
    BY <1>24 DEF ExpireDraft, RowsOK, SessionStatus, Finished, FenceOK, BoxOK
  <1>25. CASE CancelSession
    <2>1. RowsOK'
      BY <1>25 DEF CancelSession, RowsOK, SessionStatus, Finished, MsgStatus
    <2>2. BoxOK'
      <3>1. StopCmd \in 0..MaxMsg
        BY BoundsAssumption DEF StopCmd
      <3> QED
        BY <1>25, <3>1, SendTyped DEF CancelSession, BoxOK
    <2> QED
      BY <1>25, <2>1, <2>2 DEF CancelSession, FenceOK
  <1>26. CASE CancelSandbox
    BY <1>26 DEF CancelSandbox, RowsOK, FenceOK, BoxOK
  <1>27. CASE AlarmFires
    BY <1>27, TerminateTyped DEF AlarmFires, ToStage, AlarmStage, RowsOK, FenceOK, BoxOK
  <1>28. CASE AlarmRecovers
    BY <1>28, <1>1, ReleaseTyped DEF AlarmRecovers, ToStage, AlarmStage, Kick, RowsOK, FenceOK,
       BoxOK
  <1>29. CASE ExecutionTimesOut
    BY <1>29, StuckTyped DEF ExecutionTimesOut, ToStage, AlarmStage, RowsOK, FenceOK, BoxOK
  <1>30. CASE NothingTimesOut
    BY <1>30 DEF NothingTimesOut, ToStage, AlarmStage, RowsOK, FenceOK, BoxOK
  <1>46. CASE AlarmThrows
    BY <1>46 DEF AlarmThrows, ToStage, AlarmStage, RowsOK, FenceOK, BoxOK
  <1>31. CASE SandboxChecked
    BY <1>31 DEF SandboxChecked, ToStage, AlarmStage, RowsOK, FenceOK, BoxOK
  <1>32. CASE SandboxGivenUp
    BY <1>32, StuckTyped DEF SandboxGivenUp, ToStage, AlarmStage, RowsOK, FenceOK, BoxOK
  <1>33. CASE SandboxTerminated
    BY <1>33, <1>4, StuckTyped DEF SandboxTerminated, ToStage, AlarmStage, RowsOK, FenceOK, BoxOK
  <1>34. CASE AlarmResumes
    BY <1>34, <1>1, ReleaseTyped DEF AlarmResumes, ToStage, AlarmStage, Kick, RowsOK, FenceOK,
       BoxOK
  <1>35. CASE Warm
    BY <1>35, SpawnTyped DEF Warm, RowsOK, FenceOK, BoxOK
  <1>36. CASE SpawnFails
    BY <1>36 DEF SpawnFails, RowsOK, FenceOK, BoxOK
  <1>37. CASE Connect
    BY <1>37, <1>1, <1>4 DEF Connect, Kick, RowsOK, FenceOK, BoxOK
  <1>38. CASE Disconnect
    <2>1. BoxOK'
      BY <1>38, <1>3, <1>4 DEF Disconnect, BoxOK
    <2>2. FlagsOK'
      BY <1>38 DEF Disconnect
    <2> QED
      BY <1>38, <2>1, <2>2 DEF Disconnect, RowsOK, FenceOK
  <1>39. CASE FatalFailure
    BY <1>39, <1>2, <1>4, StuckTyped DEF FatalFailure, RowsOK, FenceOK, BoxOK
  <1>40. CASE BridgeReads
    BY <1>40, ReadTyped DEF BridgeReads, RowsOK, FenceOK, BoxOK
  <1>41. ASSUME NEW m \in Messages, BridgeFinishes(m) PROVE TypeOK'
    <2>1. BoxOK'
      BY <1>41, <1>3 DEF BridgeFinishes, BoxOK
    <2> QED
      BY <1>41, <2>1 DEF BridgeFinishes, RowsOK, FenceOK
  <1>42. CASE Restart
    <2>1. BoxOK'
      BY <1>42, <1>4 DEF Restart, BoxOK
    <2>2. ContsOK'
      BY <1>42, <1>3, BoundsAssumption DEF Restart, AlarmStage
    <2>3. FlagsOK'
      BY <1>42 DEF Restart
    <2> QED
      BY <1>42, <2>1, <2>2, <2>3 DEF Restart, RowsOK, FenceOK
  <1>43. ASSUME NEW m \in Messages, NEW o \in Finished, Complete(m, o) PROVE TypeOK'
    <2>1. exhausted' \in BOOLEAN
      BY <1>43 DEF Complete
    <2>2. CASE msg[m] = "processing"
      <3>1. RowsOK'
        BY <1>43, <2>2, FinishTyped DEF Complete, RowsOK
      <3>2. BoxOK'
        BY <1>43, <2>2 DEF Complete, BoxOK
      <3> QED
        BY <1>43, <2>1, <2>2, <3>1, <3>2 DEF Complete, FenceOK
    <2>3. CASE msg[m] # "processing" /\ exhausted' # exhausted /\ Processing # {}
      <3>1. RowsOK' /\ FenceOK' /\ BoxOK' /\ delivering' \in SUBSET Messages
        BY <1>43, <2>3, StopTyped DEF Complete, Processing, BoxOK
      <3>2. sock' = sock
        BY <1>43, <2>3 DEF Complete, StopPrompt
      <3> QED
        BY <1>43, <1>1, <2>1, <2>3, <3>1, <3>2 DEF Complete, KickIfArmed, Kick
    <2>4. CASE msg[m] # "processing" /\ ~(exhausted' # exhausted /\ Processing # {})
      <3>1. FenceOK'
        BY <1>43, <2>4 DEF Complete, FenceOK
      <3>2. BoxOK'
        BY <1>43, <2>4 DEF Complete, BoxOK
      <3> QED
        BY <1>43, <1>1, <2>1, <2>4, <3>1, <3>2 DEF Complete, KickIfArmed, Kick, RowsOK
    <2> QED
      BY <2>2, <2>3, <2>4
  <1>44. CASE UNCHANGED vars
    BY <1>44 DEF vars, RowsOK, FenceOK, BoxOK
  <1> QED
    BY <1>5, <1>6, <1>7, <1>8, <1>9, <1>10, <1>11, <1>12, <1>13, <1>14, <1>15, <1>16, <1>17,
       <1>18, <1>19, <1>20, <1>21, <1>22, <1>23, <1>24, <1>25, <1>26, <1>27, <1>28, <1>29,
          <1>30, <1>31, <1>32, <1>33, <1>34, <1>35, <1>36, <1>37, <1>38, <1>39, <1>40, <1>41,
             <1>42, <1>43, <1>44, <1>45, <1>46
    DEF Next, Client, Pump, Stop, Finishing, Closing, Alarm, Sandbox

-----------------------------------------------------------------------------
(* The invariant, by the ways a step can touch the queue.                  *)

(* What a pump holds is a prompt.                                          *)
LEMMA HeldTyped ==
    ASSUME TypeOK, NEW p \in Pumps, held[p] # NoMsg
    PROVE  held[p] \in Messages
  BY BoundsAssumption DEF TypeOK, ContsOK, NoMsg, Messages

(* A step that leaves the message table alone, releases fences and held    *)
(* prompts only, and keeps the session status true to the table.           *)
LEMMA FrameInv ==
    ASSUME TypeOK, QueueInv, UNCHANGED rows, awaiting' \subseteq awaiting,
           \A p \in Pumps : held'[p] \in {held[p], NoMsg},
           Queue # {} => session' = "active",
           session' = "created" => Rows = {}
    PROVE  QueueInv'
  <1>1. OneAtATime' /\ FencedFailed' /\ InsertedInOrder' /\ LastTellsFinished'
    BY DEF QueueInv, OneAtATime, FencedFailed, InsertedInOrder, LastTellsFinished, Processing,
       rows
  <1>2. HeldInserted' /\ HeldPromptSafe'
    BY DEF QueueInv, HeldInserted, HeldPromptSafe, IsHead, Processing, rows
  <1>3. SessionTellsWork' /\ DraftIsEmpty'
    BY DEF SessionTellsWork, DraftIsEmpty, Queue, Rows, rows
  <1> QED
    BY <1>1, <1>2, <1>3 DEF QueueInv

(* Reconciling with the table unchanged keeps the status true to it.       *)
LEMMA SettleInv ==
    ASSUME TypeOK, QueueInv, UNCHANGED rows, NEW success \in BOOLEAN, Reconcile(success)
    PROVE  (Queue # {} => session' = "active") /\ (session' = "created" => Rows = {})
  BY DEF Reconcile, rows, QueueInv, SessionTellsWork, DraftIsEmpty, Queue, Unfinished, Promptable

(* A step that finishes one unfinished prompt.                             *)
LEMMA EndInv ==
    ASSUME TypeOK, QueueInv, NEW m \in Queue, NEW outcome \in Finished, Finish(m, outcome),
           awaiting' = awaiting,
           \A p \in Pumps : held'[p] \in {held[p], NoMsg},
           Queue' # {} => session' = "active", session' # "created"
    PROVE  QueueInv'
  <1>1. /\ \A n \in Messages : msg'[n] = IF n = m THEN outcome ELSE msg[n]
        /\ m \in Messages /\ msg[m] \in Unfinished /\ last' = outcome
    BY DEF Finish, TypeOK, RowsOK, Queue
  <1>2. OneAtATime' /\ FencedFailed'
    BY <1>1 DEF QueueInv, OneAtATime, FencedFailed, Processing, Finished, Unfinished, TypeOK,
       FenceOK
  <1>3. InsertedInOrder' /\ LastTellsFinished'
    BY <1>1 DEF QueueInv, InsertedInOrder, LastTellsFinished, Finished, Unfinished
  <1>4. HeldPromptSafe'
    <2> SUFFICES ASSUME NEW p \in Pumps, held'[p] # NoMsg, msg'[held'[p]] = "pending"
                 PROVE  IsHead(held[p])' /\ Processing' = {} /\ awaiting' = {}
      BY DEF HeldPromptSafe
    <2>1. held'[p] = held[p] /\ held[p] \in Messages
      BY HeldTyped
    <2>2. held[p] # m /\ msg[held[p]] = "pending"
      BY <1>1, <2>1 DEF Finished
    <2>3. IsHead(held[p]) /\ Processing = {} /\ awaiting = {}
      BY <2>1, <2>2 DEF QueueInv, HeldPromptSafe
    <2> QED
      BY <1>1, <2>1, <2>2, <2>3 DEF IsHead, Processing, Finished
  <1>5. HeldInserted'
    BY <1>1, HeldTyped DEF QueueInv, HeldInserted, Finished
  <1>6. SessionTellsWork' /\ DraftIsEmpty'
    BY DEF SessionTellsWork, DraftIsEmpty
  <1> QED
    BY <1>2, <1>3, <1>4, <1>5, <1>6 DEF QueueInv

(* After reconciliation a session with work is active and none is a draft. *)
LEMMA ReconcileInv ==
    ASSUME QueueInv, Queue # {}, NEW success \in BOOLEAN, Reconcile(success)
    PROVE  (Queue' # {} => session' = "active") /\ session' # "created"
  BY DEF Reconcile, QueueInv, SessionTellsWork, Queue, Unfinished, Promptable

(* A step that stops the prompt at work: there is no fence, so the new one *)
(* is the only one, and no held prompt can be pending.                     *)
LEMMA StopInv ==
    ASSUME TypeOK, QueueInv, NEW m \in Processing, NEW released, StopPrompt(m, released),
           UNCHANGED held
    PROVE  QueueInv'
  <1>1. /\ \A n \in Messages : msg'[n] = IF n = m THEN "failed" ELSE msg[n]
        /\ m \in Messages /\ msg[m] = "processing" /\ last' = "failed"
    BY DEF StopPrompt, Finish, TypeOK, RowsOK, Processing
  <1>2. awaiting = {} /\ Processing = {m}
    BY <1>1 DEF QueueInv, OneAtATime, FencedFailed
  <1>3. awaiting' = {m} /\ Processing' = {}
    BY <1>1, <1>2 DEF StopPrompt, Processing
  <1>4. OneAtATime' /\ FencedFailed'
    BY <1>1, <1>3 DEF OneAtATime, FencedFailed
  <1>5. InsertedInOrder' /\ LastTellsFinished'
    BY <1>1 DEF QueueInv, InsertedInOrder, LastTellsFinished, Finished
  <1>6. HeldPromptSafe'
    <2> SUFFICES ASSUME NEW p \in Pumps, held[p] # NoMsg, msg'[held[p]] = "pending"
                 PROVE  FALSE
      BY DEF HeldPromptSafe
    <2>1. msg[held[p]] = "pending"
      BY <1>1, HeldTyped
    <2> QED
      BY <1>2, <2>1 DEF QueueInv, HeldPromptSafe
  <1>7. HeldInserted'
    BY <1>1, HeldTyped DEF QueueInv, HeldInserted
  <1>8. SessionTellsWork' /\ DraftIsEmpty'
    <2>1. Queue # {}
      BY <1>1 DEF Queue, Unfinished
    <2> QED
      BY <2>1, ReconcileInv DEF StopPrompt, SessionTellsWork, DraftIsEmpty
  <1> QED
    BY <1>4, <1>5, <1>6, <1>7, <1>8 DEF QueueInv

(* A new prompt is younger than every prompt a pump may hold.              *)
LEMMA EnqueueInv ==
    ASSUME TypeOK, QueueInv, Enqueue
    PROVE  QueueInv'
  <1> PICK m \in Messages :
           /\ msg[m] = "absent" /\ \A n \in Messages : n < m => msg[n] # "absent"
           /\ msg' = [msg EXCEPT ![m] = "pending"]
    BY DEF Enqueue
  <1>1. \A n \in Messages : msg'[n] = IF n = m THEN "pending" ELSE msg[n]
    BY DEF TypeOK, RowsOK
  <1>2. UNCHANGED <<last, awaiting, held>> /\ session' = "active"
    BY DEF Enqueue, fence
  <1>3. OneAtATime' /\ FencedFailed' /\ LastTellsFinished'
    BY <1>1, <1>2 DEF QueueInv, OneAtATime, FencedFailed, LastTellsFinished, Processing, Finished
  <1>4. InsertedInOrder'
    BY <1>1 DEF QueueInv, InsertedInOrder
  <1>5. HeldInserted'
    BY <1>1, <1>2, HeldTyped DEF QueueInv, HeldInserted
  <1>6. HeldPromptSafe'
    <2> SUFFICES ASSUME NEW p \in Pumps, held[p] # NoMsg, msg'[held[p]] = "pending"
                 PROVE  IsHead(held[p])' /\ Processing' = {} /\ awaiting' = {}
      BY <1>2 DEF HeldPromptSafe
    <2>1. held[p] \in Messages /\ held[p] # m /\ msg[held[p]] = "pending"
      BY <1>1, HeldTyped DEF QueueInv, HeldInserted
    <2>2. IsHead(held[p]) /\ Processing = {} /\ awaiting = {}
      BY <2>1 DEF QueueInv, HeldPromptSafe
    <2>3. ~(m < held[p])
      BY <2>1 DEF QueueInv, InsertedInOrder
    <2> QED
      BY <1>1, <1>2, <2>1, <2>2, <2>3 DEF IsHead, Processing
  <1>7. SessionTellsWork' /\ DraftIsEmpty'
    BY <1>2 DEF SessionTellsWork, DraftIsEmpty
  <1> QED
    BY <1>3, <1>4, <1>5, <1>6, <1>7 DEF QueueInv

(* A withdrawn prompt may be the held one; then it is not pending any more.*)
LEMMA WithdrawInv ==
    ASSUME TypeOK, QueueInv, NEW m \in Messages, Withdraw(m)
    PROVE  QueueInv'
  <1>1. /\ \A n \in Messages : msg'[n] = IF n = m THEN "withdrawn" ELSE msg[n]
        /\ msg[m] = "pending" /\ UNCHANGED <<last, awaiting, held>>
    BY DEF Withdraw, TypeOK, RowsOK, fence, conts
  <1>2. Processing' = Processing
    BY <1>1 DEF Processing
  <1>3. OneAtATime' /\ FencedFailed' /\ InsertedInOrder' /\ LastTellsFinished'
    <2>1. OneAtATime'
      BY <1>1, <1>2 DEF QueueInv, OneAtATime
    <2>2. FencedFailed' /\ InsertedInOrder' /\ LastTellsFinished'
      BY <1>1 DEF QueueInv, FencedFailed, InsertedInOrder, LastTellsFinished, Finished, TypeOK,
         FenceOK
    <2> QED
      BY <2>1, <2>2
  <1>4. HeldInserted' /\ HeldPromptSafe'
    <2>1. HeldInserted'
      BY <1>1, HeldTyped DEF QueueInv, HeldInserted
    <2>2. HeldPromptSafe'
      <3> SUFFICES ASSUME NEW p \in Pumps, held[p] # NoMsg, msg'[held[p]] = "pending"
                   PROVE  IsHead(held[p])' /\ Processing' = {} /\ awaiting' = {}
        BY <1>1 DEF HeldPromptSafe
      <3>1. held[p] \in Messages /\ held[p] # m /\ msg[held[p]] = "pending"
        BY <1>1, HeldTyped
      <3> QED
        BY <1>1, <1>2, <3>1 DEF QueueInv, HeldPromptSafe, IsHead
    <2> QED
      BY <2>1, <2>2
  <1>5. Queue' = Queue \ {m}
    BY <1>1 DEF Queue, Unfinished
  <1>6. session = "active" /\ session' = IF Queue' # {} THEN "active" ELSE last
    BY <1>1, <1>5 DEF Withdraw, QueueInv, SessionTellsWork, Queue, Unfinished, Promptable
  <1>7. SessionTellsWork'
    BY <1>6 DEF SessionTellsWork
  <1>8. DraftIsEmpty'
    <2> SUFFICES ASSUME Queue' = {}, last = "created" PROVE Rows' = {}
      BY <1>6 DEF DraftIsEmpty
    <2> QED
      BY <1>1 DEF QueueInv, LastTellsFinished, Rows, Queue, Unfinished, Finished, TypeOK,
         RowsOK, MsgStatus
  <1> QED
    BY <1>3, <1>4, <1>7, <1>8 DEF QueueInv

(* Cancelling the session finishes everything unfinished at once.          *)
LEMMA CancelInv ==
    ASSUME TypeOK, QueueInv, CancelSession
    PROVE  QueueInv'
  <1>1. /\ \A n \in Messages : msg'[n] = IF n \in Queue THEN "failed" ELSE msg[n]
        /\ UNCHANGED <<awaiting, held>>
        /\ last' = (IF Queue # {} THEN "failed" ELSE last) /\ session' = "cancelled"
    BY DEF CancelSession, fence
  <1>2. Queue' = {} /\ Processing' = {}
    BY <1>1 DEF Queue, Processing, Unfinished
  <1>3. OneAtATime' /\ FencedFailed'
    BY <1>1, <1>2 DEF QueueInv, OneAtATime, FencedFailed, Queue, Unfinished, TypeOK, FenceOK
  <1>4. InsertedInOrder' /\ LastTellsFinished'
    BY <1>1 DEF QueueInv, InsertedInOrder, LastTellsFinished, Queue, Unfinished
  <1>5. HeldInserted' /\ HeldPromptSafe'
    BY <1>1, HeldTyped DEF QueueInv, HeldInserted, HeldPromptSafe, Queue, Unfinished
  <1>6. SessionTellsWork' /\ DraftIsEmpty'
    BY <1>1, <1>2 DEF SessionTellsWork, DraftIsEmpty
  <1> QED
    BY <1>3, <1>4, <1>5, <1>6 DEF QueueInv

(* The prefix holds the head of a queue with nothing at work or fenced.    *)
LEMMA PrefixInv ==
    ASSUME TypeOK, QueueInv, NEW p \in Pumps, PumpPrefix(p),
           UNCHANGED <<rows, session, fence>>
    PROVE  QueueInv'
  <1>1. /\ UNCHANGED <<msg, last, session, awaiting>>
        /\ \A q \in Pumps : q # p => held'[q] = held[q]
        /\ \/ held'[p] = NoMsg
           \/ IsHead(held'[p]) /\ Processing = {} /\ awaiting = {}
    BY DEF PumpPrefix, TypeOK, ContsOK, rows, fence
  <1>2. OneAtATime' /\ FencedFailed' /\ InsertedInOrder' /\ LastTellsFinished'
    BY <1>1 DEF QueueInv, OneAtATime, FencedFailed, InsertedInOrder, LastTellsFinished, Processing
  <1>3. HeldInserted' /\ HeldPromptSafe'
    BY <1>1 DEF QueueInv, HeldInserted, HeldPromptSafe, IsHead, Processing
  <1>4. SessionTellsWork' /\ DraftIsEmpty'
    BY <1>1 DEF QueueInv, SessionTellsWork, DraftIsEmpty, Queue, Rows
  <1> QED
    BY <1>2, <1>3, <1>4 DEF QueueInv

(* The one step that starts a prompt: HeldPromptSafe gives what the code   *)
(* does not read again, and takes the prompt from every other pump.        *)
LEMMA SendInv ==
    ASSUME TypeOK, QueueInv, NEW p \in Pumps, PumpSends(p)
    PROVE  QueueInv'
  <1> DEFINE m == held[p]
  <1>1. /\ m \in Messages /\ msg[m] = "pending"
        /\ \A n \in Messages : msg'[n] = IF n = m THEN "processing" ELSE msg[n]
        /\ UNCHANGED <<last, session, awaiting>>
        /\ held'[p] = NoMsg /\ \A q \in Pumps : q # p => held'[q] = held[q]
    BY HeldTyped DEF PumpSends, CanClaim, TypeOK, RowsOK, ContsOK, fence
  <1>2. IsHead(m) /\ Processing = {} /\ awaiting = {}
    BY <1>1 DEF PumpSends, QueueInv, HeldPromptSafe
  <1> HIDE DEF m
  <1>3. OneAtATime' /\ FencedFailed'
    BY <1>1, <1>2 DEF OneAtATime, FencedFailed, Processing
  <1>4. InsertedInOrder' /\ LastTellsFinished'
    BY <1>1 DEF QueueInv, InsertedInOrder, LastTellsFinished, Finished
  <1>5. HeldInserted'
    BY <1>1, HeldTyped DEF QueueInv, HeldInserted
  <1>6. HeldPromptSafe'
    <2> SUFFICES ASSUME NEW q \in Pumps, held'[q] # NoMsg, msg'[held'[q]] = "pending"
                 PROVE  FALSE
      BY DEF HeldPromptSafe
    <2>1. held'[q] = held[q] /\ held[q] \in Messages
      BY <1>1, HeldTyped
    <2>2. msg[held[q]] = "pending" /\ held[q] # m
      BY <1>1, <2>1
    <2>3. IsHead(held[q])
      BY <2>1, <2>2 DEF QueueInv, HeldPromptSafe
    <2> QED
      BY <1>1, <1>2, <2>1, <2>2, <2>3 DEF IsHead, Messages
  <1>7. SessionTellsWork' /\ DraftIsEmpty'
    <2>1. Queue # {} /\ Rows # {}
      BY <1>1 DEF Queue, Rows, Unfinished
    <2> QED
      BY <1>1, <2>1 DEF QueueInv, SessionTellsWork, DraftIsEmpty
  <1> QED
    BY <1>3, <1>4, <1>5, <1>6, <1>7 DEF QueueInv

(* Failing the prompt at work, by a timeout or with its sandbox.           *)
LEMMA StuckInv ==
    ASSUME TypeOK, QueueInv, FailStuck, UNCHANGED <<awaiting, held>>
    PROVE  QueueInv'
  <1>1. CASE Processing = {}
    BY <1>1, FrameInv DEF FailStuck, rows, QueueInv, SessionTellsWork, DraftIsEmpty
  <1>2. CASE Processing # {}
    <2>1. PICK m \in Processing : Finish(m, "failed") /\ Reconcile(FALSE)
      BY <1>2 DEF FailStuck
    <2>2. m \in Queue /\ "failed" \in Finished
      BY DEF Processing, Queue, Unfinished, Finished
    <2>3. (Queue' # {} => session' = "active") /\ session' # "created"
      BY <2>1, <2>2, ReconcileInv
    <2> QED
      BY <2>1, <2>2, <2>3, EndInv
  <1> QED
    BY <1>1, <1>2

(* An execution_complete event, for the prompt at work or for an older one.*)
LEMMA CompleteInv ==
    ASSUME TypeOK, QueueInv, NEW m \in Messages, NEW outcome \in Finished, Complete(m, outcome)
    PROVE  QueueInv'
  <1>1. CASE msg[m] = "processing"
    <2>1. /\ m \in Queue /\ Finish(m, outcome) /\ UNCHANGED <<session, awaiting, held>>
      BY <1>1 DEF Complete, Queue, Unfinished, fence
    <2>2. session = "active"
      BY <2>1 DEF QueueInv, SessionTellsWork
    <2> QED
      BY <2>1, <2>2, EndInv
  <1>2. CASE msg[m] # "processing" /\ exhausted' # exhausted /\ Processing # {}
    BY <1>2, StopInv DEF Complete
  <1>3. CASE msg[m] # "processing" /\ ~(exhausted' # exhausted /\ Processing # {})
    <2>1. UNCHANGED <<rows, session, held>> /\ awaiting' \subseteq awaiting
      BY <1>3 DEF Complete
    <2> QED
      BY <2>1, FrameInv DEF QueueInv, SessionTellsWork, DraftIsEmpty
  <1> QED
    BY <1>1, <1>2, <1>3

-----------------------------------------------------------------------------
(* The invariant, handler by handler.                                      *)

(* A step that writes neither the message table nor the session status.    *)
LEMMA QuietInv ==
    ASSUME TypeOK, QueueInv, UNCHANGED <<rows, session>>, awaiting' \subseteq awaiting,
           \A p \in Pumps : held'[p] \in {held[p], NoMsg}
    PROVE  QueueInv'
  BY FrameInv DEF QueueInv, SessionTellsWork, DraftIsEmpty

(* processMessageQueue preserves the invariant.                            *)
LEMMA PumpKeeps ==
    ASSUME TypeOK, QueueInv, NEW p \in Pumps, Pump(p)
    PROVE  QueueInv'
  <1>1. CASE PumpBegin(p)
    BY <1>1, PrefixInv DEF PumpBegin
  <1>2. CASE PumpExhausted(p)
    BY <1>2, QuietInv DEF PumpExhausted, fence, TypeOK, ContsOK
  <1>8. CASE PumpLookupFails(p)
    BY <1>8, QuietInv DEF PumpLookupFails, fence, TypeOK, ContsOK
  <1>3. CASE PumpAuthFails(p)
    <2>1. CASE msg[held[p]] = "pending"
      <3>1. held[p] \in Queue /\ "failed" \in Finished
        BY <1>3, <2>1, HeldTyped DEF PumpAuthFails, Queue, Unfinished, Finished
      <3>2. Finish(held[p], "failed") /\ Reconcile(FALSE) /\ awaiting' = awaiting
        BY <1>3, <2>1 DEF PumpAuthFails, fence
      <3>3. \A q \in Pumps : held'[q] \in {held[q], NoMsg}
        BY <1>3 DEF PumpAuthFails, TypeOK, ContsOK
      <3>4. (Queue' # {} => session' = "active") /\ session' # "created"
        BY <3>1, <3>2, ReconcileInv
      <3> QED
        BY <3>1, <3>2, <3>3, <3>4, EndInv
    <2>2. CASE msg[held[p]] # "pending"
      BY <1>3, <2>2, QuietInv DEF PumpAuthFails, fence, TypeOK, ContsOK
    <2> QED
      BY <2>1, <2>2
  <1>4. CASE PumpWithoutSocket(p)
    <2>1. CASE Promptable /\ msg[held[p]] = "pending"
      BY <1>4, <2>1, QuietInv DEF PumpWithoutSocket, fence, TypeOK, ContsOK
    <2>2. CASE ~(Promptable /\ msg[held[p]] = "pending")
      BY <1>4, <2>2, PrefixInv DEF PumpWithoutSocket
    <2> QED
      BY <2>1, <2>2
  <1>5. CASE PumpSends(p)
    BY <1>5, SendInv
  <1>6. CASE PumpSendFails(p)
    BY <1>6, QuietInv DEF PumpSendFails, fence, TypeOK, ContsOK
  <1>7. CASE PumpLosesClaim(p)
    BY <1>7, QuietInv DEF PumpLosesClaim, fence, TypeOK, ContsOK
  <1> QED
    BY <1>1, <1>2, <1>3, <1>4, <1>5, <1>6, <1>7, <1>8 DEF Pump

(* So do admission and withdrawal.                                         *)
LEMMA ClientKeeps ==
    ASSUME TypeOK, QueueInv, Client
    PROVE  QueueInv'
  <1>1. ASSUME NEW m \in Messages, Resubmit(m) PROVE QueueInv'
    <2>1. session' = session \/ (Queue # {} /\ session' = "active")
      BY <1>1 DEF Resubmit, Queue, Unfinished
    <2> QED
      BY <1>1, <2>1, FrameInv DEF Resubmit, fence, QueueInv, SessionTellsWork, DraftIsEmpty
  <1> QED
    BY <1>1, EnqueueInv, WithdrawInv DEF Client

(* So do stopping, the budget and the end of a stop.                       *)
LEMMA StopKeeps ==
    ASSUME TypeOK, QueueInv, Stop
    PROVE  QueueInv'
  <1>1. CASE StopExecution
    BY <1>1, StopInv DEF StopExecution
  <1>2. CASE ExhaustBudget
    <2>1. CASE Processing = {}
      BY <1>2, <2>1, QuietInv DEF ExhaustBudget, fence
    <2>2. CASE Processing # {}
      BY <1>2, <2>2, StopInv DEF ExhaustBudget
    <2> QED
      BY <2>1, <2>2
  <1>3. CASE RaiseLimit
    BY <1>3, QuietInv DEF RaiseLimit, fence
  <1>4. CASE StopDeadlinePasses
    BY <1>4, QuietInv DEF StopDeadlinePasses, conts
  <1>5. CASE ResumeAfterTermination
    BY <1>5, QuietInv DEF ResumeAfterTermination, ReleaseFence, fence
  <1>6. ASSUME NEW m \in Messages, StopUndelivered(m) PROVE QueueInv'
    BY <1>6, QuietInv DEF StopUndelivered, fence
  <1> QED
    BY <1>1, <1>2, <1>3, <1>4, <1>5, <1>6 DEF Stop

(* So do completions, before and after the terminal projection.            *)
LEMMA FinishingKeeps ==
    ASSUME TypeOK, QueueInv, Finishing
    PROVE  QueueInv'
  <1>1. ASSUME NEW m \in Messages, Settle(m) PROVE QueueInv'
    <2>1. (Queue # {} => session' = "active") /\ (session' = "created" => Rows = {})
      BY <1>1, SettleInv DEF Settle
    <2> QED
      BY <1>1, <2>1, FrameInv DEF Settle, fence
  <1> QED
    BY <1>1, CompleteInv DEF Finishing

(* So do archiving, expiring and cancelling the session.                   *)
LEMMA ClosingKeeps ==
    ASSUME TypeOK, QueueInv, Closing
    PROVE  QueueInv'
  <1>1. Queue = {} /\ last = "created" => Rows = {}
    BY DEF QueueInv, LastTellsFinished, Rows, Queue, Unfinished, Finished, TypeOK, RowsOK,
       MsgStatus
  <1>2. CASE Archive
    BY <1>2, FrameInv DEF Archive, fence, conts
  <1>3. CASE Unarchive
    BY <1>1, <1>3, FrameInv DEF Unarchive, fence, conts
  <1>4. CASE ExpireDraft
    BY <1>1, <1>4, FrameInv DEF ExpireDraft, fence, conts, Rows, Queue, Unfinished
  <1>5. CASE CancelSession
    BY <1>5, CancelInv
  <1>6. CASE CancelSandbox
    BY <1>6, QuietInv DEF CancelSandbox, fence
  <1> QED
    BY <1>2, <1>3, <1>4, <1>5, <1>6 DEF Closing

(* So does every stage of the alarm handler.                               *)
LEMMA AlarmKeeps ==
    ASSUME TypeOK, QueueInv, Alarm
    PROVE  QueueInv'
  <1>1. CASE AlarmFires
    BY <1>1, QuietInv DEF AlarmFires, fence
  <1>2. CASE AlarmRecovers
    BY <1>2, QuietInv DEF AlarmRecovers, ReleaseFence, fence
  <1>3. CASE ExecutionTimesOut
    BY <1>3, StuckInv DEF ExecutionTimesOut, fence
  <1>4. CASE NothingTimesOut
    BY <1>4, QuietInv DEF NothingTimesOut, fence
  <1>5. CASE SandboxChecked
    BY <1>5, QuietInv DEF SandboxChecked, fence
  <1>6. CASE SandboxGivenUp
    BY <1>6, StuckInv DEF SandboxGivenUp, fence
  <1>7. CASE SandboxTerminated
    BY <1>7, StuckInv DEF SandboxTerminated, fence
  <1>8. CASE AlarmResumes
    BY <1>8, QuietInv DEF AlarmResumes, ReleaseFence, fence
  <1>9. CASE AlarmThrows
    BY <1>9, QuietInv DEF AlarmThrows, fence
  <1> QED
    BY <1>1, <1>2, <1>3, <1>4, <1>5, <1>6, <1>7, <1>8, <1>9 DEF Alarm

(* So do the sandbox, its bridge and a restart.                            *)
LEMMA SandboxKeeps ==
    ASSUME TypeOK, QueueInv, Sandbox \/ Restart
    PROVE  QueueInv'
  <1>1. CASE FatalFailure
    BY <1>1, StuckInv DEF FatalFailure, fence
  <1>2. CASE Restart
    BY <1>2, QuietInv DEF Restart, fence
  <1>3. CASE Warm \/ SpawnFails
    BY <1>3, QuietInv DEF Warm, SpawnFails, fence, conts
  <1>4. CASE Connect \/ Disconnect
    BY <1>4, QuietInv DEF Connect, Disconnect, fence, conts
  <1>5. CASE BridgeReads \/ \E m \in Messages : BridgeFinishes(m)
    BY <1>5, QuietInv DEF BridgeReads, BridgeFinishes, fence, conts
  <1> QED
    BY <1>1, <1>2, <1>3, <1>4, <1>5 DEF Sandbox

(* A new session satisfies the invariant.                                  *)
LEMMA InitInv == Init => IInv
  <1> SUFFICES ASSUME Init PROVE IInv
    OBVIOUS
  <1>1. TypeOK
    <2>1. <<>> \in Seq(0..MaxMsg)
      BY EmptySeq
    <2>2. RowsOK /\ FenceOK /\ ContsOK /\ BoxOK
      BY <2>1, BoundsAssumption DEF Init, RowsOK, FenceOK, ContsOK, BoxOK, MsgStatus,
         SessionStatus, AlarmStage, NoMsg
    <2>3. FlagsOK
      BY DEF Init, FlagsOK
    <2> QED
      BY <2>2, <2>3 DEF TypeOK
  <1>2. QueueInv
    BY DEF Init, QueueInv, OneAtATime, FencedFailed, InsertedInOrder, HeldInserted,
       HeldPromptSafe,
           SessionTellsWork, DraftIsEmpty, LastTellsFinished, Processing, Queue, Rows,
              Unfinished, Finished
  <1> QED
    BY <1>1, <1>2 DEF IInv

-----------------------------------------------------------------------------
(* Every step preserves the inductive invariant.                           *)
LEMMA StepInv ==
    ASSUME IInv, [Next]_vars
    PROVE  IInv'
  <1>1. TypeOK'
    BY StepTyped DEF IInv
  <1>2. QueueInv'
    <2>1. CASE UNCHANGED vars
      BY <2>1, QuietInv DEF vars, fence, conts, IInv
    <2> QED
      BY <2>1, PumpKeeps, ClientKeeps, StopKeeps, FinishingKeeps, ClosingKeeps, AlarmKeeps,
         SandboxKeeps DEF Next, IInv
  <1> QED
    BY <1>1, <1>2 DEF IInv

(* The inductive invariant holds in every session.                         *)
THEOREM Invariance == Spec => []IInv
  BY InitInv, StepInv, PTL DEF Spec

(* Every variable always ranges over what the code can store in it.        *)
THEOREM TypeCorrectness == Spec => []TypeOK
  <1>1. IInv => TypeOK
    BY DEF IInv
  <1> QED
    BY <1>1, Invariance, PTL

(* However many pumps, stops, completions, terminations and restarts       *)
(* interleave, at most one prompt is at work or waits for its stop.        *)
THEOREM PromptsRunOneAtATime == Spec => []OneAtATime
  <1>1. IInv => OneAtATime
    BY DEF IInv, QueueInv
  <1> QED
    BY <1>1, Invariance, PTL

(* A pump that comes back from the provider-auth lookup may rely on what   *)
(* it read before, for a prompt that is still pending.                     *)
THEOREM HeldPromptsStaySafe == Spec => []HeldPromptSafe
  <1>1. IInv => HeldPromptSafe
    BY DEF IInv, QueueInv
  <1> QED
    BY <1>1, Invariance, PTL

(* A session with unfinished prompts is active, and a draft has no         *)
(* messages: neither the archive route nor the draft sweep loses work.     *)
THEOREM StatusTellsTruth == Spec => [](SessionTellsWork /\ DraftIsEmpty)
  <1>1. IInv => SessionTellsWork /\ DraftIsEmpty
    BY DEF IInv, QueueInv
  <1> QED
    BY <1>1, Invariance, PTL

-----------------------------------------------------------------------------
(* What the steps do to message statuses and fences, and the theorems that *)
(* follow from it and the inductive invariant: how a prompt starts, that   *)
(* outcomes are final, and that the whole is a serial queue.               *)

Quiet == UNCHANGED msg /\ \E m \in 0..MaxMsg : awaiting' = awaiting \ {m}
Ends  == /\ awaiting' = awaiting
         /\ \E m \in Queue, outcome \in Finished : Finish(m, outcome)
Halts == \E m \in Processing, released \in SUBSET Messages : StopPrompt(m, released)

StepKind == \/ Quiet \/ Ends \/ Halts \/ Enqueue \/ CancelSession
            \/ \E m \in Messages : Withdraw(m)
            \/ \E p \in Pumps : PumpSends(p)

(* Whatever the handler, a step writes message statuses and fences in one of*)
(* these ways.                                                             *)
LEMMA StepKinds ==
    ASSUME TypeOK, [Next]_vars
    PROVE  StepKind
  <1> USE DEF StepKind
  <1>1. ASSUME UNCHANGED <<msg, awaiting>> PROVE StepKind
    <2>1. awaiting' = awaiting \ {NoMsg} /\ NoMsg \in 0..MaxMsg
      BY <1>1, BoundsAssumption DEF TypeOK, FenceOK, Messages, NoMsg
    <2> QED
      BY <1>1, <2>1 DEF Quiet
  <1>2. ASSUME UNCHANGED msg, ReleaseFence PROVE StepKind
    <2>1. CASE awaiting = {}
      BY <1>1, <1>2, <2>1 DEF ReleaseFence, fence
    <2>2. CASE awaiting # {}
      <3>1. PICK m \in awaiting : awaiting' = awaiting \ {m}
        BY <1>2, <2>2 DEF ReleaseFence
      <3>2. m \in 0..MaxMsg
        BY BoundsAssumption DEF TypeOK, FenceOK, Messages
      <3> QED
        BY <1>2, <3>1, <3>2 DEF Quiet
    <2> QED
      BY <2>1, <2>2
  <1>3. ASSUME FailStuck, UNCHANGED awaiting PROVE StepKind
    <2>1. CASE Processing = {}
      BY <1>1, <1>3, <2>1 DEF FailStuck, rows
    <2>2. CASE Processing # {}
      BY <1>3, <2>2 DEF FailStuck, Ends, Queue, Processing, Unfinished, Finished
    <2> QED
      BY <2>1, <2>2
  <1>4. ASSUME NEW p \in Pumps, Pump(p) PROVE StepKind
    <2>1. CASE PumpAuthFails(p) /\ msg[held[p]] = "pending"
      BY <2>1, HeldTyped DEF PumpAuthFails, Ends, Queue, Unfinished, Finished, fence
    <2>2. CASE PumpAuthFails(p) /\ msg[held[p]] # "pending"
      BY <1>1, <2>2 DEF PumpAuthFails, rows, fence
    <2>3. CASE PumpBegin(p) \/ PumpExhausted(p) \/ PumpWithoutSocket(p)
      BY <1>1, <2>3 DEF PumpBegin, PumpExhausted, PumpWithoutSocket, rows, fence
    <2>4. CASE PumpLookupFails(p) \/ PumpSendFails(p) \/ PumpLosesClaim(p)
      BY <1>1, <2>4 DEF PumpLookupFails, PumpSendFails, PumpLosesClaim, rows, fence
    <2> QED
      BY <1>4, <2>1, <2>2, <2>3, <2>4 DEF Pump
  <1>5. CASE Stop
    <2>1. CASE StopExecution
      BY <2>1 DEF StopExecution, Halts
    <2>2. CASE ExhaustBudget
      BY <1>1, <2>2 DEF ExhaustBudget, Halts, rows, fence
    <2>3. CASE RaiseLimit \/ StopDeadlinePasses \/ \E m \in Messages : StopUndelivered(m)
      BY <1>1, <2>3 DEF RaiseLimit, StopDeadlinePasses, StopUndelivered, rows, fence
    <2>4. CASE ResumeAfterTermination
      BY <1>2, <2>4 DEF ResumeAfterTermination, rows
    <2> QED
      BY <1>5, <2>1, <2>2, <2>3, <2>4 DEF Stop
  <1>6. CASE Client
    BY <1>1, <1>6 DEF Client, Resubmit, rows, fence
  <1>7. ASSUME NEW m \in Messages, Settle(m) PROVE StepKind
    BY <1>1, <1>7 DEF Settle, rows, fence
  <1>8. ASSUME NEW m \in Messages, NEW outcome \in Finished, Complete(m, outcome) PROVE StepKind
    <2>1. CASE msg[m] = "processing"
      BY <1>8, <2>1 DEF Complete, Ends, Queue, Unfinished, fence
    <2>2. CASE msg[m] # "processing" /\ exhausted' # exhausted /\ Processing # {}
      BY <1>8, <2>2 DEF Complete, Halts
    <2>3. CASE msg[m] # "processing" /\ ~(exhausted' # exhausted /\ Processing # {})
      <3>1. UNCHANGED msg /\ awaiting' = awaiting \ {m}
        BY <1>8, <2>3 DEF Complete, rows
      <3>2. m \in 0..MaxMsg
        BY BoundsAssumption DEF Messages
      <3> QED
        BY <3>1, <3>2 DEF Quiet
    <2> QED
      BY <2>1, <2>2, <2>3
  <1>9. CASE Closing
    BY <1>1, <1>9 DEF Closing, Archive, Unarchive, ExpireDraft, CancelSandbox, rows, fence
  <1>10. CASE Alarm
    <2>1. CASE AlarmFires \/ NothingTimesOut \/ AlarmThrows \/ SandboxChecked
      BY <1>1, <2>1 DEF AlarmFires, NothingTimesOut, AlarmThrows, SandboxChecked, rows, fence
    <2>2. CASE AlarmRecovers \/ AlarmResumes
      BY <1>2, <2>2 DEF AlarmRecovers, AlarmResumes, rows
    <2>3. CASE ExecutionTimesOut \/ SandboxGivenUp \/ SandboxTerminated
      BY <1>3, <2>3 DEF ExecutionTimesOut, SandboxGivenUp, SandboxTerminated, fence
    <2> QED
      BY <1>10, <2>1, <2>2, <2>3 DEF Alarm
  <1>11. CASE Sandbox
    <2>1. CASE FatalFailure
      BY <1>3, <2>1 DEF FatalFailure, fence
    <2>2. CASE Warm \/ SpawnFails \/ Connect \/ Disconnect
      BY <1>1, <2>2 DEF Warm, SpawnFails, Connect, Disconnect, rows, fence
    <2>3. CASE BridgeReads \/ \E m \in Messages : BridgeFinishes(m)
      BY <1>1, <2>3 DEF BridgeReads, BridgeFinishes, rows, fence
    <2> QED
      BY <1>11, <2>1, <2>2, <2>3 DEF Sandbox
  <1>12. CASE Restart \/ UNCHANGED vars
    BY <1>1, <1>12 DEF Restart, vars, rows, fence
  <1> QED
    BY <1>4, <1>5, <1>6, <1>7, <1>8, <1>9, <1>10, <1>11, <1>12 DEF Next, Finishing

-----------------------------------------------------------------------------
(* Only a pump starts prompts, and only as CleanDispatch says.             *)
LEMMA StepDispatches ==
    ASSUME IInv, [Next]_vars, NEW m \in Messages, msg[m] = "pending", msg'[m] = "processing"
    PROVE  /\ IsHead(m) /\ Processing = {} /\ awaiting = {}
           /\ Promptable /\ ~exhausted
  <1> USE DEF IInv
  <1>1. PICK p \in Pumps : PumpSends(p) /\ held[p] = m
    <2>1. ~Quiet /\ ~Ends /\ ~Halts /\ ~Enqueue /\ ~CancelSession
      BY DEF Quiet, Ends, Halts, StopPrompt, Finish, Enqueue, CancelSession, Finished, TypeOK,
         RowsOK
    <2>2. \A n \in Messages : ~Withdraw(n)
      BY DEF Withdraw, TypeOK, RowsOK
    <2> QED
      BY <2>1, <2>2, StepKinds DEF StepKind, PumpSends, TypeOK, RowsOK
  <1>2. IsHead(m) /\ Processing = {} /\ awaiting = {}
    BY <1>1 DEF PumpSends, QueueInv, HeldPromptSafe, NoMsg
  <1>3. session = "active"
    BY DEF QueueInv, SessionTellsWork, Queue, Unfinished
  <1> QED
    BY <1>1, <1>2, <1>3 DEF PumpSends, Promptable

(* No step rewrites a finished prompt.                                     *)
LEMMA StepKeepsOutcome ==
    ASSUME IInv, [Next]_vars, NEW m \in Messages, msg[m] \in Finished \cup {"withdrawn"}
    PROVE  msg'[m] = msg[m]
  <1> USE DEF IInv, Finished
  <1>1. CASE Quiet
    BY <1>1 DEF Quiet
  <1>2. CASE Ends \/ Halts
    BY <1>2 DEF Ends, Halts, StopPrompt, Finish, TypeOK, RowsOK, Queue, Processing, Unfinished
  <1>3. CASE Enqueue \/ CancelSession
    BY <1>3 DEF Enqueue, CancelSession, TypeOK, RowsOK, Queue, Unfinished
  <1>4. CASE \E n \in Messages : Withdraw(n)
    BY <1>4 DEF Withdraw, TypeOK, RowsOK
  <1>5. CASE \E p \in Pumps : PumpSends(p)
    BY <1>5 DEF PumpSends, CanClaim, TypeOK, RowsOK
  <1> QED
    BY <1>1, <1>2, <1>3, <1>4, <1>5, StepKinds DEF StepKind

(* A prompt starts only as the oldest pending one, in an open session      *)
(* within its budget, with nothing at work and no stop unconfirmed.        *)
THEOREM DispatchIsClean == Spec => CleanDispatch
  <1>1. IInv /\ [Next]_vars =>
          [\A m \in Messages : msg[m] = "pending" /\ msg'[m] = "processing" =>
              /\ IsHead(m) /\ Processing = {} /\ awaiting = {}
              /\ Promptable /\ ~exhausted]_vars
    BY StepDispatches
  <1> QED
    BY <1>1, Invariance, PTL DEF Spec, CleanDispatch

(* A finished prompt keeps its first outcome, a withdrawn one stays gone.  *)
THEOREM OutcomesAreFinal == Spec => OutcomeIsFinal
  <1>1. IInv /\ [Next]_vars =>
          [\A m \in Messages : msg[m] \in Finished \cup {"withdrawn"} => msg'[m] = msg[m]]_vars
    BY StepKeepsOutcome
  <1> QED
    BY <1>1, Invariance, PTL DEF Spec, OutcomeIsFinal

-----------------------------------------------------------------------------
(* The refinement.                                                         *)

PhaseOf(m) == IF m \in awaiting THEN "draining"
              ELSE IF msg[m] = "absent" THEN "absent"
              ELSE IF msg[m] = "pending" THEN "waiting"
              ELSE IF msg[m] = "processing" THEN "running" ELSE "over"

(* The refinement mapping, pointwise.                                      *)
LEMMA PhaseTyped == /\ Phase = [m \in Messages |-> PhaseOf(m)]
                    /\ Phase' = [m \in Messages |-> PhaseOf(m)']
  BY DEF Phase, PhaseOf

(* A step that changes the phase of one prompt is a Move of SerialQueue.   *)
LEMMA OnePhaseMoves ==
    ASSUME NEW m \in Messages, NEW from, NEW to, PhaseOf(m) = from, PhaseOf(m)' = to,
           \A n \in Messages : n # m => PhaseOf(n)' = PhaseOf(n)
    PROVE  SQ!Move(m, from, to)
  BY PhaseTyped DEF SQ!Move

(* A fence that falls drains its prompt.                                   *)
LEMMA QuietSerial ==
    ASSUME IInv, Quiet
    PROVE  SQ!Next \/ UNCHANGED Phase
  <1> PICK m \in 0..MaxMsg : UNCHANGED msg /\ awaiting' = awaiting \ {m}
    BY DEF Quiet
  <1>1. CASE m \notin awaiting
    BY <1>1, PhaseTyped DEF PhaseOf
  <1>2. CASE m \in awaiting
    <2>1. m \in Messages /\ msg[m] = "failed"
      BY <1>2 DEF IInv, QueueInv, FencedFailed, TypeOK, FenceOK
    <2>2. PhaseOf(m) = "draining" /\ PhaseOf(m)' = "over"
      BY <1>2, <2>1 DEF PhaseOf
    <2>3. \A n \in Messages : n # m => PhaseOf(n)' = PhaseOf(n)
      BY DEF PhaseOf
    <2> QED
      BY <2>1, <2>2, <2>3, OnePhaseMoves DEF SQ!Next, SQ!Drained
  <1> QED
    BY <1>1, <1>2

(* A prompt that finishes without a fence ends, or is dropped from the queue.*)
LEMMA EndsSerial ==
    ASSUME IInv, Ends
    PROVE  SQ!Next
  <1> PICK m \in Queue, outcome \in Finished : Finish(m, outcome) /\ awaiting' = awaiting
    BY DEF Ends
  <1>1. /\ \A n \in Messages : msg'[n] = IF n = m THEN outcome ELSE msg[n]
        /\ m \in Messages /\ msg[m] \in Unfinished
    BY DEF Finish, IInv, TypeOK, RowsOK, Queue
  <1>2. m \notin awaiting
    BY <1>1 DEF IInv, QueueInv, FencedFailed, Unfinished
  <1>3. PhaseOf(m) \in {"waiting", "running"} /\ PhaseOf(m)' = "over"
    BY <1>1, <1>2 DEF PhaseOf, Unfinished, Finished
  <1>4. \A n \in Messages : n # m => PhaseOf(n)' = PhaseOf(n)
    BY <1>1 DEF PhaseOf
  <1> QED
    BY <1>1, <1>3, <1>4, OnePhaseMoves DEF SQ!Next, SQ!End, SQ!Drop

(* A stop halts the running prompt.                                        *)
LEMMA HaltsSerial ==
    ASSUME IInv, Halts
    PROVE  SQ!Next
  <1> PICK m \in Processing, released \in SUBSET Messages : StopPrompt(m, released)
    BY DEF Halts
  <1>1. /\ \A n \in Messages : msg'[n] = IF n = m THEN "failed" ELSE msg[n]
        /\ m \in Messages /\ msg[m] = "processing"
    BY DEF StopPrompt, Finish, IInv, TypeOK, RowsOK, Processing
  <1>2. awaiting = {} /\ awaiting' = {m}
    BY <1>1 DEF StopPrompt, IInv, QueueInv, OneAtATime, FencedFailed
  <1>3. PhaseOf(m) = "running" /\ PhaseOf(m)' = "draining"
    BY <1>1, <1>2 DEF PhaseOf
  <1>4. \A n \in Messages : n # m => PhaseOf(n)' = PhaseOf(n)
    BY <1>1, <1>2 DEF PhaseOf
  <1> QED
    BY <1>1, <1>3, <1>4, OnePhaseMoves DEF SQ!Next, SQ!Halt

(* Admission submits.                                                      *)
LEMMA EnqueueSerial ==
    ASSUME IInv, Enqueue
    PROVE  SQ!Next
  <1> PICK m \in Messages :
           /\ msg[m] = "absent" /\ \A n \in Messages : n < m => msg[n] # "absent"
           /\ msg' = [msg EXCEPT ![m] = "pending"]
    BY DEF Enqueue
  <1>1. awaiting' = awaiting /\ \A n \in Messages : msg'[n] = IF n = m THEN "pending" ELSE msg[n]
    BY DEF Enqueue, fence, IInv, TypeOK, RowsOK
  <1>2. m \notin awaiting
    BY DEF IInv, QueueInv, FencedFailed
  <1>3. PhaseOf(m) = "absent" /\ PhaseOf(m)' = "waiting"
    BY <1>1, <1>2 DEF PhaseOf
  <1>4. \A n \in Messages : n # m => PhaseOf(n)' = PhaseOf(n)
    BY <1>1 DEF PhaseOf
  <1>5. \A n \in Messages : n < m => Phase[n] # "absent"
    BY PhaseTyped DEF PhaseOf
  <1> QED
    BY <1>3, <1>4, <1>5, OnePhaseMoves DEF SQ!Next, SQ!Submit

(* Cancelling the session closes the queue.                                *)
LEMMA CancelSerial ==
    ASSUME IInv, CancelSession
    PROVE  SQ!Next
  <1>1. /\ \A n \in Messages : msg'[n] = IF n \in Queue THEN "failed" ELSE msg[n]
        /\ awaiting' = awaiting
    BY DEF CancelSession, fence
  <1>2. \A n \in Messages : n \in Queue <=> PhaseOf(n) \in {"waiting", "running"}
    BY DEF IInv, QueueInv, FencedFailed, Queue, Unfinished, PhaseOf
  <1>3. \A n \in Messages :
           PhaseOf(n)' = IF PhaseOf(n) \in {"waiting", "running"} THEN "over" ELSE PhaseOf(n)
    BY <1>1, <1>2 DEF PhaseOf, IInv, QueueInv, FencedFailed, Queue, Unfinished
  <1> QED
    BY <1>3, PhaseTyped DEF SQ!Next, SQ!Close

(* Withdrawal drops.                                                       *)
LEMMA WithdrawSerial ==
    ASSUME IInv, NEW m \in Messages, Withdraw(m)
    PROVE  SQ!Next
  <1>1. /\ \A n \in Messages : msg'[n] = IF n = m THEN "withdrawn" ELSE msg[n]
        /\ msg[m] = "pending" /\ awaiting' = awaiting
    BY DEF Withdraw, fence, IInv, TypeOK, RowsOK
  <1>2. m \notin awaiting
    BY <1>1 DEF IInv, QueueInv, FencedFailed
  <1>3. PhaseOf(m) = "waiting" /\ PhaseOf(m)' = "over"
    BY <1>1, <1>2 DEF PhaseOf
  <1>4. \A n \in Messages : n # m => PhaseOf(n)' = PhaseOf(n)
    BY <1>1 DEF PhaseOf
  <1> QED
    BY <1>3, <1>4, OnePhaseMoves DEF SQ!Next, SQ!Drop

(* Sending starts the oldest waiting prompt, when nothing runs or drains.  *)
LEMMA SendSerial ==
    ASSUME IInv, NEW p \in Pumps, PumpSends(p)
    PROVE  SQ!Next
  <1> PICK m \in Messages : m = held[p]
    BY HeldTyped DEF PumpSends, IInv
  <1>1. /\ msg[m] = "pending"
        /\ \A n \in Messages : msg'[n] = IF n = m THEN "processing" ELSE msg[n]
        /\ awaiting' = awaiting
    BY DEF PumpSends, CanClaim, fence, IInv, TypeOK, RowsOK
  <1>2. IsHead(m) /\ Processing = {} /\ awaiting = {}
    BY <1>1 DEF PumpSends, IInv, QueueInv, HeldPromptSafe
  <1>3. PhaseOf(m) = "waiting" /\ PhaseOf(m)' = "running"
    BY <1>1, <1>2 DEF PhaseOf
  <1>4. \A n \in Messages : n # m => PhaseOf(n)' = PhaseOf(n)
    BY <1>1 DEF PhaseOf
  <1>5. SQ!Busy = {}
    BY <1>2, PhaseTyped DEF SQ!Busy, PhaseOf, Processing
  <1>6. \A n \in Messages : n < m => Phase[n] # "waiting"
    BY <1>2, PhaseTyped DEF IsHead, PhaseOf
  <1> QED
    BY <1>3, <1>4, <1>5, <1>6, OnePhaseMoves DEF SQ!Next, SQ!Start

(* A new session is an empty serial queue.                                 *)
LEMMA InitSerial == Init => SQ!Init
  BY DEF Init, SQ!Init, Phase

(* Every step of the code is one of the serial queue or invisible to it.   *)
LEMMA StepSerial ==
    ASSUME IInv, [Next]_vars
    PROVE  [SQ!Next]_Phase
  BY StepKinds, QuietSerial, EndsSerial, HaltsSerial, EnqueueSerial, CancelSerial,
     WithdrawSerial, SendSerial DEF StepKind, IInv

(* The queue of a session implements a serial queue: prompts are taken up  *)
(* in order, one at a time, a stopped one holds the queue until its fence  *)
(* falls, and what is over stays over.                                     *)
THEOREM RefinesSerialQueue == Spec => ImplementsSerialQueue
  BY InitSerial, StepSerial, Invariance, PTL DEF Spec, ImplementsSerialQueue, SQ!Spec

-----------------------------------------------------------------------------
(* Nothing is stranded: every step that makes a prompt sendable, and every *)
(* step that takes away who would have pumped, leaves somebody who will.   *)

(* A caller that has reached processMessageQueue will pump.                *)
LEMMA KickPumps ==
    ASSUME IInv, Kick
    PROVE  NothingStranded'
  BY BoundsAssumption DEF IInv, TypeOK, ContsOK, Kick, Bump, NothingStranded, SomeoneWillPump

(* So will one that awaits the termination of the sandbox.                 *)
LEMMA ResumePumps ==
    ASSUME IInv, resumes' = Bump(resumes, MaxResumes)
    PROVE  NothingStranded'
  BY BoundsAssumption DEF IInv, TypeOK, ContsOK, Bump, NothingStranded, SomeoneWillPump

(* A step that touches neither the rows nor who pumps, and sends nothing a *)
(* prompt waits for.                                                       *)
LEMMA NothingNew ==
    ASSUME NothingStranded, UNCHANGED <<msg, kicks, resumes, settling, held>>,
           Sendable' => Sendable
    PROVE  NothingStranded'
  BY DEF NothingStranded, SomeoneWillPump

(* In particular one that leaves the session and its fences alone too, and *)
(* connects nothing.                                                       *)
LEMMA NothingConnects ==
    ASSUME NothingStranded, UNCHANGED <<msg, session, exhausted, awaiting>>,
           UNCHANGED <<kicks, resumes, settling, held>>, Connected' => Connected
    PROVE  NothingStranded'
  <1>1. Sendable' => Sendable
    BY DEF Sendable, Promptable, Processing
  <1> QED
    BY <1>1, NothingNew

(* Losing or terminating the sandbox connects nothing.                     *)
LEMMA TerminateConnects == ASSUME Terminate PROVE Connected' => Connected
  BY DEF Terminate, boxVars, Connected

LEMMA SpawnConnects == ASSUME SpawnSandbox, ~Connected PROVE ~Connected'
  BY DEF SpawnSandbox, boxVars, Connected

(* A pump that finds a prompt it could send holds it.                      *)
LEMMA PrefixPumps ==
    ASSUME IInv, NEW p \in Pumps, PumpPrefix(p), UNCHANGED <<msg, session, exhausted, awaiting>>
    PROVE  NothingStranded'
  <1> SUFFICES ASSUME Sendable' PROVE SomeoneWillPump'
    BY DEF NothingStranded
  <1>1. /\ Promptable /\ ~exhausted /\ Processing = {} /\ awaiting = {}
        /\ {m \in Messages : msg[m] = "pending"} # {}
    BY DEF Sendable, Promptable, Processing
  <1>2. PICK m \in Messages : IsHead(m) /\ held' = [held EXCEPT ![p] = m]
    BY <1>1 DEF PumpPrefix
  <1>3. held'[p] = m /\ m # NoMsg /\ msg'[m] = "pending"
    BY <1>2, BoundsAssumption DEF IsHead, IInv, TypeOK, ContsOK, Messages, NoMsg
  <1> QED
    BY <1>3 DEF SomeoneWillPump

(* A pump that ends with a prompt that is no longer pending is not missed: *)
(* it was not counted upon.                                                *)
LEMMA HoldDropped ==
    ASSUME IInv, NothingStranded, NEW p \in Pumps, msg[held[p]] # "pending",
           held' = [held EXCEPT ![p] = NoMsg],
           UNCHANGED <<msg, session, exhausted, awaiting, kicks, resumes, settling, box, sock>>
    PROVE  NothingStranded'
  <1>1. Sendable' => Sendable
    BY DEF Sendable, Promptable, Processing, Connected
  <1>2. \A q \in Pumps \ {p} : held'[q] = held[q]
    BY DEF IInv, TypeOK, ContsOK
  <1>3. ASSUME NEW q \in Pumps, held[q] # NoMsg, msg[held[q]] = "pending"
        PROVE  held'[q] # NoMsg /\ msg'[held'[q]] = "pending"
    <2>1. q # p
      BY <1>3
    <2> QED
      BY <1>2, <1>3, <2>1
  <1>4. SomeoneWillPump => SomeoneWillPump'
    BY <1>3 DEF SomeoneWillPump
  <1> QED
    BY <1>1, <1>4 DEF NothingStranded

LEMMA PumpStrandsNothing ==
    ASSUME IInv, NothingStranded, ~CallFailures, NEW p \in Pumps, Pump(p)
    PROVE  NothingStranded'
  <1>1. CASE PumpBegin(p)
    BY <1>1, PrefixPumps DEF PumpBegin, rows, fence
  <1>2. CASE PumpExhausted(p)
    BY <1>2 DEF PumpExhausted, NothingStranded, Sendable
  <1>3. CASE PumpAuthFails(p)
    <2>1. CASE msg[held[p]] = "pending"
      BY <1>3, <2>1, KickPumps DEF PumpAuthFails
    <2>2. CASE msg[held[p]] # "pending"
      BY <1>3, <2>2, HoldDropped DEF PumpAuthFails, rows, fence, boxVars
    <2> QED
      BY <2>1, <2>2
  <1>4. CASE PumpWithoutSocket(p)
    <2>1. CASE Promptable /\ msg[held[p]] = "pending"
      BY <1>4, <2>1, SpawnConnects DEF PumpWithoutSocket, NothingStranded, Sendable
    <2>2. CASE ~(Promptable /\ msg[held[p]] = "pending")
      BY <1>4, <2>2, PrefixPumps DEF PumpWithoutSocket, rows, fence
    <2> QED
      BY <2>1, <2>2
  <1>5. CASE PumpSends(p)
    <2>1. held[p] \in Messages /\ msg' = [msg EXCEPT ![held[p]] = "processing"]
      BY <1>5 DEF PumpSends, IInv, TypeOK, ContsOK, Messages, NoMsg
    <2>2. msg'[held[p]] = "processing"
      BY <2>1 DEF IInv, TypeOK, RowsOK
    <2> QED
      BY <2>1, <2>2 DEF NothingStranded, Sendable, Processing
  <1>6. CASE PumpSendFails(p)
    BY <1>6, ResumePumps DEF PumpSendFails
  <1>7. CASE PumpLosesClaim(p)
    <2>1. CASE msg[held[p]] # "pending"
      BY <1>7, <2>1, HoldDropped DEF PumpLosesClaim, rows, fence, boxVars
    <2>2. CASE Processing # {}
      BY <1>7, <2>2 DEF PumpLosesClaim, NothingStranded, Sendable, Processing, rows
    <2> QED
      BY <1>7, <2>1, <2>2 DEF PumpLosesClaim, CanClaim
  <1> QED
    BY <1>1, <1>2, <1>3, <1>4, <1>5, <1>6, <1>7 DEF Pump, PumpLookupFails

LEMMA StopStrandsNothing ==
    ASSUME IInv, NothingStranded, Stop
    PROVE  NothingStranded'
  <1>1. CASE StopExecution
    BY <1>1 DEF StopExecution, StopPrompt, NothingStranded, Sendable
  <1>2. CASE ExhaustBudget
    BY <1>2 DEF ExhaustBudget, NothingStranded, Sendable
  <1>3. CASE RaiseLimit \/ ResumeAfterTermination
    BY <1>3, KickPumps DEF RaiseLimit, ResumeAfterTermination
  <1>4. CASE StopDeadlinePasses
    BY <1>4, NothingConnects DEF StopDeadlinePasses, Connected, rows, conts, boxVars
  <1>5. ASSUME NEW m \in Messages, StopUndelivered(m) PROVE NothingStranded'
    <2>1. CASE m \in awaiting
      BY <1>5, <2>1 DEF StopUndelivered, NothingStranded, Sendable, fence
    <2>2. CASE m \notin awaiting
      BY <1>5, <2>2, NothingConnects DEF StopUndelivered, Connected, rows, fence, boxVars
    <2> QED
      BY <2>1, <2>2
  <1> QED
    BY <1>1, <1>2, <1>3, <1>4, <1>5 DEF Stop

(* A closed session has nothing unfinished, so opening it strands nothing. *)
LEMMA ClosingStrandsNothing ==
    ASSUME IInv, NothingStranded, Closing
    PROVE  NothingStranded'
  <1>1. CASE Archive \/ CancelSession
    BY <1>1 DEF Archive, CancelSession, NothingStranded, Sendable, Promptable
  <1>2. CASE Unarchive \/ ExpireDraft
    <2>1. Queue = {} /\ UNCHANGED msg
      BY <1>2 DEF Unarchive, ExpireDraft, IInv, QueueInv, SessionTellsWork, rows
    <2>2. \A m \in Messages : msg'[m] # "pending"
      BY <2>1 DEF Queue, Unfinished
    <2> QED
      BY <2>2 DEF NothingStranded, Sendable
  <1>3. CASE CancelSandbox
    BY <1>3, NothingConnects DEF CancelSandbox, Connected, rows, fence
  <1> QED
    BY <1>1, <1>2, <1>3 DEF Closing

LEMMA AlarmStrandsNothing ==
    ASSUME IInv, NothingStranded, ~ExecutionTimeouts, ~SandboxFaults, ~CallFailures,
           alarm # "giveup", Alarm
    PROVE  NothingStranded' /\ alarm' # "giveup"
  <1>1. CASE AlarmFires
    <2>1. Connected' => Connected
      BY <1>1, TerminateConnects DEF AlarmFires, Connected, boxVars
    <2> QED
      BY <1>1, <2>1, NothingConnects DEF AlarmFires, ToStage, rows, fence
  <1>2. CASE AlarmRecovers \/ AlarmResumes
    BY <1>2, KickPumps DEF AlarmRecovers, AlarmResumes, ToStage
  <1>3. CASE NothingTimesOut
    BY <1>3, NothingConnects DEF NothingTimesOut, ToStage, Connected, rows, fence, boxVars
  <1>4. CASE SandboxChecked
    BY <1>4, NothingConnects DEF SandboxChecked, ToStage, Connected, rows, fence
  <1>5. CASE SandboxTerminated
    BY <1>5 DEF SandboxTerminated, ToStage, NothingStranded, Sendable, Connected
  <1> QED
    BY <1>1, <1>2, <1>3, <1>4, <1>5 DEF Alarm, ExecutionTimesOut, SandboxGivenUp, AlarmThrows

LEMMA SandboxStrandsNothing ==
    ASSUME IInv, NothingStranded, ~SandboxFaults, Sandbox
    PROVE  NothingStranded' /\ UNCHANGED alarm
  <1>1. CASE Warm
    BY <1>1, SpawnConnects DEF Warm, NothingStranded, Sendable, conts
  <1>2. CASE SpawnFails \/ Disconnect
    BY <1>2 DEF SpawnFails, Disconnect, NothingStranded, Sendable, Connected, conts
  <1>3. CASE Connect
    BY <1>3, KickPumps DEF Connect
  <1>4. CASE BridgeReads \/ \E m \in Messages : BridgeFinishes(m)
    BY <1>4, NothingConnects DEF BridgeReads, BridgeFinishes, Connected, rows, fence, conts
  <1> QED
    BY <1>1, <1>2, <1>3, <1>4 DEF Sandbox, FatalFailure

LEMMA StepStrandsNothing ==
    ASSUME IInv, NothingStranded, alarm # "giveup", [Next]_vars,
           ~Withdrawals, ~ExecutionTimeouts, ~SandboxFaults, ~Restarts, ~CallFailures
    PROVE  NothingStranded' /\ alarm' # "giveup"
  <1>1. CASE UNCHANGED vars
    BY <1>1, NothingConnects DEF vars, rows, fence, conts, boxVars, Connected
  <1>2. CASE Client
    BY <1>2, KickPumps DEF Client, Enqueue, Resubmit, Withdraw
  <1>3. CASE \E p \in Pumps : Pump(p)
    <2>1. UNCHANGED alarm
      BY <1>3 DEF Pump, PumpBegin, PumpExhausted, PumpAuthFails, PumpLookupFails,
         PumpWithoutSocket, PumpSends, PumpSendFails, PumpLosesClaim
    <2> QED
      BY <1>3, <2>1, PumpStrandsNothing
  <1>4. CASE Stop
    <2>1. UNCHANGED alarm
      BY <1>4 DEF Stop, StopExecution, ExhaustBudget, RaiseLimit, StopDeadlinePasses,
         ResumeAfterTermination, StopUndelivered, conts
    <2> QED
      BY <1>4, <2>1, StopStrandsNothing
  <1>5. CASE Finishing
    <2>1. PICK m \in Messages : Settle(m) \/ \E outcome \in Finished : Complete(m, outcome)
      BY <1>5 DEF Finishing
    <2>2. Kick \/ settling' # {}
      BY <2>1 DEF Settle, Complete, KickIfArmed
    <2>3. NothingStranded'
      BY <2>2, KickPumps DEF NothingStranded, SomeoneWillPump
    <2> QED
      BY <2>1, <2>3 DEF Settle, Complete
  <1>6. CASE Closing
    <2>1. UNCHANGED alarm
      BY <1>6 DEF Closing, Archive, Unarchive, ExpireDraft, CancelSession, CancelSandbox, conts
    <2> QED
      BY <1>6, <2>1, ClosingStrandsNothing
  <1>7. CASE Alarm
    BY <1>7, AlarmStrandsNothing
  <1>8. CASE Sandbox
    BY <1>8, SandboxStrandsNothing
  <1> QED
    BY <1>1, <1>2, <1>3, <1>4, <1>5, <1>6, <1>7, <1>8 DEF Next, Restart

(* A prompt that could be sent is never left to wait for the next client   *)
(* command, as long as clients remove no prompts, none outlives the        *)
(* execution timeout, the sandbox fails only to start or to stay           *)
(* connected, the object is not evicted and no alarm write or              *)
(* provider-auth lookup before a pump is refused: with any one of these    *)
(* the code does strand a prompt (processMessageQueue and everyone who     *)
(* awaits it).                                                             *)
THEOREM NothingIsStranded ==
    ASSUME ~Withdrawals, ~ExecutionTimeouts, ~SandboxFaults, ~Restarts, ~CallFailures
    PROVE  Spec => []NothingStranded
  <1>1. Init => NothingStranded /\ alarm # "giveup"
    BY DEF Init, NothingStranded, Sendable, Connected
  <1>2. IInv /\ NothingStranded /\ alarm # "giveup" /\ [Next]_vars
          => (NothingStranded /\ alarm # "giveup")'
    BY StepStrandsNothing
  <1> QED
    BY Invariance, <1>1, <1>2, PTL DEF Spec

=============================================================================
