--------------------------- MODULE CrashRecovery ---------------------------
(***************************************************************************)
(* What a boot of the Node host knows about the stop before it:            *)
(* node/crash-recovery.ts, with the writers of what it reads (the alarm    *)
(* scheduler of each session and the end of node/host.ts).                 *)
(*                                                                         *)
(* A session writes its earliest deadline to its own file and then to the  *)
(* host's index; a process that ends in between leaves a deadline that     *)
(* only the file has, and so does an index that refuses the write.  The    *)
(* marker names a moment through which the index is complete, and says     *)
(* whether the process stopped cleanly at it.  After any other stop the    *)
(* boot reads the files written since that moment.                         *)
(*                                                                         *)
(* The index holds a deadline while it is armed or being delivered; what a *)
(* delivery does to file and index, step by step, is AlarmSlot's.          *)
(***************************************************************************)
EXTENDS Naturals

CONSTANTS
    Sessions,
    MaxTime,        \* bound: the wall clock stays below it
    MaxDeadline     \* bound: deadlines are numbered in order

ASSUME RecoveryAssumption == MaxTime \in Nat \ {0} /\ MaxDeadline \in Nat \ {0}

Time  == 1..MaxTime
Never == MaxDeadline + 1    \* no deadline

VARIABLES
    wall,       \* Date.now() and the clock of the file timestamps
    up,         \* the host runs
    marker,     \* host-state.json: indexedThroughMs and cleanShutdown
    file,       \* session_alarm_state: the earliest deadline of each session
    written,    \* the last write of each session's file
    index,      \* session_deadlines: the earliest deadline armed or in flight
    owed,       \* sessions whose file has a deadline that is about to be armed
    refused,    \* history: the index refused that write, and nobody armed it since
    lost        \* history: refused, and then the process was marked as stopped cleanly

history == <<refused, lost>>
vars == <<wall, up, marker, file, written, index, owed, history>>

Earlier(a, b) == IF a < b THEN a ELSE b

(* No marker, and SCAN_EVERYTHING_MS: the next boot reads every file.      *)
ScanEverything == [through |-> 0, clean |-> FALSE]

-----------------------------------------------------------------------------
(* What reached the index or left the file is no longer missing.           *)
NotMissing(S) == refused' = refused \ S /\ lost' = lost \ S

(* schedule(): the deadline is in the session's file, which is written if  *)
(* it is the earliest.                                                     *)
Persist(s, d) ==
    /\ up
    /\ \/ /\ d < file[s]
          /\ file' = [file EXCEPT ![s] = d]
          /\ written' = [written EXCEPT ![s] = wall]
          /\ lost' = lost \ {s}
       \/ d >= file[s] /\ UNCHANGED <<file, written, lost>>
    /\ owed' = owed \cup {s}
    /\ UNCHANGED <<wall, up, marker, index, refused>>

(* And then in the index.                                                  *)
ArmIndex(s) ==
    /\ s \in owed /\ owed' = owed \ {s}
    /\ index' = [index EXCEPT ![s] = Earlier(@, file[s])]
    /\ NotMissing({s})
    /\ UNCHANGED <<wall, up, marker, file, written>>

(* Unless the index cannot be read or written: schedule() rejects, and the *)
(* deadline stays persisted.                                               *)
ArmFails(s) ==
    /\ s \in owed /\ owed' = owed \ {s}
    /\ refused' = refused \cup {s}
    /\ UNCHANGED <<wall, up, marker, file, written, index, lost>>

(* rehydrate(): the session is activated.                                  *)
Rehydrate(s) ==
    /\ up /\ index' = [index EXCEPT ![s] = Earlier(@, file[s])]
    /\ NotMissing({s})
    /\ UNCHANGED <<wall, up, marker, file, written, owed>>

(* The deadline fires and is handled.                                      *)
Fire(s) ==
    /\ up /\ index[s] # Never /\ s \notin owed
    /\ file' = [file EXCEPT ![s] = Never]
    /\ index' = [index EXCEPT ![s] = Never]
    /\ written' = [written EXCEPT ![s] = wall]
    /\ NotMissing({s})
    /\ UNCHANGED <<wall, up, marker, owed>>

-----------------------------------------------------------------------------
(* A clean stop, unless a file is still to be read.                        *)
MarkCleanShutdown ==
    marker' = IF marker.through = 0 THEN ScanEverything
              ELSE [through |-> wall, clean |-> TRUE]

(* shutdown() abandoned nothing: no runtime is at work.  It knows nothing  *)
(* of the writes that the index refused.                                   *)
Shutdown ==
    /\ up /\ up' = FALSE /\ owed = {}
    /\ MarkCleanShutdown
    /\ IF marker.through = 0 THEN UNCHANGED history
       ELSE lost' = lost \cup refused /\ refused' = {}
    /\ UNCHANGED <<wall, file, written, index, owed>>

(* A crash, or a shutdown that left work running.                          *)
Crash ==
    /\ up /\ up' = FALSE /\ owed' = {}
    /\ UNCHANGED <<wall, marker, file, written, index, history>>

-----------------------------------------------------------------------------
(* A marker from the future means that the clock was set back.             *)
Previous == IF marker.through > wall THEN ScanEverything ELSE marker

(* The files that a scan looks at.                                         *)
InRange(s) == written[s] >= Previous.through

(* armIfSooner for what was read.                                          *)
ArmRead(S) ==
    LET scanned == {s \in S : InRange(s)} IN
    /\ index' = [s \in Sessions |-> IF s \in scanned THEN Earlier(index[s], file[s])
                                    ELSE index[s]]
    /\ NotMissing(scanned)

(* Mutant: the point moves although a file could not be read.              *)
PointAfter_Moves(unreadable) == wall

(* The point moves only over a scan that read everything it looked at.     *)
PointAfter(unreadable) == IF unreadable = {} THEN wall ELSE 0

(* Mutant: a clean stop stays marked while the host runs.                  *)
Boot_StaysClean(unreadable) ==
    /\ ~up /\ up' = TRUE
    /\ IF Previous.clean THEN UNCHANGED <<marker, index, history>>
       ELSE /\ ArmRead(Sessions \ unreadable)
            /\ marker' = [through |-> PointAfter(unreadable), clean |-> FALSE]
    /\ UNCHANGED <<wall, file, written, owed>>

(* recoverSessionDeadlines: after a clean stop nothing is read, but the    *)
(* marker stops saying so; otherwise the files in range are read, all but  *)
(* the unreadable, before anything else can run.                           *)
Boot(unreadable) ==
    /\ ~up /\ up' = TRUE
    /\ IF Previous.clean
       THEN marker' = [Previous EXCEPT !.clean = FALSE] /\ UNCHANGED <<index, history>>
       ELSE /\ ArmRead(Sessions \ unreadable)
            /\ marker' = [through |-> PointAfter(unreadable), clean |-> FALSE]
    /\ UNCHANGED <<wall, file, written, owed>>

(* The boot dies during the scan: some files were read.                    *)
BootDies(read) ==
    /\ ~up /\ ~Previous.clean
    /\ ArmRead(read)
    /\ UNCHANGED <<wall, up, marker, file, written, owed>>

(* Time passes, or the clock is set while the host is down.                *)
Tick == wall < MaxTime /\ wall' = wall + 1
        /\ UNCHANGED <<up, marker, file, written, index, owed, history>>

SetClock(t) == ~up /\ wall' = t
               /\ UNCHANGED <<up, marker, file, written, index, owed, history>>

-----------------------------------------------------------------------------
(* The first boot on a volume whose files were written by a build without  *)
(* markers, or on an empty one.                                            *)
Init ==
    /\ wall = 1 /\ up = FALSE /\ marker = ScanEverything
    /\ file \in [Sessions -> {MaxDeadline, Never}]
    /\ written = [s \in Sessions |-> 1]
    /\ index = [s \in Sessions |-> Never]
    /\ owed = {} /\ refused = {} /\ lost = {}

Next ==
    \/ \E s \in Sessions : ArmIndex(s) \/ ArmFails(s) \/ Rehydrate(s) \/ Fire(s)
    \/ \E s \in Sessions, d \in 1..MaxDeadline : Persist(s, d)
    \/ \E S \in SUBSET Sessions : Boot(S) \/ BootDies(S)
    \/ Shutdown \/ Crash \/ Tick
    \/ \E t \in Time : SetClock(t)

Spec == Init /\ [][Next]_vars

-----------------------------------------------------------------------------
(* Every variable holds a time, a deadline or a marker of the code, and a  *)
(* file without a known point is never marked clean.                       *)
TypeOK ==
    /\ wall \in Time /\ up \in BOOLEAN
    /\ marker \in [through : 0..MaxTime, clean : BOOLEAN]
    /\ file \in [Sessions -> 1..Never] /\ index \in [Sessions -> 1..Never]
    /\ written \in [Sessions -> Time]
    /\ owed \subseteq Sessions /\ refused \subseteq Sessions /\ lost \subseteq Sessions
    /\ marker.clean => marker.through # 0

(* While the host runs, the marker on disk is that of an unclean stop, at  *)
(* no time to come: a process that dies finds what it left.                *)
RunsUnclean == up => ~marker.clean /\ marker.through <= wall

Armed(s) == index[s] <= file[s]

(* No deadline is forgotten, except where the index refused it and the     *)
(* process was then marked as stopped cleanly: such a session keeps it to  *)
(* itself until it is active or writes again.  Every other deadline that   *)
(* the index does not have is in a file that the next boot reads if the    *)
(* process stops here: also where the index refused it and the process     *)
(* died, where files could not be read, boots died or the clock was set    *)
(* back.                                                                   *)
NothingForgotten ==
    \A s \in Sessions :
        ~Armed(s) => s \in lost \/ (~marker.clean /\ written[s] >= marker.through)

(* Why it holds: while the host runs, only a deadline that is about to be  *)
(* armed or was refused is missing, unless the boot could not read every   *)
(* file.                                                                   *)
UnarmedIsOwed ==
    up => \A s \in Sessions :
              ~Armed(s) => s \in owed \cup refused \cup lost \/ marker.through = 0

(* The inductive invariant.                                                *)
IInv == TypeOK /\ RunsUnclean /\ NothingForgotten /\ UnarmedIsOwed

=============================================================================
