---------------------------- MODULE SandboxSlot ----------------------------
(***************************************************************************)
(* What a session promises about the sandboxes it pays for: they run one   *)
(* after another.  Each is created at most once, as the newest of them,    *)
(* and only when nothing runs any more.  SandboxLifecycle implements it    *)
(* with a provider that can stop sandboxes and stops them when asked.      *)
(***************************************************************************)
EXTENDS Naturals

VARIABLES
    newest,     \* sandboxes reserved so far; the last one's number
    due,        \* the newest is still to be created
    up          \* the sandboxes that run

slot == <<newest, due, up>>

Init == newest = 0 /\ due = FALSE /\ up = {}

(* A replacement is reserved, while what it replaces may go on running.  A *)
(* creation that was still due will not happen; the new one's may fail     *)
(* before it is tried.                                                     *)
Reserve == newest' = newest + 1 /\ due' \in BOOLEAN /\ UNCHANGED up

Create == due /\ up = {} /\ due' = FALSE /\ up' = {newest} /\ UNCHANGED newest

GiveUp == due /\ due' = FALSE /\ UNCHANGED <<newest, up>>

Stop == up # {} /\ up' = {} /\ UNCHANGED <<newest, due>>

Next == Reserve \/ Create \/ GiveUp \/ Stop

Spec == Init /\ [][Next]_slot

=============================================================================
