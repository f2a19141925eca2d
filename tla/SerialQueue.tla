---------------------------- MODULE SerialQueue ----------------------------
(***************************************************************************)
(* What the prompt queue of a session promises its users: prompts are      *)
(* taken up in the order they were submitted, one at a time; a stopped     *)
(* prompt keeps its place until the sandbox is known to be rid of it; what *)
(* is over stays over.  PromptQueue implements it.                         *)
(***************************************************************************)
EXTENDS Naturals

CONSTANT Prompts    \* natural numbers, in the order they are submitted

VARIABLE phase

Phases == {"absent", "waiting", "running", "draining", "over"}

Busy == {m \in Prompts : phase[m] \in {"running", "draining"}}

Move(m, from, to) == phase[m] = from /\ phase' = [phase EXCEPT ![m] = to]

Init == phase = [m \in Prompts |-> "absent"]

Submit(m) == /\ \A n \in Prompts : n < m => phase[n] # "absent"
             /\ Move(m, "absent", "waiting")

Start(m)  == /\ Busy = {}
             /\ \A n \in Prompts : n < m => phase[n] # "waiting"
             /\ Move(m, "waiting", "running")

End(m)     == Move(m, "running", "over")
Halt(m)    == Move(m, "running", "draining")
Drained(m) == Move(m, "draining", "over")
Drop(m)    == Move(m, "waiting", "over")

(* Everything unfinished is over at once.                                  *)
Close == phase' = [m \in Prompts |->
                     IF phase[m] \in {"waiting", "running"} THEN "over" ELSE phase[m]]

Next == Close \/ \E m \in Prompts :
          Submit(m) \/ Start(m) \/ End(m) \/ Halt(m) \/ Drained(m) \/ Drop(m)

Spec == Init /\ [][Next]_phase

=============================================================================
