--------------------------- MODULE MCPromptQueue ---------------------------
(* Instances of PromptQueue for TLC.                                       *)
EXTENDS PromptQueue, TLC

(* Overlapping pumps are interchangeable.                                  *)
PumpSymmetry == Permutations(Pumps)

=============================================================================
