------------------------- MODULE MCSandboxLifecycle -------------------------
(* SandboxLifecycle for TLC: background snapshots are interchangeable. *)
EXTENDS SandboxLifecycle, TLC

SlotSymmetry == Permutations(Slots)

=============================================================================
