-------------------------- MODULE MCCrashRecovery --------------------------
(* CrashRecovery for TLC: sessions are interchangeable.                    *)
EXTENDS CrashRecovery, TLC

SessionSymmetry == Permutations(Sessions)

=============================================================================
