------------------------- MODULE MCAutomationRuns -------------------------
EXTENDS AutomationRuns, TLC

CONSTANTS f1, f2, t1, t2, k1, k2, e1

Symmetry == Permutations(Firings) \cup Permutations(Keys)

=============================================================================
