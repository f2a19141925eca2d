CONSTANTS
    Sessions = {a, b}
    a = a
    b = b
    MaxTime = 4
    MaxDeadline = 2

SPECIFICATION Spec
SYMMETRY SessionSymmetry
INVARIANTS
    RunsUnclean
    NothingForgotten
