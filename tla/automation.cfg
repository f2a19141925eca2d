CONSTANTS
    f1 = f1
    f2 = f2
    t1 = t1
    t2 = t2
    k1 = k1
    k2 = k2
    e1 = e1
    Firings = {f1, f2}
    Targets = {t1}
    Keys = {k1, k2}
    Events = {e1}
    Threshold = 2
    MaxNow = 2
    MaxUpsets = 1

SPECIFICATION Spec
INVARIANTS
    NoOverlap
    OneStrikeEach
    PauseFollows
PROPERTIES
    NeverRewinds
SYMMETRY Symmetry
CHECK_DEADLOCK FALSE
