CONSTANTS
    f1 = f1
    f2 = f2
    t1 = t1
    t2 = t2
    k1 = k1
    k2 = k2
    e1 = e1
    Firings = {f1,f2}
    Targets = {t1}
    Keys = {k1}
    Events = {e1}
    Threshold = 2
    MaxNow = 2
    MaxUpsets = 0

SPECIFICATION Spec
PROPERTIES
    SlotsAreKept
CHECK_DEADLOCK FALSE
