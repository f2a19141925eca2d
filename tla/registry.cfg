CONSTANTS
    a = a
    b = b
    c1 = c1
    c2 = c2
    Sessions = {a, b}
    Wired = {a}
    Callers = {c1, c2}
    Alarms = {c2}
    MaxResident = 1

SPECIFICATION FairSpec
INVARIANTS
    LeasesCounted
PROPERTIES
    NotUnderneath
    BeyondBoundIfBusy
    ShutdownCompletes
    CallersServed
CHECK_DEADLOCK FALSE
