CONSTANTS
    Sessions = {a, b, c}
    a = a
    b = b
    c = c
    Hanging = {a}
    MaxConcurrent = 2
    Lease = 2
    Blind = 1
    Backoff = 1
    MaxDelay = 1
    MaxFaults = 1

SPECIFICATION FairSpec
INVARIANTS
    BoundHolds
PROPERTIES
    NeverOverlapped
    DueIsServed
