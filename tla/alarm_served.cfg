SPECIFICATION FairSpec
CONSTANTS
    MaxTime = 3
    MaxRetries = 1
    MaxFaults = 3
INVARIANTS
    StopIsArmed
PROPERTIES
    StopIsRecovered
