SPECIFICATION FairSpec
CONSTANTS
    MaxMsg = 2
    Pumps = {p1}
    Capacity = 2
    MaxKicks = 1
    MaxResumes = 1
    MaxInbox = 2
    ExecutionTimeouts = TRUE
    SandboxFaults = TRUE
    Restarts = TRUE
    CallFailures = TRUE
    Withdrawals = FALSE
PROPERTIES
    StopSettles
    ProcessingEnds
