SPECIFICATION Spec
CONSTANTS
    MaxMsg = 2
    Pumps = {p1, p2}
    Capacity = 2
    MaxKicks = 1
    MaxResumes = 1
    MaxInbox = 2
    ExecutionTimeouts = FALSE
    SandboxFaults = FALSE
    Restarts = FALSE
    CallFailures = FALSE
    Withdrawals = FALSE
SYMMETRY PumpSymmetry
INVARIANTS
    NothingStranded
