SPECIFICATION Spec
CONSTANTS
    MaxMsg = 2
    Pumps = {p1, p2}
    Capacity = 2
    MaxKicks = 1
    MaxResumes = 1
    MaxInbox = 2
    ExecutionTimeouts = TRUE
    SandboxFaults = FALSE
    Restarts = TRUE
    CallFailures = TRUE
    Withdrawals = TRUE
SYMMETRY PumpSymmetry
INVARIANTS
    OneAtATime
    HeldPromptSafe
    SessionTellsWork
PROPERTIES
    CleanDispatch
    OutcomeIsFinal
    ImplementsSerialQueue
