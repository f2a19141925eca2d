CONSTANTS
    MaxStamp = 2
    Threshold = 1
    Slots = {k1}
    k1 = k1
    CanStop = TRUE
    CanResume = FALSE
    CanSnapshot = TRUE
    HasImages = TRUE
    Early = FALSE
    StopFails = FALSE
    AlarmFails = TRUE
    Restarts = TRUE

SPECIFICATION Spec
INVARIANTS
    HandleIsOwn
    BreakerHolds
PROPERTIES
    SnapshotIsOwn
    ImplementsSandboxSlot
CHECK_DEADLOCK FALSE
