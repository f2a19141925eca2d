CONSTANTS
    MaxStamp = 2
    Threshold = 2
    Slots = {k1}
    k1 = k1
    CanStop = TRUE
    CanResume = TRUE
    CanSnapshot = FALSE
    HasImages = TRUE
    Early = TRUE
    StopFails = TRUE
    AlarmFails = FALSE
    Restarts = TRUE
SPECIFICATION FairSpec
INVARIANTS
    SocketIsCurrent
    LiveIsWatched
PROPERTIES
    RetiredStays
    StartupEnds
    FlagFalls
    LossIsNoticed
CHECK_DEADLOCK FALSE
