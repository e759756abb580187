SPECIFICATION FairSpec
CONSTANTS
    Files = {1}
    Chunks <- TwoChunks
    Written = {1}
    Offered = {1}
    Versions = 2
    MaxSignals = 2
    Env = {"moved", "rebuild", "toggle", "shutdown", "error"}
INVARIANTS
    PauseIsBalanced
    NoSignalIsLost
    HashIsCurrent
    MissingIsRemembered
PROPERTIES
    QueueDrains
    HasherEnds
CHECK_DEADLOCK FALSE
