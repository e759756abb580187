SPECIFICATION FairSpec
CONSTANTS
    Symbols = {"|", "a", "d", "e", "f", "z"}
    Streams <- MCStreams
    DataSize = 2
    FileSize = 1
    MaxAsked = 3
    MaxTasks = 3
    Env = {}
INVARIANTS
    TypeOK
    SentInOrder
    WaitingIsScheduled
    HeardAsSent
PROPERTIES
    PoliteIsComplete
    KeepsCalls
CHECK_DEADLOCK FALSE
