SPECIFICATION FairSpec
CONSTANTS
    Users = {u1, u2}
    Size = 3
    Ragged = FALSE
    MaxSegments = 2
    TreeUsers = {u1}
    Env = {"crash", "corrupt", "random", "gone"}
INVARIANTS
    UserQueueIsCache
    ExactlyFinished
PROPERTIES
    ProgressIsKept
    FileFinishes
CHECK_DEADLOCK FALSE
