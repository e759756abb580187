SPECIFICATION Spec
CONSTANTS
    Users = {u1, u2}
    Size = 2
    Ragged = FALSE
    MaxSegments = 2
    TreeUsers = {u1, u2}
    Env = {"recheck"}
SYMMETRY Symmetry
INVARIANT UserQueueIsCache
CHECK_DEADLOCK FALSE
