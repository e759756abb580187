SPECIFICATION Spec
CONSTANTS
    Users = {u1, u2}
    Size = 2
    Ragged = TRUE
    MaxSegments = 2
    TreeUsers = {}
    Env = {"overlap", "drop", "late", "readd", "recheck"}
SYMMETRY Symmetry
INVARIANTS
    TypeOK
    DoneIsGood
    NoDoubleWork
CHECK_DEADLOCK FALSE
