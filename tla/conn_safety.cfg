SPECIFICATION Spec
CONSTANTS
  Users = {u1}
  Conns = {c1, c2}
  NoUser = NoUser
  ConnPerSec = 0
  RetryAfter = 2
  ConnectTimeout = 1
  MaxErrors = 1
  Env = {"force", "slow", "freed"}
SYMMETRY ConnSymmetry
INVARIANTS TypeOK AssociatedHasItem OneConnectionPerDirection ActiveItemHasConnection RunningHasDownload
CHECK_DEADLOCK FALSE
