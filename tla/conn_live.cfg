SPECIFICATION FairSpec
CONSTANTS
  Users = {u1}
  Conns = {c1}
  NoUser = NoUser
  ConnPerSec = 0
  RetryAfter = 2
  ConnectTimeout = 1
  MaxErrors = 1
  Env = {"force"}

INVARIANTS WantedUserHasItem
PROPERTIES AttemptEnds IdleConnectionIsUsed
CHECK_DEADLOCK FALSE
