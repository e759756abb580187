SPECIFICATION FairSpec
CONSTANTS
  Users = {u1, u2}
  Conns = {c1, c2}
  NoUser = NoUser
  Slots = 1
  ExtraSlots = 1
  PartialSlots = 1
  AutoSlots = 0
  Favorites = {}
  Env = {"race"}

INVARIANTS PromisedSlotsExist SlotLimits
PROPERTIES WaitingUserIsCalled KeepsPromises
CHECK_DEADLOCK FALSE
