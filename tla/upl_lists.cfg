SPECIFICATION Spec
CONSTANTS
  Users = {u1, u2}
  Conns = {c1, c2}
  NoUser = NoUser
  Slots = 1
  ExtraSlots = 1
  PartialSlots = 1
  AutoSlots = 0
  Favorites = {}
  Env = {"reserve", "auto", "op"}
SYMMETRY Symmetry
INVARIANTS TypeOK CountersMatch DelayedUploadIsOwned
CHECK_DEADLOCK FALSE
