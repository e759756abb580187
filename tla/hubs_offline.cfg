SPECIFICATION Spec
CONSTANTS
    Hubs = {h1, h2}
    Adc = {h1, h2}
    Users = {me, a}
    a = a
    b = a
    Me = me
    Guests <- MCGuests
    Sids = {s1}
    Refreshes = 0
    Env = {}
INVARIANTS
    OfflineIsUnlisted
CHECK_DEADLOCK FALSE
