SPECIFICATION Spec
CONSTANTS
    Hubs = {h1}
    Adc = {h1}
    Users = {me, a}
    a = a
    b = a
    Me = me
    Guests <- MCGuests
    Sids = {s1}
    Refreshes = 0
    Env = {"close"}
INVARIANTS
    NoSocketLeft
CHECK_DEADLOCK FALSE
