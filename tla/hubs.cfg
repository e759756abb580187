SPECIFICATION FairSpec
CONSTANTS
    Hubs = {h1, h2}
    Adc = {h1}
    Users = {me, a}
    a = a
    b = me
    Me = me
    Guests <- MCGuests
    Sids = {s1}
    Refreshes = 1
    Env = {}
INVARIANTS
    TypeOK
    ListIsUnion
    OnlineIsListed
    StateIsTrue
    CountedIsUp
PROPERTIES
    ReconnectHappens
CHECK_DEADLOCK FALSE
