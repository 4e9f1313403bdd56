SPECIFICATION Spec
CONSTANTS
    Users = {u1, u2}
    Tokens = {t1, t2, t3}
    Handlers = {a1, a2}
    None = None
    TTL = 2
    Zone <- West
    Horizon = 2
    MaxRequests = 4
    MaxChanges = 2
    MaxFaults = 1
SYMMETRY Symmetry
INVARIANTS
    OldSessionsRevoked
PROPERTIES
    CountedAdminStays SessionLifetime
