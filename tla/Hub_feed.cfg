SPECIFICATION ServerSpec
CONSTANTS
    Devices = {d1}
    Conns = {c1}
    Kinds <- Light
    None = None
    SendCap = 1
    InFlight = 1
    MaxChanges = 2
    MaxEvents = 1
INVARIANTS
    NoSendOnClosed PageFollows
PROPERTIES
    BroadcastEnds
    LostClientLeaves
CHECK_DEADLOCK FALSE
