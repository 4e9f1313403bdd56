SPECIFICATION FairSpec
CONSTANTS
    Devices = {d1}
    Conns = {c1}
    Kinds <- StatusOnly
    None = None
    SendCap = 1
    InFlight = 1
    MaxChanges = 0
    MaxEvents = 0
PROPERTIES
    SubscribesEnd
