SPECIFICATION Spec
CONSTANTS
    Devices = {d1}
    Workers = {w1, w2}
    Hosts = {h1, h2}
    Handlers = {a1}
    Loop = loop
    NoWorker = NoWorker
    NoHost = NoHost
    NoDevice = NoDevice
    MaxEdits = 1
    MaxFaults = 1
SYMMETRY Symmetry
INVARIANTS
    TypeOK RegisteredOpen NoOrphan NoGhost FeedAgrees RateSameHost
