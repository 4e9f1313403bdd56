SPECIFICATION ConfiguredSpec
CONSTANTS
    Devices = {d1}
    Workers = {w1, w2}
    Hosts = {h1}
    Handlers = {a1}
    Loop = loop
    NoWorker = NoWorker
    NoHost = NoHost
    NoDevice = NoDevice
    MaxEdits = 1
    MaxFaults = 0

PROPERTIES
    StoppedExits EnabledIsServed
VIEW NoHistory
