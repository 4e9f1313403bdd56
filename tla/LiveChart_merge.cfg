SPECIFICATION Spec
CONSTANTS
    None = None
    Sec = 2
    Zones <- MCZones
    Window = 2
    MaxSamples = 3
    Cap = 2
    Horizon = 4
    MaxFaults = 1
INVARIANTS
    LiveInOrder
    ChartReadsForward
    NeverBehind
CHECK_DEADLOCK FALSE
