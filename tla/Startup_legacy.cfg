SPECIFICATION Spec
CONSTANTS
    Origins <- Legacy
    Rules = {r1}
    Configured = {c1}
    None = None
    MaxStops = 0
    MaxFaults = 0
    Names = {e1}
    DeviceIds = {1}
    IfaceIds = {1}
    RuleIds = {1}
    All = All
    MaxEdits = 0
PROPERTIES
    LegacyOpens
CHECK_DEADLOCK FALSE
