SPECIFICATION Spec
CONSTANTS
    Origins <- MCOrigins
    Rules = {r1}
    Configured = {c1}
    None = None
    MaxStops = 2
    MaxFaults = 1
    Names = {e1, e2}
    DeviceIds = {1, 2, 3}
    IfaceIds = {1, 2, 3, 4, 5, 6}
    RuleIds = {1, 2, 3, 4}
    All = All
    MaxEdits = 2
INVARIANTS
    OpenIsComplete
    UpgradeKeepsSettings
    PasswordsReadable
    RulesWithinDevice
PROPERTIES
    StartsAgain
    CopyIsFaithful
CHECK_DEADLOCK FALSE
