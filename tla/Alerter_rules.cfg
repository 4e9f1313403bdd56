SPECIFICATION FairSpec
CONSTANTS
    i1 = i1
    i2 = i2
    Links <- OneLink
    Ifaces = {i1, i2}
    Rules = {r1}
    Texts <- Mixed
    Traffic <- Levels
    None = None
    All = All
    QueueCap = 1
    Horizon = 3
    MaxEdits = 2
    MaxFaults = 1
INVARIANTS
    TypeOK
PROPERTIES
    InterfaceRulePrompt
    FiresWhenDue
    EditsTakeEffect
