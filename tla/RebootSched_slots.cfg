SPECIFICATION Spec
CONSTANTS
    Devices = {d1}
    NoDevice = NoDevice
    None = None
    DayLen = 5
    Week = 2
    Catchup = 4
    Horizon = 14
    Plans <- MCTwoPlans
    MaxBusy = 1
    MaxEdits = 1
    MaxFaults = 1
    MaxCrashes = 1
    MaxJumps = 1
CHECK_DEADLOCK FALSE
INVARIANTS
    SlotsOnceInOrder DueIsCalendar SlotServed DisabledSkipped
