SPECIFICATION FairSpec
CONSTANTS
    p1 = p1
    p2 = p2
    p3 = p3
    Producers = {p1, p2, p3}
    DeviceOf <- OneReplaced
    SamplesCap = 2
    AlerterCap = 1
    WriterCap = 1
    BatchSize = 2
    MaxSamples = 3
    MaxFaults = 1
CHECK_DEADLOCK FALSE
INVARIANTS
    StoredOnce NothingForgotten CachedFirst
PROPERTIES
    ChannelsServe WriterNotHeldUp
