SPECIFICATION EpochsSpec
CONSTANTS
    Dreps = {d1, d2}
    MaxSlot = 7
    EpochLength = 2
    DrepExpiry = 1
    Files = {sst, current}
    FirstEpoch = 2
INVARIANTS TypeOK BlocksAreInOnce TransitionsAreDoneOnce MemoryAgrees PanicNeedsDrop
    SnapshotsAreOfTheEnd
PROPERTIES ActiveDrepsStayActive ImplementsEpochLedger
