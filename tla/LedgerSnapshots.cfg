SPECIFICATION Spec
CONSTANTS
    Files = {sst, current}
    MaxEpoch = 4
    MaxVersion = 2
    MaxExtra = 1
    Imported <- MCImported
INVARIANTS TypeOK SnapshotsAreExact OpensUnlessPruneCut
PROPERTY PruneKeepsRecent
CHECK_DEADLOCK FALSE
