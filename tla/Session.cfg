SPECIFICATION FairSpec
CONSTANTS
    Callers = {c}
    Tracked = {s}
    MaxLoss = 2
    Plant = Plant
INVARIANTS
    WritesNotRepeated
    SessionConsistent
PROPERTIES
    RequestsReturn
    ReconnectsFinish
    SnapshotAgrees
CHECK_DEADLOCK FALSE
