SPECIFICATION Spec
CONSTANTS
    Nodes = {n1}
    Values = {a, b}
    Callers = {c1}
    Streams = {s1}
    Foreign = {}
    MaxUpdates = 1
    RefreshMode = "strict"
    Threshold = 1
    Seed = FALSE
    MaxSeq = 2
    Ends = {}
    NoValue = NoValue
    NoAck = NoAck
    NoTask = NoTask
PROPERTIES
    SyncReportsOverflow
CHECK_DEADLOCK FALSE
