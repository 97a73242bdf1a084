SPECIFICATION FairSpec
CONSTANTS
    Nodes = {n1}
    Values = {a}
    Callers = {c1}
    Streams = {s1, s2}
    Foreign = {s2}
    MaxUpdates = 1
    RefreshMode = "hybrid"
    Threshold = 1
    Seed = FALSE
    MaxSeq = 1
    Ends = {"delete", "expire", "shutdown"}
    NoValue = NoValue
    NoAck = NoAck
    NoTask = NoTask
ACTION_CONSTRAINT OneEndAtATime
INVARIANTS
    TypeOK
PROPERTIES
    NothingHangs
    
CHECK_DEADLOCK FALSE
