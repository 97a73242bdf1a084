SPECIFICATION Spec
CONSTANTS
    Nodes = {n1}
    Values = {a, b}
    Callers = {c1}
    Streams = {s1, s2}
    Foreign = {}
    MaxUpdates = 2
    RefreshMode = "strict"
    Threshold = 1
    Seed = FALSE
    MaxSeq = 4
    Ends = {}
    NoValue = NoValue
    NoAck = NoAck
    NoTask = NoTask
SYMMETRY Symmetry
INVARIANTS
    QueueIsNewestRun
    UpdatesAccounted
    LastValueIsNewestUpdate
    StreamsFaithful
    OldStreamYieldsOneBatch
    ConnectedIffCurrentStream
PROPERTIES
    ImplementsDelivery
