SPECIFICATION Spec
CONSTANTS
    Subs = {sa, sb}
    Nodes = {n1, n2}
    Workers = {w1, w2}
    Reconnector = rc
    Serial = TRUE
    Capacity = 1
    MaxItems = 2
    MaxSubscriptions = 2
    Contended = TRUE
    Failures = TRUE
    MaxBin = 5
    MaxMonitor = 3
    MaxReconnect = 0
    NoSub = NoSub
    NoThread = NoThread
    NoNode = NoNode
    NoMonitor = NoMonitor
SYMMETRY Symmetry
INVARIANTS
    ReferenceCounted
    NativeModeIsTrue
CHECK_DEADLOCK FALSE
