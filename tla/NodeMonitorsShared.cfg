SPECIFICATION Spec
CONSTANTS
    Subs = {sa}
    Nodes = {n1, n2}
    Workers = {w1, w2}
    Reconnector = rc
    Serial = FALSE
    Capacity = 1
    MaxItems = 2
    MaxSubscriptions = 2
    Contended = FALSE
    Failures = FALSE
    MaxBin = 4
    MaxMonitor = 3
    MaxReconnect = 0
    NoSub = NoSub
    NoThread = NoThread
    NoNode = NoNode
    NoMonitor = NoMonitor
INVARIANTS
    ReferenceCounted
CHECK_DEADLOCK FALSE
