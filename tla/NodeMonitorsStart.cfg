SPECIFICATION FairSpec
CONSTANTS
    Subs = {sa}
    Nodes = {n1, n2}
    Workers = {w1}
    Reconnector = rc
    Serial = FALSE
    Capacity = 2
    MaxItems = 2
    MaxSubscriptions = 2
    Contended = TRUE
    Failures = TRUE
    MaxBin = 5
    MaxMonitor = 2
    MaxReconnect = 1
    NoSub = NoSub
    NoThread = NoThread
    NoNode = NoNode
    NoMonitor = NoMonitor
PROPERTIES
    EverythingStarts
CHECK_DEADLOCK FALSE
