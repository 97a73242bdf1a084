SPECIFICATION Spec
CONSTANTS
    Subs = {sa}
    Nodes = {n1, n2}
    Workers = {w1, w2}
    Reconnector = rc
    Serial = FALSE
    Capacity = 1
    MaxItems = 2
    MaxSubscriptions = 2
    Contended = TRUE
    Failures = TRUE
    MaxBin = 4
    MaxMonitor = 2
    MaxReconnect = 1
    NoSub = NoSub
    NoThread = NoThread
    NoNode = NoNode
    NoMonitor = NoMonitor
SYMMETRY Symmetry
INVARIANTS
    LimitsKept
    BinsAgree
CHECK_DEADLOCK FALSE
