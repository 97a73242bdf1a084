SPECIFICATION FairSpec
CONSTANTS
    Subs = {sa}
    Nodes = {n1, n2}
    QueueSize = 1
    Modes = {"native", "polling"}
    Refreshing = TRUE
    MaxChange = 1
    MaxRequest = 2
    MaxFail = 1
    NoValue = NoValue
    Null = Null

    
PROPERTIES
    
    WrongNodeOnlyWhenAlone
CHECK_DEADLOCK FALSE
