SPECIFICATION FairSpec
CONSTANTS
    Lazy = {lim}
    Limits = lim
    Kept = {ns, types}
    Leading = {ns}
    Callers = {c1, c2}
    Expiring = TRUE
    MaxLoad = 4
    MaxReconnect = 1
    MaxFail = 1
    None = None
INVARIANTS
    CacheSafe
PROPERTIES
    CancelledAlone
    OldOnlyFromSpanningLoad
    LoadsEnd
CHECK_DEADLOCK FALSE
