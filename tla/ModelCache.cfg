SPECIFICATION FairSpec
CONSTANTS
    Requests = {r1}
    Preload = preload
    Refresh = refresh
    Warm = warm
    Retype = retype
    Names = {a, b}
    MaxChanges = 1
    MaxFail = 1
    None = None
INVARIANTS
    NotModifiedIsTrue
    TasksDisciplined
PROPERTIES
    ModelNeverOlder
    ContextCatchesUp
    RequestsAnswered
CHECK_DEADLOCK FALSE
