SPECIFICATION Spec
CONSTANTS
    MaxItems = 4
    MaxEvents = 7
INVARIANTS
    
    BrowsingComplete
    
    
    
    ObjectsFaithful
    UpdatesGuarded
    TypesFaithful
CHECK_DEADLOCK FALSE
