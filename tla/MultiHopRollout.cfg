SPECIFICATION FairSpec
CONSTANTS
    a = a
    b = b
    c = c
    Servers = {a, b, c}
    Local = a
    Routes <- Asked
    Inherited <- Old
    MaxEvents = 2
    None = None
INVARIANTS
    PathIsWhole
PROPERTIES
    PublishesWhatServes
    Completes
CHECK_DEADLOCK FALSE
