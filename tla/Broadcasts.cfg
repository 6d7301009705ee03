SPECIFICATION FairSpec
CONSTANTS
    Runs = {1}
    p1 = p1
    p2 = p2
    People = {p1,p2}
    Operators = {o1}
    BatchSize = 1
    MaxRejects = 1
    MaxAsks = 1
    MaxTrouble = 2
    None = None
INVARIANTS
    RecordsWhatItSends
    DoneIsDone
    SkipsOnlyWhoLeft
PROPERTIES
    NoSilentRepeat
    Settles
CHECK_DEADLOCK FALSE
CONSTRAINTS FirstToLeave OneChannel
