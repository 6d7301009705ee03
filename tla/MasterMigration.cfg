\* Two migrations, to either of two candidates; requests fail, processes die; systemd
\* starts a candidate again.
SPECIFICATION FairSpec
CONSTANTS
    c1 = c1
    c2 = c2
    Candidates <- Servers
    None = None
    MaxSessions = 2
    MaxWrites = 1
    MaxTrouble = 1
CONSTRAINT FirstToOne
INVARIANTS
    TypeOK
    NeverHeadless
    NoEmptyMaster
PROPERTIES
    HandsOverAll
    StandbyIsServed
CHECK_DEADLOCK FALSE
