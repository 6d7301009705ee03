\* One user, one request, a journal of one entry, two changes and one thing that fails.
SPECIFICATION FairSpec
CONSTANTS
    Users = {u1}
    Requests = {r1}
    JournalMax = 1
    MaxChanges = 2
    MaxTrouble = 1
    None = None
INVARIANTS
    TypeOK
    TagSaysContent
    NoLostWakeup
PROPERTIES
    Converges
CHECK_DEADLOCK FALSE
