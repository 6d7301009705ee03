SPECIFICATION FairSpec
CONSTANTS
    Bases = {b1, b2, b3}
    Broken = {b2}
    Custom = {b1, b2, b3}
    Users = {u1}
    Hosts = {"master", "node"}
    Loops = {l1}
    MaxChanges = 2
    MaxTrouble = 1
    None = None
INVARIANTS
    OneProcess
    SwitchedOff
    NodeRunsDisk
PROPERTIES
    ComesBack
    Recovers
CHECK_DEADLOCK FALSE
