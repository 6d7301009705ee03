SPECIFICATION Spec
CONSTANTS
    Bases = {b1}
    Broken = {}
    Custom = {}
    Users = {u1}
    Hosts = {"master"}
    Loops = {l1}
    MaxChanges = 3
    MaxTrouble = 0
    None = None
INVARIANTS
    NeverDrifts
CHECK_DEADLOCK FALSE
