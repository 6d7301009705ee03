\* Two users, two requests open at once (the agent's own and one it gave up on), and an
\* agent whose disk may fail.
SPECIFICATION Spec
CONSTANTS
    Alice = Alice
    Bob = Bob
    a1 = a1
    b1 = b1
    l1 = l1
    Lane = Lane
    NoSlot = NoSlot
    Units <- TwoUnits
    Users <- MCUsers
    OwnerOf <- TwoOwners
    ChunkMax = 1
    Slots = {s1, s2}
    DiskFaults = TRUE
SYMMETRY Symmetry
INVARIANTS
    TypeOK
    ExactlyOnce
PROPERTIES
    ImplementsLedger
