\* A user and a lane, two requests open at once; the disk works, so nothing may be lost but
\* by the agent dying, and what is carried is settled in the end.
SPECIFICATION FairSpec
CONSTANTS
    Alice = Alice
    Bob = Bob
    a1 = a1
    b1 = b1
    l1 = l1
    Lane = Lane
    NoSlot = NoSlot
    Units <- LaneUnits
    Users <- MCUsers
    OwnerOf <- LaneOwners
    ChunkMax = 1
    Slots = {s1, s2}
    DiskFaults = FALSE
INVARIANTS
    AckMeansSettled
    Accounted
PROPERTIES
    EventuallySettled
