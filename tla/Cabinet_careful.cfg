SPECIFICATION Spec
CONSTANTS
    c1 = c1
    c2 = c2
    Clients <- TwoClients
    MaxUsbs = 2
    Doors <- TwoDoors
    OtherDoors <- NoDoor
    Ops <- CarefulOps
    NewStatus <- BatchStatus
    MaxObjects = 2
    MaxCount = 2
    MaxRestarts = 0
    DbReliable = TRUE
    Careful = TRUE
INVARIANT CarefulInv
PROPERTY IssuedFromReceived
SYMMETRY ClientSymmetry
CHECK_DEADLOCK FALSE
