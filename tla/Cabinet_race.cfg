SPECIFICATION Spec
CONSTANTS
    c1 = c1
    c2 = c2
    Clients <- TwoClients
    MaxUsbs = 1
    Doors <- OneDoor
    OtherDoors <- NoDoor
    Ops <- RaceOps
    NewStatus <- Received
    MaxObjects = 3
    MaxCount = 1
    MaxRestarts = 1
    DbReliable = TRUE
    Careful = FALSE
INVARIANT PersistenceInv
PROPERTY NeverReplaced
