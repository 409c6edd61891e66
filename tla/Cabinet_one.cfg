SPECIFICATION Spec
CONSTANTS
    c1 = c1
    c2 = c2
    Clients <- OneClient
    MaxUsbs = 2
    Doors <- OneDoor
    OtherDoors <- WrongDoors
    Ops <- CountOps
    NewStatus <- Received
    MaxObjects = 2
    MaxCount = 2
    MaxRestarts = 1
    DbReliable = FALSE
    Careful = FALSE
INVARIANT PortsCounted
