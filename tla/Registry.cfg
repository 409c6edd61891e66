SPECIFICATION Spec
CONSTANTS
    s1 = s1
    s2 = s2
    s3 = s3
    c1 = c1
    c2 = c2
    h1 = h1
    h2 = h2
    Ids <- ThreeIds
    RaceIds <- OneId
    BatchIds <- Batches
    Hosts <- TwoHosts
    Clients <- TwoClients
    Ops <- AllOps
    MaxStations = 2
    MaxOctet = 2
    MaxByte = 1
    MaxObjects = 3
    MaxHanded = 3
    MaxRestarts = 1
    DbReliable = TRUE
INVARIANTS Owned SettingsPersisted AddressInv
PROPERTY ImplementsTable
SYMMETRY SomeSymmetry
CHECK_DEADLOCK FALSE
