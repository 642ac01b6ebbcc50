\* CreateCluster calls that race each other, drains, faults and a host's address.
SPECIFICATION Spec
CONSTANTS
    Requests = {r1, r2, r3}
    Names = {n1, n2}
    Hosts = {h1}
    NoName = NoName
    NoId = NoId
    Visibilities = {"public", "private"}
    MaxInFlight = 2
    MaxAttempts = 3
    VniStarts = {5}
    VniCount = 3
    NumSlices = 2
    PoolStart = 1
    PoolEnd = 5
    PrivateBase = 20
    BlockSize = 2
    Faults = {"cancel", "restart", "db"}
SYMMETRY Symmetry
VIEW View
INVARIANTS DistinctNetworks RacersNotExhausted
PROPERTIES LeaksOnlyByFault AtomicCreate
CHECK_DEADLOCK FALSE
