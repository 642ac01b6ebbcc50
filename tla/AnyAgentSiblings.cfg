\* Two VMs of one cluster on one host, every order of their calls, one of them dropped.
SPECIFICATION AnySpec
CONSTANTS
    Hosts = {h1}
    VMs = {v1, v2}
    Names = {n1, n2}
    Ips <- MCIps
    NoVm = NoVm
    NoHost = NoHost
    NoIp = NoIp
    NoName = NoName
    DownBound = 1
    UpBound = 1
    BridgeReserve = 1
    MaxAttempts = 2
    Faults = {"cancel"}
    MaxFaults = 1
    MaxDeletes = 1
    Timeouts = FALSE
    ClusterDeletes = FALSE
SYMMETRY MCSymmetry
CONSTRAINT SomeKept
ACTION_CONSTRAINT Prompt
INVARIANTS HostClusterKept IdempotentByName
CHECK_DEADLOCK FALSE
