\* Two machines of one cluster, one deleted, a fault on either side.
SPECIFICATION ServingSpec
CONSTANTS
    Hosts = {h1}
    VMs = {v1, v2}
    Names = {n1, n2}
    Ips <- MCIps
    NoVm = NoVm
    NoHost = NoHost
    NoIp = NoIp
    NoName = NoName
    DownBound = 1
    UpBound = 1
    BridgeReserve = 1
    MaxAttempts = 1
    Faults = {"link", "crash"}
    MaxFaults = 1
    MaxDeletes = 1
    Timeouts = FALSE
    ClusterDeletes = FALSE
    Creates = 1
    Reconciles = 1
    Sweeps = TRUE
    AgentFaults = {"guest", "restart", "reboot"}
    MaxAgentFaults = 1
SYMMETRY MCSymmetry
INVARIANTS  LiveTapOnBridge
CHECK_DEADLOCK FALSE
