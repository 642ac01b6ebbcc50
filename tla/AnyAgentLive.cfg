\* One VM, a channel with room for every push, one fault.
SPECIFICATION FairSpec
CONSTANTS
    Hosts = {h1}
    VMs = {v1}
    Names = {n1}
    Ips <- MCIps
    NoVm = NoVm
    NoHost = NoHost
    NoIp = NoIp
    NoName = NoName
    DownBound = 4
    UpBound = 1
    BridgeReserve = 1
    MaxAttempts = 2
    Faults = {"link", "stale", "crash", "cancel", "db"}
    MaxFaults = 1
    MaxDeletes = 0
    Timeouts = TRUE
    ClusterDeletes = FALSE
 
PROPERTIES CreateReturns 
CHECK_DEADLOCK FALSE
