\* A machine and its cluster deleted at any moment; another host is still to leave.
SPECIFICATION LeavingSpec
CONSTANTS
    Hosts = {h1, h2}
    VMs = {v1}
    Names = {n1}
    Ips <- MCIps
    NoVm = NoVm
    NoHost = NoHost
    NoIp = NoIp
    NoName = NoName
    DownBound = 1
    UpBound = 1
    BridgeReserve = 1
    MaxAttempts = 2
    Faults = {}
    MaxFaults = 0
    MaxDeletes = 1
    Timeouts = TRUE
    ClusterDeletes = TRUE
SYMMETRY MCSymmetry
ACTION_CONSTRAINT Prompt
INVARIANTS VmIpHeld ClusterRowLast
CHECK_DEADLOCK FALSE
