\* One machine created and deleted, with a failure on the host.
SPECIFICATION ConnectedSpec
CONSTANTS
    Hosts = {h1}
    VMs = {v1}
    Names = {n1}
    Ips <- MCIps
    NoVm = NoVm
    NoHost = NoHost
    NoIp = NoIp
    NoName = NoName
    DownBound = 1
    UpBound = 1
    BridgeReserve = 1
    MaxAttempts = 1
    Faults = {}
    MaxFaults = 0
    MaxDeletes = 1
    Timeouts = FALSE
    ClusterDeletes = FALSE
    Creates = 1
    Reconciles = 1
    Sweeps = FALSE
    AgentFaults = {"create", "lvm", "net", "guest"}
    MaxAgentFaults = 1
INVARIANTS  NotesMatchTasks
CHECK_DEADLOCK FALSE
