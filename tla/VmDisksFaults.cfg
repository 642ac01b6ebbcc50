\* Two VMs of one image, three data disks, one fault, one republication.
SPECIFICATION FairSpec
CONSTANTS
    v1 = v1
    v2 = v2
    d1 = d1
    d2 = d2
    VMs = {v1, v2}
    Devices = {d1, d2}
    Disks <- MCDisks
    DeviceOf <- MCDeviceOf
    SizeOf <- MCSizeOf
    VgSize <- MCVgSize
    NoTask = NoTask
    Faults = {"net", "convert", "torn", "spawn", "lvm", "busy", "db", "boot", "stop", "crash"}
    MaxFaults = 1
    MaxPublications = 2
    MaxCreates <- MCMaxCreates
    MaxDeletes <- MCMaxDeletes
INVARIANTS WholeRootfs CacheWhole LayersMatch LedgerCovers DeletedIsGone
PROPERTIES TasksEnd
CHECK_DEADLOCK FALSE
