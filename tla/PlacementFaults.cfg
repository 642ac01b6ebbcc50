\* Two hosts, three devices, three calls, one change of a host or a device.
SPECIFICATION Spec
CONSTANTS
    h1 = h1
    h2 = h2
    a = a
    b = b
    c = c
    v1 = v1
    v2 = v2
    v3 = v3
    Hosts = {h1, h2}
    Devices = {a, b, c}
    VMs = {v1, v2, v3}
    HostSpec <- MCHostSpec
    Size <- MCSize
    Req <- MCReq
    Wirings <- MCWirings
    RatioNum = 3
    RatioDen = 2
    Gib = 2
    MaxAttempts = 2
    Unsteady = {b}
    MaxChanges = 1
    MaxFailures = 1
    NoSnap = NoSnap
INVARIANTS DecisionSound LinkedGpus AttemptsGiveBack FullOnlyBlind
PROPERTIES RefusedFitsNowhere NeverOverPlaced RacedOnlyByChange
CHECK_DEADLOCK FALSE
