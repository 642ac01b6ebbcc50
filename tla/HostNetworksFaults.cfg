\* Two hosts; three changes and failures on a LAN, two in a tree.
SPECIFICATION MCSpec
CONSTANTS
    Hosts = {1, 2}
    BridgeIps = {1, 2}
    Domains = {"d1", "d2"}
    Pools = {"lan", "tree"}
    MaxChanges = 3
    Jobs = 2
    Faults = {"late", "cmd", "abort", "delete", "stream", "restart", "reboot", "stale",
              "gobgpd", "bgp", "route"}
    MaxFaults = 2
    LanBudget = 3
    TreeBudget = 2
ACTION_CONSTRAINTS Prompt Followed InBudget
INVARIANTS AddressesDistinct
PROPERTIES OneResponder Programmed LeftClean VipsOriginated LearnedRoutesCurrent
