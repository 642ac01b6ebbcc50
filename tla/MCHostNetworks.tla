--------------------------- MODULE MCHostNetworks ---------------------------
(***************************************************************************)
(* HostNetworks for TLC: small sets and three assumptions on speed that    *)
(* keep the instance small.                                                *)
(***************************************************************************)
EXTENDS HostNetworks

\* Changes and failures together, for a cluster of the LAN and for one of a
\* tree.
CONSTANTS LanBudget, TreeBudget

\* A cluster that has served for a while: host 1 carries it, and every host
\* has what a command of this moment would give it.  The speaker of host 2 may
\* have failed to start, as the first failure of the behaviour.
ServingInit ==
    LET net1 == [up |-> TRUE, addrs |-> {1}, peers |-> {}, routed |-> TRUE, vrf |-> domain,
                 via |-> FALSE, arp |-> pool = "lan"]
        ghost == [net1 EXCEPT !.addrs = {}, !.peers = {1}]
        live1 == [known |-> TRUE, cidr |-> TRUE, vrf |-> domain, arp |-> pool = "lan"]
        Has(h) == h = 1 \/ pool = "tree" IN
    /\ pool \in Pools /\ row = TRUE /\ domain = CHOOSE d \in Domains : TRUE
    /\ placed = {1} /\ owner = 1
    /\ member = [h \in Hosts |-> IF h = 1 THEN [state |-> "active", ip |-> 1] ELSE NoMember]
    /\ healthy = [h \in Hosts |-> TRUE]
    /\ build = [h \in Hosts |-> [t \in Tasks |-> NoBuild]]
    /\ changes = 0
    /\ net = [h \in Hosts |-> CASE h = 1 -> net1 [] Has(h) -> ghost [] OTHER -> NoNet]
    /\ live = [h \in Hosts |-> IF Has(h) THEN live1 ELSE NotLive]
    /\ vrfs = [h \in Hosts |-> IF Has(h) THEN {domain} ELSE {}]
    /\ attach = [h \in Hosts |-> FALSE]
    /\ job = [h \in Hosts |-> <<>>]
    /\ \/ /\ speaker = [h \in Hosts |-> "up"] /\ faults = 0 /\ happened = {}
       \/ /\ speaker = [h \in Hosts |-> IF h = 2 THEN "failed" ELSE "up"]
          /\ pool = "lan" /\ faults = 1 /\ happened = {"bgp"}
    /\ path = FALSE
    /\ origin = IF pool = "lan" THEN {1} ELSE {}
    /\ watch = [h \in Hosts |-> Stream(<<>>)]
    /\ missed = {}

\* A cluster of the LAN has served when a behaviour begins, and loses its
\* last host soon enough; a tree's also begins on no host.
MCInit == ServingInit \/ (Init /\ pool = "tree")

MCSpec == MCInit /\ [][Next]_vars /\ Fairness

\* Builds that are complete and may leave.
Complete == {b \in Hosts \X Tasks : /\ build[b[1]][b[2]].pc = "send"
                                    /\ ~build[b[1]][b[2]].behind
                                    /\ Len(job[b[1]]) < Jobs}

\* Commands that have changed the host's clusters and go on.
Applied == {j \in Hosts \X (1..Jobs) : /\ j[2] \in DOMAIN job[j[1]]
                                       /\ job[j[1]][j[2]].left \in {{"tombstones"}, {"advertise"}}}

\* Hosts a call is about to push to.
Due == {h \in Hosts : build[h]["push"].pc = "due"}

\* Builds in the middle of their reads, one per host at most.
Reads == {b \in Hosts \X Tasks : build[b[1]][b[2]].pc \in {"carriers", "owner"}}

\* Watchers with an event to consume.
Told == {h \in Hosts : watch[h].events \o watch[h].batch # <<>>}

\* A push is built with the change it follows and leaves when it is
\* complete, an event is consumed at once, and a command whose clusters are
\* applied goes on to its acknowledgement; steps of this kind that do not
\* depend on each other are taken in one order.  The tickers, whose interval
\* is far longer than a command takes, fire one at a time, when the hosts
\* have nothing in hand, and not to repeat what is there already.
Prompt ==
    /\ CASE Due # {}      -> build'[Min(Due)]["push"].pc # "due"
         [] Reads # {}    -> \/ \E b \in Reads : /\ \A c \in Reads : b[1] <= c[1]
                                               /\ build'[b[1]][b[2]].pc # build[b[1]][b[2]].pc
                             \/ /\ faults = 0
                                /\ <<changes, healthy, owner>>' # <<changes, healthy, owner>>
         [] Complete # {} -> \E b \in Complete : /\ \A c \in Complete : b[1] <= c[1]
                                                 /\ build'[b[1]][b[2]].pc # "send"
         [] Told # {}     -> watch'[Min(Told)] # watch[Min(Told)]
         [] Applied # {}  -> \E j \in Applied : job'[j[1]] # job[j[1]]
         [] OTHER         -> TRUE
    /\ \A h \in Hosts : build[h]["tick"].pc = "idle" /\ build'[h]["tick"].pc # "idle"
          => OutOfDate(h) /\ \A g \in Hosts : job[g] = <<>> /\ build[g]["tick"].pc = "idle"

InBudget == changes' + faults' <= IF pool = "lan" THEN LanBudget ELSE TreeBudget

\* Trust domains are followed for a tree's cluster, LoadBalancer addresses
\* and speakers, which only announce the VIPs of the LAN, for one of the LAN.
Followed ==
    IF pool = "lan" THEN domain' = domain ELSE path' = path /\ "bgp" \notin happened'
=============================================================================
