---------------------------- MODULE HostClusters ----------------------------
(***************************************************************************)
(* One cluster's network as the controller keeps it: the clusters row, the *)
(* host_clusters rows with the address of every host's bridge, the sticky  *)
(* owner of the LAN VIPs, and build_reconcile_command, which turns them    *)
(* into the command a host applies.  A command is built in several reads   *)
(* and at most one write, none of them in one transaction, by the ticker   *)
(* of the host's stream and by the pushes of the calls that changed        *)
(* something.                                                              *)
(*                                                                         *)
(* The rows and transactions of the VMs are Controller's; here a VM is     *)
(* placed on a host or not.                                                *)
(***************************************************************************)
EXTENDS Naturals, FiniteSets, FiniteSetsExt, TLC

CONSTANTS
    Hosts,       \* host ids: numbers, since owners are elected in their order
    BridgeIps,   \* the addresses of the cluster's bridge_range
    Domains,     \* trust domains
    Pools,       \* the scopes of the cluster's pool that are followed
    MaxChanges   \* changes a user or a guest makes, in all

ASSUME HostClustersAssumption ==
    /\ Hosts \subseteq Nat \ {0} /\ IsFiniteSet(Hosts)
    /\ BridgeIps \subseteq Nat \ {0} /\ IsFiniteSet(BridgeIps)
    /\ Domains # {} /\ Pools \subseteq {"lan", "tree"} /\ MaxChanges \in Nat

VARIABLES
    pool,      \* scope of the pool the cluster's VIPs come from
    row,       \* the clusters row exists
    domain,    \* its trust_domain
    placed,    \* hosts with a VM of the cluster that is not being torn down
    member,    \* member[h]: the host_clusters row
    owner,     \* cluster_lan_vip_owner, 0 if there is no row
    healthy,   \* hosts.healthy
    build,     \* build[h][t]: the ticker's and the pushes' run for host h
    changes    \* changes made so far

controllerVars == <<pool, row, domain, placed, member, owner, healthy, build, changes>>

Tasks == {"tick", "push"}
Other(t) == IF t = "tick" THEN "push" ELSE "tick"

NoMember == [state |-> "none", ip |-> 0]
NoBuild == [pc |-> "idle", ip |-> 0, domain |-> "none", carriers |-> {}, elected |-> 0,
            behind |-> FALSE]

Active == {h \in Hosts : member[h].state = "active"}

\* list_hosts_in_cluster: hosts with a VM of the cluster, torn down or not,
\* which have a row until both are gone.
HostsInCluster == {h \in Hosts : member[h].state # "none"}

\* list_active_carriers
Carriers == {h \in Active : healthy[h]}

ControllerInit ==
    /\ pool \in Pools
    /\ row = TRUE /\ domain = CHOOSE d \in Domains : TRUE
    /\ placed = {} /\ member = [h \in Hosts |-> NoMember] /\ owner = 0
    /\ healthy = [h \in Hosts |-> TRUE]
    /\ build = [h \in Hosts |-> [t \in Tasks |-> NoBuild]]
    /\ changes = 0

Change == changes < MaxChanges /\ changes' = changes + 1

\* push_reconcile for every host of a set.  A push to a host that has one
\* on its way is not followed.
Push(hs) ==
    build' = [h \in Hosts |->
        IF h \in hs /\ build[h]["push"].pc = "idle"
        THEN [build[h] EXCEPT !["push"].pc = "due"] ELSE build[h]]

-----------------------------------------------------------------------------
\* Membership.

\* Mutant: the address of a host that is leaving counts as free.
FreeIps_OfActive == BridgeIps \ {member[h].ip : h \in Active}

FreeIps == BridgeIps \ {member[h].ip : h \in Hosts}

\* ensure_host_cluster_active: a row that is there keeps its address, and a
\* tombstone that is still pending is cancelled.  With no address left
\* (Exhausted) the placement fails, and changes nothing here.
EnsureActive(h) ==
    \/ member[h].state # "none" /\ member' = [member EXCEPT ![h].state = "active"]
    \/ /\ member[h].state = "none" /\ FreeIps # {}
       /\ member' = [member EXCEPT ![h] = [state |-> "active", ip |-> Min(FreeIps)]]

\* create_machine places a VM and tells the cluster's hosts.
Place(h) ==
    /\ Change /\ row /\ h \notin placed
    /\ placed' = placed \union {h}
    /\ EnsureActive(h) /\ Push(HostsInCluster \union {h})
    /\ UNCHANGED <<pool, row, domain, owner, healthy>>

\* delete_machine gives up the VM, and with it the host's membership.
Unplace(h) ==
    /\ Change /\ h \in placed
    /\ placed' = placed \ {h}
    /\ member' = [member EXCEPT ![h].state = IF @ = "active" THEN "pending" ELSE @]
    /\ Push({h})
    /\ UNCHANGED <<pool, row, domain, owner, healthy>>

\* A build that read a membership of a cluster that is now gone finds no
\* carriers any more; an election it has not yet written will be refused by
\* its foreign key.
Refused(b) ==
    CASE b.pc = "carriers"                                   -> [b EXCEPT !.pc = "owner"]
      [] b.pc = "elect" \/ (b.pc = "owner" /\ b.carriers # {}) -> [b EXCEPT !.pc = "refused"]
      [] OTHER                                               -> b

RefuseElections == [h \in Hosts |-> [t \in Tasks |-> Refused(build[h][t])]]

\* ack_tombstones, for the cluster's VNI: the row goes when it is pending,
\* and the cluster with the last one.
AckCluster(h) ==
    LET left == [member EXCEPT ![h] = IF @.state = "pending" THEN NoMember ELSE @]
        drained == placed = {} /\ \A g \in Hosts : left[g] = NoMember IN
    /\ IF row
       THEN /\ member' = left
            /\ row' = ~drained
            /\ owner' = IF drained THEN 0 ELSE owner
            /\ build' = IF drained THEN RefuseElections ELSE build
       ELSE UNCHANGED <<member, row, owner, build>>
    /\ UNCHANGED <<pool, domain, placed, healthy, changes>>

\* CreateCluster once the cluster is gone: the lowest free VNI is this one.
CreateCluster(d) ==
    /\ Change /\ ~row
    /\ row' = TRUE /\ domain' = d
    /\ UNCHANGED <<pool, placed, member, owner, healthy, build>>

\* CreateCluster for a cluster that exists, after the caller's CA changed.
UpdateTrustDomain(d) ==
    /\ Change /\ row /\ d # domain
    /\ domain' = d /\ Push(HostsInCluster)
    /\ UNCHANGED <<pool, row, placed, member, owner, healthy>>

\* mark_stale_hosts_unhealthy, and the heartbeat that takes it back.
MarkStale(h) ==
    /\ healthy[h] /\ healthy' = [healthy EXCEPT ![h] = FALSE]
    /\ UNCHANGED <<pool, row, domain, placed, member, owner, build, changes>>

Heartbeat(h) ==
    /\ ~healthy[h] /\ healthy' = [healthy EXCEPT ![h] = TRUE]
    /\ UNCHANGED <<pool, row, domain, placed, member, owner, build, changes>>

-----------------------------------------------------------------------------
\* build_reconcile_command.

\* Mutant: a recorded owner stays, carrier or not.
Elected_Sticky(carriers) ==
    CASE owner # 0     -> owner
      [] carriers = {} -> 0
      [] OTHER         -> Min(carriers)

\* The owner the election keeps or picks for the carriers that were listed;
\* 0 if there is nobody to pick.
Elected(carriers) ==
    CASE owner \in carriers -> owner
      [] carriers = {}      -> 0
      [] OTHER              -> Min(carriers)

\* Three reads, one after the other: the host's membership, the carriers of
\* its cluster and the recorded owner.  An election that changes the owner is
\* still to be written.
ReadMembership(h) ==
    IF h \in Active
    THEN [NoBuild EXCEPT !.pc = "carriers", !.ip = member[h].ip, !.domain = domain]
    ELSE [NoBuild EXCEPT !.pc = "send"]

ReadCarriers(b) == [b EXCEPT !.pc = "owner", !.carriers = Carriers]

ReadOwner(b) ==
    LET e == Elected(b.carriers) IN
    [b EXCEPT !.pc = IF e \in {owner, 0} THEN "send" ELSE "elect", !.elected = e,
              !.carriers = {}]

\* What a build would have read if it had read all of it at this moment.
Reading(h) ==
    IF h \in Active THEN ReadOwner(ReadCarriers(ReadMembership(h))) ELSE ReadMembership(h)

BeginBuild(h, t) ==
    /\ build[h][t].pc = (IF t = "tick" THEN "idle" ELSE "due")
    /\ build' = [build EXCEPT ![h][t] =
           [ReadMembership(h) EXCEPT !.behind = build[h][Other(t)].pc \notin {"idle", "due"}]]
    /\ UNCHANGED <<pool, row, domain, placed, member, owner, healthy, changes>>

ReadOn(h, t) ==
    /\ \/ /\ build[h][t].pc = "carriers"
          /\ build' = [build EXCEPT ![h][t] = ReadCarriers(@)]
       \/ /\ build[h][t].pc = "owner"
          /\ build' = [build EXCEPT ![h][t] = ReadOwner(@)]
    /\ UNCHANGED <<pool, row, domain, placed, member, owner, healthy, changes>>

\* This run of build_reconcile_command is over.
EndBuild(h, t) == build' = [build EXCEPT ![h][t] = NoBuild, ![h][Other(t)].behind = FALSE]

\* The INSERT OR REPLACE of elect_lan_vip_owner, or its refusal.
RecordOwner(h, t) ==
    /\ \/ /\ build[h][t].pc = "elect"
          /\ owner' = build[h][t].elected
          /\ build' = [build EXCEPT ![h][t].pc = "send"]
       \/ build[h][t].pc = "refused" /\ EndBuild(h, t) /\ UNCHANGED owner
    /\ UNCHANGED <<pool, row, domain, placed, member, healthy, changes>>

\* Mutant: tombstones are listed for clusters that have a VM left.
Command_NoTomb(h, b) ==
    LET ghost == row /\ b.ip = 0 /\ pool = "tree" IN
    [has    |-> b.ip # 0 \/ ghost,
     ip     |-> b.ip,
     domain |-> IF ghost THEN domain ELSE b.domain,
     owner  |-> IF pool = "lan" THEN b.elected ELSE 0,
     peers  |-> IF row THEN Active ELSE {},
     tomb   |-> placed # {} /\ member[h].state = "pending"]

\* The command: what the host is to have of the cluster, and whether it is
\* to give it up.  A host that does not carry a tree's cluster still gets
\* its network, without an address and without VIPs on the LAN.
Command(h, b) ==
    LET ghost == row /\ b.ip = 0 /\ pool = "tree" IN
    [has    |-> b.ip # 0 \/ ghost,
     ip     |-> b.ip,
     domain |-> IF ghost THEN domain ELSE b.domain,
     owner  |-> IF pool = "lan" THEN b.elected ELSE 0,
     peers  |-> IF row THEN Active ELSE {},
     tomb   |-> row /\ member[h].state = "pending"]

\* The command leaves for the host.
Built(h, t) ==
    /\ build[h][t].pc = "send" /\ EndBuild(h, t)
    /\ UNCHANGED <<pool, row, domain, placed, member, owner, healthy, changes>>
=============================================================================
