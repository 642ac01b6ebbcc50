---------------------------- MODULE HostNetworks ----------------------------
(***************************************************************************)
(* The network of one cluster across the cell: what the controller wants   *)
(* (HostClusters), what the hosts make of it (ClusterNet) and the routes   *)
(* they exchange (BgpRoutes).                                              *)
(***************************************************************************)
EXTENDS BgpRoutes

vars == <<controllerVars, netVars, bgpVars>>

Init == ControllerInit /\ NetInit /\ BgpInit

-----------------------------------------------------------------------------
\* Calls.

\* A tombstone in hand is now one of an earlier membership.
Overtaken(s) == [i \in DOMAIN s |-> [s[i] EXCEPT !.old = @ \/ s[i].cmd.tomb]]

\* The VM's tap comes later.
PlaceVm(h) ==
    /\ Place(h) /\ ~attach[h]
    /\ attach' = [attach EXCEPT ![h] = TRUE]
    /\ job' = [job EXCEPT ![h] = Overtaken(job[h])]
    /\ UNCHANGED <<net, vrfs, live, faults, happened, bgpVars>>

\* A machine is deleted once it was created; a delete that overtakes the
\* create is Cell's.
DeleteVm(h) == Unplace(h) /\ ~attach[h] /\ UNCHANGED <<netVars, bgpVars>>

CallCluster ==
    /\ \E d \in Domains : CreateCluster(d) \/ UpdateTrustDomain(d)
    /\ UNCHANGED <<netVars, bgpVars>>

Service ==
    /\ Change /\ (Announce \/ Withdraw)
    /\ UNCHANGED <<pool, row, domain, placed, member, owner, healthy, build, netVars>>

-----------------------------------------------------------------------------
\* The controller's own steps.

Tick(h, t) == BeginBuild(h, t) /\ UNCHANGED <<netVars, bgpVars>>
Elect(h, t) == (ReadOn(h, t) \/ RecordOwner(h, t)) /\ UNCHANGED <<netVars, bgpVars>>

\* The command goes down the host's stream and into a task of its own.  A
\* build that is sent before an older one of the host is late.
Send(h, t) ==
    /\ Built(h, t) /\ Len(job[h]) < Jobs
    /\ job' = [job EXCEPT ![h] =
           Append(@, [cmd |-> Command(h, build[h][t]), left |-> {"clusters"},
                      heard |-> TRUE, old |-> FALSE])]
    /\ IF build[h][t].behind THEN Fault("late") ELSE NoFault
    /\ UNCHANGED <<net, vrfs, live, attach, bgpVars>>

\* An acknowledgement that drops the host's row although the host is to have
\* the network, or has or may have it again: it answers an earlier tombstone,
\* or a build or a command that read the row is still on its way, be it only
\* to its own tombstone.
Late(h, i) ==
    /\ job[h][i].heard /\ member[h].state = "pending"
    /\ \/ job[h][i].old
       \/ \E t \in Tasks : build[h][t].ip # 0
       \/ \E k \in DOMAIN job[h] : /\ job[h][k].left \intersect {"clusters", "tombstones"} # {}
                                  /\ job[h][k].cmd.ip # 0

\* The TombstoneAck, if its stream is still there.
Ack(h, i) ==
    /\ Finish(h, i, "ack")
    /\ IF job[h][i].heard THEN AckCluster(h) ELSE UNCHANGED controllerVars
    /\ IF Late(h, i) THEN Fault("late") ELSE NoFault
    /\ UNCHANGED <<net, vrfs, live, attach, bgpVars>>

Stale(h) ==
    /\ MarkStale(h) /\ Fault("stale")
    /\ UNCHANGED <<net, vrfs, live, attach, job, bgpVars>>

Recover(h) == Heartbeat(h) /\ UNCHANGED <<netVars, bgpVars>>

-----------------------------------------------------------------------------
\* The agents.

Work(h, i) ==
    \/ (ApplyClusters(h, i) \/ ApplyTombstone(h, i)) /\ UNCHANGED controllerVars /\ KeepBgp
    \/ Ack(h, i)
    \/ Advertise(h, i) /\ UNCHANGED controllerVars

AttachVm(h) == Attach(h) /\ UNCHANGED controllerVars /\ KeepBgp

Watcher(h) == (WatchNext(h) \/ Subscribe(h)) /\ UNCHANGED controllerVars

\* A restarted agent has no speaker yet and a watcher of its own; after a
\* reboot gobgpd is new as well.
AgentFault(h) ==
    /\ UNCHANGED <<controllerVars, path>>
    /\ \/ /\ job[h] # <<>> \/ speaker[h] = "failed"
          /\ LoseStream(h) /\ NextHandshake(h) /\ UNCHANGED <<origin, watch, missed>>
       \/ /\ RestartAgent(h) /\ WatchEnds(h)
          /\ speaker' = [speaker EXCEPT ![h] = "none"] /\ UNCHANGED origin
       \/ /\ Reboot(h)
          /\ speaker' = [speaker EXCEPT ![h] = "none"] /\ origin' = origin \ {h}
          /\ watch' = [watch EXCEPT ![h] = NoStream]
          /\ missed' = missed \ {h}

GobgpdFault(h) == RestartGobgpd(h) /\ UNCHANGED controllerVars

Next ==
    \/ CallCluster \/ Service
    \/ \E h \in Hosts :
          \/ PlaceVm(h) \/ DeleteVm(h)
          \/ \E t \in Tasks : Tick(h, t) \/ Elect(h, t) \/ Send(h, t)
          \/ \E i \in DOMAIN job[h] : Work(h, i)
          \/ Stale(h) \/ Recover(h) \/ AttachVm(h) \/ Watcher(h)
          \/ AgentFault(h) \/ GobgpdFault(h)

Spec == Init /\ [][Next]_vars

\* A command read and applied at this moment would change something.
OutOfDate(h) ==
    LET b == Reading(h)
        c == Command(h, b) IN
    \/ c.tomb \/ b.pc = "elect" \/ speaker[h] = "none"
    \/ Reconciled(h, c) # net[h] \/ Remembered(h, c) # live[h]
    \/ speaker[h] = "up" /\ ReconcilePaths(h, c) # origin

\* What goes on by itself: the ticker of a host comes round while there is
\* something to repair, the tasks of its agent and its watcher go on, and a host
\* that answers is healthy again.
GoesOn(h) ==
    \/ OutOfDate(h) /\ Tick(h, "tick")
    \/ Tick(h, "push") \/ \E t \in Tasks : Elect(h, t) \/ Send(h, t)
    \/ job[h] # <<>> /\ Work(h, 1)
    \/ Recover(h) \/ AttachVm(h) \/ Watcher(h)

\* Some host goes on as long as one can; that none of them is passed over for
\* ever follows, since each runs out of things to do.
Fairness == WF_vars(\E h \in Hosts : GoesOn(h))

FairSpec == Spec /\ Fairness

-----------------------------------------------------------------------------
Cmds == [has : BOOLEAN, ip : BridgeIps \union {0}, domain : Domains \union {"none"},
         owner : Hosts \union {0}, peers : SUBSET Hosts, tomb : BOOLEAN]

\* The variables hold what the rows, the kernel and the tasks can hold.
TypeOK ==
    /\ pool \in Pools /\ row \in BOOLEAN /\ domain \in Domains /\ placed \subseteq Hosts
    /\ \A h \in Hosts : /\ member[h].state \in {"none", "active", "pending"}
                        /\ (member[h].state = "none") <=> (member[h].ip = 0)
                        /\ net[h].addrs \subseteq BridgeIps /\ net[h].peers \subseteq Hosts \ {h}
                        /\ ~net[h].up => ~net[h].routed /\ ~net[h].via
                        /\ \A i \in DOMAIN job[h] : job[h][i].cmd \in Cmds
    /\ owner \in Hosts \union {0} /\ origin \subseteq Hosts /\ missed \subseteq Hosts

\* Commands take effect in the order of their builds ("late"), the kernel
\* deletes what tombstone_cluster tells it to ("delete"), and no command that
\* both sets the network up and gives it up fails in between ("abort").  The
\* last one is built while the host carries the cluster, on its way when that
\* ends, and dropped by apply_reconcile before its own tombstone: the bridge it
\* set up is still there when the acknowledgement of another command frees the
\* address.
Orderly == happened \intersect {"late", "delete", "abort"} = {}

\* A bridge address belongs to one host at a time, although rows are dropped
\* and their addresses given to others: no two hosts hold the same one, but
\* after one of the three disorders.  (ensure_host_cluster_active,
\* tombstone_cluster, ack_tombstones)
AddressesDistinct ==
    Orderly => \A g, h \in Hosts : g # h => net[g].addrs \intersect net[h].addrs = {}

Responders == {h \in Hosts : net[h].arp}

\* Once nothing changes any more exactly the recorded owner answers ARP for
\* the cluster's VIPs, and it carries the cluster.  (elect_lan_vip_owner)
OneResponder ==
    <>[](pool = "lan" /\ Orderly =>
            IF Active = {} THEN Responders = {} ELSE Responders = {owner} /\ owner \in Active)

\* Once nothing changes any more every host of the cluster has its address,
\* floods to every other one, and is in the VRF of the trust domain.  A tree's
\* cluster is routed on every host of the cell, carried or not, which only the
\* ticks bring there (list_ghost_clusters_for_host, broadcast_cluster).
Programmed ==
    /\ <>[](\A h \in Active :
               /\ member[h].ip \in net[h].addrs /\ net[h].routed
               /\ net[h].peers = Active \ {h} /\ net[h].vrf = domain)
    /\ <>[](pool = "tree" /\ row => \A h \in Hosts : net[h].routed /\ net[h].vrf = domain)

\* A host that left a LAN cluster ends without its bridge.
LeftClean ==
    <>[](pool = "lan" /\ Orderly =>
            \A h \in Hosts \ Active : ~net[h].up)

\* Hosts whose Speaker::start failed in their last handshake.
Mute == {h \in Hosts : speaker[h] = "failed"}

\* The VIPs of a LAN cluster end up originated, if a host that carries it has
\* a speaker, and by no host that does not carry it, unless its speaker is gone
\* and cannot withdraw them.  One originator is enough for update_routes to be
\* content: "Every carrier advertises every VIP" (apply_reconcile) is not what
\* it does.
VipsOriginated ==
    <>[](pool = "lan" => /\ origin \ Mute \subseteq Active
                         /\ Active \ Mute # {} => origin # {})

\* The route to a LoadBalancer address is there exactly while the address is
\* announced, on every host that no event of it has passed by: because no
\* cluster held its next hop, the kernel refused it, it was lost with its
\* stream or told while there was none, its batch was taken from the back, or
\* the route went with the bridge that had it.
LearnedRoutesCurrent ==
    <>[](\A h \in Hosts \ missed : net[h].via = (path /\ live[h].cidr))
=============================================================================
