----------------------------- MODULE ClusterNet -----------------------------
(***************************************************************************)
(* One cluster's network on every host: ClusterManager, which turns the    *)
(* ReconcileHost commands into a bridge with its VXLAN device, addresses,  *)
(* flood peers, prefix routes, tree VRF and proxy-ARP entries.  What the   *)
(* kernel holds outlives the agent; what ClusterManager remembers does     *)
(* not.                                                                    *)
(*                                                                         *)
(* reconcile and tombstone_cluster hold ClusterManager's lock from end to  *)
(* end and are one step each; ensure_bootstrap, which an attaching VM      *)
(* calls, does not take it.  The MASQUERADE rule follows the bridge's      *)
(* address and MTUs follow the uplink; neither is kept here.               *)
(***************************************************************************)
EXTENDS HostClusters, Sequences

CONSTANTS
    Jobs,       \* commands a host may have in hand
    Faults,     \* kinds of failures that may happen
    MaxFaults   \* failures, in all

ASSUME ClusterNetAssumption == Jobs \in Nat \ {0} /\ MaxFaults \in Nat

VARIABLES
    net,       \* net[h]: the kernel's state
    vrfs,      \* vrfs[h]: the VRF devices on the host
    live,      \* live[h]: ClusterManager's entry for the cluster
    attach,    \* attach[h]: a VM's tap is still to be attached
    job,       \* job[h]: the commands in hand, oldest first
    faults,    \* failures so far
    happened   \* kinds of failures that happened

netVars == <<net, vrfs, live, attach, job, faults, happened>>

NoNet == [up |-> FALSE, addrs |-> {}, peers |-> {}, routed |-> FALSE, vrf |-> "none",
          via |-> FALSE, arp |-> FALSE]
NotLive == [known |-> FALSE, cidr |-> FALSE, arp |-> FALSE, vrf |-> "none"]

NetInit ==
    /\ net = [h \in Hosts |-> NoNet]
    /\ vrfs = [h \in Hosts |-> {}]
    /\ live = [h \in Hosts |-> NotLive]
    /\ attach = [h \in Hosts |-> FALSE]
    /\ job = [h \in Hosts |-> <<>>]
    /\ faults = 0 /\ happened = {}

Fault(f) ==
    /\ f \in Faults /\ faults < MaxFaults
    /\ faults' = faults + 1
    /\ happened' = happened \union {f}

NoFault == UNCHANGED <<faults, happened>>

-----------------------------------------------------------------------------
\* Kernel state.

\* ensure_vrf and enslave_to_vrf.  The kernel drops the routes of a device
\* it moves to another VRF.
Enslave(n, d) ==
    IF n.vrf = d THEN n
    ELSE [n EXCEPT !.vrf = d, !.routed = FALSE, !.via = FALSE]

\* Mutant: flood peers are programmed with the bridge and left at that.
EnsureCluster_Once(h, n, c) ==
    [Enslave([n EXCEPT !.up = TRUE], c.domain) EXCEPT
        !.addrs = IF c.ip = 0 THEN @ ELSE @ \union {c.ip},
        !.peers = IF n.up THEN @ ELSE c.peers \ {h}]

\* ensure_cluster_inner.  An address is added to those the bridge has, and
\* the flood peers become exactly the ones given.
EnsureCluster(h, n, c) ==
    [Enslave([n EXCEPT !.up = TRUE], c.domain) EXCEPT
        !.addrs = IF c.ip = 0 THEN @ ELSE @ \union {c.ip},
        !.peers = c.peers \ {h}]

\* Deleting the bridge takes its addresses, routes and VRF with it; the
\* proxy-ARP entries are the uplink's.
DeleteBridge(n) == [NoNet EXCEPT !.arp = n.arp]

\* delete_vrf_if_unused: with the bridge gone nothing else is enslaved to it.
DeleteVrf(h, d) == vrfs' = [vrfs EXCEPT ![h] = @ \ {d}]

\* A bridge of an earlier agent is taken over with the CIDR of its address.
Recovered(h) ==
    IF live[h].known \/ ~net[h].up THEN live[h]
    ELSE [NotLive EXCEPT !.known = TRUE, !.cidr = net[h].addrs # {}]

-----------------------------------------------------------------------------
\* apply_reconcile, one command at a time: the clusters, the tombstones, the
\* acknowledgement and the advertised prefixes.

Without(s, i) == SubSeq(s, 1, i - 1) \o SubSeq(s, i + 1, Len(s))

SetJob(h, i, j) == job' = [job EXCEPT ![h][i] = j]
EndJob(h, i) == job' = [job EXCEPT ![h] = Without(job[h], i)]
After(j, s) == [j EXCEPT !.left = s]

\* A command that changes the host's network before an older one has.
Overtakes(h, i) == \E k \in 1..(i - 1) : "clusters" \in job[h][k].left

InOrder(h, i) == IF Overtakes(h, i) THEN Fault("late") ELSE NoFault

\* ClusterManager::reconcile: what it remembers of the cluster, and what it
\* makes of the kernel.  The proxy-ARP entries of the uplink become those
\* the remembered clusters ask for.
Remembered(h, c) ==
    IF c.has THEN [known |-> TRUE, cidr |-> TRUE, vrf |-> c.domain, arp |-> c.owner = h]
    ELSE Recovered(h)

Reconciled(h, c) ==
    LET n == IF c.has THEN [EnsureCluster(h, net[h], c) EXCEPT !.routed = TRUE] ELSE net[h]
    IN  [n EXCEPT !.arp = Remembered(h, c).arp]

Reconcile(h, c) ==
    /\ live' = [live EXCEPT ![h] = Remembered(h, c)]
    /\ net' = [net EXCEPT ![h] = Reconciled(h, c)]
    /\ vrfs' = [vrfs EXCEPT ![h] = IF c.has THEN @ \union {c.domain} ELSE @]

\* One of reconcile's commands fails: what was done stays.  The bridges are
\* listed for every command; the cluster is remembered once its routes are
\* there, before the proxy-ARP entries are set.
ReconcileFails(h, c) ==
    LET n == EnsureCluster(h, net[h], c) IN
    \/ /\ live' = [live EXCEPT ![h] = Recovered(h)]
       /\ \E kernel \in {net[h], [net[h] EXCEPT !.up = TRUE],
                         Enslave([net[h] EXCEPT !.up = TRUE], c.domain), n} :
             /\ c.has \/ kernel = net[h]
             /\ net' = [net EXCEPT ![h] = kernel]
             /\ vrfs' = [vrfs EXCEPT ![h] = @ \union ({kernel.vrf} \ {"none"})]
    \/ /\ c.has
       /\ live' = [live EXCEPT ![h] = Remembered(h, c)]
       /\ net' = [net EXCEPT ![h] = [n EXCEPT !.routed = TRUE]]
       /\ vrfs' = [vrfs EXCEPT ![h] = @ \union {c.domain}]

\* A command whose reconcile fails is dropped with all that follows in it, be
\* it the tombstone of the network it has just set up.
Aborted(c) == IF c.tomb /\ c.ip # 0 THEN "abort" ELSE "cmd"

ApplyClusters(h, i) ==
    LET j == job[h][i] IN
    /\ "clusters" \in j.left
    /\ \/ /\ InOrder(h, i) /\ Reconcile(h, j.cmd)
          /\ SetJob(h, i, After(j, IF j.cmd.tomb THEN {"tombstones"} ELSE {"advertise"}))
       \/ /\ ~Overtakes(h, i) /\ Fault(Aborted(j.cmd))
          /\ ReconcileFails(h, j.cmd) /\ EndJob(h, i)
    /\ UNCHANGED attach

\* tombstone_cluster.  The entries remembered for the cluster leave the
\* uplink; the VRF is the remembered one, else the bridge's.
TombstoneCluster(h) ==
    LET n == [net[h] EXCEPT !.arp = @ /\ ~live[h].arp] IN
    /\ live' = [live EXCEPT ![h] = NotLive]
    /\ \/ /\ net' = [net EXCEPT ![h] = DeleteBridge(n)] /\ NoFault
          /\ DeleteVrf(h, IF live[h].vrf # "none" THEN live[h].vrf ELSE net[h].vrf)
       \/ \* the bridge does not go away, which is logged and nothing else
          /\ Fault("delete")
          /\ net' = [net EXCEPT ![h] = [n EXCEPT !.peers = {}]] /\ UNCHANGED vrfs

\* tombstone_cluster cannot ask for the bridge's VRF, or whether the VRF is
\* in use: the cluster is forgotten, its bridge is there or gone.
TombstoneFails(h) ==
    LET n == [net[h] EXCEPT !.arp = @ /\ ~live[h].arp] IN
    /\ Fault("delete")
    /\ live' = [live EXCEPT ![h] = NotLive]
    /\ \/ live[h].vrf = "none" /\ UNCHANGED net
       \/ net' = [net EXCEPT ![h] = DeleteBridge(n)]
    /\ UNCHANGED vrfs

\* A tombstone that failed is not acknowledged and comes again.
ApplyTombstone(h, i) ==
    LET j == job[h][i] IN
    /\ "tombstones" \in j.left
    /\ \/ TombstoneCluster(h) /\ SetJob(h, i, After(j, {"ack", "advertise"}))
       \/ TombstoneFails(h) /\ SetJob(h, i, After(j, {"advertise"}))
    /\ UNCHANGED attach

\* A part of a command after which nothing of it may be left.
Finish(h, i, part) ==
    LET rest == job[h][i].left \ {part} IN
    /\ part \in job[h][i].left
    /\ IF rest = {} THEN EndJob(h, i) ELSE SetJob(h, i, After(job[h][i], rest))

-----------------------------------------------------------------------------
\* attach_vm_primary, for a VM that is created: ensure_bootstrap makes what
\* the cluster needs, for no peers.
Attach(h) ==
    /\ attach[h]
    /\ attach' = [attach EXCEPT ![h] = FALSE]
    /\ net' = [net EXCEPT ![h].up = TRUE, ![h].peers = {}]
    /\ live' = [live EXCEPT ![h].known = TRUE]
    /\ NoFault /\ UNCHANGED <<vrfs, job>>

\* The stream breaks: the commands in hand go on, unheard.
LoseStream(h) ==
    /\ Fault("stream")
    /\ job' = [job EXCEPT ![h] = [i \in DOMAIN @ |-> [@[i] EXCEPT !.heard = FALSE]]]
    /\ UNCHANGED <<net, vrfs, live, attach>>

\* The agent starts anew on the kernel state it left.
RestartAgent(h) ==
    /\ Fault("restart")
    /\ live' = [live EXCEPT ![h] = NotLive] /\ job' = [job EXCEPT ![h] = <<>>]
    /\ UNCHANGED <<net, vrfs, attach>>

\* The node reboots; ensure_bootstrap runs for its VMs before the agent
\* registers.
Reboot(h) ==
    /\ Fault("reboot")
    /\ net' = [net EXCEPT ![h] = [NoNet EXCEPT !.up = h \in placed]]
    /\ live' = [live EXCEPT ![h] = [NotLive EXCEPT !.known = h \in placed]]
    /\ vrfs' = [vrfs EXCEPT ![h] = {}] /\ job' = [job EXCEPT ![h] = <<>>]
    /\ attach' = [attach EXCEPT ![h] = FALSE]
=============================================================================
