------------------------------ MODULE BasisApi ------------------------------
(***************************************************************************)
(* The Basis controller as a client meets it: the rows of one named        *)
(* cluster and of its machines, what each RPC does to them, and what       *)
(* happens to them by themselves.  The controller's own interleavings are  *)
(* those of Controller and ClusterAlloc; here every handler is one step,   *)
(* except CreateMachine, which waits for the agent between two.            *)
(***************************************************************************)
EXTENDS Naturals, FiniteSets

CONSTANTS Machines,        \* BasisMachine names: also the VM names
          Cluster,         \* the one BasisCluster name
          MaxVms,          \* ids the model has for VMs
          MaxClusters,     \* ids the model has for clusters
          MaxFaults        \* lost calls, timeouts, dead guests, failed API calls, ...

ASSUME ApiAssumption ==
    Cluster \notin Machines /\ MaxVms \in Nat /\ MaxClusters \in Nat /\ MaxFaults \in Nat

VARIABLES rows,       \* ids of the clusters rows with the name
          hosted,     \* hosted[c]: the cluster's host_clusters rows
          vms,        \* vms[v]: the row of VM v
          calls,      \* calls[m]: the VM a CreateMachine call waits for, or 0
          ans,        \* ans[r]: the answer reconciler r's call received
          nextCid, nextVid,
          vip,        \* vip[c]: the endpoint cluster c was given
          others,     \* the endpoints of the clusters with other names
          asked,      \* history: clusters DeleteCluster was called for
          faults,     \* how many faults have happened
          happened    \* history: their kinds

apiVars == <<rows, hosted, vms, calls, ans, nextCid, nextVid, vip, others, asked, faults, happened>>
Reconcilers == Machines \cup {Cluster}
Cids == 1..MaxClusters
Vids == 1..MaxVms
NoVm == [name |-> "none", c |-> 0, st |-> "gone"]
NoAnswer == [code |-> "none", id |-> 0, st |-> "gone"]
VmStates == {"creating", "running", "failed", "teardown"}
Vips == 1..(MaxFaults + 1)
Kinds == {"lost", "busy", "died", "host", "taken", "kube", "restart", "stale", "rotated", "remade"}

ApiTypeOK ==
    /\ rows \subseteq Cids /\ asked \subseteq Cids
    /\ vip \in [Cids -> {0} \cup Vips] /\ others \subseteq Vips
    /\ hosted \in [Cids -> {"none", "active", "pending"}]
    /\ vms \in [Vids -> [name: Machines, c: Cids, st: VmStates] \cup {NoVm}]
    /\ calls \in [Machines -> {0} \cup Vids]
    /\ ans \in [Reconcilers ->
                  [code: {"ok", "notfound", "unavailable", "deadline", "error", "creds"},
                   id: 0..(MaxVms + MaxClusters), st: VmStates \cup {"gone"}] \cup {NoAnswer}]
    /\ nextCid \in 1..(MaxClusters + 1) /\ nextVid \in 1..(MaxVms + 1)
    /\ faults \in 0..MaxFaults /\ happened \subseteq Kinds

ApiInit ==
    /\ rows = {} /\ asked = {} /\ others = {}
    /\ vip = [c \in Cids |-> 0]
    /\ hosted = [c \in Cids |-> "none"]
    /\ vms = [v \in Vids |-> NoVm]
    /\ calls = [m \in Machines |-> 0]
    /\ ans = [r \in Reconcilers |-> NoAnswer]
    /\ nextCid = 1 /\ nextVid = 1
    /\ faults = 0 /\ happened = {}

\* What may go wrong or get in the way is counted together, each kind remembered.
Fault(kind) == faults < MaxFaults /\ faults' = faults + 1 /\ happened' = happened \cup {kind}
Answer(r, code, id, st) == ans' = [ans EXCEPT ![r] = [code |-> code, id |-> id, st |-> st]]

\* The VMs of cluster c that are not being torn in the table f.
LiveIn(f, c) == {v \in Vids : f[v].c = c /\ f[v].st # "teardown"}
\* mark_host_cluster_pending_teardown: the cluster leaves the hosts it has no live VM on.
Leave(f, c) == IF hosted[c] = "active" /\ LiveIn(f, c) = {} THEN [hosted EXCEPT ![c] = "pending"] ELSE hosted

(***************************************************************************)
(* The RPCs.                                                               *)
(***************************************************************************)
\* The lowest endpoint of the pool that no cluster holds.
FreeVips == {n \in Vips : n \notin others /\ \A c \in rows : n # vip[c]}
LowestFree == {n \in FreeVips : \A k \in FreeVips : n <= k}

\* create_cluster: the row of the name, or a new one with the lowest free
\* endpoint, or the pool is exhausted.  (VNI and CIDR are picked the same way.)
CreateCluster(r) ==
    /\ \/ \E c \in rows : Answer(r, "ok", c, "gone") /\ UNCHANGED <<rows, nextCid, vip>>
       \/ /\ rows = {} /\ nextCid <= MaxClusters
          /\ \E n \in LowestFree : vip' = [vip EXCEPT ![nextCid] = n]
          /\ rows' = {nextCid} /\ nextCid' = nextCid + 1
          /\ Answer(r, "ok", nextCid, "gone")
       \/ /\ rows = {} /\ (nextCid > MaxClusters \/ FreeVips = {})
          /\ Answer(r, "error", 0, "gone") /\ UNCHANGED <<rows, nextCid, vip>>
    /\ UNCHANGED <<hosted, vms, calls, nextVid, others, asked, faults, happened>>

\* Somebody creates a cluster with another name.
OtherCluster ==
    /\ Fault("taken")
    /\ \E n \in LowestFree : others' = others \cup {n}
    /\ UNCHANGED <<rows, hosted, vms, calls, ans, nextCid, nextVid, vip, asked>>

\* delete_cluster: a missing row is success; else every VM and every host row
\* of the cluster becomes a tombstone.
DeleteCluster(r, c) ==
    /\ \/ c \notin rows /\ UNCHANGED <<vms, hosted, asked>>
       \/ /\ c \in rows
          /\ vms' = [v \in Vids |-> IF vms[v].c = c THEN [vms[v] EXCEPT !.st = "teardown"] ELSE vms[v]]
          /\ hosted' = [hosted EXCEPT ![c] = IF @ = "active" THEN "pending" ELSE @]
          /\ asked' = asked \cup {c}
    /\ Answer(r, "ok", c, "gone")
    /\ UNCHANGED <<rows, calls, nextCid, nextVid, vip, others, faults, happened>>

GetMachine(r, v) ==
    /\ IF vms[v] = NoVm THEN Answer(r, "notfound", 0, "gone") ELSE Answer(r, "ok", v, vms[v].st)
    /\ UNCHANGED <<rows, hosted, vms, calls, nextCid, nextVid, vip, others, asked, faults, happened>>

\* delete_machine: a missing row is success, a row becomes a tombstone.
DeleteMachine(r, v) ==
    /\ \/ vms[v] = NoVm /\ UNCHANGED <<vms, hosted>>
       \/ /\ vms[v] # NoVm
          /\ vms' = [vms EXCEPT ![v].st = "teardown"]
          /\ hosted' = Leave(vms', vms[v].c)
    /\ Answer(r, "ok", v, "gone")
    /\ UNCHANGED <<rows, calls, nextCid, nextVid, vip, others, asked, faults, happened>>

Named(m, c) == {v \in Vids : vms[v].name = m /\ vms[v].c = c}

BeginCreate_NoWait(m, c) ==
    /\ \/ /\ c \notin rows
          /\ Answer(m, "notfound", 0, "gone") /\ UNCHANGED <<vms, hosted, calls, nextVid>>
       \/ /\ c \in rows
          /\ \E v \in Named(m, c) : Answer(m, "ok", v, vms[v].st)
          /\ UNCHANGED <<vms, hosted, calls, nextVid>>
       \/ /\ c \in rows /\ Named(m, c) = {} /\ nextVid > MaxVms
          /\ Answer(m, "error", 0, "gone") /\ UNCHANGED <<vms, hosted, calls, nextVid>>
       \/ /\ c \in rows /\ Named(m, c) = {} /\ nextVid <= MaxVms
          /\ vms' = [vms EXCEPT ![nextVid] = [name |-> m, c |-> c, st |-> "creating"]]
          /\ hosted' = [hosted EXCEPT ![c] = "active"]
          /\ nextVid' = nextVid + 1
          /\ Answer(m, "ok", nextVid, "creating") /\ UNCHANGED calls
    /\ UNCHANGED <<rows, nextCid, vip, others, asked, faults, happened>>

\* create_machine up to the wait: no cluster, the row of the name in whatever
\* state it is, no capacity, or a new row whose agent is told to create it.
BeginCreate(m, c) ==
    /\ \/ /\ c \notin rows
          /\ Answer(m, "notfound", 0, "gone") /\ UNCHANGED <<vms, hosted, calls, nextVid>>
       \/ /\ c \in rows
          /\ \E v \in Named(m, c) : Answer(m, "ok", v, vms[v].st)
          /\ UNCHANGED <<vms, hosted, calls, nextVid>>
       \/ /\ c \in rows /\ Named(m, c) = {} /\ nextVid > MaxVms
          /\ Answer(m, "error", 0, "gone") /\ UNCHANGED <<vms, hosted, calls, nextVid>>
       \/ /\ c \in rows /\ Named(m, c) = {} /\ nextVid <= MaxVms
          /\ vms' = [vms EXCEPT ![nextVid] = [name |-> m, c |-> c, st |-> "creating"]]
          /\ hosted' = [hosted EXCEPT ![c] = "active"]
          /\ calls' = [calls EXCEPT ![m] = nextVid]
          /\ nextVid' = nextVid + 1
          /\ UNCHANGED ans
    /\ UNCHANGED <<rows, nextCid, vip, others, asked, faults, happened>>

\* The agent reports the VM running: the row is read again for the answer.
CreateRuns(m) ==
    LET v == calls[m] IN
    /\ v # 0
    /\ calls' = [calls EXCEPT ![m] = 0]
    /\ IF vms[v] = NoVm
       THEN Answer(m, "notfound", 0, "gone") /\ UNCHANGED vms
       ELSE /\ vms' = [vms EXCEPT ![v].st = IF @ = "teardown" THEN @ ELSE "running"]
            /\ Answer(m, "ok", v, vms'[v].st)
    /\ UNCHANGED <<rows, hosted, nextCid, nextVid, vip, others, asked, faults, happened>>

\* cleanup_failed_vm: the row stays, as a tombstone, until its host acknowledges.
GiveUp(v) ==
    IF vms[v] = NoVm THEN UNCHANGED <<vms, hosted>>
    ELSE /\ vms' = [vms EXCEPT ![v].st = "teardown"]
         /\ hosted' = Leave(vms', vms[v].c)

\* The agent failed, or refuses for now: then the client is told to come back.
CreateFails(m) ==
    /\ calls[m] # 0
    /\ GiveUp(calls[m])
    /\ calls' = [calls EXCEPT ![m] = 0]
    /\ \/ Fault("died") /\ Answer(m, "error", 0, "gone")
       \/ Fault("busy") /\ Answer(m, "unavailable", 0, "gone")
    /\ UNCHANGED <<rows, nextCid, nextVid, vip, others, asked>>

\* CREATE_VM_TIMEOUT: the row is marked FAILED, whatever became of it meanwhile.
CreateTimesOut(m) ==
    LET v == calls[m] IN
    /\ v # 0 /\ Fault("lost")
    /\ vms' = IF vms[v] = NoVm THEN vms ELSE [vms EXCEPT ![v].st = "failed"]
    /\ calls' = [calls EXCEPT ![m] = 0]
    /\ Answer(m, "deadline", 0, "gone")
    /\ UNCHANGED <<rows, hosted, nextCid, nextVid, vip, others, asked>>

\* The connection or the controller goes away while the call waits.
CreateCut(m) ==
    /\ calls[m] # 0 /\ Fault("lost")
    /\ calls' = [calls EXCEPT ![m] = 0]
    /\ Answer(m, "unavailable", 0, "gone")
    /\ UNCHANGED <<rows, hosted, vms, nextCid, nextVid, vip, others, asked>>

(***************************************************************************)
(* What happens without a client.                                          *)
(***************************************************************************)
\* The agent reports a VM no call waits for as running: a create whose call is
\* gone, or a VM that was given up and came back with its host or its agent.
VmReportedRunning(v) ==
    /\ vms[v].st \in {"creating", "failed"} /\ \A m \in Machines : calls[m] # v
    /\ vms' = [vms EXCEPT ![v].st = "running"]
    /\ UNCHANGED <<rows, hosted, calls, ans, nextCid, nextVid, vip, others, asked, faults, happened>>

\* The agent reports a VM no call waits for as failed.
VmDies(v) ==
    /\ vms[v].st \in {"creating", "running"} /\ \A m \in Machines : calls[m] # v
    /\ Fault("died")
    /\ vms' = [vms EXCEPT ![v].st = "failed"]
    /\ UNCHANGED <<rows, hosted, calls, ans, nextCid, nextVid, vip, others, asked>>

\* mark_vms_failed_on_host: the host of the VMs S is given up.  Every row that
\* is not FAILED already becomes it, a row that is PENDING_TEARDOWN too.
HostGivenUp(S) ==
    /\ S # {} /\ \A v \in S : vms[v] # NoVm /\ vms[v].st # "failed"
    /\ Fault("host")
    /\ vms' = [v \in Vids |-> IF v \in S THEN [vms[v] EXCEPT !.st = "failed"] ELSE vms[v]]
    /\ UNCHANGED <<rows, hosted, calls, ans, nextCid, nextVid, vip, others, asked>>

\* ack_tombstones for a VM: its row goes.
VmAcked(v) ==
    /\ vms[v].st = "teardown"
    /\ vms' = [vms EXCEPT ![v] = NoVm]
    /\ UNCHANGED <<rows, hosted, calls, ans, nextCid, nextVid, vip, others, asked, faults, happened>>

\* ack_tombstones for a cluster: its host rows go, and with the last VM row
\* the clusters row and its VIP, whether or not anyone asked for that.
ClusterAcked(c) ==
    /\ hosted[c] = "pending"
    /\ hosted' = [hosted EXCEPT ![c] = "none"]
    /\ rows' = IF \E v \in Vids : vms[v].c = c THEN rows ELSE rows \ {c}
    /\ UNCHANGED <<vms, calls, ans, nextCid, nextVid, vip, others, asked, faults, happened>>

ByItself == \/ \E v \in Vids : VmReportedRunning(v) \/ VmDies(v)
            \/ \E S \in SUBSET Vids : HostGivenUp(S)
            \/ OtherCluster
Acks == \/ \E v \in Vids : VmAcked(v)
        \/ \E c \in Cids : ClusterAcked(c)
=============================================================================
