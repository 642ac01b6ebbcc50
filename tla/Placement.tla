------------------------------ MODULE Placement ------------------------------
(***************************************************************************)
(* Placing VMs: the CreateMachine calls that schedule under the placement  *)
(* lock and commit with insert_vm, and everything that changes under them  *)
(* meanwhile: heartbeats that replace a host's storage rows, hosts that    *)
(* register again or go silent, devices that fail, are drained or filled,  *)
(* and VMs that are torn down.                                             *)
(*                                                                         *)
(* Dispatching the command to the agent and the VM's own life are in       *)
(* Controller and HostAgent; the agent's volumes in full are in VmDisks.   *)
(***************************************************************************)
EXTENDS Scheduler, GpuTopology

CONSTANTS
    Hosts, Devices, VMs,
    HostSpec,        \* cpu, mem, rootfs, labels, rank, ngpus, pools of a host
    Size,            \* Size[d]: the GiB of a device
    Req,             \* Req[v]: the request that makes the VM
    Wirings,         \* Wirings[h]: the NVLink wirings the host may have
    MaxAttempts,     \* MAX_SCHEDULE_ATTEMPTS
    Unsteady,        \* the devices that are drained or fail
    MaxChanges,      \* bound: changes of hosts and devices
    MaxFailures,     \* bound: failed statements and dropped calls
    NoSnap

VARIABLES
    wiring,    \* wiring[h]: the NVLink pairs of the host
    hosts,     \* hosts: healthy, data_total_bytes, gpu_inventory
    report,    \* host_pools and host_pool_devices, of the last heartbeat
    vms,       \* vms with vm_gpus: host, gpus, the device of each disk
    assigned,  \* pool_disk_assignment: <<vm, disk, device>>
    marker,    \* device_scheduling_state: "none" for a device without a row
    ips,       \* ips[v]: how many cluster IPs are allocated to the VM
    cache,     \* storage_capacity of each agent
    lvs,       \* the data volumes there are: <<vm, disk, device>>
    broken,    \* devices whose volume group is missing
    agent,     \* what the agent did with a VM
    pc, tries, \* where a CreateMachine call is, and its attempts
    queue,     \* placement_lock: the holder and those who wait, in order
    snap,      \* what the holder has read
    changes, failures,
    blind,     \* VMs committed to a device that had another one the agent
               \* had not reported (history)
    kept       \* VMs whose last release of IPs failed, or whose call was
               \* dropped between the allocation and the commit (history)

rows == <<hosts, report, vms, assigned, marker, ips>>
agents == <<cache, lvs, broken, agent>>
calls == <<pc, tries, queue, snap>>
marks == <<failures, blind, kept>>
vars == <<wiring, rows, agents, calls, changes, marks>>

\* There is no row: it has none of the fields of one.
NoRow == <<>>

PoolsOf(h) == HostSpec[h].pools
DevicesOf(h) == UNION {ToSet(PoolsOf(h)[p].devices) : p \in DOMAIN PoolsOf(h)}
Disks(v) == DOMAIN Req[v].disks
DiskSize(x) == Req[x[1]].disks[x[2]].size
Sum(S, f(_)) == MapThenSumSet(f, S)
On(h) == {v \in VMs : vms[v] # NoRow /\ vms[v].host = h}

-----------------------------------------------------------------------------
(* What an agent sees of its devices, and what the controller makes of it. *)

\* pool_capacity: the volumes and the devices that answer.
Capacity(h) ==
    [lvs |-> {x \in lvs : x[3] \in DevicesOf(h)}, ready |-> DevicesOf(h) \ broken]

\* Mutant: the size of the device.
FreeOf_Size(cap, d) == Size[d]

FreeOf(cap, d) == Size[d] - Sum({x \in cap.lvs : x[3] = d}, DiskSize)

\* StorageCapacityBytes::from_proto: the total of the ready devices.
DataTotal(cap) == Sum(cap.ready, LAMBDA d : Size[d])

\* discover_gpus: without nvidia-smi every group is 0.
Inventories(h) ==
    LET n == HostSpec[h].ngpus
    IN {[i \in 0 .. n - 1 |-> 0], NvlinkGroups(wiring[h], n)}

Init ==
    /\ wiring \in {f \in [Hosts -> UNION Range(Wirings)] : \A h \in Hosts : f[h] \in Wirings[h]}
    /\ cache = [h \in Hosts |-> [lvs |-> {}, ready |-> DevicesOf(h)]]
    /\ hosts = [h \in Hosts |-> [healthy |-> TRUE, data |-> DataTotal(cache[h]),
                                 groups |-> NvlinkGroups(wiring[h], HostSpec[h].ngpus)]]
    /\ report = cache
    /\ vms = [v \in VMs |-> NoRow] /\ agent = [v \in VMs |-> "none"]
    /\ marker = [d \in Devices |-> "none"]
    /\ assigned = {} /\ lvs = {} /\ broken = {} /\ blind = {} /\ kept = {}
    /\ ips = [v \in VMs |-> 0]
    /\ pc = [v \in VMs |-> "new"] /\ tries = [v \in VMs |-> 0]
    /\ queue = <<>> /\ snap = NoSnap /\ changes = 0 /\ failures = 0

-----------------------------------------------------------------------------
(* CreateMachine, from the look for an existing VM to the commit. *)

Named(v) == {w \in VMs : /\ vms[w] # NoRow
                         /\ Req[w].cluster = Req[v].cluster /\ Req[w].name = Req[v].name}

Goto(v, l) == pc' = [pc EXCEPT ![v] = l]

\* try_place_vm returns: the guard is dropped.
Unlock == queue' = Tail(queue) /\ snap' = NoSnap

\* The idempotency check; then the first attempt asks for the lock.
Begin(v) ==
    /\ pc[v] = "new"
    /\ \/ Named(v) # {} /\ Goto(v, "existing") /\ UNCHANGED queue
       \/ Named(v) = {} /\ Goto(v, "wait") /\ queue' = Append(queue, v)
    /\ UNCHANGED <<wiring, rows, agents, tries, snap, changes, marks>>

\* list_healthy_hosts, once the lock is held.
HostRow(h) ==
    [id |-> h, cpu |-> HostSpec[h].cpu, mem |-> HostSpec[h].mem, rootfs |-> HostSpec[h].rootfs,
     data |-> hosts[h].data, labels |-> HostSpec[h].labels, rank |-> HostSpec[h].rank,
     gpus |-> [i \in 1 .. HostSpec[h].ngpus |-> [pci |-> i - 1, group |-> hosts[h].groups[i - 1]]]]

ReadHosts(v) ==
    /\ pc[v] = "wait" /\ Head(queue) = v
    /\ Goto(v, "usage")
    /\ LET healthy == {h \in Hosts : hosts[h].healthy}
       IN snap' = [hosts |-> {HostRow(h) : h \in healthy}, todo |-> healthy, row |-> hosts,
                   used |-> <<>>, view |-> <<>>, replicas |-> <<>>, seen |-> <<>>,
                   pick |-> NoRow]
    /\ UNCHANGED <<wiring, rows, agents, tries, queue, changes, marks>>

\* host_usage_snapshot: what the VM rows of a host ask for.
Used(h) ==
    [cpu |-> Sum(On(h), LAMBDA w : Req[w].cpu), mem |-> Sum(On(h), LAMBDA w : Req[w].mem),
     rootfs |-> Sum(On(h), LAMBDA w : Req[w].rootfs), data |-> Sum(On(h), LAMBDA w : DataGib(Req[w]))]

Claimed(h) == UNION {vms[w].gpus : w \in On(h)}

\* Its first query, and
ReadUsage(v) ==
    /\ pc[v] = "usage"
    /\ Goto(v, "claims")
    /\ snap' = [snap EXCEPT !.used = [h \in Hosts |-> Used(h)]]
    /\ UNCHANGED <<wiring, rows, agents, tries, queue, changes, marks>>

\* the other two: GPUs, and VMs of the same cluster.
ReadClaims(v) ==
    /\ pc[v] = "claims"
    /\ Goto(v, "storage")
    /\ snap' = [snap EXCEPT !.used =
           [h \in Hosts |-> [pcis |-> Claimed(h),
                             mates |-> Cardinality({w \in On(h) : Req[w].cluster = Req[v].cluster})]
                            @@ snap.used[h]]]
    /\ UNCHANGED <<wiring, rows, agents, tries, queue, changes, marks>>

\* The REPLICATED assignments of the request's cluster on a host.
Replicas(h, v) ==
    {x \in assigned : /\ x[3] \in DevicesOf(h) /\ Req[x[1]].disks[x[2]].replicated
                      /\ Req[x[1]].cluster = Req[v].cluster}

\* A drain marker is stored as 'draining' and looked for as "disabled".
Drained(d) == marker[d] = "disabled"

\* HostStorageView::from_rows
StorageView(h, v) ==
    [p \in DOMAIN PoolsOf(h) |->
        [labels |-> PoolsOf(h)[p].labels, lvm |-> PoolsOf(h)[p].lvm,
         devices |-> [k \in DOMAIN PoolsOf(h)[p].devices |->
             LET d == PoolsOf(h)[p].devices[k]
             IN [id |-> d,
                 free |-> IF d \in report[h].ready THEN FreeOf(report[h], d) ELSE 0,
                 schedulable |-> d \in report[h].ready /\ ~Drained(d),
                 mates |-> \E x \in Replicas(h, v) : x[3] = d]]]]

\* The storage rows, host by host.
ReadStorage(v, h) ==
    /\ pc[v] = "storage" /\ h \in snap.todo
    /\ snap' = [snap EXCEPT !.todo = @ \ {h}, !.view = (h :> StorageView(h, v)) @@ @,
                            !.replicas = (h :> Cardinality(Replicas(h, v))) @@ @,
                            !.seen = (h :> report[h].lvs) @@ @]
    /\ UNCHANGED <<wiring, rows, agents, pc, tries, queue, changes, marks>>

\* schedule; a placement gets its cluster IP.
Decide(v) ==
    /\ pc[v] = "storage" /\ snap.todo = {}
    /\ \E d \in Schedule(snap, Req[v]) :
          \/ /\ d \in {NoCapacity, Unmet}
             /\ Goto(v, IF d = NoCapacity THEN "nocapacity" ELSE "unmet")
             /\ Unlock /\ UNCHANGED ips
          \/ /\ d \notin {NoCapacity, Unmet}
             /\ snap' = [snap EXCEPT !.pick = d]
             /\ ips' = [ips EXCEPT ![v] = @ + 1]
             /\ Goto(v, "insert") /\ UNCHANGED queue
    /\ UNCHANGED <<wiring, hosts, report, vms, assigned, marker, agents, tries, changes, marks>>

\* Mutant: the gate looks at the row the scheduler read.
Gate_Stale(v, h) ==
    LET used == Used(h)
    IN /\ snap.row[h].healthy
       /\ EffectiveCpu(HostSpec[h].cpu) - used.cpu >= Req[v].cpu
       /\ HostSpec[h].mem - used.mem >= Req[v].mem
       /\ HostSpec[h].rootfs - used.rootfs * Gib >= Req[v].rootfs * Gib
       /\ snap.row[h].data - used.data >= DataGib(Req[v])

\* Mutant: the last CPU of a host is never given out.
Gate_Strict(v, h) ==
    LET used == Used(h)
    IN /\ hosts[h].healthy
       /\ EffectiveCpu(HostSpec[h].cpu) - used.cpu > Req[v].cpu
       /\ HostSpec[h].mem - used.mem >= Req[v].mem
       /\ HostSpec[h].rootfs - used.rootfs * Gib >= Req[v].rootfs * Gib
       /\ hosts[h].data - used.data >= DataGib(Req[v])

\* The WHERE EXISTS of insert_vm.
Gate(v, h) ==
    LET used == Used(h)
    IN /\ hosts[h].healthy
       /\ EffectiveCpu(HostSpec[h].cpu) - used.cpu >= Req[v].cpu
       /\ HostSpec[h].mem - used.mem >= Req[v].mem
       /\ HostSpec[h].rootfs - used.rootfs * Gib >= Req[v].rootfs * Gib
       /\ hosts[h].data - used.data >= DataGib(Req[v])

\* release_vm_ips: every IP of the VM, whichever attempt allocated it.  A
\* failure is logged and the caller goes on.
Failure == failures < MaxFailures /\ failures' = failures + 1
Released(v) == ips' = [ips EXCEPT ![v] = 0] /\ kept' = kept \ {v}
ReleaseFails(v) == UNCHANGED ips /\ kept' = kept \cup {v}
Undo(v) == (Released(v) /\ UNCHANGED failures) \/ (ReleaseFails(v) /\ Failure)

\* Mutant: the IP of a lost attempt is not released.
Raced_KeepsIp(v) ==
    /\ snap' = NoSnap /\ UNCHANGED <<ips, kept, failures>>
    /\ tries' = [tries EXCEPT ![v] = @ + 1]
    /\ \/ /\ tries[v] + 1 < MaxAttempts /\ Goto(v, "wait") /\ queue' = Append(Tail(queue), v)
       \/ /\ tries[v] + 1 >= MaxAttempts /\ Goto(v, "contended") /\ queue' = Tail(queue)
    /\ UNCHANGED <<vms, assigned, blind>>

\* CapacityRaced, or HostUnavailable when the host is not healthy: the attempt
\* is undone and the next one queues again, up to MAX_SCHEDULE_ATTEMPTS.
Raced(v) ==
    /\ snap' = NoSnap /\ Undo(v)
    /\ tries' = [tries EXCEPT ![v] = @ + 1]
    /\ \/ /\ tries[v] + 1 < MaxAttempts /\ Goto(v, "wait") /\ queue' = Append(Tail(queue), v)
       \/ /\ tries[v] + 1 >= MaxAttempts /\ Goto(v, "contended") /\ queue' = Tail(queue)
    /\ UNCHANGED <<vms, assigned, blind>>

\* A device that the pick uses and on which a VM is whose volume the report the
\* pick was made from does not have.
Blind(v, h, devs) ==
    \E i \in DOMAIN devs : \E w \in On(h) : \E j \in Disks(w) :
        vms[w].disks[j] = devs[i] /\ <<w, j, devs[i]>> \notin snap.seen[h]

\* insert_vm: row, GPU claims and disk assignments in one transaction, and what
\* try_place_vm makes of its result; after any error the IP is released.
Insert(v) ==
    LET h == snap.pick.host
    IN /\ pc[v] = "insert"
       /\ \/ Raced(v) /\ (~Gate(v, h) \/ (Named(v) = {} /\ snap.pick.gpus \cap Claimed(h) # {}))
          \/ /\ Goto(v, "lookup") /\ Unlock /\ Undo(v)
             /\ Named(v) # {} /\ Gate(v, h)
             /\ UNCHANGED <<tries, vms, assigned, blind>>
          \/ /\ Goto(v, "internal") /\ Unlock /\ (Released(v) \/ ReleaseFails(v)) /\ Failure
             /\ UNCHANGED <<tries, vms, assigned, blind>>
          \/ /\ Goto(v, "placed") /\ Unlock /\ UNCHANGED <<ips, tries, kept, failures>>
             /\ Named(v) = {} /\ snap.pick.gpus \cap Claimed(h) = {} /\ Gate(v, h)
             /\ vms' = [vms EXCEPT ![v] = [host |-> h, gpus |-> snap.pick.gpus,
                                           disks |-> snap.pick.disks]]
             /\ assigned' = assigned \cup {<<v, i, snap.pick.disks[i]>> : i \in Disks(v)}
             /\ blind' = IF Blind(v, h, snap.pick.disks) THEN blind \cup {v} ELSE blind
       /\ UNCHANGED <<wiring, hosts, report, marker, agents, changes>>

\* A call that lost to one of the same name answers with that one's row.
Lookup(v) ==
    /\ pc[v] = "lookup"
    /\ Goto(v, IF Named(v) # {} THEN "existing" ELSE "internal")
    /\ UNCHANGED <<wiring, rows, agents, tries, queue, snap, changes, marks>>

\* A read of the call fails, or allocate_cluster_vm_ip: it returns an error, and
\* drops the guard if it has it.
Fails(v) ==
    /\ Failure
    /\ Goto(v, "internal")
    /\ \/ pc[v] \in {"new", "lookup"} /\ UNCHANGED <<queue, snap>>
       \/ (pc[v] \in {"usage", "claims", "storage"} \/ (pc[v] = "wait" /\ Head(queue) = v)) /\ Unlock
    /\ UNCHANGED <<wiring, rows, agents, tries, changes, blind, kept>>

\* The client is gone and the handler's future with it: its place in the queue,
\* or the guard, is given up, and nothing is undone.
Drop(v) ==
    /\ Failure
    /\ Goto(v, "dropped")
    /\ \/ pc[v] = "lookup" /\ UNCHANGED <<queue, snap>>
       \/ /\ pc[v] = "wait" /\ UNCHANGED snap
          /\ \E i \in DOMAIN queue : queue[i] = v /\ queue' = RemoveAt(queue, i)
       \/ pc[v] \in {"usage", "claims", "storage", "insert"} /\ Unlock
    /\ kept' = IF pc[v] = "insert" THEN kept \cup {v} ELSE kept
    /\ UNCHANGED <<wiring, rows, agents, tries, changes, blind>>

-----------------------------------------------------------------------------
(* The agents. *)

\* Every disk of the VM on the device the row names, or the create fails: the
\* device is lost, or full.
AgentCreate(v) ==
    LET new == {<<v, i, vms[v].disks[i]>> : i \in Disks(v)}
        lost == {x[3] : x \in new} \cap broken # {}
        full == \E y \in new : Sum({x \in lvs \cup new : x[3] = y[3]}, DiskSize) > Size[y[3]]
    IN /\ vms[v] # NoRow /\ agent[v] = "none"
       /\ lvs' = IF lost \/ full THEN lvs ELSE lvs \cup new
       /\ agent' = [agent EXCEPT ![v] = IF lost THEN "lost" ELSE IF full THEN "full" ELSE "runs"]
       /\ UNCHANGED <<wiring, rows, cache, broken, calls, changes, marks>>

\* A deleted VM: first its volumes go,
TearDown(v) ==
    /\ vms[v] # NoRow /\ agent[v] # "gone"
    /\ lvs' = {x \in lvs : x[1] # v}
    /\ agent' = [agent EXCEPT ![v] = "gone"]
    /\ UNCHANGED <<wiring, rows, cache, broken, calls, changes, marks>>

\* then, at the acknowledgement, its row, its GPU claims and its IP.  The disk
\* assignments stay.
AckTearDown(v) ==
    /\ vms[v] # NoRow /\ agent[v] = "gone"
    /\ vms' = [vms EXCEPT ![v] = NoRow]
    /\ Released(v)
    /\ UNCHANGED <<wiring, hosts, report, assigned, marker, agents, calls, changes, blind, failures>>

\* spawn_storage_capacity_loop
RefreshCapacity(h) ==
    /\ cache[h] # Capacity(h)
    /\ cache' = [cache EXCEPT ![h] = Capacity(h)]
    /\ UNCHANGED <<wiring, rows, lvs, broken, agent, calls, changes, marks>>

\* record_heartbeat, with what the capacity loop saw last.
Heartbeat(h) ==
    /\ report[h] # cache[h] \/ ~hosts[h].healthy
    /\ hosts' = [hosts EXCEPT ![h].healthy = TRUE, ![h].data = DataTotal(cache[h])]
    /\ report' = [report EXCEPT ![h] = cache[h]]
    /\ UNCHANGED <<wiring, vms, assigned, marker, ips, agents, calls, changes, marks>>

Change == changes < MaxChanges /\ changes' = changes + 1

\* register_or_lookup_host: the host row, but no storage rows.
Register(h) ==
    /\ Change
    /\ \E g \in Inventories(h) :
          hosts' = [hosts EXCEPT ![h] = [healthy |-> TRUE, data |-> DataTotal(cache[h]), groups |-> g]]
    /\ UNCHANGED <<wiring, report, vms, assigned, marker, ips, agents, calls, marks>>

\* mark_host_unhealthy
HostGone(h) ==
    /\ Change /\ hosts[h].healthy
    /\ hosts' = [hosts EXCEPT ![h].healthy = FALSE]
    /\ UNCHANGED <<wiring, report, vms, assigned, marker, ips, agents, calls, marks>>

\* set_device_scheduling_state: "disabled" and "enabled".
Drain(d) ==
    /\ Change
    /\ marker' = [marker EXCEPT ![d] = IF @ = "none" THEN "draining" ELSE "none"]
    /\ UNCHANGED <<wiring, hosts, report, vms, assigned, ips, agents, calls, marks>>

\* A volume group goes missing or comes back.
Toggle(d) ==
    /\ Change
    /\ broken' = IF d \in broken THEN broken \ {d} ELSE broken \cup {d}
    /\ UNCHANGED <<wiring, rows, cache, lvs, agent, calls, marks>>

CallStep(v) ==
    \/ Begin(v) \/ ReadHosts(v) \/ ReadUsage(v) \/ ReadClaims(v)
    \/ (\E h \in Hosts : ReadStorage(v, h))
    \/ Decide(v) \/ Insert(v) \/ Lookup(v) \/ Fails(v) \/ Drop(v)

Next ==
    \/ \E v \in VMs : CallStep(v) \/ AgentCreate(v) \/ TearDown(v) \/ AckTearDown(v)
    \/ \E h \in Hosts : RefreshCapacity(h) \/ Heartbeat(h) \/ Register(h) \/ HostGone(h)
    \/ \E d \in Unsteady : Drain(d) \/ Toggle(d)

Spec == Init /\ [][Next]_vars

-----------------------------------------------------------------------------
(* Correctness *)

Capacities(h) == [lvs : SUBSET (VMs \X (1 .. 2) \X DevicesOf(h)), ready : SUBSET DevicesOf(h)]
Ended == {"placed", "existing", "nocapacity", "unmet", "contended", "internal", "dropped"}

\* Rows, caches and calls have the values the schema and the code give them.
TypeOK ==
    /\ \A h \in Hosts : /\ hosts[h].healthy \in BOOLEAN /\ hosts[h].data \in Nat
                        /\ hosts[h].groups \in [0 .. HostSpec[h].ngpus - 1 -> Nat]
                        /\ report[h] \in Capacities(h) /\ cache[h] \in Capacities(h)
    /\ \A v \in VMs : vms[v] # NoRow =>
          vms[v].host \in Hosts /\ vms[v].disks \in Seq(Devices) /\ vms[v].gpus \in SUBSET Nat
    /\ assigned \subseteq VMs \X (1 .. 2) \X Devices
    /\ marker \in [Devices -> {"none", "draining"}]
    /\ ips \in [VMs -> 0 .. MaxAttempts] /\ blind \subseteq VMs /\ kept \subseteq VMs /\ broken \subseteq Devices
    /\ agent \in [VMs -> {"none", "runs", "lost", "full", "gone"}]
    /\ tries \in [VMs -> 0 .. MaxAttempts] /\ queue \in Seq(VMs)
    /\ pc \in [VMs -> {"new", "wait", "usage", "claims", "storage", "insert", "lookup"} \cup Ended]

Pick == snap.pick
HostPicked == CHOOSE r \in snap.hosts : r.id = Pick.host

\* A decision of the scheduler can be carried out in the state it read: the
\* labels match, the disks fit on their devices together, each on a device
\* that is ready and of a pool its selector asks for, and the GPUs are free
\* ones of the host, as many as asked (schedule, pick_disk_placements,
\* gpu_topology_score).
DecisionSound ==
    \A v \in VMs : pc[v] = "insert" =>
        LET view == snap.view[Pick.host]
            req == Req[v]
            devs == [x \in UNION {{p} \X DOMAIN view[p].devices : p \in DOMAIN view} |->
                        view[x[1]].devices[x[2]]]
        IN /\ \A r \in req.sel.requires : \E l \in HostPicked.labels : l[1] = r.key /\ l[2] \in r.values
           /\ \A i \in Disks(v) : \E x \in DOMAIN devs :
                 /\ devs[x].id = Pick.disks[i] /\ devs[x].schedulable
                 /\ Satisfies(req.disks[i].sel, view[x[1]].labels)
           /\ \A x \in DOMAIN devs :
                 Sum({i \in Disks(v) : Pick.disks[i] = devs[x].id}, LAMBDA i : req.disks[i].size)
                     <= AtLeastZero(devs[x].free)
           /\ Cardinality(Pick.gpus) = req.gpus
           /\ Pick.gpus \cap snap.used[Pick.host].pcis = {}

\* A VM that asked for GPUs of one NVLink group has GPUs that links join,
\* however the host is wired (assign_nvlink_groups on the agent, the hard
\* constraint of gpu_topology_score in the scheduler).
LinkedGpus ==
    \A v \in VMs : vms[v] # NoRow /\ Req[v].group > 0 =>
        \A i, j \in vms[v].gpus :
            i # j => Joined(wiring[vms[v].host], HostSpec[vms[v].host].ngpus, i, j)

\* Could the host take the request in some way, as far as v's snapshot goes?
Feasible(v, r) ==
    LET req == Req[v]
        used == snap.used[r.id]
        view == snap.view[r.id]
        free == {g \in ToSet(r.gpus) : g.pci \notin used.pcis}
    IN /\ Satisfies(req.sel, r.labels)
       /\ RatioDen * (used.cpu + req.cpu) <= RatioNum * r.cpu
       /\ used.mem + req.mem <= r.mem
       /\ Gib * (used.rootfs + req.rootfs) <= r.rootfs
       /\ used.data + DataGib(req) <= r.data
       /\ \E G \in SUBSET free :
             /\ Cardinality(G) = req.gpus
             /\ req.group > 0 /\ req.gpus > 0 => \E g \in G :
                   LET with == {x \in free : Joined(wiring[r.id], Len(r.gpus), g.pci, x.pci)}
                   IN g.group # 0 /\ G \subseteq with /\ Cardinality(with) >= req.group
       /\ \A i \in Disks(v) : \E p \in DOMAIN view : \E k \in DOMAIN view[p].devices :
             /\ Satisfies(req.disks[i].sel, view[p].labels)
             /\ view[p].devices[k].schedulable /\ view[p].devices[k].free >= req.disks[i].size

\* A request of at most one disk is refused for lack of capacity only when no
\* host could take it: preferences, rounding and the agent's numbering of
\* NVLink groups refuse nothing (schedule, assign_nvlink_groups; "None of
\* these fields can reject a placement").  Of two disks, the first
\* can be placed, by preference, where only the second would fit.
RefusedFitsNowhere ==
    [][\A v \in VMs : pc[v] = "storage" /\ pc'[v] = "nocapacity" /\ Len(Req[v].disks) <= 1 =>
           \A r \in snap.hosts : ~Feasible(v, r)]_vars

\* A VM is committed only to a healthy host that then has room for all its VMs,
\* the overcommit ratio applied without rounding up, and no GPU is claimed
\* twice, whatever heartbeats and registrations came between the scheduler's
\* reads and the commit (insert_vm).
NeverOverPlaced ==
    [][\A v \in VMs : \A h \in Hosts : vms[v] = NoRow /\ vms'[v] # NoRow /\ vms'[v].host = h =>
           /\ hosts[h].healthy
           /\ RatioDen * Used(h)'.cpu <= RatioNum * HostSpec[h].cpu
           /\ Used(h)'.mem <= HostSpec[h].mem
           /\ Gib * Used(h)'.rootfs <= HostSpec[h].rootfs
           /\ Used(h)'.data <= hosts[h].data
           /\ vms'[v].gpus \cap Claimed(h) = {}]_vars

\* Under the placement lock an attempt is lost only because the host row has
\* changed since the scheduler read it, never to another placement, nor for a
\* disagreement of scheduler and commit about what fits ("only on capacity
\* exhaustion or host disappearance, not on stale-snapshot stampedes").
RacedOnlyByChange ==
    [][\A v \in VMs : pc[v] = "insert" /\ pc'[v] \in {"wait", "contended"} =>
           hosts[Pick.host] # snap.row[Pick.host]]_vars

\* A create finds its device full only if the device was given to two VMs
\* between two reports of the agent: a device's free space is the agent's
\* word, and nothing is subtracted from it for VMs placed since
\* (pick_disk_placements, record_heartbeat).
FullOnlyBlind ==
    \A v \in VMs : agent[v] = "full" =>
        \E w \in blind : \E x, y \in assigned : x[1] = v /\ y[1] = w /\ x[3] = y[3]

\* What an attempt took is given back by every way out of it: a race, a lost
\* name, a failed statement (try_place_vm, release_vm_ips).  A VM that has a row
\* and the attempt that is about to commit hold one IP, all others none; the
\* exceptions are a release that fails itself, which is only logged, and a call
\* dropped between the allocation and the commit (kept), and even then a VM
\* with a row holds an IP.  Calls wait for the placement lock in order, only
\* the first is past its reads, and no call that ended, dropped ones included,
\* is still in the queue.
AttemptsGiveBack ==
    /\ \A v \in VMs :
          IF vms[v] # NoRow \/ pc[v] = "insert"
          THEN ips[v] >= 1 /\ (v \notin kept => ips[v] = 1)
          ELSE v \notin kept => ips[v] = 0
    /\ ToSet(queue) = {v \in VMs : pc[v] \notin Ended \cup {"new", "lookup"}}
    /\ \A i, j \in DOMAIN queue : i # j => queue[i] # queue[j]
    /\ \A i \in DOMAIN queue : i > 1 => pc[queue[i]] = "wait"
===============================================================================
