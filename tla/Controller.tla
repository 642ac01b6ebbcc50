------------------------------ MODULE Controller ------------------------------
(***************************************************************************)
(* The life of the VMs of one cluster in the controller: CreateMachine,    *)
(* DeleteMachine, DeleteCluster, the agents' streams with the outbox       *)
(* replay and the periodic reconcile, the inbound messages and the host    *)
(* health checker.  Every await of a handler is a point where others run,  *)
(* so each handler is a sequence of steps: one per database transaction    *)
(* or send.                                                                *)
(*                                                                         *)
(* A vm_id stands for the CreateMachine call that minted it.  The          *)
(* scheduler is abstracted to "some healthy host" (its capacity gates are  *)
(* left out), the reads that build one reconcile command to a single read, *)
(* and safety.autoReconcileOrphanInventory has its default (off), so the   *)
(* inventory an agent registers with changes nothing.                      *)
(***************************************************************************)
EXTENDS Wire

CONSTANTS
    Names,
    Ips,             \* addresses of the cluster's vm_range
    NoHost, NoIp, NoName,
    BridgeReserve,   \* addresses of the cluster's bridge_range
    MaxAttempts,     \* MAX_SCHEDULE_ATTEMPTS
    Faults,          \* which of "link" (a session is lost), "stale" (heartbeats
                     \* stop), "crash" (of the controller), "cancel" (a client
                     \* drops its call), "db" (a write fails) may happen,
    MaxFaults,       \* and how often between them
    MaxDeletes,      \* DeleteMachine calls
    Timeouts,        \* whether a create may take CREATE_MACHINE_TIMEOUT
    ClusterDeletes   \* whether DeleteCluster is called

ASSUME ControllerAssumption ==
    /\ Ips \subseteq Nat /\ ClusterDeletes \in BOOLEAN /\ Timeouts \in BOOLEAN
    /\ BridgeReserve \in Nat /\ MaxAttempts \in Nat \ {0} /\ MaxFaults \in Nat
    /\ MaxDeletes \in Nat
    /\ NoHost \notin Hosts /\ NoIp \notin Ips /\ NoName \notin Names

VARIABLES
    \* the database
    cluster,     \* the clusters row exists
    state,       \* vms.state; "none": no row
    host, name, ip,  \* vms.host_id, name, ip_address (known before the row is)
    owner,       \* ip_allocations.vm_id by address
    hc,          \* host_clusters.state by host: "none", "active", "pending"
    outbox,      \* pending_command.state by VM
    healthy,     \* hosts.healthy
    fresh,       \* hosts.last_heartbeat is within the stale threshold
    \* memory
    create,      \* what each create_machine future does at its next poll
    attempt,     \* its placement attempt
    reply,       \* the VM its response names
    waiter,      \* pending_ops and the oneshot: "none", "waiting" or a result
    del,         \* what the delete_machine future of a VM does next
    dc, dcLeft,  \* delete_cluster: its step, and what its loop has left
    entry,       \* agents map: "none", "open", "half" (the session is lost, the
                 \* channel still takes commands) or "closed" (sends fail)
    sess,        \* the stream_messages task of a host's latest stream
    late,        \* an older stream with its cleanup to run: "none", "holds"
                 \* (the entry is its own) or "superseded"
    replay,      \* the outbox replay: the rows left, the row being sent
    reading,     \* the VmState report the inbound loop is handling
    checker, stale,  \* host_health_checker: its step, the hosts it found
    faults, deletes,  \* faults and DeleteMachine calls so far
    doomed       \* history: VMs whose teardown was decided

vmVars == <<state, host, name, ip>>
netVars == <<cluster, owner, hc>>
healthVars == <<healthy, fresh, checker, stale>>
createVars == <<create, attempt, reply, waiter>>
deleteVars == <<del, dc, dcLeft, deletes>>
streamVars == <<entry, sess, late, replay, reading>>
ctlVars == <<vmVars, netVars, outbox, healthVars, createVars, deleteVars,
             streamVars, faults, doomed>>

-----------------------------------------------------------------------------
NoReport == [vm |-> NoVm, st |-> "none", prev |-> "none", step |-> "idle"]
NoReplay == [left |-> {}, cur |-> NoVm]

\* L: hosts that machines of the cluster have left and that still have to
\* acknowledge its tombstone.
CtlInit(L) ==
    /\ cluster = TRUE
    /\ state = [v \in VMs |-> "none"]
    /\ host = [v \in VMs |-> NoHost]
    /\ name = [v \in VMs |-> NoName]
    /\ ip = [v \in VMs |-> NoIp]
    /\ owner = [a \in Ips |-> NoVm]
    /\ hc = [h \in Hosts |-> IF h \in L THEN "pending" ELSE "none"]
    /\ outbox = [v \in VMs |-> "none"]
    /\ healthy = [h \in Hosts |-> FALSE]
    /\ fresh = [h \in Hosts |-> FALSE]
    /\ create = [v \in VMs |-> "idle"]
    /\ attempt = [v \in VMs |-> 1]
    /\ reply = [v \in VMs |-> NoVm]
    /\ waiter = [v \in VMs |-> "none"]
    /\ del = [v \in VMs |-> "idle"]
    /\ dc = "idle" /\ dcLeft = {}
    /\ entry = [h \in Hosts |-> "none"]
    /\ sess = [h \in Hosts |-> "none"]
    /\ late = [h \in Hosts |-> "none"]
    /\ replay = [h \in Hosts |-> NoReplay]
    /\ reading = [h \in Hosts |-> NoReport]
    /\ checker = "idle" /\ stale = {}
    /\ faults = 0 /\ deletes = 0
    /\ doomed = {}

-----------------------------------------------------------------------------
(* Parts of the handlers. *)

Rows == {v \in VMs : state[v] # "none"}
OnHost(h) == {v \in Rows : host[v] = h}
LiveOn(h) == {v \in OnHost(h) : state[v] # "teardown"}

Goto(v, l) == create' = [create EXCEPT ![v] = l]

\* The call gives the VM up: cleanup_failed_vm comes next.
GiveUp(v) == Goto(v, "c_mark") /\ doomed' = doomed \cup {v}

Fault(f) == f \in Faults /\ faults < MaxFaults /\ faults' = faults + 1

\* A write the caller only warns about when it fails.
Tried(write, skipped) ==
    \/ write /\ UNCHANGED faults
    \/ Fault("db") /\ UNCHANGED skipped

\* mark_vm_pending_teardown; a missing row is left alone.
MarkTeardown(v) ==
    state' = [state EXCEPT ![v] = IF @ = "none" THEN @ ELSE "teardown"]

\* Mutant: without the look for live VMs.
MarkHostCluster_Always(h) ==
    hc' = [hc EXCEPT ![h] = IF @ # "none" THEN "pending" ELSE @]

\* mark_host_cluster_pending_teardown: only when no live VM is left there.
MarkHostCluster(h) ==
    hc' = [hc EXCEPT ![h] = IF @ # "none" /\ LiveOn(h) = {} THEN "pending" ELSE @]

\* release_vm_ips
ReleaseVmIps(V) ==
    owner' = [a \in Ips |-> IF owner[a] \in V THEN NoVm ELSE owner[a]]

\* Mutant: every VM of the host is tombstoned.
BuildReconcile_AllVms(h, t) ==
    [type |-> t, active |-> hc[h] = "active", ctomb |-> hc[h] = "pending",
     vtombs |-> OnHost(h)]

\* Mutant: VM tombstones go out with the RegisterAck only.
BuildReconcile_AckOnly(h, t) ==
    [type |-> t, active |-> hc[h] = "active", ctomb |-> hc[h] = "pending",
     vtombs |-> {v \in OnHost(h) : t = "ack" /\ state[v] = "teardown"}]

\* build_reconcile_command, for this cluster.
BuildReconcile(h, t) ==
    [type |-> t, active |-> hc[h] = "active", ctomb |-> hc[h] = "pending",
     vtombs |-> {v \in OnHost(h) : state[v] = "teardown"}]

\* push_reconcile to each host of H that has an open entry; the channel of a
\* lost session swallows the command.
PushReconcile(H) ==
    LET open == {h \in H : entry[h] = "open"}
    IN /\ \A h \in open : HasRoom(h)
       /\ down' = [h \in Hosts |-> IF h \in open
                                    THEN Append(down[h], BuildReconcile(h, "reconcile"))
                                    ELSE down[h]]
       /\ UNCHANGED <<link, up>>

\* A create_machine future between agents.get and drop(agent) holds the
\* host's entry of the agents map: nobody inserts or removes it meanwhile.
\* (After a failed enqueue or send the code keeps it through the cleanup too;
\* letting go at the failure only adds interleavings.)
GuardHeld(h) == \E v \in VMs : host[v] = h /\ create[v] \in {"send", "sent"}

-----------------------------------------------------------------------------
(* CreateMachine *)

\* The cluster lookup and the idempotent return of the VM with that name,
\* whatever its state.
Receive(v, n) ==
    /\ create[v] = "idle"
    /\ name' = [name EXCEPT ![v] = n]
    /\ LET same == {w \in Rows : name[w] = n}
       IN \/ ~cluster /\ Goto(v, "error") /\ UNCHANGED reply
          \/ cluster /\ same = {} /\ Goto(v, "place") /\ UNCHANGED reply
          \/ \E w \in same : /\ cluster
                             /\ reply' = [reply EXCEPT ![v] = w]
                             /\ Goto(v, "ok")
    /\ UNCHANGED <<state, host, ip, netVars, outbox, healthVars, attempt, waiter,
                   deleteVars, streamVars, faults, doomed, wireVars>>

Placing == {"insert", "unplace_retry", "unplace_reread", "unplace_error"}

\* allocate_from_range: the addresses of vm_range nobody holds.
FreeIps == {a \in Ips : owner[a] = NoVm}

\* try_place_vm, up to the insert: under placement_lock pick a host and take
\* the lowest free address.
AllocateIp(v) ==
    /\ create[v] = "place"
    /\ \A w \in VMs : create[w] \notin Placing
    /\ \/ \E h \in Hosts, a \in FreeIps :
            /\ healthy[h]
            /\ \A b \in FreeIps : a <= b
            /\ host' = [host EXCEPT ![v] = h]
            /\ ip' = [ip EXCEPT ![v] = a]
            /\ owner' = [owner EXCEPT ![a] = v]
            /\ Goto(v, "insert")
       \/ /\ FreeIps = {} \/ \A h \in Hosts : ~healthy[h]
          /\ Goto(v, "error")
          /\ UNCHANGED <<host, ip, owner>>
    /\ UNCHANGED <<state, name, cluster, hc, outbox, healthVars, attempt, reply, waiter,
                   deleteVars, streamVars, faults, doomed, wireVars>>

\* Mutant: no unique index on the name.
NameTaken_Never(v) == FALSE

\* The unique index on (cluster, name).
NameTaken(v) == \E w \in Rows : name[w] = name[v]

\* insert_vm: the gate on hosts.healthy, then the foreign key on the cluster
\* and the unique (cluster, name).
InsertVm(v) ==
    LET open == healthy[host[v]]
    IN /\ create[v] = "insert"
       /\ \/ /\ open /\ cluster /\ ~NameTaken(v)
             /\ state' = [state EXCEPT ![v] = "creating"]
             /\ Goto(v, "activate") /\ UNCHANGED faults
          \/ ~open /\ Goto(v, "unplace_retry") /\ UNCHANGED <<state, faults>>
          \/ open /\ NameTaken(v) /\ Goto(v, "unplace_reread") /\ UNCHANGED <<state, faults>>
          \/ open /\ ~cluster /\ Goto(v, "unplace_error") /\ UNCHANGED <<state, faults>>
          \/ Fault("db") /\ Goto(v, "unplace_error") /\ UNCHANGED state
       /\ UNCHANGED <<host, name, ip, netVars, outbox, healthVars, attempt, reply, waiter,
                      deleteVars, streamVars, doomed, wireVars>>

\* The release after a failed insert, and what the retry loop does next.
Unplace(v) ==
    /\ create[v] \in Placing \ {"insert"}
    /\ Tried(ReleaseVmIps({v}), owner)
    /\ attempt' = [attempt EXCEPT ![v] =
                       IF create[v] = "unplace_retry" /\ @ < MaxAttempts THEN @ + 1 ELSE @]
    /\ Goto(v, CASE create[v] = "unplace_reread" -> "reread"
                 [] create[v] = "unplace_retry" /\ attempt[v] < MaxAttempts -> "place"
                 [] OTHER -> "error")
    /\ UNCHANGED <<vmVars, cluster, hc, outbox, healthVars, reply, waiter, deleteVars,
                   streamVars, doomed, wireVars>>

\* The NameConflict arm.
Reread(v) ==
    /\ create[v] = "reread"
    /\ \/ \E w \in Rows : /\ name[w] = name[v]
                          /\ reply' = [reply EXCEPT ![v] = w]
                          /\ Goto(v, "ok")
       \/ /\ \A w \in Rows : name[w] # name[v]
          /\ Goto(v, "error") /\ UNCHANGED reply
    /\ UNCHANGED <<vmVars, netVars, outbox, healthVars, attempt, waiter, deleteVars,
                   streamVars, faults, doomed, wireVars>>

\* Mutant: no foreign key on the cluster.
HasBridgeRow_NoKey(h) ==
    hc[h] # "none" \/ Cardinality({g \in Hosts : hc[g] # "none"}) < BridgeReserve

\* ensure_host_cluster_active has a row to reactivate, or can insert one: the
\* cluster exists and the bridge range has a free address.
HasBridgeRow(h) ==
    \/ hc[h] # "none"
    \/ cluster /\ Cardinality({g \in Hosts : hc[g] # "none"}) < BridgeReserve

Activate(v) ==
    /\ create[v] = "activate"
    /\ \/ /\ HasBridgeRow(host[v])
          /\ hc' = [hc EXCEPT ![host[v]] = "active"]
          /\ Goto(v, "broadcast") /\ UNCHANGED <<faults, doomed>>
       \/ ~HasBridgeRow(host[v]) /\ GiveUp(v) /\ UNCHANGED <<hc, faults>>
       \/ Fault("db") /\ GiveUp(v) /\ UNCHANGED hc
    /\ UNCHANGED <<vmVars, cluster, owner, outbox, healthVars, attempt, reply, waiter,
                   deleteVars, streamVars, wireVars>>

\* broadcast_cluster: to every host with a vms row of the cluster.
Broadcast(v) ==
    /\ create[v] = "broadcast"
    /\ PushReconcile({host[w] : w \in Rows})
    /\ Goto(v, "dispatch")
    /\ UNCHANGED <<vmVars, netVars, outbox, healthVars, attempt, reply, waiter,
                   deleteVars, streamVars, faults, doomed>>

\* agents.get, register_pending_op and the outbox insert.
Dispatch(v) ==
    /\ create[v] = "dispatch"
    /\ \/ /\ entry[host[v]] = "none"
          /\ GiveUp(v) /\ UNCHANGED <<waiter, outbox, faults>>
       \/ /\ entry[host[v]] # "none"
          /\ waiter' = [waiter EXCEPT ![v] = "waiting"]
          /\ outbox' = [outbox EXCEPT ![v] = "pending"]
          /\ Goto(v, "send") /\ UNCHANGED <<faults, doomed>>
       \/ /\ entry[host[v]] # "none" /\ Fault("db")
          /\ GiveUp(v) /\ UNCHANGED <<waiter, outbox>>
    /\ UNCHANGED <<vmVars, netVars, healthVars, attempt, reply, deleteVars, streamVars,
                   wireVars>>

\* Mutant: a closed channel is not noticed.
SendFails_Never(v) == FALSE /\ GiveUp(v)

\* The channel is closed: the outbox row stays pending.
SendFails(v) ==
    /\ entry[host[v]] = "closed"
    /\ waiter' = [waiter EXCEPT ![v] = "none"]
    /\ GiveUp(v) /\ UNCHANGED down

\* command_tx.send
Send(v) ==
    LET h == host[v]
    IN /\ create[v] = "send"
       /\ \/ /\ entry[h] = "open" /\ HasRoom(h)
             /\ down' = [down EXCEPT ![h] = Append(@, CreateVm(v))]
             /\ Goto(v, "sent") /\ UNCHANGED <<waiter, doomed>>
          \/ entry[h] = "half" /\ Goto(v, "sent") /\ UNCHANGED <<waiter, down, doomed>>
          \/ SendFails(v)
       /\ UNCHANGED <<vmVars, netVars, outbox, healthVars, attempt, reply, deleteVars,
                      streamVars, faults, link, up>>

\* mark_command_sent
MarkSent(v) == outbox' = [outbox EXCEPT ![v] = IF @ = "pending" THEN "sent" ELSE @]

SentMark(v) ==
    /\ create[v] = "sent"
    /\ Tried(MarkSent(v), outbox)
    /\ Goto(v, "wait")
    /\ UNCHANGED <<vmVars, netVars, healthVars, attempt, reply, waiter, deleteVars,
                   streamVars, doomed, wireVars>>

\* The waiter's result: RUNNING, FAILED, or closed by a lost stream.
Await(v) ==
    /\ create[v] = "wait"
    /\ \/ waiter[v] = "ok" /\ v \in Rows /\ Goto(v, "ok")
          /\ reply' = [reply EXCEPT ![v] = v] /\ UNCHANGED doomed
       \/ waiter[v] = "ok" /\ v \notin Rows /\ Goto(v, "error") /\ UNCHANGED <<reply, doomed>>
       \/ waiter[v] \in {"failed", "closed"} /\ GiveUp(v) /\ UNCHANGED reply
    /\ waiter' = [waiter EXCEPT ![v] = "none"]
    /\ UNCHANGED <<vmVars, netVars, outbox, healthVars, attempt, deleteVars, streamVars,
                   faults, wireVars>>

\* CREATE_MACHINE_TIMEOUT, then the unconditional update_vm_state(FAILED).
Timeout(v) ==
    /\ Timeouts /\ create[v] = "wait" /\ waiter[v] = "waiting"
    /\ waiter' = [waiter EXCEPT ![v] = "none"]
    /\ Goto(v, "timeout")
    /\ UNCHANGED <<vmVars, netVars, outbox, healthVars, attempt, reply, deleteVars,
                   streamVars, faults, doomed, wireVars>>

TimedOut(v) ==
    /\ create[v] = "timeout"
    /\ Tried(state' = [state EXCEPT ![v] = IF @ = "none" THEN @ ELSE "failed"], state)
    /\ Goto(v, "error")
    /\ UNCHANGED <<host, name, ip, netVars, outbox, healthVars, attempt, reply, waiter,
                   deleteVars, streamVars, doomed, wireVars>>

\* cleanup_failed_vm
CleanupMark(v) ==
    /\ create[v] = "c_mark"
    /\ Tried(MarkTeardown(v), state)
    /\ Goto(v, "c_release")
    /\ UNCHANGED <<host, name, ip, netVars, outbox, healthVars, attempt, reply, waiter,
                   deleteVars, streamVars, doomed, wireVars>>

CleanupRelease(v) ==
    /\ create[v] = "c_release"
    /\ Tried(ReleaseVmIps({v}), owner)
    /\ Goto(v, "c_hc")
    /\ UNCHANGED <<vmVars, cluster, hc, outbox, healthVars, attempt, reply, waiter,
                   deleteVars, streamVars, doomed, wireVars>>

CleanupHostCluster(v) ==
    /\ create[v] = "c_hc"
    /\ Tried(MarkHostCluster(host[v]), hc)
    /\ Goto(v, "c_push")
    /\ UNCHANGED <<vmVars, cluster, owner, outbox, healthVars, attempt, reply, waiter,
                   deleteVars, streamVars, doomed, wireVars>>

CleanupPush(v) ==
    /\ create[v] = "c_push"
    /\ PushReconcile({host[v]})
    /\ Goto(v, "error")
    /\ UNCHANGED <<vmVars, netVars, outbox, healthVars, attempt, reply, waiter,
                   deleteVars, streamVars, faults, doomed>>

-----------------------------------------------------------------------------
(* DeleteMachine and DeleteCluster.  A failed write ends the call with an
   error: what was written before it stays. *)

DeleteRead(v) ==
    /\ del[v] = "idle" /\ v \in Rows
    /\ deletes < MaxDeletes /\ deletes' = deletes + 1
    /\ del' = [del EXCEPT ![v] = IF state[v] = "teardown" THEN "push" ELSE "mark"]
    /\ UNCHANGED <<vmVars, netVars, outbox, healthVars, createVars, dc, dcLeft,
                   streamVars, faults, doomed, wireVars>>

\* initiate_vm_teardown
DeleteMark(v) ==
    /\ del[v] = "mark"
    /\ \/ v \in Rows /\ MarkTeardown(v) /\ UNCHANGED faults
          /\ del' = [del EXCEPT ![v] = "hc"] /\ doomed' = doomed \cup {v}
       \/ v \notin Rows /\ del' = [del EXCEPT ![v] = "idle"] /\ UNCHANGED <<state, faults, doomed>>
       \/ Fault("db") /\ del' = [del EXCEPT ![v] = "idle"] /\ UNCHANGED <<state, doomed>>
    /\ UNCHANGED <<host, name, ip, netVars, outbox, healthVars, createVars, dc, dcLeft,
                   deletes, streamVars, wireVars>>

DeleteHostCluster(v) ==
    /\ del[v] = "hc"
    /\ \/ MarkHostCluster(host[v]) /\ UNCHANGED faults
          /\ del' = [del EXCEPT ![v] = "push"]
       \/ Fault("db") /\ del' = [del EXCEPT ![v] = "idle"] /\ UNCHANGED hc
    /\ UNCHANGED <<vmVars, cluster, owner, outbox, healthVars, createVars, dc, dcLeft,
                   deletes, streamVars, doomed, wireVars>>

DeletePush(v) ==
    /\ del[v] = "push"
    /\ PushReconcile({host[v]})
    /\ del' = [del EXCEPT ![v] = "idle"]
    /\ UNCHANGED <<vmVars, netVars, outbox, healthVars, createVars, dc, dcLeft, deletes,
                   streamVars, faults, doomed>>

DcRead ==
    /\ ClusterDeletes /\ dc = "idle" /\ cluster
    /\ dc' = "mark" /\ dcLeft' = Rows
    /\ UNCHANGED <<vmVars, netVars, outbox, healthVars, createVars, del, deletes,
                   streamVars, faults, doomed, wireVars>>

DcMark(v) ==
    /\ dc = "mark" /\ v \in dcLeft
    /\ Tried(MarkTeardown(v), state)
    /\ doomed' = doomed \cup {v}
    /\ dcLeft' = dcLeft \ {v}
    /\ UNCHANGED <<host, name, ip, netVars, outbox, healthVars, createVars, del, dc,
                   deletes, streamVars, wireVars>>

\* mark_cluster_pending_teardown_all_hosts
DcHosts ==
    /\ dc = "mark" /\ dcLeft = {}
    /\ \/ /\ hc' = [h \in Hosts |-> IF hc[h] = "none" THEN "none" ELSE "pending"]
          /\ dcLeft' = {h \in Hosts : hc[h] # "none"}
          /\ dc' = "push" /\ UNCHANGED faults
       \/ Fault("db") /\ dc' = "idle" /\ UNCHANGED <<hc, dcLeft>>
    /\ UNCHANGED <<vmVars, cluster, owner, outbox, healthVars, createVars, del, deletes,
                   streamVars, doomed, wireVars>>

DcPush(h) ==
    /\ dc = "push" /\ h \in dcLeft
    /\ PushReconcile({h})
    /\ dcLeft' = dcLeft \ {h}
    /\ UNCHANGED <<vmVars, netVars, outbox, healthVars, createVars, del, dc, deletes,
                   streamVars, faults, doomed>>

DcDone ==
    /\ dc = "push" /\ dcLeft = {}
    /\ dc' = "idle"
    /\ UNCHANGED <<vmVars, netVars, outbox, healthVars, createVars, del, dcLeft,
                   deletes, streamVars, faults, doomed, wireVars>>

-----------------------------------------------------------------------------
(* stream_messages *)

\* register_or_lookup_host, the initial state and the RegisterAck.  The
\* agent redials only once its last session is gone; the controller may not
\* have noticed, and then two streams of the host exist (one older stream is
\* followed).  The messages of the older one were handled or lost.
Accept(h) ==
    /\ link[h] = "dialing" /\ sess[h] \in {"none", "ending"}
    /\ up[h] = <<>> /\ reading[h] = NoReport
    /\ sess[h] = "ending" => late[h] = "none"
    /\ healthy' = [healthy EXCEPT ![h] = TRUE]
    /\ fresh' = [fresh EXCEPT ![h] = TRUE]
    /\ down' = [down EXCEPT ![h] = <<BuildReconcile(h, "ack")>>]
    /\ sess' = [sess EXCEPT ![h] = "acked"]
    /\ late' = [late EXCEPT ![h] = IF sess[h] = "ending" THEN "holds" ELSE @]
    /\ UNCHANGED <<vmVars, netVars, outbox, checker, stale, createVars, deleteVars,
                   entry, replay, reading, faults, doomed, link, up>>

\* agents.insert
Register(h) ==
    /\ sess[h] = "acked" /\ ~GuardHeld(h)
    /\ entry' = [entry EXCEPT ![h] = "open"]
    /\ sess' = [sess EXCEPT ![h] = "inserted"]
    /\ late' = [late EXCEPT ![h] = IF @ = "holds" THEN "superseded" ELSE @]
    /\ UNCHANGED <<vmVars, netVars, outbox, healthVars, createVars, deleteVars, replay,
                   reading, faults, doomed, wireVars>>

\* list_pending_commands: the rows in state 'pending' only.
PendingOn(h) == {v \in VMs : outbox[v] = "pending" /\ host[v] = h}

ListOutbox(h) ==
    /\ sess[h] = "inserted"
    /\ replay' = [replay EXCEPT ![h] = [left |-> PendingOn(h), cur |-> NoVm]]
    /\ sess' = [sess EXCEPT ![h] = "replay"]
    /\ UNCHANGED <<vmVars, netVars, outbox, healthVars, createVars, deleteVars, entry,
                   late, reading, faults, doomed, wireVars>>

ReplaySend(h, v) ==
    /\ sess[h] = "replay" /\ replay[h].cur = NoVm /\ v \in replay[h].left
    /\ HasRoom(h)
    /\ down' = [down EXCEPT ![h] = Append(@, CreateVm(v))]
    /\ replay' = [replay EXCEPT ![h].cur = v]
    /\ UNCHANGED <<vmVars, netVars, outbox, healthVars, createVars, deleteVars, entry,
                   sess, late, reading, faults, doomed, link, up>>

\* Mutant: the row stays in the list.
ReplayMark_Again(h) ==
    LET v == replay[h].cur
    IN /\ v # NoVm
       /\ Tried(MarkSent(v), outbox)
       /\ replay' = [replay EXCEPT ![h] = [left |-> @.left, cur |-> NoVm]]
       /\ UNCHANGED <<vmVars, netVars, healthVars, createVars, deleteVars, entry, sess,
                      late, reading, doomed, wireVars>>

ReplayMark(h) ==
    LET v == replay[h].cur
    IN /\ v # NoVm
       /\ Tried(MarkSent(v), outbox)
       /\ replay' = [replay EXCEPT ![h] = [left |-> @.left \ {v}, cur |-> NoVm]]
       /\ UNCHANGED <<vmVars, netVars, healthVars, createVars, deleteVars, entry, sess,
                      late, reading, doomed, wireVars>>

\* The ticker and the inbound loop are spawned and the response returned:
\* only now does the agent see any command.
ReplayDone(h) ==
    /\ sess[h] = "replay" /\ replay[h] = NoReplay
    /\ sess' = [sess EXCEPT ![h] = "up"]
    /\ link' = [link EXCEPT ![h] = "handshake"]
    /\ UNCHANGED <<vmVars, netVars, outbox, healthVars, createVars, deleteVars, entry,
                   late, replay, reading, faults, doomed, down, up>>

\* The periodic reconcile (an interval in which the agent received the last).
Tick(h) ==
    /\ sess[h] = "up" /\ down[h] = <<>>
    /\ down' = [down EXCEPT ![h] = Append(@, BuildReconcile(h, "reconcile"))]
    /\ UNCHANGED <<ctlVars, link, up>>

\* The network loses the session, with the commands under way and some suffix
\* of the messages.  A stream_messages call that has not returned is
\* cancelled, and leaves its entry behind.
LinkLost(h) ==
    /\ link[h] # "down" /\ Fault("link")
    /\ link' = [link EXCEPT ![h] = "down"]
    /\ down' = [down EXCEPT ![h] = <<>>]
    /\ \E n \in 0..Len(up[h]) : up' = [up EXCEPT ![h] = SubSeq(@, 1, n)]
    /\ entry' = [entry EXCEPT ![h] = IF @ = "open" THEN "half" ELSE @]
    /\ sess' = [sess EXCEPT ![h] = IF @ \in {"up", "ending"} THEN "ending" ELSE "none"]
    /\ replay' = [replay EXCEPT ![h] = NoReplay]
    /\ UNCHANGED <<vmVars, netVars, outbox, healthVars, createVars, deleteVars, late,
                   reading, doomed>>

\* The response stream of the lost session is dropped: sends fail from here.
ChannelClosed(h) ==
    /\ entry[h] = "half"
    /\ entry' = [entry EXCEPT ![h] = "closed"]
    /\ UNCHANGED <<vmVars, netVars, outbox, healthVars, createVars, deleteVars, sess,
                   late, replay, reading, faults, doomed, wireVars>>

\* Mutant: the waiters are not cancelled.
ReleaseEntry_Silent(h) ==
    /\ ~GuardHeld(h)
    /\ entry' = [entry EXCEPT ![h] = "none"]
    /\ UNCHANGED waiter

\* release_agent_stream of the stream that owns the entry.
ReleaseEntry(h) ==
    /\ ~GuardHeld(h)
    /\ entry' = [entry EXCEPT ![h] = "none"]
    /\ waiter' = [v \in VMs |-> IF host[v] = h /\ waiter[v] = "waiting"
                                THEN "closed" ELSE waiter[v]]

Release(h) ==
    /\ sess[h] = "ending" /\ up[h] = <<>> /\ reading[h] = NoReport
    /\ ReleaseEntry(h)
    /\ sess' = [sess EXCEPT ![h] = "none"]
    /\ UNCHANGED <<vmVars, netVars, outbox, healthVars, create, attempt, reply,
                   deleteVars, late, replay, reading, faults, doomed, wireVars>>

ReleaseLate(h) ==
    /\ \/ late[h] = "holds" /\ ReleaseEntry(h)
       \/ late[h] = "superseded" /\ UNCHANGED <<entry, waiter>>
    /\ late' = [late EXCEPT ![h] = "none"]
    /\ UNCHANGED <<vmVars, netVars, outbox, healthVars, create, attempt, reply,
                   deleteVars, sess, replay, reading, faults, doomed, wireVars>>

-----------------------------------------------------------------------------
(* handle_agent_message *)

\* A VmState report of a VM of this host: the row as it is now is what the
\* handler decides on.
ReadReport(h, m) ==
    /\ m.type = "state"
    /\ reading' = [reading EXCEPT ![h] =
                       IF m.vm \in OnHost(h)
                       THEN [vm |-> m.vm, st |-> m.st, prev |-> state[m.vm], step |-> "apply"]
                       ELSE @]
    /\ UNCHANGED <<state, netVars, faults>>

\* Mutant: acknowledging the cluster releases the addresses of its VMs.
AckedIps_All(m) == IF m.cluster THEN VMs ELSE m.vms

\* The VMs whose addresses an acknowledgement releases, whatever their state.
AckedIps(m) == m.vms

\* No vms and no host_clusters row is left.
Drained(vms, hcs) == vms = {} /\ \A h \in Hosts : hcs[h] = "none"

\* ack_tombstones: one transaction.  Rows are dropped only when pending, and
\* the last ones take the clusters row with them.
AckTombstones(h, m) ==
    LET gone == {v \in m.vms \cap OnHost(h) : state[v] = "teardown"}
        left == [g \in Hosts |-> IF g = h /\ m.cluster /\ cluster /\ hc[g] = "pending"
                                 THEN "none" ELSE hc[g]]
    IN /\ m.type = "tombs"
       /\ \/ /\ ReleaseVmIps(AckedIps(m))
             /\ state' = [v \in VMs |-> IF v \in gone THEN "none" ELSE state[v]]
             /\ hc' = left
             /\ cluster' = (cluster /\ ~(m.cluster /\ Drained(Rows \ gone, left)))
             /\ UNCHANGED faults
          \/ Fault("db") /\ UNCHANGED <<state, netVars>>
       /\ UNCHANGED reading

Handle(h) ==
    /\ sess[h] \in {"up", "ending"} /\ reading[h] = NoReport
    /\ up[h] # <<>>
    /\ ReadReport(h, Head(up[h])) \/ AckTombstones(h, Head(up[h]))
    /\ up' = [up EXCEPT ![h] = Tail(@)]
    /\ UNCHANGED <<host, name, ip, outbox, healthVars, createVars, deleteVars, entry,
                   sess, late, replay, doomed, link, down>>

\* update_vm_state unless the row was pending teardown when it was read, and
\* the waiter's result.  An update that fails (or finds no row) ends the
\* handler there.
ApplyReport(h) ==
    LET r == reading[h]
        v == r.vm
        resolved ==
            waiter' = [waiter EXCEPT ![v] = CASE @ # "waiting" -> @
                                              [] r.st = "running" -> "ok"
                                              [] OTHER -> "failed"]
        proceed == reading' = [reading EXCEPT ![h].step = "outbox"]
    IN /\ r.step = "apply"
       /\ \/ r.prev = "teardown" /\ resolved /\ proceed /\ UNCHANGED <<state, faults>>
          \/ /\ r.prev # "teardown" /\ v \in Rows
             /\ state' = [state EXCEPT ![v] = r.st]
             /\ resolved /\ proceed /\ UNCHANGED faults
          \/ /\ r.prev # "teardown" /\ v \notin Rows
             /\ reading' = [reading EXCEPT ![h] = NoReport]
             /\ UNCHANGED <<state, waiter, faults>>
          \/ /\ r.prev # "teardown" /\ Fault("db")
             /\ reading' = [reading EXCEPT ![h] = NoReport]
             /\ UNCHANGED <<state, waiter>>
       /\ UNCHANGED <<host, name, ip, netVars, outbox, healthVars, create, attempt,
                      reply, deleteVars, entry, sess, late, replay, doomed, wireVars>>

\* ack_pending_commands_for_vm
AckOutbox(h) ==
    /\ reading[h].step = "outbox"
    /\ Tried(outbox' = [outbox EXCEPT ![reading[h].vm] = "none"], outbox)
    /\ reading' = [reading EXCEPT ![h] = NoReport]
    /\ UNCHANGED <<vmVars, netVars, healthVars, createVars, deleteVars, entry, sess,
                   late, replay, doomed, wireVars>>

\* record_heartbeat
Heartbeat(h) ==
    /\ sess[h] = "up" /\ link[h] = "up" /\ ~(healthy[h] /\ fresh[h])
    /\ healthy' = [healthy EXCEPT ![h] = TRUE]
    /\ fresh' = [fresh EXCEPT ![h] = TRUE]
    /\ UNCHANGED <<vmVars, netVars, outbox, checker, stale, createVars, deleteVars,
                   streamVars, faults, doomed, wireVars>>

-----------------------------------------------------------------------------
(* host_health_checker *)

\* HEARTBEAT_STALE_THRESHOLD passes without a heartbeat.
GoStale(h) ==
    /\ fresh[h] /\ Fault("stale")
    /\ fresh' = [fresh EXCEPT ![h] = FALSE]
    /\ UNCHANGED <<vmVars, netVars, outbox, healthy, checker, stale, createVars,
                   deleteVars, streamVars, doomed, wireVars>>

Overdue == {h \in Hosts : healthy[h] /\ ~fresh[h]}

\* mark_stale_hosts_unhealthy selects, then updates, with one cutoff: a host that
\* was heard in between stays healthy, and its VMs are given up all the same.
CheckSelect ==
    /\ checker = "idle" /\ Overdue # {}
    /\ stale' = Overdue /\ checker' = "update"
    /\ UNCHANGED <<vmVars, netVars, outbox, healthy, fresh, createVars, deleteVars,
                   streamVars, faults, doomed, wireVars>>

CheckUpdate ==
    /\ checker = "update"
    /\ \/ /\ healthy' = [h \in Hosts |-> healthy[h] /\ (h \in stale => fresh[h])]
          /\ checker' = "cascade" /\ UNCHANGED <<stale, faults>>
       \/ /\ Fault("db")
          /\ checker' = "idle" /\ stale' = {} /\ UNCHANGED healthy
    /\ UNCHANGED <<vmVars, netVars, outbox, fresh, createVars, deleteVars, streamVars,
                   doomed, wireVars>>

\* mark_vms_failed_on_host; a failure is only logged.
Cascade(h) ==
    /\ checker = "cascade" /\ h \in stale
    /\ Tried(state' = [v \in VMs |-> IF v \in OnHost(h) THEN "failed" ELSE state[v]], state)
    /\ stale' = stale \ {h}
    /\ UNCHANGED <<host, name, ip, netVars, outbox, healthy, fresh, checker, createVars,
                   deleteVars, streamVars, doomed, wireVars>>

CheckDone ==
    /\ checker = "cascade" /\ stale = {}
    /\ checker' = "idle"
    /\ UNCHANGED <<vmVars, netVars, outbox, healthy, fresh, stale, createVars,
                   deleteVars, streamVars, faults, doomed, wireVars>>

-----------------------------------------------------------------------------
(* Cancelled calls and controller restarts. *)

Ended == {"idle", "ok", "error", "dropped", "lost"}
Unactivated == {"place", "reread", "activate"} \cup Placing

\* A call whose future is gone: "lost" when the VM was set going on its host.
Abandoned(l) == CASE l \in Ended -> l
                  [] l \in Unactivated -> "dropped"
                  [] OTHER -> "lost"

\* The client of a CreateMachine goes away and tonic drops the future, its
\* pending_ops entry stays.
CancelCreate(v) ==
    /\ create[v] \notin Ended /\ Fault("cancel")
    /\ Goto(v, Abandoned(create[v]))
    /\ UNCHANGED <<vmVars, netVars, outbox, healthVars, attempt, reply, waiter,
                   deleteVars, streamVars, doomed, wireVars>>

CancelDelete(v) ==
    /\ del[v] # "idle" /\ Fault("cancel")
    /\ del' = [del EXCEPT ![v] = "idle"]
    /\ UNCHANGED <<vmVars, netVars, outbox, healthVars, createVars, dc, dcLeft, deletes,
                   streamVars, doomed, wireVars>>

\* The controller stops and starts again: the database is what is left.
Crash ==
    /\ Fault("crash")
    /\ create' = [v \in VMs |-> Abandoned(create[v])]
    /\ waiter' = [v \in VMs |-> "none"]
    /\ del' = [v \in VMs |-> "idle"]
    /\ dc' = "idle" /\ dcLeft' = {}
    /\ entry' = [h \in Hosts |-> "none"]
    /\ sess' = [h \in Hosts |-> "none"]
    /\ late' = [h \in Hosts |-> "none"]
    /\ replay' = [h \in Hosts |-> NoReplay]
    /\ reading' = [h \in Hosts |-> NoReport]
    /\ checker' = "idle" /\ stale' = {}
    /\ link' = [h \in Hosts |-> "down"]
    /\ down' = [h \in Hosts |-> <<>>]
    /\ up' = [h \in Hosts |-> <<>>]
    /\ UNCHANGED <<vmVars, netVars, outbox, healthy, fresh, attempt, reply, deletes,
                   doomed>>

-----------------------------------------------------------------------------
\* The steps of a CreateMachine call after it was received.
CreateStep(v) ==
    \/ AllocateIp(v) \/ InsertVm(v) \/ Unplace(v) \/ Reread(v) \/ Activate(v)
    \/ Broadcast(v) \/ Dispatch(v) \/ Send(v) \/ SentMark(v) \/ Await(v)
    \/ Timeout(v) \/ TimedOut(v)
    \/ CleanupMark(v) \/ CleanupRelease(v) \/ CleanupHostCluster(v) \/ CleanupPush(v)

DeleteStep(v) == DeleteMark(v) \/ DeleteHostCluster(v) \/ DeletePush(v)

DcStep ==
    \/ \E v \in VMs : DcMark(v)
    \/ \E h \in Hosts : DcPush(h)
    \/ DcHosts \/ DcDone

StreamStep(h) ==
    \/ Accept(h) \/ Register(h) \/ ListOutbox(h)
    \/ \E v \in VMs : ReplaySend(h, v)
    \/ ReplayMark(h) \/ ReplayDone(h)
    \/ ChannelClosed(h) \/ Release(h) \/ ReleaseLate(h)

InboundStep(h) == Handle(h) \/ ApplyReport(h) \/ AckOutbox(h)

CheckStep == CheckSelect \/ CheckUpdate \/ CheckDone \/ \E h \in Hosts : Cascade(h)

\* Everything but the ends of sessions, which the agents take part in.
CtlNext ==
    \/ \E v \in VMs :
          \/ \E n \in Names : Receive(v, n)
          \/ CreateStep(v) \/ CancelCreate(v)
          \/ DeleteRead(v) \/ DeleteStep(v) \/ CancelDelete(v)
    \/ DcRead \/ DcStep
    \/ \E h \in Hosts :
          \/ StreamStep(h) \/ InboundStep(h) \/ Tick(h)
          \/ Heartbeat(h) \/ GoStale(h)
    \/ CheckStep
===============================================================================
