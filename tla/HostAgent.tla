------------------------------- MODULE HostAgent -------------------------------
(***************************************************************************)
(* The agent of a host: its session, the tasks it spawns for CreateVm and  *)
(* ReconcileHost, the orphan sweep, and what these do to the host.  Every  *)
(* CreateVm and every reconcile runs in a task of its own that nothing     *)
(* orders after the command before it and that outlives the session.       *)
(*                                                                         *)
(* Of a VM the host holds a local_vms row, a directory (with the           *)
(* cloud-init image in it or not), its volumes, a tap (on the cluster's    *)
(* bridge or loose), and a systemd unit.                                   *)
(***************************************************************************)
EXTENDS Wire

CONSTANTS
    Creates,         \* create tasks per VM and
    Reconciles,      \* reconcile tasks followed at a time
    Sweeps,          \* whether the periodic orphan sweep runs
    AgentFaults,     \* which of "create" (a step of create_vm fails), "lvm" (lvremove
                     \* fails), "net" (reconcile_clusters fails), "guest" (a hypervisor
                     \* exits), "restart" and "reboot" may happen,
    MaxAgentFaults   \* and how often between them

ASSUME AgentAssumption ==
    /\ Creates \in Nat \ {0} /\ Reconciles \in Nat \ {0} /\ MaxAgentFaults \in Nat
    /\ Sweeps \in BOOLEAN

VARIABLES
    loc,      \* loc[h][v]: what the host holds of a VM, with the agent's own notes
              \* of it in VmManager (pending, tracked)
    bridge,   \* bridge[h]: the cluster's bridge exists
    cjob,     \* cjob[h][v][k]: create tasks
    rjob,     \* rjob[h][k]: reconcile tasks, the handshake's own among them
    sweep,    \* sweep[h]: the periodic sweep
    afaults

agentVars == <<loc, bridge, cjob, rjob, sweep, afaults>>

-----------------------------------------------------------------------------
Nothing == [row |-> FALSE, dir |-> "none", disk |-> FALSE, tap |-> "none",
            unit |-> "none", pending |-> FALSE, tracked |-> FALSE]
NoCreate == [step |-> "none", ok |-> TRUE, live |-> FALSE]
NoReconcile == [step |-> "none", active |-> FALSE, ctomb |-> FALSE, left |-> {},
                cur |-> NoVm, acked |-> {}, live |-> FALSE, inline |-> FALSE]
NoSweep == [step |-> "none", known |-> {}, left |-> {}, cur |-> NoVm, del |-> "stop"]

AgentInit ==
    /\ loc = [h \in Hosts |-> [v \in VMs |-> Nothing]]
    /\ bridge = [h \in Hosts |-> FALSE]
    /\ cjob = [h \in Hosts |-> [v \in VMs |-> [k \in 1..Creates |-> NoCreate]]]
    /\ rjob = [h \in Hosts |-> [k \in 1..Reconciles |-> NoReconcile]]
    /\ sweep = [h \in Hosts |-> NoSweep]
    /\ afaults = 0

AgentFault(f) ==
    f \in AgentFaults /\ afaults < MaxAgentFaults /\ afaults' = afaults + 1

SetLoc(h, v, x) == loc' = [loc EXCEPT ![h][v] = x]

-----------------------------------------------------------------------------
(* handlers::delete_vm, in three steps.  Its callers are the tombstones of a
   reconcile, the rollback of a failed create and the sweep. *)

\* lvremove -f of a volume a running hypervisor has open.
Busy(x) == x.disk /\ x.unit = "running"

\* Step s of delete_vm(v), after which step t comes: "gone" (Ok) or "error".
DeleteVm(h, v, s, t) ==
    LET x == loc[h][v]
    IN \/ /\ s = "stop" /\ t = "detach"
          /\ SetLoc(h, v, [x EXCEPT !.unit = "none", !.tracked = FALSE])
          /\ UNCHANGED afaults
       \/ /\ s = "detach" /\ t = "erase"
          /\ SetLoc(h, v, [x EXCEPT !.dir = "none", !.tap = "none"])
          /\ UNCHANGED afaults
       \/ /\ s = "erase" /\ t = "gone" /\ ~Busy(x)
          /\ SetLoc(h, v, [x EXCEPT !.disk = FALSE, !.row = FALSE])
          /\ UNCHANGED afaults
       \/ /\ s = "erase" /\ t = "error"
          /\ (Busy(x) /\ UNCHANGED afaults) \/ AgentFault("lvm")
          /\ UNCHANGED loc

DeleteSteps == {"stop", "detach", "erase", "gone", "error"}

-----------------------------------------------------------------------------
(* handlers::create_vm *)

CGoto(h, v, k, s) == cjob' = [cjob EXCEPT ![h][v][k].step = s]

\* Mutant: clear_pending on success only.
CFail_KeepsPending(h, v, k) ==
    /\ UNCHANGED loc
    /\ cjob' = [cjob EXCEPT ![h][v][k].step = "stop", ![h][v][k].ok = FALSE]

\* create_vm_inner fails: clear_pending and the rollback, delete_vm.
CFail(h, v, k) ==
    /\ SetLoc(h, v, [loc[h][v] EXCEPT !.pending = FALSE])
    /\ cjob' = [cjob EXCEPT ![h][v][k].step = "stop", ![h][v][k].ok = FALSE]

\* mark_pending and the VM's directory; then the image is fetched.
CreateMkdir(h, v, k) ==
    /\ cjob[h][v][k].step = "mkdir"
    /\ SetLoc(h, v, [loc[h][v] EXCEPT !.pending = TRUE,
                                      !.dir = IF @ = "none" THEN "made" ELSE @])
    /\ CGoto(h, v, k, "row")
    /\ UNCHANGED <<bridge, rjob, sweep, afaults, wireVars>>

\* insert_vm of the local row: vm_id is its primary key.
CreateRow(h, v, k) ==
    /\ cjob[h][v][k].step = "row"
    /\ \/ /\ ~loc[h][v].row
          /\ SetLoc(h, v, [loc[h][v] EXCEPT !.row = TRUE])
          /\ CGoto(h, v, k, "disk") /\ UNCHANGED afaults
       \/ loc[h][v].row /\ CFail(h, v, k) /\ UNCHANGED afaults
       \/ AgentFault("create") /\ CFail(h, v, k)
    /\ UNCHANGED <<bridge, rjob, sweep, wireVars>>

\* create_vm_rootfs (an old volume of the VM is removed first), the data disks,
\* and the cloud-init image, in the directory if that is still there.
CreateDisk(h, v, k) ==
    /\ cjob[h][v][k].step = "disk"
    /\ \/ /\ ~Busy(loc[h][v]) /\ loc[h][v].dir # "none"
          /\ SetLoc(h, v, [loc[h][v] EXCEPT !.disk = TRUE, !.dir = "iso"])
          /\ CGoto(h, v, k, "tap") /\ UNCHANGED afaults
       \/ (Busy(loc[h][v]) \/ loc[h][v].dir = "none") /\ CFail(h, v, k) /\ UNCHANGED afaults
       \/ AgentFault("create") /\ CFail(h, v, k)
    /\ UNCHANGED <<bridge, rjob, sweep, wireVars>>

\* attach_vm_primary, which makes the bridge if there is none.
CreateTap(h, v, k) ==
    /\ cjob[h][v][k].step = "tap"
    /\ \/ /\ SetLoc(h, v, [loc[h][v] EXCEPT !.tap = "on"])
          /\ bridge' = [bridge EXCEPT ![h] = TRUE]
          /\ CGoto(h, v, k, "spawn") /\ UNCHANGED afaults
       \/ AgentFault("create") /\ CFail(h, v, k) /\ UNCHANGED bridge
    /\ UNCHANGED <<rjob, sweep, wireVars>>

\* systemd-run, which refuses a unit that exists; a hypervisor that misses one
\* of its files exits, and the unit remains.  Then clear_pending.
CreateSpawn(h, v, k) ==
    LET x == loc[h][v]
    IN /\ cjob[h][v][k].step = "spawn"
       /\ \/ /\ x.unit = "none"
             /\ SetLoc(h, v, [x EXCEPT !.unit = IF x.disk /\ x.dir = "iso" THEN "running"
                                                ELSE "dead",
                                       !.dir = IF @ = "none" THEN "made" ELSE @,
                                       !.tracked = TRUE, !.pending = FALSE])
             /\ CGoto(h, v, k, "report") /\ UNCHANGED afaults
          \/ x.unit # "none" /\ CFail(h, v, k) /\ UNCHANGED afaults
          \/ AgentFault("create") /\ CFail(h, v, k)
       /\ UNCHANGED <<bridge, rjob, sweep, wireVars>>

\* The rollback; its errors are ignored.
CreateRollback(h, v, k) ==
    /\ \E t \in DeleteSteps :
          /\ DeleteVm(h, v, cjob[h][v][k].step, t)
          /\ CGoto(h, v, k, IF t \in {"gone", "error"} THEN "report" ELSE t)
    /\ UNCHANGED <<bridge, rjob, sweep, wireVars>>

\* send_terminal_vm_state: dropped when the session of the command is over.
CreateReport(h, v, k) ==
    LET j == cjob[h][v][k]
    IN /\ j.step = "report"
       /\ IF j.live THEN Emit(h, VmState(v, IF j.ok THEN "running" ELSE "failed"))
          ELSE UNCHANGED up
       /\ cjob' = [cjob EXCEPT ![h][v][k] = NoCreate]
       /\ UNCHANGED <<loc, bridge, rjob, sweep, afaults, link, down>>

-----------------------------------------------------------------------------
(* apply_reconcile *)

RJob(h, k, j) == rjob' = [rjob EXCEPT ![h][k] = j]

\* The task is over; the handshake goes on from its own.
Applied(j) == IF j.inline THEN [NoReconcile EXCEPT !.step = "done", !.inline = TRUE]
            ELSE NoReconcile

\* tombstone_cluster deletes the bridge; taps on it stay behind.
TombstoneCluster(h) ==
    /\ bridge' = [bridge EXCEPT ![h] = FALSE]
    /\ loc' = [loc EXCEPT ![h] = [v \in VMs |-> [loc[h][v] EXCEPT
                                     !.tap = IF @ = "on" THEN "loose" ELSE @]]]

\* reconcile_clusters and the cluster's tombstone.  A failed tombstone is not
\* acknowledged; a failed reconcile_clusters ends the task, and with the
\* handshake's the session.  Without tombstones the task is over.
RClusters(h, k) ==
    LET j == rjob[h][k]
        Then(ctomb) == RJob(h, k, IF ctomb \/ j.left # {}
                                  THEN [j EXCEPT !.step = "vms", !.ctomb = ctomb] ELSE Applied(j))
    IN /\ j.step = "clusters"
       /\ \/ /\ j.active /\ bridge' = [bridge EXCEPT ![h] = TRUE]
             /\ Then(FALSE) /\ UNCHANGED <<loc, afaults>>
          \/ j.ctomb /\ TombstoneCluster(h) /\ Then(TRUE) /\ UNCHANGED afaults
          \/ ~j.active /\ ~j.ctomb /\ Then(FALSE) /\ UNCHANGED <<loc, bridge, afaults>>
          \/ j.ctomb /\ AgentFault("net") /\ Then(FALSE) /\ UNCHANGED <<loc, bridge>>
          \/ /\ j.inline => link[h] = "down"
             /\ AgentFault("net")
             /\ RJob(h, k, NoReconcile) /\ UNCHANGED <<loc, bridge>>
       /\ UNCHANGED <<cjob, sweep, wireVars>>

\* The next VM tombstone: delete_vm.
RTombstone(h, k) ==
    LET j == rjob[h][k]
    IN /\ j.step \in {"vms", "detach", "erase"}
       /\ \E v \in VMs, t \in DeleteSteps :
             /\ IF j.step = "vms" THEN v \in j.left ELSE v = j.cur
             /\ DeleteVm(h, v, IF j.step = "vms" THEN "stop" ELSE j.step, t)
             /\ RJob(h, k, IF t \in {"gone", "error"}
                           THEN [j EXCEPT !.step = "vms", !.cur = NoVm,
                                          !.acked = IF t = "gone" THEN @ \cup {v} ELSE @]
                           ELSE [j EXCEPT !.step = t, !.cur = v, !.left = @ \ {v}])
       /\ UNCHANGED <<bridge, cjob, sweep, wireVars>>

\* The TombstoneAck, lost when the session is over.
RAck(h, k) ==
    LET j == rjob[h][k]
    IN /\ j.step = "vms" /\ j.left = {}
       /\ IF j.live /\ (j.ctomb \/ j.acked # {}) THEN Emit(h, TombstoneAck(j.ctomb, j.acked))
          ELSE UNCHANGED up
       /\ RJob(h, k, Applied(j))
       /\ UNCHANGED <<loc, bridge, cjob, sweep, afaults, link, down>>

-----------------------------------------------------------------------------
(* run_session *)

Handshaking(h) == \E k \in 1..Reconciles : rjob[h][k].inline

Dial(h) ==
    /\ link[h] = "down" /\ ~Handshaking(h)
    /\ link' = [link EXCEPT ![h] = "dialing"]
    /\ UNCHANGED <<agentVars, down, up>>

\* The lowest free slot of a task table.
FreeSlot(jobs, none, k) ==
    jobs[k] = none /\ \A i \in 1..(k - 1) : jobs[i] # none

\* The RegisterAck is applied by the handshake itself, every later command by
\* a task of its own.
GetCommand(h) ==
    LET c == Head(down[h])
        job == [NoReconcile EXCEPT !.step = "clusters", !.active = c.active,
                                   !.ctomb = c.ctomb, !.left = c.vtombs, !.live = TRUE,
                                   !.inline = c.type = "ack"]
    IN /\ link[h] \in {"handshake", "up"} /\ ~Handshaking(h) /\ down[h] # <<>>
       /\ \/ /\ c.type = "create"
             /\ \E k \in 1..Creates :
                   /\ FreeSlot(cjob[h][c.vm], NoCreate, k)
                   /\ cjob' = [cjob EXCEPT ![h][c.vm][k] =
                                   [step |-> "mkdir", ok |-> TRUE, live |-> TRUE]]
             /\ UNCHANGED rjob
          \/ /\ c.type # "create"
             /\ \E k \in 1..Reconciles : FreeSlot(rjob[h], NoReconcile, k) /\ RJob(h, k, job)
             /\ UNCHANGED cjob
       /\ down' = [down EXCEPT ![h] = Tail(@)]
       /\ UNCHANGED <<loc, bridge, sweep, afaults, link, up>>

\* The handshake ends with runtime.write(): it waits for every task and sweep
\* that reads.
HandshakeDone(h) ==
    /\ \E k \in 1..Reconciles : rjob[h][k].step = "done" /\ RJob(h, k, NoReconcile)
    /\ \A k \in 1..Reconciles : rjob[h][k].step \in {"none", "done"}
    /\ sweep[h] = NoSweep
    /\ link' = [link EXCEPT ![h] = IF @ = "handshake" THEN "up" ELSE @]
    /\ UNCHANGED <<loc, bridge, cjob, sweep, afaults, down, up>>

\* report_local_vm_states, on connecting and periodically, for one VM.
Report(h, v) ==
    /\ link[h] = "up" /\ loc[h][v].row /\ ~loc[h][v].pending
    /\ Emit(h, VmState(v, IF loc[h][v].unit = "running" THEN "running" ELSE "failed"))
    /\ UNCHANGED <<agentVars, link, down>>

\* The session of the hosts H is over: what its tasks send from here is lost.
SessionEnds(H) ==
    /\ cjob' = [h \in Hosts |-> IF h \notin H THEN cjob[h] ELSE
                   [v \in VMs |-> [k \in 1..Creates |-> [cjob[h][v][k] EXCEPT !.live = FALSE]]]]
    /\ rjob' = [h \in Hosts |-> IF h \notin H THEN rjob[h] ELSE
                   [k \in 1..Reconciles |-> [rjob[h][k] EXCEPT !.live = FALSE]]]
    /\ UNCHANGED <<loc, bridge, sweep, afaults>>

-----------------------------------------------------------------------------
(* The orphan sweep: units, then volumes, then directories of VMs that were
   neither in local_vms nor tracked nor pending when it began. *)

\* list_vms and live_vm_ids.
Known(h) == {v \in VMs : loc[h][v].row \/ loc[h][v].tracked \/ loc[h][v].pending}

SetSweep(h, s) == sweep' = [sweep EXCEPT ![h] = s]

\* collect: what the next collector lists and does not know.
SweepList(h) ==
    LET s == sweep[h]
        Phase(p, V) == SetSweep(h, [s EXCEPT !.step = p, !.left = V \ s.known])
    IN /\ s.cur = NoVm /\ s.left = {}
       /\ CASE s.step = "begin" -> Phase("units", {v \in VMs : loc[h][v].unit # "none"})
            [] s.step = "units" -> Phase("lvs", {v \in VMs : loc[h][v].disk})
            [] s.step = "lvs" -> Phase("dirs", {v \in VMs : loc[h][v].dir # "none"})
            [] s.step = "dirs" -> SetSweep(h, NoSweep)
            [] OTHER -> FALSE
       /\ UNCHANGED <<loc, bridge, cjob, rjob, afaults, wireVars>>

SweepBegin(h) ==
    /\ Sweeps /\ sweep[h] = NoSweep
    /\ Known(h) # VMs
    /\ SetSweep(h, [NoSweep EXCEPT !.step = "begin", !.known = Known(h)])
    /\ UNCHANGED <<loc, bridge, cjob, rjob, afaults, wireVars>>

\* UnitCollector::reclaim is delete_vm, LvCollector's removes the volumes,
\* VmDirCollector's the directory.
SweepReclaim(h, v) ==
    LET s == sweep[h]
    IN /\ IF s.cur = NoVm THEN v \in s.left ELSE v = s.cur
       /\ \/ /\ s.step = "units"
             /\ \E t \in DeleteSteps :
                   /\ DeleteVm(h, v, s.del, t)
                   /\ SetSweep(h, IF t \in {"gone", "error"}
                                  THEN [s EXCEPT !.cur = NoVm, !.del = "stop"]
                                  ELSE [s EXCEPT !.cur = v, !.left = @ \ {v}, !.del = t])
          \/ /\ s.step = "lvs"
             /\ SetLoc(h, v, [loc[h][v] EXCEPT !.disk = Busy(loc[h][v])])
             /\ SetSweep(h, [s EXCEPT !.left = @ \ {v}]) /\ UNCHANGED afaults
          \/ /\ s.step = "dirs"
             /\ SetLoc(h, v, [loc[h][v] EXCEPT !.dir = "none"])
             /\ SetSweep(h, [s EXCEPT !.left = @ \ {v}]) /\ UNCHANGED afaults
       /\ UNCHANGED <<bridge, cjob, rjob, wireVars>>

-----------------------------------------------------------------------------
\* A hypervisor exits; its unit remains.
GuestDies(h, v) ==
    /\ loc[h][v].unit = "running" /\ AgentFault("guest")
    /\ SetLoc(h, v, [loc[h][v] EXCEPT !.unit = "dead"])
    /\ UNCHANGED <<bridge, cjob, rjob, sweep, wireVars>>

\* reconcile_on_startup for one VM: a running unit is tracked again, a VM with
\* all its files restarted (systemd-run refuses a unit that remained), and what
\* has no row swept.
Recovered(x) ==
    CASE x.row /\ x.unit = "running" -> [x EXCEPT !.tracked = TRUE]
      [] x.row /\ x.unit # "running" /\ x.disk /\ x.dir = "iso" ->
            [x EXCEPT !.tap = "on", !.unit = IF @ = "none" THEN "running" ELSE @,
                      !.tracked = x.unit = "none"]
      [] ~x.row -> [Nothing EXCEPT !.tap = IF x.unit = "none" THEN x.tap ELSE "none"]
      [] OTHER -> x

\* The agent's process, or the whole node, restarts: tasks and notes are gone.
\* Nothing else runs until reconcile_on_startup is done.
Restart(h) ==
    \E f \in {"restart", "reboot"} :
        LET Kept(x) == [x EXCEPT !.pending = FALSE, !.tracked = FALSE,
                                 !.unit = IF f = "reboot" THEN "none" ELSE @,
                                 !.tap = IF f = "reboot" THEN "none" ELSE @]
            now == [v \in VMs |-> Recovered(Kept(loc[h][v]))]
        IN /\ AgentFault(f)
           /\ loc' = [loc EXCEPT ![h] = now]
           /\ bridge' = [bridge EXCEPT ![h] = (@ /\ f = "restart") \/ \E v \in VMs :
                             now[v].tap = "on" /\ Kept(loc[h][v]).unit # "running"]
           /\ cjob' = [cjob EXCEPT ![h] = [v \in VMs |-> [k \in 1..Creates |-> NoCreate]]]
           /\ rjob' = [rjob EXCEPT ![h] = [k \in 1..Reconciles |-> NoReconcile]]
           /\ sweep' = [sweep EXCEPT ![h] = NoSweep]

-----------------------------------------------------------------------------
CreateTask(h, v, k) ==
    \/ CreateMkdir(h, v, k) \/ CreateRow(h, v, k) \/ CreateDisk(h, v, k)
    \/ CreateTap(h, v, k) \/ CreateSpawn(h, v, k) \/ CreateRollback(h, v, k)
    \/ CreateReport(h, v, k)

ReconcileTask(h, k) == RClusters(h, k) \/ RTombstone(h, k) \/ RAck(h, k)

SessionStep(h) == Dial(h) \/ GetCommand(h) \/ HandshakeDone(h)

SweepStep(h) == SweepList(h) \/ \E v \in VMs : SweepReclaim(h, v)

AgentNext(h) ==
    \/ \E v \in VMs, k \in 1..Creates : CreateTask(h, v, k)
    \/ \E k \in 1..Reconciles : ReconcileTask(h, k)
    \/ SessionStep(h) \/ SweepBegin(h) \/ SweepStep(h)
    \/ \E v \in VMs : Report(h, v) \/ GuestDies(h, v)

-----------------------------------------------------------------------------
\* A create task of the VM is between its first step and its end.
Building(h, v) ==
    \E k \in 1..Creates : cjob[h][v][k].step \in {"row", "disk", "tap", "spawn"}

\* A pending mark, which keeps a VM from the sweep and from the state reports,
\* never outlives the create task that set it.
PendingEnds == \A h \in Hosts, v \in VMs : loc[h][v].pending => Building(h, v)
===============================================================================
