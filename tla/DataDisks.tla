------------------------------- MODULE DataDisks -------------------------------
(***************************************************************************)
(* LvmLinearBackend: the data volumes of VMs and their reservation ledger. *)
(* A volume cannot be made in one transaction with its ledger row, so the  *)
(* row goes through Creating, Ready and Deleting around the lvm commands.  *)
(* One pool, whose devices have a volume group each.  A disk is named by   *)
(* the pair of its VM and its index, and so is its assignment: the         *)
(* controller gives a disk one assignment id for good.                     *)
(***************************************************************************)
EXTENDS AgentTasks, FiniteSetsExt

CONSTANTS
    Devices,
    Disks,       \* the disks of the VMs: a set of pairs <<v, i>>
    DeviceOf,    \* DeviceOf[x]: the device the controller chose
    SizeOf,      \* SizeOf[x], in GiB
    VgSize       \* VgSize[d], in GiB

ASSUME DiskAssumption ==
    /\ Disks \subseteq VMs \X Nat /\ IsFiniteSet(Disks)
    /\ DeviceOf \in [Disks -> Devices] /\ SizeOf \in [Disks -> Nat]
    /\ VgSize \in [Devices -> Nat]

VARIABLES
    row,       \* row[v]: the VM has its row in local_vms
    ledger,    \* ledger[x]: state of the lvm_reservation row; "none": no row
    volumes,   \* the data volumes that exist
    todo,      \* todo[t]: disks a create has yet to allocate, a release to remove
    poolGate,  \* who holds the permit of the pool
    gone       \* gone[v]: delete_vm has returned Ok since the last create_vm (history)

diskVars == <<row, ledger, volumes, todo, poolGate, gone>>

DisksOf(v) == {x \in Disks : x[1] = v}
Rows(v) == {x \in DisksOf(v) : ledger[x] # "none"}

\* vg_free
Free(d) == VgSize[d] - MapThenSumSet(LAMBDA x : SizeOf[x],
                                     {x \in volumes : DeviceOf[x] = d})

\* Disks are worked on in the order of their indices.
Current(t) == CHOOSE x \in todo[t] : \A y \in todo[t] : x[2] <= y[2]

\* lvremove refuses a volume that a hypervisor has open.
Open(t) == Current(t) \in volumes /\ booted[VmOf(t)]

DiskInit ==
    /\ row = [v \in VMs |-> FALSE]
    /\ ledger = [x \in Disks |-> "none"]
    /\ volumes = {}
    /\ todo = [t \in Tasks |-> {}]
    /\ poolGate = NoTask
    /\ gone = [v \in VMs |-> FALSE]

\* An error in create_vm_inner after the image, of the local database ("db") or
\* of lvm: rollback.
DisksFail(t) ==
    /\ Goto(t, "undo")
    /\ poolGate' = Freed(poolGate, t)
    /\ todo' = [todo EXCEPT ![t] = {}]

-----------------------------------------------------------------------------
(* create_vm_inner from the disk checks to the start of the hypervisor *)

\* Every disk alone is held against what its device has free; then the row,
\* whose key is the VM.
InsertRow(t) ==
    LET v == VmOf(t)
    IN /\ pc[t] = "checks"
       /\ \/ /\ ~row[v] /\ \A x \in DisksOf(v) : Free(DeviceOf[x]) >= SizeOf[x]
             /\ row' = [row EXCEPT ![v] = TRUE]
             /\ todo' = [todo EXCEPT ![t] = DisksOf(v)]
             /\ Goto(t, "snapshot") /\ NoFault /\ UNCHANGED poolGate
          \/ /\ \/ (row[v] \/ \E x \in DisksOf(v) : Free(DeviceOf[x]) < SizeOf[x]) /\ NoFault
                \/ Fault("db")
             /\ DisksFail(t) /\ UNCHANGED row
       /\ UNCHANGED <<ledger, volumes, booted, gone>>

\* Mutant: the row is written when the volume is there.
Reserve_Late(t) ==
    /\ pc[t] = "disks"
    /\ IF todo[t] = {} THEN Goto(t, "boot") ELSE Goto(t, "lvcreate")
    /\ NoFault /\ UNCHANGED <<row, ledger, volumes, todo, poolGate, booted, gone>>

\* allocate, up to the permit.  A Ready row is the answer; any other is deleted
\* and inserted again.  Either statement may fail.
Reserve(t) ==
    /\ pc[t] = "disks"
    /\ \/ /\ todo[t] = {} /\ Goto(t, "boot") /\ NoFault /\ UNCHANGED <<ledger, todo, poolGate>>
       \/ /\ todo[t] # {} /\ ledger[Current(t)] = "Ready"
          /\ todo' = [todo EXCEPT ![t] = @ \ {Current(t)}]
          /\ NoFault /\ UNCHANGED <<ledger, pc, poolGate>>
       \/ /\ todo[t] # {} /\ ledger[Current(t)] # "Ready"
          /\ ledger' = [ledger EXCEPT ![Current(t)] = "Creating"]
          /\ Goto(t, "lvcreate") /\ NoFault /\ UNCHANGED <<todo, poolGate>>
       \/ /\ todo[t] # {} /\ Fault("db") /\ DisksFail(t)
          /\ \/ UNCHANGED ledger
             \/ /\ ledger[Current(t)] # "Ready"
                /\ ledger' = [ledger EXCEPT ![Current(t)] = "none"]
    /\ UNCHANGED <<row, volumes, booted, gone>>

\* The permit, lvremove of an old volume of that name and lvcreate.
CreateVolume(t) ==
    LET x == Current(t)
        fits == x \in volumes \/ Free(DeviceOf[x]) >= SizeOf[x]
    IN /\ pc[t] = "lvcreate"
       /\ \/ /\ poolGate = NoTask /\ fits /\ ~Open(t)
             /\ poolGate' = t /\ volumes' = volumes \cup {x}
             /\ Goto(t, "ready") /\ NoFault /\ UNCHANGED todo
          \/ /\ poolGate = NoTask
             /\ (~fits /\ NoFault) \/ (~Open(t) /\ Fault("lvm"))
             /\ volumes' = volumes \ {x} /\ DisksFail(t)
          \/ /\ (Open(t) /\ poolGate = NoTask /\ NoFault) \/ Fault("busy")
             /\ DisksFail(t) /\ UNCHANGED volumes
       /\ UNCHANGED <<row, ledger, booted, gone>>

\* UPDATE ... SET state = 'Ready', which a row that is gone ignores.
MarkReady(t) ==
    /\ pc[t] = "ready"
    /\ \/ /\ ledger' = [ledger EXCEPT ![Current(t)] = IF @ = "none" THEN @ ELSE "Ready"]
          /\ todo' = [todo EXCEPT ![t] = @ \ {Current(t)}]
          /\ poolGate' = NoTask /\ Goto(t, "disks") /\ NoFault
       \/ Fault("db") /\ DisksFail(t) /\ UNCHANGED ledger
    /\ UNCHANGED <<row, volumes, booted, gone>>

-----------------------------------------------------------------------------
(* LvmLinearBackend::release, under delete_vm *)

\* What follows release: delete_vm drops the row, the sweep is done.
AfterRelease(t) == IF t[1] = "sweep" THEN "idle" ELSE "drop"

\* An error of release ends delete_vm; what it did not come to stays.
ReleaseFails(t) ==
    /\ Goto(t, "idle")
    /\ poolGate' = Freed(poolGate, t)
    /\ todo' = [todo EXCEPT ![t] = {}]

\* Mutant: only rows that are Ready.
ReadRows_Ready(t) ==
    LET rows == {x \in DisksOf(VmOf(t)) : ledger[x] = "Ready"}
    IN /\ pc[t] = "release"
       /\ todo' = [todo EXCEPT ![t] = rows]
       /\ Goto(t, IF rows = {} THEN AfterRelease(t) ELSE "mark")
       /\ NoFault /\ UNCHANGED <<row, ledger, volumes, poolGate, booted, gone>>

ReadRows(t) ==
    LET rows == Rows(VmOf(t))
    IN /\ pc[t] = "release"
       /\ \/ /\ todo' = [todo EXCEPT ![t] = rows]
             /\ Goto(t, IF rows = {} THEN AfterRelease(t) ELSE "mark")
             /\ NoFault /\ UNCHANGED poolGate
          \/ Fault("db") /\ ReleaseFails(t)
       /\ UNCHANGED <<row, ledger, volumes, booted, gone>>

Marked(S) == [x \in Disks |-> IF x \in S /\ ledger[x] # "none" THEN "Deleting" ELSE ledger[x]]

\* One row after the other, in the order they were read in, which is any.
MarkDeleting(t) ==
    /\ pc[t] = "mark"
    /\ \/ /\ ledger' = Marked(todo[t])
          /\ Goto(t, "reap") /\ NoFault /\ UNCHANGED <<todo, poolGate>>
       \/ /\ Fault("db") /\ ReleaseFails(t)
          /\ \E S \in SUBSET todo[t] : S # todo[t] /\ ledger' = Marked(S)
    /\ UNCHANGED <<row, volumes, booted, gone>>

\* Mutant: the permit is kept when lvremove fails.
RemoveVolume_KeepsPermit(t) ==
    /\ pc[t] = "reap"
    /\ \/ /\ poolGate \in {NoTask, t} /\ ~Open(t)
          /\ volumes' = volumes \ {Current(t)}
          /\ poolGate' = t /\ Goto(t, "unrow") /\ NoFault /\ UNCHANGED todo
       \/ /\ poolGate \in {NoTask, t} /\ Fault("lvm")
          /\ poolGate' = t
          /\ todo' = [todo EXCEPT ![t] = {}]
          /\ Goto(t, "idle") /\ UNCHANGED volumes
    /\ UNCHANGED <<row, ledger, booted, gone>>

\* The permit and lvremove of the next row's volume, which need not exist.
RemoveVolume(t) ==
    /\ pc[t] = "reap"
    /\ \/ /\ poolGate \in {NoTask, t} /\ ~Open(t)
          /\ volumes' = volumes \ {Current(t)}
          /\ poolGate' = t /\ Goto(t, "unrow") /\ NoFault /\ UNCHANGED todo
       \/ /\ \/ poolGate # t /\ Fault("busy")
             \/ poolGate \in {NoTask, t} /\ ((Open(t) /\ NoFault) \/ Fault("lvm"))
          /\ ReleaseFails(t) /\ UNCHANGED volumes
    /\ UNCHANGED <<row, ledger, booted, gone>>

DeleteRow(t) ==
    /\ pc[t] = "unrow"
    /\ \/ /\ ledger' = [ledger EXCEPT ![Current(t)] = "none"]
          /\ todo' = [todo EXCEPT ![t] = @ \ {Current(t)}]
          /\ IF todo[t] = {Current(t)} THEN Goto(t, AfterRelease(t)) /\ poolGate' = NoTask
             ELSE Goto(t, "reap") /\ UNCHANGED poolGate
          /\ NoFault
       \/ Fault("db") /\ ReleaseFails(t) /\ UNCHANGED ledger
    /\ UNCHANGED <<row, volumes, booted, gone>>

\* agent_db.delete_vm.  delete_vm returns Ok, also when that failed.
DropRow(t) ==
    /\ pc[t] = "drop"
    /\ \/ row' = [row EXCEPT ![VmOf(t)] = FALSE] /\ NoFault
       \/ Fault("db") /\ UNCHANGED row
    /\ gone' = [gone EXCEPT ![VmOf(t)] = TRUE]
    /\ Goto(t, "idle")
    /\ UNCHANGED <<ledger, volumes, todo, poolGate, booted>>

DiskStep(t) ==
    \/ InsertRow(t) \/ Reserve(t) \/ CreateVolume(t) \/ MarkReady(t)
    \/ ReadRows(t) \/ MarkDeleting(t) \/ RemoveVolume(t) \/ DeleteRow(t) \/ DropRow(t)
===============================================================================
