-------------------------------- MODULE VmDisks --------------------------------
(***************************************************************************)
(* The volumes of a host: create_vm takes the image, a snapshot of it and  *)
(* the data disks, delete_vm gives the volumes back, and any number of     *)
(* both run at a time.  A restart of the agent loses the tasks and keeps   *)
(* the files, the volumes and the ledger.                                  *)
(***************************************************************************)
EXTENDS ImageCache, DataDisks

CONSTANTS
    MaxCreates,   \* MaxCreates[v]: CreateVm commands (one can be sent again)
    MaxDeletes    \* MaxDeletes[v]: delete_vm calls

VARIABLES
    creates, deletes,   \* creates[v], deletes[v]: so far
    raced               \* raced[v]: a create and a delete of v overlapped (history)

callVars == <<creates, deletes, raced>>
vars == <<taskVars, imageVars, diskVars, callVars>>

Init ==
    /\ TaskInit /\ ImageInit /\ DiskInit
    /\ creates = [v \in VMs |-> 0]
    /\ deletes = [v \in VMs |-> 0]
    /\ raced = [v \in VMs |-> FALSE]

Idle(k, v) == pc[<<k, v>>] = "idle"

-----------------------------------------------------------------------------
CreateVm(v) ==
    /\ Idle("create", v) /\ creates[v] < MaxCreates[v]
    /\ Goto(<<"create", v>>, "ensure")
    /\ creates' = [creates EXCEPT ![v] = @ + 1]
    /\ gone' = [gone EXCEPT ![v] = FALSE]
    /\ raced' = [raced EXCEPT ![v] = @ \/ ~Idle("delete", v) \/ ~Idle("sweep", v)]
    /\ UNCHANGED <<booted, faults, happened, imageVars, row, ledger, volumes, todo,
                   poolGate, deletes>>

\* A tombstone of the controller.
DeleteVm(v) ==
    /\ Idle("delete", v) /\ creates[v] > 0 /\ deletes[v] < MaxDeletes[v]
    /\ Goto(<<"delete", v>>, "undo")
    /\ deletes' = [deletes EXCEPT ![v] = @ + 1]
    /\ raced' = [raced EXCEPT ![v] = @ \/ ~Idle("create", v)]
    /\ UNCHANGED <<booted, faults, happened, imageVars, diskVars, creates>>

\* sweep_orphans, one VM after the other, for those neither in local_vms nor
\* pending: the unit is stopped, the volumes removed (UnitCollector, LvCollector).
SweepVolumes(v) ==
    /\ \A w \in VMs : Idle("sweep", w)
    /\ ~row[v] /\ Idle("create", v)
    /\ booted[v] \/ root[v] # NoVolume \/ volumes \cap DisksOf(v) # {}
    /\ Goto(<<"sweep", v>>, IF booted[v] THEN "undo" ELSE "rmroot")
    /\ UNCHANGED <<booted, faults, happened, imageVars, diskVars, callVars>>

\* The rest of create_vm_inner: systemd-run starts the hypervisor if nothing
\* else fails.
Boot(t) ==
    LET v == VmOf(t)
    IN /\ pc[t] = "boot"
       /\ \/ /\ booted' = [booted EXCEPT ![v] = root[v] # NoVolume /\ DisksOf(v) \subseteq volumes]
             /\ Goto(t, "idle") /\ NoFault /\ UNCHANGED <<todo, poolGate>>
          \/ Fault("boot") /\ DisksFail(t) /\ UNCHANGED booted
       /\ UNCHANGED <<imageVars, row, ledger, volumes, gone, callVars>>

\* The agent's process ends, and starts again.
Crash ==
    /\ Fault("crash")
    /\ \E t \in Tasks : pc[t] # "idle"
    /\ pc' = [t \in Tasks |-> "idle"]
    /\ todo' = [t \in Tasks |-> {}]
    /\ pullLock' = NoTask /\ rootGate' = NoTask /\ poolGate' = NoTask
    /\ manifest' = [t \in Tasks |-> 0]
    /\ UNCHANGED <<registry, file, unpacked, golden, root, row, ledger, volumes, booted,
                   gone, callVars>>

TaskStep(t) ==
    \/ ImageStep(t) /\ UNCHANGED <<diskVars, callVars>>
    \/ DiskStep(t) /\ UNCHANGED <<imageVars, callVars>>
    \/ Boot(t)

Next ==
    \/ \E v \in VMs : CreateVm(v) \/ DeleteVm(v) \/ SweepVolumes(v)
    \/ \E t \in Tasks : TaskStep(t)
    \/ Publish /\ UNCHANGED <<diskVars, callVars>>
    \/ Crash

Spec == Init /\ [][Next]_vars

\* Every task is polled again once what it waits for is there.  The tools and
\* the registry answer or time out.
FairSpec ==
    /\ Spec
    /\ \A v \in VMs : WF_vars(TaskStep(<<"create", v>>)) /\ WF_vars(TaskStep(<<"delete", v>>))
    /\ WF_vars(\E v \in VMs : TaskStep(<<"sweep", v>>))

-----------------------------------------------------------------------------
TypeOK ==
    /\ file \in [Layers -> 0 .. MaxPublications] /\ unpacked \in BOOLEAN
    /\ golden \in [made : BOOLEAN, from : 0 .. MaxPublications, whole : BOOLEAN, ro : BOOLEAN]
    /\ root \in [VMs -> [made : BOOLEAN, from : 0 .. MaxPublications, whole : BOOLEAN]]
    /\ {pullLock, rootGate, poolGate} \subseteq Tasks \cup {NoTask}
    /\ ledger \in [Disks -> {"none", "Creating", "Ready", "Deleting"}]
    /\ volumes \subseteq Disks
    /\ todo \in [Tasks -> SUBSET Disks]

\* A VM that runs boots from a complete copy of the image, whatever pulls and
\* conversions failed before and whoever pulled at the same time
\* (ensure_cached, ensure_image_lv, create_vm_rootfs).  Three faults are
\* excepted: the fast path takes a golden volume for a complete one because it
\* exists, and it is left half filled by an agent that is killed while it fills
\* it, that cannot start qemu-img, or whose lvremove after a failed conversion
\* fails as well, which nobody looks at.
WholeRootfs ==
    \A v \in VMs : booted[v] => root[v].whole \/ happened \cap {"crash", "spawn", "torn"} # {}

\* While nobody pulls, a file of the cache is complete: a failed pull leaves no
\* truncated entry (pull_oci, decompress_qcow2_in_place), short of a crash and of
\* a failed conversion whose output cannot be removed either.
CacheWhole ==
    pullLock = NoTask /\ file["qcow2"] # 0 => unpacked \/ happened \cap {"crash", "torn"} # {}

\* Kernel, initrd and rootfs of a running VM are of one publication of the
\* image, also when the tag moves during the pull (pull_oci reads the manifest
\* once); a pull that failed half-way is completed from the later one.
LayersMatch ==
    \A v \in VMs : booted[v] =>
        \/ \A l \in Layers : file[l] = root[v].from
        \/ happened \cap {"net", "spawn", "crash", "torn"} # {}

\* A data volume is in the ledger, whatever failed between the insert, lvcreate
\* and the update (allocate, release): release finds volumes by their rows, so
\* one without a row would never be removed.  A delete that overlaps the create
\* may take the row before lvcreate.
LedgerCovers ==
    \A x \in volumes : ledger[x] # "none" \/ raced[x[1]]

\* Once delete_vm has returned Ok, nothing of the VM is left on the host: no
\* hypervisor, no rootfs, no data volume, no reservation (delete_vm, the rollback
\* of create_vm), also when the stop of the hypervisor failed unnoticed, unless a
\* create overlapped it.  The VM's row is gone too, unless the database failed:
\* delete_vm answers Ok with the row still there.
DeletedIsGone ==
    \A v \in VMs : gone[v] /\ (\A k \in {"create", "delete", "sweep"} : Idle(k, v)) =>
        \/ /\ ~booted[v] /\ root[v] = NoVolume /\ volumes \cap DisksOf(v) = {} /\ Rows(v) = {}
           /\ ~row[v] \/ "db" \in happened
        \/ raced[v]

\* Every create and every delete ends: the image lock and the permits are
\* dropped on every path, and nobody waits in a circle.
TasksEnd ==
    \A v \in VMs : /\ ~Idle("create", v) ~> Idle("create", v)
                   /\ ~Idle("delete", v) ~> Idle("delete", v)
===============================================================================
