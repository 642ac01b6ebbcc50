------------------------------ MODULE ImageCache ------------------------------
(***************************************************************************)
(* The image of a node on a host: the three layers pulled from the         *)
(* registry into the image directory, the golden volume the rootfs layer   *)
(* is converted into, and the snapshots of it that VMs boot from.          *)
(*                                                                         *)
(* All VMs use one image reference.  Its tag can be published again, so a  *)
(* layer carries the number of the publication it was pulled from; 0 is a  *)
(* file that does not exist.  A `.partial` file is only ever seen by the   *)
(* task that writes it and is not modelled.                                *)
(***************************************************************************)
EXTENDS AgentTasks

CONSTANT MaxPublications

Layers == {"qcow2", "vmlinuz", "initrd"}

VARIABLES
    registry,   \* the publication the tag names
    file,       \* file[l]: the publication a layer's file is from; 0: no file
    unpacked,   \* the qcow2 file is complete
    manifest,   \* manifest[t]: the publication a puller read
    golden,     \* the golden volume
    root,       \* root[v]: the rootfs volume of a VM
    pullLock,   \* who holds the lock of the image reference
    rootGate    \* who holds the permit of the rootfs volume group

imageVars == <<registry, file, unpacked, manifest, golden, root, pullLock, rootGate>>

NoVolume == [made |-> FALSE, from |-> 0, whole |-> FALSE]
NoGolden == [made |-> FALSE, from |-> 0, whole |-> FALSE, ro |-> FALSE]

ImageInit ==
    /\ registry = 1
    /\ file = [l \in Layers |-> 0]
    /\ unpacked = FALSE
    /\ manifest = [t \in Tasks |-> 0]
    /\ golden = NoGolden
    /\ root = [v \in VMs |-> NoVolume]
    /\ pullLock = NoTask
    /\ rootGate = NoTask

GoldenCopy == [made |-> TRUE, from |-> golden.from, whole |-> golden.whole]
\* lvremove refuses a volume that a hypervisor has open.
InUse(v) == booted[v] /\ root[v] # NoVolume

Cached == \A l \in Layers : file[l] # 0

Released(t) == pullLock' = Freed(pullLock, t) /\ rootGate' = Freed(rootGate, t)

\* An error of ensure_cached or create_vm_rootfs: create_vm rolls back.
ImageFails(t) ==
    /\ Released(t) /\ Goto(t, "undo")
    /\ manifest' = [manifest EXCEPT ![t] = 0]
    /\ UNCHANGED registry

-----------------------------------------------------------------------------
(* ImageManager::ensure_cached *)

\* Everything is there, by existence; qemu-img info may refuse a torn qcow2.
FastPath(t) ==
    /\ pc[t] = "ensure"
    /\ \/ Cached /\ golden.made /\ Goto(t, "checks") /\ UNCHANGED imageVars
       \/ ~(Cached /\ golden.made) /\ Goto(t, "lock") /\ UNCHANGED imageVars
       \/ /\ Cached /\ golden.made /\ ~unpacked
          /\ ImageFails(t) /\ UNCHANGED <<file, unpacked, golden, root>>
    /\ NoFault /\ UNCHANGED booted

\* lock_for(image_ref): one puller; the others find the files when it is done.
LockImage(t) ==
    /\ pc[t] = "lock" /\ pullLock = NoTask
    /\ pullLock' = t
    /\ Goto(t, IF Cached THEN "size" ELSE "manifest")
    /\ NoFault
    /\ UNCHANGED <<registry, file, unpacked, manifest, golden, root, rootGate, booted>>

\* pull_image_manifest, once for all layers.
FetchManifest(t) ==
    /\ pc[t] = "manifest"
    /\ \/ /\ manifest' = [manifest EXCEPT ![t] = registry]
          /\ Goto(t, "qcow2") /\ NoFault /\ UNCHANGED <<registry, pullLock, rootGate>>
       \/ Fault("net") /\ ImageFails(t)
    /\ UNCHANGED <<file, unpacked, golden, root, booted>>

\* The qcow2 layer: streamed aside and verified; then qemu-img writes the
\* uncompressed image under the final name.
PullRootfs(t) ==
    /\ pc[t] = "qcow2"
    /\ \/ /\ file["qcow2"] # 0 /\ Goto(t, "vmlinuz") /\ NoFault
          /\ UNCHANGED <<file, registry, manifest, pullLock, rootGate>>
       \/ /\ file["qcow2"] = 0
          /\ file' = [file EXCEPT !["qcow2"] = manifest[t]]
          /\ Goto(t, "unpack") /\ NoFault
          /\ UNCHANGED <<registry, manifest, pullLock, rootGate>>
       \/ /\ file["qcow2"] = 0
          /\ Fault("net") \/ Fault("spawn")
          /\ ImageFails(t) /\ UNCHANGED file
    /\ UNCHANGED <<unpacked, golden, root, booted>>

\* Mutant: a failed conversion leaves its output.
Unpack_KeepsOutput(t) ==
    /\ pc[t] = "unpack"
    /\ \/ /\ unpacked' = TRUE
          /\ Goto(t, "vmlinuz") /\ NoFault
          /\ UNCHANGED <<file, registry, manifest, pullLock, rootGate>>
       \/ Fault("convert") /\ ImageFails(t) /\ UNCHANGED <<file, unpacked>>
    /\ UNCHANGED <<golden, root, booted>>

\* decompress_qcow2_in_place: a failed conversion removes its output, and does
\* not notice when that fails too ("torn").
Unpack(t) ==
    /\ pc[t] = "unpack"
    /\ \/ /\ unpacked' = TRUE
          /\ Goto(t, "vmlinuz") /\ NoFault
          /\ UNCHANGED <<file, registry, manifest, pullLock, rootGate>>
       \/ /\ Fault("convert") /\ ImageFails(t)
          /\ file' = [file EXCEPT !["qcow2"] = 0] /\ UNCHANGED unpacked
       \/ Fault("torn") /\ ImageFails(t) /\ UNCHANGED <<file, unpacked>>
    /\ UNCHANGED <<golden, root, booted>>

\* Mutant: the manifest of the moment, not the one that was read.
PullBoot_Refetch(t, l, next) ==
    /\ pc[t] = l
    /\ \/ /\ file' = [file EXCEPT ![l] = IF @ = 0 THEN registry ELSE @]
          /\ Goto(t, next) /\ NoFault
          /\ UNCHANGED <<registry, manifest, pullLock, rootGate>>
       \/ file[l] = 0 /\ Fault("net") /\ ImageFails(t) /\ UNCHANGED file
    /\ UNCHANGED <<unpacked, golden, root, booted>>

\* The kernel or the initrd: streamed aside, verified and renamed.
PullBoot(t, l, next) ==
    /\ pc[t] = l
    /\ \/ /\ file' = [file EXCEPT ![l] = IF @ = 0 THEN manifest[t] ELSE @]
          /\ Goto(t, next) /\ NoFault
          /\ UNCHANGED <<registry, manifest, pullLock, rootGate>>
       \/ file[l] = 0 /\ Fault("net") /\ ImageFails(t) /\ UNCHANGED file
    /\ UNCHANGED <<unpacked, golden, root, booted>>

\* qcow2_virtual_size_gib, and the unlocked look at the golden volume that
\* ensure_image_lv begins with.
SizeImage(t) ==
    /\ pc[t] = "size"
    /\ \/ /\ Goto(t, IF golden.ro THEN "checks" ELSE "gate")
          /\ pullLock' = IF golden.ro THEN Freed(pullLock, t) ELSE pullLock
          /\ manifest' = [manifest EXCEPT ![t] = 0]
          /\ UNCHANGED <<registry, rootGate>>
       \/ ~unpacked /\ ImageFails(t)
    /\ NoFault /\ UNCHANGED <<file, unpacked, golden, root, booted>>

-----------------------------------------------------------------------------
(* Storage::ensure_image_lv, create_vm_rootfs and remove_vm_rootfs *)

\* The permit; a read-only volume is a complete one, any other is made again.
MakeGolden(t) ==
    /\ pc[t] = "gate"
    /\ \/ /\ rootGate = NoTask /\ golden.ro
          /\ Released(t) /\ Goto(t, "checks") /\ NoFault
          /\ UNCHANGED <<golden, registry, manifest>>
       \/ /\ rootGate = NoTask /\ ~golden.ro
          /\ rootGate' = t /\ golden' = [NoGolden EXCEPT !.made = TRUE]
          /\ Goto(t, "fill") /\ NoFault /\ UNCHANGED <<registry, manifest, pullLock>>
       \/ /\ rootGate = NoTask /\ ~golden.ro /\ Fault("lvm")
          /\ golden' \in {golden, NoGolden} /\ ImageFails(t)
       \/ Fault("busy") /\ ImageFails(t) /\ UNCHANGED golden
    /\ UNCHANGED <<file, unpacked, root, booted>>

\* qemu-img convert.  A failed one removes the volume, and does not notice when
\* that fails too; one that cannot be started leaves the volume.
FillGolden(t) ==
    /\ pc[t] = "fill"
    /\ \/ /\ golden' = [golden EXCEPT !.from = file["qcow2"], !.whole = unpacked]
          /\ Goto(t, "seal") /\ NoFault
          /\ UNCHANGED <<registry, manifest, pullLock, rootGate>>
       \/ Fault("convert") /\ golden' = NoGolden /\ ImageFails(t)
       \/ (Fault("spawn") \/ Fault("torn")) /\ ImageFails(t) /\ UNCHANGED golden
    /\ UNCHANGED <<file, unpacked, root, booted>>

\* lvchange --permission r
SealGolden(t) ==
    /\ pc[t] = "seal"
    /\ \/ /\ golden' = [golden EXCEPT !.ro = TRUE]
          /\ Released(t) /\ Goto(t, "checks") /\ NoFault /\ UNCHANGED <<registry, manifest>>
       \/ Fault("lvm") /\ ImageFails(t) /\ UNCHANGED golden
    /\ UNCHANGED <<file, unpacked, root, booted>>

\* Mutant: no permit.
SnapshotRoot_NoGate(t) ==
    LET v == VmOf(t)
    IN /\ pc[t] = "snapshot"
       /\ \/ /\ golden.made /\ ~InUse(v)
             /\ root' = [root EXCEPT ![v] = GoldenCopy]
             /\ Goto(t, "disks") /\ NoFault
             /\ UNCHANGED <<registry, manifest, pullLock, rootGate>>
          \/ /\ ~golden.made \/ InUse(v)
             /\ ImageFails(t) /\ NoFault /\ UNCHANGED root
       /\ UNCHANGED <<file, unpacked, golden, booted>>

\* create_vm_rootfs: under the permit, an old volume of the VM is removed and
\* a snapshot of the golden volume made, whatever that holds.
SnapshotRoot(t) ==
    LET v == VmOf(t)
    IN /\ pc[t] = "snapshot"
       /\ \/ /\ rootGate = NoTask /\ golden.made /\ ~InUse(v)
             /\ root' = [root EXCEPT ![v] = GoldenCopy]
             /\ Goto(t, "disks") /\ NoFault
             /\ UNCHANGED <<registry, manifest, pullLock, rootGate>>
          \/ /\ rootGate = NoTask /\ ~InUse(v)
             /\ (~golden.made /\ NoFault) \/ Fault("lvm")
             /\ \E r \in {NoVolume} \cup {x \in {GoldenCopy} : golden.made} :
                   root' = [root EXCEPT ![v] = r]
             /\ ImageFails(t)
          \/ /\ (InUse(v) /\ rootGate = NoTask /\ NoFault) \/ Fault("busy")
             /\ ImageFails(t) /\ UNCHANGED root
       /\ UNCHANGED <<file, unpacked, golden, booted>>

\* delete_vm stops the hypervisor first, and goes on when systemctl fails.
StopVm(t) ==
    /\ pc[t] = "undo"
    /\ \/ booted' = [booted EXCEPT ![VmOf(t)] = FALSE] /\ NoFault
       \/ Fault("stop") /\ UNCHANGED booted
    /\ Goto(t, "rmroot") /\ UNCHANGED imageVars

\* remove_vm_rootfs: without a volume it is done at once.
RemoveRoot(t) ==
    LET v == VmOf(t)
    IN /\ pc[t] = "rmroot"
       /\ \/ /\ root[v] = NoVolume \/ (rootGate = NoTask /\ ~InUse(v))
             /\ root' = [root EXCEPT ![v] = NoVolume]
             /\ Goto(t, "release") /\ NoFault
          \/ /\ root[v] # NoVolume
             /\ \/ rootGate = NoTask /\ InUse(v) /\ NoFault
                \/ rootGate = NoTask /\ Fault("lvm")
                \/ Fault("busy")
             /\ Goto(t, "idle") /\ UNCHANGED root
       /\ UNCHANGED <<registry, file, unpacked, manifest, golden, pullLock, rootGate, booted>>

\* The tag is published again.  Once all layers are cached nobody looks.
Publish ==
    /\ ~Cached /\ registry < MaxPublications
    /\ registry' = registry + 1
    /\ UNCHANGED <<file, unpacked, manifest, golden, root, pullLock, rootGate, taskVars>>

ImageStep(t) ==
    \/ FastPath(t) \/ LockImage(t) \/ FetchManifest(t) \/ PullRootfs(t) \/ Unpack(t)
    \/ PullBoot(t, "vmlinuz", "initrd") \/ PullBoot(t, "initrd", "size") \/ SizeImage(t)
    \/ MakeGolden(t) \/ FillGolden(t) \/ SealGolden(t) \/ SnapshotRoot(t)
    \/ StopVm(t) \/ RemoveRoot(t)
===============================================================================
