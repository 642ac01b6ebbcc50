---------------------------- MODULE VmDisksProofs ----------------------------
(***************************************************************************)
(* Proofs about the image cache and the data disks of a host, for any      *)
(* number of VMs and disks, of publications and of faults.                 *)
(*                                                                         *)
(* Whole is the inductive invariant behind CacheWhole and WholeRootfs.     *)
(* The lock of the image and the permit of the volume group each have one  *)
(* holder at the labels that need it (Locked, Gated); so a torn file has a *)
(* task that is still unpacking it (FileWhole), a torn golden volume one   *)
(* that is still filling it (GoldenWhole), and nobody else gets at either  *)
(* before that task is done.                                               *)
(*                                                                         *)
(* Alike, beside it, says for each label of a puller which layers there    *)
(* are and from which publication; Booked says which rows of the ledger    *)
(* and which volumes a task at each label has, Cleared what delete_vm has  *)
(* removed by then, and Fresh that a create meets no reservation of its    *)
(* own and that a VM that is gone has no row but by a failed database.     *)
(***************************************************************************)
EXTENDS VmDisks, WellFoundedInduction, TLAPS

\* The labels of a puller: with the lock of the image, with the qcow2 file
\* unpacked, and with the permit of the volume group.
Unpacked == {"vmlinuz", "initrd", "size", "gate", "fill", "seal"}
Pulling == {"manifest", "qcow2", "unpack"} \cup Unpacked
Filling == {"fill", "seal"}

\* All other labels.
Away == {"idle", "ensure", "lock", "checks", "snapshot", "disks", "lvcreate", "ready",
         "boot", "undo", "rmroot", "release", "mark", "reap", "unrow", "drop"}

Labels == Pulling \cup Away

Volume == [made : BOOLEAN, from : Nat, whole : BOOLEAN]

ImageType ==
    /\ pc \in [Tasks -> Labels] /\ booted \in [VMs -> BOOLEAN]
    /\ registry \in Nat \ {0} /\ manifest \in [Tasks -> Nat]
    /\ file \in [Layers -> Nat] /\ unpacked \in BOOLEAN
    /\ golden \in [made : BOOLEAN, from : Nat, whole : BOOLEAN, ro : BOOLEAN]
    /\ root \in [VMs -> Volume]

Killed == happened \cap {"crash", "torn"} # {}
Torn == happened \cap {"crash", "spawn", "torn"} # {}

Locked == \A t \in Tasks : pc[t] \in Pulling => pullLock = t
Gated == \A t \in Tasks : pc[t] \in Filling => rootGate = t

FileWhole ==
    /\ file["qcow2"] # 0 => unpacked \/ Killed \/ \E t \in Tasks : pc[t] = "unpack"
    /\ \A t \in Tasks : pc[t] \in Unpacked => unpacked \/ Killed

GoldenWhole ==
    golden.made => golden.whole \/ Torn \/ \E t \in Tasks : pc[t] = "fill"

RootWhole ==
    \A v \in VMs : /\ root[v] # NoVolume => root[v].whole \/ Torn
                   /\ booted[v] => root[v] # NoVolume

Whole == ImageType /\ Locked /\ Gated /\ FileWhole /\ GoldenWhole /\ RootWhole

-----------------------------------------------------------------------------
(* What every step of a task does to its label and to the history. *)

\* A task moves alone.
LEMMA Moved ==
  ASSUME ImageType, NEW t \in Tasks, NEW l \in Labels, Goto(t, l)
  PROVE  /\ pc' \in [Tasks -> Labels] /\ pc'[t] = l
         /\ \A u \in Tasks : u # t => pc'[u] = pc[u]
  BY Zenon DEF ImageType, Goto

\* A task is a task of one of the VMs.
LEMMA VmOfType == ASSUME NEW t \in Tasks PROVE VmOf(t) \in VMs
  BY Zenon DEF Tasks, VmOf

\* What happened stays on record.
LEMMA History ==
  ASSUME happened \subseteq happened'
  PROVE  (Killed => Killed') /\ (Torn => Torn')
  BY Zenon DEF Killed, Torn

\* A failed step adds its kind to the record.
LEMMA Recorded ==
  ASSUME NEW f, Fault(f) PROVE happened \subseteq happened' /\ f \in happened'
  BY Zenon DEF Fault

\* Any other step leaves the record alone.
LEMMA NotRecorded == ASSUME NoFault PROVE happened' = happened
  BY Zenon DEF NoFault

\* At most one task pulls, and it holds the lock; at most one fills the golden
\* volume, and it holds the permit.
LEMMA Alone ==
  ASSUME Whole
  PROVE  /\ \A t, u \in Tasks : pc[t] \in Pulling /\ pc[u] \in Pulling => t = u
         /\ \A t, u \in Tasks : pc[t] \in Filling /\ pc[u] \in Filling => t = u
         /\ pullLock = NoTask => \A t \in Tasks : pc[t] \notin Pulling
         /\ rootGate = NoTask => \A t \in Tasks : pc[t] \notin Filling
  BY TaskAssumption, Zenon DEF Whole, Locked, Gated

-----------------------------------------------------------------------------
(* Steps that leave the image alone. *)

\* A step of which the image is no part, by a task that does not pull.
LEMMA WholeElsewhere ==
  ASSUME Whole, NEW t \in Tasks, NEW l \in Labels, Goto(t, l),
         pc[t] \in Away, l \in Away,
         happened \subseteq happened', UNCHANGED <<imageVars, booted>>
  PROVE  Whole'
<1> USE DEF Whole
<1>0. UNCHANGED <<registry, file, unpacked, manifest, golden, root, pullLock, rootGate>>
  BY Zenon DEF imageVars
<1>1. ImageType'
  BY <1>0, Moved, Zenon DEF ImageType
<1>2. Locked' /\ Gated'
  BY <1>0, Moved, Zenon DEF Locked, Gated, Away, Pulling, Filling, Unpacked
<1>3. FileWhole'
  BY <1>0, Moved, History, Zenon DEF FileWhole, Away, Unpacked
<1>4. GoldenWhole'
  BY <1>0, Moved, History, Zenon DEF GoldenWhole, Away
<1>5. RootWhole'
  BY <1>0, History, Zenon DEF RootWhole
<1> QED
  BY <1>1, <1>2, <1>3, <1>4, <1>5, Zenon

\* Everything delete_vm and create_vm do beside the image is such a step.
LEMMA DiskMoves ==
  ASSUME ImageType, NEW t \in Tasks, DiskStep(t)
  PROVE  /\ pc[t] \in Away /\ booted' = booted /\ happened \subseteq happened'
         /\ \E l \in Away : Goto(t, l)
<1> USE DEF Away
<1>1. CASE InsertRow(t)
  BY <1>1, NotRecorded, Recorded, Zenon DEF InsertRow, DisksFail
<1>2. CASE Reserve(t)
  <2>1. pc[t] = "disks" /\ booted' = booted /\ happened \subseteq happened'
    BY <1>2, NotRecorded, Recorded, Zenon DEF Reserve
  <2>2. UNCHANGED pc => Goto(t, "disks")
    BY <2>1, Zenon DEF Goto, ImageType
  <2> QED
    BY <1>2, <2>1, <2>2, Zenon DEF Reserve, DisksFail
<1>3. CASE CreateVolume(t)
  BY <1>3, NotRecorded, Recorded, Zenon DEF CreateVolume, DisksFail
<1>4. CASE MarkReady(t)
  BY <1>4, NotRecorded, Recorded, Zenon DEF MarkReady, DisksFail
<1>5. CASE ReadRows(t)
  BY <1>5, NotRecorded, Recorded, Zenon DEF ReadRows, AfterRelease, ReleaseFails
<1>6. CASE MarkDeleting(t)
  BY <1>6, NotRecorded, Recorded, Zenon DEF MarkDeleting, ReleaseFails
<1>7. CASE RemoveVolume(t)
  BY <1>7, NotRecorded, Recorded, Zenon DEF RemoveVolume, ReleaseFails
<1>8. CASE DeleteRow(t)
  BY <1>8, NotRecorded, Recorded, Zenon DEF DeleteRow, AfterRelease, ReleaseFails
<1>9. CASE DropRow(t)
  BY <1>9, NotRecorded, Recorded, Zenon DEF DropRow
<1> QED
  BY <1>1, <1>2, <1>3, <1>4, <1>5, <1>6, <1>7, <1>8, <1>9, Zenon DEF DiskStep

-----------------------------------------------------------------------------
(* The steps of a puller. *)

\* A step that leaves the volumes of VMs alone.
LEMMA RootKept ==
  ASSUME RootWhole, happened \subseteq happened', UNCHANGED <<root, booted>>
  PROVE  RootWhole'
  BY History, Zenon DEF RootWhole

\* A step of a task that leaves the golden volume alone and is not filling it.
LEMMA GoldenKept ==
  ASSUME Whole, NEW t \in Tasks, NEW l \in Labels, Goto(t, l), pc[t] # "fill",
         happened \subseteq happened', UNCHANGED golden
  PROVE  GoldenWhole'
  BY Moved, History, Zenon DEF Whole, GoldenWhole

\* A step of a task that leaves the qcow2 file alone, is not unpacking it, and
\* comes to a label that presumes it unpacked only with that known.
LEMMA FileKept ==
  ASSUME Whole, NEW t \in Tasks, NEW l \in Labels, Goto(t, l), pc[t] # "unpack",
         l \in Unpacked => unpacked \/ Killed,
         happened \subseteq happened', UNCHANGED unpacked, file'["qcow2"] = file["qcow2"]
  PROVE  FileWhole'
  BY Moved, History, Zenon DEF Whole, FileWhole

\* A puller that fails, or is done, gives both permits back.
LEMMA LockDropped ==
  ASSUME Whole, NEW t \in Tasks, NEW l \in Labels, Goto(t, l), l \in Away, Released(t)
  PROVE  Locked' /\ Gated'
  BY Moved, Zenon DEF Whole, Locked, Gated, Released, Freed, Away, Pulling, Filling, Unpacked

\* A puller that goes on keeps what it holds.
LEMMA LockKept ==
  ASSUME Whole, NEW t \in Tasks, NEW l \in Labels, Goto(t, l),
         l \in Pulling => pc[t] \in Pulling, l \in Filling => pc[t] \in Filling,
         UNCHANGED <<pullLock, rootGate>>
  PROVE  Locked' /\ Gated'
  BY Moved, Zenon DEF Whole, Locked, Gated

\* A step that fails gives the permits back and forgets the manifest.
LEMMA Failing ==
  ASSUME Whole, NEW t \in Tasks, ImageFails(t)
  PROVE  /\ Goto(t, "undo") /\ "undo" \in Labels /\ "undo" \notin Unpacked
         /\ Locked' /\ Gated'
         /\ pc' \in [Tasks -> Labels] /\ manifest' \in [Tasks -> Nat] /\ registry' = registry
<1>1. Goto(t, "undo") /\ Released(t)
  BY Zenon DEF ImageFails
<1>2. "undo" \in Away /\ "undo" \in Labels /\ "undo" \notin Unpacked
  BY Zenon DEF Away, Labels, Unpacked
<1>3. manifest' \in [Tasks -> Nat]
  BY Zenon DEF Whole, ImageType, ImageFails
<1> QED
  BY <1>1, <1>2, <1>3, LockDropped, Moved, Zenon DEF Whole, ImageFails

\* So a failure that leaves files and volumes as they were keeps Whole.
LEMMA WholeFails ==
  ASSUME Whole, NEW t \in Tasks, ImageFails(t), pc[t] \notin {"unpack", "fill"},
         happened \subseteq happened', UNCHANGED <<file, unpacked, golden, root, booted>>
  PROVE  Whole'
<1>1. FileWhole'
  BY Failing, FileKept, Zenon
<1>2. GoldenWhole'
  BY Failing, GoldenKept, Zenon
<1>3. RootWhole'
  BY RootKept, Zenon DEF Whole
<1>4. ImageType'
  BY Failing, Zenon DEF Whole, ImageType
<1> QED
  BY <1>1, <1>2, <1>3, <1>4, Failing, Zenon DEF Whole

\* ensure_cached's unlocked look keeps Whole.
LEMMA WholeFastPath ==
  ASSUME Whole, NEW t \in Tasks, FastPath(t) PROVE Whole'
<1>1. pc[t] = "ensure" /\ happened' = happened /\ booted' = booted
  BY NotRecorded, Zenon DEF FastPath
<1>2. CASE UNCHANGED imageVars /\ \E l \in Away : Goto(t, l)
  BY <1>1, <1>2, WholeElsewhere, Zenon DEF Away, Labels
<1>3. CASE ImageFails(t) /\ UNCHANGED <<file, unpacked, golden, root>>
  BY <1>1, <1>3, WholeFails, Zenon
<1> QED
  BY <1>2, <1>3, Zenon DEF FastPath, Away

\* lock_for(image_ref): the cache is complete when the lock is free.
LEMMA WholeLockImage ==
  ASSUME Whole, NEW t \in Tasks, LockImage(t) PROVE Whole'
<1> DEFINE l == IF Cached THEN "size" ELSE "manifest"
<1>1. /\ pc[t] = "lock" /\ pullLock = NoTask /\ pullLock' = t /\ Goto(t, l)
      /\ happened' = happened
      /\ UNCHANGED <<registry, file, unpacked, manifest, golden, root, rootGate, booted>>
  BY NotRecorded, Zenon DEF LockImage
<1>2. l \in Pulling /\ l \in Labels /\ l \notin Filling /\ (l \in Unpacked => Cached)
  BY Zenon DEF Pulling, Unpacked, Labels, Filling
<1>3. \A u \in Tasks : pc[u] \notin Pulling
  BY <1>1, Alone, Zenon
<1>4. Cached => unpacked \/ Killed
  BY <1>3, Zenon DEF Whole, FileWhole, Cached, Layers, Pulling
<1> HIDE DEF l
<1>5. pc' \in [Tasks -> Labels] /\ pc'[t] = l /\ \A u \in Tasks : u # t => pc'[u] = pc[u]
  BY <1>1, <1>2, Zenon DEF Whole, ImageType, Goto
<1>6. ImageType'
  BY <1>1, <1>5, Zenon DEF Whole, ImageType
<1>7. Locked' /\ Gated'
  BY <1>1, <1>2, <1>3, <1>5, Zenon DEF Whole, Locked, Gated
<1>8. FileWhole'
  BY <1>1, <1>2, <1>3, <1>4, <1>5, History, Zenon DEF Whole, FileWhole
<1>9. GoldenWhole' /\ RootWhole'
  BY <1>1, <1>5, RootKept, History, Zenon DEF Whole, GoldenWhole
<1> QED
  BY <1>6, <1>7, <1>8, <1>9, Zenon DEF Whole

\* Reading the manifest keeps Whole.
LEMMA WholeFetchManifest ==
  ASSUME Whole, NEW t \in Tasks, FetchManifest(t) PROVE Whole'
<1>1. pc[t] = "manifest" /\ UNCHANGED <<file, unpacked, golden, root, booted>>
  BY Zenon DEF FetchManifest
<1>2. CASE /\ manifest' = [manifest EXCEPT ![t] = registry]
           /\ Goto(t, "qcow2") /\ NoFault /\ UNCHANGED <<registry, pullLock, rootGate>>
  <2>1. /\ "qcow2" \in Labels /\ "qcow2" \in Pulling
        /\ "qcow2" \notin Unpacked /\ "qcow2" \notin Filling
    BY Zenon DEF Labels, Pulling, Unpacked, Filling
  <2>2. pc[t] \in Pulling
    BY <1>1, Zenon DEF Pulling
  <2>3. happened \subseteq happened'
    BY <1>2, NotRecorded, Zenon
  <2>4. ImageType'
    BY <1>1, <1>2, <2>1, Moved, Zenon DEF Whole, ImageType
  <2>5. Locked' /\ Gated'
    BY <1>2, <2>1, <2>2, LockKept, Zenon
  <2>6. FileWhole' /\ GoldenWhole'
    BY <1>1, <1>2, <2>1, <2>3, FileKept, GoldenKept, Zenon
  <2> QED
    BY <1>1, <2>3, <2>4, <2>5, <2>6, RootKept, Zenon DEF Whole
<1>3. CASE Fault("net") /\ ImageFails(t)
  BY <1>1, <1>3, Recorded, WholeFails, Zenon
<1> QED
  BY <1>2, <1>3, Zenon DEF FetchManifest

\* The qcow2 layer: found there, it is unpacked, because nobody else pulls.
LEMMA WholePullRootfs ==
  ASSUME Whole, NEW t \in Tasks, PullRootfs(t) PROVE Whole'
<1>1. pc[t] = "qcow2" /\ UNCHANGED <<unpacked, golden, root, booted>>
  BY Zenon DEF PullRootfs
<1>2. pc[t] \in Pulling
  BY <1>1, Zenon DEF Pulling
<1>3. CASE /\ file["qcow2"] # 0 /\ Goto(t, "vmlinuz") /\ NoFault
           /\ UNCHANGED <<file, registry, manifest, pullLock, rootGate>>
  <2>1. "vmlinuz" \in Labels /\ "vmlinuz" \notin Filling
    BY Zenon DEF Labels, Pulling, Unpacked, Filling
  <2>2. happened \subseteq happened'
    BY <1>3, NotRecorded, Zenon
  <2>3. \A u \in Tasks : pc[u] # "unpack"
    BY <1>1, <1>2, Alone, Zenon DEF Pulling
  <2>4. unpacked \/ Killed
    BY <1>3, <2>3, Zenon DEF Whole, FileWhole
  <2>5. ImageType'
    BY <1>1, <1>3, <2>1, Moved, Zenon DEF Whole, ImageType
  <2>6. Locked' /\ Gated'
    BY <1>2, <1>3, <2>1, LockKept, Zenon
  <2>7. FileWhole' /\ GoldenWhole'
    BY <1>1, <1>3, <2>1, <2>2, <2>4, FileKept, GoldenKept, Zenon
  <2> QED
    BY <1>1, <2>2, <2>5, <2>6, <2>7, RootKept, Zenon DEF Whole
<1>4. CASE /\ file' = [file EXCEPT !["qcow2"] = manifest[t]]
           /\ Goto(t, "unpack") /\ NoFault
           /\ UNCHANGED <<registry, manifest, pullLock, rootGate>>
  <2>1. "unpack" \in Labels /\ "unpack" \notin Filling
    BY Zenon DEF Labels, Pulling, Filling
  <2>2. happened \subseteq happened'
    BY <1>4, NotRecorded, Zenon
  <2>3. ImageType'
    BY <1>1, <1>4, <2>1, Moved, Zenon DEF Whole, ImageType, Layers
  <2>4. Locked' /\ Gated'
    BY <1>2, <1>4, <2>1, LockKept, Zenon
  <2>5. FileWhole'
    BY <1>1, <1>4, <2>1, <2>2, Moved, History, Zenon DEF Whole, FileWhole, Unpacked
  <2>6. GoldenWhole'
    BY <1>1, <1>4, <2>1, <2>2, GoldenKept, Zenon
  <2> QED
    BY <1>1, <2>2, <2>3, <2>4, <2>5, <2>6, RootKept, Zenon DEF Whole
<1>5. CASE (Fault("net") \/ Fault("spawn")) /\ ImageFails(t) /\ UNCHANGED file
  BY <1>1, <1>5, Recorded, WholeFails, Zenon
<1> QED
  BY <1>3, <1>4, <1>5, Zenon DEF PullRootfs

\* Unpacking ends with a complete file or with none, or is on record.
LEMMA WholeUnpack ==
  ASSUME Whole, NEW t \in Tasks, Unpack(t) PROVE Whole'
<1>1. pc[t] = "unpack" /\ UNCHANGED <<golden, root, booted>>
  BY Zenon DEF Unpack
<1>2. pc[t] \in Pulling
  BY <1>1, Zenon DEF Pulling
<1>3. \A u \in Tasks : u # t => pc[u] # "unpack" /\ pc[u] \notin Unpacked
  BY <1>2, Alone, Zenon DEF Pulling
<1>4. CASE /\ unpacked' = TRUE
           /\ Goto(t, "vmlinuz") /\ NoFault
           /\ UNCHANGED <<file, registry, manifest, pullLock, rootGate>>
  <2>1. "vmlinuz" \in Labels /\ "vmlinuz" \notin Filling
    BY Zenon DEF Labels, Pulling, Unpacked, Filling
  <2>2. happened \subseteq happened'
    BY <1>4, NotRecorded, Zenon
  <2>3. ImageType'
    BY <1>1, <1>4, <2>1, Moved, Zenon DEF Whole, ImageType
  <2>4. Locked' /\ Gated'
    BY <1>2, <1>4, <2>1, LockKept, Zenon
  <2>5. FileWhole'
    BY <1>4, Zenon DEF FileWhole
  <2>6. GoldenWhole'
    BY <1>1, <1>4, <2>1, <2>2, GoldenKept, Zenon
  <2> QED
    BY <1>1, <2>2, <2>3, <2>4, <2>5, <2>6, RootKept, Zenon DEF Whole
<1>5. CASE /\ Fault("convert") /\ ImageFails(t)
           /\ file' = [file EXCEPT !["qcow2"] = 0] /\ UNCHANGED unpacked
  <2>1. happened \subseteq happened'
    BY <1>5, Recorded, Zenon
  <2>2. ImageType'
    BY <1>1, <1>5, Failing, Zenon DEF Whole, ImageType, Layers
  <2>3. file'["qcow2"] = 0
    BY <1>5, Zenon DEF Whole, ImageType, Layers
  <2>4. FileWhole'
    BY <1>3, <1>5, <2>1, <2>3, Failing, Moved, Zenon DEF Whole, FileWhole
  <2>5. GoldenWhole'
    BY <1>1, <1>5, <2>1, Failing, GoldenKept, Zenon
  <2> QED
    BY <1>1, <1>5, <2>1, <2>2, <2>4, <2>5, Failing, RootKept, Zenon DEF Whole
<1>6. CASE Fault("torn") /\ ImageFails(t) /\ UNCHANGED <<file, unpacked>>
  <2>1. happened \subseteq happened' /\ Killed'
    BY <1>6, Recorded, Zenon DEF Killed
  <2>2. ImageType'
    BY <1>1, <1>6, Failing, Zenon DEF Whole, ImageType
  <2>3. FileWhole'
    BY <2>1, Zenon DEF FileWhole
  <2>4. GoldenWhole'
    BY <1>1, <1>6, <2>1, Failing, GoldenKept, Zenon
  <2> QED
    BY <1>1, <1>6, <2>1, <2>2, <2>3, <2>4, Failing, RootKept, Zenon DEF Whole
<1> QED
  BY <1>4, <1>5, <1>6, Zenon DEF Unpack

\* The kernel and the initrd leave the rootfs layer alone.
LEMMA WholePullBoot ==
  ASSUME Whole, NEW t \in Tasks, NEW l \in {"vmlinuz", "initrd"}, NEW n \in {"initrd", "size"},
         PullBoot(t, l, n)
  PROVE  Whole'
<1>1. pc[t] = l /\ UNCHANGED <<unpacked, golden, root, booted>>
  BY Zenon DEF PullBoot
<1>2. pc[t] \in Pulling /\ pc[t] \in Unpacked
  BY <1>1, Zenon DEF Pulling, Unpacked
<1>3. CASE /\ file' = [file EXCEPT ![l] = IF @ = 0 THEN manifest[t] ELSE @]
           /\ Goto(t, n) /\ NoFault
           /\ UNCHANGED <<registry, manifest, pullLock, rootGate>>
  <2>1. n \in Labels /\ n \notin Filling
    BY Zenon DEF Labels, Pulling, Unpacked, Filling
  <2>2. happened \subseteq happened'
    BY <1>3, NotRecorded, Zenon
  <2>3. unpacked \/ Killed
    BY <1>2, Zenon DEF Whole, FileWhole
  <2>4. ImageType' /\ file'["qcow2"] = file["qcow2"]
    BY <1>1, <1>3, <2>1, Moved, Zenon DEF Whole, ImageType, Layers
  <2>5. Locked' /\ Gated'
    BY <1>2, <1>3, <2>1, LockKept, Zenon
  <2>6. FileWhole' /\ GoldenWhole'
    BY <1>1, <1>3, <2>1, <2>2, <2>3, <2>4, FileKept, GoldenKept, Zenon
  <2> QED
    BY <1>1, <2>2, <2>4, <2>5, <2>6, RootKept, Zenon DEF Whole
<1>4. CASE Fault("net") /\ ImageFails(t) /\ UNCHANGED file
  BY <1>1, <1>4, Recorded, WholeFails, Zenon
<1> QED
  BY <1>3, <1>4, Zenon DEF PullBoot

\* A puller that is done with the image gives the permits back.
LEMMA Finishing ==
  ASSUME Whole, NEW t \in Tasks, Goto(t, "checks"), Released(t)
  PROVE  /\ Locked' /\ Gated' /\ pc' \in [Tasks -> Labels]
         /\ "checks" \in Labels /\ "checks" \notin Unpacked
<1>1. "checks" \in Away /\ "checks" \in Labels /\ "checks" \notin Unpacked
  BY Zenon DEF Away, Labels, Unpacked
<1> QED
  BY <1>1, LockDropped, Moved, Zenon DEF Whole

\* The size of the image and the unlocked look at the golden volume.
LEMMA WholeSizeImage ==
  ASSUME Whole, NEW t \in Tasks, SizeImage(t) PROVE Whole'
<1>1. /\ pc[t] = "size" /\ UNCHANGED <<file, unpacked, golden, root, booted>>
      /\ happened' = happened
  BY NotRecorded, Zenon DEF SizeImage
<1>2. CASE /\ Goto(t, IF golden.ro THEN "checks" ELSE "gate")
           /\ pullLock' = IF golden.ro THEN Freed(pullLock, t) ELSE pullLock
           /\ manifest' = [manifest EXCEPT ![t] = 0]
           /\ UNCHANGED <<registry, rootGate>>
  <2>1. manifest' \in [Tasks -> Nat]
    BY <1>2, Zenon DEF Whole, ImageType
  <2>2. CASE golden.ro
    <3>1. Goto(t, "checks") /\ pullLock' = Freed(pullLock, t) /\ rootGate' = rootGate
      BY <1>2, <2>2, Zenon
    <3>2. /\ "checks" \in Labels /\ "checks" \notin Unpacked
          /\ "checks" \notin Pulling /\ "checks" \notin Filling
      BY Zenon DEF Labels, Away, Pulling, Unpacked, Filling
    <3>3. Locked' /\ Gated'
      BY <3>1, <3>2, Moved, ZenonT(60) DEF Whole, Locked, Gated, Freed
    <3>4. ImageType'
      BY <1>1, <1>2, <2>1, <3>1, <3>2, Moved, Zenon DEF Whole, ImageType
    <3>5. FileWhole' /\ GoldenWhole'
      BY <1>1, <3>1, <3>2, FileKept, GoldenKept, Zenon
    <3> QED
      BY <1>1, <3>3, <3>4, <3>5, RootKept, Zenon DEF Whole
  <2>3. CASE ~golden.ro
    <3>1. Goto(t, "gate") /\ UNCHANGED <<pullLock, rootGate>>
      BY <1>2, <2>3, Zenon
    <3>2. "gate" \in Labels /\ "gate" \notin Filling /\ pc[t] \in Pulling /\ pc[t] \in Unpacked
      BY <1>1, Zenon DEF Labels, Pulling, Unpacked, Filling
    <3>3. Locked' /\ Gated'
      BY <3>1, <3>2, LockKept, Zenon
    <3>4. ImageType'
      BY <1>1, <1>2, <2>1, <3>1, <3>2, Moved, Zenon DEF Whole, ImageType
    <3>5. FileWhole' /\ GoldenWhole'
      BY <1>1, <3>1, <3>2, FileKept, GoldenKept, Zenon DEF Whole, FileWhole
    <3> QED
      BY <1>1, <3>3, <3>4, <3>5, RootKept, Zenon DEF Whole
  <2> QED
    BY <2>2, <2>3, Zenon
<1>3. CASE ImageFails(t)
  BY <1>1, <1>3, WholeFails, Zenon
<1> QED
  BY <1>2, <1>3, Zenon DEF SizeImage

\* A golden volume is begun by the holder of the permit, who will fill it.
LEMMA WholeMakeGolden ==
  ASSUME Whole, NEW t \in Tasks, MakeGolden(t) PROVE Whole'
<1>1. pc[t] = "gate" /\ UNCHANGED <<file, unpacked, root, booted>>
  BY Zenon DEF MakeGolden
<1>2. pc[t] \in Pulling /\ pc[t] \in Unpacked
  BY <1>1, Zenon DEF Pulling, Unpacked
<1>3. CASE /\ Released(t) /\ Goto(t, "checks") /\ NoFault
           /\ UNCHANGED <<golden, registry, manifest>>
  <2>1. happened \subseteq happened'
    BY <1>3, NotRecorded, Zenon
  <2>2. ImageType' /\ Locked' /\ Gated'
    BY <1>1, <1>3, Finishing, Zenon DEF Whole, ImageType
  <2>3. FileWhole' /\ GoldenWhole'
    BY <1>1, <1>3, <2>1, Finishing, FileKept, GoldenKept, Zenon
  <2> QED
    BY <1>1, <2>1, <2>2, <2>3, RootKept, Zenon DEF Whole
<1>4. CASE /\ rootGate = NoTask
           /\ rootGate' = t /\ golden' = [NoGolden EXCEPT !.made = TRUE]
           /\ Goto(t, "fill") /\ NoFault /\ UNCHANGED <<registry, manifest, pullLock>>
  <2>1. happened \subseteq happened'
    BY <1>4, NotRecorded, Zenon
  <2>2. "fill" \in Labels
    BY Zenon DEF Labels, Pulling, Unpacked
  <2>3. ImageType'
    BY <1>1, <1>4, <2>2, Moved, Zenon DEF Whole, ImageType, NoGolden
  <2>4. Locked' /\ Gated'
    BY <1>2, <1>4, <2>2, Moved, Alone, Zenon DEF Whole, Locked, Gated
  <2>5. FileWhole'
    BY <1>1, <1>2, <1>4, <2>1, <2>2, FileKept, Zenon DEF Whole, FileWhole
  <2>6. GoldenWhole'
    BY <1>4, <2>2, Moved, Zenon DEF Whole, GoldenWhole
  <2> QED
    BY <1>1, <2>1, <2>3, <2>4, <2>5, <2>6, RootKept, Zenon DEF Whole
<1>5. CASE Fault("lvm") /\ golden' \in {golden, NoGolden} /\ ImageFails(t)
  <2>1. happened \subseteq happened'
    BY <1>5, Recorded, Zenon
  <2>2. CASE golden' = golden
    BY <1>1, <1>5, <2>1, <2>2, WholeFails, Zenon
  <2>3. CASE golden' = NoGolden
    <3>1. ImageType'
      BY <1>1, <1>5, <2>3, Failing, Zenon DEF Whole, ImageType, NoGolden
    <3>2. FileWhole'
      BY <1>1, <1>5, <2>1, Failing, FileKept, Zenon
    <3>3. GoldenWhole'
      BY <2>3, Zenon DEF GoldenWhole, NoGolden
    <3> QED
      BY <1>1, <1>5, <2>1, <3>1, <3>2, <3>3, Failing, RootKept, Zenon DEF Whole
  <2> QED
    BY <1>5, <2>2, <2>3, Zenon
<1>6. CASE Fault("busy") /\ ImageFails(t) /\ UNCHANGED golden
  BY <1>1, <1>6, Recorded, WholeFails, Zenon
<1> QED
  BY <1>3, <1>4, <1>5, <1>6, Zenon DEF MakeGolden

\* A golden volume is filled from a complete file.
LEMMA WholeFillGolden ==
  ASSUME Whole, NEW t \in Tasks, FillGolden(t) PROVE Whole'
<1>1. pc[t] = "fill" /\ UNCHANGED <<file, unpacked, root, booted>>
  BY Zenon DEF FillGolden
<1>2. pc[t] \in Pulling /\ pc[t] \in Unpacked /\ pc[t] \in Filling
  BY <1>1, Zenon DEF Pulling, Unpacked, Filling
<1>3. unpacked \/ Killed
  BY <1>2, Zenon DEF Whole, FileWhole
<1>4. CASE /\ golden' = [golden EXCEPT !.from = file["qcow2"], !.whole = unpacked]
           /\ Goto(t, "seal") /\ NoFault
           /\ UNCHANGED <<registry, manifest, pullLock, rootGate>>
  <2>1. happened \subseteq happened'
    BY <1>4, NotRecorded, Zenon
  <2>2. "seal" \in Labels
    BY Zenon DEF Labels, Pulling, Unpacked
  <2>3. ImageType'
    BY <1>1, <1>4, <2>2, Moved, Zenon DEF Whole, ImageType, Layers
  <2>4. Locked' /\ Gated'
    BY <1>2, <1>4, <2>2, LockKept, Zenon
  <2>5. FileWhole'
    BY <1>1, <1>3, <1>4, <2>1, <2>2, FileKept, Zenon
  <2>6. GoldenWhole'
    <3>1. golden'.whole = unpacked
      BY <1>4, Zenon DEF Whole, ImageType
    <3>2. Killed => Torn'
      BY <2>1, Zenon DEF Killed, Torn
    <3> QED
      BY <1>3, <3>1, <3>2, Zenon DEF GoldenWhole
  <2> QED
    BY <1>1, <2>1, <2>3, <2>4, <2>5, <2>6, RootKept, Zenon DEF Whole
<1>5. CASE Fault("convert") /\ golden' = NoGolden /\ ImageFails(t)
  <2>1. happened \subseteq happened'
    BY <1>5, Recorded, Zenon
  <2>2. ImageType'
    BY <1>1, <1>5, Failing, Zenon DEF Whole, ImageType, NoGolden
  <2>3. FileWhole'
    BY <1>1, <1>5, <2>1, Failing, FileKept, Zenon
  <2>4. GoldenWhole'
    BY <1>5, Zenon DEF GoldenWhole, NoGolden
  <2> QED
    BY <1>1, <1>5, <2>1, <2>2, <2>3, <2>4, Failing, RootKept, Zenon DEF Whole
<1>6. CASE (Fault("spawn") \/ Fault("torn")) /\ ImageFails(t) /\ UNCHANGED golden
  <2>1. happened \subseteq happened' /\ Torn'
    BY <1>6, Recorded, Zenon DEF Torn
  <2>2. ImageType'
    BY <1>1, <1>6, Failing, Zenon DEF Whole, ImageType
  <2>3. FileWhole'
    BY <1>1, <1>6, <2>1, Failing, FileKept, Zenon
  <2>4. GoldenWhole'
    BY <2>1, Zenon DEF GoldenWhole
  <2> QED
    BY <1>1, <1>6, <2>1, <2>2, <2>3, <2>4, Failing, RootKept, Zenon DEF Whole
<1> QED
  BY <1>4, <1>5, <1>6, Zenon DEF FillGolden

\* Sealing it changes only its permission.
LEMMA WholeSealGolden ==
  ASSUME Whole, NEW t \in Tasks, SealGolden(t) PROVE Whole'
<1>1. pc[t] = "seal" /\ UNCHANGED <<file, unpacked, root, booted>>
  BY Zenon DEF SealGolden
<1>2. CASE /\ golden' = [golden EXCEPT !.ro = TRUE]
           /\ Released(t) /\ Goto(t, "checks") /\ NoFault /\ UNCHANGED <<registry, manifest>>
  <2>1. happened \subseteq happened'
    BY <1>2, NotRecorded, Zenon
  <2>2. ImageType' /\ Locked' /\ Gated'
    BY <1>1, <1>2, Finishing, Zenon DEF Whole, ImageType
  <2>3. FileWhole'
    BY <1>1, <1>2, <2>1, Finishing, FileKept, Zenon
  <2>4. golden'.made = golden.made /\ golden'.whole = golden.whole
    BY <1>2, Zenon DEF Whole, ImageType
  <2>5. GoldenWhole'
    BY <1>1, <1>2, <2>1, <2>4, Finishing, Moved, History, Zenon DEF Whole, GoldenWhole
  <2> QED
    BY <1>1, <2>1, <2>2, <2>3, <2>5, RootKept, Zenon DEF Whole
<1>3. CASE Fault("lvm") /\ ImageFails(t) /\ UNCHANGED golden
  BY <1>1, <1>3, Recorded, WholeFails, Zenon
<1> QED
  BY <1>2, <1>3, Zenon DEF SealGolden

\* Under the permit nobody fills the golden volume, so a copy of it is complete.
LEMMA CopyWhole ==
  ASSUME Whole, rootGate = NoTask, golden.made
  PROVE  GoldenCopy \in Volume /\ GoldenCopy # NoVolume /\ (GoldenCopy.whole \/ Torn)
<1>1. \A u \in Tasks : pc[u] # "fill"
  BY Alone, Zenon DEF Filling
<1> QED
  BY <1>1, Zenon DEF Whole, ImageType, GoldenWhole, GoldenCopy, Volume, NoVolume

\* The rootfs volume of a VM that does not run is replaced.
LEMMA RootReplaced ==
  ASSUME Whole, NEW v \in VMs, ~InUse(v), happened \subseteq happened', UNCHANGED booted,
         root' = [root EXCEPT ![v] = NoVolume]
            \/ (rootGate = NoTask /\ golden.made /\ root' = [root EXCEPT ![v] = GoldenCopy])
  PROVE  root' \in [VMs -> Volume] /\ RootWhole'
<1>1. ~booted[v]
  BY Zenon DEF Whole, RootWhole, InUse
<1>2. CASE root' = [root EXCEPT ![v] = NoVolume]
  <2>1. NoVolume \in Volume
    BY Zenon DEF NoVolume, Volume
  <2> QED
    BY <1>1, <1>2, <2>1, History, Zenon DEF Whole, ImageType, RootWhole
<1>3. CASE rootGate = NoTask /\ golden.made /\ root' = [root EXCEPT ![v] = GoldenCopy]
  <2>1. GoldenCopy \in Volume /\ GoldenCopy # NoVolume /\ (GoldenCopy.whole \/ Torn)
    BY <1>3, CopyWhole, Zenon
  <2>2. \A w \in VMs : root'[w] = IF w = v THEN GoldenCopy ELSE root[w]
    BY <1>3, Zenon DEF Whole, ImageType
  <2>3. root' \in [VMs -> Volume]
    BY <1>3, <2>1, Zenon DEF Whole, ImageType
  <2> QED
    BY <1>1, <2>1, <2>2, <2>3, History, Zenon DEF Whole, RootWhole
<1> QED
  BY <1>2, <1>3, Zenon

\* create_vm_rootfs keeps Whole.
LEMMA WholeSnapshotRoot ==
  ASSUME Whole, NEW t \in Tasks, SnapshotRoot(t) PROVE Whole'
<1> DEFINE v == VmOf(t)
<1>0. v \in VMs
  BY VmOfType, Zenon
<1>1. pc[t] = "snapshot" /\ UNCHANGED <<file, unpacked, golden, booted>>
  BY Zenon DEF SnapshotRoot
<1> HIDE DEF v
<1>2. CASE /\ rootGate = NoTask /\ golden.made /\ ~InUse(v)
           /\ root' = [root EXCEPT ![v] = GoldenCopy]
           /\ Goto(t, "disks") /\ NoFault
           /\ UNCHANGED <<registry, manifest, pullLock, rootGate>>
  <2>1. happened \subseteq happened'
    BY <1>2, NotRecorded, Zenon
  <2>2. /\ "disks" \in Labels /\ "disks" \notin Pulling
        /\ "disks" \notin Filling /\ "disks" \notin Unpacked
    BY Zenon DEF Labels, Away, Pulling, Unpacked, Filling
  <2>3. root' \in [VMs -> Volume] /\ RootWhole'
    BY <1>0, <1>1, <1>2, <2>1, RootReplaced, Zenon
  <2>4. ImageType'
    BY <1>1, <1>2, <2>2, <2>3, Moved, Zenon DEF Whole, ImageType
  <2>5. Locked' /\ Gated'
    BY <1>2, <2>2, LockKept, Zenon
  <2>6. FileWhole' /\ GoldenWhole'
    BY <1>1, <1>2, <2>1, <2>2, FileKept, GoldenKept, Zenon
  <2> QED
    BY <2>3, <2>4, <2>5, <2>6, Zenon DEF Whole
<1>3. CASE /\ rootGate = NoTask /\ ~InUse(v)
           /\ (~golden.made /\ NoFault) \/ Fault("lvm")
           /\ \E r \in {NoVolume} \cup {x \in {GoldenCopy} : golden.made} :
                 root' = [root EXCEPT ![v] = r]
           /\ ImageFails(t)
  <2>1. happened \subseteq happened'
    BY <1>3, NotRecorded, Recorded, Zenon
  <2>2. root' = [root EXCEPT ![v] = NoVolume]
          \/ (golden.made /\ root' = [root EXCEPT ![v] = GoldenCopy])
    BY <1>3, Zenon
  <2>3. root' \in [VMs -> Volume] /\ RootWhole'
    BY <1>0, <1>1, <1>3, <2>1, <2>2, RootReplaced, Zenon
  <2>4. ImageType'
    BY <1>1, <1>3, <2>3, Failing, Zenon DEF Whole, ImageType
  <2>5. FileWhole' /\ GoldenWhole'
    BY <1>1, <1>3, <2>1, Failing, FileKept, GoldenKept, Zenon
  <2> QED
    BY <1>3, <2>3, <2>4, <2>5, Failing, Zenon DEF Whole
<1>4. CASE /\ NoFault \/ Fault("busy")
           /\ ImageFails(t) /\ UNCHANGED root
  BY <1>1, <1>4, NotRecorded, Recorded, WholeFails, Zenon
<1> QED
  BY <1>2, <1>3, <1>4, Zenon DEF SnapshotRoot, v

\* delete_vm's stop of the hypervisor keeps Whole.
LEMMA WholeStopVm ==
  ASSUME Whole, NEW t \in Tasks, StopVm(t) PROVE Whole'
<1>1. /\ pc[t] = "undo" /\ Goto(t, "rmroot") /\ UNCHANGED imageVars
      /\ happened \subseteq happened'
      /\ booted' = booted \/ booted' = [booted EXCEPT ![VmOf(t)] = FALSE]
  BY NotRecorded, Recorded, Zenon DEF StopVm
<1>2. UNCHANGED <<registry, file, unpacked, manifest, golden, root, pullLock, rootGate>>
  BY <1>1, Zenon DEF imageVars
<1>3. /\ "rmroot" \in Labels /\ "rmroot" \notin Pulling
      /\ "rmroot" \notin Filling /\ "rmroot" \notin Unpacked
  BY Zenon DEF Labels, Away, Pulling, Unpacked, Filling
<1>4. booted' \in [VMs -> BOOLEAN] /\ \A w \in VMs : booted'[w] => booted[w]
  BY <1>1, VmOfType, Zenon DEF Whole, ImageType
<1>5. ImageType'
  BY <1>1, <1>2, <1>3, <1>4, Moved, Zenon DEF Whole, ImageType
<1>6. Locked' /\ Gated'
  BY <1>1, <1>2, <1>3, LockKept, Zenon
<1>7. FileWhole' /\ GoldenWhole'
  BY <1>1, <1>2, <1>3, FileKept, GoldenKept, Zenon
<1>8. RootWhole'
  BY <1>1, <1>2, <1>4, History, Zenon DEF Whole, RootWhole
<1> QED
  BY <1>5, <1>6, <1>7, <1>8, Zenon DEF Whole

\* remove_vm_rootfs keeps Whole: lvremove spares a volume in use.
LEMMA WholeRemoveRoot ==
  ASSUME Whole, NEW t \in Tasks, RemoveRoot(t) PROVE Whole'
<1> DEFINE v == VmOf(t)
<1>0. v \in VMs
  BY VmOfType, Zenon
<1>1. /\ pc[t] = "rmroot"
      /\ UNCHANGED <<registry, file, unpacked, manifest, golden, pullLock, rootGate, booted>>
  BY Zenon DEF RemoveRoot
<1> HIDE DEF v
<1>2. CASE /\ ~InUse(v)
           /\ root' = [root EXCEPT ![v] = NoVolume]
           /\ Goto(t, "release") /\ NoFault
  <2>1. happened \subseteq happened'
    BY <1>2, NotRecorded, Zenon
  <2>2. /\ "release" \in Labels /\ "release" \notin Pulling
        /\ "release" \notin Filling /\ "release" \notin Unpacked
    BY Zenon DEF Labels, Away, Pulling, Unpacked, Filling
  <2>3. root' \in [VMs -> Volume] /\ RootWhole'
    BY <1>0, <1>1, <1>2, <2>1, RootReplaced, Zenon
  <2>4. ImageType'
    BY <1>1, <1>2, <2>2, <2>3, Moved, Zenon DEF Whole, ImageType
  <2>5. Locked' /\ Gated'
    BY <1>1, <1>2, <2>2, LockKept, Zenon
  <2>6. FileWhole' /\ GoldenWhole'
    BY <1>1, <1>2, <2>1, <2>2, FileKept, GoldenKept, Zenon
  <2> QED
    BY <2>3, <2>4, <2>5, <2>6, Zenon DEF Whole
<1>3. CASE /\ NoFault \/ Fault("lvm") \/ Fault("busy")
           /\ Goto(t, "idle") /\ UNCHANGED root
  <2>1. happened \subseteq happened'
    BY <1>3, NotRecorded, Recorded, Zenon
  <2>2. pc[t] \in Away /\ "idle" \in Away /\ "idle" \in Labels
    BY <1>1, Zenon DEF Away, Labels
  <2>3. UNCHANGED <<imageVars, booted>>
    BY <1>1, <1>3, Zenon DEF imageVars
  <2> QED
    BY <1>3, <2>1, <2>2, <2>3, WholeElsewhere, Zenon
<1> QED
  BY <1>2, <1>3, Zenon DEF RemoveRoot, InUse, v

-----------------------------------------------------------------------------
(* The other steps. *)

\* The hypervisor starts from the volume that is there.
LEMMA WholeBoot ==
  ASSUME Whole, NEW t \in Tasks, Boot(t) PROVE Whole'
<1>1. pc[t] = "boot" /\ UNCHANGED imageVars
  BY Zenon DEF Boot
<1>2. UNCHANGED <<registry, file, unpacked, manifest, golden, root, pullLock, rootGate>>
  BY <1>1, Zenon DEF imageVars
<1>3. CASE /\ booted' = [booted EXCEPT ![VmOf(t)] =
                            root[VmOf(t)] # NoVolume /\ DisksOf(VmOf(t)) \subseteq volumes]
           /\ Goto(t, "idle") /\ NoFault
  <2>1. happened' = happened
    BY <1>3, NotRecorded, Zenon
  <2>2. /\ "idle" \in Labels /\ "idle" \notin Pulling
        /\ "idle" \notin Filling /\ "idle" \notin Unpacked
    BY Zenon DEF Labels, Away, Pulling, Unpacked, Filling
  <2>3. /\ booted' \in [VMs -> BOOLEAN]
        /\ \A w \in VMs : booted'[w] => booted[w] \/ root[w] # NoVolume
    BY <1>3, VmOfType, Zenon DEF Whole, ImageType
  <2>4. ImageType'
    BY <1>2, <1>3, <2>2, <2>3, Moved, Zenon DEF Whole, ImageType
  <2>5. Locked' /\ Gated'
    BY <1>2, <1>3, <2>2, LockKept, Zenon
  <2>6. FileWhole' /\ GoldenWhole'
    BY <1>1, <1>2, <1>3, <2>1, <2>2, FileKept, GoldenKept, Zenon
  <2>7. RootWhole'
    BY <1>2, <2>1, <2>3, History, Zenon DEF Whole, RootWhole
  <2> QED
    BY <2>4, <2>5, <2>6, <2>7, Zenon DEF Whole
<1>4. CASE Fault("boot") /\ Goto(t, "undo") /\ UNCHANGED booted
  <2>1. pc[t] \in Away /\ "undo" \in Away /\ "undo" \in Labels
    BY <1>1, Zenon DEF Away, Labels
  <2> QED
    BY <1>1, <1>4, <2>1, Recorded, WholeElsewhere, Zenon
<1> QED
  BY <1>3, <1>4, Zenon DEF Boot, DisksFail

\* A restart of the agent ends every task; it is on record.
LEMMA WholeCrash == ASSUME Whole, Crash PROVE Whole'
<1>1. /\ Killed' /\ Torn' /\ pc' = [t \in Tasks |-> "idle"] /\ manifest' = [t \in Tasks |-> 0]
      /\ UNCHANGED <<registry, file, unpacked, golden, root, booted>>
  BY Recorded, Zenon DEF Crash, Killed, Torn
<1>2. "idle" \in Labels /\ "idle" \notin Pulling /\ "idle" \notin Filling
  BY Zenon DEF Labels, Away, Pulling, Unpacked, Filling
<1>3. ImageType'
  BY <1>1, <1>2, Zenon DEF Whole, ImageType
<1>4. Locked' /\ Gated'
  BY <1>1, <1>2, Zenon DEF Locked, Gated
<1>5. FileWhole' /\ GoldenWhole' /\ RootWhole'
  BY <1>1, Zenon DEF Whole, FileWhole, GoldenWhole, RootWhole
<1> QED
  BY <1>3, <1>4, <1>5, Zenon DEF Whole

\* A new publication changes nothing on the host.
LEMMA WholePublish == ASSUME Whole, Publish PROVE Whole'
<1>1. /\ registry' = registry + 1
      /\ UNCHANGED <<file, unpacked, manifest, golden, root, pullLock, rootGate>>
      /\ UNCHANGED <<pc, booted, happened>>
  BY Zenon DEF Publish, taskVars
<1>2. ImageType'
  BY <1>1 DEF Whole, ImageType
<1>3. Locked' /\ Gated' /\ FileWhole' /\ GoldenWhole' /\ RootWhole'
  BY <1>1, Zenon DEF Whole, Locked, Gated, FileWhole, GoldenWhole, RootWhole, Killed, Torn
<1> QED
  BY <1>2, <1>3, Zenon DEF Whole

\* The start of a task is a step away from the image.
LEMMA Starts ==
  ASSUME ImageType, NEW v \in VMs, CreateVm(v) \/ DeleteVm(v) \/ SweepVolumes(v)
  PROVE  /\ happened' = happened /\ UNCHANGED <<imageVars, booted>>
         /\ \E t \in Tasks, l \in Away : pc[t] = "idle" /\ Goto(t, l)
<1>1. <<"create", v>> \in Tasks /\ <<"delete", v>> \in Tasks /\ <<"sweep", v>> \in Tasks
  BY Zenon DEF Tasks
<1>2. CASE CreateVm(v)
  BY <1>1, <1>2, Zenon DEF CreateVm, Idle, Away
<1>3. CASE DeleteVm(v)
  BY <1>1, <1>3, Zenon DEF DeleteVm, Idle, Away
<1>4. CASE SweepVolumes(v)
  BY <1>1, <1>4, Zenon DEF SweepVolumes, Idle, Away
<1> QED
  BY <1>2, <1>3, <1>4, Zenon

\* Whole is inductive.
LEMMA WholeNext == Whole /\ [Next]_vars => Whole'
<1> SUFFICES ASSUME Whole, [Next]_vars PROVE Whole'
  OBVIOUS
<1>1. ASSUME NEW v \in VMs, CreateVm(v) \/ DeleteVm(v) \/ SweepVolumes(v) PROVE Whole'
  <2>1. PICK t \in Tasks, l \in Away : pc[t] = "idle" /\ Goto(t, l)
    BY <1>1, Starts, Zenon DEF Whole
  <2>2. pc[t] \in Away /\ l \in Labels
    BY <2>1, Zenon DEF Away, Labels
  <2> QED
    BY <1>1, <2>1, <2>2, Starts, WholeElsewhere, Zenon DEF Whole
<1>2. ASSUME NEW t \in Tasks, ImageStep(t) PROVE Whole'
  BY <1>2, WholeFastPath, WholeLockImage, WholeFetchManifest, WholePullRootfs, WholeUnpack,
     WholePullBoot, WholeSizeImage, WholeMakeGolden, WholeFillGolden, WholeSealGolden,
     WholeSnapshotRoot, WholeStopVm, WholeRemoveRoot, Zenon DEF ImageStep
<1>3. ASSUME NEW t \in Tasks, DiskStep(t), UNCHANGED imageVars PROVE Whole'
  <2>1. PICK l \in Away : Goto(t, l)
    BY <1>3, DiskMoves, Zenon DEF Whole
  <2> QED
    BY <1>3, <2>1, DiskMoves, WholeElsewhere, Zenon DEF Whole, Labels
<1>4. ASSUME NEW t \in Tasks, TaskStep(t) PROVE Whole'
  BY <1>2, <1>3, <1>4, WholeBoot, Zenon DEF TaskStep
<1>5. CASE UNCHANGED vars
  <2>1. UNCHANGED <<pc, booted, happened, registry, file, unpacked, manifest, golden, root,
                    pullLock, rootGate>>
    BY <1>5, Zenon DEF vars, taskVars, imageVars
  <2> QED
    BY <2>1, Zenon DEF Whole, ImageType, Locked, Gated, FileWhole, GoldenWhole, RootWhole, Killed, Torn
<1> QED
  BY <1>1, <1>4, <1>5, WholePublish, WholeCrash, Zenon DEF Next

\* An empty host is whole.
LEMMA WholeInit == Init => Whole
<1> SUFFICES ASSUME Init PROVE Whole
  OBVIOUS
<1>1. "idle" \in Labels /\ NoVolume \in Volume
  BY Zenon DEF Labels, Away, NoVolume, Volume
<1>2. ImageType
  <2>1. pc \in [Tasks -> Labels] /\ booted \in [VMs -> BOOLEAN] /\ root \in [VMs -> Volume]
    BY <1>1, Zenon DEF Init, TaskInit, ImageInit
  <2>2. golden \in [made : BOOLEAN, from : Nat, whole : BOOLEAN, ro : BOOLEAN]
    BY Zenon DEF Init, ImageInit, NoGolden
  <2>3. file \in [Layers -> Nat] /\ manifest \in [Tasks -> Nat] /\ registry \in Nat \ {0}
    BY DEF Init, ImageInit
  <2> QED
    BY <2>1, <2>2, <2>3, Zenon DEF Init, ImageInit, ImageType
<1>3. Locked /\ Gated /\ FileWhole
  BY Zenon DEF Init, TaskInit, ImageInit, Locked, Gated, FileWhole, Pulling, Unpacked, Filling, Layers
<1>4. GoldenWhole /\ RootWhole
  BY Zenon DEF Init, TaskInit, ImageInit, GoldenWhole, RootWhole, NoGolden, NoVolume
<1> QED
  BY <1>2, <1>3, <1>4, Zenon DEF Whole

\* While nobody pulls, the qcow2 file in the cache is complete, short of a crash
\* (pull_oci, decompress_qcow2_in_place).
THEOREM CacheIsWhole == Spec => []CacheWhole
<1>1. Whole => CacheWhole
  BY Alone, Zenon DEF Whole, FileWhole, CacheWhole, Killed, Pulling
<1> QED
  BY <1>1, WholeInit, WholeNext, PTL DEF Spec

\* A VM that runs boots from a complete copy of the image, whoever pulled,
\* converted and failed at the same time (ensure_cached, ensure_image_lv,
\* create_vm_rootfs), short of a crash, of a converter that cannot be started, and
\* of one that fails and whose output cannot be removed.
THEOREM RootfsIsWhole == Spec => []WholeRootfs
<1>1. Whole => WholeRootfs
  BY Zenon DEF Whole, RootWhole, WholeRootfs, Torn
<1> QED
  BY <1>1, WholeInit, WholeNext, PTL DEF Spec

-----------------------------------------------------------------------------
(***************************************************************************)
(* The layers a VM boots from are of one publication of its image, for any *)
(* number of VMs, of publications and of faults.                           *)
(*                                                                         *)
(* Alike says where a puller stands: it has pulled, from the publication   *)
(* whose manifest it read, what its label says and nothing more, so that   *)
(* without a puller the cache is empty or of one publication, and every    *)
(* volume is of that one.  It is inductive beside Whole, which says that   *)
(* there is one puller at a time.                                          *)
(***************************************************************************)

Mixed == happened \cap {"net", "spawn", "crash", "torn"} # {}

\* All layers are there and of one publication.
OneImage == Cached /\ \A l \in Layers : file[l] = file["qcow2"]

NoImage == \A l \in Layers : file[l] = 0

\* What the files are while a puller is at a label.
PulledBy(t) ==
    /\ pc[t] \in {"manifest", "qcow2"} => NoImage
    /\ pc[t] \in {"qcow2", "unpack", "vmlinuz", "initrd"} => manifest[t] # 0
    /\ pc[t] \in {"unpack", "vmlinuz", "initrd"} => file["qcow2"] = manifest[t]
    /\ pc[t] \in {"unpack", "vmlinuz"} => file["vmlinuz"] = 0
    /\ pc[t] = "initrd" => file["vmlinuz"] = manifest[t]
    /\ pc[t] \in {"unpack", "vmlinuz", "initrd"} => file["initrd"] = 0
    /\ pc[t] \in {"size", "gate", "fill", "seal"} => OneImage

PulledSoFar == \A t \in Tasks : PulledBy(t)

\* Without a puller the cache is empty or complete.
AllOrNothing ==
    NoImage \/ OneImage \/ \E t \in Tasks : pc[t] \in {"unpack", "vmlinuz", "initrd"}

\* The volumes are of the publication that is cached.
VolumesMatch ==
    /\ golden.made =>
          /\ OneImage
          /\ golden.from = file["qcow2"] \/ \E t \in Tasks : pc[t] = "fill"
    /\ \A v \in VMs : root[v] # NoVolume => OneImage /\ root[v].from = file["qcow2"]

Alike == Mixed \/ (PulledSoFar /\ AllOrNothing /\ VolumesMatch)

-----------------------------------------------------------------------------
\* OneImage and NoImage layer by layer.
LEMMA ByLayer ==
  /\ OneImage <=> /\ file["qcow2"] # 0 /\ file["vmlinuz"] = file["qcow2"]
                  /\ file["initrd"] = file["qcow2"]
  /\ NoImage <=> file["qcow2"] = 0 /\ file["vmlinuz"] = 0 /\ file["initrd"] = 0
  BY Zenon DEF OneImage, NoImage, Cached, Layers

\* What happened stays on record.
LEMMA StaysMixed == ASSUME happened \subseteq happened', Mixed PROVE Mixed'
  BY Zenon DEF Mixed

\* A failed download, a tool that cannot be started, one that leaves its output
\* behind and a crash are excepted.
LEMMA Excepted ==
  ASSUME Fault("net") \/ Fault("spawn") \/ Fault("crash") \/ Fault("torn") PROVE Alike'
  BY Recorded, Zenon DEF Alike, Mixed

\* A step of a task that leaves files and volumes alone, from a label that says
\* nothing of them to one that says no more than is known.
LEMMA AlikeKept ==
  ASSUME Whole, Alike, NEW t \in Tasks, NEW l \in Labels, Goto(t, l),
         pc[t] \notin {"unpack", "vmlinuz", "initrd", "fill"},
         l \notin {"manifest", "qcow2", "unpack", "vmlinuz", "initrd"},
         l \in {"size", "gate", "fill", "seal"} => OneImage \/ Mixed,
         \A u \in Tasks : u # t => manifest'[u] = manifest[u],
         happened \subseteq happened', UNCHANGED <<file, golden, root>>
  PROVE  Alike'
<1> SUFFICES ASSUME ~Mixed PROVE Alike'
  BY StaysMixed, Zenon DEF Alike
<1>1. (OneImage' <=> OneImage) /\ (NoImage' <=> NoImage)
  BY Zenon DEF OneImage, NoImage, Cached
<1>2. pc'[t] = l /\ \A u \in Tasks : u # t => pc'[u] = pc[u]
  BY Moved, Zenon DEF Whole
<1>3. PulledSoFar'
  BY <1>1, <1>2, Zenon DEF Alike, PulledSoFar, PulledBy
<1>4. AllOrNothing'
  BY <1>1, <1>2, Zenon DEF Alike, AllOrNothing
<1>5. VolumesMatch'
  BY <1>1, <1>2, Zenon DEF Alike, VolumesMatch
<1> QED
  BY <1>3, <1>4, <1>5, Zenon DEF Alike

\* In particular a step away from the image, and a failure.
LEMMA AlikeElsewhere ==
  ASSUME Whole, Alike, NEW t \in Tasks, NEW l \in Away, Goto(t, l), pc[t] \in Away,
         happened \subseteq happened', UNCHANGED <<file, golden, root, manifest>>
  PROVE  Alike'
<1>1. /\ l \in Labels /\ l \notin {"manifest", "qcow2", "unpack", "vmlinuz", "initrd"}
      /\ l \notin {"size", "gate", "fill", "seal"}
      /\ pc[t] \notin {"unpack", "vmlinuz", "initrd", "fill"}
  BY Zenon DEF Away, Labels
<1> QED
  BY <1>1, AlikeKept, Zenon

\* A failure that leaves files and volumes as they were keeps Alike.
LEMMA AlikeFails ==
  ASSUME Whole, Alike, NEW t \in Tasks, ImageFails(t),
         pc[t] \notin {"unpack", "vmlinuz", "initrd", "fill"},
         happened \subseteq happened', UNCHANGED <<file, golden, root>>
  PROVE  Alike'
<1>1. \A u \in Tasks : u # t => manifest'[u] = manifest[u]
  BY Zenon DEF ImageFails, Whole, ImageType
<1> QED
  BY <1>1, Failing, AlikeKept, Zenon

\* ensure_cached's unlocked look keeps Alike.
LEMMA AlikeFastPath ==
  ASSUME Whole, Alike, NEW t \in Tasks, FastPath(t) PROVE Alike'
<1>1. pc[t] = "ensure" /\ happened' = happened
  BY NotRecorded, Zenon DEF FastPath
<1>2. CASE UNCHANGED imageVars /\ \E l \in Away : Goto(t, l)
  BY <1>1, <1>2, AlikeElsewhere, Zenon DEF Away, imageVars
<1>3. CASE ImageFails(t) /\ UNCHANGED <<file, unpacked, golden, root>>
  BY <1>1, <1>3, AlikeFails, Zenon
<1> QED
  BY <1>2, <1>3, Zenon DEF FastPath, Away

\* Who gets the lock finds the cache complete or empty.
LEMMA AlikeLockImage ==
  ASSUME Whole, Alike, NEW t \in Tasks, LockImage(t) PROVE Alike'
<1>1. /\ pc[t] = "lock" /\ pullLock = NoTask /\ happened' = happened
      /\ UNCHANGED <<file, golden, root, manifest>>
      /\ Goto(t, IF Cached THEN "size" ELSE "manifest")
  BY NotRecorded, Zenon DEF LockImage
<1>2. "size" \in Labels /\ "manifest" \in Labels
  BY Zenon DEF Labels, Pulling, Unpacked
<1>3. \A u \in Tasks : pc[u] \notin Pulling
  BY <1>1, Alone, Zenon
<1>4. Mixed \/ NoImage \/ OneImage
  BY <1>3, Zenon DEF Alike, AllOrNothing, Pulling, Unpacked
<1>5. CASE Cached
  <2>1. Mixed \/ OneImage
    BY <1>4, <1>5, ByLayer, Zenon DEF Cached, Layers
  <2> QED
    BY <1>1, <1>2, <1>5, <2>1, AlikeKept, Zenon
<1>6. CASE ~Cached /\ ~Mixed
  <2>1. NoImage /\ ~OneImage
    BY <1>4, <1>6, Zenon DEF OneImage
  <2>2. pc'[t] = "manifest" /\ \A u \in Tasks : u # t => pc'[u] = pc[u]
    BY <1>1, <1>2, <1>6, Moved, Zenon DEF Whole
  <2>3. NoImage' /\ (OneImage' <=> OneImage)
    BY <1>1, <2>1, Zenon DEF OneImage, NoImage, Cached
  <2>4. PulledSoFar'
    BY <1>1, <1>3, <2>2, <2>3, Zenon DEF PulledSoFar, PulledBy, Pulling, Unpacked
  <2>5. AllOrNothing'
    BY <2>3, Zenon DEF AllOrNothing
  <2>6. VolumesMatch'
    BY <1>1, <1>6, <2>1, <2>2, <2>3, Zenon DEF Alike, VolumesMatch
  <2> QED
    BY <2>4, <2>5, <2>6, Zenon DEF Alike
<1>7. CASE Mixed
  BY <1>1, <1>7, StaysMixed, Zenon DEF Alike
<1> QED
  BY <1>5, <1>6, <1>7, Zenon

-----------------------------------------------------------------------------
(* The steps of a puller. *)

\* Until the last layer is there, there is no volume.
LEMMA NoVolumesYet ==
  ASSUME Whole, Alike, ~Mixed, NEW t \in Tasks,
         pc[t] \in {"manifest", "qcow2", "unpack", "vmlinuz", "initrd"}
  PROVE  PulledBy(t) /\ ~golden.made /\ \A v \in VMs : root[v] = NoVolume
<1>1. PulledBy(t) /\ VolumesMatch
  BY Zenon DEF Alike, PulledSoFar
<1>2. ~OneImage
  BY <1>1, ByLayer, Zenon DEF PulledBy
<1> QED
  BY <1>1, <1>2, Zenon DEF VolumesMatch

\* A step of a puller before that: what it says of the files is all there is to show.
LEMMA AlikePulls ==
  ASSUME Whole, Alike, ~Mixed, NEW t \in Tasks, NEW l \in Labels, Goto(t, l),
         pc[t] \in {"manifest", "qcow2", "unpack", "vmlinuz", "initrd"},
         UNCHANGED <<golden, root>>, PulledBy(t)', AllOrNothing'
  PROVE  Alike'
<1>1. \A u \in Tasks : u # t => pc[u] \notin Pulling /\ pc'[u] = pc[u]
  BY Alone, Moved, Zenon DEF Whole, Pulling, Unpacked
<1>2. \A u \in Tasks : u # t => PulledBy(u)'
  BY <1>1, Zenon DEF PulledBy, Pulling, Unpacked
<1>3. VolumesMatch'
  BY NoVolumesYet, Zenon DEF VolumesMatch
<1> QED
  BY <1>2, <1>3, Zenon DEF Alike, PulledSoFar

\* The manifest is of a publication.
LEMMA AlikeFetchManifest ==
  ASSUME Whole, Alike, NEW t \in Tasks, FetchManifest(t) PROVE Alike'
<1>1. pc[t] = "manifest" /\ UNCHANGED <<file, unpacked, golden, root, booted>>
  BY Zenon DEF FetchManifest
<1>2. CASE /\ manifest' = [manifest EXCEPT ![t] = registry]
           /\ Goto(t, "qcow2") /\ NoFault
  <2>1. happened' = happened
    BY <1>2, NotRecorded, Zenon
  <2>2. CASE ~Mixed
    <3>1. "qcow2" \in Labels
      BY Zenon DEF Labels, Pulling
    <3>2. pc'[t] = "qcow2" /\ manifest'[t] # 0
      BY <1>2, <3>1, Moved, Zenon DEF Whole, ImageType
    <3>3. NoImage'
      BY <1>1, <2>2, NoVolumesYet, Zenon DEF PulledBy, NoImage
    <3>4. PulledBy(t)' /\ AllOrNothing'
      BY <3>2, <3>3, Zenon DEF PulledBy, AllOrNothing
    <3> QED
      BY <1>1, <1>2, <2>2, <3>1, <3>4, AlikePulls, Zenon
  <2> QED
    BY <2>1, <2>2, StaysMixed, Zenon DEF Alike
<1>3. CASE Fault("net")
  BY <1>3, Excepted, Zenon
<1> QED
  BY <1>2, <1>3, Zenon DEF FetchManifest

\* The first layer is written into an empty cache.
LEMMA AlikePullRootfs ==
  ASSUME Whole, Alike, NEW t \in Tasks, PullRootfs(t) PROVE Alike'
<1>1. pc[t] = "qcow2" /\ UNCHANGED <<unpacked, golden, root, booted>>
  BY Zenon DEF PullRootfs
<1>2. CASE file["qcow2"] # 0 /\ NoFault
  <2>1. Mixed
    BY <1>1, <1>2, NoVolumesYet, ByLayer, Zenon DEF PulledBy
  <2> QED
    BY <1>2, <2>1, NotRecorded, StaysMixed, Zenon DEF Alike
<1>3. CASE /\ file' = [file EXCEPT !["qcow2"] = manifest[t]]
           /\ Goto(t, "unpack") /\ NoFault /\ manifest' = manifest
  <2>1. happened' = happened
    BY <1>3, NotRecorded, Zenon
  <2>2. CASE ~Mixed
    <3>1. "unpack" \in Labels
      BY Zenon DEF Labels, Pulling
    <3>2. pc'[t] = "unpack"
      BY <1>3, <3>1, Moved, Zenon DEF Whole
    <3>3. NoImage /\ manifest[t] # 0
      BY <1>1, <2>2, NoVolumesYet, Zenon DEF PulledBy
    <3>4. file'["qcow2"] = manifest[t] /\ file'["vmlinuz"] = 0 /\ file'["initrd"] = 0
      BY <1>3, <3>3, ByLayer, Zenon DEF Whole, ImageType, Layers
    <3>5. PulledBy(t)' /\ AllOrNothing'
      BY <1>3, <3>2, <3>3, <3>4, Zenon DEF PulledBy, AllOrNothing
    <3> QED
      BY <1>1, <1>3, <2>2, <3>1, <3>5, AlikePulls, Zenon
  <2> QED
    BY <2>1, <2>2, StaysMixed, Zenon DEF Alike
<1>4. CASE Fault("net") \/ Fault("spawn")
  BY <1>4, Excepted, Zenon
<1> QED
  BY <1>2, <1>3, <1>4, Zenon DEF PullRootfs

\* A failed conversion empties the cache again.
LEMMA AlikeUnpack ==
  ASSUME Whole, Alike, NEW t \in Tasks, Unpack(t) PROVE Alike'
<1>1. pc[t] = "unpack" /\ UNCHANGED <<golden, root, booted>>
  BY Zenon DEF Unpack
<1>2. CASE Goto(t, "vmlinuz") /\ NoFault /\ UNCHANGED <<file, manifest>>
  <2>1. happened' = happened
    BY <1>2, NotRecorded, Zenon
  <2>2. CASE ~Mixed
    <3>1. "vmlinuz" \in Labels
      BY Zenon DEF Labels, Pulling, Unpacked
    <3>2. pc'[t] = "vmlinuz"
      BY <1>2, <3>1, Moved, Zenon DEF Whole
    <3>3. PulledBy(t)' /\ AllOrNothing'
      BY <1>1, <1>2, <2>2, <3>2, NoVolumesYet, Zenon DEF PulledBy, AllOrNothing
    <3> QED
      BY <1>1, <1>2, <2>2, <3>1, <3>3, AlikePulls, Zenon
  <2> QED
    BY <2>1, <2>2, StaysMixed, Zenon DEF Alike
<1>3. CASE Fault("convert") /\ ImageFails(t) /\ file' = [file EXCEPT !["qcow2"] = 0]
  <2>1. happened \subseteq happened'
    BY <1>3, Recorded, Zenon
  <2>2. CASE ~Mixed
    <3>1. pc'[t] = "undo"
      BY <1>3, Failing, Moved, Zenon DEF Whole
    <3>2. file'["qcow2"] = 0 /\ file'["vmlinuz"] = 0 /\ file'["initrd"] = 0
      BY <1>1, <1>3, <2>2, NoVolumesYet, Zenon DEF PulledBy, Whole, ImageType, Layers
    <3>3. PulledBy(t)' /\ AllOrNothing'
      BY <3>1, <3>2, Zenon DEF PulledBy, AllOrNothing, NoImage, Layers
    <3> QED
      BY <1>1, <1>3, <2>2, <3>3, Failing, AlikePulls, Zenon
  <2> QED
    BY <2>1, <2>2, StaysMixed, Zenon DEF Alike
<1>4. CASE Fault("torn")
  BY <1>4, Excepted, Zenon
<1> QED
  BY <1>2, <1>3, <1>4, Zenon DEF Unpack

\* Kernel and initrd come from the manifest the rootfs came from.
LEMMA AlikePullBoot ==
  ASSUME Whole, Alike, NEW t \in Tasks,
         PullBoot(t, "vmlinuz", "initrd") \/ PullBoot(t, "initrd", "size")
  PROVE  Alike'
<1>1. CASE Fault("net")
  BY <1>1, Excepted, Zenon
<1>2. CASE Mixed /\ NoFault
  BY <1>2, NotRecorded, StaysMixed, Zenon DEF Alike
<1>3. ASSUME ~Mixed, NEW l, NEW n \in Labels, pc[t] = l,
             <<l, n>> \in {<<"vmlinuz", "initrd">>, <<"initrd", "size">>},
             file' = [file EXCEPT ![l] = IF @ = 0 THEN manifest[t] ELSE @],
             Goto(t, n), UNCHANGED <<manifest, golden, root>>
      PROVE  Alike'
  <2>1. pc'[t] = n
    BY <1>3, Moved, Zenon DEF Whole
  <2>2. /\ manifest[t] # 0 /\ file["qcow2"] = manifest[t] /\ file["initrd"] = 0
        /\ (l = "vmlinuz" => file["vmlinuz"] = 0) /\ (l = "initrd" => file["vmlinuz"] = manifest[t])
    BY <1>3, NoVolumesYet, Zenon DEF PulledBy
  <2>3. CASE l = "vmlinuz"
    <3>1. /\ file'["qcow2"] = manifest[t] /\ file'["vmlinuz"] = manifest[t]
          /\ file'["initrd"] = 0 /\ n = "initrd"
      BY <1>3, <2>2, <2>3, Zenon DEF Whole, ImageType, Layers
    <3>2. PulledBy(t)' /\ AllOrNothing'
      BY <1>3, <2>1, <2>2, <3>1, Zenon DEF PulledBy, AllOrNothing
    <3> QED
      BY <1>3, <3>2, AlikePulls, Zenon
  <2>4. CASE l = "initrd"
    <3>1. /\ file'["qcow2"] = manifest[t] /\ file'["vmlinuz"] = manifest[t]
          /\ file'["initrd"] = manifest[t] /\ n = "size"
      BY <1>3, <2>2, <2>4, Zenon DEF Whole, ImageType, Layers
    <3>2. OneImage'
      BY <2>2, <3>1, Zenon DEF OneImage, Cached, Layers
    <3>3. PulledBy(t)' /\ AllOrNothing'
      BY <2>1, <3>1, <3>2, Zenon DEF PulledBy, AllOrNothing
    <3> QED
      BY <1>3, <3>3, AlikePulls, Zenon
  <2> QED
    BY <1>3, <2>3, <2>4, Zenon
<1>4. "initrd" \in Labels /\ "size" \in Labels
  BY Zenon DEF Labels, Pulling, Unpacked
<1> QED
  BY <1>1, <1>2, <1>3, <1>4, Zenon DEF PullBoot

\* The puller that knows the cache complete goes on to the golden volume.
LEMMA AlikeSizeImage ==
  ASSUME Whole, Alike, NEW t \in Tasks, SizeImage(t) PROVE Alike'
<1>1. pc[t] = "size" /\ UNCHANGED <<file, golden, root>> /\ happened' = happened
  BY NotRecorded, Zenon DEF SizeImage
<1>2. OneImage \/ Mixed
  BY <1>1, Zenon DEF Alike, PulledSoFar, PulledBy
<1>3. CASE /\ Goto(t, IF golden.ro THEN "checks" ELSE "gate")
           /\ manifest' = [manifest EXCEPT ![t] = 0]
  <2>1. "checks" \in Labels /\ "gate" \in Labels
    BY Zenon DEF Labels, Away, Pulling, Unpacked
  <2>2. \A u \in Tasks : u # t => manifest'[u] = manifest[u]
    BY <1>3, Zenon DEF Whole, ImageType
  <2>3. CASE golden.ro
    BY <1>1, <1>3, <2>1, <2>2, <2>3, AlikeKept, Zenon
  <2>4. CASE ~golden.ro
    BY <1>1, <1>2, <1>3, <2>1, <2>2, <2>4, AlikeKept, Zenon
  <2> QED
    BY <2>3, <2>4, Zenon
<1>4. CASE ImageFails(t)
  BY <1>1, <1>4, AlikeFails, Zenon
<1> QED
  BY <1>3, <1>4, Zenon DEF SizeImage

\* A step of the task that works on the golden volume: the cache is complete.
LEMMA AlikeGolden ==
  ASSUME Whole, Alike, ~Mixed, NEW t \in Tasks, NEW l \in Labels, Goto(t, l),
         pc[t] \in {"gate", "fill", "seal"},
         l \in {"fill", "seal"} \cup Away, UNCHANGED <<file, root>>,
         golden'.made => golden'.from = file["qcow2"] \/ l = "fill"
  PROVE  Alike'
<1>1. pc'[t] = l /\ \A u \in Tasks : u # t => pc[u] \notin Pulling /\ pc'[u] = pc[u]
  BY Alone, Moved, Zenon DEF Whole, Pulling, Unpacked
<1>2. OneImage /\ OneImage'
  BY Zenon DEF Alike, PulledSoFar, PulledBy, OneImage, Cached
<1>3. PulledSoFar'
  BY <1>1, <1>2, Zenon DEF PulledSoFar, PulledBy, Pulling, Unpacked, Away
<1>4. AllOrNothing'
  BY <1>2, Zenon DEF AllOrNothing
<1>5. VolumesMatch'
  BY <1>1, <1>2, Zenon DEF Alike, VolumesMatch
<1> QED
  BY <1>3, <1>4, <1>5, Zenon DEF Alike

\* What the task that has the permit knows of the golden volume.
LEMMA GoldenFrom ==
  ASSUME Whole, Alike, ~Mixed, golden.made, \A u \in Tasks : pc[u] # "fill"
  PROVE  OneImage /\ golden.from = file["qcow2"]
  BY Zenon DEF Alike, VolumesMatch

\* ensure_image_lv's first part keeps Alike.
LEMMA AlikeMakeGolden ==
  ASSUME Whole, Alike, NEW t \in Tasks, MakeGolden(t) PROVE Alike'
<1>1. pc[t] = "gate" /\ UNCHANGED <<file, root>>
  BY Zenon DEF MakeGolden
<1>2. happened \subseteq happened'
  BY NotRecorded, Recorded, Zenon DEF MakeGolden
<1>3. "fill" \in Labels /\ "checks" \in Labels /\ "undo" \in Labels /\ "undo" \in Away
  BY Zenon DEF Labels, Away, Pulling, Unpacked
<1>4. CASE Goto(t, "checks") /\ UNCHANGED <<golden, manifest>>
  BY <1>1, <1>2, <1>3, <1>4, AlikeKept, Zenon
<1>5. CASE Goto(t, "fill") /\ ~Mixed
  BY <1>1, <1>3, <1>5, AlikeGolden, Zenon
<1>6. CASE ImageFails(t) /\ golden' = golden
  BY <1>1, <1>2, <1>6, AlikeFails, Zenon
<1>7. CASE ImageFails(t) /\ golden' = NoGolden /\ ~Mixed
  <2>1. ~golden'.made
    BY <1>7, Zenon DEF NoGolden
  <2> QED
    BY <1>1, <1>3, <1>7, <2>1, Failing, AlikeGolden, Zenon
<1>8. CASE Mixed
  BY <1>2, <1>8, StaysMixed, Zenon DEF Alike
<1> QED
  BY <1>4, <1>5, <1>6, <1>7, <1>8, Zenon DEF MakeGolden

\* The golden volume is filled from the cached file.
LEMMA AlikeFillGolden ==
  ASSUME Whole, Alike, NEW t \in Tasks, FillGolden(t) PROVE Alike'
<1>1. pc[t] = "fill" /\ UNCHANGED <<file, root>>
  BY Zenon DEF FillGolden
<1>2. "seal" \in Labels /\ "undo" \in Labels /\ "undo" \in Away
  BY Zenon DEF Labels, Away, Pulling, Unpacked
<1>3. CASE /\ golden' = [golden EXCEPT !.from = file["qcow2"], !.whole = unpacked]
           /\ Goto(t, "seal") /\ NoFault
  <2>1. golden'.from = file["qcow2"]
    BY <1>3, Zenon DEF Whole, ImageType
  <2>2. ~Mixed => Alike'
    BY <1>1, <1>2, <1>3, <2>1, AlikeGolden, Zenon
  <2> QED
    BY <1>3, <2>2, NotRecorded, StaysMixed, Zenon DEF Alike
<1>4. CASE Fault("convert") /\ golden' = NoGolden /\ ImageFails(t)
  <2>1. ~golden'.made
    BY <1>4, Zenon DEF NoGolden
  <2>2. ~Mixed => Alike'
    BY <1>1, <1>2, <1>4, <2>1, Failing, AlikeGolden, Zenon
  <2> QED
    BY <1>4, <2>2, Recorded, StaysMixed, Zenon DEF Alike
<1>5. CASE Fault("spawn") \/ Fault("torn")
  BY <1>5, Excepted, Zenon
<1> QED
  BY <1>3, <1>4, <1>5, Zenon DEF FillGolden

\* lvchange keeps Alike.
LEMMA AlikeSealGolden ==
  ASSUME Whole, Alike, NEW t \in Tasks, SealGolden(t) PROVE Alike'
<1>1. pc[t] = "seal" /\ UNCHANGED <<file, root>>
  BY Zenon DEF SealGolden
<1>2. CASE golden' = [golden EXCEPT !.ro = TRUE] /\ Goto(t, "checks") /\ NoFault
  <2>1. golden'.made = golden.made /\ golden'.from = golden.from
    BY <1>2, Zenon DEF Whole, ImageType
  <2>2. "checks" \in Labels /\ "checks" \in Away
    BY Zenon DEF Labels, Away
  <2>3. \A u \in Tasks : pc[u] # "fill"
    BY <1>1, Alone, Zenon DEF Filling
  <2>4. ~Mixed => Alike'
    BY <1>1, <1>2, <2>1, <2>2, <2>3, GoldenFrom, AlikeGolden, Zenon
  <2> QED
    BY <1>2, <2>4, NotRecorded, StaysMixed, Zenon DEF Alike
<1>3. CASE Fault("lvm") /\ ImageFails(t) /\ UNCHANGED golden
  BY <1>1, <1>3, Recorded, AlikeFails, Zenon
<1> QED
  BY <1>2, <1>3, Zenon DEF SealGolden

-----------------------------------------------------------------------------
(* The volumes of VMs. *)

\* A rootfs volume is replaced by none, or by a copy of a finished golden volume.
LEMMA AlikeRoot ==
  ASSUME Whole, Alike, NEW t \in Tasks, NEW l \in Away, Goto(t, l), pc[t] \in Away,
         NEW v \in VMs, happened \subseteq happened', UNCHANGED <<file, golden>>,
         \A u \in Tasks : u # t => manifest'[u] = manifest[u],
         root' = [root EXCEPT ![v] = NoVolume]
            \/ (rootGate = NoTask /\ golden.made /\ root' = [root EXCEPT ![v] = GoldenCopy])
  PROVE  Alike'
<1> SUFFICES ASSUME ~Mixed PROVE Alike'
  BY StaysMixed, Zenon DEF Alike
<1>1. (OneImage' <=> OneImage) /\ (NoImage' <=> NoImage)
  BY Zenon DEF OneImage, NoImage, Cached
<1>2. pc'[t] = l /\ \A u \in Tasks : u # t => pc'[u] = pc[u]
  BY Moved, Zenon DEF Whole, Labels
<1>3. PulledSoFar'
  BY <1>1, <1>2, Zenon DEF Alike, PulledSoFar, PulledBy, Away
<1>4. AllOrNothing'
  BY <1>1, <1>2, Zenon DEF Alike, AllOrNothing, Away
<1>5. \A w \in VMs : root'[w] # NoVolume => OneImage /\ root'[w].from = file["qcow2"]
  <2>1. \A w \in VMs : root[w] # NoVolume => OneImage /\ root[w].from = file["qcow2"]
    BY Zenon DEF Alike, VolumesMatch
  <2>2. CASE root' = [root EXCEPT ![v] = NoVolume]
    BY <2>1, <2>2, Zenon DEF Whole, ImageType
  <2>3. CASE rootGate = NoTask /\ golden.made /\ root' = [root EXCEPT ![v] = GoldenCopy]
    <3>1. OneImage /\ golden.from = file["qcow2"]
      BY <2>3, Alone, GoldenFrom, Zenon DEF Filling
    <3>2. GoldenCopy.from = golden.from
      BY Zenon DEF GoldenCopy
    <3>3. \A w \in VMs : root'[w] = IF w = v THEN GoldenCopy ELSE root[w]
      BY <2>3, Zenon DEF Whole, ImageType
    <3> QED
      BY <2>1, <3>1, <3>2, <3>3, Zenon
  <2> QED
    BY <2>2, <2>3, Zenon
<1>6. VolumesMatch'
  BY <1>1, <1>2, <1>5, Zenon DEF Alike, VolumesMatch, Away
<1> QED
  BY <1>3, <1>4, <1>6, Zenon DEF Alike

\* create_vm_rootfs keeps Alike.
LEMMA AlikeSnapshotRoot ==
  ASSUME Whole, Alike, NEW t \in Tasks, SnapshotRoot(t) PROVE Alike'
<1> DEFINE v == VmOf(t)
<1>0. v \in VMs
  BY VmOfType, Zenon
<1>1. pc[t] = "snapshot" /\ UNCHANGED <<file, golden>>
  BY Zenon DEF SnapshotRoot
<1>2. "disks" \in Away /\ "undo" \in Away /\ pc[t] \in Away
  BY <1>1, Zenon DEF Away
<1> HIDE DEF v
<1>3. CASE /\ rootGate = NoTask /\ golden.made /\ root' = [root EXCEPT ![v] = GoldenCopy]
           /\ Goto(t, "disks") /\ NoFault /\ manifest' = manifest
  BY <1>0, <1>1, <1>2, <1>3, NotRecorded, AlikeRoot, Zenon
<1>4. CASE /\ rootGate = NoTask
           /\ NoFault \/ Fault("lvm")
           /\ \E r \in {NoVolume} \cup {x \in {GoldenCopy} : golden.made} :
                 root' = [root EXCEPT ![v] = r]
           /\ ImageFails(t)
  <2>1. happened \subseteq happened'
    BY <1>4, NotRecorded, Recorded, Zenon
  <2>2. \A u \in Tasks : u # t => manifest'[u] = manifest[u]
    BY <1>4, Zenon DEF ImageFails, Whole, ImageType
  <2>3. root' = [root EXCEPT ![v] = NoVolume]
          \/ (golden.made /\ root' = [root EXCEPT ![v] = GoldenCopy])
    BY <1>4, Zenon
  <2> QED
    BY <1>0, <1>1, <1>2, <1>4, <2>1, <2>2, <2>3, Failing, AlikeRoot, Zenon
<1>5. CASE (NoFault \/ Fault("busy")) /\ ImageFails(t) /\ UNCHANGED root
  BY <1>1, <1>5, NotRecorded, Recorded, AlikeFails, Zenon
<1> QED
  BY <1>3, <1>4, <1>5, Zenon DEF SnapshotRoot, v

\* remove_vm_rootfs keeps Alike.
LEMMA AlikeRemoveRoot ==
  ASSUME Whole, Alike, NEW t \in Tasks, RemoveRoot(t) PROVE Alike'
<1>1. pc[t] = "rmroot" /\ UNCHANGED <<file, golden, manifest>> /\ VmOf(t) \in VMs
  BY VmOfType, Zenon DEF RemoveRoot
<1>2. happened \subseteq happened'
  BY NotRecorded, Recorded, Zenon DEF RemoveRoot
<1>3. pc[t] \in Away /\ "release" \in Away /\ "idle" \in Away
  BY <1>1, Zenon DEF Away
<1>4. CASE root' = [root EXCEPT ![VmOf(t)] = NoVolume] /\ Goto(t, "release")
  BY <1>1, <1>2, <1>3, <1>4, AlikeRoot, Zenon
<1>5. CASE Goto(t, "idle") /\ UNCHANGED root
  BY <1>1, <1>2, <1>3, <1>5, AlikeElsewhere, Zenon
<1> QED
  BY <1>4, <1>5, Zenon DEF RemoveRoot

\* Stopping and starting the hypervisor leaves files and volumes alone.
LEMMA AlikeStopBoot ==
  ASSUME Whole, Alike, NEW t \in Tasks, StopVm(t) \/ Boot(t) PROVE Alike'
<1>1. UNCHANGED <<file, golden, root, manifest>>
  BY Zenon DEF StopVm, Boot, imageVars
<1>2. happened \subseteq happened'
  BY NotRecorded, Recorded, Zenon DEF StopVm, Boot
<1>3. pc[t] \in Away /\ \E l \in Away : Goto(t, l)
  BY Zenon DEF StopVm, Boot, DisksFail, Away
<1> QED
  BY <1>1, <1>2, <1>3, AlikeElsewhere, Zenon

\* A new publication changes nothing on the host.
LEMMA AlikePublish == ASSUME Alike, Publish PROVE Alike'
<1>1. UNCHANGED <<pc, happened, file, manifest, golden, root>>
  BY Zenon DEF Publish, taskVars
<1> QED
  BY <1>1, Zenon DEF Alike, Mixed, PulledSoFar, PulledBy, AllOrNothing, VolumesMatch, OneImage,
     NoImage, Cached

\* Alike is inductive beside Whole.
LEMMA AlikeNext == Whole /\ Alike /\ [Next]_vars => Alike'
<1> SUFFICES ASSUME Whole, Alike, [Next]_vars PROVE Alike'
  OBVIOUS
<1>1. ASSUME NEW v \in VMs, CreateVm(v) \/ DeleteVm(v) \/ SweepVolumes(v) PROVE Alike'
  <2>1. PICK t \in Tasks, l \in Away : pc[t] = "idle" /\ Goto(t, l)
    BY <1>1, Starts, Zenon DEF Whole
  <2>2. pc[t] \in Away /\ happened' = happened /\ UNCHANGED <<file, golden, root, manifest>>
    BY <1>1, <2>1, Starts, Zenon DEF Whole, Away, imageVars
  <2> QED
    BY <2>1, <2>2, AlikeElsewhere, Zenon
<1>2. ASSUME NEW t \in Tasks, ImageStep(t) PROVE Alike'
  BY <1>2, AlikeFastPath, AlikeLockImage, AlikeFetchManifest, AlikePullRootfs, AlikeUnpack,
     AlikePullBoot, AlikeSizeImage, AlikeMakeGolden, AlikeFillGolden, AlikeSealGolden,
     AlikeSnapshotRoot, AlikeStopBoot, AlikeRemoveRoot, Zenon DEF ImageStep
<1>3. ASSUME NEW t \in Tasks, DiskStep(t), UNCHANGED imageVars PROVE Alike'
  <2>1. PICK l \in Away : Goto(t, l)
    BY <1>3, DiskMoves, Zenon DEF Whole
  <2>2. pc[t] \in Away /\ happened \subseteq happened' /\ UNCHANGED <<file, golden, root, manifest>>
    BY <1>3, DiskMoves, Zenon DEF Whole, imageVars
  <2> QED
    BY <2>1, <2>2, AlikeElsewhere, Zenon
<1>4. ASSUME NEW t \in Tasks, TaskStep(t) PROVE Alike'
  BY <1>2, <1>3, <1>4, AlikeStopBoot, Zenon DEF TaskStep
<1>5. CASE Crash
  BY <1>5, Excepted, Zenon DEF Crash
<1>6. CASE UNCHANGED vars
  <2>1. UNCHANGED <<pc, happened, file, manifest, golden, root>>
    BY <1>6, Zenon DEF vars, taskVars, imageVars
  <2> QED
    BY <2>1, Zenon DEF Alike, Mixed, PulledSoFar, PulledBy, AllOrNothing, VolumesMatch, OneImage,
       NoImage, Cached
<1> QED
  BY <1>1, <1>4, <1>5, <1>6, AlikePublish, Zenon DEF Next

\* An empty host has nothing that could differ.
LEMMA AlikeInit == Init => Alike
<1> SUFFICES ASSUME Init PROVE Alike
  OBVIOUS
<1>1. NoImage
  BY Zenon DEF Init, ImageInit, NoImage
<1>2. \A t \in Tasks : pc[t] = "idle"
  BY Zenon DEF Init, TaskInit
<1>3. PulledSoFar
  BY <1>2, Zenon DEF PulledSoFar, PulledBy
<1>4. VolumesMatch
  BY Zenon DEF Init, ImageInit, VolumesMatch, NoGolden
<1> QED
  BY <1>1, <1>3, <1>4, Zenon DEF Alike, AllOrNothing

\* The kernel and the initrd a running VM was booted with, and its rootfs, are of
\* one publication, however often the tag moved during the pull (pull_oci reads
\* the manifest once), short of a failed download, a tool that cannot be started
\* or a crash.
THEOREM LayersAreAlike == Spec => []LayersMatch
<1>1. Whole /\ Alike => LayersMatch
  <2> SUFFICES ASSUME Whole, Alike, ~Mixed, NEW v \in VMs, booted[v]
               PROVE  \A l \in Layers : file[l] = root[v].from
    BY Zenon DEF LayersMatch, Mixed
  <2>1. root[v] # NoVolume
    BY Zenon DEF Whole, RootWhole
  <2>2. OneImage /\ root[v].from = file["qcow2"]
    BY <2>1, Zenon DEF Alike, VolumesMatch
  <2> QED
    BY <2>2, Zenon DEF OneImage
<1> QED
  BY <1>1, WholeInit, WholeNext, AlikeInit, AlikeNext, PTL DEF Spec

-----------------------------------------------------------------------------
(***************************************************************************)
(* Every data volume is in the reservation ledger, for any number of VMs,  *)
(* disks and devices and with every fault, as long as no delete overlaps   *)
(* the create of its VM.                                                   *)
(*                                                                         *)
(* Booked is the inductive invariant: lvcreate runs on a disk that has its *)
(* row (Reserved), a row is deleted when its volume is gone (Removed), and *)
(* of two tasks of a VM that work at a time, one of them its create, the   *)
(* history has a note (Apart); so nobody takes the row from under the one  *)
(* or makes the volume again behind the other.                             *)
(***************************************************************************)

\* The labels of delete_vm and of the sweep, and those at which a disk is in work.
Removal == {"idle", "undo", "rmroot", "release", "mark", "reap", "unrow", "drop"}
AtDisk == {"lvcreate", "ready", "mark", "reap", "unrow"}

LedgerType ==
    /\ pc \in [Tasks -> Labels]
    /\ ledger \in [Disks -> {"none", "Creating", "Ready", "Deleting"}]
    /\ volumes \subseteq Disks
    /\ raced \in [VMs -> BOOLEAN]
    /\ todo \in [Tasks -> SUBSET Disks]

\* A task works on disks of its VM, and at these labels there is one.
OwnDisks ==
    \A t \in Tasks : /\ \A x \in todo[t] : x[1] = VmOf(t)
                     /\ pc[t] \in AtDisk => todo[t] # {}

\* Only a create makes volumes.
Removers == \A t \in Tasks : t[1] # "create" => pc[t] \in Removal

Apart ==
    \A t, u \in Tasks :
        t[1] = "create" /\ u # t /\ VmOf(u) = VmOf(t) /\ pc[t] # "idle" /\ pc[u] # "idle"
            => raced[VmOf(t)]

Reserved ==
    \A t \in Tasks : pc[t] = "lvcreate" => ledger[Current(t)] # "none" \/ raced[VmOf(t)]

Removed ==
    \A t \in Tasks : pc[t] = "unrow" => Current(t) \notin volumes \/ raced[VmOf(t)]

Booked ==
    LedgerType /\ OwnDisks /\ Removers /\ Apart /\ Reserved /\ Removed /\ LedgerCovers

\* The labels at which a create makes volumes, and the disks it has not come to.
Making == {"snapshot", "disks", "lvcreate", "ready"}
Ahead(t) == IF pc[t] \in {"lvcreate", "ready"} THEN todo[t] \ {Current(t)} ELSE todo[t]

\* A reservation belongs to a VM with a row.
RowsOwned == \A x \in Disks : ledger[x] = "none" \/ row[x[1]] \/ raced[x[1]]

\* A create finds no reservation of its own for a disk: it has just inserted the
\* VM's row, and no row means no reservation.
Clear(t) == raced[VmOf(t)] \/ (row[VmOf(t)] /\ \A x \in Ahead(t) : ledger[x] = "none")
Unbooked == \A t \in Tasks : pc[t] \in Making => Clear(t)

\* A VM that is gone has a row only if the database failed.
GoneRow == \A v \in VMs : gone[v] => ~row[v] \/ "db" \in happened \/ raced[v]

Fresh == RowsOwned /\ Unbooked /\ GoneRow

-----------------------------------------------------------------------------
\* Among disks there is one of least index.
LEMMA LeastIndex ==
  \A T \in SUBSET (VMs \X Nat) : T # {} => \E x \in T : \A y \in T : x[2] <= y[2]
<1> SUFFICES ASSUME NEW T \in SUBSET (VMs \X Nat), T # {}
             PROVE  \E x \in T : \A y \in T : x[2] <= y[2]
  OBVIOUS
<1> DEFINE N == {x[2] : x \in T}
<1>1. N \subseteq Nat /\ N # {}
  OBVIOUS
<1>2. \E m \in N : \A n \in N : <<n, m>> \notin OpToRel(<, Nat)
  BY <1>1, WFMin, NatLessThanWellFounded, Zenon
<1>3. PICK m \in N : \A n \in N : ~(n < m)
  BY <1>1, <1>2, Zenon DEF OpToRel
<1>4. PICK x \in T : x[2] = m
  BY <1>3, Zenon
<1>5. \A y \in T : x[2] <= y[2]
  BY <1>1, <1>3, <1>4
<1> QED
  BY <1>5, Zenon

\* The disk a task works on is one of its disks.
LEMMA CurrentOwn ==
  ASSUME Booked, NEW t \in Tasks, todo[t] # {}
  PROVE  Current(t) \in todo[t] /\ Current(t) \in Disks /\ Current(t)[1] = VmOf(t)
<1>1. todo[t] \in SUBSET (VMs \X Nat) /\ todo[t] \subseteq Disks
  BY DiskAssumption, Zenon DEF Booked, LedgerType
<1>2. \E x \in todo[t] : \A y \in todo[t] : x[2] <= y[2]
  BY <1>1, LeastIndex, Zenon
<1>3. Current(t) \in todo[t]
  BY <1>2, Zenon DEF Current
<1> QED
  BY <1>1, <1>3, Zenon DEF Booked, OwnDisks

\* Two tasks of a VM differ in their kind.
LEMMA OneOfAKind ==
  ASSUME NEW t \in Tasks, NEW u \in Tasks, VmOf(t) = VmOf(u), t[1] = u[1] PROVE t = u
  BY DEF Tasks, VmOf

-----------------------------------------------------------------------------
(* A step of one task. *)

\* The move of a task that works already: kinds, overlaps and own disks stay as
\* they were, whatever becomes of the ledger and the volumes.
LEMMA TaskMoves ==
  ASSUME Booked, NEW t \in Tasks, NEW l \in Labels, Goto(t, l), UNCHANGED raced,
         pc[t] # "idle", pc[t] \in Removal => l \in Removal,
         todo' \in [Tasks -> SUBSET Disks], \A x \in todo'[t] : x[1] = VmOf(t),
         \A u \in Tasks : u # t => todo'[u] = todo[u],
         l \in AtDisk => todo'[t] # {}
  PROVE  /\ OwnDisks' /\ Removers' /\ Apart'
         /\ pc' \in [Tasks -> Labels] /\ pc'[t] = l /\ \A u \in Tasks : u # t => pc'[u] = pc[u]
<1>1. pc' \in [Tasks -> Labels] /\ pc'[t] = l /\ \A u \in Tasks : u # t => pc'[u] = pc[u]
  BY Zenon DEF Booked, LedgerType, Goto
<1>2. OwnDisks'
  BY <1>1, Zenon DEF Booked, OwnDisks
<1>3. Removers'
  BY <1>1, Zenon DEF Booked, Removers
<1>4. Apart'
  BY <1>1, Zenon DEF Booked, Apart
<1> QED
  BY <1>1, <1>2, <1>3, <1>4, Zenon

\* A move that leaves the disks alone.
LEMMA BookedMoves ==
  ASSUME Booked, NEW t \in Tasks, NEW l \in Labels, Goto(t, l),
         UNCHANGED <<ledger, volumes, todo, raced>>, pc[t] # "idle",
         pc[t] \in Removal => l \in Removal, l \notin AtDisk
  PROVE  Booked'
<1>1. todo' \in [Tasks -> SUBSET Disks] /\ \A x \in todo'[t] : x[1] = VmOf(t)
  BY Zenon DEF Booked, LedgerType, OwnDisks
<1>2. /\ OwnDisks' /\ Removers' /\ Apart'
      /\ pc' \in [Tasks -> Labels] /\ pc'[t] = l /\ \A u \in Tasks : u # t => pc'[u] = pc[u]
  BY <1>1, TaskMoves, Zenon
<1>3. LedgerType' /\ LedgerCovers'
  BY <1>2, Zenon DEF Booked, LedgerType, LedgerCovers
<1>4. Reserved' /\ Removed'
  BY <1>2 DEF Booked, Reserved, Removed, AtDisk, Current
<1> QED
  BY <1>2, <1>3, <1>4, Zenon DEF Booked

\* Of the steps that have to do with the image, none leads to a disk.
LEMMA ImageMoves ==
  ASSUME Booked, NEW t \in Tasks, ImageStep(t)
  PROVE  /\ pc[t] # "idle"
         /\ \E l \in Labels \ AtDisk : Goto(t, l) /\ (pc[t] \in Removal => l \in Removal)
<1> USE DEF Labels, Pulling, Unpacked, Away, AtDisk, Removal
<1>1. CASE FastPath(t)
  BY <1>1, Zenon DEF FastPath, ImageFails
<1>2. CASE LockImage(t)
  BY <1>2, Zenon DEF LockImage
<1>3. CASE FetchManifest(t)
  BY <1>3, Zenon DEF FetchManifest, ImageFails
<1>4. CASE PullRootfs(t)
  BY <1>4, Zenon DEF PullRootfs, ImageFails
<1>5. CASE Unpack(t)
  BY <1>5, Zenon DEF Unpack, ImageFails
<1>6. CASE PullBoot(t, "vmlinuz", "initrd") \/ PullBoot(t, "initrd", "size")
  BY <1>6, Zenon DEF PullBoot, ImageFails
<1>7. CASE SizeImage(t)
  BY <1>7, Zenon DEF SizeImage, ImageFails
<1>8. CASE MakeGolden(t)
  BY <1>8, Zenon DEF MakeGolden, ImageFails
<1>9. CASE FillGolden(t) \/ SealGolden(t)
  BY <1>9, Zenon DEF FillGolden, SealGolden, ImageFails
<1>10. CASE SnapshotRoot(t)
  BY <1>10, Zenon DEF SnapshotRoot, ImageFails
<1>11. CASE StopVm(t) \/ RemoveRoot(t)
  BY <1>11, Zenon DEF StopVm, RemoveRoot
<1> QED
  BY <1>1, <1>2, <1>3, <1>4, <1>5, <1>6, <1>7, <1>8, <1>9, <1>10, <1>11, Zenon DEF ImageStep

-----------------------------------------------------------------------------
(* create_vm on its disks *)

\* A create that fails leaves its disks to delete_vm.
LEMMA BookedDisksFail ==
  ASSUME Booked, NEW t \in Tasks, DisksFail(t), pc[t] \notin Removal, UNCHANGED <<ledger, raced>>,
         volumes' \subseteq volumes
  PROVE  Booked'
<1>1. "undo" \in Labels /\ "undo" \notin AtDisk /\ pc[t] # "idle"
  BY Zenon DEF Labels, Away, AtDisk, Removal
<1>2. /\ todo' \in [Tasks -> SUBSET Disks] /\ todo'[t] = {}
      /\ \A u \in Tasks : u # t => todo'[u] = todo[u]
  BY Zenon DEF Booked, LedgerType, DisksFail
<1>3. /\ OwnDisks' /\ Removers' /\ Apart'
      /\ pc' \in [Tasks -> Labels] /\ pc'[t] = "undo"
      /\ \A u \in Tasks : u # t => pc'[u] = pc[u]
  BY <1>1, <1>2, TaskMoves, Zenon DEF DisksFail
<1>4. LedgerType' /\ LedgerCovers'
  BY <1>2, <1>3, Zenon DEF Booked, LedgerType, LedgerCovers
<1>5. \A u \in Tasks : u # t => Current(u)' = Current(u)
  BY <1>2, Zenon DEF Current
<1>6. Reserved' /\ Removed'
  BY <1>3, <1>5, Zenon DEF Booked, Reserved, Removed
<1> QED
  BY <1>3, <1>4, <1>6, Zenon DEF Booked

\* The disk checks and the row of the VM.
LEMMA BookedInsertRow ==
  ASSUME Booked, NEW t \in Tasks, InsertRow(t), UNCHANGED raced PROVE Booked'
<1>1. pc[t] = "checks" /\ UNCHANGED <<ledger, volumes>> /\ pc[t] \notin Removal
  BY Zenon DEF InsertRow, Removal
<1>2. CASE DisksFail(t)
  BY <1>1, <1>2, BookedDisksFail, Zenon
<1>3. CASE todo' = [todo EXCEPT ![t] = DisksOf(VmOf(t))] /\ Goto(t, "snapshot")
  <2>1. "snapshot" \in Labels /\ "snapshot" \notin AtDisk /\ pc[t] # "idle"
    BY <1>1, Zenon DEF Labels, Away, AtDisk
  <2>2. /\ todo' \in [Tasks -> SUBSET Disks] /\ \A x \in todo'[t] : x[1] = VmOf(t)
        /\ \A u \in Tasks : u # t => todo'[u] = todo[u]
    BY <1>3, Zenon DEF Booked, LedgerType, DisksOf
  <2>3. /\ OwnDisks' /\ Removers' /\ Apart'
        /\ pc' \in [Tasks -> Labels] /\ pc'[t] = "snapshot"
        /\ \A u \in Tasks : u # t => pc'[u] = pc[u]
    BY <1>1, <1>3, <2>1, <2>2, TaskMoves, Zenon
  <2>4. LedgerType' /\ LedgerCovers'
    BY <1>1, <2>2, <2>3, Zenon DEF Booked, LedgerType, LedgerCovers
  <2>5. \A u \in Tasks : u # t => Current(u)' = Current(u)
    BY <2>2, Zenon DEF Current
  <2>6. Reserved' /\ Removed'
    BY <1>1, <2>3, <2>5, Zenon DEF Booked, Reserved, Removed
  <2> QED
    BY <2>3, <2>4, <2>6, Zenon DEF Booked
<1> QED
  BY <1>2, <1>3, Zenon DEF InsertRow

\* A disk gets its row before its volume.
LEMMA BookedReserve ==
  ASSUME Booked, Fresh, NEW t \in Tasks, Reserve(t), UNCHANGED raced PROVE Booked'
<1>1. pc[t] = "disks" /\ UNCHANGED volumes /\ pc[t] \notin Removal /\ pc[t] # "idle"
  BY Zenon DEF Reserve, Removal
<1>2. CASE Goto(t, "boot") /\ UNCHANGED <<ledger, todo>>
  <2>1. "boot" \in Labels /\ "boot" \notin AtDisk
    BY Zenon DEF Labels, Away, AtDisk
  <2> QED
    BY <1>1, <1>2, <2>1, BookedMoves, Zenon
<1>3. CASE todo' = [todo EXCEPT ![t] = @ \ {Current(t)}] /\ UNCHANGED <<ledger, pc>>
  <2>1. "disks" \in Labels /\ "disks" \notin AtDisk /\ Goto(t, "disks")
    BY <1>1, <1>3, Zenon DEF Labels, Away, AtDisk, Goto, Booked, LedgerType
  <2>2. /\ todo' \in [Tasks -> SUBSET Disks] /\ \A x \in todo'[t] : x[1] = VmOf(t)
        /\ \A u \in Tasks : u # t => todo'[u] = todo[u]
    BY <1>3, Zenon DEF Booked, LedgerType, OwnDisks
  <2>3. OwnDisks' /\ Removers' /\ Apart'
    BY <1>1, <2>1, <2>2, TaskMoves, Zenon
  <2>4. LedgerType' /\ LedgerCovers'
    BY <1>1, <1>3, <2>2, Zenon DEF Booked, LedgerType, LedgerCovers
  <2>5. \A u \in Tasks : u # t => Current(u)' = Current(u)
    BY <2>2, Zenon DEF Current
  <2>6. Reserved' /\ Removed'
    BY <1>1, <1>3, <2>5, Zenon DEF Booked, Reserved, Removed
  <2> QED
    BY <2>3, <2>4, <2>6, Zenon DEF Booked
<1>4. CASE /\ todo[t] # {}
           /\ ledger' = [ledger EXCEPT ![Current(t)] = "Creating"]
           /\ Goto(t, "lvcreate") /\ UNCHANGED todo
  <2>1. "lvcreate" \in Labels
    BY Zenon DEF Labels, Away
  <2>2. todo' \in [Tasks -> SUBSET Disks] /\ \A x \in todo'[t] : x[1] = VmOf(t)
    BY <1>4, Zenon DEF Booked, LedgerType, OwnDisks
  <2>3. /\ OwnDisks' /\ Removers' /\ Apart'
        /\ pc' \in [Tasks -> Labels] /\ pc'[t] = "lvcreate"
        /\ \A u \in Tasks : u # t => pc'[u] = pc[u]
    BY <1>1, <1>4, <2>1, <2>2, TaskMoves, Zenon
  <2>4. Current(t) \in Disks
    BY <1>4, CurrentOwn, Zenon
  <2>5. /\ ledger' \in [Disks -> {"none", "Creating", "Ready", "Deleting"}]
        /\ ledger'[Current(t)] # "none"
        /\ \A x \in Disks : ledger[x] # "none" => ledger'[x] # "none"
    BY <1>4, <2>4, Zenon DEF Booked, LedgerType
  <2>6. LedgerType' /\ LedgerCovers'
    BY <1>1, <1>4, <2>3, <2>5, Zenon DEF Booked, LedgerType, LedgerCovers
  <2>7. \A u \in Tasks : Current(u)' = Current(u)
    BY <1>4, Zenon DEF Current
  <2>8. \A u \in Tasks : pc[u] = "lvcreate" => Current(u) \in Disks
    BY CurrentOwn, Zenon DEF Booked, OwnDisks, AtDisk
  <2>9. Reserved' /\ Removed'
    BY <1>1, <2>3, <2>5, <2>7, <2>8, Zenon DEF Booked, Reserved, Removed
  <2> QED
    BY <2>3, <2>6, <2>9, Zenon DEF Booked
<1>5. CASE DisksFail(t) /\ UNCHANGED ledger
  BY <1>1, <1>5, BookedDisksFail, Zenon
<1>6. CASE /\ todo[t] # {} /\ DisksFail(t)
           /\ ledger' = [ledger EXCEPT ![Current(t)] = "none"]
  <2>1. Current(t) \in todo[t] /\ Current(t) \in Disks /\ Current(t)[1] = VmOf(t)
    BY <1>6, CurrentOwn, Zenon
  <2>2. t[1] = "create" /\ pc[t] \in Making /\ Ahead(t) = todo[t]
    BY <1>1, Zenon DEF Booked, Removers, Making, Ahead
  <2>3. CASE ~raced[VmOf(t)]
    <3>1. ledger[Current(t)] = "none"
      BY <2>1, <2>2, <2>3, Zenon DEF Fresh, Unbooked, Clear
    <3>2. ledger' = ledger
      BY <1>6, <3>1, Zenon DEF Booked, LedgerType
    <3> QED
      BY <1>1, <1>6, <3>2, BookedDisksFail, Zenon
  <2>4. CASE raced[VmOf(t)]
    <3>1. "undo" \in Labels /\ "undo" \notin AtDisk /\ Goto(t, "undo")
      BY <1>6, Zenon DEF Labels, Away, AtDisk, DisksFail
    <3>2. /\ todo' \in [Tasks -> SUBSET Disks] /\ todo'[t] = {}
          /\ \A u \in Tasks : u # t => todo'[u] = todo[u]
      BY <1>6, Zenon DEF Booked, LedgerType, DisksFail
    <3>3. /\ OwnDisks' /\ Removers' /\ Apart'
          /\ pc' \in [Tasks -> Labels] /\ pc'[t] = "undo"
          /\ \A u \in Tasks : u # t => pc'[u] = pc[u]
      BY <1>1, <3>1, <3>2, TaskMoves, Zenon
    <3>4. /\ ledger' \in [Disks -> {"none", "Creating", "Ready", "Deleting"}]
          /\ \A x \in Disks : x[1] # VmOf(t) => ledger'[x] = ledger[x]
      BY <1>6, <2>1, Zenon DEF Booked, LedgerType
    <3>5. LedgerType'
      BY <1>1, <3>2, <3>3, <3>4, Zenon DEF Booked, LedgerType
    <3>6. LedgerCovers'
      BY <1>1, <2>4, <3>4, Zenon DEF Booked, LedgerType, LedgerCovers
    <3>7. \A u \in Tasks : u # t => Current(u)' = Current(u)
      BY <3>2, Zenon DEF Current
    <3>8. Removed'
      BY <1>1, <3>3, <3>7, Zenon DEF Booked, Removed
    <3>9. Reserved'
      <4> SUFFICES ASSUME NEW u \in Tasks, pc'[u] = "lvcreate", ~raced'[VmOf(u)]
                   PROVE  ledger'[Current(u)'] # "none"
        BY Zenon DEF Reserved
      <4>1. u # t /\ pc[u] = "lvcreate" /\ VmOf(u) # VmOf(t)
        BY <2>4, <3>3, Zenon
      <4>2. Current(u) \in Disks /\ Current(u)[1] = VmOf(u)
        BY <4>1, CurrentOwn, Zenon DEF Booked, OwnDisks, AtDisk
      <4> QED
        BY <3>4, <3>7, <4>1, <4>2, Zenon DEF Booked, Reserved
    <3> QED
      BY <3>3, <3>5, <3>6, <3>8, <3>9, Zenon DEF Booked
  <2> QED
    BY <2>3, <2>4, Zenon
<1> QED
  BY <1>2, <1>3, <1>4, <1>5, <1>6, Zenon DEF Reserve

\* lvcreate makes a volume that has its row.
LEMMA BookedCreateVolume ==
  ASSUME Booked, NEW t \in Tasks, CreateVolume(t), UNCHANGED raced PROVE Booked'
<1>1. pc[t] = "lvcreate" /\ ledger' = ledger /\ pc[t] \notin Removal /\ pc[t] # "idle"
  BY Zenon DEF CreateVolume, Removal
<1>2. t[1] = "create"
  BY <1>1, Zenon DEF Booked, Removers
<1>3. CASE DisksFail(t) /\ volumes' \subseteq volumes
  BY <1>1, <1>3, BookedDisksFail, Zenon
<1>4. CASE volumes' = volumes \cup {Current(t)} /\ Goto(t, "ready") /\ UNCHANGED todo
  <2>1. "ready" \in Labels /\ todo[t] # {}
    BY <1>1, Zenon DEF Labels, Away, Booked, OwnDisks, AtDisk
  <2>2. Current(t) \in Disks /\ Current(t)[1] = VmOf(t)
    BY <2>1, CurrentOwn, Zenon
  <2>3. todo' \in [Tasks -> SUBSET Disks] /\ \A x \in todo'[t] : x[1] = VmOf(t)
    BY <1>4, Zenon DEF Booked, LedgerType, OwnDisks
  <2>4. /\ OwnDisks' /\ Removers' /\ Apart'
        /\ pc' \in [Tasks -> Labels] /\ pc'[t] = "ready"
        /\ \A u \in Tasks : u # t => pc'[u] = pc[u]
    BY <1>1, <1>4, <2>1, <2>3, TaskMoves, Zenon
  <2>5. LedgerType'
    BY <1>1, <1>4, <2>2, <2>4, Zenon DEF Booked, LedgerType
  <2>6. LedgerCovers'
    BY <1>1, <1>4, <2>2, Zenon DEF Booked, LedgerCovers, Reserved
  <2>7. \A u \in Tasks : Current(u)' = Current(u)
    BY <1>4, Zenon DEF Current
  <2>8. ASSUME NEW u \in Tasks, pc[u] = "unrow", Current(u) = Current(t) PROVE raced[VmOf(u)]
    <3>1. VmOf(u) = VmOf(t)
      BY <2>2, <2>8, CurrentOwn, Zenon DEF Booked, OwnDisks, AtDisk
    <3> QED
      BY <1>1, <1>2, <2>8, <3>1, Zenon DEF Booked, Apart
  <2>9. Reserved' /\ Removed'
    BY <1>1, <1>4, <2>4, <2>7, <2>8, Zenon DEF Booked, Reserved, Removed
  <2> QED
    BY <2>4, <2>5, <2>6, <2>9, Zenon DEF Booked
<1> QED
  BY <1>3, <1>4, Zenon DEF CreateVolume

\* A step of a task that may shorten its list and change rows, but leaves the
\* volumes alone and deletes no row.
LEMMA BookedRows ==
  ASSUME Booked, NEW t \in Tasks, NEW l \in Labels, Goto(t, l),
         UNCHANGED <<volumes, raced>>, pc[t] # "idle", pc[t] \in Removal => l \in Removal,
         l \notin {"lvcreate", "unrow"},
         todo' \in [Tasks -> SUBSET Disks], \A x \in todo'[t] : x[1] = VmOf(t),
         \A u \in Tasks : u # t => todo'[u] = todo[u],
         l \in AtDisk => todo'[t] # {},
         ledger' \in [Disks -> {"none", "Creating", "Ready", "Deleting"}],
         \A x \in Disks : ledger[x] # "none" => ledger'[x] # "none"
  PROVE  Booked'
<1>1. /\ OwnDisks' /\ Removers' /\ Apart'
      /\ pc' \in [Tasks -> Labels] /\ pc'[t] = l /\ \A u \in Tasks : u # t => pc'[u] = pc[u]
  BY TaskMoves, Zenon
<1>2. LedgerType' /\ LedgerCovers'
  BY <1>1, Zenon DEF Booked, LedgerType, LedgerCovers
<1>3. \A u \in Tasks : u # t => Current(u)' = Current(u)
  BY Zenon DEF Current
<1>4. \A u \in Tasks : pc[u] = "lvcreate" => Current(u) \in Disks
  BY CurrentOwn, Zenon DEF Booked, OwnDisks, AtDisk
<1>5. Reserved' /\ Removed'
  BY <1>1, <1>3, <1>4, Zenon DEF Booked, Reserved, Removed
<1> QED
  BY <1>1, <1>2, <1>5, Zenon DEF Booked

\* The row becomes Ready, if it is still there.
LEMMA BookedMarkReady ==
  ASSUME Booked, NEW t \in Tasks, MarkReady(t), UNCHANGED raced PROVE Booked'
<1>0. CASE DisksFail(t) /\ UNCHANGED ledger
  <2>1. pc[t] \notin Removal /\ UNCHANGED volumes
    BY Zenon DEF MarkReady, Removal
  <2> QED
    BY <1>0, <2>1, BookedDisksFail, Zenon
<1> SUFFICES ASSUME ~(DisksFail(t) /\ UNCHANGED ledger) PROVE Booked'
  BY <1>0, Zenon
<1>1. /\ pc[t] = "ready" /\ UNCHANGED volumes /\ Goto(t, "disks")
      /\ ledger' = [ledger EXCEPT ![Current(t)] = IF @ = "none" THEN @ ELSE "Ready"]
      /\ todo' = [todo EXCEPT ![t] = @ \ {Current(t)}]
  BY Zenon DEF MarkReady
<1>2. "disks" \in Labels /\ "disks" \notin AtDisk /\ pc[t] # "idle" /\ pc[t] \notin Removal
  BY <1>1, Zenon DEF Labels, Away, AtDisk, Removal
<1>3. /\ todo' \in [Tasks -> SUBSET Disks] /\ \A x \in todo'[t] : x[1] = VmOf(t)
      /\ \A u \in Tasks : u # t => todo'[u] = todo[u]
  BY <1>1, Zenon DEF Booked, LedgerType, OwnDisks
<1>4. /\ ledger' \in [Disks -> {"none", "Creating", "Ready", "Deleting"}]
      /\ \A x \in Disks : ledger[x] # "none" => ledger'[x] # "none"
  BY <1>1, Zenon DEF Booked, LedgerType
<1> QED
  BY <1>1, <1>2, <1>3, <1>4, BookedRows, Zenon

-----------------------------------------------------------------------------
(* delete_vm on its disks *)

\* release gives up; rows may have been marked.
LEMMA BookedReleaseFails ==
  ASSUME Booked, NEW t \in Tasks, ReleaseFails(t), pc[t] # "idle", UNCHANGED <<volumes, raced>>,
         ledger' \in [Disks -> {"none", "Creating", "Ready", "Deleting"}],
         \A x \in Disks : ledger[x] # "none" => ledger'[x] # "none"
  PROVE  Booked'
<1>1. "idle" \in Labels /\ "idle" \in Removal /\ "idle" \notin AtDisk /\ Goto(t, "idle")
  BY Zenon DEF Labels, Away, Removal, AtDisk, ReleaseFails
<1>2. /\ todo' \in [Tasks -> SUBSET Disks] /\ todo'[t] = {}
      /\ \A u \in Tasks : u # t => todo'[u] = todo[u]
  BY Zenon DEF Booked, LedgerType, ReleaseFails
<1> QED
  BY <1>1, <1>2, BookedRows, Zenon

\* release reads the rows of the VM.
LEMMA BookedReadRows ==
  ASSUME Booked, NEW t \in Tasks, ReadRows(t), UNCHANGED raced PROVE Booked'
<1>0. CASE ReleaseFails(t)
  <2>1. pc[t] # "idle" /\ UNCHANGED <<volumes, ledger>>
    BY Zenon DEF ReadRows
  <2>2. ledger' \in [Disks -> {"none", "Creating", "Ready", "Deleting"}]
    BY <2>1, Zenon DEF Booked, LedgerType
  <2> QED
    BY <1>0, <2>1, <2>2, BookedReleaseFails, Zenon
<1> SUFFICES ASSUME ~ReleaseFails(t) PROVE Booked'
  BY <1>0, Zenon
<1> DEFINE rows == Rows(VmOf(t))
           l == IF rows = {} THEN AfterRelease(t) ELSE "mark"
<1>1. /\ pc[t] = "release" /\ UNCHANGED <<ledger, volumes>> /\ Goto(t, l)
      /\ todo' = [todo EXCEPT ![t] = rows]
  BY Zenon DEF ReadRows
<1>2. l \in Labels /\ l \in Removal /\ l \notin {"lvcreate", "unrow"} /\ (l \in AtDisk => rows # {})
  BY Zenon DEF Labels, Away, Removal, AtDisk, AfterRelease
<1>3. /\ todo' \in [Tasks -> SUBSET Disks] /\ \A x \in todo'[t] : x[1] = VmOf(t)
      /\ \A u \in Tasks : u # t => todo'[u] = todo[u]
      /\ todo'[t] = rows
  BY <1>1, Zenon DEF Booked, LedgerType, Rows, DisksOf
<1>4. ledger' \in [Disks -> {"none", "Creating", "Ready", "Deleting"}]
  BY <1>1, Zenon DEF Booked, LedgerType
<1> HIDE DEF l, rows
<1>5. PICK m \in Labels : m = l
  BY <1>2, Zenon
<1> QED
  BY <1>1, <1>2, <1>3, <1>4, <1>5, BookedRows, Zenon

\* Rows are marked, none is deleted.
LEMMA BookedMarkDeleting ==
  ASSUME Booked, NEW t \in Tasks, MarkDeleting(t), UNCHANGED raced PROVE Booked'
<1>0. CASE ReleaseFails(t)
  <2>1. pc[t] # "idle" /\ UNCHANGED volumes /\ \E S : ledger' = Marked(S)
    BY Zenon DEF MarkDeleting
  <2>2. /\ ledger' \in [Disks -> {"none", "Creating", "Ready", "Deleting"}]
        /\ \A x \in Disks : ledger[x] # "none" => ledger'[x] # "none"
    BY <2>1, Zenon DEF Booked, LedgerType, Marked
  <2> QED
    BY <1>0, <2>1, <2>2, BookedReleaseFails, Zenon
<1> SUFFICES ASSUME ~ReleaseFails(t) PROVE Booked'
  BY <1>0, Zenon
<1>1. /\ pc[t] = "mark" /\ UNCHANGED <<volumes, todo>> /\ Goto(t, "reap")
      /\ ledger' = Marked(todo[t])
  BY Zenon DEF MarkDeleting
<1>2. "reap" \in Labels /\ "reap" \in Removal /\ pc[t] # "idle"
  BY <1>1, Zenon DEF Labels, Away, Removal
<1>3. todo' \in [Tasks -> SUBSET Disks] /\ todo'[t] # {} /\ \A x \in todo'[t] : x[1] = VmOf(t)
  BY <1>1, Zenon DEF Booked, LedgerType, OwnDisks, AtDisk
<1>4. /\ ledger' \in [Disks -> {"none", "Creating", "Ready", "Deleting"}]
      /\ \A x \in Disks : ledger[x] # "none" => ledger'[x] # "none"
  BY <1>1, Zenon DEF Booked, LedgerType, Marked
<1> QED
  BY <1>1, <1>2, <1>3, <1>4, BookedRows, Zenon

\* lvremove: the volume goes while its row is there.
LEMMA BookedRemoveVolume ==
  ASSUME Booked, NEW t \in Tasks, RemoveVolume(t), UNCHANGED raced PROVE Booked'
<1>1. pc[t] = "reap" /\ ledger' = ledger /\ pc[t] # "idle" /\ todo[t] # {}
  BY Zenon DEF RemoveVolume, Booked, OwnDisks, AtDisk
<1>2. CASE volumes' = volumes \ {Current(t)} /\ Goto(t, "unrow") /\ UNCHANGED todo
  <2>1. "unrow" \in Labels /\ "unrow" \in Removal
    BY Zenon DEF Labels, Away, Removal
  <2>2. todo' \in [Tasks -> SUBSET Disks] /\ \A x \in todo'[t] : x[1] = VmOf(t)
    BY <1>2, Zenon DEF Booked, LedgerType, OwnDisks
  <2>3. /\ OwnDisks' /\ Removers' /\ Apart'
        /\ pc' \in [Tasks -> Labels] /\ pc'[t] = "unrow"
        /\ \A u \in Tasks : u # t => pc'[u] = pc[u]
    BY <1>1, <1>2, <2>1, <2>2, TaskMoves, Zenon
  <2>4. LedgerType' /\ LedgerCovers'
    BY <1>1, <1>2, <2>3, Zenon DEF Booked, LedgerType, LedgerCovers
  <2>5. \A u \in Tasks : Current(u)' = Current(u)
    BY <1>2, Zenon DEF Current
  <2>6. Reserved' /\ Removed'
    BY <1>1, <1>2, <2>3, <2>5, Zenon DEF Booked, Reserved, Removed
  <2> QED
    BY <2>3, <2>4, <2>6, Zenon DEF Booked
<1>3. CASE ReleaseFails(t) /\ UNCHANGED volumes
  <2>1. ledger' \in [Disks -> {"none", "Creating", "Ready", "Deleting"}]
    BY <1>1, Zenon DEF Booked, LedgerType
  <2> QED
    BY <1>1, <1>3, <2>1, BookedReleaseFails, Zenon
<1> QED
  BY <1>2, <1>3, Zenon DEF RemoveVolume

\* A row is deleted when its volume is gone.
LEMMA BookedDeleteRow ==
  ASSUME Booked, NEW t \in Tasks, DeleteRow(t), UNCHANGED raced PROVE Booked'
<1>0. CASE ReleaseFails(t) /\ UNCHANGED ledger
  <2>1. pc[t] # "idle" /\ UNCHANGED volumes
    BY Zenon DEF DeleteRow
  <2>2. ledger' \in [Disks -> {"none", "Creating", "Ready", "Deleting"}]
    BY <1>0, Zenon DEF Booked, LedgerType
  <2> QED
    BY <1>0, <2>1, <2>2, BookedReleaseFails, Zenon
<1> SUFFICES ASSUME ~(ReleaseFails(t) /\ UNCHANGED ledger) PROVE Booked'
  BY <1>0, Zenon
<1> DEFINE x == Current(t)
<1>1. /\ pc[t] = "unrow" /\ UNCHANGED volumes /\ pc[t] # "idle" /\ todo[t] # {}
      /\ ledger' = [ledger EXCEPT ![x] = "none"]
      /\ todo' = [todo EXCEPT ![t] = @ \ {x}]
  BY Zenon DEF DeleteRow, Booked, OwnDisks, AtDisk
<1>2. PICK l \in Labels : /\ l \in {"reap", "idle", "drop"} /\ Goto(t, l)
                          /\ l = "reap" => todo[t] # {x}
  <2>1. Goto(t, "idle") \/ Goto(t, "drop") \/ (Goto(t, "reap") /\ todo[t] # {x})
    BY Zenon DEF DeleteRow, AfterRelease
  <2>2. "reap" \in Labels /\ "idle" \in Labels /\ "drop" \in Labels
    BY Zenon DEF Labels, Away
  <2> QED
    BY <2>1, <2>2
<1>3. x \in todo[t] /\ x \in Disks /\ x[1] = VmOf(t)
  BY <1>1, CurrentOwn, Zenon
<1> HIDE DEF x
<1>4. /\ todo' \in [Tasks -> SUBSET Disks] /\ todo'[t] = todo[t] \ {x}
      /\ \A y \in todo'[t] : y[1] = VmOf(t)
      /\ \A u \in Tasks : u # t => todo'[u] = todo[u]
  BY <1>1, Zenon DEF Booked, LedgerType, OwnDisks
<1>5. l \in Removal /\ (l \in AtDisk => todo'[t] # {})
  BY <1>2, <1>3, <1>4, Zenon DEF Removal, AtDisk
<1>6. /\ OwnDisks' /\ Removers' /\ Apart'
      /\ pc' \in [Tasks -> Labels] /\ pc'[t] = l /\ \A u \in Tasks : u # t => pc'[u] = pc[u]
  BY <1>1, <1>2, <1>4, <1>5, TaskMoves, Zenon
<1>7. /\ ledger' \in [Disks -> {"none", "Creating", "Ready", "Deleting"}]
      /\ \A y \in Disks : y # x => ledger'[y] = ledger[y]
  BY <1>1, Zenon DEF Booked, LedgerType
<1>8. LedgerType'
  BY <1>1, <1>4, <1>6, <1>7, Zenon DEF Booked, LedgerType
<1>9. x \in volumes => raced[VmOf(t)]
  BY <1>1, Zenon DEF Booked, Removed, x
<1>10. LedgerCovers'
  BY <1>1, <1>3, <1>7, <1>9 DEF Booked, LedgerType, LedgerCovers
<1>11. \A u \in Tasks : u # t => Current(u)' = Current(u)
  BY <1>4, Zenon DEF Current
<1>12. ASSUME NEW u \in Tasks, pc[u] = "lvcreate"
       PROVE  Current(u) \in Disks /\ (Current(u) = x => raced[VmOf(u)])
  <2>1. Current(u) \in Disks /\ Current(u)[1] = VmOf(u)
    BY <1>12, CurrentOwn, Zenon DEF Booked, OwnDisks, AtDisk
  <2>2. u[1] = "create"
    BY <1>12, Zenon DEF Booked, Removers, Removal
  <2>3. VmOf(u) = VmOf(t) => raced[VmOf(u)]
    BY <1>1, <1>12, <2>2, Zenon DEF Booked, Apart
  <2> QED
    BY <1>3, <2>1, <2>3, Zenon
<1>13. Reserved' /\ Removed'
  BY <1>1, <1>2, <1>6, <1>7, <1>11, <1>12, Zenon DEF Booked, Reserved, Removed
<1> QED
  BY <1>6, <1>8, <1>10, <1>13, Zenon DEF Booked

\* The last steps of delete_vm and of create_vm.
LEMMA BookedEnds ==
  ASSUME Booked, NEW t \in Tasks, DropRow(t) \/ Boot(t), UNCHANGED raced PROVE Booked'
<1>1. CASE Goto(t, "idle") /\ UNCHANGED <<ledger, volumes, todo>> /\ pc[t] \in {"drop", "boot"}
  <2>1. "idle" \in Labels /\ "idle" \notin AtDisk /\ "idle" \in Removal /\ pc[t] # "idle"
    BY <1>1, Zenon DEF Labels, Away, AtDisk, Removal
  <2> QED
    BY <1>1, <2>1, BookedMoves, Zenon
<1>2. CASE DisksFail(t) /\ UNCHANGED <<ledger, volumes>> /\ pc[t] = "boot"
  <2>1. pc[t] \notin Removal
    BY <1>2, Zenon DEF Removal
  <2> QED
    BY <1>2, <2>1, BookedDisksFail, Zenon
<1> QED
  BY <1>1, <1>2, Zenon DEF DropRow, Boot

-----------------------------------------------------------------------------
(* The other steps. *)

\* The start of a task: an overlap with the create is noted.
LEMMA BookedStarts ==
  ASSUME Booked, NEW v \in VMs, CreateVm(v) \/ DeleteVm(v) \/ SweepVolumes(v) PROVE Booked'
<1>1. UNCHANGED <<ledger, volumes, todo>>
  BY Zenon DEF CreateVm, DeleteVm, SweepVolumes, diskVars
<1>2. \A k \in {"create", "delete", "sweep"} :
         <<k, v>> \in Tasks /\ VmOf(<<k, v>>) = v /\ <<k, v>>[1] = k
  BY Zenon DEF Tasks, VmOf
<1>3. /\ raced' \in [VMs -> BOOLEAN] /\ \A w \in VMs : raced[w] => raced'[w]
  BY Zenon DEF CreateVm, DeleteVm, SweepVolumes, callVars, Booked, LedgerType
<1>4. PICK t \in Tasks, l \in Labels \ AtDisk :
         /\ VmOf(t) = v /\ pc[t] = "idle" /\ Goto(t, l)
         /\ t[1] # "create" => l \in Removal
         /\ t[1] = "create" => \A k \in {"delete", "sweep"} : raced'[v] \/ Idle(k, v)
         /\ t[1] # "create" => raced'[v] \/ Idle("create", v)
  <2>1. CASE CreateVm(v)
    <3>1. /\ pc[<<"create", v>>] = "idle" /\ Goto(<<"create", v>>, "ensure")
          /\ raced'[v] = (raced[v] \/ ~Idle("delete", v) \/ ~Idle("sweep", v))
      BY <2>1, Zenon DEF CreateVm, Idle, Booked, LedgerType
    <3>2. "ensure" \in Labels \ AtDisk
      BY Zenon DEF Labels, Away, AtDisk
    <3> QED
      BY <1>2, <3>1, <3>2, Zenon
  <2>2. CASE DeleteVm(v)
    <3>1. /\ pc[<<"delete", v>>] = "idle" /\ Goto(<<"delete", v>>, "undo")
          /\ raced'[v] = (raced[v] \/ ~Idle("create", v))
      BY <2>2, Zenon DEF DeleteVm, Idle, Booked, LedgerType
    <3>2. "undo" \in Labels \ AtDisk /\ "undo" \in Removal
      BY Zenon DEF Labels, Away, AtDisk, Removal
    <3> QED
      BY <1>2, <3>1, <3>2, Zenon
  <2>3. CASE SweepVolumes(v)
    <3>1. /\ pc[<<"sweep", v>>] = "idle" /\ Idle("create", v)
          /\ Goto(<<"sweep", v>>, "undo") \/ Goto(<<"sweep", v>>, "rmroot")
      BY <2>3, Zenon DEF SweepVolumes, Idle
    <3>2. {"undo", "rmroot"} \subseteq (Labels \ AtDisk) \cap Removal
      BY Zenon DEF Labels, Away, AtDisk, Removal
    <3> QED
      BY <1>2, <3>1, <3>2, Zenon
  <2> QED
    BY <2>1, <2>2, <2>3, Zenon
<1>5. pc' \in [Tasks -> Labels] /\ pc'[t] = l /\ \A u \in Tasks : u # t => pc'[u] = pc[u]
  BY <1>4, Zenon DEF Booked, LedgerType, Goto
<1>6. LedgerType' /\ OwnDisks' /\ LedgerCovers'
  <2>1. \A x \in Disks : x[1] \in VMs
    BY DiskAssumption, Zenon
  <2> QED
    BY <1>1, <1>3, <1>4, <1>5, <2>1, Zenon DEF Booked, LedgerType, OwnDisks, LedgerCovers
<1>7. Removers'
  BY <1>4, <1>5, Zenon DEF Booked, Removers
<1>8. Apart'
  <2>1. \A u \in Tasks : VmOf(u) = v => u = <<u[1], v>> /\ u[1] \in {"create", "delete", "sweep"}
    BY DEF Tasks, VmOf
  <2>2. ASSUME NEW u \in Tasks, u # t, VmOf(u) = v, pc[u] # "idle",
               t[1] = "create" \/ u[1] = "create"
        PROVE  raced'[v]
    <3>1. t[1] # u[1]
      BY <1>4, <2>2, OneOfAKind, Zenon
    <3> QED
      BY <1>4, <2>1, <2>2, <3>1, Zenon DEF Idle
  <2> QED
    BY <1>3, <1>4, <1>5, <2>2, VmOfType, Zenon DEF Booked, Apart
<1>9. \A u \in Tasks : Current(u)' = Current(u)
  BY <1>1, Zenon DEF Current
<1>10. Reserved' /\ Removed'
  BY <1>1, <1>3, <1>4, <1>5, <1>9, VmOfType, Zenon DEF Booked, Reserved, Removed, AtDisk
<1> QED
  BY <1>6, <1>7, <1>8, <1>10, Zenon DEF Booked

\* A restart of the agent ends every task; rows and volumes stay.
LEMMA BookedCrash == ASSUME Booked, Crash PROVE Booked'
<1>1. /\ pc' = [t \in Tasks |-> "idle"] /\ todo' = [t \in Tasks |-> {}]
      /\ UNCHANGED <<ledger, volumes, raced>>
  BY Zenon DEF Crash, callVars
<1>2. "idle" \in Labels /\ "idle" \notin AtDisk /\ "idle" \in Removal
  BY Zenon DEF Labels, Away, AtDisk, Removal
<1>3. LedgerType' /\ LedgerCovers'
  BY <1>1, <1>2, Zenon DEF Booked, LedgerType, LedgerCovers
<1>4. OwnDisks' /\ Removers' /\ Apart' /\ Reserved' /\ Removed'
  BY <1>1, <1>2, Zenon DEF OwnDisks, Removers, Apart, Reserved, Removed
<1> QED
  BY <1>3, <1>4, Zenon DEF Booked

\* A step that changes none of this.
LEMMA BookedStutter ==
  ASSUME Booked, UNCHANGED <<pc, ledger, volumes, todo, raced>> PROVE Booked'
<1>1. \A u \in Tasks : Current(u)' = Current(u)
  BY Zenon DEF Current
<1> QED
  BY <1>1, Zenon DEF Booked, LedgerType, OwnDisks, Removers, Apart, Reserved, Removed, LedgerCovers

\* Booked is inductive beside Fresh.
LEMMA BookedNext == Booked /\ Fresh /\ [Next]_vars => Booked'
<1> SUFFICES ASSUME Booked, Fresh, [Next]_vars PROVE Booked'
  OBVIOUS
<1>1. ASSUME NEW t \in Tasks, ImageStep(t), UNCHANGED <<diskVars, callVars>> PROVE Booked'
  <2>1. UNCHANGED <<ledger, volumes, todo, raced>>
    BY <1>1, Zenon DEF diskVars, callVars
  <2> QED
    BY <1>1, <2>1, ImageMoves, BookedMoves, Zenon
<1>2. ASSUME NEW t \in Tasks, DiskStep(t), UNCHANGED callVars PROVE Booked'
  <2>1. UNCHANGED raced
    BY <1>2, Zenon DEF callVars
  <2> QED
    BY <1>2, <2>1, BookedInsertRow, BookedReserve, BookedCreateVolume, BookedMarkReady,
       BookedReadRows, BookedMarkDeleting, BookedRemoveVolume, BookedDeleteRow, BookedEnds, Zenon
       DEF DiskStep
<1>3. ASSUME NEW t \in Tasks, Boot(t) PROVE Booked'
  <2>1. UNCHANGED raced
    BY <1>3, Zenon DEF Boot, callVars
  <2> QED
    BY <1>3, <2>1, BookedEnds, Zenon
<1>4. ASSUME NEW t \in Tasks, TaskStep(t) PROVE Booked'
  BY <1>1, <1>2, <1>3, <1>4, Zenon DEF TaskStep
<1>5. CASE Publish /\ UNCHANGED <<diskVars, callVars>>
  BY <1>5, BookedStutter, Zenon DEF Publish, taskVars, diskVars, callVars
<1>6. CASE UNCHANGED vars
  BY <1>6, BookedStutter, Zenon DEF vars, taskVars, diskVars, callVars
<1> QED
  BY <1>4, <1>5, <1>6, BookedStarts, BookedCrash, Zenon DEF Next

\* An empty host is booked.
LEMMA BookedInit == Init => Booked
<1> SUFFICES ASSUME Init PROVE Booked
  OBVIOUS
<1>1. /\ pc = [t \in Tasks |-> "idle"] /\ todo = [t \in Tasks |-> {}] /\ volumes = {}
      /\ ledger = [x \in Disks |-> "none"] /\ raced = [v \in VMs |-> FALSE]
  BY Zenon DEF Init, TaskInit, DiskInit
<1>2. "idle" \in Labels /\ "idle" \notin AtDisk /\ "idle" \in Removal
  BY Zenon DEF Labels, Away, AtDisk, Removal
<1>3. LedgerType /\ LedgerCovers
  BY <1>1, <1>2, Zenon DEF LedgerType, LedgerCovers
<1>4. OwnDisks /\ Removers /\ Apart /\ Reserved /\ Removed
  BY <1>1, <1>2, Zenon DEF OwnDisks, Removers, Apart, Reserved, Removed
<1> QED
  BY <1>3, <1>4, Zenon DEF Booked

-----------------------------------------------------------------------------
(***************************************************************************)
(* After delete_vm has returned Ok nothing of the VM is left on the host,  *)
(* unless a create overlapped it.                                          *)
(*                                                                         *)
(* Cleared is the inductive invariant beside Booked.  It follows delete_vm *)
(* through its labels: past the rootfs there is none (RootTaken), the rows *)
(* that release has read are all there are (RowsListed), and when it comes *)
(* to drop the VM's own row no reservation is left (RowsTaken); only a     *)
(* create would bring one back, and Apart has a note of that.  The volumes *)
(* are gone with the rows by LedgerCovers.  From then on the VM stays      *)
(* empty, through further deletes, sweeps and restarts, until a create     *)
(* begins (GoneEmpty).                                                     *)
(***************************************************************************)

\* Labels past remove_vm_rootfs, and those at which release works off its list.
Past == {"release", "mark", "reap", "unrow", "drop"}
Listed == {"mark", "reap", "unrow"}

RootTaken ==
    \A t \in Tasks : pc[t] \in Past => root[VmOf(t)] = NoVolume \/ raced[VmOf(t)]

RowsListed ==
    \A t \in Tasks : pc[t] \in Listed => Rows(VmOf(t)) \subseteq todo[t] \/ raced[VmOf(t)]

RowsTaken ==
    \A t \in Tasks : pc[t] = "drop" => Rows(VmOf(t)) = {} \/ raced[VmOf(t)]

Empty(v) == root[v] = NoVolume /\ Rows(v) = {}

GoneEmpty ==
    \A v \in VMs : gone[v] => (Idle("create", v) /\ Empty(v)) \/ raced[v]

Cleared ==
    /\ row \in [VMs -> BOOLEAN] /\ gone \in [VMs -> BOOLEAN]
    /\ RootTaken /\ RowsListed /\ RowsTaken /\ GoneEmpty

-----------------------------------------------------------------------------
\* The rows of a VM follow the ledger of its disks.
LEMMA RowsKept ==
  ASSUME NEW v, \A x \in Disks : x[1] = v => (ledger'[x] # "none" => ledger[x] # "none")
  PROVE  Rows(v)' \subseteq Rows(v)
  BY DEF Rows, DisksOf

\* A create that is still making things: its VM is not one that is gone, and none
\* of the VM's other tasks works, short of an overlap.
LEMMA Maker ==
  ASSUME Booked, Cleared, NEW t \in Tasks, pc[t] \notin Removal, ~raced[VmOf(t)]
  PROVE  ~gone[VmOf(t)] /\ \A u \in Tasks : u # t /\ VmOf(u) = VmOf(t) => pc[u] = "idle"
<1>1. t[1] = "create" /\ pc[t] # "idle"
  BY Zenon DEF Booked, Removers, Removal
<1>2. t = <<"create", VmOf(t)>>
  BY <1>1 DEF Tasks, VmOf
<1>3. ~Idle("create", VmOf(t))
  BY <1>1, <1>2, Zenon DEF Idle
<1>4. ~gone[VmOf(t)]
  BY <1>3, VmOfType, Zenon DEF Cleared, GoneEmpty
<1>5. \A u \in Tasks : u # t /\ VmOf(u) = VmOf(t) => pc[u] = "idle"
  BY <1>1, Zenon DEF Booked, Apart
<1> QED
  BY <1>4, <1>5, Zenon

\* Whatever a create makes for its VM before it fails or ends.
LEMMA ClearedMaker ==
  ASSUME Booked, Cleared, NEW t \in Tasks, pc[t] \notin Removal,
         NEW l \in Labels, Goto(t, l), l \notin Past, UNCHANGED <<raced, gone>>,
         row' \in [VMs -> BOOLEAN], \A u \in Tasks : u # t => todo'[u] = todo[u],
         \A v \in VMs : v # VmOf(t) => /\ root'[v] = root[v] /\ row'[v] = row[v]
                                       /\ Rows(v)' \subseteq Rows(v)
  PROVE  Cleared'
<1>1. pc'[t] = l /\ \A u \in Tasks : u # t => pc'[u] = pc[u]
  BY Zenon DEF Booked, LedgerType, Goto
<1>2. "idle" \notin Past /\ Listed \subseteq Past /\ "drop" \in Past
  BY Zenon DEF Past, Listed
<1>3. ASSUME NEW u \in Tasks, pc'[u] \in Past, ~raced'[VmOf(u)]
      PROVE  /\ u # t /\ VmOf(u) # VmOf(t) /\ VmOf(u) \in VMs /\ pc'[u] = pc[u]
  BY <1>1, <1>2, <1>3, Maker, VmOfType, Zenon
<1>4. RootTaken'
  BY <1>3, Zenon DEF Cleared, RootTaken
<1>5. RowsListed'
  BY <1>2, <1>3, Zenon DEF Cleared, RowsListed
<1>6. RowsTaken'
  <2> SUFFICES ASSUME NEW u \in Tasks, pc'[u] = "drop", ~raced'[VmOf(u)]
               PROVE  Rows(VmOf(u))' = {}
    BY Zenon DEF RowsTaken
  <2>1. pc[u] = "drop" /\ ~raced[VmOf(u)] /\ Rows(VmOf(u))' \subseteq Rows(VmOf(u))
    BY <1>2, <1>3, Zenon
  <2> QED
    BY <2>1, Zenon DEF Cleared, RowsTaken
<1>7. GoneEmpty'
  <2> SUFFICES ASSUME NEW v \in VMs, gone'[v], ~raced'[v] PROVE (Idle("create", v) /\ Empty(v))'
    BY Zenon DEF GoneEmpty
  <2>1. v # VmOf(t) /\ Idle("create", v) /\ Empty(v)
    BY Maker, Zenon DEF Cleared, GoneEmpty
  <2>2. <<"create", v>> \in Tasks /\ <<"create", v>> # t
    BY <2>1 DEF Tasks, VmOf
  <2>3. Idle("create", v)'
    BY <1>1, <2>1, <2>2, Zenon DEF Idle
  <2> QED
    BY <2>1, <2>3, Zenon DEF Empty
<1> QED
  BY <1>4, <1>5, <1>6, <1>7, Zenon DEF Cleared

\* A step of delete_vm or of the sweep, which only takes away.
LEMMA ClearedRemover ==
  ASSUME Booked, Cleared, NEW t \in Tasks, pc[t] # "idle",
         NEW l \in Labels, Goto(t, l), UNCHANGED <<raced, gone, row>>,
         \A u \in Tasks : u # t => todo'[u] = todo[u],
         \A v \in VMs : root'[v] \in {root[v], NoVolume} /\ Rows(v)' \subseteq Rows(v),
         raced[VmOf(t)] \/
            /\ l \in Past => root'[VmOf(t)] = NoVolume
            /\ l \in Listed => Rows(VmOf(t))' \subseteq todo'[t]
            /\ l = "drop" => Rows(VmOf(t))' = {}
  PROVE  Cleared'
<1>1. pc'[t] = l /\ \A u \in Tasks : u # t => pc'[u] = pc[u]
  BY Zenon DEF Booked, LedgerType, Goto
<1>2. RootTaken'
  <2> SUFFICES ASSUME NEW u \in Tasks, pc'[u] \in Past, ~raced'[VmOf(u)]
               PROVE  root'[VmOf(u)] = NoVolume
    BY Zenon DEF RootTaken
  <2>1. CASE u = t
    BY <1>1, <2>1, Zenon
  <2>2. CASE u # t
    BY <1>1, <2>2, VmOfType, Zenon DEF Cleared, RootTaken
  <2> QED
    BY <2>1, <2>2, Zenon
<1>3. RowsListed'
  <2> SUFFICES ASSUME NEW u \in Tasks, pc'[u] \in Listed, ~raced'[VmOf(u)]
               PROVE  Rows(VmOf(u))' \subseteq todo'[u]
    BY Zenon DEF RowsListed
  <2>1. CASE u = t
    BY <1>1, <2>1, Zenon
  <2>2. CASE u # t
    <3>1. Rows(VmOf(u)) \subseteq todo[u] /\ Rows(VmOf(u))' \subseteq Rows(VmOf(u))
      BY <1>1, <2>2, VmOfType, Zenon DEF Cleared, RowsListed
    <3> QED
      BY <2>2, <3>1, Zenon
  <2> QED
    BY <2>1, <2>2, Zenon
<1>4. RowsTaken'
  <2> SUFFICES ASSUME NEW u \in Tasks, pc'[u] = "drop", ~raced'[VmOf(u)]
               PROVE  Rows(VmOf(u))' = {}
    BY Zenon DEF RowsTaken
  <2>1. CASE u = t
    BY <1>1, <2>1, Zenon
  <2>2. CASE u # t
    <3>1. Rows(VmOf(u)) = {} /\ Rows(VmOf(u))' \subseteq Rows(VmOf(u))
      BY <1>1, <2>2, VmOfType, Zenon DEF Cleared, RowsTaken
    <3> QED
      BY <3>1, Zenon
  <2> QED
    BY <2>1, <2>2, Zenon
<1>5. GoneEmpty'
  <2> SUFFICES ASSUME NEW v \in VMs, gone'[v], ~raced'[v] PROVE (Idle("create", v) /\ Empty(v))'
    BY Zenon DEF GoneEmpty
  <2>1. Idle("create", v) /\ Empty(v)
    BY Zenon DEF Cleared, GoneEmpty
  <2>2. <<"create", v>> \in Tasks /\ <<"create", v>> # t
    BY <2>1, Zenon DEF Tasks, Idle
  <2>3. Idle("create", v)'
    BY <1>1, <2>1, <2>2, Zenon DEF Idle
  <2>4. root'[v] = NoVolume /\ Rows(v)' = {}
    BY <2>1, Zenon DEF Empty
  <2> QED
    BY <2>3, <2>4, Zenon DEF Empty
<1>6. row' \in [VMs -> BOOLEAN] /\ gone' \in [VMs -> BOOLEAN]
  BY Zenon DEF Cleared
<1> QED
  BY <1>2, <1>3, <1>4, <1>5, <1>6, Zenon DEF Cleared


-----------------------------------------------------------------------------
(* create_vm *)

\* A step on the image leads past no rootfs, and touches no rootfs but its VM's.
LEMMA ImageMakes ==
  ASSUME ImageType, NEW t \in Tasks, ImageStep(t), pc[t] \notin Removal
  PROVE  /\ \E l \in Labels \ Past : Goto(t, l)
         /\ \A v \in VMs : v # VmOf(t) => root'[v] = root[v]
<1> USE DEF Labels, Pulling, Unpacked, Away, Past
<1>1. CASE FastPath(t)
  BY <1>1, Zenon DEF FastPath, ImageFails, imageVars
<1>2. CASE LockImage(t)
  BY <1>2, Zenon DEF LockImage
<1>3. CASE FetchManifest(t)
  BY <1>3, Zenon DEF FetchManifest, ImageFails
<1>4. CASE PullRootfs(t)
  BY <1>4, Zenon DEF PullRootfs, ImageFails
<1>5. CASE Unpack(t)
  BY <1>5, Zenon DEF Unpack, ImageFails
<1>6. CASE PullBoot(t, "vmlinuz", "initrd") \/ PullBoot(t, "initrd", "size")
  BY <1>6, Zenon DEF PullBoot, ImageFails
<1>7. CASE SizeImage(t)
  BY <1>7, Zenon DEF SizeImage, ImageFails
<1>8. CASE MakeGolden(t)
  BY <1>8, Zenon DEF MakeGolden, ImageFails
<1>9. CASE FillGolden(t) \/ SealGolden(t)
  BY <1>9, Zenon DEF FillGolden, SealGolden, ImageFails
<1>10. CASE SnapshotRoot(t)
  <2>1. \E l \in Labels \ Past : Goto(t, l)
    BY <1>10, Zenon DEF SnapshotRoot, ImageFails
  <2>2. root' = root \/ \E r : root' = [root EXCEPT ![VmOf(t)] = r]
    BY <1>10, Zenon DEF SnapshotRoot
  <2>3. \A v \in VMs : v # VmOf(t) => root'[v] = root[v]
    BY <2>2, Zenon DEF ImageType
  <2> QED
    BY <2>1, <2>3, Zenon
<1>11. ~StopVm(t) /\ ~RemoveRoot(t)
  BY Zenon DEF StopVm, RemoveRoot, Removal
<1> QED
  BY <1>1, <1>2, <1>3, <1>4, <1>5, <1>6, <1>7, <1>8, <1>9, <1>10, <1>11, Zenon DEF ImageStep

\* create_vm up to its rootfs.
LEMMA ClearedImage ==
  ASSUME Booked, Cleared, ImageType, NEW t \in Tasks, ImageStep(t), pc[t] \notin Removal,
         UNCHANGED <<diskVars, callVars>>
  PROVE  Cleared'
<1>1. UNCHANGED <<row, ledger, todo, gone, raced>>
  BY Zenon DEF diskVars, callVars
<1>2. \A v \in VMs : Rows(v)' \subseteq Rows(v)
  BY <1>1, RowsKept, Zenon
<1>3. PICK l \in Labels \ Past : Goto(t, l)
  BY ImageMakes, Zenon
<1>4. \A v \in VMs : v # VmOf(t) => root'[v] = root[v]
  BY ImageMakes, Zenon
<1>5. row' \in [VMs -> BOOLEAN]
  BY <1>1, Zenon DEF Cleared
<1> QED
  BY <1>1, <1>2, <1>3, <1>4, <1>5, ClearedMaker, Zenon

\* A create that fails goes on as a delete, with nothing on its list yet.
LEMMA ClearedDisksFail ==
  ASSUME Booked, Cleared, NEW t \in Tasks, DisksFail(t), pc[t] \notin Removal,
         UNCHANGED <<row, root, gone, raced>>,
         \A x \in Disks : ledger'[x] # "none" => ledger[x] # "none"
  PROVE  Cleared'
<1>1. "undo" \in Labels /\ "undo" \notin Past /\ Goto(t, "undo")
  BY Zenon DEF Labels, Away, Past, DisksFail
<1>2. \A u \in Tasks : u # t => todo'[u] = todo[u]
  BY Zenon DEF Booked, LedgerType, DisksFail
<1>3. \A v \in VMs : Rows(v)' \subseteq Rows(v)
  BY RowsKept, Zenon
<1>4. row' \in [VMs -> BOOLEAN]
  BY Zenon DEF Cleared
<1> QED
  BY <1>1, <1>2, <1>3, <1>4, ClearedMaker, Zenon

\* The VM's own row.
LEMMA ClearedInsertRow ==
  ASSUME Booked, Cleared, NEW t \in Tasks, InsertRow(t), UNCHANGED <<root, raced>>
  PROVE  Cleared'
<1>1. pc[t] = "checks" /\ UNCHANGED <<ledger, gone>> /\ pc[t] \notin Removal
  BY Zenon DEF InsertRow, Removal
<1>2. CASE DisksFail(t) /\ UNCHANGED row
  BY <1>1, <1>2, ClearedDisksFail, Zenon
<1>3. CASE /\ row' = [row EXCEPT ![VmOf(t)] = TRUE]
           /\ todo' = [todo EXCEPT ![t] = DisksOf(VmOf(t))] /\ Goto(t, "snapshot")
  <2>1. "snapshot" \in Labels /\ "snapshot" \notin Past
    BY Zenon DEF Labels, Away, Past
  <2>2. \A u \in Tasks : u # t => todo'[u] = todo[u]
    BY <1>3, Zenon DEF Booked, LedgerType
  <2>3. row' \in [VMs -> BOOLEAN] /\ \A v \in VMs : v # VmOf(t) => row'[v] = row[v]
    BY <1>3, VmOfType, Zenon DEF Cleared
  <2>4. \A v \in VMs : Rows(v)' \subseteq Rows(v)
    BY <1>1, RowsKept, Zenon
  <2> QED
    BY <1>1, <1>3, <2>1, <2>2, <2>3, <2>4, ClearedMaker, Zenon
<1> QED
  BY <1>2, <1>3, Zenon DEF InsertRow

\* allocate, which changes reservations of its own VM only.
LEMMA ClearedAllocates ==
  ASSUME Booked, Cleared, NEW t \in Tasks, Reserve(t) \/ MarkReady(t), UNCHANGED <<root, raced>>
  PROVE  Cleared'
<1>1. /\ pc[t] \in {"disks", "ready"} /\ UNCHANGED <<row, gone>>
      /\ pc[t] \notin Removal
  BY Zenon DEF Reserve, MarkReady, Removal
<1>2. PICK l \in Labels \ Past : Goto(t, l)
  <2>0. CASE DisksFail(t)
    BY <2>0, Zenon DEF Labels, Away, Past, DisksFail
  <2>1. CASE UNCHANGED pc
    <3>1. Goto(t, pc[t]) /\ pc[t] \in Labels
      BY <2>1, Zenon DEF Booked, LedgerType, Goto
    <3> QED
      BY <1>1, <3>1, Zenon DEF Past
  <2>2. CASE Goto(t, "boot") \/ Goto(t, "lvcreate") \/ Goto(t, "disks")
    BY <2>2, Zenon DEF Labels, Away, Past
  <2> QED
    BY <2>0, <2>1, <2>2, Zenon DEF Reserve, MarkReady
<1>3. ledger' = ledger \/ (todo[t] # {} /\ \E e : ledger' = [ledger EXCEPT ![Current(t)] = e])
  <2>1. pc[t] = "ready" => todo[t] # {}
    BY Zenon DEF Booked, OwnDisks, AtDisk
  <2> QED
    BY <2>1, Zenon DEF Reserve, MarkReady
<1>4. ASSUME NEW v \in VMs, v # VmOf(t) PROVE Rows(v)' \subseteq Rows(v)
  <2>1. todo[t] # {} => Current(t) \in Disks /\ Current(t)[1] = VmOf(t)
    BY CurrentOwn, Zenon
  <2>2. \A x \in Disks : x[1] = v => ledger'[x] = ledger[x]
    BY <1>3, <1>4, <2>1, Zenon DEF Booked, LedgerType
  <2> QED
    BY <2>2, RowsKept, Zenon
<1>5. \A u \in Tasks : u # t => todo'[u] = todo[u]
  BY Zenon DEF Reserve, MarkReady, Booked, LedgerType, DisksFail
<1>6. row' \in [VMs -> BOOLEAN]
  BY <1>1, Zenon DEF Cleared
<1> QED
  BY <1>1, <1>2, <1>4, <1>5, <1>6, ClearedMaker, Zenon

\* lvcreate, and the start of the hypervisor: no row changes.
LEMMA ClearedVolumes ==
  ASSUME Booked, Cleared, NEW t \in Tasks, CreateVolume(t) \/ Boot(t), UNCHANGED <<root, raced>>
  PROVE  Cleared'
<1>1. pc[t] \in {"lvcreate", "boot"} /\ UNCHANGED <<row, ledger, gone>> /\ pc[t] \notin Removal
  BY Zenon DEF CreateVolume, Boot, Removal
<1>2. CASE DisksFail(t)
  BY <1>1, <1>2, ClearedDisksFail, Zenon
<1>3. CASE (Goto(t, "ready") \/ Goto(t, "idle")) /\ UNCHANGED todo
  <2>1. PICK l \in Labels \ Past : Goto(t, l)
    BY <1>3, Zenon DEF Labels, Away, Past
  <2>2. \A v \in VMs : Rows(v)' \subseteq Rows(v)
    BY <1>1, RowsKept, Zenon
  <2>3. row' \in [VMs -> BOOLEAN]
    BY <1>1, Zenon DEF Cleared
  <2> QED
    BY <1>1, <1>3, <2>1, <2>2, <2>3, ClearedMaker, Zenon
<1> QED
  BY <1>2, <1>3, Zenon DEF CreateVolume, Boot

-----------------------------------------------------------------------------
(* delete_vm *)

\* The hypervisor is stopped and the rootfs removed.
LEMMA ClearedRoot ==
  ASSUME Booked, Cleared, ImageType, NEW t \in Tasks, StopVm(t) \/ RemoveRoot(t),
         UNCHANGED <<diskVars, callVars>>
  PROVE  Cleared'
<1>1. UNCHANGED <<row, ledger, todo, gone, raced>> /\ pc[t] # "idle"
  BY Zenon DEF diskVars, callVars, StopVm, RemoveRoot
<1>2. \A v \in VMs : Rows(v)' \subseteq Rows(v)
  BY <1>1, RowsKept, Zenon
<1>3. CASE (Goto(t, "rmroot") \/ Goto(t, "idle")) /\ UNCHANGED root
  <2>1. PICK l \in Labels \ Past : Goto(t, l)
    BY <1>3, Zenon DEF Labels, Away, Past
  <2>2. l \notin Listed /\ l # "drop"
    BY <2>1, Zenon DEF Past, Listed
  <2> QED
    BY <1>1, <1>2, <1>3, <2>1, <2>2, ClearedRemover, Zenon
<1>4. CASE Goto(t, "release") /\ root' = [root EXCEPT ![VmOf(t)] = NoVolume]
  <2>1. "release" \in Labels /\ "release" \notin Listed /\ "release" # "drop"
    BY Zenon DEF Labels, Away, Listed
  <2>2. root'[VmOf(t)] = NoVolume /\ \A v \in VMs : root'[v] \in {root[v], NoVolume}
    BY <1>4, VmOfType, Zenon DEF ImageType
  <2> QED
    BY <1>1, <1>2, <1>4, <2>1, <2>2, ClearedRemover, Zenon
<1> QED
  BY <1>3, <1>4, Zenon DEF StopVm, RemoveRoot, imageVars

\* A step of release; the rootfs is gone already.
LEMMA ClearedRelease ==
  ASSUME Booked, Cleared, NEW t \in Tasks, pc[t] \in Past,
         NEW l \in Labels, Goto(t, l), UNCHANGED <<raced, gone, row, root>>,
         \A u \in Tasks : u # t => todo'[u] = todo[u],
         \A x \in Disks : ledger'[x] # "none" => ledger[x] # "none",
         raced[VmOf(t)] \/ /\ l \in Listed => Rows(VmOf(t))' \subseteq todo'[t]
                           /\ l = "drop" => Rows(VmOf(t))' = {}
  PROVE  Cleared'
<1>1. pc[t] # "idle"
  BY Zenon DEF Past
<1>2. root'[VmOf(t)] = NoVolume \/ raced[VmOf(t)]
  BY Zenon DEF Cleared, RootTaken
<1>3. \A v \in VMs : root'[v] \in {root[v], NoVolume} /\ Rows(v)' \subseteq Rows(v)
  BY RowsKept, Zenon
<1> QED
  BY <1>1, <1>2, <1>3, ClearedRemover, Zenon

\* release gives up, and delete_vm with it.
LEMMA ClearedReleaseFails ==
  ASSUME Booked, Cleared, NEW t \in Tasks, pc[t] \in Past, ReleaseFails(t),
         UNCHANGED <<raced, gone, row, root>>,
         \A x \in Disks : ledger'[x] # "none" => ledger[x] # "none"
  PROVE  Cleared'
<1>1. "idle" \in Labels /\ "idle" \notin Listed /\ "idle" # "drop" /\ Goto(t, "idle")
  BY Zenon DEF Labels, Away, Listed, ReleaseFails
<1>2. \A u \in Tasks : u # t => todo'[u] = todo[u]
  BY Zenon DEF Booked, LedgerType, ReleaseFails
<1> QED
  BY <1>1, <1>2, ClearedRelease, Zenon

\* release reads the rows of the VM: its list is all there are.
LEMMA ClearedReadRows ==
  ASSUME Booked, Cleared, NEW t \in Tasks, ReadRows(t), UNCHANGED <<root, raced>>
  PROVE  Cleared'
<1>0. CASE ReleaseFails(t)
  <2>1. pc[t] \in Past /\ UNCHANGED <<row, ledger, gone>>
    BY Zenon DEF ReadRows, Past
  <2> QED
    BY <1>0, <2>1, ClearedReleaseFails, Zenon
<1> SUFFICES ASSUME ~ReleaseFails(t) PROVE Cleared'
  BY <1>0, Zenon
<1> DEFINE rows == Rows(VmOf(t))
<1>1. /\ pc[t] = "release" /\ UNCHANGED <<row, ledger, gone>>
      /\ todo' = [todo EXCEPT ![t] = rows]
  BY Zenon DEF ReadRows
<1>2. PICK l \in Labels : /\ l \in {"mark", "idle", "drop"} /\ Goto(t, l)
                          /\ l = "drop" => rows = {}
  <2>1. Goto(t, "mark") \/ Goto(t, "idle") \/ (Goto(t, "drop") /\ rows = {})
    BY Zenon DEF ReadRows, AfterRelease
  <2>2. "mark" \in Labels /\ "idle" \in Labels /\ "drop" \in Labels
    BY Zenon DEF Labels, Away
  <2> QED
    BY <2>1, <2>2
<1>3. todo'[t] = rows /\ \A u \in Tasks : u # t => todo'[u] = todo[u]
  BY <1>1, Zenon DEF Booked, LedgerType, Rows, DisksOf
<1>4. Rows(VmOf(t))' \subseteq rows
  BY <1>1, RowsKept, Zenon
<1> HIDE DEF rows
<1>5. pc[t] \in Past /\ (l \in Listed => Rows(VmOf(t))' \subseteq todo'[t])
  BY <1>1, <1>3, <1>4, Zenon DEF Past
<1>6. l = "drop" => Rows(VmOf(t))' = {}
  BY <1>2, <1>4, Zenon
<1>7. \A x \in Disks : ledger'[x] # "none" => ledger[x] # "none"
  BY <1>1, Zenon
<1> QED
  BY <1>1, <1>2, <1>3, <1>5, <1>6, <1>7, ClearedRelease, Zenon

\* Marking changes the state of rows; lvremove no row; both keep the list, or
\* give up.
LEMMA ClearedReaps ==
  ASSUME Booked, Cleared, NEW t \in Tasks, MarkDeleting(t) \/ RemoveVolume(t),
         UNCHANGED <<root, raced>>
  PROVE  Cleared'
<1>1. pc[t] \in {"mark", "reap"} /\ UNCHANGED <<row, gone>> /\ pc[t] \in Past /\ pc[t] \in Listed
  BY Zenon DEF MarkDeleting, RemoveVolume, Past, Listed
<1>2. \A x \in Disks : ledger'[x] # "none" => ledger[x] # "none"
  BY Zenon DEF MarkDeleting, RemoveVolume, Marked
<1>3. Rows(VmOf(t))' \subseteq Rows(VmOf(t))
  BY <1>2, RowsKept, Zenon
<1>4. CASE (Goto(t, "reap") \/ Goto(t, "unrow")) /\ UNCHANGED todo
  <2>1. PICK l \in Labels \ {"drop"} : Goto(t, l)
    BY <1>4, Zenon DEF Labels, Away
  <2>2. Rows(VmOf(t))' \subseteq todo'[t] \/ raced[VmOf(t)]
    BY <1>1, <1>3, <1>4, Zenon DEF Cleared, RowsListed
  <2> QED
    BY <1>1, <1>2, <1>4, <2>1, <2>2, ClearedRelease, Zenon
<1>5. CASE ReleaseFails(t)
  BY <1>1, <1>2, <1>5, ClearedReleaseFails, Zenon
<1> QED
  BY <1>4, <1>5, Zenon DEF MarkDeleting, RemoveVolume

\* A row leaves the ledger and the list together.
LEMMA ClearedDeleteRow ==
  ASSUME Booked, Cleared, NEW t \in Tasks, DeleteRow(t), UNCHANGED <<root, raced>>
  PROVE  Cleared'
<1>0. CASE ReleaseFails(t) /\ UNCHANGED ledger
  <2>1. pc[t] \in Past /\ UNCHANGED <<row, gone>>
    BY Zenon DEF DeleteRow, Past
  <2> QED
    BY <1>0, <2>1, ClearedReleaseFails, Zenon
<1> SUFFICES ASSUME ~(ReleaseFails(t) /\ UNCHANGED ledger) PROVE Cleared'
  BY <1>0, Zenon
<1> DEFINE x == Current(t)
<1>1. /\ pc[t] = "unrow" /\ UNCHANGED <<row, gone>> /\ todo[t] # {}
      /\ ledger' = [ledger EXCEPT ![x] = "none"]
      /\ todo' = [todo EXCEPT ![t] = @ \ {x}]
  BY Zenon DEF DeleteRow, Booked, OwnDisks, AtDisk
<1>2. PICK l \in Labels : /\ l \in {"reap", "idle", "drop"} /\ Goto(t, l)
                          /\ l = "drop" => todo[t] = {x}
  <2>1. Goto(t, "reap") \/ Goto(t, "idle") \/ (Goto(t, "drop") /\ todo[t] = {x})
    BY Zenon DEF DeleteRow, AfterRelease
  <2>2. "reap" \in Labels /\ "idle" \in Labels /\ "drop" \in Labels
    BY Zenon DEF Labels, Away
  <2> QED
    BY <2>1, <2>2
<1>3. x \in Disks
  BY <1>1, CurrentOwn, Zenon
<1> HIDE DEF x
<1>4. todo'[t] = todo[t] \ {x} /\ \A u \in Tasks : u # t => todo'[u] = todo[u]
  BY <1>1, Zenon DEF Booked, LedgerType
<1>5. ledger'[x] = "none" /\ \A y \in Disks : y # x => ledger'[y] = ledger[y]
  BY <1>1, <1>3, Zenon DEF Booked, LedgerType
<1>6. Rows(VmOf(t))' \subseteq Rows(VmOf(t)) \ {x}
  BY <1>3, <1>5 DEF Rows, DisksOf
<1>7. pc[t] \in Past /\ pc[t] \in Listed
  BY <1>1, Zenon DEF Past, Listed
<1>8. Rows(VmOf(t)) \subseteq todo[t] \/ raced[VmOf(t)]
  BY <1>7, Zenon DEF Cleared, RowsListed
<1>9. Rows(VmOf(t))' \subseteq todo'[t] \/ raced[VmOf(t)]
  BY <1>4, <1>6, <1>8, Zenon
<1>10. l = "drop" => Rows(VmOf(t))' = {} \/ raced[VmOf(t)]
  BY <1>2, <1>4, <1>9, Zenon
<1>11. \A y \in Disks : ledger'[y] # "none" => ledger[y] # "none"
  BY <1>5, Zenon
<1> QED
  BY <1>1, <1>2, <1>4, <1>7, <1>9, <1>10, <1>11, ClearedRelease, Zenon

\* delete_vm drops the VM's row last, or fails to, and returns Ok.  If another
\* task of the VM is its create, that is an overlap.
LEMMA ClearedDropRow ==
  ASSUME Booked, Cleared, NEW t \in Tasks, DropRow(t), UNCHANGED <<root, raced>>
  PROVE  Cleared'
<1>1. /\ pc[t] = "drop" /\ Goto(t, "idle") /\ UNCHANGED <<ledger, todo>>
      /\ row' = row \/ row' = [row EXCEPT ![VmOf(t)] = FALSE]
      /\ gone' = [gone EXCEPT ![VmOf(t)] = TRUE]
  BY Zenon DEF DropRow
<1>2. /\ pc'[t] = "idle" /\ \A u \in Tasks : u # t => pc'[u] = pc[u]
  BY <1>1, Zenon DEF Booked, LedgerType, Goto
<1>3. "idle" \notin Past /\ "idle" \notin Listed /\ "idle" # "drop" /\ pc[t] \in Past
  BY <1>1, Zenon DEF Past, Listed
<1>4. /\ row' \in [VMs -> BOOLEAN] /\ gone' \in [VMs -> BOOLEAN]
      /\ \A v \in VMs : v # VmOf(t) => row'[v] = row[v] /\ gone'[v] = gone[v]
  BY <1>1, VmOfType, Zenon DEF Cleared
<1>5. \A v : Rows(v)' = Rows(v)
  BY <1>1, Zenon DEF Rows
<1>6. RootTaken' /\ RowsListed' /\ RowsTaken'
  BY <1>1, <1>2, <1>3, <1>5, Zenon DEF Cleared, RootTaken, RowsListed, RowsTaken
<1>7. ASSUME NEW v \in VMs, gone'[v], ~raced'[v] PROVE (Idle("create", v) /\ Empty(v))'
  <2>1. <<"create", v>> \in Tasks /\ VmOf(<<"create", v>>) = v /\ <<"create", v>>[1] = "create"
    BY DEF Tasks, VmOf
  <2>2. CASE v = VmOf(t)
    <3>1. root'[v] = NoVolume /\ Rows(v) = {}
      BY <1>1, <1>3, <1>7, <2>2, Zenon DEF Cleared, RootTaken, RowsTaken
    <3>2. pc'[<<"create", v>>] = "idle"
      BY <1>1, <1>2, <1>7, <2>1, <2>2, Zenon DEF Booked, Apart
    <3> QED
      BY <1>4, <1>5, <2>2, <3>1, <3>2, Zenon DEF Empty, Idle
  <2>3. CASE v # VmOf(t)
    <3>1. Idle("create", v) /\ Empty(v)
      BY <1>4, <1>7, <2>3, Zenon DEF Cleared, GoneEmpty
    <3>2. pc'[<<"create", v>>] = "idle"
      BY <1>2, <2>1, <2>3, <3>1, Zenon DEF Idle
    <3> QED
      BY <1>4, <1>5, <2>3, <3>1, <3>2, Zenon DEF Empty, Idle
  <2> QED
    BY <2>2, <2>3, Zenon
<1>8. GoneEmpty'
  BY <1>7, Zenon DEF GoneEmpty
<1> QED
  BY <1>4, <1>6, <1>8, Zenon DEF Cleared

-----------------------------------------------------------------------------
(* The other steps. *)

\* A task begins before the rootfs; a create that begins takes the VM back from
\* the gone ones.
LEMMA ClearedStarts ==
  ASSUME Booked, Cleared, NEW v \in VMs, CreateVm(v) \/ DeleteVm(v) \/ SweepVolumes(v)
  PROVE  Cleared'
<1>1. UNCHANGED <<ledger, row, root, todo>>
  BY Zenon DEF CreateVm, DeleteVm, SweepVolumes, diskVars, imageVars
<1>2. \A w \in VMs : raced[w] => raced'[w]
  BY Zenon DEF CreateVm, DeleteVm, SweepVolumes, callVars, Booked, LedgerType
<1>3. PICK k \in {"create", "delete", "sweep"}, l \in Labels \ Past :
         /\ Goto(<<k, v>>, l)
         /\ k = "create" => gone' = [gone EXCEPT ![v] = FALSE]
         /\ k # "create" => gone' = gone
  BY Zenon DEF CreateVm, DeleteVm, SweepVolumes, diskVars, Labels, Away, Past
<1>4. /\ <<k, v>> \in Tasks
      /\ \A w \in VMs : <<"create", w>> \in Tasks /\ (<<"create", w>> = <<k, v>> => k = "create" /\ w = v)
  BY DEF Tasks
<1>5. pc'[<<k, v>>] = l /\ \A u \in Tasks : u # <<k, v>> => pc'[u] = pc[u]
  BY <1>3, <1>4, Zenon DEF Booked, LedgerType, Goto
<1>6. \A w : Rows(w)' = Rows(w)
  BY <1>1, Zenon DEF Rows
<1>7. \A u \in Tasks : pc'[u] \in Past => pc'[u] = pc[u]
  BY <1>3, <1>5, Zenon
<1>8. Listed \subseteq Past /\ "drop" \in Past
  BY Zenon DEF Past, Listed
<1>9. RootTaken' /\ RowsListed' /\ RowsTaken'
  BY <1>1, <1>2, <1>6, <1>7, <1>8, VmOfType, Zenon DEF Cleared, RootTaken, RowsListed, RowsTaken
<1>10. /\ gone' \in [VMs -> BOOLEAN]
       /\ \A w \in VMs : gone'[w] => gone[w] /\ (k = "create" => w # v)
  BY <1>3, Zenon DEF Cleared
<1>11. ASSUME NEW w \in VMs, gone'[w], ~raced'[w] PROVE (Idle("create", w) /\ Empty(w))'
  <2>1. Idle("create", w) /\ Empty(w)
    BY <1>2, <1>10, <1>11, Zenon DEF Cleared, GoneEmpty
  <2>2. pc'[<<"create", w>>] = "idle"
    BY <1>4, <1>5, <1>10, <1>11, <2>1, Zenon DEF Idle
  <2> QED
    BY <1>1, <1>6, <2>1, <2>2, Zenon DEF Empty, Idle
<1>12. GoneEmpty'
  BY <1>11, Zenon DEF GoneEmpty
<1>13. row' \in [VMs -> BOOLEAN]
  BY <1>1, Zenon DEF Cleared
<1> QED
  BY <1>9, <1>10, <1>12, <1>13, Zenon DEF Cleared

\* A restart ends the tasks and leaves what there is; so does a step elsewhere.
LEMMA ClearedElsewhere ==
  ASSUME Booked, Cleared, UNCHANGED <<ledger, row, root, gone, raced>>,
         UNCHANGED <<pc, todo>> \/ pc' = [t \in Tasks |-> "idle"]
  PROVE  Cleared'
<1>1. \A v : Rows(v)' = Rows(v)
  BY Zenon DEF Rows
<1>2. "idle" \notin Past /\ "idle" \notin Listed /\ "idle" # "drop"
  BY Zenon DEF Past, Listed
<1>3. RootTaken' /\ RowsListed' /\ RowsTaken'
  BY <1>1, <1>2, Zenon DEF Cleared, RootTaken, RowsListed, RowsTaken
<1>4. \A v \in VMs : Empty(v) => Empty(v)'
  BY <1>1, Zenon DEF Empty
<1>5. \A v \in VMs : Idle("create", v) => Idle("create", v)'
  BY Zenon DEF Idle, Tasks
<1>6. GoneEmpty'
  BY <1>4, <1>5, Zenon DEF Cleared, GoneEmpty
<1> QED
  BY <1>3, <1>6, Zenon DEF Cleared

\* Cleared is inductive beside Booked.
LEMMA ClearedNext == Booked /\ Whole /\ Cleared /\ [Next]_vars => Cleared'
<1> SUFFICES ASSUME Booked, Whole, Cleared, [Next]_vars PROVE Cleared'
  OBVIOUS
<1>1. ImageType
  BY Zenon DEF Whole
<1>2. ASSUME NEW t \in Tasks, ImageStep(t), UNCHANGED <<diskVars, callVars>> PROVE Cleared'
  <2>1. CASE pc[t] \notin Removal
    BY <1>1, <1>2, <2>1, ClearedImage, Zenon
  <2>2. CASE pc[t] \in Removal
    <3>1. StopVm(t) \/ RemoveRoot(t)
      BY <1>2, <2>2, Zenon DEF ImageStep, Removal, FastPath, LockImage, FetchManifest, PullRootfs,
         Unpack, PullBoot, SizeImage, MakeGolden, FillGolden, SealGolden, SnapshotRoot
    <3> QED
      BY <1>1, <1>2, <3>1, ClearedRoot, Zenon
  <2> QED
    BY <2>1, <2>2, Zenon
<1>3. ASSUME NEW t \in Tasks, DiskStep(t), UNCHANGED <<imageVars, callVars>> PROVE Cleared'
  <2>1. UNCHANGED <<root, raced>>
    BY <1>3, Zenon DEF imageVars, callVars
  <2> QED
    BY <1>3, <2>1, ClearedInsertRow, ClearedAllocates, ClearedVolumes, ClearedReadRows,
       ClearedReaps, ClearedDeleteRow, ClearedDropRow, Zenon DEF DiskStep
<1>4. ASSUME NEW t \in Tasks, Boot(t) PROVE Cleared'
  <2>1. UNCHANGED <<root, raced>>
    BY <1>4, Zenon DEF Boot, imageVars, callVars
  <2> QED
    BY <1>4, <2>1, ClearedVolumes, Zenon
<1>5. ASSUME NEW t \in Tasks, TaskStep(t) PROVE Cleared'
  BY <1>2, <1>3, <1>4, <1>5, Zenon DEF TaskStep
<1>6. CASE Publish /\ UNCHANGED <<diskVars, callVars>>
  BY <1>6, ClearedElsewhere, Zenon DEF Publish, taskVars, diskVars, callVars
<1>7. CASE UNCHANGED vars
  BY <1>7, ClearedElsewhere, Zenon DEF vars, taskVars, imageVars, diskVars, callVars
<1>8. CASE Crash
  BY <1>8, ClearedElsewhere, Zenon DEF Crash, callVars
<1> QED
  BY <1>5, <1>6, <1>7, <1>8, ClearedStarts, Zenon DEF Next

\* On an empty host nothing is gone yet.
LEMMA ClearedInit == Init => Cleared
<1> SUFFICES ASSUME Init PROVE Cleared
  OBVIOUS
<1>1. /\ pc = [t \in Tasks |-> "idle"] /\ row = [v \in VMs |-> FALSE]
      /\ gone = [v \in VMs |-> FALSE]
  BY Zenon DEF Init, TaskInit, DiskInit
<1>2. "idle" \notin Past /\ "idle" \notin Listed /\ "idle" # "drop"
  BY Zenon DEF Past, Listed
<1>3. RootTaken /\ RowsListed /\ RowsTaken
  BY <1>1, <1>2, Zenon DEF RootTaken, RowsListed, RowsTaken
<1>4. GoneEmpty
  BY <1>1, Zenon DEF GoneEmpty
<1> QED
  BY <1>1, <1>3, <1>4, Zenon DEF Cleared

-----------------------------------------------------------------------------
(***************************************************************************)
(* Fresh is inductive beside Booked and Cleared: delete_vm drops a VM's    *)
(* row when it has no reservation left, and a create inserts that row      *)
(* before it makes one.                                                    *)
(***************************************************************************)

\* What happened stays on record, whatever the step.
LEMMA HistoryGrows ==
  ASSUME Whole, [Next]_vars PROVE happened \subseteq happened'
<1>1. ASSUME NEW t \in Tasks, ImageStep(t) PROVE happened \subseteq happened'
  BY <1>1, NotRecorded, Recorded, Zenon DEF ImageStep, FastPath, LockImage, FetchManifest, PullRootfs,
     Unpack, PullBoot, SizeImage, MakeGolden, FillGolden, SealGolden, SnapshotRoot, StopVm, RemoveRoot
<1>2. ASSUME NEW t \in Tasks, DiskStep(t) PROVE happened \subseteq happened'
  BY <1>2, DiskMoves, Zenon DEF Whole
<1>3. ASSUME NEW t \in Tasks, Boot(t) PROVE happened \subseteq happened'
  BY <1>3, NotRecorded, Recorded, Zenon DEF Boot
<1>4. ASSUME NEW t \in Tasks, TaskStep(t) PROVE happened \subseteq happened'
  BY <1>1, <1>2, <1>3, <1>4, Zenon DEF TaskStep
<1>5. ASSUME NEW v \in VMs, CreateVm(v) \/ DeleteVm(v) \/ SweepVolumes(v)
      PROVE  happened \subseteq happened'
  BY <1>5, Zenon DEF CreateVm, DeleteVm, SweepVolumes
<1>6. CASE Publish \/ UNCHANGED vars
  BY <1>6, Zenon DEF Publish, vars, taskVars
<1>7. CASE Crash
  BY <1>7, Recorded, Zenon DEF Crash
<1> QED
  BY <1>4, <1>5, <1>6, <1>7, Zenon DEF Next

\* A step of a task that works already: it minds the rows of its own VM, and any
\* other task that makes volumes for this VM overlaps with it.
LEMMA FreshMoves ==
  ASSUME Booked, RowsOwned, Unbooked, NEW t \in Tasks, NEW l \in Labels, Goto(t, l),
         pc[t] # "idle", UNCHANGED raced, \A u \in Tasks : u # t => todo'[u] = todo[u],
         \A v \in VMs : v # VmOf(t) => row'[v] = row[v],
         \A x \in Disks : x[1] # VmOf(t) => ledger'[x] = ledger[x],
         \A x \in Disks : x[1] = VmOf(t) => ledger'[x] = "none" \/ row'[VmOf(t)] \/ raced[VmOf(t)],
         l \in Making => Clear(t)'
  PROVE  RowsOwned' /\ Unbooked'
<1>1. pc'[t] = l /\ \A u \in Tasks : u # t => pc'[u] = pc[u]
  BY Zenon DEF Booked, LedgerType, Goto
<1>2. \A x \in Disks : x[1] \in VMs
  BY DiskAssumption, Zenon
<1>3. RowsOwned'
  BY <1>2, Zenon DEF RowsOwned
<1>4. ASSUME NEW u \in Tasks, pc'[u] \in Making, ~raced'[VmOf(u)]
      PROVE  Clear(u)'
  <2>1. CASE u = t
    BY <1>1, <1>4, <2>1, Zenon
  <2>2. CASE u # t
    <3>1. pc[u] \in Making /\ pc[u] # "idle" /\ u[1] = "create"
      BY <1>1, <1>4, <2>2, Zenon DEF Making, Booked, Removers, Removal
    <3>2. VmOf(u) # VmOf(t)
      BY <1>4, <2>2, <3>1, Zenon DEF Booked, Apart
    <3>3. Current(u)' = Current(u)
      BY <2>2, Zenon DEF Current
    <3>4. Ahead(u)' = Ahead(u)
      BY <1>1, <2>2, <3>3, Zenon DEF Ahead
    <3>5. \A x \in Ahead(u) : x \in Disks /\ x[1] = VmOf(u)
      BY Zenon DEF Ahead, Booked, LedgerType, OwnDisks
    <3>6. row[VmOf(u)] /\ \A x \in Ahead(u) : ledger[x] = "none"
      BY <1>4, <3>1, Zenon DEF Unbooked, Clear
    <3>7. row'[VmOf(u)]
      BY <3>2, <3>6, VmOfType, Zenon
    <3>8. \A x \in Ahead(u) : ledger'[x] = "none"
      BY <3>2, <3>5, <3>6, Zenon
    <3> QED
      BY <3>4, <3>7, <3>8, Zenon DEF Clear
  <2> QED
    BY <2>1, <2>2, Zenon
<1> QED
  BY <1>3, <1>4, Zenon DEF Unbooked, Clear

\* A step that makes no reservation and drops no row, and after which the task
\* makes no volumes.
LEMMA FreshLeaves ==
  ASSUME Booked, RowsOwned, Unbooked, NEW t \in Tasks, NEW l \in Labels \ Making, Goto(t, l),
         pc[t] # "idle", UNCHANGED <<raced, row>>, \A u \in Tasks : u # t => todo'[u] = todo[u],
         \A x \in Disks : x[1] # VmOf(t) => ledger'[x] = ledger[x],
         \A x \in Disks : ledger[x] = "none" => ledger'[x] = "none"
  PROVE  RowsOwned' /\ Unbooked'
<1>1. \A x \in Disks : x[1] = VmOf(t) => ledger'[x] = "none" \/ row'[VmOf(t)] \/ raced[VmOf(t)]
  BY Zenon DEF RowsOwned
<1> QED
  BY <1>1, FreshMoves, Zenon

\* The image: a create that has its snapshot goes on to its disks.
LEMMA FreshImage ==
  ASSUME Booked, RowsOwned, Unbooked, NEW t \in Tasks, ImageStep(t),
         UNCHANGED <<diskVars, callVars>>
  PROVE  RowsOwned' /\ Unbooked'
<1>1. UNCHANGED <<row, ledger, todo, raced>> /\ pc[t] # "idle"
  BY ImageMoves, Zenon DEF diskVars, callVars
<1>2. CASE pc[t] = "snapshot" /\ Goto(t, "disks")
  <2>1. "disks" \in Labels /\ pc[t] \in Making
    BY <1>2, Zenon DEF Labels, Away, Making
  <2>2. pc'[t] = "disks"
    BY <1>2, Zenon DEF Booked, LedgerType, Goto
  <2>3. Ahead(t)' = Ahead(t)
    BY <1>1, <1>2, <2>2, Zenon DEF Ahead
  <2>4. Clear(t)'
    BY <1>1, <2>1, <2>3, Zenon DEF Unbooked, Clear
  <2>5. \A x \in Disks : x[1] = VmOf(t) => ledger'[x] = "none" \/ row'[VmOf(t)] \/ raced[VmOf(t)]
    BY <1>1, Zenon DEF RowsOwned
  <2> QED
    BY <1>1, <1>2, <2>1, <2>4, <2>5, FreshMoves, Zenon
<1>3. CASE \E l \in Labels \ Making : Goto(t, l)
  BY <1>1, <1>3, FreshLeaves, Zenon
<1>4. (pc[t] = "snapshot" /\ Goto(t, "disks")) \/ \E l \in Labels \ Making : Goto(t, l)
  <2> USE DEF Labels, Pulling, Unpacked, Away, Making
  <2>1. CASE FastPath(t)
    BY <2>1, Zenon DEF FastPath, ImageFails
  <2>2. CASE LockImage(t)
    BY <2>2, Zenon DEF LockImage
  <2>3. CASE FetchManifest(t)
    BY <2>3, Zenon DEF FetchManifest, ImageFails
  <2>4. CASE PullRootfs(t)
    BY <2>4, Zenon DEF PullRootfs, ImageFails
  <2>5. CASE Unpack(t)
    BY <2>5, Zenon DEF Unpack, ImageFails
  <2>6. CASE PullBoot(t, "vmlinuz", "initrd") \/ PullBoot(t, "initrd", "size")
    BY <2>6, Zenon DEF PullBoot, ImageFails
  <2>7. CASE SizeImage(t)
    BY <2>7, Zenon DEF SizeImage, ImageFails
  <2>8. CASE MakeGolden(t)
    BY <2>8, Zenon DEF MakeGolden, ImageFails
  <2>9. CASE FillGolden(t) \/ SealGolden(t)
    BY <2>9, Zenon DEF FillGolden, SealGolden, ImageFails
  <2>10. CASE SnapshotRoot(t)
    BY <2>10, Zenon DEF SnapshotRoot, ImageFails
  <2>11. CASE StopVm(t) \/ RemoveRoot(t)
    BY <2>11, Zenon DEF StopVm, RemoveRoot
  <2> QED
    BY <2>1, <2>2, <2>3, <2>4, <2>5, <2>6, <2>7, <2>8, <2>9, <2>10, <2>11, Zenon DEF ImageStep
<1> QED
  BY <1>2, <1>3, <1>4, Zenon

\* create_vm on its disks.
LEMMA FreshCreates ==
  ASSUME Booked, Cleared, RowsOwned, Unbooked, NEW t \in Tasks, UNCHANGED raced,
         InsertRow(t) \/ Reserve(t) \/ CreateVolume(t) \/ MarkReady(t)
  PROVE  RowsOwned' /\ Unbooked'
<1> DEFINE v == VmOf(t)
           x == Current(t)
<1>1. /\ pc[t] \in {"checks", "disks", "lvcreate", "ready"} /\ pc[t] # "idle" /\ v \in VMs
      /\ pc \in [Tasks -> Labels] /\ todo \in [Tasks -> SUBSET Disks]
      /\ ledger \in [Disks -> {"none", "Creating", "Ready", "Deleting"}]
  BY VmOfType, Zenon DEF InsertRow, Reserve, CreateVolume, MarkReady, Booked, LedgerType
<1>2. todo[t] # {} => x \in todo[t] /\ x \in Disks /\ x[1] = v
  BY CurrentOwn, Zenon
<1>3. {"snapshot", "disks", "lvcreate", "ready", "boot", "undo"} \subseteq Labels
  BY Zenon DEF Labels, Away
<1> HIDE DEF x, v
<1>4. CASE /\ DisksFail(t) /\ UNCHANGED row
           /\ ledger' = ledger \/ (todo[t] # {} /\ ledger' = [ledger EXCEPT ![x] = "none"])
  <2>1. Goto(t, "undo") /\ "undo" \in Labels \ Making
    BY <1>3, <1>4, Zenon DEF DisksFail, Making
  <2>2. \A u \in Tasks : u # t => todo'[u] = todo[u]
    BY <1>1, <1>4, Zenon DEF DisksFail
  <2>3. /\ \A y \in Disks : y[1] # VmOf(t) => ledger'[y] = ledger[y]
        /\ \A y \in Disks : ledger[y] = "none" => ledger'[y] = "none"
    BY <1>1, <1>2, <1>4, Zenon DEF v
  <2> QED
    BY <1>1, <1>4, <2>1, <2>2, <2>3, FreshLeaves, Zenon
<1>5. CASE /\ pc[t] = "checks" /\ ~row[v] /\ row' = [row EXCEPT ![v] = TRUE] /\ UNCHANGED ledger
           /\ todo' = [todo EXCEPT ![t] = DisksOf(v)] /\ Goto(t, "snapshot") /\ row \in [VMs -> BOOLEAN]
  <2>1. pc'[t] = "snapshot" /\ todo'[t] = DisksOf(v) /\ \A u \in Tasks : u # t => todo'[u] = todo[u]
    BY <1>1, <1>5, Zenon DEF Goto, DisksOf
  <2>2. row'[v] /\ \A w \in VMs : w # v => row'[w] = row[w]
    BY <1>1, <1>5, Zenon
  <2>3. Ahead(t)' = DisksOf(v)
    BY <2>1, Zenon DEF Ahead
  <2>4. Clear(t)'
    BY <1>5, <2>2, <2>3, Zenon DEF RowsOwned, DisksOf, Clear, v
  <2> QED
    BY <1>1, <1>3, <1>5, <2>1, <2>2, <2>4, FreshMoves, Zenon DEF v
<1>6. CASE pc[t] \in Making /\ UNCHANGED row
  <2>1. raced[v] \/ (row[v] /\ \A y \in Ahead(t) : ledger[y] = "none")
    BY <1>6, Zenon DEF Unbooked, Clear, v
  <2>2. CASE /\ todo[t] # {} /\ UNCHANGED todo /\ pc[t] = "disks" /\ Goto(t, "lvcreate")
             /\ ledger' = [ledger EXCEPT ![x] = "Creating"]
    <3>1. pc'[t] = "lvcreate" /\ Current(t)' = x
      BY <1>1, <2>2, Zenon DEF Goto, Current, x
    <3>2. Ahead(t)' = todo[t] \ {x} /\ Ahead(t) = todo[t]
      BY <2>2, <3>1, Zenon DEF Ahead
    <3>3. /\ \A y \in Disks : y[1] # v => ledger'[y] = ledger[y]
          /\ \A y \in Disks : y # x => ledger'[y] = ledger[y]
      BY <1>1, <1>2, <2>2, Zenon
    <3>4. Clear(t)'
      BY <1>1, <1>6, <2>1, <3>2, <3>3, Zenon DEF Clear, v
    <3>5. raced[v] \/ row'[v]
      BY <1>6, <2>1, Zenon
    <3> QED
      BY <1>1, <1>3, <1>6, <2>2, <3>3, <3>4, <3>5, FreshMoves, Zenon DEF v
  <2>3. CASE /\ UNCHANGED ledger /\ pc[t] = "disks"
             /\ \/ UNCHANGED todo /\ Goto(t, "boot")
                \/ UNCHANGED pc /\ todo' = [todo EXCEPT ![t] = @ \ {x}]
    <3>1. /\ \E l \in {"boot", "disks"} : Goto(t, l) /\ pc'[t] = l
          /\ todo'[t] \subseteq todo[t] /\ \A u \in Tasks : u # t => todo'[u] = todo[u]
      BY <1>1, <2>3, Zenon DEF Goto
    <3>2. PICK l \in {"boot", "disks"} : Goto(t, l) /\ pc'[t] = l
      BY <3>1, Zenon
    <3>3. Ahead(t)' \subseteq Ahead(t)
      BY <2>3, <3>1, <3>2, Zenon DEF Ahead
    <3>4. Clear(t)'
      BY <1>6, <2>1, <2>3, <3>3, Zenon DEF Clear, v
    <3>5. \A y \in Disks : y[1] = v => ledger'[y] = "none" \/ row'[v] \/ raced[v]
      BY <1>6, <2>1, <2>3, Zenon
    <3> QED
      BY <1>1, <1>3, <1>6, <2>3, <3>1, <3>2, <3>4, <3>5, FreshMoves, Zenon DEF v
  <2>4. CASE UNCHANGED <<ledger, todo>> /\ pc[t] = "lvcreate" /\ Goto(t, "ready")
    <3>1. pc'[t] = "ready" /\ Current(t)' = Current(t)
      BY <1>1, <2>4, Zenon DEF Goto, Current
    <3>2. Ahead(t)' = Ahead(t)
      BY <2>4, <3>1, Zenon DEF Ahead
    <3>3. Clear(t)'
      BY <1>6, <2>1, <2>4, <3>2, Zenon DEF Clear, v
    <3>4. \A y \in Disks : y[1] = v => ledger'[y] = "none" \/ row'[v] \/ raced[v]
      BY <1>6, <2>1, <2>4, Zenon
    <3> QED
      BY <1>1, <1>3, <1>6, <2>4, <3>3, <3>4, FreshMoves, Zenon DEF v
  <2>5. CASE /\ todo[t] # {} /\ todo' = [todo EXCEPT ![t] = @ \ {x}] /\ pc[t] = "ready"
             /\ Goto(t, "disks") /\ \E e : ledger' = [ledger EXCEPT ![x] = e]
    <3>1. /\ pc'[t] = "disks" /\ todo'[t] = todo[t] \ {x}
          /\ \A u \in Tasks : u # t => todo'[u] = todo[u]
      BY <1>1, <2>5, Zenon DEF Goto
    <3>2. Ahead(t)' = todo[t] \ {x} /\ Ahead(t) = todo[t] \ {x}
      BY <2>5, <3>1, Zenon DEF Ahead, x
    <3>3. /\ \A y \in Disks : y[1] # v => ledger'[y] = ledger[y]
          /\ \A y \in Disks : y # x => ledger'[y] = ledger[y]
      BY <1>1, <1>2, <2>5, Zenon
    <3>4. Clear(t)'
      BY <1>1, <1>6, <2>1, <3>2, <3>3, Zenon DEF Clear, v
    <3>5. raced[v] \/ row'[v]
      BY <1>6, <2>1, Zenon
    <3> QED
      BY <1>1, <1>3, <1>6, <2>5, <3>1, <3>3, <3>4, <3>5, FreshMoves, Zenon DEF v
  <2>6. \/ DisksFail(t) /\ (ledger' = ledger \/ (todo[t] # {} /\ ledger' = [ledger EXCEPT ![x] = "none"]))
        \/ /\ todo[t] # {} /\ UNCHANGED todo /\ pc[t] = "disks" /\ Goto(t, "lvcreate")
           /\ ledger' = [ledger EXCEPT ![x] = "Creating"]
        \/ /\ UNCHANGED ledger /\ pc[t] = "disks"
           /\ \/ UNCHANGED todo /\ Goto(t, "boot")
              \/ UNCHANGED pc /\ todo' = [todo EXCEPT ![t] = @ \ {x}]
        \/ UNCHANGED <<ledger, todo>> /\ pc[t] = "lvcreate" /\ Goto(t, "ready")
        \/ /\ todo[t] # {} /\ todo' = [todo EXCEPT ![t] = @ \ {x}] /\ pc[t] = "ready"
           /\ Goto(t, "disks") /\ \E e : ledger' = [ledger EXCEPT ![x] = e]
    <3>1. CASE Reserve(t)
      BY <3>1, Zenon DEF Reserve, x
    <3>2. CASE CreateVolume(t)
      BY <3>2, Zenon DEF CreateVolume
    <3>3. CASE MarkReady(t)
      <4>1. todo[t] # {}
        BY <3>3, Zenon DEF MarkReady, Booked, OwnDisks, AtDisk
      <4> QED
        BY <3>3, <4>1, Zenon DEF MarkReady, x
    <3>4. ~InsertRow(t)
      BY <1>6, Zenon DEF InsertRow, Making
    <3> QED
      BY <3>1, <3>2, <3>3, <3>4, Zenon
  <2> QED
    BY <1>4, <1>6, <2>2, <2>3, <2>4, <2>5, <2>6, Zenon
<1>7. CASE InsertRow(t)
  BY <1>4, <1>5, <1>7, Zenon DEF InsertRow, Cleared, v
<1> QED
  BY <1>1, <1>6, <1>7, Zenon DEF Reserve, CreateVolume, MarkReady, Making

\* release, the start of the hypervisor and the last step of delete_vm, which
\* drops the row of a VM that has no reservation.
LEMMA FreshReleases ==
  ASSUME Booked, Cleared, RowsOwned, Unbooked, NEW t \in Tasks, UNCHANGED raced,
         \/ ReadRows(t) \/ MarkDeleting(t) \/ RemoveVolume(t) \/ DeleteRow(t)
         \/ DropRow(t) \/ Boot(t)
  PROVE  RowsOwned' /\ Unbooked'
<1>1. /\ pc[t] \in {"release", "mark", "reap", "unrow", "drop", "boot"} /\ pc[t] # "idle"
      /\ VmOf(t) \in VMs /\ todo \in [Tasks -> SUBSET Disks]
      /\ ledger \in [Disks -> {"none", "Creating", "Ready", "Deleting"}]
  BY VmOfType, Zenon DEF ReadRows, MarkDeleting, RemoveVolume, DeleteRow, DropRow, Boot,
     Booked, LedgerType
<1>2. PICK l \in Labels \ Making : Goto(t, l)
  <2> USE DEF Labels, Away, Making
  <2>1. CASE ReadRows(t)
    BY <2>1, Zenon DEF ReadRows, AfterRelease, ReleaseFails
  <2>2. CASE MarkDeleting(t)
    BY <2>2, Zenon DEF MarkDeleting, ReleaseFails
  <2>3. CASE RemoveVolume(t)
    BY <2>3, Zenon DEF RemoveVolume, ReleaseFails
  <2>4. CASE DeleteRow(t)
    BY <2>4, Zenon DEF DeleteRow, AfterRelease, ReleaseFails
  <2>5. CASE DropRow(t) \/ Boot(t)
    BY <2>5, Zenon DEF DropRow, Boot, DisksFail
  <2> QED
    BY <2>1, <2>2, <2>3, <2>4, <2>5, Zenon
<1>3. \A u \in Tasks : u # t => todo'[u] = todo[u]
  BY <1>1, Zenon DEF ReadRows, MarkDeleting, RemoveVolume, DeleteRow, DropRow, Boot, ReleaseFails,
     DisksFail
<1>4. /\ \A x \in Disks : x[1] # VmOf(t) => ledger'[x] = ledger[x]
      /\ \A x \in Disks : ledger[x] = "none" => ledger'[x] = "none"
  <2>1. CASE UNCHANGED ledger
    BY <2>1, Zenon
  <2>2. CASE DeleteRow(t) /\ ledger' = [ledger EXCEPT ![Current(t)] = "none"]
    <3>1. todo[t] # {}
      BY <2>2, Zenon DEF DeleteRow, Booked, OwnDisks, AtDisk
    <3>2. Current(t) \in Disks /\ Current(t)[1] = VmOf(t)
      BY <3>1, CurrentOwn, Zenon
    <3> QED
      BY <1>1, <2>2, <3>2, Zenon
  <2>3. CASE MarkDeleting(t)
    <3>1. PICK S \in SUBSET todo[t] : ledger' = Marked(S)
      BY <2>3, Zenon DEF MarkDeleting
    <3> QED
      BY <3>1, Zenon DEF Marked, Booked, OwnDisks
  <2> QED
    BY <2>1, <2>2, <2>3, Zenon DEF ReadRows, RemoveVolume, DeleteRow, DropRow, Boot
<1>5. CASE UNCHANGED row
  BY <1>1, <1>2, <1>3, <1>4, <1>5, FreshLeaves, Zenon
<1>6. CASE DropRow(t) /\ row' = [row EXCEPT ![VmOf(t)] = FALSE]
  <2>1. \A v \in VMs : v # VmOf(t) => row'[v] = row[v]
    BY <1>6, Zenon DEF Cleared
  <2>2. Rows(VmOf(t)) = {} \/ raced[VmOf(t)]
    BY <1>6, Zenon DEF DropRow, Cleared, RowsTaken
  <2>3. \A x \in Disks : x[1] = VmOf(t) => ledger'[x] = "none" \/ raced[VmOf(t)]
    BY <1>4, <2>2, Zenon DEF Rows, DisksOf
  <2> QED
    BY <1>1, <1>2, <1>3, <1>4, <2>1, <2>3, FreshMoves, Zenon
<1> QED
  BY <1>5, <1>6, Zenon DEF ReadRows, MarkDeleting, RemoveVolume, DeleteRow, DropRow, Boot

\* A task that begins, or that ends with the agent, makes no volumes; so for a
\* step elsewhere.
LEMMA FreshElsewhere ==
  ASSUME Booked, RowsOwned, Unbooked, UNCHANGED <<row, ledger>>,
         \A v \in VMs : raced[v] => raced'[v],
         \A t \in Tasks : pc'[t] \in Making => pc'[t] = pc[t] /\ todo'[t] = todo[t]
  PROVE  RowsOwned' /\ Unbooked'
<1>1. \A x \in Disks : x[1] \in VMs
  BY DiskAssumption, Zenon
<1>2. RowsOwned'
  BY <1>1, Zenon DEF RowsOwned
<1>3. ASSUME NEW t \in Tasks, pc'[t] \in Making, ~raced'[VmOf(t)]
      PROVE  Clear(t)'
  <2>1. Current(t)' = Current(t)
    BY <1>3, Zenon DEF Current
  <2>2. Ahead(t)' = Ahead(t)
    BY <1>3, <2>1, Zenon DEF Ahead
  <2> QED
    BY <1>3, <2>2, VmOfType, Zenon DEF Unbooked, Clear
<1> QED
  BY <1>2, <1>3, Zenon DEF Unbooked, Clear

\* RowsOwned and Unbooked through every step.
LEMMA OwnedNext ==
  ASSUME Booked, Cleared, RowsOwned, Unbooked, [Next]_vars PROVE RowsOwned' /\ Unbooked'
<1>1. ASSUME NEW t \in Tasks, TaskStep(t) PROVE RowsOwned' /\ Unbooked'
  <2>1. UNCHANGED raced
    BY <1>1, Zenon DEF TaskStep, Boot, callVars
  <2> QED
    BY <1>1, <2>1, FreshImage, FreshCreates, FreshReleases, Zenon DEF TaskStep, DiskStep
<1>2. ASSUME NEW v \in VMs, CreateVm(v) \/ DeleteVm(v) \/ SweepVolumes(v)
      PROVE  RowsOwned' /\ Unbooked'
  <2>1. UNCHANGED <<row, ledger, todo>>
    BY <1>2, Zenon DEF CreateVm, DeleteVm, SweepVolumes, diskVars
  <2>2. \A w \in VMs : raced[w] => raced'[w]
    BY <1>2, Zenon DEF CreateVm, DeleteVm, SweepVolumes, callVars, Booked, LedgerType
  <2>3. PICK k \in {"create", "delete", "sweep"}, l \in {"ensure", "undo", "rmroot"} : Goto(<<k, v>>, l)
    BY <1>2, Zenon DEF CreateVm, DeleteVm, SweepVolumes
  <2>4. <<k, v>> \in Tasks
    BY Zenon DEF Tasks
  <2>5. pc'[<<k, v>>] = l /\ \A u \in Tasks : u # <<k, v>> => pc'[u] = pc[u]
    BY <2>3, <2>4, Zenon DEF Booked, LedgerType, Goto
  <2>6. l \notin Making
    BY Zenon DEF Making
  <2> QED
    BY <2>1, <2>2, <2>5, <2>6, FreshElsewhere, Zenon
<1>3. CASE Crash
  <2>1. UNCHANGED <<row, ledger, raced>> /\ \A t \in Tasks : pc'[t] \notin Making
    BY <1>3, Zenon DEF Crash, callVars, Making
  <2> QED
    BY <2>1, FreshElsewhere, Zenon
<1>4. CASE (Publish /\ UNCHANGED <<diskVars, callVars>>) \/ UNCHANGED vars
  <2>1. UNCHANGED <<row, ledger, raced, pc, todo>>
    BY <1>4, Zenon DEF Publish, vars, taskVars, diskVars, callVars
  <2> QED
    BY <2>1, FreshElsewhere, Zenon
<1> QED
  BY <1>1, <1>2, <1>3, <1>4, Zenon DEF Next

\* The row of a VM that is gone: only a create inserts it, and the VM of a create
\* is not gone.
LEMMA GoneRowNext ==
  ASSUME Whole, Booked, Cleared, GoneRow, [Next]_vars PROVE GoneRow'
<1>1. happened \subseteq happened'
  BY HistoryGrows, Zenon
<1>2. \A v \in VMs : raced[v] => raced'[v]
  <2>1. CASE UNCHANGED raced
    BY <2>1, Zenon
  <2>2. CASE \E v \in VMs : CreateVm(v) \/ DeleteVm(v)
    BY <2>2, Zenon DEF CreateVm, DeleteVm, Booked, LedgerType
  <2> QED
    BY <2>1, <2>2, Zenon DEF Next, SweepVolumes, TaskStep, Boot, Crash, vars, callVars
<1>3. CASE UNCHANGED row /\ \A v \in VMs : gone'[v] => gone[v]
  BY <1>1, <1>2, <1>3, Zenon DEF GoneRow
<1>4. ASSUME NEW t \in Tasks, InsertRow(t), UNCHANGED <<gone, raced>>,
             row' = [row EXCEPT ![VmOf(t)] = TRUE]
      PROVE  GoneRow'
  <2>1. pc[t] \notin Removal /\ pc[t] # "idle"
    BY <1>4, Zenon DEF InsertRow, Removal
  <2>2. ~raced[VmOf(t)] => ~gone[VmOf(t)]
    BY <2>1, Maker, Zenon
  <2>3. \A v \in VMs : v # VmOf(t) => row'[v] = row[v]
    BY <1>4, Zenon DEF Cleared
  <2> QED
    BY <1>1, <1>4, <2>2, <2>3, Zenon DEF GoneRow
<1>5. ASSUME NEW t \in Tasks, DropRow(t), UNCHANGED raced PROVE GoneRow'
  <2>1. \/ row' = [row EXCEPT ![VmOf(t)] = FALSE]
        \/ row' = row /\ "db" \in happened'
    BY <1>5, Recorded, Zenon DEF DropRow
  <2>2. \A v \in VMs : v # VmOf(t) => row'[v] = row[v] /\ gone'[v] = gone[v]
    BY <1>5, <2>1, Zenon DEF Cleared, DropRow
  <2>3. ~row'[VmOf(t)] \/ "db" \in happened'
    BY <2>1, VmOfType, Zenon DEF Cleared
  <2> QED
    BY <1>1, <1>5, <2>2, <2>3, Zenon DEF GoneRow
<1>6. ASSUME NEW t \in Tasks, TaskStep(t) PROVE GoneRow'
  <2>1. CASE UNCHANGED <<row, gone>>
    BY <1>3, <2>1, Zenon
  <2>2. UNCHANGED raced
    BY <1>6, Zenon DEF TaskStep, Boot, callVars
  <2>3. CASE DiskStep(t)
    <3>1. CASE InsertRow(t)
      BY <1>4, <2>1, <2>2, <3>1, Zenon DEF InsertRow
    <3>2. CASE DropRow(t)
      BY <1>5, <2>2, <3>2, Zenon
    <3> QED
      BY <2>1, <2>3, <3>1, <3>2, Zenon DEF DiskStep, Reserve, CreateVolume, MarkReady, ReadRows,
         MarkDeleting, RemoveVolume, DeleteRow
  <2> QED
    BY <1>6, <2>1, <2>3, Zenon DEF TaskStep, Boot, diskVars
<1>7. ASSUME NEW v \in VMs, CreateVm(v) \/ DeleteVm(v) \/ SweepVolumes(v) PROVE GoneRow'
  <2>1. UNCHANGED row /\ \A w \in VMs : gone'[w] => gone[w]
    BY <1>7, Zenon DEF CreateVm, DeleteVm, SweepVolumes, diskVars, Cleared
  <2> QED
    BY <1>3, <2>1, Zenon
<1>8. CASE (Publish /\ UNCHANGED <<diskVars, callVars>>) \/ Crash \/ UNCHANGED vars
  BY <1>3, <1>8, Zenon DEF Crash, vars, diskVars
<1> QED
  BY <1>6, <1>7, <1>8, Zenon DEF Next

\* Fresh is inductive beside the others.
LEMMA FreshNext == Whole /\ Booked /\ Cleared /\ Fresh /\ [Next]_vars => Fresh'
  BY OwnedNext, GoneRowNext, Zenon DEF Fresh

\* An empty host is fresh.
LEMMA FreshInit == Init => Fresh
<1> SUFFICES ASSUME Init PROVE Fresh
  OBVIOUS
<1>1. /\ pc = [t \in Tasks |-> "idle"] /\ ledger = [x \in Disks |-> "none"]
      /\ gone = [v \in VMs |-> FALSE]
  BY Zenon DEF Init, TaskInit, DiskInit
<1>2. "idle" \notin Making
  BY Zenon DEF Making
<1> QED
  BY <1>1, <1>2, Zenon DEF Fresh, RowsOwned, Unbooked, GoneRow

\* A data volume is in the ledger, where release will find it, whatever failed and
\* whenever the agent was restarted (LvmLinearBackend::allocate and release),
\* unless a delete overlapped the create of its VM.
THEOREM VolumesAreBooked == Spec => []LedgerCovers
<1>1. Booked => LedgerCovers
  BY Zenon DEF Booked
<1> QED
  BY <1>1, WholeInit, WholeNext, BookedInit, BookedNext, ClearedInit, ClearedNext, FreshInit,
     FreshNext, PTL DEF Spec

\* Once delete_vm, or the rollback of create_vm, has returned Ok, the host has no
\* hypervisor, no rootfs, no data volume and no reservation of the VM, whatever
\* failed on the way, whichever deletes and sweeps ran beside it and whenever the
\* agent was restarted, unless a create overlapped; and no row of it, unless the
\* database failed.
THEOREM DeletedStaysGone == Spec => []DeletedIsGone
<1>1. Whole /\ Booked /\ Cleared /\ Fresh => DeletedIsGone
  <2> SUFFICES ASSUME Whole, Booked, Cleared, Fresh, NEW v \in VMs, gone[v], ~raced[v]
               PROVE  /\ ~booted[v] /\ root[v] = NoVolume /\ volumes \cap DisksOf(v) = {}
                      /\ Rows(v) = {} /\ (~row[v] \/ "db" \in happened)
    BY Zenon DEF DeletedIsGone
  <2>1. root[v] = NoVolume /\ Rows(v) = {} /\ ~booted[v]
    BY Zenon DEF Cleared, GoneEmpty, Empty, Whole, RootWhole
  <2>2. volumes \cap DisksOf(v) \subseteq Rows(v)
    BY Zenon DEF Booked, LedgerCovers, Rows, DisksOf
  <2> QED
    BY <2>1, <2>2, Zenon DEF Fresh, GoneRow
<1> QED
  BY <1>1, WholeInit, WholeNext, BookedInit, BookedNext, ClearedInit, ClearedNext, FreshInit,
     FreshNext, PTL DEF Spec
===============================================================================
