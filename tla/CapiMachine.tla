---------------------------- MODULE CapiMachine -----------------------------
(***************************************************************************)
(* The BasisMachine reconciler: apply creates the VM once and then         *)
(* observes it, cleanup deletes it.  The id in the status is all that      *)
(* connects the object to its VM.                                          *)
(***************************************************************************)
EXTENDS Provider

\* resolve_cluster_ref reads the owning BasisCluster; ClusterNotReady is not
\* among the errors is_transient names.
ResolveCluster(m) ==
    /\ pc[m] = "resolve"
    /\ \/ obj[Cluster].id = 0 /\ Fail(m, "hard") /\ UNCHANGED <<cid, faults, happened>>
       \/ /\ obj[Cluster].id # 0
          /\ cid' = [cid EXCEPT ![m] = obj[Cluster].id] /\ Go(m, "client")
          /\ UNCHANGED <<err, faults, happened>>
       \/ Fault("kube") /\ Fail(m, "hard") /\ UNCHANGED cid
    /\ UNCHANGED <<rows, hosted, vms, calls, ans, nextCid, nextVid, vip, others, asked>>
    /\ UNCHANGED <<kubeVars, loc, cl, tries, cache, secret, want, phase>>

\* load_bootstrap_data: the Secret may be missing or without its value.
BootstrapData(m) == (Go(m, "rpc") /\ UNCHANGED err) \/ Fail(m, "hard")

\* find_bootstrap_secret: CAPI may not have got that far, which is transient.
Bootstrap(m) ==
    /\ pc[m] = "boot"
    /\ Fail(m, "transient") \/ BootstrapData(m)
    /\ UNCHANGED <<apiVars, kubeVars, loc, cid, cl, tries, cache, secret, want, phase>>

CallMachine(m) ==
    /\ Reaches(m)
    /\ \/ loc[m].del /\ DeleteMachine(m, loc[m].id)
       \/ ~loc[m].del /\ ~Creates(m) /\ GetMachine(m, loc[m].id)
       \/ ~loc[m].del /\ Creates(m) /\ BeginCreate(m, cid[m])

Creation_End(m) ==
    \/ ans[m].code = "ok" /\ Go(m, "status") /\ UNCHANGED <<loc, cid, cl, tries, err, due, ans>>
    \/ ans[m].code = "notfound" /\ Fail(m, "hard") /\ UNCHANGED <<loc, cid, cl, tries, due, ans>>

Observation_Waits(m) ==
    \/ ans[m].code = "notfound" /\ Go(m, "terminal") /\ UNCHANGED <<loc, cid, cl, tries, err, due, ans>>
    \/ /\ ans[m].code = "ok" /\ ans[m].st = "running"
       /\ Go(m, "status") /\ UNCHANGED <<loc, cid, cl, tries, err, due, ans>>
    \/ ans[m].code = "ok" /\ ans[m].st \in {"creating", "teardown", "failed"} /\ Done(m, TRUE)

\* observe_vm, and the VM that is not there any more.
Observation(m) ==
    \/ ans[m].code = "notfound" /\ Go(m, "terminal") /\ UNCHANGED <<loc, cid, cl, tries, err, due, ans>>
    \/ /\ ans[m].code = "ok" /\ ans[m].st = "running"
       /\ Go(m, "status") /\ UNCHANGED <<loc, cid, cl, tries, err, due, ans>>
    \/ /\ ans[m].code = "ok" /\ ans[m].st = "failed"
       /\ Fail(m, "hard") /\ UNCHANGED <<loc, cid, cl, tries, due, ans>>
    \/ ans[m].code = "ok" /\ ans[m].st \in {"creating", "teardown"} /\ Done(m, TRUE)

\* Deleted, or nothing to delete: the finalizer may go.
Deletion_End(m) ==
    /\ ans[m].code \in {"ok", "notfound"}
    /\ Go(m, "lift") /\ UNCHANGED <<loc, cid, cl, tries, err, due, ans>>

MachineAnswered(m) ==
    /\ pc[m] = "wait" /\ ans[m].code \in {"ok", "notfound"}
    /\ \/ loc[m].del /\ Deletion_End(m)
       \/ ~loc[m].del /\ ~Creates(m) /\ Observation(m)
       \/ ~loc[m].del /\ Creates(m) /\ Creation_End(m)
    /\ UNCHANGED <<rows, hosted, vms, calls, nextCid, nextVid, vip, others, asked, faults, happened>>
    /\ UNCHANGED <<obj, seen, cache, secret, want, phase>>

CommitStatus_NoId(m) ==
    /\ pc[m] = "status"
    /\ \/ /\ Patched(m, [obj[m] EXCEPT !.ready = TRUE, !.msg = FALSE, !.reason = FALSE])
          /\ Go(m, "spec") /\ UNCHANGED <<faults, happened, err>>
       \/ PatchRefused(m) /\ Fail(m, "hard")
       \/ PatchLost(m) /\ Fail(m, "hard")
    /\ UNCHANGED <<rows, hosted, vms, calls, ans, nextCid, nextVid, vip, others, asked>>
    /\ UNCHANGED <<seen, due, loc, cid, cl, tries, cache, secret, want, phase>>

\* commit_status: the id, ready, and no failure.
CommitStatus(m) ==
    /\ pc[m] = "status"
    /\ \/ /\ Patched(m, [obj[m] EXCEPT !.id = ans[m].id, !.ready = TRUE, !.msg = FALSE, !.reason = FALSE])
          /\ Go(m, "spec") /\ UNCHANGED <<faults, happened, err>>
       \/ PatchRefused(m) /\ Fail(m, "hard")
       \/ PatchLost(m) /\ Fail(m, "hard")
    /\ UNCHANGED <<rows, hosted, vms, calls, ans, nextCid, nextVid, vip, others, asked>>
    /\ UNCHANGED <<seen, due, loc, cid, cl, tries, cache, secret, want, phase>>

\* commit_spec_provider_id.
CommitSpec(m) ==
    /\ pc[m] = "spec"
    /\ \/ /\ Patched(m, [obj[m] EXCEPT !.spec = ans[m].id])
          /\ Done(m, TRUE) /\ UNCHANGED <<faults, happened>>
       \/ /\ PatchRefused(m) \/ PatchLost(m)
          /\ Fail(m, "hard") /\ UNCHANGED <<ans, due, loc, cid, cl, tries>>
    /\ UNCHANGED <<rows, hosted, vms, calls, nextCid, nextVid, vip, others, asked>>
    /\ UNCHANGED <<seen, cache, secret, want, phase>>

\* record_terminal_failure, then wait for someone to replace the machine.
RecordTerminal(m) ==
    /\ pc[m] = "terminal"
    /\ \/ /\ Patched(m, [obj[m] EXCEPT !.ready = FALSE, !.msg = TRUE, !.reason = TRUE])
          /\ UNCHANGED <<faults, happened>>
       \/ PatchRefused(m) \/ PatchLost(m)
    /\ Done(m, FALSE)
    /\ UNCHANGED <<rows, hosted, vms, calls, nextCid, nextVid, vip, others, asked>>
    /\ UNCHANGED <<seen, cache, secret, want, phase>>

\* Which cached client on_failure drops: the one of the BasisCluster, if that
\* can still be resolved.
Invalidate(m) == IF err[m] = "creds" /\ obj[Cluster].id # 0 THEN 0 ELSE cache

\* The same when the API server does not answer: nothing is dropped.
Unresolved(m) ==
    /\ err[m] = "creds" /\ Fault("kube") /\ UNCHANGED cache
    /\ UNCHANGED obj \/ Patched(m, Failure(m))

\* on_failure and the requeue of error_policy.
MachineFailed(m) ==
    /\ pc[m] = "failed"
    /\ \/ err[m] = "transient" /\ UNCHANGED <<obj, cache, faults, happened>>
       \/ err[m] # "transient" /\ cache' = Invalidate(m) /\ RecordFailure(m)
       \/ Unresolved(m)
    /\ Done(m, TRUE)
    /\ UNCHANGED <<rows, hosted, vms, calls, nextCid, nextVid, vip, others, asked>>
    /\ UNCHANGED <<seen, secret, want, phase>>

MachineStep(m) ==
    \/ ResolveCluster(m) \/ Bootstrap(m) \/ CallMachine(m) \/ MachineAnswered(m)
    \/ CommitStatus(m) \/ CommitSpec(m) \/ RecordTerminal(m) \/ MachineFailed(m)
=============================================================================
