---------------------------- MODULE CapiCluster -----------------------------
(***************************************************************************)
(* The BasisCluster reconciler: apply calls CreateCluster every time and   *)
(* writes the answer to the object, endpoint first, then brings the BGP    *)
(* objects to the workload cluster; cleanup calls DeleteCluster.           *)
(***************************************************************************)
EXTENDS Provider

CONSTANTS Docs             \* the rendered BGP documents

VARIABLES crds,       \* crds[d]: the cluster id document d was last applied for
          kubeconfig  \* CAPI has written the workload cluster's kubeconfig

clusterVars == <<crds, kubeconfig>>
ClusterTypeOK == crds \in [Docs -> {0} \cup Cids] /\ kubeconfig \in BOOLEAN
ClusterInit == crds = [d \in Docs |-> 0] /\ kubeconfig = FALSE

CallCluster ==
    /\ Reaches(Cluster)
    /\ \/ loc[Cluster].del /\ DeleteCluster(Cluster, loc[Cluster].id)
       \/ ~loc[Cluster].del /\ CreateCluster(Cluster)
    /\ UNCHANGED clusterVars

ClusterAnswered ==
    /\ pc[Cluster] = "wait" /\ ans[Cluster].code \in {"ok", "notfound"}
    /\ Go(Cluster, IF loc[Cluster].del THEN "lift" ELSE "spec")
    /\ UNCHANGED <<apiVars, kubeVars, loc, cid, cl, tries, err, cache, secret, want, phase, clusterVars>>

\* merge_spec: the endpoint of the answer is written before the status.
WriteEndpoint ==
    /\ pc[Cluster] = "spec"
    /\ \/ /\ \E n \in Vips : n = vip[ans[Cluster].id] /\ Patched(Cluster, [obj[Cluster] EXCEPT !.spec = n])
          /\ Go(Cluster, "status") /\ UNCHANGED <<faults, happened, err>>
       \/ /\ PatchRefused(Cluster) \/ PatchLost(Cluster)
          /\ Fail(Cluster, "hard")
    /\ UNCHANGED <<rows, hosted, vms, calls, ans, nextCid, nextVid, vip, others, asked>>
    /\ UNCHANGED <<seen, due, loc, cid, cl, tries, cache, secret, want, phase, clusterVars>>

\* merge_status: id, ready, no failure message.
WriteStatus ==
    /\ pc[Cluster] = "status"
    /\ \/ /\ Patched(Cluster, [obj[Cluster] EXCEPT !.id = ans[Cluster].id, !.ready = TRUE, !.msg = FALSE])
          /\ Go(Cluster, "crds") /\ UNCHANGED <<faults, happened, err>>
       \/ /\ PatchRefused(Cluster) \/ PatchLost(Cluster)
          /\ Fail(Cluster, "hard")
    /\ UNCHANGED <<rows, hosted, vms, calls, ans, nextCid, nextVid, vip, others, asked>>
    /\ UNCHANGED <<seen, due, loc, cid, cl, tries, cache, secret, want, phase, clusterVars>>

ApplyCrds_Await ==
    /\ pc[Cluster] = "crds"
    /\ \/ ~kubeconfig /\ UNCHANGED <<crds, faults, happened>> /\ Done(Cluster, FALSE)
       \/ /\ kubeconfig
          /\ \E skipped \in SUBSET Docs :
                /\ \/ skipped = {} /\ UNCHANGED <<faults, happened>>
                   \/ skipped # {} /\ Fault("kube")
                /\ crds' = [d \in Docs |-> IF d \in skipped THEN crds[d] ELSE ans[Cluster].id]
          /\ Done(Cluster, TRUE)
       \/ /\ kubeconfig /\ Fault("kube") /\ Fail(Cluster, "hard")
          /\ UNCHANGED <<crds, ans, due, loc, cid, cl, tries>>
    /\ UNCHANGED <<rows, hosted, vms, calls, nextCid, nextVid, vip, others, asked>>
    /\ UNCHANGED <<obj, seen, cache, secret, want, phase, kubeconfig>>

\* workload_client and apply_bgp_crds: nothing without the kubeconfig; a
\* document that fails is skipped until the next reconcile; a client that
\* cannot be built is an error.
ApplyCrds ==
    /\ pc[Cluster] = "crds"
    /\ \/ ~kubeconfig /\ UNCHANGED <<crds, faults, happened>> /\ Done(Cluster, TRUE)
       \/ /\ kubeconfig
          /\ \E skipped \in SUBSET Docs :
                /\ \/ skipped = {} /\ UNCHANGED <<faults, happened>>
                   \/ skipped # {} /\ Fault("kube")
                /\ crds' = [d \in Docs |-> IF d \in skipped THEN crds[d] ELSE ans[Cluster].id]
          /\ Done(Cluster, TRUE)
       \/ /\ kubeconfig /\ Fault("kube") /\ Fail(Cluster, "hard")
          /\ UNCHANGED <<crds, ans, due, loc, cid, cl, tries>>
    /\ UNCHANGED <<rows, hosted, vms, calls, nextCid, nextVid, vip, others, asked>>
    /\ UNCHANGED <<obj, seen, cache, secret, want, phase, kubeconfig>>

\* on_failure records transient errors too, and drops the client of its own
\* credentials.
ClusterFailed ==
    /\ pc[Cluster] = "failed"
    /\ cache' = IF err[Cluster] = "creds" THEN 0 ELSE cache
    /\ RecordFailure(Cluster)
    /\ Done(Cluster, TRUE)
    /\ UNCHANGED <<rows, hosted, vms, calls, nextCid, nextVid, vip, others, asked>>
    /\ UNCHANGED <<seen, secret, want, phase, clusterVars>>

\* kubeadm finishes and CAPI writes <cluster>-kubeconfig.
KubeconfigWritten ==
    /\ ~kubeconfig /\ kubeconfig' = TRUE
    /\ \E v \in Vids : vms[v].st = "running"
    /\ UNCHANGED <<apiVars, provVars, crds>>

ClusterStep ==
    \/ CallCluster \/ ClusterAnswered \/ WriteEndpoint \/ WriteStatus \/ ApplyCrds \/ ClusterFailed
=============================================================================
