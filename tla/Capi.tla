-------------------------------- MODULE Capi --------------------------------
(***************************************************************************)
(* The CAPI provider at work: the machine and the cluster reconcilers over *)
(* one client cache, users who delete and re-create objects, a controller  *)
(* whose answers may be late, lost or refused.                             *)
(***************************************************************************)
EXTENDS CapiMachine, CapiCluster

vars == <<apiVars, provVars, clusterVars>>

TypeOK == ApiTypeOK /\ ProvTypeOK /\ ClusterTypeOK
Init == ApiInit /\ ProvInit /\ ClusterInit

\* What every reconciler does, whichever kind its object is.
SharedStep(r) ==
    \/ Reconcile(r) \/ AddFinalizer(r) \/ LiftFinalizer(r)
    \/ CacheGet(r) \/ CacheError(r) \/ CacheInsert(r)
    \/ Refused(r) \/ Unreached(r) \/ Retry(r) \/ CallFailed(r)

StartUp == WaitForCrds \/ ReadTrustDomain
EndCall(m) == CreateRuns(m) \/ CreateFails(m) \/ CreateTimesOut(m) \/ CreateCut(m)
User == \E r \in Reconcilers : UserDeletes(r) \/ UserRecreates(r)

Others == StartUp \/ User \/ Rotate \/ UpdateSecret \/ Restart

\* Nothing is left to reconcile.
Finished == (\A r \in Reconcilers : Gone(r)) /\ UNCHANGED vars

Next ==
    \/ \E r \in Reconcilers : (SharedStep(r) \/ Deliver(r) \/ AnswerLost(r)) /\ UNCHANGED clusterVars
    \/ \E m \in Machines : MachineStep(m) /\ UNCHANGED clusterVars
    \/ ClusterStep
    \/ \E m \in Machines : EndCall(m) /\ UNCHANGED <<provVars, clusterVars>>
    \/ (ByItself \/ Acks) /\ UNCHANGED <<provVars, clusterVars>>
    \/ Others /\ UNCHANGED clusterVars
    \/ KubeconfigWritten
    \/ Finished

\* The tasks of the provider keep running, a create call ends, hosts
\* acknowledge their tombstones and the operator finishes a rotation.
ReconcilerStep(r) ==
    \/ (SharedStep(r) \/ Deliver(r)) /\ UNCHANGED clusterVars
    \/ r \in Machines /\ MachineStep(r) /\ UNCHANGED clusterVars
    \/ r = Cluster /\ ClusterStep

Fairness ==
    /\ \A r \in Reconcilers : WF_vars(ReconcilerStep(r))
    /\ \A m \in Machines : WF_vars(EndCall(m) /\ UNCHANGED <<provVars, clusterVars>>)
    /\ WF_vars(Acks /\ UNCHANGED <<provVars, clusterVars>>)
    /\ WF_vars((StartUp \/ UpdateSecret) /\ UNCHANGED clusterVars)

Spec == Init /\ [][Next]_vars
FairSpec == Spec /\ Fairness

(***************************************************************************)
(* Properties.                                                             *)
(***************************************************************************)
\* The state of the VM a machine's status names.
VmState(m) == IF obj[m].id = 0 THEN "none" ELSE vms[obj[m].id].st

\* Somebody will remove the row of cluster c: its host, which has to acknowledge
\* the cluster's tombstone, or the machines that still live in it.
Releasing(c) == hosted[c] = "pending" \/ LiveIn(vms, c) # {}

\* What an object that is gone had made is being removed, once no reconcile of
\* the object is under way: its VM is torn down, and for its clusters
\* DeleteCluster was called and somebody will remove the row, unless no host
\* carries the cluster (DeletedClusterGoes).  Both reconcilers commit the id
\* before anything else and cleanup deletes what the id names.  The other
\* exceptions are the ways the id never reaches the status cleanup reads: the
\* create's answer came too late or not at all, a call to the API server failed,
\* the provider restarted, or cleanup ran on a copy from before the commit; and
\* the host that is given up, which turns tombstones into failed VMs.
NoOrphans ==
    happened \cap {"lost", "kube", "restart", "stale", "host"} = {} =>
        /\ \A v \in Vids : vms[v] # NoVm /\ Gone(vms[v].name) /\ pc[vms[v].name] = "idle"
                => vms[v].st = "teardown"
        /\ Gone(Cluster) /\ pc[Cluster] = "idle"
                => \A c \in rows : c \in asked /\ (Releasing(c) \/ hosted[c] = "none")

\* CreateMachine answers with a VM that runs (machine.rs: the server only
\* returns success once the agent has reported RUNNING), unless an earlier
\* call for the name ended without an answer, was told to come back, the guest
\* died or its host was given up, or the name or its cluster is being deleted
\* meanwhile.
AnswerMeansRunning ==
    [][\A m \in Machines :
         pc'[m] = "wait" /\ ans[m] = NoAnswer /\ ans'[m].code = "ok" /\ Creates(m)
            => \/ ans'[m].st = "running"
               \/ happened \cap {"lost", "busy", "died", "host", "restart", "remade"} # {}
               \/ vms'[ans'[m].id].c \in asked]_vars

\* A deleted object goes away: cleanup needs nothing but the object's own
\* status and the credentials.  Not so once the credentials were replaced
\* after the BasisCluster went: nothing drops the cached client then.
DeletionEnds ==
    \A r \in Reconcilers :
        obj[r].del ~> (Gone(r) \/ ("rotated" \in happened /\ Gone(Cluster)))

\* A VM that fails or disappears shows on its BasisMachine (machine.rs: a VM
\* that dies after create surfaces as a failure).  The exception is a patch
\* that fails: record_terminal_failure is tried once, and then nothing asks
\* for another reconcile.
FailureSurfaces ==
    \A m \in Machines :
        (~obj[m].del /\ VmState(m) \in {"failed", "gone"})
            ~> (obj[m].msg \/ obj[m].del \/ VmState(m) = "running" \/ "kube" \in happened)

\* Once the workload cluster can be reached its BGP objects name the cluster.
BgpApplied ==
    (kubeconfig /\ obj[Cluster].id # 0 /\ ~obj[Cluster].del)
        ~> (obj[Cluster].del \/ \A d \in Docs : crds[d] = obj[Cluster].id)

\* A deleted cluster without VMs goes, and with the row its endpoint
\* (cluster.rs: DeleteCluster releases the VIP).
DeletedClusterGoes ==
    \A c \in Cids :
        LET Empty == \A v \in Vids : vms[v].c # c
        IN  (c \in asked /\ Empty) ~> (c \notin rows \/ ~Empty)

\* The endpoint of a cluster, once written, stays for the life of the object
\* (cluster.rs: CreateCluster is idempotent by name).
EndpointStable ==
    [][obj[Cluster].spec # 0 /\ obj'[Cluster].spec # obj[Cluster].spec => obj'[Cluster] = NoObj]_vars
=============================================================================
