------------------------------ MODULE Provider ------------------------------
(***************************************************************************)
(* What the two reconcilers of the CAPI provider share: the Kubernetes     *)
(* objects and the watch's cache of them, the finalizer protocol, the      *)
(* client cache, the client's retry loop and the failure path.  One        *)
(* reconcile per object runs at a time, on the copy of the object the      *)
(* cache held when it began.                                               *)
(***************************************************************************)
EXTENDS BasisApi

CONSTANTS MaxAttempts      \* MAX_ATTEMPTS of BasisClient::call

VARIABLES obj,        \* obj[r]: the object in the API server
          seen,       \* seen[r]: the watch's latest copy of it
          due,        \* due[r]: a watch event or a requeue asks for a reconcile
          pc,         \* pc[r]: where the reconcile is
          loc,        \* loc[r]: the copy the reconcile works on
          cid,        \* cid[r]: the cluster id it resolved
          cl,         \* cl[r]: the identity of the client it holds
          tries,      \* tries[r]: attempts of the current call
          err,        \* err[r]: the error it ended with
          cache,      \* the identity of the cached BasisClient, 0 for none
          secret,     \* the identity in the credentials Secret
          want,       \* the identity the controller accepts
          phase       \* the provider process: "crds", "trust" or "up"

kubeVars == <<obj, seen, due>>
runVars == <<pc, loc, cid, cl, tries, err>>
provVars == <<obj, seen, due, pc, loc, cid, cl, tries, err, cache, secret, want, phase>>

\* An object: finalizer, deletionTimestamp, basisVmId or basisClusterId,
\* providerID or endpoint, ready, failureMessage, and whether the Ready
\* condition's reason is VmDisappeared.  (failureReason is not a field of the
\* CRD, so what the code patches there is dropped.)
NoObj == [fin |-> FALSE, del |-> TRUE, id |-> 0, spec |-> 0, ready |-> FALSE, msg |-> FALSE, reason |-> FALSE]
NewObj == [NoObj EXCEPT !.del = FALSE]
Gone(r) == obj[r] = NoObj
Identities == 1..(MaxFaults + 1)
Steps == {"idle", "finalize", "resolve", "client", "insert", "boot", "rpc", "wait",
          "status", "spec", "crds", "terminal", "failed", "lift"}

ProvTypeOK ==
    LET Objects == [fin: BOOLEAN, del: BOOLEAN, id: 0..(MaxVms + MaxClusters), spec: 0..(MaxVms + MaxClusters),
                    ready: BOOLEAN, msg: BOOLEAN, reason: BOOLEAN]
    IN /\ obj \in [Reconcilers -> Objects] /\ seen \in [Reconcilers -> Objects] /\ loc \in [Reconcilers -> Objects]
       /\ due \in [Reconcilers -> BOOLEAN]
       /\ pc \in [Reconcilers -> Steps]
       /\ cid \in [Reconcilers -> {0} \cup Cids]
       /\ cl \in [Reconcilers -> {0} \cup Identities]
       /\ tries \in [Reconcilers -> 0..(MaxAttempts - 1)]
       /\ err \in [Reconcilers -> {"none", "creds", "transient", "hard"}]
       /\ cache \in {0} \cup Identities /\ {secret, want} \subseteq Identities
       /\ phase \in {"crds", "trust", "up"}

ProvInit ==
    /\ obj = [r \in Reconcilers |-> NewObj]
    /\ seen = [r \in Reconcilers |-> NoObj] /\ loc = seen
    /\ due = [r \in Reconcilers |-> FALSE]
    /\ pc = [r \in Reconcilers |-> "idle"] /\ err = [r \in Reconcilers |-> "none"]
    /\ cid = [r \in Reconcilers |-> 0] /\ cl = cid /\ tries = cid
    /\ cache = 0 /\ secret = 1 /\ want = 1 /\ phase = "crds"

Go(r, step) == pc' = [pc EXCEPT ![r] = step]
\* The end of a reconcile: requeue (again) or await_change.
Done(r, again) ==
    /\ pc' = [pc EXCEPT ![r] = "idle"] /\ loc' = [loc EXCEPT ![r] = NoObj]
    /\ cid' = [cid EXCEPT ![r] = 0] /\ cl' = [cl EXCEPT ![r] = 0]
    /\ tries' = [tries EXCEPT ![r] = 0] /\ err' = [err EXCEPT ![r] = "none"]
    /\ due' = [due EXCEPT ![r] = again \/ @]
    /\ ans' = [ans EXCEPT ![r] = NoAnswer]
Fail(r, e) == Go(r, "failed") /\ err' = [err EXCEPT ![r] = e]

(***************************************************************************)
(* Start-up.                                                               *)
(***************************************************************************)
\* wait_for_crds: past it once the kinds are registered; the deadline ends
\* the process, which starts over.
WaitForCrds ==
    /\ phase = "crds" /\ phase' = "trust"
    /\ UNCHANGED <<apiVars, kubeVars, runVars, cache, secret, want>>
\* read_trust_domain: no reconciler runs before the identity is known.
ReadTrustDomain ==
    /\ phase = "trust" /\ phase' = "up"
    /\ UNCHANGED <<apiVars, kubeVars, runVars, cache, secret, want>>

(***************************************************************************)
(* The watch and the finalizer protocol (kube-runtime).                    *)
(***************************************************************************)
Deliver(r) ==
    /\ phase = "up" /\ seen[r] # obj[r]
    /\ seen' = [seen EXCEPT ![r] = obj[r]]
    /\ due' = [due EXCEPT ![r] = ~Gone(r)]
    /\ UNCHANGED <<apiVars, runVars, obj, cache, secret, want, phase>>

Reconcile_Resolves(r) ==
    /\ phase = "up" /\ pc[r] = "idle" /\ due[r] /\ seen[r] # NoObj
    /\ due' = [due EXCEPT ![r] = FALSE]
    /\ loc' = [loc EXCEPT ![r] = seen[r]]
    /\ \/ ~seen[r].fin /\ Go(r, "finalize")
       \/ seen[r].fin /\ ~seen[r].del /\ Go(r, IF r = Cluster THEN "client" ELSE "resolve")
       \/ seen[r].fin /\ seen[r].del /\ Go(r, IF seen[r].id = 0 THEN "lift" ELSE IF r = Cluster THEN "client" ELSE "resolve")
    /\ \/ seen[r] = obj[r] /\ UNCHANGED <<faults, happened>>
       \/ seen[r] # obj[r] /\ Fault("stale")
    /\ UNCHANGED <<rows, hosted, vms, calls, ans, nextCid, nextVid, vip, others, asked>>
    /\ UNCHANGED <<obj, seen, cid, cl, tries, err, cache, secret, want, phase>>

\* finalizer(): add it first, apply while the object lives, clean up when it is deleted.
Reconcile(r) ==
    /\ phase = "up" /\ pc[r] = "idle" /\ due[r] /\ seen[r] # NoObj
    /\ due' = [due EXCEPT ![r] = FALSE]
    /\ loc' = [loc EXCEPT ![r] = seen[r]]
    /\ \/ ~seen[r].fin /\ Go(r, "finalize")
       \/ seen[r].fin /\ ~seen[r].del /\ Go(r, IF r = Cluster THEN "client" ELSE "resolve")
       \/ seen[r].fin /\ seen[r].del /\ Go(r, IF seen[r].id = 0 THEN "lift" ELSE "client")
    /\ \/ seen[r] = obj[r] /\ UNCHANGED <<faults, happened>>
       \/ seen[r] # obj[r] /\ Fault("stale")
    /\ UNCHANGED <<rows, hosted, vms, calls, ans, nextCid, nextVid, vip, others, asked>>
    /\ UNCHANGED <<obj, seen, cid, cl, tries, err, cache, secret, want, phase>>

\* The patch tests that no finalizer is there; an object that is gone refuses it.
AddFinalizer(r) ==
    /\ pc[r] = "finalize"
    /\ \/ /\ ~Gone(r) /\ ~obj[r].fin
          /\ obj' = [obj EXCEPT ![r].fin = TRUE] /\ Done(r, FALSE)
          /\ UNCHANGED <<faults, happened>>
       \/ /\ Gone(r) \/ obj[r].fin
          /\ UNCHANGED <<obj, faults, happened>> /\ Done(r, TRUE)
       \/ Fault("kube") /\ UNCHANGED obj /\ Done(r, TRUE)
    /\ UNCHANGED <<rows, hosted, vms, calls, nextCid, nextVid, vip, others, asked>>
    /\ UNCHANGED <<seen, cache, secret, want, phase>>

\* The patch tests that the finalizer is there; a deleted object without one is gone.
LiftFinalizer(r) ==
    /\ pc[r] = "lift"
    /\ \/ /\ obj[r].fin /\ obj' = [obj EXCEPT ![r] = NoObj]
          /\ Done(r, FALSE) /\ UNCHANGED <<faults, happened>>
       \/ ~obj[r].fin /\ UNCHANGED <<obj, faults, happened>> /\ Done(r, TRUE)
       \/ Fault("kube") /\ UNCHANGED obj /\ Done(r, TRUE)
    /\ UNCHANGED <<rows, hosted, vms, calls, nextCid, nextVid, vip, others, asked>>
    /\ UNCHANGED <<seen, cache, secret, want, phase>>

(***************************************************************************)
(* BasisClientCache.                                                       *)
(***************************************************************************)
\* Whether the reconcile is about to create a machine, which needs bootstrap data first.
Creates(r) == r # Cluster /\ loc[r].id = 0
CallStep(r) == IF Creates(r) THEN "boot" ELSE "rpc"

\* A hit, or a miss: the Secret is read outside the lock ...
CacheGet(r) ==
    /\ pc[r] = "client"
    /\ \/ cache # 0 /\ cl' = [cl EXCEPT ![r] = cache] /\ Go(r, CallStep(r))
       \/ cache = 0 /\ cl' = [cl EXCEPT ![r] = secret] /\ Go(r, "insert")
    /\ UNCHANGED <<apiVars, kubeVars, loc, cid, tries, err, cache, secret, want, phase>>

\* The Secret cannot be read: an error of the credentials kind.
CacheError(r) ==
    /\ pc[r] = "client" /\ cache = 0 /\ Fault("kube") /\ Fail(r, "creds")
    /\ UNCHANGED <<rows, hosted, vms, calls, ans, nextCid, nextVid, vip, others, asked>>
    /\ UNCHANGED <<kubeVars, loc, cid, cl, tries, cache, secret, want, phase>>

\* ... and whoever inserted first wins.
CacheInsert(r) ==
    /\ pc[r] = "insert"
    /\ cache' = IF cache = 0 THEN cl[r] ELSE cache
    /\ cl' = [cl EXCEPT ![r] = cache'] /\ Go(r, CallStep(r))
    /\ UNCHANGED <<apiVars, kubeVars, loc, cid, tries, err, secret, want, phase>>

(***************************************************************************)
(* BasisClient::call.                                                      *)
(***************************************************************************)
\* The attempt reaches the controller.
Reaches(r) ==
    /\ pc[r] = "rpc" /\ cl[r] = want
    /\ Go(r, "wait")
    /\ UNCHANGED <<kubeVars, loc, cid, cl, tries, err, cache, secret, want, phase>>

\* An outage begins, or lasts over the attempts of one call.
Outage(r) ==
    \/ tries[r] = 0 /\ Fault("lost")
    \/ tries[r] > 0 /\ UNCHANGED <<faults, happened>>

\* The identity is refused, or no connection can be made: both are errors of
\* the credentials kind.
Refused(r) ==
    /\ pc[r] = "rpc"
    /\ \/ cl[r] # want /\ UNCHANGED <<faults, happened>>
       \/ cl[r] = want /\ Outage(r)
    /\ Fail(r, "creds")
    /\ UNCHANGED <<rows, hosted, vms, calls, ans, nextCid, nextVid, vip, others, asked>>
    /\ UNCHANGED <<kubeVars, loc, cid, cl, tries, cache, secret, want, phase>>

\* The connection takes the call and fails it.
Unreached(r) ==
    /\ pc[r] = "rpc" /\ cl[r] = want /\ Outage(r)
    /\ Go(r, "wait") /\ Answer(r, "unavailable", 0, "gone")
    /\ UNCHANGED <<rows, hosted, vms, calls, nextCid, nextVid, vip, others, asked>>
    /\ UNCHANGED <<kubeVars, loc, cid, cl, tries, err, cache, secret, want, phase>>

\* The answer of a call that was carried out is lost on the way.
AnswerLost(r) ==
    /\ pc[r] = "wait" /\ ans[r].code \notin {"none", "unavailable"}
    /\ Fault("lost")
    /\ Answer(r, "unavailable", 0, "gone")
    /\ UNCHANGED <<rows, hosted, vms, calls, nextCid, nextVid, vip, others, asked, provVars>>

\* Unavailable is retried while attempts are left; after that it is transient.
Retry(r) ==
    /\ pc[r] = "wait" /\ ans[r].code = "unavailable"
    /\ ans' = [ans EXCEPT ![r] = NoAnswer]
    /\ tries' = [tries EXCEPT ![r] = IF @ + 1 < MaxAttempts THEN @ + 1 ELSE @]
    /\ \/ tries[r] + 1 < MaxAttempts /\ Go(r, "rpc") /\ UNCHANGED err
       \/ tries[r] + 1 = MaxAttempts /\ Fail(r, "transient")
    /\ UNCHANGED <<rows, hosted, vms, calls, nextCid, nextVid, vip, others, asked, faults, happened>>
    /\ UNCHANGED <<kubeVars, loc, cid, cl, cache, secret, want, phase>>

\* DeadlineExceeded is transient, every other status an error of its own.
CallFailed(r) ==
    /\ pc[r] = "wait" /\ ans[r].code \in {"deadline", "error"}
    /\ Fail(r, IF ans[r].code = "deadline" THEN "transient" ELSE "hard")
    /\ UNCHANGED <<apiVars, kubeVars, loc, cid, cl, tries, cache, secret, want, phase>>

(***************************************************************************)
(* Patches of the object and the failure path.                             *)
(***************************************************************************)
\* merge_status and merge_spec: the merge reaches the live object, or fails.
Patched(r, new) == ~Gone(r) /\ obj' = [obj EXCEPT ![r] = new]
PatchRefused(r) == Gone(r) /\ UNCHANGED <<obj, faults, happened>>
PatchLost(r) == ~Gone(r) /\ Fault("kube") /\ UNCHANGED obj

\* record_failure_status: best effort.
Failure(r) == [obj[r] EXCEPT !.ready = FALSE, !.msg = TRUE, !.reason = FALSE]
RecordFailure(r) ==
    \/ Patched(r, Failure(r)) /\ UNCHANGED <<faults, happened>>
    \/ PatchRefused(r) \/ PatchLost(r)

(***************************************************************************)
(* The world around the provider.                                          *)
(***************************************************************************)
\* kubectl delete: without a finalizer the object is gone at once.
UserDeletes(r) ==
    /\ ~obj[r].del
    /\ obj' = [obj EXCEPT ![r] = IF @.fin THEN [@ EXCEPT !.del = TRUE] ELSE NoObj]
    /\ UNCHANGED <<apiVars, seen, due, runVars, cache, secret, want, phase>>

\* The same name is used again.
UserRecreates(r) ==
    /\ Gone(r) /\ Fault("remade")
    /\ obj' = [obj EXCEPT ![r] = NewObj]
    /\ UNCHANGED <<rows, hosted, vms, calls, ans, nextCid, nextVid, vip, others, asked>>
    /\ UNCHANGED <<seen, due, runVars, cache, secret, want, phase>>

\* The controller's operator replaces the identity, then the Secret.
Rotate ==
    /\ want = secret /\ Fault("rotated")
    /\ want' = want + 1
    /\ UNCHANGED <<rows, hosted, vms, calls, ans, nextCid, nextVid, vip, others, asked>>
    /\ UNCHANGED <<kubeVars, runVars, cache, secret, phase>>
UpdateSecret ==
    /\ secret # want /\ secret' = want
    /\ UNCHANGED <<apiVars, kubeVars, runVars, cache, want, phase>>

\* The pod restarts: every reconcile, the cache of clients and the watch start over.
Restart ==
    /\ phase = "up" /\ Fault("restart")
    /\ phase' = "crds" /\ cache' = 0
    /\ seen' = [r \in Reconcilers |-> NoObj] /\ loc' = seen'
    /\ due' = [r \in Reconcilers |-> FALSE]
    /\ pc' = [r \in Reconcilers |-> "idle"] /\ err' = [r \in Reconcilers |-> "none"]
    /\ cid' = [r \in Reconcilers |-> 0] /\ cl' = cid' /\ tries' = cid'
    /\ calls' = [m \in Machines |-> 0] /\ ans' = [r \in Reconcilers |-> NoAnswer]
    /\ UNCHANGED <<rows, hosted, vms, nextCid, nextVid, vip, others, asked, obj, secret, want>>
=============================================================================
