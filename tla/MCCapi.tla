------------------------------- MODULE MCCapi -------------------------------
(***************************************************************************)
(* Capi for TLC: one cluster object, one machine object.                   *)
(***************************************************************************)
EXTENDS Capi

\* The waits TLC explores in full: before a client is looked up, between a
\* missed lookup and its insert, while a call is out or to be repeated, and
\* between an answer and the first patch that uses it.  What lies between
\* two of them follows at once, except that the pod may restart anywhere.
Waits(r) ==
    \/ pc[r] \in {"idle", "client", "insert"}
    \/ pc[r] = "wait" /\ ans[r].code \in {"none", "unavailable"}
    \/ pc[r] = "status" /\ r # Cluster
    \/ pc[r] = "spec" /\ r = Cluster
Prompt ==
    /\ (\A r \in Reconcilers : Waits(r)) \/ phase' # phase
       \/ \E r \in Reconcilers : ~Waits(r) /\ (pc'[r] # pc[r] \/ ans'[r] # ans[r])
    \* The watch's copy is read by an idle reconciler only.
    /\ \A r \in Reconcilers : seen'[r] # seen[r] => pc[r] = "idle" \/ phase' # phase
    \* The kubeconfig appears with the first VM that runs.
    /\ /\ ~kubeconfig /\ \A r \in Reconcilers : Waits(r)
       /\ \E v \in Vids : vms[v].st = "running"
       => kubeconfig'
=============================================================================
