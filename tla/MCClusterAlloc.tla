---------------------------- MODULE MCClusterAlloc ----------------------------
(* Instances of ClusterAlloc for TLC. *)
EXTENDS ClusterAlloc, TLC

Symmetry == Permutations(Requests) \cup Permutations(Names)

\* What a settled call picked on its way is not read again, and of one that
\* failed nothing is, except whether it was turned away as exhausted.
Locals(r) ==
    CASE r \in InFlight -> <<pc[r], name[r], vis[r], attempt[r], vni[r], slice[r], vip[r], block[r]>>
      [] pc[r] = "ok"   -> <<pc[r], name[r], reply[r]>>
      [] OTHER          -> <<IF pc[r] \in {"error", "dropped"} THEN "failed" ELSE pc[r]>>
View == <<dbVars, [r \in Requests |-> Locals(r)]>>
===============================================================================
