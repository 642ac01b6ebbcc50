---------------------------- MODULE ClusterTable ----------------------------
(***************************************************************************)
(* What CreateCluster promises: every call is one step that either finds   *)
(* the cluster of its name or makes a cluster that shares nothing with     *)
(* those there are.  A call that fails takes no step.  Ids are not reused: *)
(* an answer names one cluster for good, also when that cluster is gone.   *)
(***************************************************************************)
CONSTANTS
    Calls,         \* CreateCluster calls
    NoName, NoId

VARIABLES
    table,    \* the clusters: id, name, vni, cidr and the addresses they own
    answer    \* answer[r]: the name and the id call r was answered with

vars == <<table, answer>>

NoAnswer == [name |-> NoName, id |-> NoId]

Init ==
    /\ table = {}
    /\ answer = [r \in Calls |-> NoAnswer]

\* Two clusters have nothing in common.
Apart(c, d) ==
    /\ c.id # d.id /\ c.name # d.name
    /\ c.vni # d.vni /\ c.cidr # d.cidr
    /\ c.addrs \cap d.addrs = {}

Reply(r, c) ==
    /\ answer[r] = NoAnswer
    /\ answer' = [answer EXCEPT ![r] = [name |-> c.name, id |-> c.id]]

\* The call makes c, the one cluster that is new in the table.
Create(r) ==
    \E c \in table' \ table :
        /\ table' = table \cup {c}
        /\ \A d \in table : Apart(c, d)
        /\ \A q \in Calls : answer[q].id # c.id
        /\ Reply(r, c)

Find(r) == \E c \in table : Reply(r, c) /\ UNCHANGED table

Drain == \E c \in table : table' = table \ {c} /\ UNCHANGED answer

Next == Drain \/ \E r \in Calls : Create(r) \/ Find(r)

Spec == Init /\ [][Next]_vars
=============================================================================
