----------------------------- MODULE ClusterAlloc -----------------------------
(***************************************************************************)
(* CreateCluster in the controller: several handler futures run at once,   *)
(* and every await on the database is a point where another one may run.   *)
(* Each handler picks a network identity (vni, cidr) from a read-only      *)
(* snapshot, reserves an apiserver VIP and a LoadBalancer service block,   *)
(* and only then inserts the cluster row, whose UNIQUE constraints decide  *)
(* the races.  The last tombstone ack of a cluster deletes its row and     *)
(* frees its addresses; a handler may be dropped at any await, and the     *)
(* process may restart, possibly with another VNI range in its config.     *)
(*                                                                         *)
(* Abstractions.  The supernet is the slices 0 .. NumSlices-1, in the      *)
(* order ipnet's subnets() yields them.  Addresses are integers: the       *)
(* pool's allocatable range is PoolStart .. PoolEnd and the last usable    *)
(* address of slice s is PrivateBase + s (config validation keeps the      *)
(* pools and the supernet apart).  A cluster id (a fresh uuid per attempt) *)
(* is the pair <<request, attempt>>.                                       *)
(***************************************************************************)
EXTENDS Integers, FiniteSets

CONSTANTS
    Requests,      \* CreateCluster calls
    Names,         \* cluster names the calls may carry
    Hosts,
    NoName,
    NoId,          \* "no cluster": the NULL of ip_allocations.cluster_id
    Visibilities,  \* apiserver_visibility of the calls: "public", "private"
    MaxInFlight,   \* how many calls the callers make at once
    MaxAttempts,   \* MAX_ALLOCATION_ATTEMPTS
    VniStarts,     \* values network.vniRange.start takes over the restarts
    VniCount,      \* width of the VNI range
    NumSlices,     \* slices of the supernet
    PoolStart, PoolEnd, PrivateBase,
    BlockSize,     \* externalServiceIps, a power of two
    Faults         \* which of "cancel", "restart" and "db" may happen

Slices == 0 .. NumSlices - 1
PoolAddrs == PoolStart .. PoolEnd
PrivateIps == {PrivateBase + s : s \in Slices}
Addrs == PoolAddrs \cup PrivateIps
Ids == Requests \X (1 .. MaxAttempts)
Elsewhere == -1

\* Bounds of the configuration: BasisControllerSpec::validate keeps the
\* ranges well formed and the pools outside the supernet.
ASSUME ConfigAssumption ==
    /\ MaxAttempts \in Nat \ {0}
    /\ VniStarts \subseteq Nat /\ VniCount \in Nat
    /\ NumSlices \in Nat \ {0}
    /\ PoolStart \in Nat /\ PoolEnd \in Nat /\ PrivateBase \in Nat
    /\ PoolEnd < PrivateBase
    /\ BlockSize \in Nat \ {0}
    /\ Visibilities \subseteq {"public", "private"}

ASSUME NullAssumption == NoId \notin Ids /\ NoName \notin Names

VARIABLES
    clusters,    \* rows of the clusters table
    owner,       \* ip_allocations.cluster_id by address; NoId: no row
    vtep,        \* hosts.vtep_address; Elsewhere: empty, or outside the pool
    vniStart,    \* network.vniRange.start of the running process
    pc,          \* what each CreateCluster future does at its next poll
    name, vis,   \* its request
    attempt,     \* its loop counter
    vni, slice,  \* its cluster_network
    vip, block,  \* its endpoint and the first address of its service block
    reply        \* the cluster id its response carries

dbVars == <<clusters, owner, vtep, vniStart>>
reqVars == <<name, vis, attempt, vni, slice, vip, block, reply>>
vars == <<clusters, owner, vtep, vniStart, pc, name, vis, attempt, vni, slice,
          vip, block, reply>>

-----------------------------------------------------------------------------
(* Pure parts of the allocators. *)

IsLeast(n, S) == n \in S /\ \A m \in S : n <= m

VniRange == vniStart .. vniStart + VniCount - 1
FreeVnis == {v \in VniRange : \A c \in clusters : c.vni # v}
FreeSlices == {s \in Slices : \A c \in clusters : c.slice # s}

\* Both pool allocators skip allocated addresses and every registered host's
\* underlay address.
FreePoolAddrs == {a \in PoolAddrs : owner[a] = NoId /\ \A h \in Hosts : vtep[h] # a}

Block(b) == b .. b + BlockSize - 1
FreeBlocks ==
    {b \in PoolAddrs : /\ b % BlockSize = 0
                       /\ b + BlockSize - 1 <= PoolEnd
                       /\ Block(b) \subseteq FreePoolAddrs}

ClusterId(r) == <<r, attempt[r]>>
Reserve(S, id) == owner' = [a \in Addrs |-> IF a \in S THEN id ELSE owner[a]]
Release(id) == owner' = [a \in Addrs |-> IF owner[a] = id THEN NoId ELSE owner[a]]
Settled == {"idle", "ok", "error", "exhausted", "dropped"}
InFlight == {r \in Requests : pc[r] \notin Settled}
Goto(r, l) == pc' = [pc EXCEPT ![r] = l]

-----------------------------------------------------------------------------
Init ==
    /\ clusters = {}
    /\ owner = [a \in Addrs |-> NoId]
    /\ vtep = [h \in Hosts |-> Elsewhere]
    /\ vniStart \in VniStarts
    /\ pc = [r \in Requests |-> "idle"]
    /\ name = [r \in Requests |-> NoName]
    /\ vis = [r \in Requests |-> "none"]
    /\ attempt = [r \in Requests |-> 1]
    /\ vni = [r \in Requests |-> 0]
    /\ slice = [r \in Requests |-> 0]
    /\ vip = [r \in Requests |-> 0]
    /\ block = [r \in Requests |-> 0]
    /\ reply = [r \in Requests |-> NoId]

\* The request arrives; a row of that name is returned as it is.
Lookup(r, n, v) ==
    /\ pc[r] = "idle" /\ Cardinality(InFlight) < MaxInFlight
    /\ name' = [name EXCEPT ![r] = n]
    /\ vis' = [vis EXCEPT ![r] = v]
    /\ \/ \E c \in clusters : /\ c.name = n
                              /\ reply' = [reply EXCEPT ![r] = c.id]
                              /\ Goto(r, "ok")
       \/ /\ \A c \in clusters : c.name # n
          /\ Goto(r, "network")
          /\ UNCHANGED reply
    /\ UNCHANGED <<dbVars, attempt, vni, slice, vip, block>>

\* allocate_cluster_network: the lowest free VNI and the first free slice.
\* Its transaction only reads; nothing is reserved.
AllocateNetwork(r) ==
    /\ pc[r] = "network"
    /\ \/ \E v \in FreeVnis, s \in FreeSlices :
             /\ IsLeast(v, FreeVnis)
             /\ IsLeast(s, FreeSlices)
             /\ vni' = [vni EXCEPT ![r] = v]
             /\ slice' = [slice EXCEPT ![r] = s]
             /\ Goto(r, "vip")
       \/ /\ FreeVnis = {} \/ FreeSlices = {}
          /\ Goto(r, "error")
          /\ UNCHANGED <<vni, slice>>
    /\ UNCHANGED <<dbVars, name, vis, attempt, vip, block, reply>>

\* allocate_pool_vip: the lowest free address of the pool.
AllocatePublicVip(r) ==
    /\ pc[r] = "vip" /\ vis[r] = "public"
    /\ \/ \E a \in FreePoolAddrs :
             /\ IsLeast(a, FreePoolAddrs)
             /\ Reserve({a}, ClusterId(r))
             /\ vip' = [vip EXCEPT ![r] = a]
             /\ Goto(r, "block")
       \/ /\ FreePoolAddrs = {}
          /\ Goto(r, "rollback_error")
          /\ UNCHANGED <<owner, vip>>
    /\ UNCHANGED <<clusters, vtep, vniStart, name, vis, attempt, vni, slice, block, reply>>

\* reserve_specific_ip: the last usable address of the chosen slice.  Its
\* primary key may already be taken: that is a Conflict, and the call fails.
ReservePrivateVip(r) ==
    /\ pc[r] = "vip" /\ vis[r] = "private"
    /\ LET a == PrivateBase + slice[r] IN
       \/ /\ owner[a] = NoId
          /\ Reserve({a}, ClusterId(r))
          /\ vip' = [vip EXCEPT ![r] = a]
          /\ Goto(r, "block")
       \/ /\ owner[a] # NoId
          /\ Goto(r, "rollback_error")
          /\ UNCHANGED <<owner, vip>>
    /\ UNCHANGED <<clusters, vtep, vniStart, name, vis, attempt, vni, slice, block, reply>>

\* allocate_service_block: the lowest aligned run of free addresses.
AllocateBlock(r) ==
    /\ pc[r] = "block"
    /\ \/ \E b \in FreeBlocks :
             /\ IsLeast(b, FreeBlocks)
             /\ Reserve(Block(b), ClusterId(r))
             /\ block' = [block EXCEPT ![r] = b]
             /\ Goto(r, "insert")
       \/ /\ FreeBlocks = {}
          /\ Goto(r, "rollback_error")
          /\ UNCHANGED <<owner, block>>
    /\ UNCHANGED <<clusters, vtep, vniStart, name, vis, attempt, vni, slice, vip, reply>>

Row(r) == [id |-> ClusterId(r), name |-> name[r], vni |-> vni[r],
           slice |-> slice[r], vip |-> vip[r], block |-> block[r]]

InsertCluster_NoVniUnique(r) ==
    /\ pc[r] = "insert"
    /\ LET nameTaken == \E c \in clusters : c.name = name[r]
       IN \/ /\ ~nameTaken
             /\ clusters' = clusters \cup {Row(r)}
             /\ reply' = [reply EXCEPT ![r] = ClusterId(r)]
             /\ Goto(r, "ok")
          \/ /\ nameTaken
             /\ Goto(r, "rollback_reread")
             /\ UNCHANGED <<clusters, reply>>
    /\ UNCHANGED <<owner, vtep, vniStart, name, vis, attempt, vni, slice, vip, block>>

\* The call that lost on the name goes straight to the winner's row.
InsertCluster_NoRollback(r) ==
    /\ pc[r] = "insert"
    /\ LET nameTaken == \E c \in clusters : c.name = name[r]
           vniTaken  == \E c \in clusters : c.vni = vni[r]
       IN \/ /\ ~nameTaken /\ ~vniTaken
             /\ clusters' = clusters \cup {Row(r)}
             /\ reply' = [reply EXCEPT ![r] = ClusterId(r)]
             /\ Goto(r, "ok")
          \/ /\ nameTaken
             /\ Goto(r, "reread")
             /\ UNCHANGED <<clusters, reply>>
          \/ /\ vniTaken
             /\ Goto(r, "rollback_retry")
             /\ UNCHANGED <<clusters, reply>>
    /\ UNCHANGED <<owner, vtep, vniStart, name, vis, attempt, vni, slice, vip, block>>

\* insert_cluster: UNIQUE(name) and UNIQUE(vni) decide.  cidr has no
\* constraint.  When both are violated SQLite names either one.
InsertCluster(r) ==
    /\ pc[r] = "insert"
    /\ LET nameTaken == \E c \in clusters : c.name = name[r]
           vniTaken  == \E c \in clusters : c.vni = vni[r]
       IN \/ /\ ~nameTaken /\ ~vniTaken
             /\ clusters' = clusters \cup {Row(r)}
             /\ reply' = [reply EXCEPT ![r] = ClusterId(r)]
             /\ Goto(r, "ok")
          \/ /\ nameTaken
             /\ Goto(r, "rollback_reread")
             /\ UNCHANGED <<clusters, reply>>
          \/ /\ vniTaken
             /\ Goto(r, "rollback_retry")
             /\ UNCHANGED <<clusters, reply>>
          \/ /\ "db" \in Faults
             /\ Goto(r, "rollback_error")
             /\ UNCHANGED <<clusters, reply>>
    /\ UNCHANGED <<owner, vtep, vniStart, name, vis, attempt, vni, slice, vip, block>>

\* The retry keeps the network it lost instead of picking again.
Rollback_StaleNetwork(r) ==
    /\ Release(ClusterId(r))
    /\ \/ /\ pc[r] = "rollback_error" /\ Goto(r, "error") /\ UNCHANGED attempt
       \/ /\ pc[r] = "rollback_reread" /\ Goto(r, "reread") /\ UNCHANGED attempt
       \/ /\ pc[r] = "rollback_retry" /\ attempt[r] < MaxAttempts
          /\ Goto(r, "vip")
          /\ attempt' = [attempt EXCEPT ![r] = @ + 1]
       \/ /\ pc[r] = "rollback_retry" /\ attempt[r] = MaxAttempts
          /\ Goto(r, "exhausted") /\ UNCHANGED attempt
    /\ UNCHANGED <<clusters, vtep, vniStart, name, vis, vni, slice, vip, block, reply>>

\* The rollback closure is done and the branch that called it goes on.
Unwind(r) ==
    /\ \/ /\ pc[r] = "rollback_error"
          /\ Goto(r, "error")
          /\ UNCHANGED attempt
       \/ /\ pc[r] = "rollback_reread"
          /\ Goto(r, "reread")
          /\ UNCHANGED attempt
       \/ /\ pc[r] = "rollback_retry" /\ attempt[r] < MaxAttempts
          /\ Goto(r, "network")
          /\ attempt' = [attempt EXCEPT ![r] = @ + 1]
       \/ /\ pc[r] = "rollback_retry" /\ attempt[r] = MaxAttempts
          /\ Goto(r, "exhausted")
          /\ UNCHANGED attempt
    /\ UNCHANGED <<clusters, vtep, vniStart, name, vis, vni, slice, vip, block, reply>>

\* release_cluster_ips for this attempt's id.
Rollback(r) == Release(ClusterId(r)) /\ Unwind(r)

\* An error of release_cluster_ips is only logged.
ReleaseFails(r) == "db" \in Faults /\ UNCHANGED owner /\ Unwind(r)

\* Mutant: the loser answers with its own id.
Reread_OwnId(r) ==
    /\ pc[r] = "reread"
    /\ \/ \E c \in clusters : /\ c.name = name[r]
                              /\ reply' = [reply EXCEPT ![r] = ClusterId(r)]
                              /\ Goto(r, "ok")
       \/ /\ \A c \in clusters : c.name # name[r]
          /\ Goto(r, "error")
          /\ UNCHANGED reply
    /\ UNCHANGED <<dbVars, name, vis, attempt, vni, slice, vip, block>>

\* After losing on the name: answer with the winner's row, if it is still there.
Reread(r) ==
    /\ pc[r] = "reread"
    /\ \/ \E c \in clusters : /\ c.name = name[r]
                              /\ reply' = [reply EXCEPT ![r] = c.id]
                              /\ Goto(r, "ok")
       \/ /\ \A c \in clusters : c.name # name[r]
          /\ Goto(r, "error")
          /\ UNCHANGED reply
    /\ UNCHANGED <<dbVars, name, vis, attempt, vni, slice, vip, block>>

\* A handler future is dropped at an await; nothing after it runs.
Cancel(r) ==
    /\ "cancel" \in Faults
    /\ r \in InFlight
    /\ Goto(r, "dropped")
    /\ UNCHANGED <<dbVars, reqVars>>

\* The process restarts: every future is gone, the database is kept, the
\* config is read again.
Restart(s) ==
    /\ "restart" \in Faults
    /\ vniStart' = s
    /\ pc' = [r \in Requests |-> IF r \in InFlight THEN "dropped" ELSE pc[r]]
    /\ UNCHANGED <<clusters, owner, vtep, reqVars>>

\* The tombstone ack that leaves a cluster without host_clusters and vms rows
\* frees its addresses and deletes its row in one transaction.
DrainCluster(c) ==
    /\ clusters' = clusters \ {c}
    /\ Release(c.id)
    /\ UNCHANGED <<vtep, vniStart, pc, reqVars>>

\* A host registers, or registers again, with its underlay address (upsert_host).
RegisterHost(h, a) ==
    /\ vtep' = [vtep EXCEPT ![h] = a]
    /\ UNCHANGED <<clusters, owner, vniStart, pc, reqVars>>

Handler(r) ==
    \/ \E n \in Names, v \in Visibilities : Lookup(r, n, v)
    \/ AllocateNetwork(r)
    \/ AllocatePublicVip(r)
    \/ ReservePrivateVip(r)
    \/ AllocateBlock(r)
    \/ InsertCluster(r)
    \/ Rollback(r)
    \/ ReleaseFails(r)
    \/ Reread(r)

Next ==
    \/ \E r \in Requests : Handler(r) \/ Cancel(r)
    \/ \E s \in VniStarts : Restart(s)
    \/ \E c \in clusters : DrainCluster(c)
    \/ \E h \in Hosts, a \in PoolAddrs \cup {Elsewhere} : RegisterHost(h, a)

Spec == Init /\ [][Next]_vars

-----------------------------------------------------------------------------
(* Properties. *)

RowType == [id : Ids, name : Names, vni : Nat, slice : Slices, vip : Addrs,
            block : PoolAddrs]

Labels == Settled \cup {"network", "vip", "block", "insert", "rollback_error",
                        "rollback_reread", "rollback_retry", "reread"}

\* Every variable has its type.
TypeOK ==
    /\ clusters \subseteq RowType
    /\ owner \in [Addrs -> Ids \cup {NoId}]
    /\ vtep \in [Hosts -> PoolAddrs \cup {Elsewhere}]
    /\ vniStart \in VniStarts
    /\ pc \in [Requests -> Labels]
    /\ name \in [Requests -> Names \cup {NoName}]
    /\ vis \in [Requests -> Visibilities \cup {"none"}]
    /\ attempt \in [Requests -> 1 .. MaxAttempts]
    /\ vni \in [Requests -> Nat]
    /\ slice \in [Requests -> Slices]
    /\ vip \in [Requests -> Nat]
    /\ block \in [Requests -> Nat]
    /\ reply \in [Requests -> Ids \cup {NoId}]

\* Two clusters never share a VNI or an overlay CIDR, although the allocator
\* reads without reserving and only clusters.vni is UNIQUE
\* (allocate_cluster_network, insert_cluster).
DistinctNetworks ==
    \A c, d \in clusters : c # d => c.vni # d.vni /\ c.slice # d.slice

RowAddrs(c) == {c.vip} \cup Block(c.block)

\* A committed cluster's apiserver VIP and every address of its service block
\* stay allocated to it until the ack that deletes it, whatever the rollbacks
\* of the calls that raced it release: so no two clusters share an address.
EndpointsHeld == \A c \in clusters : \A a \in RowAddrs(c) : owner[a] = c.id

Holders == {r \in Requests : pc[r] \in {"vip", "block", "insert", "rollback_error",
                                         "rollback_reread", "rollback_retry"}}
Accounted(id) ==
    \/ \E c \in clusters : c.id = id
    \/ \E r \in Holders : ClusterId(r) = id
Orphaned == {a \in Addrs : owner[a] # NoId /\ ~Accounted(owner[a])}

\* An allocated address belongs to a cluster row or to an attempt that will
\* insert one or roll back; "every failure-rollback site" sees to that.  Only a
\* dropped future, a restart or a failed release leaves one to nobody.
LeaksOnlyByFault ==
    [][\/ Orphaned' \subseteq Orphaned
       \/ \E r \in Requests : Cancel(r) \/ ReleaseFails(r)
       \/ \E s \in VniStarts : Restart(s)]_vars

\* CreateCluster is idempotent by name: calls that carry one name and are
\* answered while the cluster lives are answered with the same cluster.
IdempotentByName ==
    \A r, q \in Requests :
        LET live(x) == pc[x] = "ok" /\ \E c \in clusters : c.id = reply[x]
        IN live(r) /\ live(q) /\ name[r] = name[q] => reply[r] = reply[q]

\* What a row and a finished call come to for the callers.
Promise(c) == [id |-> c.id, name |-> c.name, vni |-> c.vni, cidr |-> c.slice,
               addrs |-> RowAddrs(c)]
Promised == {Promise(c) : c \in clusters}
Replied == [r \in Requests |->
    IF pc[r] = "ok" THEN [name |-> name[r], id |-> reply[r]]
    ELSE [name |-> NoName, id |-> NoId]]

Table == INSTANCE ClusterTable WITH
    Calls <- Requests, table <- Promised, answer <- Replied

\* CreateCluster is atomic, although it reads and writes the tables in four
\* transactions, rolls back and starts over: clusters appear and calls are
\* answered as if each call had taken one step, and a new cluster has nothing
\* in common with another.
AtomicCreate == Table!Spec

\* A call loses the VNI race only to a call that won it, so with no more calls
\* than attempts none is turned away with resource_exhausted.
RacersNotExhausted ==
    Cardinality(Requests) <= MaxAttempts =>
        \A r \in Requests : pc[r] # "exhausted"
===============================================================================
