-------------------------- MODULE ClusterAllocProofs --------------------------
(***************************************************************************)
(* Proofs about ClusterAlloc for any number of calls, VNIs, slices and     *)
(* addresses.                                                              *)
(*                                                                         *)
(* Core is the inductive invariant behind EndpointsHeld: what a call has   *)
(* reserved it still holds when it inserts its row (Holding), a row's id   *)
(* is that of a call that has returned (Committed), so the rollback of     *)
(* another call, which releases by id, never reaches it.                   *)
(*                                                                         *)
(* From it follow that leaks are faults and, with DistinctNetworks, that   *)
(* ClusterAlloc implements ClusterTable: the insert is the step of a call, *)
(* and everything before and after it a stutter.  Racing, beside Core,     *)
(* counts the attempts of a call against the calls that were answered.     *)
(***************************************************************************)
EXTENDS ClusterAlloc, FiniteSetTheorems, TLAPS

\* What an in-flight call holds at each await.
Holding ==
    \A r \in Requests :
        /\ pc[r] # "idle" => name[r] \in Names
        /\ pc[r] \in {"block", "insert"} =>
              vip[r] \in Addrs /\ owner[vip[r]] = ClusterId(r)
        /\ pc[r] = "insert" =>
              /\ block[r] \in PoolAddrs /\ Block(block[r]) \subseteq PoolAddrs
              /\ \A a \in Block(block[r]) : owner[a] = ClusterId(r)

\* A row was inserted by a call that has returned, under that call's last id.
Committed ==
    \A c \in clusters : \E q \in Requests :
        pc[q] = "ok" /\ c.id = ClusterId(q) /\ c.name = name[q]

UniqueIds == \A c, d \in clusters : c.id = d.id => c = d

RowsInRange == \A c \in clusters : RowAddrs(c) \subseteq Addrs

Core == TypeOK /\ Holding /\ Committed /\ UniqueIds /\ RowsInRange /\ EndpointsHeld

-----------------------------------------------------------------------------
(* What the two writes to ip_allocations preserve. *)

\* The uuid of a call's current attempt is a cluster id.
LEMMA IdType == TypeOK => \A r \in Requests : ClusterId(r) \in Ids
  BY Zenon DEF TypeOK, ClusterId, Ids

\* Two calls never use one uuid.
LEMMA IdInjective == \A r, q : ClusterId(r) = ClusterId(q) => r = q
  BY Zenon DEF ClusterId

\* Reserving free addresses takes none from anyone.
LEMMA ReserveLemma ==
  ASSUME TypeOK, NEW S, NEW id \in Ids,
         \A a \in S : a \in Addrs /\ owner[a] = NoId,
         Reserve(S, id)
  PROVE  /\ owner' \in [Addrs -> Ids \cup {NoId}]
         /\ \A a \in S : owner'[a] = id
         /\ \A a \in Addrs : owner[a] # NoId => owner'[a] = owner[a]
         /\ \A a \in Addrs : owner'[a] = owner[a] \/ owner'[a] = id
  BY Zenon DEF TypeOK, Reserve

\* Releasing by id takes nothing from any other id.
LEMMA ReleaseLemma ==
  ASSUME TypeOK, NEW id \in Ids, Release(id)
  PROVE  /\ owner' \in [Addrs -> Ids \cup {NoId}]
         /\ \A a \in Addrs : owner[a] # id => owner'[a] = owner[a]
         /\ \A a \in Addrs : owner'[a] # id
         /\ \A a \in Addrs : owner'[a] = owner[a] \/ owner'[a] = NoId
  BY NullAssumption, Zenon DEF TypeOK, Release

-----------------------------------------------------------------------------
\* The empty database satisfies the inductive invariant.
LEMMA CoreInit == Init => Core
<1> SUFFICES ASSUME Init PROVE Core
  OBVIOUS
<1>1. TypeOK
  BY ConfigAssumption DEF Init, TypeOK, Labels, Settled, Slices, Elsewhere
<1>2. Holding /\ Committed /\ UniqueIds /\ RowsInRange /\ EndpointsHeld
  BY Zenon DEF Init, Holding, Committed, UniqueIds, RowsInRange, EndpointsHeld
<1> QED
  BY <1>1, <1>2, Zenon DEF Core

\* The name lookup that opens create_cluster preserves Core.
LEMMA LookupCore ==
  ASSUME Core, NEW r \in Requests, NEW n \in Names, NEW v \in Visibilities, Lookup(r, n, v)
  PROVE  Core'
<1>1. TypeOK'
  BY Zenon DEF Core, TypeOK, Lookup, Goto, dbVars, RowType, Labels, Settled
<1>2. Holding'
  BY Zenon DEF Core, TypeOK, Holding, Lookup, Goto, dbVars, ClusterId
<1>3. Committed'
  BY Zenon DEF Core, TypeOK, Committed, Lookup, Goto, dbVars, ClusterId
<1>4. (UniqueIds /\ RowsInRange /\ EndpointsHeld)'
  BY Zenon DEF Core, UniqueIds, RowsInRange, EndpointsHeld, Lookup, dbVars, RowAddrs
<1> QED
  BY <1>1, <1>2, <1>3, <1>4, Zenon DEF Core

\* A call that only moves on, holding or claiming nothing more.
LEMMA QuietCore ==
  ASSUME Core, NEW r \in Requests, NEW l \in Labels \ {"block", "insert"},
         pc[r] \notin {"idle", "ok"}, Goto(r, l), UNCHANGED <<dbVars, name, vis, attempt,
         vni, slice, vip, block>>,
         reply' \in [Requests -> Ids \cup {NoId}]
  PROVE  Core'
<1>1. TypeOK'
  BY Zenon DEF Core, TypeOK, Goto, dbVars
<1>2. Holding'
  BY Zenon DEF Core, TypeOK, Holding, Goto, dbVars, ClusterId
<1>3. Committed'
  BY Zenon DEF Core, TypeOK, Committed, Goto, dbVars, ClusterId
<1>4. (UniqueIds /\ RowsInRange /\ EndpointsHeld)'
  BY Zenon DEF Core, UniqueIds, RowsInRange, EndpointsHeld, dbVars, RowAddrs
<1> QED
  BY <1>1, <1>2, <1>3, <1>4, Zenon DEF Core

\* allocate_cluster_network, which reserves nothing, preserves Core.
LEMMA AllocateNetworkCore ==
  ASSUME Core, NEW r \in Requests, AllocateNetwork(r)
  PROVE  Core'
<1>0. FreeVnis \subseteq Nat /\ FreeSlices \subseteq Slices
  BY ConfigAssumption DEF Core, TypeOK, VniRange, FreeVnis, FreeSlices
<1>1. TypeOK'
  BY <1>0 DEF Core, TypeOK, AllocateNetwork, Goto, dbVars, Labels, Settled
<1>2. Holding'
  BY Zenon DEF Core, TypeOK, Holding, AllocateNetwork, Goto, dbVars, ClusterId
<1>3. Committed'
  BY Zenon DEF Core, TypeOK, Committed, AllocateNetwork, Goto, dbVars, ClusterId
<1>4. (UniqueIds /\ RowsInRange /\ EndpointsHeld)'
  BY Zenon DEF Core, UniqueIds, RowsInRange, EndpointsHeld, AllocateNetwork, dbVars, RowAddrs
<1> QED
  BY <1>1, <1>2, <1>3, <1>4, Zenon DEF Core

\* Any step of call r that only reserves free addresses under its own id.
LEMMA ReserveCore ==
  ASSUME Core, NEW r \in Requests, NEW S,
         \A a \in S : a \in Addrs /\ owner[a] = NoId,
         Reserve(S, ClusterId(r)),
         UNCHANGED <<clusters, attempt>>
  PROVE  /\ owner' \in [Addrs -> Ids \cup {NoId}]
         /\ \A a \in S : owner'[a] = ClusterId(r)
         /\ \A q \in Requests : ClusterId(q)' = ClusterId(q)
         /\ \A a \in Addrs : owner[a] # NoId => owner'[a] = owner[a]
         /\ (UniqueIds /\ RowsInRange /\ EndpointsHeld)'
<1>1. ClusterId(r) \in Ids
  BY IdType, Zenon DEF Core
<1>2. /\ owner' \in [Addrs -> Ids \cup {NoId}]
      /\ \A a \in S : owner'[a] = ClusterId(r)
      /\ \A a \in Addrs : owner[a] # NoId => owner'[a] = owner[a]
  BY <1>1, ReserveLemma, Zenon DEF Core
<1>3. \A q \in Requests : ClusterId(q)' = ClusterId(q)
  BY Zenon DEF ClusterId
<1>4. (UniqueIds /\ RowsInRange)'
  BY Zenon DEF Core, UniqueIds, RowsInRange, RowAddrs
<1>5. EndpointsHeld'
  <2>1. \A c \in clusters : c.id \in Ids
    BY Zenon DEF Core, TypeOK, RowType
  <2> QED
    BY <1>2, <2>1, NullAssumption DEF Core, RowsInRange, EndpointsHeld, RowAddrs
<1> QED
  BY <1>2, <1>3, <1>4, <1>5, Zenon

\* allocate_pool_vip preserves Core: the address it takes was free.
LEMMA AllocatePublicVipCore ==
  ASSUME Core, NEW r \in Requests, AllocatePublicVip(r)
  PROVE  Core'
<1>0. FreePoolAddrs \subseteq Nat /\ \A a \in FreePoolAddrs : a \in Addrs /\ owner[a] = NoId
  BY ConfigAssumption DEF FreePoolAddrs, PoolAddrs, Addrs
<1>id. \A q \in Requests : ClusterId(q) \in Ids
  BY IdType, Zenon DEF Core
<1>1. CASE FreePoolAddrs = {} /\ Goto(r, "rollback_error") /\ UNCHANGED <<owner, vip>>
  BY <1>1, QuietCore, Zenon DEF AllocatePublicVip, Labels, dbVars, Core, TypeOK
<1>2. ASSUME NEW a \in FreePoolAddrs, Reserve({a}, ClusterId(r)),
             vip' = [vip EXCEPT ![r] = a], Goto(r, "block")
      PROVE  Core'
  <2>u. UNCHANGED <<clusters, vtep, vniStart, name, vis, attempt, vni, slice, block, reply>>
    BY Zenon DEF AllocatePublicVip
  <2>r. /\ owner' \in [Addrs -> Ids \cup {NoId}]
        /\ owner'[a] = ClusterId(r)
        /\ \A q \in Requests : ClusterId(q)' = ClusterId(q)
        /\ \A b \in Addrs : owner[b] # NoId => owner'[b] = owner[b]
        /\ (UniqueIds /\ RowsInRange /\ EndpointsHeld)'
    BY <1>0, <1>2, <2>u, ReserveCore, Zenon
  <2>1. TypeOK'
    BY <1>0, <1>2, <2>u, <2>r, Zenon DEF Core, TypeOK, Goto, Labels
  <2>2. Holding'
    <3> SUFFICES ASSUME NEW q \in Requests
                 PROVE  /\ pc'[q] # "idle" => name'[q] \in Names
                        /\ pc'[q] \in {"block", "insert"} =>
                              vip'[q] \in Addrs /\ owner'[vip'[q]] = ClusterId(q)'
                        /\ pc'[q] = "insert" =>
                              /\ block'[q] \in PoolAddrs /\ Block(block'[q]) \subseteq PoolAddrs
                              /\ \A b \in Block(block'[q]) : owner'[b] = ClusterId(q)'
      BY Zenon DEF Holding, Block
    <3>1. CASE q = r
      BY <1>0, <1>2, <2>u, <2>r, <3>1, Zenon DEF Core, TypeOK, Holding, Goto, AllocatePublicVip
    <3>2. CASE q # r
      BY <1>2, <1>id, <2>u, <2>r, <3>2, NullAssumption DEF Core, TypeOK, Holding, Goto, Addrs
    <3> QED
      BY <3>1, <3>2, Zenon
  <2>3. Committed'
    BY <1>2, <2>u, <2>r DEF Core, TypeOK, Committed, Goto, AllocatePublicVip
  <2> QED
    BY <2>1, <2>2, <2>3, <2>r, Zenon DEF Core
<1> QED
  BY <1>1, <1>2, Zenon DEF AllocatePublicVip

\* reserve_specific_ip preserves Core: its primary key keeps a taken address.
LEMMA ReservePrivateVipCore ==
  ASSUME Core, NEW r \in Requests, ReservePrivateVip(r)
  PROVE  Core'
<1> DEFINE a == PrivateBase + slice[r]
<1>0. a \in Nat /\ a \in Addrs /\ slice[r] \in Slices
  BY ConfigAssumption DEF Core, TypeOK, Addrs, PrivateIps, Slices
<1>id. \A q \in Requests : ClusterId(q) \in Ids
  BY IdType, Zenon DEF Core
<1>1. CASE owner[a] # NoId /\ Goto(r, "rollback_error") /\ UNCHANGED <<owner, vip>>
  BY <1>1, QuietCore, Zenon DEF ReservePrivateVip, Labels, dbVars, Core, TypeOK
<1>2. ASSUME owner[a] = NoId, Reserve({a}, ClusterId(r)),
             vip' = [vip EXCEPT ![r] = a], Goto(r, "block")
      PROVE  Core'
  <2> HIDE DEF a
  <2>u. UNCHANGED <<clusters, vtep, vniStart, name, vis, attempt, vni, slice, block, reply>>
    BY Zenon DEF ReservePrivateVip
  <2>r. /\ owner' \in [Addrs -> Ids \cup {NoId}]
        /\ owner'[a] = ClusterId(r)
        /\ \A q \in Requests : ClusterId(q)' = ClusterId(q)
        /\ \A b \in Addrs : owner[b] # NoId => owner'[b] = owner[b]
        /\ (UniqueIds /\ RowsInRange /\ EndpointsHeld)'
    BY <1>0, <1>2, <2>u, ReserveCore
  <2>1. TypeOK'
    BY <1>0, <1>2, <2>u, <2>r, Zenon DEF Core, TypeOK, Goto, Labels
  <2>2. Holding'
    <3> SUFFICES ASSUME NEW q \in Requests
                 PROVE  /\ pc'[q] # "idle" => name'[q] \in Names
                        /\ pc'[q] \in {"block", "insert"} =>
                              vip'[q] \in Addrs /\ owner'[vip'[q]] = ClusterId(q)'
                        /\ pc'[q] = "insert" =>
                              /\ block'[q] \in PoolAddrs /\ Block(block'[q]) \subseteq PoolAddrs
                              /\ \A b \in Block(block'[q]) : owner'[b] = ClusterId(q)'
      BY Zenon DEF Holding, Block
    <3>1. CASE q = r
      BY <1>0, <1>2, <2>u, <2>r, <3>1, Zenon DEF Core, TypeOK, Holding, Goto, ReservePrivateVip
    <3>2. CASE q # r
      BY <1>2, <1>id, <2>u, <2>r, <3>2, NullAssumption DEF Core, TypeOK, Holding, Goto, Addrs
    <3> QED
      BY <3>1, <3>2, Zenon
  <2>3. Committed'
    BY <1>2, <2>u, <2>r DEF Core, TypeOK, Committed, Goto, ReservePrivateVip
  <2> QED
    BY <2>1, <2>2, <2>3, <2>r, Zenon DEF Core
<1> QED
  BY <1>1, <1>2, Zenon DEF ReservePrivateVip

\* allocate_service_block preserves Core: its whole run was free.
LEMMA AllocateBlockCore ==
  ASSUME Core, NEW r \in Requests, AllocateBlock(r)
  PROVE  Core'
<1>0. \A b \in FreeBlocks : /\ b \in Nat /\ b \in PoolAddrs /\ Block(b) \subseteq PoolAddrs
                            /\ \A a \in Block(b) : a \in Addrs /\ owner[a] = NoId
  BY ConfigAssumption DEF FreeBlocks, FreePoolAddrs, PoolAddrs, Addrs
<1>id. \A q \in Requests : ClusterId(q) \in Ids
  BY IdType, Zenon DEF Core
<1>1. CASE FreeBlocks = {} /\ Goto(r, "rollback_error") /\ UNCHANGED <<owner, block>>
  BY <1>1, QuietCore, Zenon DEF AllocateBlock, Labels, dbVars, Core, TypeOK
<1>2. ASSUME NEW b \in FreeBlocks, Reserve(Block(b), ClusterId(r)),
             block' = [block EXCEPT ![r] = b], Goto(r, "insert")
      PROVE  Core'
  <2>u. UNCHANGED <<clusters, vtep, vniStart, name, vis, attempt, vni, slice, vip, reply>>
    BY Zenon DEF AllocateBlock
  <2>r. /\ owner' \in [Addrs -> Ids \cup {NoId}]
        /\ \A a \in Block(b) : owner'[a] = ClusterId(r)
        /\ \A q \in Requests : ClusterId(q)' = ClusterId(q)
        /\ \A a \in Addrs : owner[a] # NoId => owner'[a] = owner[a]
        /\ (UniqueIds /\ RowsInRange /\ EndpointsHeld)'
    BY <1>0, <1>2, <2>u, ReserveCore, Zenon
  <2>1. TypeOK'
    BY <1>0, <1>2, <2>u, <2>r, Zenon DEF Core, TypeOK, Goto, Labels
  <2>2. Holding'
    <3> SUFFICES ASSUME NEW q \in Requests
                 PROVE  /\ pc'[q] # "idle" => name'[q] \in Names
                        /\ pc'[q] \in {"block", "insert"} =>
                              vip'[q] \in Addrs /\ owner'[vip'[q]] = ClusterId(q)'
                        /\ pc'[q] = "insert" =>
                              /\ block'[q] \in PoolAddrs /\ Block(block'[q]) \subseteq PoolAddrs
                              /\ \A a \in Block(block'[q]) : owner'[a] = ClusterId(q)'
      BY Zenon DEF Holding, Block
    <3>1. CASE q = r
      BY <1>0, <1>2, <1>id, <2>u, <2>r, <3>1, NullAssumption
         DEF Core, TypeOK, Holding, Goto, AllocateBlock
    <3>2. CASE q # r
      BY <1>2, <1>id, <2>u, <2>r, <3>2, NullAssumption DEF Core, TypeOK, Holding, Goto, Addrs
    <3> QED
      BY <3>1, <3>2, Zenon
  <2>3. Committed'
    BY <1>2, <2>u, <2>r DEF Core, TypeOK, Committed, Goto, AllocateBlock
  <2> QED
    BY <2>1, <2>2, <2>3, <2>r, Zenon DEF Core
<1> QED
  BY <1>1, <1>2, Zenon DEF AllocateBlock

\* insert_cluster preserves Core: the row it commits names what its call holds.
LEMMA InsertClusterCore ==
  ASSUME Core, NEW r \in Requests, InsertCluster(r)
  PROVE  Core'
<1>1. ASSUME NEW l \in {"rollback_reread", "rollback_retry", "rollback_error"},
             Goto(r, l), UNCHANGED <<clusters, reply>>
      PROVE  Core'
  <2>1. l \in Labels \ {"block", "insert"}
    BY Zenon DEF Labels
  <2> QED
    BY <1>1, <2>1, QuietCore, Zenon DEF InsertCluster, dbVars, Core, TypeOK
<1>2. ASSUME clusters' = clusters \cup {Row(r)},
             reply' = [reply EXCEPT ![r] = ClusterId(r)], Goto(r, "ok")
      PROVE  Core'
  <2>u. /\ pc[r] = "insert"
        /\ UNCHANGED <<owner, vtep, vniStart, name, vis, attempt, vni, slice, vip, block>>
    BY Zenon DEF InsertCluster
  <2>id. \A q \in Requests : ClusterId(q) \in Ids /\ ClusterId(q)' = ClusterId(q)
    BY <2>u, IdType, Zenon DEF Core, ClusterId
  <2>row. Row(r) \in RowType
    BY <2>u, <2>id, Zenon DEF Core, TypeOK, Holding, Row, RowType
  <2>f. /\ Row(r).id = ClusterId(r) /\ Row(r).name = name[r]
        /\ RowAddrs(Row(r)) = {vip[r]} \cup Block(block[r])
    BY Zenon DEF Row, RowAddrs
  <2>1. TypeOK'
    BY <1>2, <2>u, <2>row, <2>id, Zenon DEF Core, TypeOK, Goto, Labels, Settled
  <2>2. Holding'
    BY <1>2, <2>u, <2>id, Zenon DEF Core, TypeOK, Holding, Goto
  <2>3. Committed'
    BY <1>2, <2>u, <2>id, <2>f, Zenon DEF Core, TypeOK, Committed, Goto
  <2>4. UniqueIds'
    <3>1. \A c \in clusters : c.id # ClusterId(r)
      BY <2>u, IdInjective, Zenon DEF Core, Committed
    <3> QED
      BY <1>2, <2>f, <3>1, Zenon DEF Core, UniqueIds
  <2>5. RowAddrs(Row(r)) \subseteq Addrs /\ \A a \in RowAddrs(Row(r)) : owner[a] = Row(r).id
    BY <2>u, <2>f, Zenon DEF Core, Holding, Addrs
  <2>6. (RowsInRange /\ EndpointsHeld)'
    BY <1>2, <2>u, <2>5, Zenon DEF Core, RowsInRange, EndpointsHeld, RowAddrs
  <2> QED
    BY <2>1, <2>2, <2>3, <2>4, <2>6, Zenon DEF Core
<1> QED
  BY <1>1, <1>2, Zenon DEF InsertCluster

\* The rollback closure preserves Core, its release done or not: it releases
\* by the id of an attempt that has no row.
LEMMA RollbackCore ==
  ASSUME Core, NEW r \in Requests, Rollback(r) \/ ReleaseFails(r)
  PROVE  Core'
<1>u. /\ pc[r] \in {"rollback_error", "rollback_reread", "rollback_retry"}
      /\ UNCHANGED <<clusters, vtep, vniStart, name, vis, vni, slice, vip, block, reply>>
  BY Zenon DEF Rollback, ReleaseFails, Unwind
<1>id. \A q \in Requests : ClusterId(q) \in Ids
  BY IdType, Zenon DEF Core
<1>o. /\ owner' \in [Addrs -> Ids \cup {NoId}]
      /\ \A a \in Addrs : owner[a] # ClusterId(r) => owner'[a] = owner[a]
  BY <1>id, ReleaseLemma, Zenon DEF Core, TypeOK, Rollback, ReleaseFails
<1>a. /\ attempt' \in [Requests -> 1 .. MaxAttempts]
      /\ \A q \in Requests : q # r => ClusterId(q)' = ClusterId(q)
  BY ConfigAssumption DEF Core, TypeOK, Rollback, ReleaseFails, Unwind, ClusterId
<1>p. \E l \in {"error", "reread", "network", "exhausted"} : Goto(r, l)
  BY Zenon DEF Rollback, ReleaseFails, Unwind
<1>1. TypeOK'
  BY <1>u, <1>o, <1>a, <1>p, Zenon DEF Core, TypeOK, Goto, Labels, Settled
<1>2. Holding'
  <2> SUFFICES ASSUME NEW q \in Requests
               PROVE  /\ pc'[q] # "idle" => name'[q] \in Names
                      /\ pc'[q] \in {"block", "insert"} =>
                            vip'[q] \in Addrs /\ owner'[vip'[q]] = ClusterId(q)'
                      /\ pc'[q] = "insert" =>
                            /\ block'[q] \in PoolAddrs /\ Block(block'[q]) \subseteq PoolAddrs
                            /\ \A b \in Block(block'[q]) : owner'[b] = ClusterId(q)'
    BY Zenon DEF Holding, Block
  <2>1. CASE q = r
    BY <1>u, <1>p, <2>1, Zenon DEF Core, TypeOK, Holding, Goto
  <2>2. CASE q # r
    <3>1. ClusterId(q) # ClusterId(r)
      BY <2>2, IdInjective, Zenon
    <3> QED
      BY <1>u, <1>p, <1>a, <1>o, <2>2, <3>1, Zenon DEF Core, TypeOK, Holding, Goto, Addrs
  <2> QED
    BY <2>1, <2>2, Zenon
<1>3. Committed'
  BY <1>u, <1>a, <1>p DEF Core, TypeOK, Committed, Goto
<1>4. (UniqueIds /\ RowsInRange)'
  BY <1>u, Zenon DEF Core, UniqueIds, RowsInRange, RowAddrs
<1>5. EndpointsHeld'
  <2>1. \A c \in clusters : c.id # ClusterId(r)
    BY <1>u, IdInjective, Zenon DEF Core, Committed
  <2> QED
    BY <1>u, <1>o, <2>1, Zenon DEF Core, RowsInRange, EndpointsHeld, RowAddrs
<1> QED
  BY <1>1, <1>2, <1>3, <1>4, <1>5, Zenon DEF Core

\* The read of the winner's row after a lost name race preserves Core.
LEMMA RereadCore ==
  ASSUME Core, NEW r \in Requests, Reread(r)
  PROVE  Core'
<1>1. reply' \in [Requests -> Ids \cup {NoId}]
  BY Zenon DEF Reread, Core, TypeOK, RowType
<1>2. \E l \in {"ok", "error"} : Goto(r, l)
  BY Zenon DEF Reread
<1>3. {"ok", "error"} \subseteq Labels \ {"block", "insert"}
  BY Zenon DEF Labels, Settled
<1> QED
  BY <1>1, <1>2, <1>3, QuietCore, Zenon DEF Reread, Core, TypeOK

\* Dropping a handler future preserves Core.
LEMMA CancelCore ==
  ASSUME Core, NEW r \in Requests, Cancel(r)
  PROVE  Core'
<1>1. "dropped" \in Labels \ {"block", "insert"} /\ pc[r] \notin {"idle", "ok"}
  BY Zenon DEF Labels, Settled, Cancel, InFlight
<1> QED
  BY <1>1, QuietCore, Zenon DEF Cancel, reqVars, Core, TypeOK

\* A restart of the process preserves Core.
LEMMA RestartCore ==
  ASSUME Core, NEW s \in VniStarts, Restart(s)
  PROVE  Core'
<1>1. TypeOK'
  BY Zenon DEF Core, TypeOK, Restart, reqVars, Labels, Settled
<1>2. Holding'
  BY Zenon DEF Core, TypeOK, Holding, Restart, reqVars, ClusterId, InFlight, Settled
<1>3. Committed'
  BY Zenon DEF Core, TypeOK, Committed, Restart, reqVars, ClusterId, InFlight, Settled
<1>4. (UniqueIds /\ RowsInRange /\ EndpointsHeld)'
  BY Zenon DEF Core, UniqueIds, RowsInRange, EndpointsHeld, Restart, RowAddrs
<1> QED
  BY <1>1, <1>2, <1>3, <1>4, Zenon DEF Core

\* The ack that deletes a cluster and frees its addresses preserves Core.
LEMMA DrainClusterCore ==
  ASSUME Core, NEW c \in clusters, DrainCluster(c)
  PROVE  Core'
<1>u. clusters' = clusters \ {c} /\ UNCHANGED <<vtep, vniStart, pc, reqVars>>
  BY Zenon DEF DrainCluster
<1>i. c.id \in Ids /\ \A q \in Requests : ClusterId(q)' = ClusterId(q)
  BY <1>u, Zenon DEF Core, TypeOK, RowType, reqVars, ClusterId
<1>o. /\ owner' \in [Addrs -> Ids \cup {NoId}]
      /\ \A a \in Addrs : owner[a] # c.id => owner'[a] = owner[a]
  BY <1>i, ReleaseLemma, Zenon DEF Core, DrainCluster
<1>1. TypeOK'
  BY <1>u, <1>o, Zenon DEF Core, TypeOK, reqVars
<1>2. Holding'
  <2> SUFFICES ASSUME NEW q \in Requests
               PROVE  /\ pc[q] # "idle" => name[q] \in Names
                      /\ pc[q] \in {"block", "insert"} =>
                            vip[q] \in Addrs /\ owner'[vip[q]] = ClusterId(q)'
                      /\ pc[q] = "insert" =>
                            /\ block[q] \in PoolAddrs /\ Block(block[q]) \subseteq PoolAddrs
                            /\ \A b \in Block(block[q]) : owner'[b] = ClusterId(q)'
    BY <1>u, Zenon DEF Holding, Block, reqVars
  <2>1. CASE pc[q] \in {"block", "insert"}
    <3>1. ClusterId(q) # c.id
      BY <2>1, IdInjective, Zenon DEF Core, Committed
    <3> QED
      BY <1>i, <1>o, <2>1, <3>1, Zenon DEF Core, Holding, Addrs
  <2>2. CASE pc[q] \notin {"block", "insert"}
    BY <2>2, Zenon DEF Core, Holding
  <2> QED
    BY <2>1, <2>2, Zenon
<1>3. Committed'
  BY <1>u, <1>i, Zenon DEF Core, Committed, reqVars
<1>4. (UniqueIds /\ RowsInRange)'
  BY <1>u, Zenon DEF Core, UniqueIds, RowsInRange, RowAddrs
<1>5. EndpointsHeld'
  BY <1>u, <1>o DEF Core, UniqueIds, RowsInRange, EndpointsHeld, RowAddrs
<1> QED
  BY <1>1, <1>2, <1>3, <1>4, <1>5, Zenon DEF Core

\* upsert_host preserves Core.
LEMMA RegisterHostCore ==
  ASSUME Core, NEW h \in Hosts, NEW a \in PoolAddrs \cup {Elsewhere}, RegisterHost(h, a)
  PROVE  Core'
<1>1. TypeOK'
  BY Zenon DEF Core, TypeOK, RegisterHost, reqVars
<1>2. (Holding /\ Committed /\ UniqueIds /\ RowsInRange /\ EndpointsHeld)'
  BY Zenon DEF Core, Holding, Committed, UniqueIds, RowsInRange, EndpointsHeld,
         RegisterHost, reqVars, ClusterId, RowAddrs
<1> QED
  BY <1>1, <1>2, Zenon DEF Core

\* Core is inductive.
LEMMA CoreNext == Core /\ [Next]_vars => Core'
<1> SUFFICES ASSUME Core, [Next]_vars PROVE Core'
  OBVIOUS
<1>1. CASE UNCHANGED vars
  <2>1. TypeOK'
    BY <1>1, Zenon DEF Core, TypeOK, vars
  <2>2. (Holding /\ Committed /\ UniqueIds /\ RowsInRange /\ EndpointsHeld)'
    BY <1>1, Zenon DEF Core, Holding, Committed, UniqueIds, RowsInRange, EndpointsHeld,
                vars, ClusterId, RowAddrs
  <2> QED
    BY <2>1, <2>2, Zenon DEF Core
<1>2. ASSUME NEW r \in Requests, Handler(r) PROVE Core'
  BY <1>2, LookupCore, AllocateNetworkCore, AllocatePublicVipCore, ReservePrivateVipCore,
     AllocateBlockCore, InsertClusterCore, RollbackCore, RereadCore, Zenon DEF Handler
<1> QED
  BY <1>1, <1>2, CancelCore, RestartCore, DrainClusterCore, RegisterHostCore, Zenon DEF Next

-----------------------------------------------------------------------------
\* Type correctness: no interleaving of CreateCluster calls, drains, dropped
\* futures and restarts leaves the tables or a handler out of range.
THEOREM TypeCorrect == Spec => []TypeOK
<1>1. Core => TypeOK
  BY Zenon DEF Core
<1> QED
  BY <1>1, CoreInit, CoreNext, PTL DEF Spec

\* EndpointsHeld for any number of calls and addresses, with every fault
\* allowed: a committed cluster keeps its VIP and its service block until the
\* ack that drains it.
THEOREM EndpointsStayHeld == Spec => []EndpointsHeld
<1>1. Core => EndpointsHeld
  BY Zenon DEF Core
<1> QED
  BY <1>1, CoreInit, CoreNext, PTL DEF Spec

-----------------------------------------------------------------------------
(***************************************************************************)
(* Distinct networks.  The VNI and the slice are picked independently, but *)
(* while the VNI range keeps its start every row and every pick pairs the  *)
(* k-th VNI with the k-th slice, so UNIQUE(vni) also keeps slices apart.   *)
(***************************************************************************)
OneConfig == \A s, t \in VniStarts : s = t

Picked(r) == pc[r] \in {"vip", "block", "insert"}

Paired ==
    /\ \A c \in clusters : c.vni = vniStart + c.slice
    /\ \A r \in Requests : Picked(r) => vni[r] = vniStart + slice[r]

UniqueVnis == \A c, d \in clusters : c.vni = d.vni => c = d

\* The lowest free VNI and the lowest free slice have the same index.
LEMMA PickIsPaired ==
  ASSUME TypeOK, Paired, NEW v \in FreeVnis, NEW s \in FreeSlices,
         IsLeast(v, FreeVnis), IsLeast(s, FreeSlices)
  PROVE  v = vniStart + s
<1>t. /\ vniStart \in Nat /\ VniCount \in Nat /\ NumSlices \in Nat
      /\ v \in VniRange /\ s \in Slices
      /\ VniRange = vniStart .. vniStart + VniCount - 1 /\ Slices = 0 .. NumSlices - 1
  BY ConfigAssumption, Zenon DEF TypeOK, FreeVnis, FreeSlices, VniRange, Slices
<1>c. \A c \in clusters : c.vni \in Nat /\ c.slice \in Slices
  BY Zenon DEF TypeOK, RowType
<1>1. ASSUME v - vniStart < s PROVE FALSE
  <2>1. v - vniStart \in Slices /\ v - vniStart \notin FreeSlices
    BY <1>1, <1>t DEF IsLeast
  <2>2. PICK c \in clusters : c.slice = v - vniStart
    BY <2>1, Zenon DEF FreeSlices
  <2>3. c.vni = v
    BY <2>2, <1>t, <1>c DEF Paired
  <2> QED
    BY <2>3, Zenon DEF FreeVnis
<1>2. ASSUME vniStart + s < v PROVE FALSE
  <2>1. vniStart + s \in VniRange /\ vniStart + s \notin FreeVnis
    BY <1>2, <1>t DEF IsLeast
  <2>2. PICK c \in clusters : c.vni = vniStart + s
    BY <2>1, Zenon DEF FreeVnis
  <2>3. c.slice = s
    BY <2>2, <1>t, <1>c DEF Paired
  <2> QED
    BY <2>3, Zenon DEF FreeSlices
<1> QED
  BY <1>1, <1>2, <1>t

\* Every step keeps VNIs and slices paired and the VNIs of the rows distinct.
LEMMA PairedNext ==
  ASSUME OneConfig, TypeOK, TypeOK', Paired, UniqueVnis, [Next]_vars
  PROVE  (Paired /\ UniqueVnis)'
<1>u. vniStart' = vniStart
  BY Zenon DEF OneConfig, TypeOK
<1>1. ASSUME NEW r \in Requests, Handler(r) PROVE (Paired /\ UniqueVnis)'
  <2>1. CASE \E n \in Names, v \in Visibilities : Lookup(r, n, v)
    BY <2>1, Zenon DEF Lookup, Goto, dbVars, TypeOK, Paired, UniqueVnis, Picked
  <2>2. CASE AllocateNetwork(r)
    <3>1. CASE FreeVnis = {} \/ FreeSlices = {}
      BY <2>2, <3>1, Zenon DEF AllocateNetwork, Goto, dbVars, TypeOK, Paired, UniqueVnis, Picked
    <3>2. ASSUME NEW v \in FreeVnis, NEW s \in FreeSlices,
                 IsLeast(v, FreeVnis), IsLeast(s, FreeSlices),
                 vni' = [vni EXCEPT ![r] = v], slice' = [slice EXCEPT ![r] = s], Goto(r, "vip")
          PROVE  (Paired /\ UniqueVnis)'
      <4>1. v = vniStart + s
        BY <3>2, PickIsPaired, Zenon
      <4> QED
        BY <2>2, <3>2, <4>1, Zenon DEF AllocateNetwork, Goto, dbVars, TypeOK, Paired, UniqueVnis, Picked
    <3> QED
      BY <2>2, <3>1, <3>2, Zenon DEF AllocateNetwork
  <2>3. CASE AllocatePublicVip(r) \/ ReservePrivateVip(r) \/ AllocateBlock(r)
    BY <2>3, Zenon DEF AllocatePublicVip, ReservePrivateVip, AllocateBlock, Goto, TypeOK,
                Paired, UniqueVnis, Picked
  <2>4. CASE InsertCluster(r)
    <3>1. CASE UNCHANGED clusters
      BY <2>4, <3>1, Zenon DEF InsertCluster, Goto, TypeOK, Paired, UniqueVnis, Picked
    <3>2. CASE clusters' = clusters \cup {Row(r)} /\ ~\E c \in clusters : c.vni = vni[r]
      <4>1. Row(r).vni = vni[r] /\ Row(r).slice = slice[r] /\ vni[r] = vniStart + slice[r]
        BY <2>4, Zenon DEF Row, InsertCluster, Paired, Picked
      <4>2. UniqueVnis'
        BY <3>2, <4>1, Zenon DEF UniqueVnis
      <4>3. \A c \in clusters' : c.vni = vniStart' + c.slice
        BY <3>2, <4>1, <1>u, Zenon DEF Paired
      <4>4. (\A q \in Requests : Picked(q)' => Picked(q)) /\ UNCHANGED <<vni, slice>>
        BY <2>4, Zenon DEF InsertCluster, Goto, TypeOK, Picked
      <4> QED
        BY <4>2, <4>3, <4>4, <1>u, Zenon DEF Paired
    <3> QED
      BY <2>4, <3>1, <3>2, Zenon DEF InsertCluster
  <2>5. CASE Rollback(r) \/ ReleaseFails(r)
    BY <2>5, Zenon DEF Rollback, ReleaseFails, Unwind, Goto, TypeOK, Paired, UniqueVnis, Picked
  <2>6. CASE Reread(r)
    BY <2>6, Zenon DEF Reread, Goto, dbVars, TypeOK, Paired, UniqueVnis, Picked
  <2> QED
    BY <1>1, <2>1, <2>2, <2>3, <2>4, <2>5, <2>6, Zenon DEF Handler
<1>2. ASSUME NEW r \in Requests, Cancel(r) PROVE (Paired /\ UniqueVnis)'
  BY <1>2, Zenon DEF Cancel, Goto, dbVars, reqVars, TypeOK, Paired, UniqueVnis, Picked
<1>3. ASSUME NEW s \in VniStarts, Restart(s) PROVE (Paired /\ UniqueVnis)'
  BY <1>3, <1>u, Zenon DEF Restart, reqVars, TypeOK, Paired, UniqueVnis, Picked
<1>4. ASSUME NEW c \in clusters, DrainCluster(c) PROVE (Paired /\ UniqueVnis)'
  BY <1>4, Zenon DEF DrainCluster, reqVars, Paired, UniqueVnis, Picked
<1>5. ASSUME NEW h \in Hosts, NEW a \in PoolAddrs \cup {Elsewhere}, RegisterHost(h, a)
      PROVE (Paired /\ UniqueVnis)'
  BY <1>5, Zenon DEF RegisterHost, reqVars, Paired, UniqueVnis, Picked
<1>6. CASE UNCHANGED vars
  BY <1>6, Zenon DEF vars, Paired, UniqueVnis, Picked
<1> QED
  BY <1>1, <1>2, <1>3, <1>4, <1>5, <1>6, Zenon DEF Next

\* DistinctNetworks for any number of calls, VNIs and slices, across restarts,
\* as long as the restarts keep the start of the VNI range.
THEOREM NetworksDistinct == ASSUME OneConfig PROVE Spec => []DistinctNetworks
<1>1. Init => Paired /\ UniqueVnis
  BY Zenon DEF Init, Paired, UniqueVnis, Picked
<1>2. TypeOK /\ Paired /\ UniqueVnis => DistinctNetworks
  <2> SUFFICES ASSUME TypeOK, Paired, UniqueVnis, NEW c \in clusters, NEW d \in clusters, c # d
               PROVE  c.vni # d.vni /\ c.slice # d.slice
    BY Zenon DEF DistinctNetworks
  <2>1. c.vni = vniStart + c.slice /\ d.vni = vniStart + d.slice
    BY Zenon DEF Paired
  <2> QED
    BY <2>1, Zenon DEF UniqueVnis
<1>3. Core /\ Paired /\ UniqueVnis /\ [Next]_vars => (Paired /\ UniqueVnis)'
  BY CoreNext, PairedNext, Zenon DEF Core
<1>4. Core => TypeOK
  BY Zenon DEF Core
<1> QED
  BY <1>1, <1>2, <1>3, <1>4, CoreInit, CoreNext, PTL DEF Spec

-----------------------------------------------------------------------------
(***************************************************************************)
(* Idempotence by name.  An answered id is that of a call that inserted a  *)
(* row of that name, and names are unique among rows.                      *)
(***************************************************************************)
UniqueNames == \A c, d \in clusters : c.name = d.name => c = d

Answers ==
    \A r \in Requests : pc[r] = "ok" =>
        \E q \in Requests : pc[q] = "ok" /\ reply[r] = ClusterId(q) /\ name[q] = name[r]

\* A call that goes on, or ends without an answer, leaves the answers alone.
LEMMA NotAnswered ==
  ASSUME Core, Answers, NEW r \in Requests, NEW l, l # "ok", pc[r] # "ok", Goto(r, l),
         UNCHANGED reply,
         \A q \in Requests : q # r => attempt'[q] = attempt[q] /\ name'[q] = name[q]
  PROVE  Answers'
<1>1. pc' = [pc EXCEPT ![r] = l] /\ pc \in [Requests -> Labels]
  BY Zenon DEF Goto, Core, TypeOK
<1> SUFFICES ASSUME NEW x \in Requests, pc'[x] = "ok"
             PROVE  \E y \in Requests : /\ pc'[y] = "ok" /\ reply'[x] = ClusterId(y)'
                                        /\ name'[y] = name'[x]
  BY Zenon DEF Answers
<1>2. x # r /\ pc[x] = "ok"
  BY <1>1, Zenon
<1>3. PICK q \in Requests : pc[q] = "ok" /\ reply[x] = ClusterId(q) /\ name[q] = name[x]
  BY <1>2, Zenon DEF Answers
<1>4. q # r /\ pc'[q] = "ok"
  BY <1>1, <1>3, Zenon
<1>5. ClusterId(q)' = ClusterId(q) /\ name'[q] = name[q] /\ name'[x] = name[x]
  BY <1>2, <1>4, Zenon DEF ClusterId
<1> QED
  BY <1>3, <1>4, <1>5, Zenon

\* A call answered with a row of its name has a proper answer, and leaves the
\* others alone.
LEMMA Answered ==
  ASSUME Core, Answers, NEW r \in Requests, NEW c \in clusters, pc[r] # "ok", Goto(r, "ok"),
         reply' = [reply EXCEPT ![r] = c.id], UNCHANGED attempt, c.name = name'[r],
         \A q \in Requests : q # r => name'[q] = name[q]
  PROVE  Answers'
<1>1. /\ pc' = [pc EXCEPT ![r] = "ok"] /\ pc \in [Requests -> Labels]
      /\ reply \in [Requests -> Ids \cup {NoId}]
  BY Zenon DEF Goto, Core, TypeOK
<1>2. \A q \in Requests : ClusterId(q)' = ClusterId(q)
  BY Zenon DEF ClusterId
<1> SUFFICES ASSUME NEW x \in Requests, pc'[x] = "ok"
             PROVE  \E y \in Requests : /\ pc'[y] = "ok" /\ reply'[x] = ClusterId(y)'
                                        /\ name'[y] = name'[x]
  BY Zenon DEF Answers
<1>3. CASE x = r
  <2>1. PICK q \in Requests : pc[q] = "ok" /\ c.id = ClusterId(q) /\ c.name = name[q]
    BY Zenon DEF Core, Committed
  <2>2. q # r /\ pc'[q] = "ok" /\ name'[q] = name[q] /\ reply'[r] = c.id
    BY <1>1, <2>1, Zenon
  <2> QED
    BY <1>2, <1>3, <2>1, <2>2, Zenon
<1>4. CASE x # r
  <2>1. pc[x] = "ok" /\ reply'[x] = reply[x] /\ name'[x] = name[x]
    BY <1>1, <1>4, Zenon
  <2>2. PICK q \in Requests : pc[q] = "ok" /\ reply[x] = ClusterId(q) /\ name[q] = name[x]
    BY <2>1, Zenon DEF Answers
  <2>3. q # r /\ pc'[q] = "ok" /\ name'[q] = name[q]
    BY <1>1, <2>2, Zenon
  <2> QED
    BY <1>2, <2>1, <2>2, <2>3, Zenon
<1> QED
  BY <1>3, <1>4, Zenon

\* Every step keeps the names of the rows distinct and each answer naming a
\* row of the name that was asked for.
LEMMA AnswersNext ==
  ASSUME Core, Core', UniqueNames, Answers, [Next]_vars
  PROVE  (UniqueNames /\ Answers)'
<1>1. ASSUME NEW r \in Requests, Handler(r) PROVE (UniqueNames /\ Answers)'
  <2>1. ASSUME NEW n \in Names, NEW v \in Visibilities, Lookup(r, n, v)
        PROVE  (UniqueNames /\ Answers)'
    <3>0. /\ UniqueNames' /\ UNCHANGED attempt /\ pc[r] # "ok"
          /\ name' = [name EXCEPT ![r] = n] /\ name \in [Requests -> Names \cup {NoName}]
      BY <2>1, Zenon DEF Lookup, dbVars, UniqueNames, Core, TypeOK
    <3>1. name'[r] = n /\ \A q \in Requests : q # r => name'[q] = name[q]
      BY <3>0, Zenon
    <3>2. CASE Goto(r, "network") /\ UNCHANGED reply
      BY <3>0, <3>1, <3>2, NotAnswered, Zenon
    <3>3. CASE \E c \in clusters : /\ c.name = n /\ Goto(r, "ok")
                                   /\ reply' = [reply EXCEPT ![r] = c.id]
      BY <3>0, <3>1, <3>3, Answered, Zenon
    <3> QED
      BY <2>1, <3>2, <3>3, Zenon DEF Lookup
  <2>2. CASE AllocateNetwork(r)
    <3>1. /\ \E l \in {"vip", "error"} : Goto(r, l)
          /\ pc[r] # "ok" /\ UNCHANGED <<clusters, name, attempt, reply>>
      BY <2>2, Zenon DEF AllocateNetwork, dbVars
    <3> QED
      BY <3>1, NotAnswered, Zenon DEF UniqueNames
  <2>3. CASE AllocatePublicVip(r) \/ ReservePrivateVip(r) \/ AllocateBlock(r)
    <3>1. /\ \E l \in {"block", "insert", "rollback_error"} : Goto(r, l)
          /\ UNCHANGED <<clusters, name, attempt, reply>>
      BY <2>3, Zenon DEF AllocatePublicVip, ReservePrivateVip, AllocateBlock
    <3>2. pc[r] # "ok"
      BY <2>3, Zenon DEF AllocatePublicVip, ReservePrivateVip, AllocateBlock
    <3> QED
      BY <3>1, <3>2, NotAnswered, Zenon DEF UniqueNames
  <2>4. CASE InsertCluster(r)
    <3>1. CASE UNCHANGED <<clusters, reply>> /\ \E l \in Labels \ {"ok"} : Goto(r, l)
      <4>1. pc[r] # "ok" /\ UNCHANGED <<name, attempt>>
        BY <2>4, Zenon DEF InsertCluster
      <4> QED
        BY <3>1, <4>1, NotAnswered, Zenon DEF UniqueNames
    <3>2. CASE /\ clusters' = clusters \cup {Row(r)} /\ ~\E c \in clusters : c.name = name[r]
               /\ reply' = [reply EXCEPT ![r] = ClusterId(r)] /\ Goto(r, "ok")
      <4>1. Row(r).name = name[r]
        BY Zenon DEF Row
      <4>2. UniqueNames'
        BY <3>2, <4>1, Zenon DEF UniqueNames
      <4>3. Answers'
        BY <2>4, <3>2, Zenon DEF InsertCluster, Goto, Core, TypeOK, Answers, ClusterId
      <4> QED
        BY <4>2, <4>3, Zenon
    <3>3. {"rollback_reread", "rollback_retry", "rollback_error"} \subseteq Labels \ {"ok"}
      BY Zenon DEF Labels
    <3> QED
      BY <2>4, <3>1, <3>2, <3>3, Zenon DEF InsertCluster
  <2>5. CASE Rollback(r) \/ ReleaseFails(r)
    <3>1. /\ \E l \in {"error", "reread", "network", "exhausted"} : Goto(r, l)
          /\ pc[r] # "ok" /\ UNCHANGED <<clusters, name, reply>>
      BY <2>5, Zenon DEF Rollback, ReleaseFails, Unwind
    <3>2. \A q \in Requests : q # r => attempt'[q] = attempt[q]
      BY <2>5, Zenon DEF Rollback, ReleaseFails, Unwind, Core, TypeOK
    <3> QED
      BY <3>1, <3>2, NotAnswered, Zenon DEF UniqueNames
  <2>6. CASE Reread(r)
    <3>0. UniqueNames' /\ UNCHANGED <<attempt, name>> /\ pc[r] # "ok"
      BY <2>6, Zenon DEF Reread, dbVars, UniqueNames
    <3>1. CASE Goto(r, "error") /\ UNCHANGED reply
      BY <3>0, <3>1, NotAnswered, Zenon
    <3>2. CASE \E c \in clusters : /\ c.name = name[r] /\ Goto(r, "ok")
                                   /\ reply' = [reply EXCEPT ![r] = c.id]
      BY <3>0, <3>2, Answered, Zenon
    <3> QED
      BY <2>6, <3>1, <3>2, <3>0, Zenon DEF Reread
  <2> QED
    BY <1>1, <2>1, <2>2, <2>3, <2>4, <2>5, <2>6, Zenon DEF Handler
<1>2. ASSUME NEW r \in Requests, Cancel(r) PROVE (UniqueNames /\ Answers)'
  <2>1. Goto(r, "dropped") /\ pc[r] # "ok" /\ UNCHANGED <<clusters, name, attempt, reply>>
    BY <1>2, Zenon DEF Cancel, dbVars, reqVars, InFlight, Settled
  <2> QED
    BY <2>1, NotAnswered, Zenon DEF UniqueNames
<1>3. ASSUME NEW s \in VniStarts, Restart(s) PROVE (UniqueNames /\ Answers)'
  BY <1>3, Zenon DEF Restart, reqVars, Core, TypeOK, UniqueNames, Answers, ClusterId, InFlight, Settled
<1>4. ASSUME NEW c \in clusters, DrainCluster(c) PROVE (UniqueNames /\ Answers)'
  BY <1>4, Zenon DEF DrainCluster, reqVars, UniqueNames, Answers, ClusterId
<1>5. ASSUME NEW h \in Hosts, NEW a \in PoolAddrs \cup {Elsewhere}, RegisterHost(h, a)
      PROVE (UniqueNames /\ Answers)'
  BY <1>5, Zenon DEF RegisterHost, reqVars, UniqueNames, Answers, ClusterId
<1>6. CASE UNCHANGED vars
  BY <1>6, Zenon DEF vars, UniqueNames, Answers, ClusterId
<1> QED
  BY <1>1, <1>2, <1>3, <1>4, <1>5, <1>6, Zenon DEF Next

\* IdempotentByName for any number of concurrent calls and every fault.
THEOREM CreateClusterIdempotent == Spec => []IdempotentByName
<1>1. Init => UniqueNames /\ Answers
  BY Zenon DEF Init, UniqueNames, Answers
<1>2. Core /\ UniqueNames /\ Answers => IdempotentByName
  <2> SUFFICES ASSUME Core, UniqueNames, Answers, NEW r \in Requests, NEW q \in Requests,
                      pc[r] = "ok", pc[q] = "ok", name[r] = name[q],
                      NEW c \in clusters, c.id = reply[r],
                      NEW d \in clusters, d.id = reply[q]
               PROVE  reply[r] = reply[q]
    BY Zenon DEF IdempotentByName
  <2>1. ASSUME NEW t \in Requests, pc[t] = "ok", NEW e \in clusters, e.id = reply[t]
        PROVE  e.name = name[t]
    <3>1. PICK u \in Requests : reply[t] = ClusterId(u) /\ name[u] = name[t]
      BY <2>1, Zenon DEF Answers
    <3>2. PICK w \in Requests : e.id = ClusterId(w) /\ e.name = name[w]
      BY Zenon DEF Core, Committed
    <3>3. u = w
      BY <2>1, <3>1, <3>2, IdInjective, Zenon
    <3> QED
      BY <3>1, <3>2, <3>3, Zenon
  <2>2. c.name = name[r] /\ d.name = name[q]
    BY <2>1, Zenon
  <2> QED
    BY <2>2, Zenon DEF UniqueNames
<1>3. Core /\ UniqueNames /\ Answers /\ [Next]_vars => (UniqueNames /\ Answers)'
  BY CoreNext, AnswersNext, Zenon
<1> QED
  BY <1>1, <1>2, <1>3, CoreInit, CoreNext, PTL DEF Spec

-----------------------------------------------------------------------------
(* Leaks. *)

\* What a step other than the faults does to the owners and to those who
\* account for them keeps every address that was accounted for so.
LEMMA KeepsAccounts ==
  ASSUME \A a \in Addrs : /\ owner'[a] # NoId
                          /\ owner'[a] = owner[a] => Accounted(owner[a])
                          => Accounted(owner[a])'
  PROVE  Orphaned' \subseteq Orphaned
  BY Zenon DEF Orphaned, Accounted

\* Only a dropped future, a restart or a failed release orphans an address.
LEMMA NoLeakStep ==
  ASSUME Core, [Next]_vars
  PROVE  \/ Orphaned' \subseteq Orphaned
         \/ \E r \in Requests : Cancel(r) \/ ReleaseFails(r)
         \/ \E s \in VniStarts : Restart(s)
<1>t. /\ pc \in [Requests -> Labels] /\ attempt \in [Requests -> 1 .. MaxAttempts]
      /\ owner \in [Addrs -> Ids \cup {NoId}]
  BY Zenon DEF Core, TypeOK
<1>1. ASSUME NEW r \in Requests, Handler(r) PROVE ReleaseFails(r) \/ Orphaned' \subseteq Orphaned
  <2>1. ASSUME NEW n \in Names, NEW v \in Visibilities, Lookup(r, n, v)
        PROVE  Orphaned' \subseteq Orphaned
    <3>1. /\ UNCHANGED <<clusters, owner, attempt>> /\ pc[r] = "idle"
          /\ \E l \in {"ok", "network"} : Goto(r, l)
      BY <2>1, Zenon DEF Lookup, dbVars
    <3>2. Holders' = Holders /\ \A q \in Requests : ClusterId(q)' = ClusterId(q)
      BY <3>1, <1>t, Zenon DEF Holders, Goto, ClusterId
    <3> QED
      BY <3>1, <3>2, Zenon DEF Orphaned, Accounted, Holders
  <2>2. CASE AllocateNetwork(r) \/ Reread(r)
    <3>1. /\ UNCHANGED <<clusters, owner, attempt>> /\ pc[r] \in {"network", "reread"}
          /\ \E l \in {"vip", "ok", "error"} : Goto(r, l)
      BY <2>2, Zenon DEF AllocateNetwork, Reread, dbVars
    <3>2. Holders \subseteq Holders' /\ \A q \in Requests : ClusterId(q)' = ClusterId(q)
      BY <3>1, <1>t, Zenon DEF Holders, Goto, ClusterId
    <3> QED
      BY <3>1, <3>2, Zenon DEF Orphaned, Accounted, Holders
  <2>3. CASE AllocatePublicVip(r) \/ ReservePrivateVip(r) \/ AllocateBlock(r)
    <3>1. /\ UNCHANGED <<clusters, attempt>> /\ pc[r] \in {"vip", "block"}
          /\ \E l \in {"block", "insert", "rollback_error"} : Goto(r, l)
          /\ UNCHANGED owner \/ \E S : Reserve(S, ClusterId(r))
      BY <2>3, Zenon DEF AllocatePublicVip, ReservePrivateVip, AllocateBlock
    <3>2. \A a \in Addrs : owner'[a] = owner[a] \/ owner'[a] = ClusterId(r)
      BY <3>1, Zenon DEF Reserve
    <3>3. /\ Holders' = Holders /\ r \in Holders'
          /\ \A q \in Requests : ClusterId(q)' = ClusterId(q)
      BY <3>1, <1>t, Zenon DEF Holders, Goto, ClusterId
    <3>4. \A id : Accounted(id) => Accounted(id)'
      BY <3>1, <3>3, Zenon DEF Accounted, Holders
    <3>5. Accounted(ClusterId(r))'
      BY <3>3, Zenon DEF Accounted
    <3> QED
      BY <3>2, <3>3, <3>4, <3>5, KeepsAccounts, Zenon DEF Accounted
  <2>4. CASE InsertCluster(r)
    <3>1. /\ UNCHANGED <<owner, attempt>> /\ pc[r] = "insert"
          /\ \A q \in Requests : ClusterId(q)' = ClusterId(q)
      BY <2>4, Zenon DEF InsertCluster, ClusterId
    <3>2. \A id : Accounted(id) => Accounted(id)'
      <4>1. CASE clusters' = clusters \cup {Row(r)} /\ Goto(r, "ok")
        <5>1. Row(r).id = ClusterId(r) /\ Row(r) \in clusters' /\ clusters \subseteq clusters'
          BY <4>1, Zenon DEF Row
        <5>2. Holders \ {r} \subseteq Holders'
          BY <4>1, <1>t, Zenon DEF Goto, Holders
        <5> QED
          BY <3>1, <5>1, <5>2, Zenon DEF Accounted, Holders
      <4>2. CASE /\ UNCHANGED clusters
                 /\ \E l \in {"rollback_reread", "rollback_retry", "rollback_error"} : Goto(r, l)
        <5>1. Holders' = Holders
          BY <3>1, <4>2, <1>t, Zenon DEF Goto, Holders
        <5> QED
          BY <3>1, <4>2, <5>1, Zenon DEF Accounted, Holders
      <4> QED
        BY <2>4, <4>1, <4>2, Zenon DEF InsertCluster
    <3> QED
      BY <3>1, <3>2, KeepsAccounts, Zenon DEF Accounted
  <2>5. CASE Rollback(r)
    <3>1. /\ UNCHANGED clusters /\ Release(ClusterId(r))
          /\ \E l \in {"error", "reread", "network", "exhausted"} : Goto(r, l)
      BY <2>5, Zenon DEF Rollback, Unwind
    <3>2. \A a \in Addrs : (owner'[a] = owner[a] \/ owner'[a] = NoId) /\ owner'[a] # ClusterId(r)
      BY <3>1, IdType, ReleaseLemma, Zenon DEF Core
    <3>3. /\ \A q \in Requests : q # r => ClusterId(q)' = ClusterId(q)
          /\ Holders \ {r} \subseteq Holders'
      BY <2>5, <3>1, <1>t, Zenon DEF Rollback, Unwind, ClusterId, Holders, Goto
    <3>4. \A id : Accounted(id) /\ id # ClusterId(r) => Accounted(id)'
      BY <3>1, <3>3, Zenon DEF Accounted, Holders
    <3> QED
      BY <3>2, <3>4, KeepsAccounts, Zenon DEF Accounted
  <2> QED
    BY <1>1, <2>1, <2>2, <2>3, <2>4, <2>5, Zenon DEF Handler
<1>2. ASSUME NEW c \in clusters, DrainCluster(c) PROVE Orphaned' \subseteq Orphaned
  <2>1. /\ clusters' = clusters \ {c} /\ Holders' = Holders
        /\ \A q \in Requests : ClusterId(q)' = ClusterId(q)
    BY <1>2, Zenon DEF DrainCluster, reqVars, ClusterId, Holders
  <2>2. \A a \in Addrs : (owner'[a] = owner[a] \/ owner'[a] = NoId) /\ owner'[a] # c.id
    <3>1. c.id \in Ids
      BY Zenon DEF Core, TypeOK, RowType
    <3> QED
      BY <1>2, <3>1, ReleaseLemma, Zenon DEF Core, DrainCluster
  <2>3. \A id : Accounted(id) /\ id # c.id => Accounted(id)'
    BY <2>1, Zenon DEF Accounted, Holders
  <2> QED
    BY <2>2, <2>3, KeepsAccounts, Zenon DEF Accounted
<1>3. CASE \/ UNCHANGED vars
           \/ \E h \in Hosts, a \in PoolAddrs \cup {Elsewhere} : RegisterHost(h, a)
  <2>1. UNCHANGED <<clusters, owner, pc, attempt>>
    BY <1>3, Zenon DEF vars, RegisterHost, reqVars
  <2> QED
    BY <2>1, Zenon DEF Orphaned, Accounted, Holders, ClusterId
<1> QED
  BY <1>1, <1>2, <1>3, Zenon DEF Next

\* LeaksOnlyByFault for any number of calls and with every fault: every address
\* a failed or raced attempt reserved is released by its rollback.
THEOREM LeaksAreFaults == Spec => LeaksOnlyByFault
<1>1. Core /\ [Next]_vars =>
         [\/ Orphaned' \subseteq Orphaned
          \/ \E r \in Requests : Cancel(r) \/ ReleaseFails(r)
          \/ \E s \in VniStarts : Restart(s)]_vars
  BY NoLeakStep, Zenon
<1> QED
  BY <1>1, CoreInit, CoreNext, PTL DEF Spec, LeaksOnlyByFault

-----------------------------------------------------------------------------
(***************************************************************************)
(* ClusterAlloc implements ClusterTable, for any number of calls, VNIs,    *)
(* slices and addresses and with every fault, while the VNI range keeps    *)
(* its start.                                                              *)
(*                                                                         *)
(* The insert of the row is the step a call takes in the abstract table:   *)
(* what it holds then is owned under its own id (Holding), what the others *)
(* hold under theirs (EndpointsHeld), and the constraints of the clusters  *)
(* table keep names and networks apart (UniqueNames, Paired).              *)
(***************************************************************************)

Safe == Core /\ UniqueNames /\ Answers /\ Paired /\ UniqueVnis

\* The invariants that ClusterAllocProofs establishes hold together.
LEMMA SafeHolds == ASSUME OneConfig PROVE Spec => []Safe
<1>1. Init => UniqueNames /\ Answers /\ Paired /\ UniqueVnis
  BY Zenon DEF Init, UniqueNames, Answers, Paired, UniqueVnis, Picked
<1>2. Safe /\ [Next]_vars => Safe'
  BY CoreNext, AnswersNext, PairedNext, Zenon DEF Safe, Core
<1> QED
  BY <1>1, <1>2, CoreInit, PTL DEF Spec, Safe

\* A call that does not end, or ends without an answer, changes nothing the
\* callers see, and neither does a step of which the rows are no part.
LEMMA Unseen ==
  ASSUME TypeOK, UNCHANGED clusters,
         \A r \in Requests : /\ pc'[r] = "ok" <=> pc[r] = "ok"
                             /\ pc[r] = "ok" => name'[r] = name[r] /\ reply'[r] = reply[r]
  PROVE  UNCHANGED Table!vars
<1>1. Promised' = Promised
  BY Zenon DEF Promised, Promise, RowAddrs, Block
<1>2. Replied' = Replied
  BY Zenon DEF Replied
<1> QED
  BY <1>1, <1>2, Zenon DEF Table!vars

\* The move of one call to a label other than "ok".
LEMMA UnseenGoto ==
  ASSUME TypeOK, UNCHANGED <<clusters, reply>>, NEW r \in Requests, NEW l, l # "ok",
         pc[r] # "ok", Goto(r, l), \A q \in Requests : q # r => name'[q] = name[q]
  PROVE  UNCHANGED Table!vars
<1>1. \A q \in Requests : /\ pc'[q] = "ok" <=> pc[q] = "ok"
                          /\ pc[q] = "ok" => name'[q] = name[q] /\ reply'[q] = reply[q]
  BY Zenon DEF Goto, TypeOK
<1> QED
  BY <1>1, Unseen, Zenon

\* A call that is answered, as the callers see it.
LEMMA RepliedStep ==
  ASSUME TypeOK, NEW r \in Requests, pc[r] # "ok", Goto(r, "ok"),
         \A q \in Requests : q # r => name'[q] = name[q] /\ reply'[q] = reply[q]
  PROVE  /\ Replied[r] = Table!NoAnswer
         /\ Replied' = [Replied EXCEPT ![r] = [name |-> name'[r], id |-> reply'[r]]]
<1>1. pc' = [pc EXCEPT ![r] = "ok"] /\ pc \in [Requests -> Labels]
  BY Zenon DEF Goto, TypeOK
<1>2. Replied[r] = Table!NoAnswer
  BY Zenon DEF Replied, Table!NoAnswer
<1>3. \A q \in Requests :
         Replied'[q] = [Replied EXCEPT ![r] = [name |-> name'[r], id |-> reply'[r]]][q]
  BY <1>1, Zenon DEF Replied
<1>4. Replied' = [q \in Requests |-> Replied'[q]] /\ Replied = [q \in Requests |-> Replied[q]]
  BY Zenon DEF Replied
<1> QED
  BY <1>2, <1>3, <1>4, Zenon

\* A call answered with a row that is there finds it.
LEMMA FindStep ==
  ASSUME TypeOK, UNCHANGED clusters, NEW r \in Requests, NEW c \in clusters,
         pc[r] # "ok", Goto(r, "ok"),
         reply' = [reply EXCEPT ![r] = c.id], name'[r] = c.name,
         \A q \in Requests : q # r => name'[q] = name[q]
  PROVE  Table!Find(r)
<1>1. Promised' = Promised
  BY Zenon DEF Promised, Promise, RowAddrs, Block
<1>2. Promise(c) \in Promised /\ Promise(c).id = c.id /\ Promise(c).name = c.name
  BY Zenon DEF Promised, Promise
<1>3. reply'[r] = c.id /\ \A q \in Requests : q # r => reply'[q] = reply[q]
  BY Zenon DEF TypeOK
<1>4. /\ Replied[r] = Table!NoAnswer
      /\ Replied' = [Replied EXCEPT ![r] = [name |-> c.name, id |-> c.id]]
  BY <1>3, RepliedStep, Zenon
<1> QED
  BY <1>1, <1>2, <1>4, Zenon DEF Table!Find, Table!Reply

\* The row a call inserts has nothing in common with those that are there.
LEMMA RowApart ==
  ASSUME Safe, NEW r \in Requests, pc[r] = "insert", NEW c \in clusters,
         c.name # name[r], c.vni # vni[r]
  PROVE  Table!Apart(Promise(Row(r)), Promise(c))
<1>1. c.id # ClusterId(r)
  <2>1. PICK q \in Requests : pc[q] = "ok" /\ c.id = ClusterId(q)
    BY Zenon DEF Safe, Core, Committed
  <2> QED
    BY <2>1, IdInjective, Zenon
<1>2. RowAddrs(c) \cap RowAddrs(Row(r)) = {}
  <2>1. \A a \in RowAddrs(c) : owner[a] = c.id
    BY Zenon DEF Safe, Core, EndpointsHeld
  <2>2. \A a \in RowAddrs(Row(r)) : owner[a] = ClusterId(r)
    BY Zenon DEF Safe, Core, Holding, RowAddrs, Row
  <2> QED
    BY <1>1, <2>1, <2>2, Zenon
<1>3. c.slice # slice[r]
  BY Zenon DEF Safe, Paired, Picked
<1>4. /\ Promise(Row(r)).id = ClusterId(r) /\ Promise(Row(r)).name = name[r]
      /\ Promise(Row(r)).vni = vni[r] /\ Promise(Row(r)).cidr = slice[r]
      /\ Promise(Row(r)).addrs = RowAddrs(Row(r))
  BY Zenon DEF Promise, Row
<1>5. /\ Promise(c).id = c.id /\ Promise(c).name = c.name /\ Promise(c).vni = c.vni
      /\ Promise(c).cidr = c.slice /\ Promise(c).addrs = RowAddrs(c)
  BY Zenon DEF Promise
<1> QED
  BY <1>1, <1>2, <1>3, <1>4, <1>5, Zenon DEF Table!Apart

\* The insert of the row is the step that creates the cluster.
LEMMA CreateStep ==
  ASSUME Safe, NEW r \in Requests, pc[r] = "insert", Goto(r, "ok"),
         \A c \in clusters : c.name # name[r] /\ c.vni # vni[r],
         clusters' = clusters \cup {Row(r)},
         reply' = [reply EXCEPT ![r] = ClusterId(r)], UNCHANGED name
  PROVE  Table!Create(r)
<1> DEFINE p == Promise(Row(r))
<1>1. p.id = ClusterId(r) /\ p.name = name[r]
  BY Zenon DEF Promise, Row
<1>2. \A d \in Promised : Table!Apart(p, d)
  BY RowApart, Zenon DEF Promised
<1>3. Promised' = Promised \cup {p}
  BY Zenon DEF Promised, Promise, RowAddrs, Block
<1>4. p \notin Promised
  BY <1>2, Zenon DEF Table!Apart
<1>5. \A q \in Requests : Replied[q].id # p.id
  <2> SUFFICES ASSUME NEW q \in Requests PROVE Replied[q].id # ClusterId(r)
    BY <1>1, Zenon
  <2>1. CASE pc[q] = "ok"
    <3>1. PICK x \in Requests : pc[x] = "ok" /\ reply[q] = ClusterId(x)
      BY <2>1, Zenon DEF Safe, Answers
    <3> QED
      BY <2>1, <3>1, IdInjective, Zenon DEF Replied
  <2>2. CASE pc[q] # "ok"
    <3>1. ClusterId(r) # NoId
      BY IdType, NullAssumption, Zenon DEF Safe, Core
    <3> QED
      BY <2>2, <3>1, Zenon DEF Replied
  <2> QED
    BY <2>1, <2>2, Zenon
<1>6. /\ Replied[r] = Table!NoAnswer
      /\ Replied' = [Replied EXCEPT ![r] = [name |-> p.name, id |-> p.id]]
  <2>1. TypeOK /\ reply'[r] = p.id /\ \A q \in Requests : q # r => reply'[q] = reply[q]
    BY <1>1, Zenon DEF Safe, Core, TypeOK
  <2>2. name'[r] = p.name /\ \A q \in Requests : q # r => name'[q] = name[q]
    BY <1>1, Zenon
  <2> QED
    BY <2>1, <2>2, RepliedStep, Zenon
<1>7. Table!Reply(r, p)
  BY <1>6, Zenon DEF Table!Reply
<1> QED
  BY <1>2, <1>3, <1>4, <1>5, <1>7, Zenon DEF Table!Create

\* The acknowledgement that drains a cluster takes its entry from the table.
LEMMA DrainStep ==
  ASSUME Safe, NEW c \in clusters, DrainCluster(c)
  PROVE  Table!Drain
<1>1. Promised' = Promised \ {Promise(c)}
  <2>1. \A d \in clusters : d # c => Promise(d) # Promise(c)
    <3>1. \A d \in clusters : d # c => d.id # c.id
      BY Zenon DEF Safe, Core, UniqueIds
    <3>2. \A d \in clusters : Promise(d).id = d.id
      BY Zenon DEF Promise
    <3> QED
      BY <3>1, <3>2, Zenon
  <2>2. Promised' = {Promise(d) : d \in clusters \ {c}}
    BY Zenon DEF DrainCluster, Promised, Promise, RowAddrs, Block
  <2> QED
    BY <2>1, <2>2, Zenon DEF Promised
<1>2. Replied' = Replied
  BY Zenon DEF DrainCluster, reqVars, Replied
<1>3. Promise(c) \in Promised
  BY Zenon DEF Promised
<1> QED
  BY <1>1, <1>2, <1>3, Zenon DEF Table!Drain

\* Every step of ClusterAlloc is a step of the table or changes nothing in it.
LEMMA StepRefines ==
  ASSUME Safe, [Next]_vars
  PROVE  [Table!Next]_Table!vars
<1>t. TypeOK
  BY Zenon DEF Safe, Core
<1>1. ASSUME NEW r \in Requests, Handler(r) PROVE [Table!Next]_Table!vars
  <2>1. ASSUME NEW n \in Names, NEW v \in Visibilities, Lookup(r, n, v)
        PROVE  [Table!Next]_Table!vars
    <3>1. /\ UNCHANGED clusters /\ pc[r] # "ok" /\ name'[r] = n
          /\ \A q \in Requests : q # r => name'[q] = name[q]
      BY <2>1, <1>t, Zenon DEF Lookup, dbVars, TypeOK
    <3>2. CASE Goto(r, "network") /\ UNCHANGED reply
      BY <1>t, <3>1, <3>2, UnseenGoto, Zenon
    <3>3. CASE \E c \in clusters : /\ c.name = n /\ Goto(r, "ok")
                                   /\ reply' = [reply EXCEPT ![r] = c.id]
      BY <1>t, <3>1, <3>3, FindStep, Zenon DEF Table!Next
    <3> QED
      BY <2>1, <3>2, <3>3, Zenon DEF Lookup
  <2>2. CASE AllocateNetwork(r) \/ AllocatePublicVip(r) \/ ReservePrivateVip(r) \/ AllocateBlock(r)
    <3>1. /\ UNCHANGED <<clusters, name, reply>> /\ pc[r] # "ok"
          /\ \E l \in {"vip", "block", "insert", "error", "rollback_error"} : Goto(r, l)
      BY <2>2, Zenon DEF AllocateNetwork, AllocatePublicVip, ReservePrivateVip, AllocateBlock, dbVars
    <3> QED
      BY <1>t, <3>1, UnseenGoto, Zenon
  <2>3. CASE InsertCluster(r)
    <3>1. CASE /\ UNCHANGED <<clusters, reply>>
               /\ \E l \in {"rollback_reread", "rollback_retry", "rollback_error"} : Goto(r, l)
      <4>1. pc[r] # "ok" /\ UNCHANGED name
        BY <2>3, Zenon DEF InsertCluster
      <4> QED
        BY <1>t, <3>1, <4>1, UnseenGoto, Zenon
    <3>2. CASE /\ \A c \in clusters : c.name # name[r] /\ c.vni # vni[r]
               /\ clusters' = clusters \cup {Row(r)} /\ Goto(r, "ok")
               /\ reply' = [reply EXCEPT ![r] = ClusterId(r)]
      <4>1. pc[r] = "insert" /\ UNCHANGED name
        BY <2>3, Zenon DEF InsertCluster
      <4> QED
        BY <3>2, <4>1, CreateStep, Zenon DEF Table!Next
    <3> QED
      BY <2>3, <3>1, <3>2, Zenon DEF InsertCluster
  <2>4. CASE Rollback(r) \/ ReleaseFails(r)
    <3>1. /\ UNCHANGED <<clusters, name, reply>> /\ pc[r] # "ok"
          /\ \E l \in {"error", "reread", "network", "exhausted"} : Goto(r, l)
      BY <2>4, Zenon DEF Rollback, ReleaseFails, Unwind
    <3> QED
      BY <1>t, <3>1, UnseenGoto, Zenon
  <2>5. CASE Reread(r)
    <3>1. UNCHANGED <<clusters, name>> /\ pc[r] # "ok"
      BY <2>5, Zenon DEF Reread, dbVars
    <3>2. CASE Goto(r, "error") /\ UNCHANGED reply
      BY <1>t, <3>1, <3>2, UnseenGoto, Zenon
    <3>3. CASE \E c \in clusters : /\ c.name = name[r] /\ Goto(r, "ok")
                                   /\ reply' = [reply EXCEPT ![r] = c.id]
      BY <1>t, <3>1, <3>3, FindStep, Zenon DEF Table!Next
    <3> QED
      BY <2>5, <3>2, <3>3, Zenon DEF Reread
  <2> QED
    BY <1>1, <2>1, <2>2, <2>3, <2>4, <2>5, Zenon DEF Handler
<1>2. ASSUME NEW r \in Requests, Cancel(r) PROVE [Table!Next]_Table!vars
  <2>1. /\ UNCHANGED <<clusters, name, reply>> /\ pc[r] # "ok" /\ Goto(r, "dropped")
    BY <1>2, Zenon DEF Cancel, dbVars, reqVars, InFlight, Settled
  <2> QED
    BY <1>t, <2>1, UnseenGoto, Zenon
<1>3. ASSUME NEW s \in VniStarts, Restart(s) PROVE [Table!Next]_Table!vars
  <2>1. /\ UNCHANGED <<clusters, name, reply>>
        /\ \A r \in Requests : pc'[r] = "ok" <=> pc[r] = "ok"
    BY <1>3, <1>t, Zenon DEF Restart, reqVars, InFlight, Settled, TypeOK
  <2> QED
    BY <1>t, <2>1, Unseen, Zenon
<1>4. ASSUME NEW c \in clusters, DrainCluster(c) PROVE [Table!Next]_Table!vars
  BY <1>4, DrainStep, Zenon DEF Table!Next
<1>5. CASE \/ UNCHANGED vars
           \/ \E h \in Hosts, a \in PoolAddrs \cup {Elsewhere} : RegisterHost(h, a)
  <2>1. UNCHANGED <<clusters, pc, name, reply>>
    BY <1>5, Zenon DEF vars, RegisterHost, reqVars
  <2> QED
    BY <1>t, <2>1, Unseen, Zenon
<1> QED
  BY <1>1, <1>2, <1>3, <1>4, <1>5, Zenon DEF Next

\* AtomicCreate for any number of concurrent calls and every fault, as long as
\* restarts keep the start of the VNI range: create_cluster, with its retries
\* and rollbacks, implements the table in which each call is one step.
THEOREM CreateIsAtomic == ASSUME OneConfig PROVE Spec => AtomicCreate
<1>1. Init => Table!Init
  BY Zenon DEF Init, Table!Init, Table!NoAnswer, Promised, Replied
<1>2. Safe /\ [Next]_vars => [Table!Next]_Table!vars
  BY StepRefines, Zenon
<1> QED
  BY <1>1, <1>2, SafeHolds, PTL DEF Spec, AtomicCreate, Table!Spec

-----------------------------------------------------------------------------
(***************************************************************************)
(* Nobody is turned away while there are no more calls than attempts.      *)
(*                                                                         *)
(* Racing counts the attempts of a call against the calls that have been   *)
(* answered.  While it holds a VNI it has lost at most to those that have  *)
(* no row with this VNI (Outrun); so the call in whose row UNIQUE(vni)     *)
(* finds it is one more.  Draining a row only adds to Outrun, and a row    *)
(* that comes is of a call that was not answered before.                   *)
(***************************************************************************)

Returned == {q \in Requests : pc[q] = "ok"}
InTheWay(q, r) == \E c \in clusters : c.id = ClusterId(q) /\ c.vni = vni[r]
Outrun(r) == {q \in Returned : ~InTheWay(q, r)}

Race(r) ==
    /\ pc[r] \in {"idle", "network"} => attempt[r] <= Cardinality(Returned) + 1
    /\ pc[r] \in {"vip", "block", "insert"} => attempt[r] <= Cardinality(Outrun(r)) + 1
    /\ pc[r] = "rollback_retry" => attempt[r] <= Cardinality(Returned)
    /\ pc[r] = "exhausted" => ~(Cardinality(Requests) <= MaxAttempts)

Racing == \A r \in Requests : Race(r)

\* A step after which no answered call is in the way that was not before.
Outlasts ==
    /\ Returned \subseteq Returned'
    /\ \A q \in Returned : \A r : vni'[r] = vni[r] /\ InTheWay(q, r)' => InTheWay(q, r)

\* The counts of the answered calls are natural numbers below that of all.
LEMMA Counts ==
    ASSUME IsFiniteSet(Requests), NEW S, S \subseteq Requests
    PROVE  /\ IsFiniteSet(S) /\ Cardinality(S) \in Nat
           /\ Cardinality(Requests) \in Nat /\ Cardinality(S) <= Cardinality(Requests)
           /\ \A T \in SUBSET S : Cardinality(T) \in Nat /\ Cardinality(T) <= Cardinality(S)
           /\ \A x \in S : \A T \in SUBSET (S \ {x}) :
                 Cardinality(T) \in Nat /\ Cardinality(T) + 1 <= Cardinality(S)
<1>1. IsFiniteSet(S) /\ Cardinality(S) <= Cardinality(Requests)
  BY FS_Subset
<1>2. Cardinality(S) \in Nat /\ Cardinality(Requests) \in Nat
  BY <1>1, FS_CardinalityType
<1>3. ASSUME NEW T \in SUBSET S PROVE Cardinality(T) \in Nat /\ Cardinality(T) <= Cardinality(S)
  BY <1>1, <1>3, FS_Subset, FS_CardinalityType
<1>4. ASSUME NEW x \in S, NEW T \in SUBSET (S \ {x})
      PROVE  Cardinality(T) \in Nat /\ Cardinality(T) + 1 <= Cardinality(S)
  <2>1. IsFiniteSet(S \ {x}) /\ Cardinality(S \ {x}) = Cardinality(S) - 1
    BY <1>1, <1>4, FS_RemoveElement
  <2>2. IsFiniteSet(T) /\ Cardinality(T) <= Cardinality(S \ {x})
    BY <1>4, <2>1, FS_Subset
  <2>3. Cardinality(T) \in Nat
    BY <2>2, FS_CardinalityType
  <2>. QED  BY <1>2, <2>1, <2>2, <2>3
<1>. QED  BY <1>1, <1>2, <1>3, <1>4

\* A call that a step leaves alone has lost no more often.
LEMMA RaceKept ==
    ASSUME IsFiniteSet(Requests), TypeOK, NEW r \in Requests, Race(r), Outlasts,
           pc'[r] = pc[r], attempt'[r] = attempt[r], vni'[r] = vni[r]
    PROVE  Race(r)'
<1>1. Returned \subseteq Returned' /\ Returned' \subseteq Requests /\ Outrun(r)' \subseteq Requests
  BY Zenon DEF Outlasts, Returned, Outrun
<1>2. Outrun(r) \subseteq Outrun(r)'
  BY <1>1, Zenon DEF Outrun, Outlasts
<1>3. /\ Cardinality(Returned) \in Nat /\ Cardinality(Returned') \in Nat
      /\ Cardinality(Returned) <= Cardinality(Returned')
  BY <1>1, Counts
<1>4. /\ Cardinality(Outrun(r)) \in Nat /\ Cardinality(Outrun(r)') \in Nat
      /\ Cardinality(Outrun(r)) <= Cardinality(Outrun(r)')
  BY <1>1, <1>2, Counts
<1>5. attempt[r] \in Nat
  BY ConfigAssumption DEF TypeOK
<1>. DEFINE a == Cardinality(Returned)  b == Cardinality(Returned)'
            c == Cardinality(Outrun(r))  d == Cardinality(Outrun(r))'
<1>6. a \in Nat /\ b \in Nat /\ c \in Nat /\ d \in Nat /\ a <= b /\ c <= d
  BY <1>3, <1>4
<1>7. /\ pc[r] \in {"idle", "network"} => attempt[r] <= a + 1
      /\ pc[r] \in {"vip", "block", "insert"} => attempt[r] <= c + 1
      /\ pc[r] = "rollback_retry" => attempt[r] <= a
  BY Zenon DEF Race
<1>. HIDE DEF a, b, c, d
<1>8. /\ pc[r] \in {"idle", "network"} => attempt[r] <= b + 1
      /\ pc[r] \in {"vip", "block", "insert"} => attempt[r] <= d + 1
      /\ pc[r] = "rollback_retry" => attempt[r] <= b
  BY <1>5, <1>6, <1>7
<1>. QED  BY <1>8, Zenon DEF Race, b, d

\* The calls that stay where they are at a step of r.
LEMMA OthersKept ==
    ASSUME Core, NEW r \in Requests, NEW l, Goto(r, l), pc[r] # "ok",
           clusters' \subseteq clusters \cup {Row(r)},
           \A q \in Requests \ {r} : attempt'[q] = attempt[q]
    PROVE  Outlasts
<1>1. \A q \in Requests \ {r} : pc'[q] = pc[q] /\ ClusterId(q)' = ClusterId(q)
  BY Zenon DEF Core, TypeOK, Goto, ClusterId
<1>2. r \notin Returned
  BY Zenon DEF Returned
<1>3. Returned \subseteq Returned'
  BY <1>1, <1>2, Zenon DEF Returned
<1>4. ASSUME NEW q \in Returned, NEW s, vni'[s] = vni[s], InTheWay(q, s)' PROVE InTheWay(q, s)
  <2>1. q \in Requests \ {r} /\ ClusterId(q) # ClusterId(r)
    BY <1>2, <1>4, IdInjective, Zenon DEF Returned
  <2>2. PICK c \in clusters' : c.id = ClusterId(q)' /\ c.vni = vni'[s]
    BY <1>4, Zenon DEF InTheWay
  <2>3. Row(r).id = ClusterId(r)
    BY Zenon DEF Row
  <2>4. c \in clusters
    BY <1>1, <2>1, <2>2, <2>3, Zenon
  <2>. QED  BY <1>1, <1>4, <2>1, <2>2, <2>4, Zenon DEF InTheWay
<1>. QED  BY <1>3, <1>4, Zenon DEF Outlasts

\* A step of r: its own count is what there is to show.
LEMMA RunnerSteps ==
    ASSUME IsFiniteSet(Requests), Core, Racing, NEW r \in Requests, NEW l, Goto(r, l), pc[r] # "ok",
           clusters' \subseteq clusters \cup {Row(r)},
           \A q \in Requests \ {r} : attempt'[q] = attempt[q] /\ vni'[q] = vni[q],
           Outlasts => Race(r)'
    PROVE  Racing'
<1>1. Outlasts
  BY OthersKept, Zenon
<1>2. ASSUME NEW q \in Requests PROVE Race(q)'
  <2>1. CASE q # r
    <3>1. pc'[q] = pc[q] /\ attempt'[q] = attempt[q] /\ vni'[q] = vni[q] /\ TypeOK /\ Race(q)
      BY <2>1, Zenon DEF Core, TypeOK, Goto, Racing
    <3>. QED  BY <1>1, <3>1, RaceKept, Zenon
  <2>. QED  BY <1>1, <1>2, <2>1, Zenon
<1>. QED  BY <1>2, Zenon DEF Racing

\* No call has lost anything at the start.
LEMMA RacingInit == IsFiniteSet(Requests) /\ Init => Racing
<1>. SUFFICES ASSUME IsFiniteSet(Requests), Init, NEW r \in Requests PROVE Race(r)
  BY Zenon DEF Racing
<1>1. pc[r] = "idle" /\ attempt[r] = 1
  BY DEF Init
<1>2. Cardinality(Returned) \in Nat
  BY Counts DEF Returned
<1>. QED  BY <1>1, <1>2 DEF Race

\* A call that is answered, fails or unwinds for another reason than the VNI
\* has no count to keep, and one that reserves addresses keeps its own.
LEMMA RunnerQuiet ==
    ASSUME IsFiniteSet(Requests), Core, Racing, NEW r \in Requests, NEW l, Goto(r, l), pc[r] # "ok",
           clusters' \subseteq clusters \cup {Row(r)}, UNCHANGED <<attempt, vni>>,
           \/ l \in {"ok", "error", "dropped", "reread", "rollback_error", "rollback_reread"}
           \/ pc[r] = "idle" /\ l = "network"
           \/ pc[r] \in {"vip", "block"} /\ l \in {"block", "insert"}
    PROVE  Racing'
<1>1. pc'[r] = l
  BY Zenon DEF Core, TypeOK, Goto
<1>2. ASSUME Outlasts PROVE Race(r)'
  <2>1. CASE l \in {"ok", "error", "dropped", "reread", "rollback_error", "rollback_reread"}
    BY <1>1, <2>1 DEF Race
  <2>. DEFINE a == Cardinality(Returned)  b == Cardinality(Returned)'
              c == Cardinality(Outrun(r))  d == Cardinality(Outrun(r))'
  <2>2. /\ Returned \subseteq Returned' /\ Returned' \subseteq Requests
        /\ Outrun(r) \subseteq Outrun(r)' /\ Outrun(r)' \subseteq Requests
    BY <1>2, Zenon DEF Outlasts, Returned, Outrun
  <2>3. a \in Nat /\ b \in Nat /\ c \in Nat /\ d \in Nat /\ a <= b /\ c <= d
    BY <2>2, Counts
  <2>4. attempt[r] \in Nat /\ attempt'[r] = attempt[r]
    BY ConfigAssumption DEF Core, TypeOK
  <2>5. CASE pc[r] = "idle" /\ l = "network"
    <3>1. attempt[r] <= a + 1
      BY <2>5, Zenon DEF Racing, Race
    <3>. HIDE DEF a, b, c, d
    <3>2. attempt'[r] <= b + 1
      BY <2>3, <2>4, <3>1
    <3>. QED  BY <1>1, <2>5, <3>2 DEF Race, b
  <2>6. CASE pc[r] \in {"vip", "block"} /\ l \in {"block", "insert"}
    <3>1. attempt[r] <= c + 1
      BY <2>6, Zenon DEF Racing, Race
    <3>. HIDE DEF a, b, c, d
    <3>2. attempt'[r] <= d + 1
      BY <2>3, <2>4, <3>1
    <3>. QED  BY <1>1, <2>6, <3>2 DEF Race, d
  <2>. QED  BY <2>1, <2>5, <2>6
<1>. QED  BY <1>2, RunnerSteps, Zenon

\* allocate_cluster_network picks a VNI that no row has: nobody is in the way.
LEMMA NetworkRaces ==
    ASSUME IsFiniteSet(Requests), Core, Racing, NEW r \in Requests, AllocateNetwork(r)
    PROVE  Racing'
<1>1. /\ pc[r] = "network" /\ UNCHANGED <<clusters, attempt>>
      /\ clusters' \subseteq clusters \cup {Row(r)}
  BY Zenon DEF AllocateNetwork, dbVars
<1>2. CASE Goto(r, "error") /\ UNCHANGED <<vni, slice>>
  BY <1>1, <1>2, RunnerQuiet, Zenon
<1>3. ASSUME NEW v \in FreeVnis, vni' = [vni EXCEPT ![r] = v], Goto(r, "vip")
      PROVE  Racing'
  <2>1. /\ vni'[r] = v /\ pc'[r] = "vip"
        /\ \A q \in Requests \ {r} : attempt'[q] = attempt[q] /\ vni'[q] = vni[q]
    BY <1>1, <1>3, Zenon DEF Core, TypeOK, Goto
  <2>2. ASSUME Outlasts PROVE Race(r)'
    <3>1. \A c \in clusters' : c.vni # vni'[r]
      BY <1>1, <1>3, <2>1, Zenon DEF FreeVnis
    <3>2. Outrun(r)' = Returned'
      BY <3>1, Zenon DEF Outrun, InTheWay
    <3>3. Returned \subseteq Returned' /\ Returned' \subseteq Requests
      BY <2>2, Zenon DEF Outlasts, Returned
    <3>. DEFINE a == Cardinality(Returned)  d == Cardinality(Outrun(r)')
    <3>4. a \in Nat /\ d \in Nat /\ a <= d
      BY <3>2, <3>3, Counts
    <3>5. attempt[r] <= a + 1
      BY <1>1, Zenon DEF Racing, Race
    <3>6. attempt[r] \in Nat /\ attempt'[r] = attempt[r]
      BY <1>1, ConfigAssumption DEF Core, TypeOK
    <3>. HIDE DEF a, d
    <3>7. attempt'[r] <= d + 1
      BY <3>4, <3>5, <3>6
    <3>. QED  BY <2>1, <3>7 DEF Race, d
  <2>. QED  BY <1>1, <1>3, <2>1, <2>2, RunnerSteps, Zenon
<1>. QED  BY <1>2, <1>3, Zenon DEF AllocateNetwork

\* A call that UNIQUE(vni) turns back met the row of a call it had not lost to.
LEMMA InsertRaces ==
    ASSUME IsFiniteSet(Requests), Core, Racing, NEW r \in Requests, InsertCluster(r)
    PROVE  Racing'
<1>1. pc[r] = "insert" /\ UNCHANGED <<attempt, vni>>
  BY Zenon DEF InsertCluster
<1>2. CASE \/ clusters' = clusters \cup {Row(r)} /\ Goto(r, "ok")
           \/ UNCHANGED clusters /\ Goto(r, "rollback_reread")
           \/ UNCHANGED clusters /\ Goto(r, "rollback_error")
  <2>1. \E l \in {"ok", "rollback_reread", "rollback_error"} :
           Goto(r, l) /\ clusters' \subseteq clusters \cup {Row(r)}
    BY <1>2, Zenon
  <2>. QED  BY <1>1, <2>1, RunnerQuiet, Zenon
<1>3. ASSUME NEW c \in clusters, c.vni = vni[r], UNCHANGED clusters, Goto(r, "rollback_retry")
      PROVE  Racing'
  <2>1. pc'[r] = "rollback_retry"
    BY <1>3, Zenon DEF Core, TypeOK, Goto
  <2>2. PICK q \in Requests : pc[q] = "ok" /\ c.id = ClusterId(q)
    BY Zenon DEF Core, Committed
  <2>3. q \in Returned /\ InTheWay(q, r)
    BY <1>3, <2>2, Zenon DEF Returned, InTheWay
  <2>4. Outrun(r) \in SUBSET (Returned \ {q}) /\ Returned \subseteq Requests
    BY <2>3, Zenon DEF Outrun, Returned
  <2>. DEFINE a == Cardinality(Returned)  b == Cardinality(Returned)'  e == Cardinality(Outrun(r))
  <2>5. a \in Nat /\ e \in Nat /\ e + 1 <= a
    BY <2>3, <2>4, Counts
  <2>6. ASSUME Outlasts PROVE Race(r)'
    <3>1. Returned \in SUBSET Returned' /\ Returned' \subseteq Requests
      BY <2>6, Zenon DEF Outlasts, Returned
    <3>2. b \in Nat /\ a <= b
      BY <3>1, Counts
    <3>3. attempt[r] <= e + 1
      BY <1>1, Zenon DEF Racing, Race
    <3>4. attempt[r] \in Nat /\ attempt'[r] = attempt[r]
      BY <1>1, ConfigAssumption DEF Core, TypeOK
    <3>. HIDE DEF a, b, e
    <3>5. attempt'[r] <= b
      BY <2>5, <3>2, <3>3, <3>4
    <3>. QED  BY <2>1, <3>5 DEF Race, b
  <2>7. /\ clusters' \subseteq clusters \cup {Row(r)} /\ pc[r] # "ok"
        /\ \A s \in Requests \ {r} : attempt'[s] = attempt[s] /\ vni'[s] = vni[s]
    BY <1>1, <1>3, Zenon
  <2>. QED  BY <1>3, <2>6, <2>7, RunnerSteps, Zenon
<1>. QED  BY <1>2, <1>3, Zenon DEF InsertCluster

\* A call that lost starts over with one attempt more, for which a call has
\* been answered; when it has none left, there are more calls than attempts.
LEMMA UnwindRaces ==
    ASSUME IsFiniteSet(Requests), Core, Racing, NEW r \in Requests, Unwind(r)
    PROVE  Racing'
<1>1. UNCHANGED <<clusters, vni>> /\ pc[r] # "ok" /\ clusters' \subseteq clusters \cup {Row(r)}
  BY Zenon DEF Unwind
<1>2. CASE UNCHANGED attempt /\ (Goto(r, "error") \/ Goto(r, "reread"))
  BY <1>1, <1>2, RunnerQuiet, Zenon
<1>. DEFINE a == Cardinality(Returned)  b == Cardinality(Returned)'  n == Cardinality(Requests)
<1>3. ASSUME Outlasts, pc[r] = "rollback_retry"
      PROVE  /\ attempt[r] \in Nat /\ a \in Nat /\ b \in Nat /\ n \in Nat
             /\ attempt[r] <= a /\ a <= b /\ a + 1 <= n
  <2>1. Returned \in SUBSET Returned' /\ Returned' \subseteq Requests
    BY <1>3, Zenon DEF Outlasts, Returned
  <2>2. Returned \in SUBSET (Requests \ {r})
    BY <1>1, Zenon DEF Returned
  <2>3. a \in Nat /\ b \in Nat /\ a <= b /\ n \in Nat
    BY <2>1, Counts
  <2>4. a + 1 <= n
    BY <2>2, Counts
  <2>5. attempt[r] <= a
    BY <1>3, Zenon DEF Racing, Race
  <2>. QED  BY <2>3, <2>4, <2>5, ConfigAssumption DEF Core, TypeOK
<1>4. CASE /\ pc[r] = "rollback_retry" /\ Goto(r, "network")
           /\ attempt' = [attempt EXCEPT ![r] = @ + 1]
  <2>1. /\ pc'[r] = "network" /\ attempt'[r] = attempt[r] + 1
        /\ \A q \in Requests \ {r} : attempt'[q] = attempt[q] /\ vni'[q] = vni[q]
    BY <1>1, <1>4, Zenon DEF Core, TypeOK, Goto
  <2>2. ASSUME Outlasts PROVE Race(r)'
    <3>1. attempt[r] \in Nat /\ a \in Nat /\ b \in Nat /\ attempt[r] <= a /\ a <= b
      BY <1>3, <1>4, <2>2, Zenon
    <3>. HIDE DEF a, b
    <3>2. attempt'[r] <= b + 1
      BY <2>1, <3>1
    <3>. QED  BY <2>1, <3>2 DEF Race, b
  <2>. QED  BY <1>1, <1>4, <2>1, <2>2, RunnerSteps, Zenon
<1>5. CASE /\ pc[r] = "rollback_retry" /\ attempt[r] = MaxAttempts
           /\ Goto(r, "exhausted") /\ UNCHANGED attempt
  <2>1. /\ pc'[r] = "exhausted"
        /\ \A q \in Requests \ {r} : attempt'[q] = attempt[q] /\ vni'[q] = vni[q]
    BY <1>1, <1>5, Zenon DEF Core, TypeOK, Goto
  <2>2. ASSUME Outlasts PROVE Race(r)'
    <3>1. attempt[r] \in Nat /\ a \in Nat /\ n \in Nat /\ attempt[r] <= a /\ a + 1 <= n
      BY <1>3, <1>5, <2>2, Zenon
    <3>. HIDE DEF a, n
    <3>2. ~(n <= MaxAttempts)
      BY <1>5, <3>1
    <3>. QED  BY <2>1, <3>2 DEF Race, n
  <2>. QED  BY <1>1, <1>5, <2>1, <2>2, RunnerSteps, Zenon
<1>. QED  BY <1>2, <1>4, <1>5, Zenon DEF Unwind

\* A handler's next poll preserves the counts.
LEMMA HandlerRaces ==
    ASSUME IsFiniteSet(Requests), Core, Racing, NEW r \in Requests, Handler(r)
    PROVE  Racing'
<1>1. CASE \E n \in Names, v \in Visibilities : Lookup(r, n, v)
  <2>1. /\ pc[r] = "idle" /\ UNCHANGED <<clusters, attempt, vni>>
        /\ Goto(r, "ok") \/ Goto(r, "network")
    BY <1>1, Zenon DEF Lookup, dbVars
  <2>. QED  BY <2>1, RunnerQuiet, Zenon
<1>2. CASE AllocatePublicVip(r) \/ ReservePrivateVip(r) \/ AllocateBlock(r)
  <2>1. /\ pc[r] \in {"vip", "block"} /\ UNCHANGED <<clusters, attempt, vni>>
        /\ \E l \in {"block", "insert", "rollback_error"} : Goto(r, l)
    BY <1>2, Zenon DEF AllocatePublicVip, ReservePrivateVip, AllocateBlock
  <2>. QED  BY <2>1, RunnerQuiet, Zenon
<1>3. CASE Reread(r)
  <2>1. /\ pc[r] = "reread" /\ UNCHANGED <<clusters, attempt, vni>>
        /\ Goto(r, "ok") \/ Goto(r, "error")
    BY <1>3, Zenon DEF Reread, dbVars
  <2>. QED  BY <2>1, RunnerQuiet, Zenon
<1>4. CASE Rollback(r) \/ ReleaseFails(r)
  BY <1>4, UnwindRaces, Zenon DEF Rollback, ReleaseFails
<1>. QED  BY <1>1, <1>2, <1>3, <1>4, NetworkRaces, InsertRaces, Zenon DEF Handler

\* A step that adds no row and at most drops calls in flight.
LEMMA BystandersRace ==
    ASSUME IsFiniteSet(Requests), Core, Racing, clusters' \subseteq clusters,
           UNCHANGED <<attempt, vni>>,
           \A q \in Requests : pc'[q] = pc[q] \/ (pc[q] # "ok" /\ pc'[q] = "dropped")
    PROVE  Racing'
<1>1. Outlasts
  <2>1. Returned \subseteq Returned'
    BY Zenon DEF Returned
  <2>2. \A q, s : InTheWay(q, s)' => InTheWay(q, s)
    BY Zenon DEF InTheWay, ClusterId
  <2>. QED  BY <2>1, <2>2, Zenon DEF Outlasts
<1>2. ASSUME NEW q \in Requests PROVE Race(q)'
  <2>1. CASE pc'[q] = pc[q]
    <3>1. attempt'[q] = attempt[q] /\ vni'[q] = vni[q] /\ TypeOK /\ Race(q)
      BY Zenon DEF Core, Racing
    <3>. QED  BY <1>1, <2>1, <3>1, RaceKept, Zenon
  <2>2. CASE pc'[q] = "dropped"
    BY <2>2 DEF Race
  <2>. QED  BY <2>1, <2>2, Zenon
<1>. QED  BY <1>2, Zenon DEF Racing

\* Every step preserves the counts.
LEMMA RacingNext ==
    ASSUME IsFiniteSet(Requests)
    PROVE  Core /\ Racing /\ [Next]_vars => Racing'
<1>. SUFFICES ASSUME Core, Racing, [Next]_vars PROVE Racing'
  OBVIOUS
<1>1. CASE \/ UNCHANGED vars
           \/ \E r \in Requests : Cancel(r)
           \/ \E s \in VniStarts : Restart(s)
           \/ \E c \in clusters : DrainCluster(c)
           \/ \E h \in Hosts, a \in PoolAddrs \cup {Elsewhere} : RegisterHost(h, a)
  <2>1. clusters' \subseteq clusters /\ UNCHANGED <<attempt, vni>>
    BY <1>1, Zenon DEF vars, Cancel, Restart, DrainCluster, RegisterHost, dbVars, reqVars
  <2>2. \A q \in Requests : pc'[q] = pc[q] \/ (pc[q] # "ok" /\ pc'[q] = "dropped")
    BY <1>1, Zenon DEF vars, Cancel, Restart, DrainCluster, RegisterHost, Goto, InFlight,
                Settled, Core, TypeOK
  <2>. QED  BY <2>1, <2>2, BystandersRace, Zenon
<1>. QED  BY <1>1, HandlerRaces, Zenon DEF Next

\* RacersNotExhausted for any finite number of calls, every MAX_ALLOCATION_ATTEMPTS
\* and every fault, drains and restarts with another VNI range included:
\* create_cluster answers resource_exhausted only when more calls than attempts
\* have been made.
THEOREM NobodyExhausted == ASSUME IsFiniteSet(Requests) PROVE Spec => []RacersNotExhausted
<1>1. Init => Racing
  BY RacingInit
<1>2. Core /\ Racing /\ [Next]_vars => Racing'
  BY RacingNext
<1>3. Racing => RacersNotExhausted
  BY Zenon DEF Racing, Race, RacersNotExhausted
<1>. QED  BY <1>1, <1>2, <1>3, CoreInit, CoreNext, PTL DEF Spec
===============================================================================
