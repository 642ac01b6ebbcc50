------------------------- MODULE HostNetworksProofs -------------------------
(***************************************************************************)
(* Bridge addresses stay distinct, for any number of hosts, addresses and  *)
(* commands in hand.                                                       *)
(*                                                                         *)
(* A host's address is that of its host_clusters row, and rows have        *)
(* different ones.  What has to be shown is that a row is not dropped while*)
(* its address is still on the host's bridge, or on its way there: in a    *)
(* build that has read the row, or in a command not yet applied.  The      *)
(* argument is about the order of the commands in hand: one that gives the *)
(* network up, for the membership there is, has only such behind it.       *)
(***************************************************************************)
EXTENDS HostNetworks, WellFoundedInduction, TLAPS

-----------------------------------------------------------------------------
(* Types. *)

Members == [state : {"none", "active", "pending"}, ip : BridgeIps \union {0}]

BuildSteps == {"idle", "due", "carriers", "owner", "elect", "refused", "send"}

Builds == [pc : BuildSteps, ip : BridgeIps \union {0}, domain : Domains \union {"none"},
           carriers : SUBSET Hosts, elected : Hosts \union {0}, behind : BOOLEAN]

\* What may be left of a command.
Parts == {{"clusters"}, {"tombstones"}, {"ack", "advertise"}, {"ack"}, {"advertise"}}

JobRecords == [cmd : Cmds, left : Parts, heard : BOOLEAN, old : BOOLEAN]

Nets == [up : BOOLEAN, addrs : SUBSET BridgeIps, peers : SUBSET Hosts, routed : BOOLEAN,
         vrf : Domains \union {"none"}, via : BOOLEAN, arp : BOOLEAN]

Lives == [known : BOOLEAN, cidr : BOOLEAN, arp : BOOLEAN, vrf : Domains \union {"none"}]

RowType ==
    /\ row \in BOOLEAN /\ domain \in Domains /\ owner \in Hosts \union {0}
    /\ member \in [Hosts -> Members]

BuildType == build \in [Hosts -> [Tasks -> Builds]]

HostType ==
    /\ job \in [Hosts -> Seq(JobRecords)]
    /\ net \in [Hosts -> Nets] /\ live \in [Hosts -> Lives]

Types == RowType /\ BuildType /\ HostType

-----------------------------------------------------------------------------
(* The invariant. *)

\* The rows' addresses are distinct, and a cluster without a row has none.
Rows ==
    /\ \A h \in Hosts : (member[h].state = "none") <=> (member[h].ip = 0)
    /\ \A g, h \in Hosts : g # h /\ member[g].ip # 0 => member[g].ip # member[h].ip
    /\ ~row => \A h \in Hosts : member[h].state = "none"

\* An address on the bridge, in a build or in a command still to be applied
\* is that of the host's row.
OwnAddress(h) ==
    /\ net[h].addrs \subseteq {member[h].ip} \ {0}
    /\ \A t \in Tasks : build[h][t].ip \in {0, member[h].ip}
    /\ \A i \in DOMAIN job[h] :
          "clusters" \in job[h][i].left => job[h][i].cmd.ip \in {0, member[h].ip}

\* A command that gives up the network, for the membership there is.
Gives(j) == j.cmd.tomb /\ ~j.old

\* Commands in hand have changed the network in order; behind one that gives it
\* up every other one gives it up as well, or does not ask for it.
InTurn(s) ==
    /\ \A i \in DOMAIN s : s[i].left \intersect {"tombstones", "ack"} # {} => s[i].cmd.tomb
    /\ \A i, k \in DOMAIN s : i < k =>
          /\ "clusters" \in s[i].left => "clusters" \in s[k].left
          /\ Gives(s[i]) => s[k].cmd.tomb \/ s[k].cmd.ip = 0

\* No such command for a membership that is active.
Leaving(h) == \A i \in DOMAIN job[h] : Gives(job[h][i]) => member[h].state # "active"

\* The bridge a pending acknowledgement answers for is without an address,
\* unless another command set it up again and is about to give it up, too.
Emptied(h) ==
    \A i \in DOMAIN job[h] :
        /\ "ack" \in job[h][i].left /\ ~job[h][i].old
        /\ member[h].state = "pending" /\ net[h].addrs # {}
        => \E k \in DOMAIN job[h] : "tombstones" \in job[h][k].left /\ job[h][k].cmd.ip # 0

HostInv(h) == OwnAddress(h) /\ InTurn(job[h]) /\ Leaving(h) /\ Emptied(h)

AddressInv == Types /\ (Orderly => Rows /\ \A h \in Hosts : HostInv(h))

-----------------------------------------------------------------------------
(* Operators. *)

\* The least of a set of numbers is one of them.
LEMMA MinIsIn ==
    ASSUME NEW S \in SUBSET Nat, S # {}
    PROVE  Min(S) \in S
<1>. DEFINE R == OpToRel(<, Nat)
<1>1. \E x \in S : \A y \in S : ~(<<y, x>> \in R)
  BY WFMin, NatLessThanWellFounded, Zenon
<1>2. PICK x \in S : \A y \in S : ~(<<y, x>> \in R)
  BY <1>1, Zenon
<1>3. \A y \in S : ~(y < x)
  BY <1>2, Zenon DEF OpToRel
<1>4. \A y \in S : x =< y
  BY <1>3
<1>. QED  BY <1>4, Zenon DEF Min

\* Two sequences joined.
LEMMA Joined ==
    ASSUME NEW S, NEW a \in Seq(S), NEW b \in Seq(S)
    PROVE  /\ a \o b \in Seq(S) /\ Len(a \o b) = Len(a) + Len(b)
           /\ \A k \in 1..(Len(a) + Len(b)) :
                 (a \o b)[k] = IF k <= Len(a) THEN a[k] ELSE b[k - Len(a)]
OBVIOUS

\* Where Without takes element k from.
Skip(i, k) == IF k < i THEN k ELSE k + 1

\* Without keeps the other elements in their order: a command that ends
\* leaves the others where they are.
LEMMA Removed ==
    ASSUME NEW S, NEW s \in Seq(S), NEW i \in DOMAIN s
    PROVE  /\ Without(s, i) \in Seq(S)
           /\ DOMAIN Without(s, i) = 1..(Len(s) - 1)
           /\ \A k \in 1..(Len(s) - 1) : Without(s, i)[k] = s[Skip(i, k)]
<1>. DEFINE a == SubSeq(s, 1, i - 1)
            b == SubSeq(s, i + 1, Len(s))
<1>1. i \in 1..Len(s) /\ Len(s) \in Nat /\ \A k \in 1..Len(s) : s[k] \in S
  OBVIOUS
<1>2. a \in Seq(S) /\ Len(a) = i - 1 /\ \A k \in 1..(i - 1) : a[k] = s[k]
  BY <1>1
<1>3. b \in Seq(S) /\ Len(b) = Len(s) - i /\ \A k \in 1..(Len(s) - i) : b[k] = s[i + k]
  BY <1>1
<1>. HIDE DEF a, b
<1>4. /\ a \o b \in Seq(S) /\ Len(a \o b) = Len(s) - 1
      /\ \A k \in 1..(Len(s) - 1) : (a \o b)[k] = IF k <= i - 1 THEN a[k] ELSE b[k - (i - 1)]
  <2>1. a \o b \in Seq(S) /\ Len(a \o b) = Len(a) + Len(b)
    BY <1>2, <1>3, Joined, Zenon
  <2>2. \A k \in 1..(Len(a) + Len(b)) :
          (a \o b)[k] = IF k <= Len(a) THEN a[k] ELSE b[k - Len(a)]
    BY <1>2, <1>3, Joined, Zenon
  <2>3. Len(a) + Len(b) = Len(s) - 1
    BY <1>1, <1>2, <1>3
  <2>. QED  BY <1>2, <2>1, <2>2, <2>3
<1>5. ASSUME NEW k \in 1..(Len(s) - 1)
      PROVE  (a \o b)[k] = s[Skip(i, k)]
  <2>1. CASE k < i
    BY <1>1, <1>2, <1>4, <2>1 DEF Skip
  <2>2. CASE ~(k < i)
    <3>1. k - (i - 1) \in 1..(Len(s) - i) /\ i + (k - (i - 1)) = k + 1
      BY <1>1, <2>2
    <3>2. (a \o b)[k] = b[k - (i - 1)]
      BY <1>1, <1>4, <2>2
    <3>. QED  BY <1>3, <2>2, <3>1, <3>2, Zenon DEF Skip
  <2>. QED  BY <2>1, <2>2, Zenon
<1>6. Without(s, i) = a \o b
  BY Zenon DEF Without, a, b
<1>7. DOMAIN (a \o b) = 1..(Len(s) - 1)
  BY <1>4
<1>. QED  BY <1>4, <1>5, <1>6, <1>7, Zenon

-----------------------------------------------------------------------------
(* The controller's steps keep the types, and tell builds no new address. *)

\* A build keeps the address it read, or ends.
IpsKept == \A h \in Hosts, t \in Tasks : build'[h][t].ip \in {0, build[h][t].ip}

\* What the constants and the empty row and build are.
LEMMA Constants ==
    /\ Hosts \subseteq Nat \ {0} /\ BridgeIps \subseteq Nat \ {0} /\ Domains # {}
    /\ NoMember \in Members /\ NoMember.state = "none" /\ NoMember.ip = 0
    /\ NoBuild \in Builds /\ NoBuild.ip = 0
    /\ Tasks = {"tick", "push"} /\ \A t \in Tasks : Other(t) \in Tasks /\ Other(t) # t
<1>1. NoMember \in Members /\ NoMember.state = "none" /\ NoMember.ip = 0
  BY Zenon DEF NoMember, Members
<1>2. NoBuild \in Builds /\ NoBuild.ip = 0
  BY Zenon DEF NoBuild, Builds, BuildSteps
<1>. QED  BY <1>1, <1>2, HostClustersAssumption, Zenon DEF HostClustersAssumption, Tasks, Other

\* Writing one build.
LEMMA BuildWrites ==
    ASSUME BuildType, NEW h \in Hosts, NEW t \in Tasks, NEW b \in Builds,
           build' = [build EXCEPT ![h][t] = b]
    PROVE  /\ BuildType'
           /\ \A g \in Hosts, u \in Tasks :
                 build'[g][u] = IF g = h /\ u = t THEN b ELSE build[g][u]
BY Zenon DEF BuildType

\* A build with another step.
LEMMA BuildMoves ==
    ASSUME NEW b \in Builds, NEW l \in BuildSteps
    PROVE  [b EXCEPT !.pc = l] \in Builds /\ [b EXCEPT !.pc = l].ip = b.ip
BY Zenon DEF Builds

\* A build marked as overtaken, or no more.
LEMMA BuildBehind ==
    ASSUME NEW b \in Builds, NEW x \in BOOLEAN
    PROVE  [b EXCEPT !.behind = x] \in Builds /\ [b EXCEPT !.behind = x].ip = b.ip
BY Zenon DEF Builds

\* push_reconcile starts builds, which have read no row yet.
LEMMA PushKeeps ==
    ASSUME BuildType, NEW hs, Push(hs)
    PROVE  BuildType' /\ IpsKept
<1>. DEFINE moved(h) == [build[h] EXCEPT !["push"] = [build[h]["push"] EXCEPT !.pc = "due"]]
<1>1. \A h \in Hosts : build'[h] \in {build[h], moved(h)}
  BY Zenon DEF Push, BuildType
<1>2. ASSUME NEW h \in Hosts
      PROVE  moved(h) \in [Tasks -> Builds] /\ \A t \in Tasks : moved(h)[t].ip = build[h][t].ip
  <2>1. build[h] \in [Tasks -> Builds] /\ "push" \in Tasks
    BY Constants, Zenon DEF BuildType
  <2>2. PICK b \in Builds : b = [build[h]["push"] EXCEPT !.pc = "due"] /\ b.ip = build[h]["push"].ip
    BY <2>1, BuildMoves, Zenon DEF BuildSteps
  <2>3. moved(h) = [build[h] EXCEPT !["push"] = b]
    BY <2>2, Zenon
  <2>. HIDE DEF moved
  <2>. QED  BY <2>1, <2>2, <2>3, Zenon
<1>3. build' = [h \in Hosts |-> build'[h]]
  BY Zenon DEF Push
<1>. HIDE DEF moved
<1>4. \A h \in Hosts : build[h] \in [Tasks -> Builds]
  BY Zenon DEF BuildType
<1>5. \A h \in Hosts : build'[h] \in [Tasks -> Builds]
  BY <1>1, <1>2, <1>4, Zenon
<1>6. BuildType'
  BY <1>3, <1>5, Zenon DEF BuildType
<1>. QED  BY <1>1, <1>2, <1>6, Zenon DEF IpsKept

\* A build that is sent ends; the other one of the host goes on.
LEMMA EndBuildKeeps ==
    ASSUME BuildType, NEW h \in Hosts, NEW t \in Tasks, EndBuild(h, t)
    PROVE  BuildType' /\ IpsKept
<1>1. PICK u \in Tasks : u = Other(t) /\ u # t
  BY Constants, Zenon
<1>2. PICK b \in Builds : b = [build[h][u] EXCEPT !.behind = FALSE] /\ b.ip = build[h][u].ip
  BY BuildBehind, Zenon DEF BuildType
<1>3. build' = [build EXCEPT ![h] = [[build[h] EXCEPT ![t] = NoBuild] EXCEPT ![u] = b]]
  BY <1>1, <1>2, Zenon DEF EndBuild, BuildType
<1>4. NoBuild \in Builds /\ NoBuild.ip = 0
  BY Constants, Zenon
<1>5. BuildType'
  BY <1>1, <1>2, <1>3, <1>4, Zenon DEF BuildType
<1>6. \A g \in Hosts, x \in Tasks :
        build'[g][x] = IF g = h /\ x = t THEN NoBuild ELSE IF g = h /\ x = u THEN b ELSE build[g][x]
  BY <1>1, <1>2, <1>3, <1>4, Zenon DEF BuildType
<1>. QED  BY <1>2, <1>4, <1>5, <1>6, Zenon DEF IpsKept

\* The election picks a host of those that were listed, or none.
LEMMA ElectedIsHost ==
    ASSUME NEW S \in SUBSET Hosts
    PROVE  Elected(S) \in Hosts \union {0}
<1>1. S # {} => Min(S) \in S
  BY MinIsIn, Constants, Zenon
<1>. QED  BY <1>1, Zenon DEF Elected

\* What build_reconcile_command reads first: the address of the host's row or
\* none.
LEMMA MembershipIsBuild ==
    ASSUME RowType, NEW h \in Hosts
    PROVE  ReadMembership(h) \in Builds /\ ReadMembership(h).ip \in {0, member[h].ip}
<1>1. CASE h \in Active
  <2>1. member[h].ip \in BridgeIps \union {0} /\ domain \in Domains
    BY Zenon DEF RowType, Members
  <2>2. ReadMembership(h) = [NoBuild EXCEPT !.pc = "carriers", !.ip = member[h].ip,
                                            !.domain = domain]
    BY <1>1, Zenon DEF ReadMembership
  <2>3. PICK b \in Builds : b = NoBuild
    BY Constants, Zenon
  <2>4. /\ [b EXCEPT !.pc = "carriers", !.ip = member[h].ip, !.domain = domain] \in Builds
        /\ [b EXCEPT !.pc = "carriers", !.ip = member[h].ip, !.domain = domain].ip = member[h].ip
    BY <2>1, Zenon DEF Builds, BuildSteps
  <2>. QED  BY <2>2, <2>3, <2>4, Zenon
<1>2. CASE h \notin Active
  <2>1. ReadMembership(h) = [NoBuild EXCEPT !.pc = "send"]
    BY <1>2, Zenon DEF ReadMembership
  <2>. QED  BY <2>1, BuildMoves, Constants, Zenon DEF BuildSteps
<1>. QED  BY <1>1, <1>2, Zenon

\* The later reads leave a build's address alone.
LEMMA ReadsKeepIp ==
    ASSUME RowType, NEW b \in Builds
    PROVE  /\ ReadCarriers(b) \in Builds /\ ReadCarriers(b).ip = b.ip
           /\ ReadOwner(b) \in Builds /\ ReadOwner(b).ip = b.ip
<1>1. Carriers \in SUBSET Hosts /\ {} \in SUBSET Hosts
  BY Zenon DEF Carriers, Active
<1>2. b.carriers \in SUBSET Hosts
  BY Zenon DEF Builds
<1>3. PICK e \in Hosts \union {0} : e = Elected(b.carriers)
  BY <1>2, ElectedIsHost, Zenon
<1>4. PICK l \in BuildSteps : l = IF e \in {owner, 0} THEN "send" ELSE "elect"
  BY Zenon DEF BuildSteps
<1>5. ReadOwner(b) = [b EXCEPT !.pc = l, !.elected = e, !.carriers = {}]
  BY <1>3, <1>4, Zenon DEF ReadOwner
<1>6. ReadCarriers(b) \in Builds /\ ReadCarriers(b).ip = b.ip
  BY <1>1, Zenon DEF ReadCarriers, Builds, BuildSteps
<1>7. /\ [b EXCEPT !.pc = l, !.elected = e, !.carriers = {}] \in Builds
      /\ [b EXCEPT !.pc = l, !.elected = e, !.carriers = {}].ip = b.ip
  BY <1>1, Zenon DEF Builds
<1>. QED  BY <1>5, <1>6, <1>7, Zenon

\* A build's address is the one it had, or the row's.
IpsOwn == \A h \in Hosts, t \in Tasks : build'[h][t].ip \in {0, build[h][t].ip, member[h].ip}

\* A step of the controller that leaves the membership alone.
Quiet == RowType' /\ BuildType' /\ IpsOwn /\ member' = member /\ (row => row')

\* Builds that keep their addresses read none but the row's.
LEMMA KeptIsOwn == IpsKept => IpsOwn
BY Zenon DEF IpsKept, IpsOwn

\* Rows and builds that stay as they are.
LEMMA NothingIsQuiet ==
    ASSUME Types, UNCHANGED <<row, domain, owner, member, build>>
    PROVE  Quiet
<1>1. RowType' /\ BuildType'
  BY Zenon DEF Types, RowType, BuildType
<1>. QED  BY <1>1, Zenon DEF Quiet, IpsOwn

\* CreateCluster and a new trust domain leave the memberships alone.
LEMMA CallClusterQuiet ==
    ASSUME Types, CallCluster
    PROVE  Quiet /\ UNCHANGED <<net, live, job, happened>>
<1>1. PICK d \in Domains : CreateCluster(d) \/ UpdateTrustDomain(d)
  BY Zenon DEF CallCluster
<1>2. RowType' /\ (row => row') /\ member' = member
  BY <1>1, Zenon DEF CreateCluster, UpdateTrustDomain, Types, RowType
<1>3. BuildType' /\ IpsOwn
  <2>1. CASE CreateCluster(d)
    <3>1. build' = build
      BY <2>1, Zenon DEF CreateCluster
    <3>. QED  BY <3>1, Zenon DEF Types, BuildType, IpsOwn
  <2>2. CASE UpdateTrustDomain(d)
    BY <2>2, PushKeeps, KeptIsOwn, Zenon DEF UpdateTrustDomain, Types
  <2>. QED  BY <1>1, <2>1, <2>2, Zenon
<1>. QED  BY <1>2, <1>3, Zenon DEF Quiet, CallCluster, netVars

\* The ticker or a push reads the row.
LEMMA TickQuiet ==
    ASSUME Types, NEW h \in Hosts, NEW t \in Tasks, Tick(h, t)
    PROVE  Quiet /\ UNCHANGED <<net, live, job, happened>>
<1>. USE DEF Types
<1>1. BeginBuild(h, t)
  BY Zenon DEF Tick
<1>2. PICK r \in Builds : r = ReadMembership(h) /\ r.ip \in {0, member[h].ip}
  BY MembershipIsBuild, Zenon
<1>. DEFINE x == build[h][Other(t)].pc \notin {"idle", "due"}
<1>3. build' = [build EXCEPT ![h][t] = [r EXCEPT !.behind = x]]
  BY <1>1, <1>2, Zenon DEF BeginBuild
<1>4. x \in BOOLEAN
  OBVIOUS
<1>. HIDE DEF x
<1>5. PICK b \in Builds : b.ip = r.ip /\ build' = [build EXCEPT ![h][t] = b]
  BY <1>3, <1>4, BuildBehind, Zenon
<1>6. BuildType' /\ \A g \in Hosts, u \in Tasks :
                       build'[g][u] = IF g = h /\ u = t THEN b ELSE build[g][u]
  BY <1>5, BuildWrites, Zenon
<1>7. IpsOwn
  BY <1>2, <1>5, <1>6, ZenonT(60) DEF IpsOwn
<1>8. UNCHANGED <<row, domain, owner, member>>
  BY <1>1, Zenon DEF BeginBuild
<1>9. RowType'
  BY <1>8, Zenon DEF RowType
<1>. QED  BY <1>6, <1>7, <1>8, <1>9, Zenon DEF Quiet, Tick, netVars

\* A build that reads on keeps its address.
LEMMA ReadOnQuiet ==
    ASSUME Types, NEW h \in Hosts, NEW t \in Tasks, ReadOn(h, t)
    PROVE  Quiet
<1>. USE DEF Types
<1>1. build[h][t] \in Builds
  BY Zenon DEF BuildType
<1>2. \/ build' = [build EXCEPT ![h][t] = ReadCarriers(build[h][t])]
      \/ build' = [build EXCEPT ![h][t] = ReadOwner(build[h][t])]
  BY Zenon DEF ReadOn, BuildType
<1>3. PICK b \in Builds : build' = [build EXCEPT ![h][t] = b] /\ b.ip = build[h][t].ip
  BY <1>1, <1>2, ReadsKeepIp, Zenon
<1>4. BuildType' /\ \A g \in Hosts, u \in Tasks :
                       build'[g][u] = IF g = h /\ u = t THEN b ELSE build[g][u]
  BY <1>3, BuildWrites, Zenon
<1>5. IpsOwn
  BY <1>3, <1>4, Zenon DEF IpsOwn
<1>6. UNCHANGED <<row, domain, owner, member>>
  BY Zenon DEF ReadOn
<1>7. RowType'
  BY <1>6, Zenon DEF RowType
<1>. QED  BY <1>4, <1>5, <1>6, <1>7, Zenon DEF Quiet

\* An election leaves the memberships alone, recorded or refused.
LEMMA ElectQuiet ==
    ASSUME Types, NEW h \in Hosts, NEW t \in Tasks, Elect(h, t)
    PROVE  Quiet /\ UNCHANGED <<net, live, job, happened>>
<1>. USE DEF Types
<1>1. UNCHANGED <<row, domain, member>> /\ UNCHANGED <<net, live, job, happened>>
  BY Zenon DEF Elect, ReadOn, RecordOwner, netVars
<1>2. CASE /\ owner' = build[h][t].elected
           /\ build' = [build EXCEPT ![h][t].pc = "send"]
  <2>1. PICK b \in Builds : b = [build[h][t] EXCEPT !.pc = "send"] /\ b.ip = build[h][t].ip
    BY BuildMoves, ZenonT(60) DEF BuildType, BuildSteps
  <2>2. build' = [build EXCEPT ![h][t] = b]
    BY <1>2, <2>1, Zenon
  <2>3. BuildType' /\ \A g \in Hosts, u \in Tasks :
                         build'[g][u] = IF g = h /\ u = t THEN b ELSE build[g][u]
    BY <2>2, BuildWrites, Zenon
  <2>4. IpsOwn
    BY <2>1, <2>3, Zenon DEF IpsOwn
  <2>5. build[h][t].elected \in Hosts \union {0}
    BY DEF BuildType, Builds
  <2>6. RowType'
    BY <1>1, <1>2, <2>5, Zenon DEF RowType
  <2>. QED  BY <1>1, <2>3, <2>4, <2>6, Zenon DEF Quiet
<1>3. CASE EndBuild(h, t) /\ UNCHANGED owner
  <2>1. RowType'
    BY <1>1, <1>3, Zenon DEF RowType
  <2>. QED  BY <1>1, <1>3, <2>1, EndBuildKeeps, KeptIsOwn, Zenon DEF Quiet
<1>. QED  BY <1>1, <1>2, <1>3, ReadOnQuiet, Zenon DEF Elect, RecordOwner

\* The other steps that touch no row of the cluster.
LEMMA OthersQuiet ==
    ASSUME Types, Service \/ \E h \in Hosts : Stale(h) \/ Recover(h)
    PROVE  Quiet /\ UNCHANGED <<net, live, job>>
<1>1. UNCHANGED <<row, domain, owner, member, build>> /\ UNCHANGED <<net, live, job>>
  BY Zenon DEF Service, Stale, Recover, MarkStale, Heartbeat, netVars
<1>. QED  BY <1>1, NothingIsQuiet, Zenon

-----------------------------------------------------------------------------
(* The hosts' networks and commands. *)

\* A host without the network, also with something left of it.
LEMMA Empties ==
    /\ NoNet \in Nets /\ NoNet.addrs = {} /\ NotLive \in Lives
    /\ \A x \in BOOLEAN : /\ [NoNet EXCEPT !.up = x] \in Nets /\ [NoNet EXCEPT !.up = x].addrs = {}
                          /\ [NoNet EXCEPT !.arp = x] \in Nets /\ [NoNet EXCEPT !.arp = x].addrs = {}
                          /\ [NotLive EXCEPT !.known = x] \in Lives
                          /\ \A y \in BOOLEAN : [NotLive EXCEPT !.known = x, !.cidr = y] \in Lives
<1>1. NoNet \in Nets /\ NoNet.addrs = {}
  BY Zenon DEF NoNet, Nets
<1>2. NotLive \in Lives
  BY Zenon DEF NotLive, Lives
<1>3. \A x \in BOOLEAN : /\ [NoNet EXCEPT !.up = x] \in Nets /\ [NoNet EXCEPT !.up = x].addrs = {}
                         /\ [NoNet EXCEPT !.arp = x] \in Nets /\ [NoNet EXCEPT !.arp = x].addrs = {}
  BY <1>1, Zenon DEF Nets
<1>4. \A x \in BOOLEAN : /\ [NotLive EXCEPT !.known = x] \in Lives
                         /\ \A y \in BOOLEAN : [NotLive EXCEPT !.known = x, !.cidr = y] \in Lives
  BY <1>2, Zenon DEF Lives
<1>. QED  BY <1>1, <1>2, <1>3, <1>4, Zenon

\* Single fields of what the kernel and ClusterManager hold.
LEMMA NetFields ==
    ASSUME NEW n \in Nets, NEW x \in BOOLEAN
    PROVE  /\ [n EXCEPT !.up = x] \in Nets /\ [n EXCEPT !.up = x].addrs = n.addrs
           /\ [n EXCEPT !.arp = x] \in Nets /\ [n EXCEPT !.arp = x].addrs = n.addrs
           /\ [n EXCEPT !.routed = x] \in Nets /\ [n EXCEPT !.routed = x].addrs = n.addrs
           /\ [n EXCEPT !.via = x] \in Nets /\ [n EXCEPT !.via = x].addrs = n.addrs
           /\ [n EXCEPT !.peers = {}] \in Nets /\ [n EXCEPT !.peers = {}].addrs = n.addrs
           /\ [n EXCEPT !.up = x, !.peers = {}] \in Nets
           /\ [n EXCEPT !.up = x, !.peers = {}].addrs = n.addrs
BY Zenon DEF Nets

\* Moving the bridge to a VRF keeps its addresses.
LEMMA EnslaveKeeps ==
    ASSUME NEW n \in Nets, NEW d \in Domains \union {"none"}
    PROVE  Enslave(n, d) \in Nets /\ Enslave(n, d).addrs = n.addrs
BY Zenon DEF Enslave, Nets

\* A command gives the bridge its own address and no other.
LEMMA EnsureAdds ==
    ASSUME NEW h \in Hosts, NEW n \in Nets, NEW c \in Cmds
    PROVE  /\ EnsureCluster(h, n, c) \in Nets
           /\ EnsureCluster(h, n, c).addrs \subseteq n.addrs \union ({c.ip} \ {0})
<1>1. /\ c.ip \in BridgeIps \union {0} /\ c.domain \in Domains \union {"none"}
      /\ c.peers \subseteq Hosts
  BY Zenon DEF Cmds
<1>2. PICK u \in Nets : u = [n EXCEPT !.up = TRUE] /\ u.addrs = n.addrs
  BY NetFields, Zenon
<1>3. PICK m \in Nets : m = Enslave(u, c.domain) /\ m.addrs = n.addrs
  BY <1>1, <1>2, EnslaveKeeps, Zenon
<1>4. PICK a \in SUBSET BridgeIps : /\ a = IF c.ip = 0 THEN m.addrs ELSE m.addrs \union {c.ip}
                                    /\ a \subseteq n.addrs \union ({c.ip} \ {0})
  BY <1>1, <1>3, ZenonT(60) DEF Nets
<1>5. PICK p \in SUBSET Hosts : p = c.peers \ {h}
  BY <1>1, Zenon
<1>6. EnsureCluster(h, n, c) = [m EXCEPT !.addrs = a, !.peers = p]
  BY <1>2, <1>3, <1>4, <1>5, Zenon DEF EnsureCluster
<1>7. [m EXCEPT !.addrs = a, !.peers = p] \in Nets /\ [m EXCEPT !.addrs = a, !.peers = p].addrs = a
  BY Zenon DEF Nets
<1>. QED  BY <1>4, <1>6, <1>7, Zenon

\* What an agent finds of the cluster after a restart.
LEMMA RecoveredIsLive ==
    ASSUME HostType, NEW h \in Hosts
    PROVE  Recovered(h) \in Lives
<1>1. live[h] \in Lives
  BY Zenon DEF HostType
<1>2. [NotLive EXCEPT !.known = TRUE, !.cidr = net[h].addrs # {}] \in Lives
  BY Empties, Zenon
<1>. QED  BY <1>1, <1>2, Zenon DEF Recovered

\* What an agent remembers of an applied command.
LEMMA RememberedIsLive ==
    ASSUME HostType, NEW h \in Hosts, NEW c \in Cmds
    PROVE  Remembered(h, c) \in Lives
<1>1. c.domain \in Domains \union {"none"}
  BY Zenon DEF Cmds
<1>2. [known |-> TRUE, cidr |-> TRUE, vrf |-> c.domain, arp |-> c.owner = h] \in Lives
  BY <1>1, Zenon DEF Lives
<1>. QED  BY <1>2, RecoveredIsLive, Zenon DEF Remembered

\* reconcile: the address of the command, and no other that was not there.
LEMMA ReconciledAdds ==
    ASSUME HostType, NEW h \in Hosts, NEW c \in Cmds
    PROVE  /\ Reconciled(h, c) \in Nets
           /\ Reconciled(h, c).addrs \subseteq net[h].addrs \union ({c.ip} \ {0})
<1>. DEFINE n == IF c.has THEN [EnsureCluster(h, net[h], c) EXCEPT !.routed = TRUE] ELSE net[h]
<1>1. net[h] \in Nets
  BY Zenon DEF HostType
<1>2. PICK e \in Nets : /\ e = EnsureCluster(h, net[h], c)
                        /\ e.addrs \subseteq net[h].addrs \union ({c.ip} \ {0})
  BY <1>1, EnsureAdds, Zenon
<1>3. PICK f \in Nets : f = [e EXCEPT !.routed = TRUE] /\ f.addrs = e.addrs
  BY NetFields, Zenon
<1>4. PICK m \in Nets : m = n /\ m.addrs \subseteq net[h].addrs \union ({c.ip} \ {0})
  BY <1>1, <1>2, <1>3, Zenon
<1>5. PICK x \in BOOLEAN : x = Remembered(h, c).arp
  BY RememberedIsLive, Zenon DEF Lives
<1>6. Reconciled(h, c) = [m EXCEPT !.arp = x]
  BY <1>4, <1>5, Zenon DEF Reconciled
<1>7. [m EXCEPT !.arp = x] \in Nets /\ [m EXCEPT !.arp = x].addrs = m.addrs
  BY NetFields, Zenon
<1>. QED  BY <1>4, <1>6, <1>7, Zenon

-----------------------------------------------------------------------------
(* Commands in hand. *)

\* Some of the commands may be gone and some may have acknowledged or
\* advertised; the rest is as it was, in its order.
Thins(s, r) ==
    \E f \in [DOMAIN r -> DOMAIN s] :
        /\ \A i, k \in DOMAIN r : i < k => f[i] < f[k]
        /\ \A i \in DOMAIN r :
              /\ r[i].cmd = s[f[i]].cmd /\ r[i].old = s[f[i]].old
              /\ r[i].left \subseteq s[f[i]].left
              /\ s[f[i]].left \subseteq r[i].left \union {"ack", "advertise"}
        /\ \A k \in DOMAIN s : "tombstones" \in s[k].left => \E i \in DOMAIN r : f[i] = k

\* What a thinned sequence has of the first one, whatever the places.
Carried(s, r) ==
    /\ \A i \in DOMAIN r : \E k \in DOMAIN s :
          r[i].cmd = s[k].cmd /\ r[i].old = s[k].old /\ r[i].left \subseteq s[k].left
    /\ \A k \in DOMAIN s : "tombstones" \in s[k].left =>
          \E i \in DOMAIN r : "tombstones" \in r[i].left /\ r[i].cmd = s[k].cmd

\* Commands that end or go on do so in order.
LEMMA ThinInTurn ==
    ASSUME NEW s, NEW r, Thins(s, r), InTurn(s)
    PROVE  InTurn(r) /\ Carried(s, r)
<1>1. PICK f \in [DOMAIN r -> DOMAIN s] :
        /\ \A i, k \in DOMAIN r : i < k => f[i] < f[k]
        /\ \A i \in DOMAIN r :
              /\ r[i].cmd = s[f[i]].cmd /\ r[i].old = s[f[i]].old
              /\ r[i].left \subseteq s[f[i]].left
              /\ s[f[i]].left \subseteq r[i].left \union {"ack", "advertise"}
        /\ \A k \in DOMAIN s : "tombstones" \in s[k].left => \E i \in DOMAIN r : f[i] = k
  BY Zenon DEF Thins
<1>2. \A i \in DOMAIN r : f[i] \in DOMAIN s
  BY <1>1, Zenon
<1>3. ASSUME NEW i \in DOMAIN r, r[i].left \intersect {"tombstones", "ack"} # {}
      PROVE  r[i].cmd.tomb
  <2>1. s[f[i]].left \intersect {"tombstones", "ack"} # {}
    BY <1>1, <1>3, Zenon
  <2>. QED  BY <1>1, <1>2, <2>1, Zenon DEF InTurn
<1>4. ASSUME NEW i \in DOMAIN r, NEW k \in DOMAIN r, i < k
      PROVE  /\ "clusters" \in r[i].left => "clusters" \in r[k].left
             /\ Gives(r[i]) => r[k].cmd.tomb \/ r[k].cmd.ip = 0
  <2>1. f[i] < f[k] /\ f[i] \in DOMAIN s /\ f[k] \in DOMAIN s
    BY <1>1, <1>2, <1>4, Zenon
  <2>2. /\ "clusters" \in s[f[i]].left => "clusters" \in s[f[k]].left
        /\ Gives(s[f[i]]) => s[f[k]].cmd.tomb \/ s[f[k]].cmd.ip = 0
    BY <2>1, Zenon DEF InTurn
  <2>3. "clusters" \in s[f[k]].left => "clusters" \in r[k].left
    BY <1>1, Zenon
  <2>. QED  BY <1>1, <2>2, <2>3, Zenon DEF Gives
<1>5. InTurn(r)
  BY <1>3, <1>4, Zenon DEF InTurn
<1>6. ASSUME NEW k \in DOMAIN s, "tombstones" \in s[k].left
      PROVE  \E i \in DOMAIN r : "tombstones" \in r[i].left /\ r[i].cmd = s[k].cmd
  <2>1. PICK i \in DOMAIN r : f[i] = k
    BY <1>1, <1>6, Zenon
  <2>2. "tombstones" \in r[i].left
    BY <1>1, <1>6, <2>1, Zenon
  <2>. QED  BY <1>1, <2>1, <2>2, Zenon
<1>7. Carried(s, r)
  BY <1>1, <1>2, <1>6, Zenon DEF Carried
<1>. QED  BY <1>5, <1>7, Zenon

\* The command that is done leaves the others as they are.
LEMMA RemovalThins ==
    ASSUME NEW s \in Seq(JobRecords), NEW i \in DOMAIN s, "tombstones" \notin s[i].left
    PROVE  Without(s, i) \in Seq(JobRecords) /\ Thins(s, Without(s, i))
<1>. DEFINE r == Without(s, i)
            f == [k \in DOMAIN r |-> Skip(i, k)]
<1>1. /\ r \in Seq(JobRecords) /\ DOMAIN r = 1..(Len(s) - 1)
      /\ \A k \in 1..(Len(s) - 1) : r[k] = s[Skip(i, k)]
  BY Removed, Zenon
<1>. HIDE DEF r
<1>2. DOMAIN s = 1..Len(s) /\ i \in 1..Len(s) /\ Len(s) \in Nat
  OBVIOUS
<1>3. f \in [DOMAIN r -> DOMAIN s]
  BY <1>1, <1>2 DEF Skip
<1>4. \A k, l \in DOMAIN r : k < l => f[k] < f[l]
  BY <1>1, <1>2 DEF Skip
<1>5. \A k \in DOMAIN r : r[k] = s[f[k]]
  BY <1>1, Zenon
<1>6. ASSUME NEW k \in DOMAIN s, k # i
      PROVE  \E l \in DOMAIN r : f[l] = k
  <2>1. CASE k < i
    <3>1. k \in DOMAIN r /\ f[k] = k
      BY <1>1, <1>2, <2>1 DEF Skip
    <3>. QED  BY <3>1, Zenon
  <2>2. CASE ~(k < i)
    <3>1. k - 1 \in DOMAIN r /\ f[k - 1] = k
      BY <1>1, <1>2, <1>6, <2>2 DEF Skip
    <3>. QED  BY <3>1, Zenon
  <2>. QED  BY <2>1, <2>2, Zenon
<1>. HIDE DEF f
<1>7. Thins(s, r)
  BY <1>3, <1>4, <1>5, <1>6, Zenon DEF Thins
<1>. QED  BY <1>1, <1>7, Zenon DEF r

\* So does one that has acknowledged or advertised and goes on.
LEMMA PartThins ==
    ASSUME NEW s \in Seq(JobRecords), NEW i \in DOMAIN s, NEW part \in {"ack", "advertise"},
           part \in s[i].left, s[i].left \ {part} # {}
    PROVE  LET r == [s EXCEPT ![i] = After(s[i], s[i].left \ {part})]
           IN r \in Seq(JobRecords) /\ Thins(s, r)
<1>. DEFINE j == After(s[i], s[i].left \ {part})
            r == [s EXCEPT ![i] = j]
            f == [k \in DOMAIN r |-> k]
<1>1. s[i] \in JobRecords
  OBVIOUS
<1>2. s[i].left \ {part} \in Parts
  BY <1>1, Zenon DEF JobRecords, Parts
<1>3. /\ j \in JobRecords /\ j.cmd = s[i].cmd /\ j.old = s[i].old /\ j.left = s[i].left \ {part}
  BY <1>1, <1>2, Zenon DEF After, JobRecords
<1>. HIDE DEF j
<1>4. /\ r \in Seq(JobRecords) /\ DOMAIN r = DOMAIN s
      /\ \A k \in DOMAIN s : r[k] = IF k = i THEN j ELSE s[k]
  BY <1>3
<1>. HIDE DEF r
<1>5. f \in [DOMAIN r -> DOMAIN s] /\ \A k \in DOMAIN r : f[k] = k
  BY <1>4, Zenon
<1>. HIDE DEF f
<1>6. \A k \in DOMAIN r :
        /\ r[k].cmd = s[k].cmd /\ r[k].old = s[k].old /\ r[k].left \subseteq s[k].left
        /\ s[k].left \subseteq r[k].left \union {"ack", "advertise"}
  BY <1>3, <1>4, Zenon
<1>7. \A k \in DOMAIN r :
        /\ r[k].cmd = s[f[k]].cmd /\ r[k].old = s[f[k]].old /\ r[k].left \subseteq s[f[k]].left
        /\ s[f[k]].left \subseteq r[k].left \union {"ack", "advertise"}
  BY <1>5, <1>6, Zenon
<1>8. /\ \A k, l \in DOMAIN r : k < l => f[k] < f[l]
      /\ \A k \in DOMAIN s : "tombstones" \in s[k].left => \E l \in DOMAIN r : f[l] = k
  BY <1>4, <1>5, Zenon
<1>9. Thins(s, r)
  BY <1>5, <1>7, <1>8, Zenon DEF Thins
<1>. QED  BY <1>4, <1>9, Zenon DEF r, j

\* Writing the commands of one host.
LEMMA JobWrites ==
    ASSUME HostType, NEW h \in Hosts, NEW s \in Seq(JobRecords), job' = [job EXCEPT ![h] = s]
    PROVE  /\ job' \in [Hosts -> Seq(JobRecords)] /\ job'[h] = s
           /\ \A g \in Hosts : g # h => job'[g] = job[g]
BY Zenon DEF HostType

\* An acknowledgement or an advertisement is one thing less to do.
LEMMA FinishThins ==
    ASSUME HostType, NEW h \in Hosts, NEW i \in DOMAIN job[h], NEW part \in {"ack", "advertise"},
           Finish(h, i, part)
    PROVE  /\ job' \in [Hosts -> Seq(JobRecords)] /\ Thins(job[h], job'[h])
           /\ \A g \in Hosts : g # h => job'[g] = job[g]
<1>1. job[h] \in Seq(JobRecords) /\ part \in job[h][i].left
  BY Zenon DEF HostType, Finish
<1>2. CASE job[h][i].left \ {part} = {}
  <2>1. job' = [job EXCEPT ![h] = Without(job[h], i)]
    BY <1>2, Zenon DEF Finish, EndJob, HostType
  <2>2. "tombstones" \notin job[h][i].left
    BY <1>2
  <2>. QED  BY <1>1, <2>1, <2>2, RemovalThins, JobWrites, Zenon
<1>3. CASE job[h][i].left \ {part} # {}
  <2>1. PICK s \in Seq(JobRecords) :
          /\ s = [job[h] EXCEPT ![i] = After(job[h][i], job[h][i].left \ {part})]
          /\ Thins(job[h], s)
    BY <1>1, <1>3, PartThins, Zenon
  <2>2. job' = [job EXCEPT ![h] = s]
    BY <1>3, <2>1, Zenon DEF Finish, SetJob, HostType
  <2>. QED  BY <2>1, <2>2, JobWrites, Zenon
<1>. QED  BY <1>2, <1>3, Zenon

-----------------------------------------------------------------------------
(* The invariant of a host through the kinds of steps. *)

\* Nothing of the host's changes but builds that end or read its row.
LEMMA HostKept ==
    ASSUME NEW h \in Hosts, HostInv(h), IpsOwn, member'[h] = member[h], job'[h] = job[h],
           net'[h].addrs = net[h].addrs
    PROVE  HostInv(h)'
<1>1. OwnAddress(h)'
  BY Zenon DEF HostInv, OwnAddress, IpsOwn
<1>. QED  BY <1>1, Zenon DEF HostInv, Leaving, Emptied

\* Commands end, acknowledge or advertise.
LEMMA HostThinned ==
    ASSUME NEW h \in Hosts, HostInv(h), IpsOwn, member'[h] = member[h],
           Thins(job[h], job'[h]), net'[h].addrs = net[h].addrs
    PROVE  HostInv(h)'
<1>1. InTurn(job'[h]) /\ Carried(job[h], job'[h])
  BY ThinInTurn, Zenon DEF HostInv
<1>2. \A i \in DOMAIN job'[h] :
        "clusters" \in job'[h][i].left => job'[h][i].cmd.ip \in {0, member'[h].ip}
  BY <1>1, Zenon DEF Carried, HostInv, OwnAddress
<1>3. OwnAddress(h)'
  BY <1>2, Zenon DEF HostInv, OwnAddress, IpsOwn
<1>4. Leaving(h)'
  BY <1>1, Zenon DEF Carried, HostInv, Leaving, Gives
<1>5. Emptied(h)'
  BY <1>1, ZenonT(60) DEF Carried, HostInv, Emptied
<1>. QED  BY <1>1, <1>3, <1>4, <1>5, Zenon DEF HostInv

\* The agent starts anew.
LEMMA HostIdle ==
    ASSUME NEW h \in Hosts, HostInv(h), IpsOwn, member'[h] = member[h],
           job'[h] = <<>>, net'[h].addrs \subseteq net[h].addrs
    PROVE  HostInv(h)'
<1>1. DOMAIN job'[h] = {}
  OBVIOUS
<1>2. OwnAddress(h)'
  BY <1>1, ZenonT(60) DEF HostInv, OwnAddress, IpsOwn
<1>. QED  BY <1>1, <1>2, Zenon DEF HostInv, InTurn, Leaving, Emptied

\* Builds of a host whose row stays as it is.
LEMMA IpsStay ==
    ASSUME NEW h \in Hosts, OwnAddress(h), IpsOwn, member'[h] = member[h]
    PROVE  \A t \in Tasks : build'[h][t].ip \in {0, member'[h].ip}
BY Zenon DEF OwnAddress, IpsOwn

\* What is left of a command in hand.
LEMMA LeftParts ==
    ASSUME NEW s \in Seq(JobRecords), NEW k \in DOMAIN s
    PROVE  s[k] \in JobRecords /\ s[k].left \in Parts
<1>1. s[k] \in JobRecords
  OBVIOUS
<1>. QED  BY <1>1, Zenon DEF JobRecords

\* A command changes the network in its turn: it adds its address, and goes on to
\* its tombstone if it has one.
LEMMA HostApplied ==
    ASSUME NEW h \in Hosts, HostType, HostInv(h), IpsOwn, member'[h] = member[h],
           NEW i \in DOMAIN job[h], "clusters" \in job[h][i].left, ~Overtakes(h, i),
           job'[h] = [job[h] EXCEPT ![i] =
               After(@, IF @.cmd.tomb THEN {"tombstones"} ELSE {"advertise"})],
           net'[h].addrs \subseteq net[h].addrs \union ({job[h][i].cmd.ip} \ {0})
    PROVE  HostInv(h)'
<1>. DEFINE s == job[h]
            r == job'[h]
<1>. USE DEF HostInv
<1>1. s \in Seq(JobRecords) /\ DOMAIN s = 1..Len(s) /\ s[i] \in JobRecords
  BY DEF HostType
<1>2. /\ DOMAIN r = DOMAIN s /\ \A k \in DOMAIN s : k # i => r[k] = s[k]
      /\ r[i].cmd = s[i].cmd /\ r[i].old = s[i].old
      /\ r[i].left = IF s[i].cmd.tomb THEN {"tombstones"} ELSE {"advertise"}
  BY <1>1, Zenon DEF After, JobRecords
<1>. HIDE DEF s, r
<1>3. \A k \in DOMAIN s : "clusters" \in s[k].left => "ack" \notin s[k].left
  <2>1. \A k \in DOMAIN s : s[k].left \in Parts
    BY <1>1, LeftParts, Zenon
  <2>. QED  BY <2>1 DEF Parts
<1>4. \A k \in DOMAIN s : k < i => "clusters" \notin s[k].left
  BY <1>1 DEF Overtakes, s
<1>5. s[i].cmd.ip \in {0, member[h].ip}
  BY Zenon DEF OwnAddress, s
<1>6. OwnAddress(h)'
  <2>1. net'[h].addrs \subseteq {member'[h].ip} \ {0}
    BY <1>5, Zenon DEF OwnAddress, s
  <2>2. \A k \in DOMAIN r : "clusters" \in r[k].left => r[k].cmd.ip \in {0, member'[h].ip}
    BY <1>2, <1>5, Zenon DEF OwnAddress, s
  <2>3. \A t \in Tasks : build'[h][t].ip \in {0, member'[h].ip}
    BY IpsStay, Zenon
  <2>. QED  BY <2>1, <2>2, <2>3, Zenon DEF OwnAddress, r
<1>7. InTurn(r)
  <2>1. InTurn(s)
    BY Zenon DEF s
  <2>2. \A k \in DOMAIN r : r[k].left \intersect {"tombstones", "ack"} # {} => r[k].cmd.tomb
    <3>1. r[i].left \intersect {"tombstones", "ack"} # {} => r[i].cmd.tomb
      BY <1>2, Zenon
    <3>. QED  BY <1>2, <2>1, <3>1, Zenon DEF InTurn
  <2>3. ASSUME NEW k \in DOMAIN r, NEW l \in DOMAIN r, k < l
        PROVE  /\ "clusters" \in r[k].left => "clusters" \in r[l].left
               /\ Gives(r[k]) => r[l].cmd.tomb \/ r[l].cmd.ip = 0
    <3>1. /\ "clusters" \in s[k].left => "clusters" \in s[l].left
          /\ Gives(s[k]) => s[l].cmd.tomb \/ s[l].cmd.ip = 0
      BY <1>2, <2>1, <2>3, Zenon DEF InTurn
    <3>2. "clusters" \notin r[i].left
      BY <1>2
    <3>3. "clusters" \in r[k].left => "clusters" \in r[l].left
      BY <1>2, <1>4, <2>3, <3>1, <3>2, Zenon
    <3>. QED  BY <1>2, <3>1, <3>3, Zenon DEF Gives
  <2>. QED  BY <2>2, <2>3, Zenon DEF InTurn
<1>8. Leaving(h)'
  BY <1>2, Zenon DEF Leaving, Gives, s, r
<1>9. ASSUME NEW a \in DOMAIN r, "ack" \in r[a].left, ~r[a].old, member'[h].state = "pending",
             net'[h].addrs # {}
      PROVE  \E k \in DOMAIN r : "tombstones" \in r[k].left /\ r[k].cmd.ip # 0
  <2>1. a # i
    BY <1>2, <1>9
  <2>2. a \in DOMAIN s /\ "ack" \in s[a].left /\ ~s[a].old /\ member[h].state = "pending"
    BY <1>2, <1>9, <2>1, Zenon
  <2>3. CASE net[h].addrs # {}
    <3>1. PICK k \in DOMAIN s : "tombstones" \in s[k].left /\ s[k].cmd.ip # 0
      BY <2>2, <2>3, Zenon DEF Emptied, s
    <3>2. k # i
      <4>1. s[i].left \in Parts /\ "clusters" \in s[i].left
        BY <1>1, Zenon DEF JobRecords, s
      <4>. QED  BY <3>1, <4>1 DEF Parts
    <3>. QED  BY <1>2, <3>1, <3>2, Zenon
  <2>4. CASE net[h].addrs = {}
    <3>1. s[i].cmd.ip # 0
      BY <1>9, <2>4, Zenon DEF s
    <3>2. ~(i < a)
      BY <1>3, <2>2, Zenon DEF InTurn, s
    <3>3. a < i
      BY <1>1, <2>1, <2>2, <3>2 DEF s
    <3>4. Gives(s[a])
      BY <2>2, Zenon DEF InTurn, Gives, s
    <3>5. s[i].cmd.tomb
      BY <2>2, <3>1, <3>3, <3>4, Zenon DEF InTurn, s
    <3>6. "tombstones" \in r[i].left /\ r[i].cmd.ip # 0 /\ i \in DOMAIN r
      BY <1>2, <3>1, <3>5, Zenon DEF s
    <3>. QED  BY <3>6, Zenon
  <2>. QED  BY <2>3, <2>4, Zenon
<1>10. Emptied(h)'
  BY <1>9, Zenon DEF Emptied, r
<1>. QED  BY <1>6, <1>7, <1>8, <1>10, Zenon DEF r

\* A command that does not both set the network up and give it up fails half
\* way: what it added stays.
LEMMA HostFailed ==
    ASSUME NEW h \in Hosts, HostType, HostInv(h), IpsOwn, member'[h] = member[h],
           NEW i \in DOMAIN job[h], "clusters" \in job[h][i].left,
           job[h][i].cmd.ip # 0 => ~job[h][i].cmd.tomb, job'[h] = Without(job[h], i),
           net'[h].addrs \subseteq net[h].addrs \union ({job[h][i].cmd.ip} \ {0})
    PROVE  HostInv(h)'
<1>. DEFINE s == job[h]
            r == job'[h]
<1>. USE DEF HostInv
<1>1. s \in Seq(JobRecords) /\ DOMAIN s = 1..Len(s)
  BY DEF HostType
<1>2. \A k \in DOMAIN s : s[k].left \in Parts
  BY <1>1, LeftParts, Zenon
<1>3. \A k \in DOMAIN s : "clusters" \in s[k].left => s[k].left \intersect {"tombstones", "ack"} = {}
  BY <1>2 DEF Parts
<1>4. InTurn(s)
  BY Zenon
<1>5. InTurn(r) /\ Carried(s, r)
  BY <1>1, <1>3, <1>4, RemovalThins, ThinInTurn, Zenon
<1>6. s[i].cmd.ip \in {0, member[h].ip}
  BY Zenon DEF OwnAddress
<1>. HIDE DEF s, r
<1>7. OwnAddress(h)'
  <2>1. net'[h].addrs \subseteq {member'[h].ip} \ {0}
    BY <1>6, Zenon DEF OwnAddress, s
  <2>2. \A k \in DOMAIN r : "clusters" \in r[k].left => r[k].cmd.ip \in {0, member'[h].ip}
    BY <1>5, Zenon DEF OwnAddress, Carried, s
  <2>3. \A t \in Tasks : build'[h][t].ip \in {0, member'[h].ip}
    BY IpsStay, Zenon
  <2>. QED  BY <2>1, <2>2, <2>3, Zenon DEF OwnAddress, r
<1>8. Leaving(h)'
  BY <1>5, Zenon DEF Leaving, Gives, Carried, s, r
<1>9. ASSUME NEW b \in DOMAIN r, "ack" \in r[b].left, ~r[b].old, member'[h].state = "pending",
             net'[h].addrs # {}
      PROVE  \E k \in DOMAIN r : "tombstones" \in r[k].left /\ r[k].cmd.ip # 0
  <2>1. PICK a \in DOMAIN s : "ack" \in s[a].left /\ ~s[a].old
    BY <1>5, <1>9, Zenon DEF Carried
  <2>2. CASE net[h].addrs # {}
    <3>1. PICK k \in DOMAIN s : "tombstones" \in s[k].left /\ s[k].cmd.ip # 0
      BY <1>9, <2>1, <2>2, Zenon DEF Emptied, s
    <3>2. PICK m \in DOMAIN r : "tombstones" \in r[m].left /\ r[m].cmd = s[k].cmd
      BY <1>5, <3>1, Zenon DEF Carried
    <3>. QED  BY <3>1, <3>2, Zenon
  <2>3. CASE net[h].addrs = {}
    <3>1. s[i].cmd.ip # 0
      BY <1>9, <2>3, Zenon DEF s
    <3>2. ~(i < a)
      BY <1>3, <1>4, <2>1, Zenon DEF InTurn, s
    <3>3. a # i
      BY <1>3, <2>1, Zenon DEF s
    <3>4. a < i
      BY <1>1, <2>1, <3>2, <3>3 DEF s
    <3>5. Gives(s[a])
      BY <1>4, <2>1, Zenon DEF InTurn, Gives
    <3>. QED  BY <1>4, <2>1, <3>1, <3>4, <3>5, Zenon DEF InTurn, s
  <2>. QED  BY <2>2, <2>3, Zenon
<1>10. Emptied(h)'
  BY <1>9, Zenon DEF Emptied, r
<1>. QED  BY <1>5, <1>7, <1>8, <1>10, Zenon DEF r

\* The bridge is deleted.
LEMMA HostTombstoned ==
    ASSUME NEW h \in Hosts, HostType, HostInv(h), IpsOwn, member'[h] = member[h],
           NEW i \in DOMAIN job[h], "tombstones" \in job[h][i].left,
           job'[h] = [job[h] EXCEPT ![i] = After(@, {"ack", "advertise"})],
           net'[h].addrs = {}
    PROVE  HostInv(h)'
<1>. DEFINE s == job[h]
            r == job'[h]
<1>. USE DEF HostInv
<1>1. s \in Seq(JobRecords) /\ s[i] \in JobRecords /\ s[i].left \in Parts
  BY LeftParts, Zenon DEF HostType
<1>2. /\ DOMAIN r = DOMAIN s /\ \A k \in DOMAIN s : k # i => r[k] = s[k]
      /\ r[i].cmd = s[i].cmd /\ r[i].old = s[i].old /\ r[i].left = {"ack", "advertise"}
  BY <1>1, Zenon DEF After, JobRecords
<1>3. "clusters" \notin s[i].left /\ "clusters" \notin r[i].left
  BY <1>1, <1>2, Zenon DEF Parts
<1>4. InTurn(s) /\ s[i].cmd.tomb
  BY Zenon DEF InTurn
<1>. HIDE DEF s, r
<1>5. OwnAddress(h)'
  <2>1. \A k \in DOMAIN r : "clusters" \in r[k].left => r[k].cmd.ip \in {0, member'[h].ip}
    BY <1>2, <1>3, Zenon DEF OwnAddress, s
  <2>2. \A t \in Tasks : build'[h][t].ip \in {0, member'[h].ip}
    BY IpsStay, Zenon
  <2>. QED  BY <2>1, <2>2, Zenon DEF OwnAddress, r
<1>6. InTurn(r)
  <2>1. \A k \in DOMAIN r : r[k].left \intersect {"tombstones", "ack"} # {} => r[k].cmd.tomb
    BY <1>2, <1>4, Zenon DEF InTurn
  <2>2. ASSUME NEW k \in DOMAIN r, NEW l \in DOMAIN r, k < l
        PROVE  /\ "clusters" \in r[k].left => "clusters" \in r[l].left
               /\ Gives(r[k]) => r[l].cmd.tomb \/ r[l].cmd.ip = 0
    <3>1. /\ "clusters" \in s[k].left => "clusters" \in s[l].left
          /\ Gives(s[k]) => s[l].cmd.tomb \/ s[l].cmd.ip = 0
      BY <1>2, <1>4, <2>2, Zenon DEF InTurn
    <3>2. "clusters" \in r[k].left => "clusters" \in r[l].left
      BY <1>2, <1>3, <3>1, Zenon
    <3>. QED  BY <1>2, <3>1, <3>2, Zenon DEF Gives
  <2>. QED  BY <2>1, <2>2, Zenon DEF InTurn
<1>7. Leaving(h)'
  BY <1>2, Zenon DEF Leaving, Gives, s, r
<1>. QED  BY <1>5, <1>6, <1>7, Zenon DEF Emptied, r

\* A command is sent: it asks for the address its build read, and gives the
\* network up if the membership is pending at this moment.
LEMMA HostSent ==
    ASSUME NEW h \in Hosts, HostType, Rows, HostInv(h), IpsOwn, member' = member,
           member \in [Hosts -> Members], NEW t \in Tasks, NEW j \in JobRecords,
           j.left = {"clusters"}, j.old = FALSE, j.cmd.ip = build[h][t].ip,
           j.cmd.tomb = (row /\ member[h].state = "pending"),
           job'[h] = Append(job[h], j), net' = net
    PROVE  HostInv(h)'
<1>. DEFINE s == job[h]
            r == job'[h]
            n == Len(s) + 1
<1>. USE DEF HostInv
<1>1. s \in Seq(JobRecords) /\ Len(s) \in Nat
  BY DEF HostType
<1>2. /\ DOMAIN s = 1..Len(s) /\ DOMAIN r = 1..n /\ r[n] = j
      /\ \A k \in DOMAIN s : r[k] = s[k]
  BY <1>1
<1>3. /\ n \in DOMAIN r /\ DOMAIN s \subseteq DOMAIN r
      /\ \A k \in DOMAIN r : k # n => k \in DOMAIN s /\ ~(n < k)
  BY <1>1, <1>2
<1>4. ~(n < n)
  BY <1>1
<1>. HIDE DEF s, r, n
<1>5. j.cmd.ip \in {0, member[h].ip}
  BY Zenon DEF OwnAddress
<1>6. OwnAddress(h)'
  <2>1. \A k \in DOMAIN r : "clusters" \in r[k].left => r[k].cmd.ip \in {0, member'[h].ip}
    BY <1>2, <1>3, <1>5, Zenon DEF OwnAddress, s
  <2>2. \A u \in Tasks : build'[h][u].ip \in {0, member'[h].ip}
    BY IpsStay, Zenon
  <2>. QED  BY <2>1, <2>2, Zenon DEF OwnAddress, r
<1>7. member[h].state # "active" => j.cmd.tomb \/ j.cmd.ip = 0
  <2>1. CASE member[h].state = "pending"
    BY <2>1, Zenon DEF Rows
  <2>2. CASE member[h].state = "none"
    BY <1>5, <2>2, Zenon DEF Rows
  <2>3. member[h].state \in {"none", "active", "pending"}
    BY Zenon DEF Members
  <2>. QED  BY <2>1, <2>2, <2>3, Zenon
<1>8. InTurn(r)
  <2>1. InTurn(s)
    BY Zenon DEF s
  <2>2. j.left \intersect {"tombstones", "ack"} = {} /\ "clusters" \in j.left
    OBVIOUS
  <2>3. \A k \in DOMAIN r : r[k].left \intersect {"tombstones", "ack"} # {} => r[k].cmd.tomb
    BY <1>2, <1>3, <2>1, <2>2, Zenon DEF InTurn
  <2>4. \A k \in DOMAIN s : Gives(s[k]) => member[h].state # "active"
    BY Zenon DEF Leaving, s
  <2>5. ASSUME NEW k \in DOMAIN r, NEW l \in DOMAIN r, k < l
        PROVE  /\ "clusters" \in r[k].left => "clusters" \in r[l].left
               /\ Gives(r[k]) => r[l].cmd.tomb \/ r[l].cmd.ip = 0
    <3>1. k \in DOMAIN s /\ r[k] = s[k]
      BY <1>2, <1>3, <1>4, <2>5, Zenon
    <3>2. CASE l = n
      BY <1>2, <1>7, <2>2, <2>4, <3>1, <3>2, Zenon
    <3>3. CASE l # n
      <4>1. l \in DOMAIN s /\ r[l] = s[l]
        BY <1>2, <1>3, <3>3, Zenon
      <4>. QED  BY <2>1, <2>5, <3>1, <4>1, Zenon DEF InTurn
    <3>. QED  BY <3>2, <3>3, Zenon
  <2>. QED  BY <2>3, <2>5, Zenon DEF InTurn
<1>9. Leaving(h)'
  <2>1. Gives(j) => member'[h].state # "active"
    BY Zenon DEF Gives
  <2>. QED  BY <1>2, <1>3, <2>1, Zenon DEF Leaving, s, r
<1>10. Emptied(h)'
  <2>1. "ack" \notin j.left
    OBVIOUS
  <2>. QED  BY <1>2, <1>3, <2>1, Zenon DEF Emptied, s, r
<1>. QED  BY <1>6, <1>8, <1>9, <1>10, Zenon DEF r

\* Placing a VM: no tombstone in hand answers for the membership any more.
LEMMA OvertakenGive ==
    ASSUME NEW s \in Seq(JobRecords), NEW r, r = Overtaken(s)
    PROVE  /\ r \in Seq(JobRecords) /\ DOMAIN r = DOMAIN s
           /\ \A k \in DOMAIN s : r[k].cmd = s[k].cmd /\ r[k].left = s[k].left /\ ~Gives(r[k])
<1>1. \A k \in DOMAIN s : s[k] \in JobRecords
  BY LeftParts, Zenon
<1>2. DOMAIN r = DOMAIN s /\ DOMAIN s = 1..Len(s) /\ Len(s) \in Nat
  BY DEF Overtaken
<1>3. ASSUME NEW k \in DOMAIN s
      PROVE  /\ r[k] \in JobRecords /\ r[k].cmd = s[k].cmd /\ r[k].left = s[k].left
             /\ ~Gives(r[k])
  <2>1. s[k] \in JobRecords /\ s[k].cmd.tomb \in BOOLEAN /\ s[k].old \in BOOLEAN
    BY <1>1, Zenon DEF JobRecords, Cmds
  <2>2. r[k] = [s[k] EXCEPT !.old = s[k].old \/ s[k].cmd.tomb]
    BY <1>2, Zenon DEF Overtaken
  <2>. QED  BY <2>1, <2>2, Zenon DEF JobRecords, Gives
<1>4. r = [k \in DOMAIN s |-> r[k]]
  BY Zenon DEF Overtaken
<1>5. r \in [1..Len(s) -> JobRecords]
  BY <1>2, <1>3, <1>4, Zenon
<1>. QED  BY <1>2, <1>3, <1>5

\* A VM is placed: the row is active with the address it had, or with a new
\* one, and no command in hand answers for it.
LEMMA HostPlaced ==
    ASSUME NEW h \in Hosts, HostType, HostInv(h), IpsKept,
           member'[h].state = "active", member[h].ip \in {0, member'[h].ip},
           job'[h] = Overtaken(job[h]), net' = net
    PROVE  HostInv(h)'
<1>. DEFINE s == job[h]
            r == job'[h]
<1>. USE DEF HostInv
<1>1. s \in Seq(JobRecords)
  BY Zenon DEF HostType
<1>2. /\ DOMAIN r = DOMAIN s
      /\ \A k \in DOMAIN s : r[k].cmd = s[k].cmd /\ r[k].left = s[k].left /\ ~Gives(r[k])
  BY <1>1, OvertakenGive, Zenon
<1>. HIDE DEF s, r
<1>5. OwnAddress(h)'
  <2>1. \A k \in DOMAIN r : "clusters" \in r[k].left => r[k].cmd.ip \in {0, member'[h].ip}
    BY <1>2, Zenon DEF OwnAddress, s
  <2>2. \A t \in Tasks : build'[h][t].ip \in {0, member'[h].ip}
    BY Zenon DEF OwnAddress, IpsKept
  <2>3. net[h].addrs \subseteq {member'[h].ip} \ {0}
    BY Zenon DEF OwnAddress
  <2>. QED  BY <2>1, <2>2, <2>3, Zenon DEF OwnAddress, r
<1>6. InTurn(r)
  <2>1. InTurn(s)
    BY Zenon DEF s
  <2>. QED  BY <1>2, <2>1, Zenon DEF InTurn
<1>7. Leaving(h)' /\ Emptied(h)'
  BY <1>2, Zenon DEF Leaving, Emptied, r
<1>. QED  BY <1>5, <1>6, <1>7, Zenon DEF r

\* A VM is deleted: an active row becomes a pending one.
LEMMA HostUnplaced ==
    ASSUME NEW h \in Hosts, HostInv(h), IpsKept, member'[h].ip = member[h].ip,
           \/ member'[h].state = member[h].state
           \/ member[h].state = "active" /\ member'[h].state = "pending",
           job' = job, net' = net
    PROVE  HostInv(h)'
<1>. USE DEF HostInv
<1>1. OwnAddress(h)'
  BY Zenon DEF OwnAddress, IpsKept
<1>2. Leaving(h)'
  BY Zenon DEF Leaving
<1>3. CASE member'[h].state = member[h].state
  BY <1>1, <1>2, <1>3, Zenon DEF Emptied
<1>4. CASE member[h].state = "active"
  <2>1. \A i \in DOMAIN job[h] : ~("ack" \in job[h][i].left /\ ~job[h][i].old)
    BY <1>4, Zenon DEF Leaving, InTurn, Gives
  <2>. QED  BY <1>1, <1>2, <2>1, Zenon DEF Emptied
<1>. QED  BY <1>3, <1>4, Zenon

\* The row goes with an acknowledgement that is not late.
LEMMA HostAcked ==
    ASSUME NEW h \in Hosts, HostInv(h), IpsKept, member[h].state = "pending",
           NEW i \in DOMAIN job[h], "ack" \in job[h][i].left, job[h][i].heard, ~Late(h, i),
           member'[h] = NoMember, Thins(job[h], job'[h]), net' = net
    PROVE  HostInv(h)'
<1>. USE DEF HostInv
<1>1. /\ ~job[h][i].old /\ \A t \in Tasks : build[h][t].ip = 0
      /\ \A k \in DOMAIN job[h] : job[h][k].left \intersect {"clusters", "tombstones"} # {}
                                    => job[h][k].cmd.ip = 0
  BY Zenon DEF Late
<1>2. net[h].addrs = {}
  BY <1>1, Zenon DEF Emptied
<1>3. InTurn(job'[h]) /\ Carried(job[h], job'[h])
  BY ThinInTurn, Zenon
<1>4. NoMember.state = "none" /\ NoMember.ip = 0
  BY Constants, Zenon
<1>5. OwnAddress(h)'
  <2>1. ASSUME NEW k \in DOMAIN job'[h], "clusters" \in job'[h][k].left
        PROVE  job'[h][k].cmd.ip = 0
    <3>1. PICK l \in DOMAIN job[h] : /\ job'[h][k].cmd = job[h][l].cmd
                                     /\ job'[h][k].left \subseteq job[h][l].left
      BY <1>3, Zenon DEF Carried
    <3>2. job[h][l].left \intersect {"clusters", "tombstones"} # {}
      BY <2>1, <3>1, Zenon
    <3>. QED  BY <1>1, <3>1, <3>2, Zenon
  <2>2. \A t \in Tasks : build'[h][t].ip = 0
    BY <1>1, Zenon DEF IpsKept
  <2>. QED  BY <1>2, <2>1, <2>2, Zenon DEF OwnAddress
<1>6. Leaving(h)' /\ Emptied(h)'
  BY <1>4, Zenon DEF Leaving, Emptied
<1>. QED  BY <1>3, <1>5, <1>6, Zenon

-----------------------------------------------------------------------------
(* The steps. *)

Safe == Rows /\ \A h \in Hosts : HostInv(h)

StepOk == Types' /\ (Orderly' => Orderly) /\ (Orderly' /\ Safe => Safe')

\* A fault that happened has happened for good.
LEMMA FaultGrows ==
    ASSUME NEW f, Fault(f)
    PROVE  Orderly' => Orderly /\ f # "late" /\ f # "delete" /\ f # "abort"
BY Zenon DEF Fault, Orderly

\* A step without a fault.
LEMMA NoFaultStays ==
    ASSUME happened' = happened
    PROVE  Orderly' => Orderly
BY Zenon DEF Orderly

\* A step of one host, which the controller's rows have no part in.
LEMMA HostStep ==
    ASSUME Types, Quiet, HostType', NEW h \in Hosts, Orderly' => Orderly,
           \A g \in Hosts : g # h => net'[g].addrs = net[g].addrs /\ job'[g] = job[g],
           Orderly' /\ Safe => HostInv(h)'
    PROVE  StepOk
<1>1. Types'
  BY Zenon DEF Types, Quiet
<1>2. ASSUME Orderly', Safe
      PROVE  Safe'
  <2>1. Rows'
    BY <1>2, Zenon DEF Safe, Rows, Quiet
  <2>2. \A g \in Hosts : g # h => HostInv(g)'
    BY <1>2, HostKept, Zenon DEF Quiet, Safe
  <2>. QED  BY <1>2, <2>1, <2>2, Zenon DEF Safe
<1>. QED  BY <1>1, <1>2, Zenon DEF StepOk

\* A step of the controller that leaves rows and hosts alone.
LEMMA QuietStep ==
    ASSUME Types, Quiet, UNCHANGED <<net, live, job>>, Orderly' => Orderly
    PROVE  StepOk
<1>1. Types'
  BY Zenon DEF Types, Quiet, HostType
<1>2. ASSUME Safe
      PROVE  Safe'
  <2>1. Rows'
    BY <1>2, Zenon DEF Safe, Rows, Quiet
  <2>2. \A g \in Hosts : HostInv(g)'
    BY <1>2, HostKept, Zenon DEF Quiet, Safe
  <2>. QED  BY <2>1, <2>2, Zenon DEF Safe
<1>. QED  BY <1>1, <1>2, Zenon DEF StepOk

\* The agents' steps leave the controller alone.
LEMMA AgentIsQuiet ==
    ASSUME Types, UNCHANGED controllerVars
    PROVE  Quiet
BY NothingIsQuiet, Zenon DEF controllerVars

\* Writing one host's network.
LEMMA NetWrites ==
    ASSUME HostType, NEW h \in Hosts, NEW n \in Nets, net' = [net EXCEPT ![h] = n]
    PROVE  /\ net' \in [Hosts -> Nets] /\ net'[h] = n
           /\ \A g \in Hosts : g # h => net'[g] = net[g]
BY Zenon DEF HostType

\* Writing what one agent remembers.
LEMMA LiveWrites ==
    ASSUME HostType, NEW h \in Hosts, NEW l \in Lives, live' = [live EXCEPT ![h] = l]
    PROVE  live' \in [Hosts -> Lives]
BY Zenon DEF HostType

\* What a failed reconcile leaves is at most what a whole one would.
LEMMA FailedAdds ==
    ASSUME HostType, NEW h \in Hosts, NEW c \in Cmds, ReconcileFails(h, c)
    PROVE  /\ live' \in [Hosts -> Lives]
           /\ \E n \in Nets : /\ net' = [net EXCEPT ![h] = n]
                              /\ n.addrs \subseteq net[h].addrs \union ({c.ip} \ {0})
<1>1. net[h] \in Nets
  BY Zenon DEF HostType
<1>2. PICK u \in Nets : u = [net[h] EXCEPT !.up = TRUE] /\ u.addrs = net[h].addrs
  BY <1>1, NetFields, Zenon
<1>3. c.domain \in Domains \union {"none"}
  BY Zenon DEF Cmds
<1>4. PICK v \in Nets : v = Enslave(u, c.domain) /\ v.addrs = net[h].addrs
  <2>1. Enslave(u, c.domain) \in Nets /\ Enslave(u, c.domain).addrs = u.addrs
    BY <1>3, EnslaveKeeps, Zenon
  <2>. QED  BY <1>2, <2>1, Zenon
<1>5. PICK e \in Nets : /\ e = EnsureCluster(h, net[h], c)
                        /\ e.addrs \subseteq net[h].addrs \union ({c.ip} \ {0})
  BY <1>1, EnsureAdds, Zenon
<1>6. PICK f \in Nets : f = [e EXCEPT !.routed = TRUE] /\ f.addrs = e.addrs
  BY NetFields, Zenon
<1>7. PICK n \in {net[h], u, v, e, f} : net' = [net EXCEPT ![h] = n]
  BY <1>2, <1>4, <1>5, <1>6, Zenon DEF ReconcileFails
<1>8. n \in Nets /\ n.addrs \subseteq net[h].addrs \union ({c.ip} \ {0})
  BY <1>1, <1>2, <1>4, <1>5, <1>6, Zenon
<1>9. live' = [live EXCEPT ![h] = Recovered(h)] \/ live' = [live EXCEPT ![h] = Remembered(h, c)]
  BY Zenon DEF ReconcileFails
<1>10. live' \in [Hosts -> Lives]
  BY <1>9, LiveWrites, RecoveredIsLive, RememberedIsLive, Zenon
<1>. QED  BY <1>7, <1>8, <1>10, Zenon

\* A command in hand and its parts.
LEMMA JobParts ==
    ASSUME HostType, NEW h \in Hosts, NEW i \in DOMAIN job[h]
    PROVE  /\ job[h] \in Seq(JobRecords) /\ job[h][i] \in JobRecords /\ job[h][i].cmd \in Cmds
           /\ job[h][i].left \in Parts /\ job[h][i].cmd.tomb \in BOOLEAN
<1>1. job[h] \in Seq(JobRecords)
  BY Zenon DEF HostType
<1>2. job[h][i] \in JobRecords
  BY <1>1, LeftParts, Zenon
<1>3. job[h][i].cmd \in Cmds /\ job[h][i].left \in Parts
  BY <1>2, Zenon DEF JobRecords
<1>4. job[h][i].cmd.tomb \in BOOLEAN
  BY <1>3, Zenon DEF Cmds
<1>. QED  BY <1>1, <1>2, <1>3, <1>4, Zenon

\* Writing one element of a sequence.
LEMMA SeqSets ==
    ASSUME NEW S, NEW s \in Seq(S), NEW i \in DOMAIN s, NEW x \in S
    PROVE  [s EXCEPT ![i] = x] \in Seq(S)
OBVIOUS

\* Going on with what is left of a command.
LEMMA JobSets ==
    ASSUME HostType, NEW h \in Hosts, NEW i \in DOMAIN job[h], NEW p \in Parts,
           SetJob(h, i, After(job[h][i], p))
    PROVE  /\ job' \in [Hosts -> Seq(JobRecords)]
           /\ job'[h] = [job[h] EXCEPT ![i] = After(@, p)]
           /\ \A g \in Hosts : g # h => job'[g] = job[g]
<1>1. job[h] \in Seq(JobRecords) /\ job[h][i] \in JobRecords
  BY JobParts, Zenon
<1>2. PICK j \in JobRecords : j = After(job[h][i], p)
  BY <1>1, Zenon DEF After, JobRecords
<1>3. PICK s \in Seq(JobRecords) : s = [job[h] EXCEPT ![i] = j]
  BY <1>1, SeqSets, Zenon
<1>4. job' = [job EXCEPT ![h] = s]
  BY <1>2, <1>3, Zenon DEF SetJob, HostType
<1>5. s = [job[h] EXCEPT ![i] = After(@, p)]
  BY <1>1, <1>2, <1>3, Zenon
<1>. QED  BY <1>4, <1>5, JobWrites, Zenon

\* ApplyClusters
LEMMA ApplyStep ==
    ASSUME Types, NEW h \in Hosts, NEW i \in DOMAIN job[h], ApplyClusters(h, i),
           UNCHANGED controllerVars
    PROVE  StepOk
<1>. DEFINE c == job[h][i].cmd
            p == IF c.tomb THEN {"tombstones"} ELSE {"advertise"}
<1>. USE DEF Types
<1>1. Quiet /\ IpsOwn /\ member' = member
  BY AgentIsQuiet, Zenon DEF Quiet
<1>2. c \in Cmds /\ c.tomb \in BOOLEAN /\ p \in Parts /\ "clusters" \in job[h][i].left
  <2>1. "clusters" \in job[h][i].left
    BY Zenon DEF ApplyClusters
  <2>. QED  BY <2>1, JobParts, Zenon DEF Parts
<1>. HIDE DEF p
<1>3. CASE InOrder(h, i) /\ Reconcile(h, c) /\ SetJob(h, i, After(job[h][i], p))
  <2>1. PICK n \in Nets : n = Reconciled(h, c) /\ n.addrs \subseteq net[h].addrs \union ({c.ip} \ {0})
    BY <1>2, ReconciledAdds, Zenon
  <2>2. net' = [net EXCEPT ![h] = n] /\ live' = [live EXCEPT ![h] = Remembered(h, c)]
    BY <1>3, <2>1, Zenon DEF Reconcile
  <2>3. /\ net' \in [Hosts -> Nets] /\ net'[h] = n /\ \A g \in Hosts : g # h => net'[g] = net[g]
        /\ live' \in [Hosts -> Lives]
    BY <1>2, <2>2, NetWrites, LiveWrites, RememberedIsLive, Zenon
  <2>4. /\ job' \in [Hosts -> Seq(JobRecords)]
        /\ job'[h] = [job[h] EXCEPT ![i] = After(@, p)]
        /\ \A g \in Hosts : g # h => job'[g] = job[g]
    BY <1>2, <1>3, JobSets, Zenon
  <2>5. HostType'
    BY <2>3, <2>4, Zenon DEF HostType
  <2>6. Orderly' => Orderly /\ ~Overtakes(h, i)
    BY <1>3, FaultGrows, NoFaultStays, Zenon DEF InOrder, NoFault
  <2>7. job'[h] = [job[h] EXCEPT ![i] = After(@, IF @.cmd.tomb THEN {"tombstones"} ELSE {"advertise"})]
    BY <2>4, Zenon DEF p
  <2>8. ASSUME Orderly', Safe
        PROVE  HostInv(h)'
    BY <1>1, <1>2, <2>1, <2>3, <2>6, <2>7, <2>8, HostApplied, Zenon DEF Safe
  <2>. QED  BY <1>1, <2>3, <2>4, <2>5, <2>6, <2>8, HostStep, Zenon
<1>4. CASE Fault(Aborted(c)) /\ ReconcileFails(h, c) /\ EndJob(h, i)
  <2>1. PICK n \in Nets : /\ net' = [net EXCEPT ![h] = n] /\ live' \in [Hosts -> Lives]
                          /\ n.addrs \subseteq net[h].addrs \union ({c.ip} \ {0})
    BY <1>2, <1>4, FailedAdds, Zenon
  <2>2. net' \in [Hosts -> Nets] /\ net'[h] = n /\ \A g \in Hosts : g # h => net'[g] = net[g]
    BY <2>1, NetWrites, Zenon
  <2>3. "tombstones" \notin job[h][i].left /\ job[h] \in Seq(JobRecords)
    BY <1>2, JobParts DEF Parts
  <2>4. PICK s \in Seq(JobRecords) : s = Without(job[h], i)
    BY <2>3, RemovalThins, Zenon
  <2>5. job' = [job EXCEPT ![h] = s]
    BY <1>4, <2>4, Zenon DEF EndJob, HostType
  <2>6. /\ job' \in [Hosts -> Seq(JobRecords)] /\ job'[h] = Without(job[h], i)
        /\ \A g \in Hosts : g # h => job'[g] = job[g]
    BY <2>4, <2>5, JobWrites, Zenon
  <2>7. HostType'
    BY <2>1, <2>2, <2>6, Zenon DEF HostType
  <2>8. Orderly' => Orderly /\ (c.ip # 0 => ~c.tomb)
    BY <1>4, FaultGrows, Zenon DEF Aborted
  <2>9. ASSUME Orderly', Safe
        PROVE  HostInv(h)'
    BY <1>1, <1>2, <2>1, <2>2, <2>6, <2>8, <2>9, HostFailed, Zenon DEF Safe
  <2>. QED  BY <1>1, <2>2, <2>6, <2>7, <2>8, <2>9, HostStep, Zenon
<1>. QED  BY <1>3, <1>4, Zenon DEF ApplyClusters, p

\* tombstone_cluster leaves no address, unless the kernel keeps the bridge.
LEMMA TombstoneEmpties ==
    ASSUME HostType, NEW h \in Hosts, TombstoneCluster(h) \/ TombstoneFails(h)
    PROVE  /\ net' \in [Hosts -> Nets] /\ live' \in [Hosts -> Lives]
           /\ \A g \in Hosts : g # h => net'[g] = net[g]
           /\ Orderly' => Orderly /\ net'[h].addrs = {} /\ ~TombstoneFails(h)
<1>. DEFINE x == net[h].arp /\ ~live[h].arp
<1>1. net[h] \in Nets /\ live[h] \in Lives
  BY Zenon DEF HostType
<1>2. x \in BOOLEAN
  OBVIOUS
<1>. HIDE DEF x
<1>3. PICK n \in Nets : n = [net[h] EXCEPT !.arp = @ /\ ~live[h].arp]
  BY <1>1, <1>2, NetFields, Zenon DEF x
<1>4. PICK d \in Nets : d = DeleteBridge(n) /\ d.addrs = {}
  <2>1. n.arp \in BOOLEAN
    BY Zenon DEF Nets
  <2>. QED  BY <2>1, Empties, Zenon DEF DeleteBridge
<1>5. PICK k \in Nets : k = [n EXCEPT !.peers = {}]
  BY NetFields, Zenon
<1>6. live' \in [Hosts -> Lives]
  BY LiveWrites, Empties, Zenon DEF TombstoneCluster, TombstoneFails
<1>7. CASE TombstoneCluster(h)
  <2>1. \/ net' = [net EXCEPT ![h] = d] /\ NoFault
        \/ net' = [net EXCEPT ![h] = k] /\ Fault("delete")
    BY <1>3, <1>4, <1>5, <1>7, Zenon DEF TombstoneCluster
  <2>2. /\ net' \in [Hosts -> Nets] /\ \A g \in Hosts : g # h => net'[g] = net[g]
        /\ NoFault => net'[h] = d \/ Fault("delete")
    BY <2>1, NetWrites, Zenon
  <2>3. Orderly' => NoFault /\ ~Fault("delete")
    BY <2>1, FaultGrows, Zenon
  <2>4. NoFault => happened' = happened
    BY Zenon DEF NoFault
  <2>5. TombstoneFails(h) => Fault("delete")
    BY Zenon DEF TombstoneFails
  <2>. QED  BY <1>4, <1>6, <2>2, <2>3, <2>4, <2>5, NoFaultStays, Zenon
<1>8. CASE TombstoneFails(h)
  <2>1. Fault("delete") /\ (net' = net \/ net' = [net EXCEPT ![h] = d])
    BY <1>3, <1>4, <1>8, Zenon DEF TombstoneFails
  <2>2. net' \in [Hosts -> Nets] /\ \A g \in Hosts : g # h => net'[g] = net[g]
    BY <2>1, NetWrites, Zenon DEF HostType
  <2>. QED  BY <1>6, <2>1, <2>2, FaultGrows, Zenon
<1>. QED  BY <1>7, <1>8, Zenon

\* tombstone_cluster, done or failed.
LEMMA TombstoneStep ==
    ASSUME Types, NEW h \in Hosts, NEW i \in DOMAIN job[h], ApplyTombstone(h, i),
           UNCHANGED controllerVars
    PROVE  StepOk
<1>. USE DEF Types
<1>1. Quiet /\ IpsOwn /\ member' = member
  BY AgentIsQuiet, Zenon DEF Quiet
<1>2. PICK p \in Parts : /\ p = {"ack", "advertise"} \/ (p = {"advertise"} /\ TombstoneFails(h))
                         /\ SetJob(h, i, After(job[h][i], p))
                         /\ TombstoneCluster(h) \/ TombstoneFails(h)
  BY Zenon DEF ApplyTombstone, Parts
<1>3. /\ net' \in [Hosts -> Nets] /\ live' \in [Hosts -> Lives]
      /\ \A g \in Hosts : g # h => net'[g] = net[g]
      /\ Orderly' => Orderly /\ net'[h].addrs = {} /\ ~TombstoneFails(h)
  BY <1>2, TombstoneEmpties, Zenon
<1>4. /\ job' \in [Hosts -> Seq(JobRecords)]
      /\ job'[h] = [job[h] EXCEPT ![i] = After(@, p)]
      /\ \A g \in Hosts : g # h => job'[g] = job[g]
  BY <1>2, JobSets, Zenon
<1>5. HostType'
  BY <1>3, <1>4, Zenon DEF HostType
<1>6. ASSUME Orderly', Safe
      PROVE  HostInv(h)'
  <2>1. p = {"ack", "advertise"} /\ net'[h].addrs = {}
    BY <1>2, <1>3, <1>6, Zenon
  <2>2. job'[h] = [job[h] EXCEPT ![i] = After(@, {"ack", "advertise"})]
    BY <1>4, <2>1, Zenon
  <2>3. "tombstones" \in job[h][i].left
    BY Zenon DEF ApplyTombstone
  <2>. QED  BY <1>1, <1>6, <2>1, <2>2, <2>3, HostTombstoned, Zenon DEF Safe
<1>. QED  BY <1>1, <1>3, <1>4, <1>5, <1>6, HostStep, Zenon

\* The prefixes are advertised.
LEMMA AdvertiseStep ==
    ASSUME Types, NEW h \in Hosts, NEW i \in DOMAIN job[h], Advertise(h, i),
           UNCHANGED controllerVars
    PROVE  StepOk
<1>. USE DEF Types
<1>1. Quiet /\ IpsOwn /\ member' = member
  BY AgentIsQuiet, Zenon DEF Quiet
<1>2. UNCHANGED <<net, live>> /\ Finish(h, i, "advertise") /\ (Orderly' => Orderly)
  BY FaultGrows, NoFaultStays, Zenon DEF Advertise, StartSpeaker, UpdateRoutes, NoFault
<1>3. /\ job' \in [Hosts -> Seq(JobRecords)] /\ Thins(job[h], job'[h])
      /\ \A g \in Hosts : g # h => job'[g] = job[g]
  BY <1>2, FinishThins, Zenon
<1>4. HostType'
  BY <1>2, <1>3, Zenon DEF HostType
<1>5. Safe => HostInv(h)'
  BY <1>1, <1>2, <1>3, HostThinned, Zenon DEF Safe
<1>. QED  BY <1>1, <1>2, <1>3, <1>4, <1>5, HostStep, Zenon

\* A tap is attached, and the watcher installs or withdraws a route.
LEMMA RouteSteps ==
    ASSUME Types, NEW h \in Hosts, AttachVm(h) \/ Watcher(h) \/ GobgpdFault(h)
    PROVE  StepOk
<1>. USE DEF Types
<1>1. UNCHANGED controllerVars
  BY Zenon DEF AttachVm, Watcher, GobgpdFault
<1>2. Quiet /\ IpsOwn /\ member' = member
  BY <1>1, AgentIsQuiet, Zenon DEF Quiet
<1>3. job' = job
  BY Zenon DEF AttachVm, Watcher, GobgpdFault, Attach, WatchNext, Subscribe, RestartGobgpd
<1>4. Orderly' => Orderly
  BY FaultGrows, NoFaultStays, Zenon
     DEF AttachVm, Watcher, GobgpdFault, Attach, WatchNext, Learn, Subscribe, RestartGobgpd,
         NoFault
<1>5. net[h] \in Nets /\ live[h] \in Lives
  BY Zenon DEF HostType
<1>6. CASE AttachVm(h)
  <2>1. PICK n \in Nets : n = [net[h] EXCEPT !.up = TRUE, !.peers = {}] /\ n.addrs = net[h].addrs
    BY <1>5, NetFields, Zenon
  <2>2. net' = [net EXCEPT ![h] = n]
    BY <1>6, <2>1, Zenon DEF AttachVm, Attach, HostType
  <2>3. PICK l \in Lives : l = [live[h] EXCEPT !.known = TRUE]
    BY <1>5, Zenon DEF Lives
  <2>4. live' = [live EXCEPT ![h] = l]
    BY <1>6, <2>3, Zenon DEF AttachVm, Attach, HostType
  <2>5. /\ net' \in [Hosts -> Nets] /\ net'[h] = n /\ live' \in [Hosts -> Lives]
        /\ \A g \in Hosts : g # h => net'[g] = net[g]
    BY <2>2, <2>4, NetWrites, LiveWrites, Zenon
  <2>6. HostType'
    BY <1>3, <2>5, Zenon DEF HostType
  <2>7. Safe => HostInv(h)'
    BY <1>2, <1>3, <2>1, <2>5, HostKept, Zenon DEF Safe
  <2>. QED  BY <1>2, <1>3, <1>4, <2>5, <2>6, <2>7, HostStep, Zenon
<1>7. CASE WatchNext(h)
  <2>. PICK w \in Received(watch[h]) : Learn(h, w.batch[Len(w.batch)], w.mixed)
    BY <1>7, Zenon DEF WatchNext
  <2>. DEFINE x == w.batch[Len(w.batch)] = "add"
  <2>1. live' = live /\ (net' = net \/ net' = [net EXCEPT ![h].via = x])
    BY <1>7, Zenon DEF WatchNext, Learn
  <2>2. CASE net' = net
    BY <1>2, <1>3, <1>4, <2>1, <2>2, QuietStep, Zenon
  <2>3. CASE net' = [net EXCEPT ![h].via = x]
    <3>1. x \in BOOLEAN
      OBVIOUS
    <3>. HIDE DEF x
    <3>2. PICK n \in Nets : n = [net[h] EXCEPT !.via = x] /\ n.addrs = net[h].addrs
      BY <1>5, <3>1, NetFields, Zenon
    <3>3. net' = [net EXCEPT ![h] = n]
      BY <2>3, <3>2, Zenon
    <3>4. /\ net' \in [Hosts -> Nets] /\ net'[h] = n
          /\ \A g \in Hosts : g # h => net'[g] = net[g]
      BY <3>3, NetWrites, Zenon
    <3>5. HostType'
      BY <1>3, <2>1, <3>4, Zenon DEF HostType
    <3>6. Safe => HostInv(h)'
      BY <1>2, <1>3, <3>2, <3>4, HostKept, Zenon DEF Safe
    <3>. QED  BY <1>2, <1>3, <1>4, <3>4, <3>5, <3>6, HostStep, Zenon
  <2>. QED  BY <2>1, <2>2, <2>3, Zenon
<1>8. CASE Subscribe(h) \/ GobgpdFault(h)
  <2>1. UNCHANGED <<net, live>>
    BY <1>8, Zenon DEF Subscribe, GobgpdFault, RestartGobgpd
  <2>. QED  BY <1>2, <1>3, <1>4, <2>1, QuietStep, Zenon
<1>. QED  BY <1>6, <1>7, <1>8, Zenon DEF Watcher

\* The stream is lost, the agent starts anew, or the node reboots.
LEMMA FaultSteps ==
    ASSUME Types, NEW h \in Hosts, AgentFault(h)
    PROVE  StepOk
<1>. USE DEF Types
<1>1. UNCHANGED controllerVars
  BY Zenon DEF AgentFault
<1>2. Quiet /\ IpsOwn /\ member' = member
  BY <1>1, AgentIsQuiet, Zenon DEF Quiet
<1>3. <<>> \in Seq(JobRecords)
  OBVIOUS
<1>4. CASE LoseStream(h)
  <2>. DEFINE s == job[h]
              r == [i \in DOMAIN s |-> [s[i] EXCEPT !.heard = FALSE]]
              f == [i \in DOMAIN r |-> i]
  <2>1. s \in Seq(JobRecords) /\ DOMAIN s = 1..Len(s) /\ Len(s) \in Nat
    BY DEF HostType
  <2>2. ASSUME NEW i \in DOMAIN s
        PROVE  /\ r[i] \in JobRecords /\ r[i].cmd = s[i].cmd /\ r[i].left = s[i].left
               /\ r[i].old = s[i].old
    <3>1. s[i] \in JobRecords
      BY <2>1, LeftParts, Zenon
    <3>. QED  BY <3>1, Zenon DEF JobRecords
  <2>3. DOMAIN r = DOMAIN s /\ r = [i \in DOMAIN s |-> r[i]]
    BY Zenon
  <2>4. job' = [job EXCEPT ![h] = r]
    BY <1>4, Zenon DEF LoseStream
  <2>. HIDE DEF s, r
  <2>5. r \in Seq(JobRecords)
    <3>1. r \in [1..Len(s) -> JobRecords]
      BY <2>1, <2>2, <2>3, Zenon
    <3>. QED  BY <2>1, <3>1
  <2>6. f \in [DOMAIN r -> DOMAIN s] /\ \A i \in DOMAIN r : f[i] = i
    BY <2>3, Zenon
  <2>. HIDE DEF f
  <2>7. \A i \in DOMAIN r :
          /\ r[i].cmd = s[f[i]].cmd /\ r[i].old = s[f[i]].old /\ r[i].left = s[f[i]].left
    BY <2>2, <2>3, <2>6, Zenon
  <2>8. /\ \A k, l \in DOMAIN r : k < l => f[k] < f[l]
        /\ \A k \in DOMAIN s : "tombstones" \in s[k].left => \E l \in DOMAIN r : f[l] = k
    BY <2>3, <2>6, Zenon
  <2>9. Thins(s, r)
    BY <2>6, <2>7, <2>8, Zenon DEF Thins
  <2>10. /\ job' \in [Hosts -> Seq(JobRecords)] /\ Thins(job[h], job'[h])
         /\ \A g \in Hosts : g # h => job'[g] = job[g]
    BY <2>4, <2>5, <2>9, JobWrites, Zenon DEF s
  <2>11. UNCHANGED <<net, live>> /\ (Orderly' => Orderly)
    BY <1>4, FaultGrows, Zenon DEF LoseStream
  <2>12. HostType'
    BY <2>10, <2>11, Zenon DEF HostType
  <2>13. Safe => HostInv(h)'
    BY <1>2, <2>10, <2>11, HostThinned, Zenon DEF Safe
  <2>. QED  BY <1>2, <2>10, <2>11, <2>12, <2>13, HostStep, Zenon
<1>5. CASE RestartAgent(h)
  <2>1. net' = net /\ (Orderly' => Orderly)
    BY <1>5, FaultGrows, Zenon DEF RestartAgent
  <2>2. live' \in [Hosts -> Lives]
    BY <1>5, Empties, LiveWrites, Zenon DEF RestartAgent
  <2>3. /\ job' \in [Hosts -> Seq(JobRecords)] /\ job'[h] = <<>>
        /\ \A g \in Hosts : g # h => job'[g] = job[g]
    BY <1>3, <1>5, JobWrites, Zenon DEF RestartAgent
  <2>4. HostType'
    BY <2>1, <2>2, <2>3, Zenon DEF HostType
  <2>5. Safe => HostInv(h)'
    BY <1>2, <2>1, <2>3, HostIdle, Zenon DEF Safe
  <2>. QED  BY <1>2, <2>1, <2>3, <2>4, <2>5, HostStep, Zenon
<1>6. CASE Reboot(h)
  <2>. DEFINE x == h \in placed
  <2>1. x \in BOOLEAN
    OBVIOUS
  <2>2. /\ net' = [net EXCEPT ![h] = [NoNet EXCEPT !.up = x]]
        /\ live' = [live EXCEPT ![h] = [NotLive EXCEPT !.known = x]]
        /\ job' = [job EXCEPT ![h] = <<>>] /\ Fault("reboot")
    BY <1>6, Zenon DEF Reboot
  <2>. HIDE DEF x
  <2>3. PICK n \in Nets : n = [NoNet EXCEPT !.up = x] /\ n.addrs = {}
    BY <2>1, Empties, Zenon
  <2>4. [NotLive EXCEPT !.known = x] \in Lives
    BY <2>1, Empties, Zenon
  <2>5. /\ net' \in [Hosts -> Nets] /\ net'[h] = n /\ live' \in [Hosts -> Lives]
        /\ \A g \in Hosts : g # h => net'[g] = net[g]
    BY <2>2, <2>3, <2>4, NetWrites, LiveWrites, Zenon
  <2>6. /\ job' \in [Hosts -> Seq(JobRecords)] /\ job'[h] = <<>>
        /\ \A g \in Hosts : g # h => job'[g] = job[g]
    BY <1>3, <2>2, JobWrites, Zenon
  <2>7. HostType'
    BY <2>5, <2>6, Zenon DEF HostType
  <2>8. Orderly' => Orderly
    BY <2>2, FaultGrows, Zenon
  <2>9. net'[h].addrs \subseteq net[h].addrs
    BY <2>3, <2>5, Zenon
  <2>10. Safe => HostInv(h)'
    BY <1>2, <2>6, <2>9, HostIdle, Zenon DEF Safe
  <2>. QED  BY <1>2, <2>5, <2>6, <2>7, <2>8, <2>10, HostStep, Zenon
<1>. QED  BY <1>4, <1>5, <1>6, Zenon DEF AgentFault

\* The command of a build.
LEMMA CommandIsCmd ==
    ASSUME RowType, NEW h \in Hosts, NEW b \in Builds
    PROVE  /\ Command(h, b) \in Cmds /\ Command(h, b).ip = b.ip
           /\ Command(h, b).tomb = (row /\ member[h].state = "pending")
<1>. DEFINE ghost == row /\ b.ip = 0 /\ pool = "tree"
            has == b.ip # 0 \/ ghost
            dom == IF ghost THEN domain ELSE b.domain
            own == IF pool = "lan" THEN b.elected ELSE 0
            ps == IF row THEN Active ELSE {}
            tomb == row /\ member[h].state = "pending"
<1>1. /\ b.ip \in BridgeIps \union {0} /\ b.domain \in Domains \union {"none"}
      /\ b.elected \in Hosts \union {0}
  BY Zenon DEF Builds
<1>2. /\ has \in BOOLEAN /\ tomb \in BOOLEAN /\ dom \in Domains \union {"none"}
      /\ own \in Hosts \union {0} /\ ps \in SUBSET Hosts
  BY <1>1, Zenon DEF RowType, Active
<1>3. Command(h, b) = [has |-> has, ip |-> b.ip, domain |-> dom, owner |-> own, peers |-> ps,
                       tomb |-> tomb]
  BY Zenon DEF Command
<1>. HIDE DEF has, dom, own, ps, tomb
<1>4. Command(h, b) \in Cmds /\ Command(h, b).ip = b.ip /\ Command(h, b).tomb = tomb
  BY <1>1, <1>2, <1>3 DEF Cmds
<1>. QED  BY <1>4, Zenon DEF tomb

\* A sequence with one element more.
LEMMA Appends ==
    ASSUME NEW S, NEW s \in Seq(S), NEW x \in S
    PROVE  Append(s, x) \in Seq(S)
OBVIOUS

\* A ReconcileHost with what the build has read joins the commands in hand.
LEMMA SendStep ==
    ASSUME Types, NEW h \in Hosts, NEW t \in Tasks, Send(h, t)
    PROVE  StepOk
<1>. USE DEF Types
<1>1. EndBuild(h, t) /\ UNCHANGED <<row, domain, owner, member>> /\ UNCHANGED <<net, live>>
  BY Zenon DEF Send, Built
<1>2. RowType'
  BY <1>1, Zenon DEF RowType
<1>3. Quiet /\ IpsOwn
  BY <1>1, <1>2, EndBuildKeeps, KeptIsOwn, Zenon DEF Quiet
<1>4. Orderly' => Orderly
  BY FaultGrows, NoFaultStays, Zenon DEF Send, NoFault
<1>5. build[h][t] \in Builds
  BY Zenon DEF BuildType
<1>6. PICK c \in Cmds : /\ c = Command(h, build[h][t]) /\ c.ip = build[h][t].ip
                        /\ c.tomb = (row /\ member[h].state = "pending")
  BY <1>5, CommandIsCmd, Zenon
<1>7. PICK j \in JobRecords : j = [cmd |-> c, left |-> {"clusters"}, heard |-> TRUE, old |-> FALSE]
  BY Zenon DEF JobRecords, Parts
<1>8. j.cmd = c /\ j.left = {"clusters"} /\ j.old = FALSE
  BY <1>7, Zenon
<1>9. job[h] \in Seq(JobRecords)
  BY Zenon DEF HostType
<1>10. PICK s \in Seq(JobRecords) : s = Append(job[h], j)
  BY <1>9, Appends, Zenon
<1>11. job' = [job EXCEPT ![h] = s]
  BY <1>6, <1>7, <1>10, Zenon DEF Send
<1>12. /\ job' \in [Hosts -> Seq(JobRecords)] /\ job'[h] = Append(job[h], j)
       /\ \A g \in Hosts : g # h => job'[g] = job[g]
  BY <1>10, <1>11, JobWrites, Zenon
<1>13. HostType'
  BY <1>1, <1>12, Zenon DEF HostType
<1>14. member \in [Hosts -> Members] /\ member' = member /\ net' = net
  BY <1>1, Zenon DEF RowType
<1>15. ASSUME Safe
       PROVE  HostInv(h)'
  BY <1>3, <1>6, <1>8, <1>12, <1>14, <1>15, HostSent, Zenon DEF Safe
<1>. QED  BY <1>1, <1>3, <1>4, <1>12, <1>13, <1>15, HostStep, Zenon

\* Writing one row.
LEMMA MemberWrites ==
    ASSUME RowType, NEW h \in Hosts, NEW m \in Members, member' = [member EXCEPT ![h] = m]
    PROVE  /\ member' \in [Hosts -> Members] /\ member'[h] = m
           /\ \A g \in Hosts : g # h => member'[g] = member[g]
BY Zenon DEF RowType

\* A step that changes one host's row and commands, and nothing on the hosts.
LEMMA MemberStep ==
    ASSUME Types, RowType', BuildType', HostType', NEW h \in Hosts, Orderly' => Orderly, IpsKept,
           net' = net,
           \A g \in Hosts : g # h => member'[g] = member[g] /\ job'[g] = job[g],
           Orderly' /\ Safe => Rows' /\ HostInv(h)'
    PROVE  StepOk
<1>1. Types'
  BY Zenon DEF Types
<1>2. ASSUME Orderly', Safe
      PROVE  Safe'
  <2>1. \A g \in Hosts : g # h => HostInv(g)'
    BY <1>2, HostKept, KeptIsOwn, Zenon DEF Safe
  <2>. QED  BY <1>2, <2>1, Zenon DEF Safe
<1>. QED  BY <1>1, <1>2, Zenon DEF StepOk

\* Changing the state of a row.
LEMMA MemberRecords ==
    ASSUME NEW m \in Members, NEW l \in {"none", "active", "pending"}
    PROVE  /\ [m EXCEPT !.state = l] \in Members
           /\ [m EXCEPT !.state = l].ip = m.ip /\ [m EXCEPT !.state = l].state = l
BY Zenon DEF Members

\* ensure_host_cluster_active: a row keeps its address, and a new one gets an
\* address no other row has.
LEMMA Activates ==
    ASSUME RowType, NEW h \in Hosts, EnsureActive(h)
    PROVE  /\ member' \in [Hosts -> Members] /\ \A g \in Hosts : g # h => member'[g] = member[g]
           /\ member'[h].state = "active"
           /\ \/ member[h].state # "none" /\ member'[h].ip = member[h].ip
              \/ /\ member[h].state = "none" /\ member'[h].ip # 0
                 /\ \A g \in Hosts : member'[h].ip # member[g].ip
<1>1. member[h] \in Members
  BY Zenon DEF RowType
<1>2. CASE member[h].state # "none" /\ member' = [member EXCEPT ![h].state = "active"]
  <2>1. PICK m \in Members : m = [member[h] EXCEPT !.state = "active"]
                             /\ m.ip = member[h].ip /\ m.state = "active"
    BY <1>1, MemberRecords, Zenon
  <2>2. member' = [member EXCEPT ![h] = m]
    BY <1>2, <2>1, Zenon
  <2>. QED  BY <1>2, <2>1, <2>2, MemberWrites, Zenon
<1>3. CASE /\ member[h].state = "none" /\ FreeIps # {}
           /\ member' = [member EXCEPT ![h] = [state |-> "active", ip |-> Min(FreeIps)]]
  <2>1. FreeIps \in SUBSET Nat /\ FreeIps \subseteq BridgeIps /\ 0 \notin FreeIps
    BY Constants, Zenon DEF FreeIps
  <2>2. PICK a \in FreeIps : a = Min(FreeIps)
    BY <1>3, <2>1, MinIsIn, Zenon
  <2>7. [state |-> "active", ip |-> a] \in Members
    BY <2>1, Zenon DEF Members
  <2>3. PICK m \in Members : m = [state |-> "active", ip |-> a] /\ m.state = "active" /\ m.ip = a
    BY <2>7, Zenon
  <2>4. member' = [member EXCEPT ![h] = m]
    BY <1>3, <2>2, <2>3, Zenon
  <2>5. \A g \in Hosts : a # member[g].ip
    BY Zenon DEF FreeIps
  <2>6. a # 0
    BY <2>1, Zenon
  <2>. QED  BY <1>3, <2>3, <2>4, <2>5, <2>6, MemberWrites, Zenon
<1>. QED  BY <1>2, <1>3, Zenon DEF EnsureActive

\* CreateMachine makes the host's row active, and its commands in hand old.
LEMMA PlaceStep ==
    ASSUME Types, NEW h \in Hosts, PlaceVm(h)
    PROVE  StepOk
<1>. USE DEF Types
<1>1. /\ EnsureActive(h) /\ Push(HostsInCluster \union {h}) /\ row
      /\ UNCHANGED <<row, domain, owner>> /\ UNCHANGED <<net, live, happened>>
  BY Zenon DEF PlaceVm, Place
<1>2. /\ member' \in [Hosts -> Members] /\ \A g \in Hosts : g # h => member'[g] = member[g]
      /\ member'[h].state = "active"
      /\ \/ member[h].state # "none" /\ member'[h].ip = member[h].ip
         \/ /\ member[h].state = "none" /\ member'[h].ip # 0
            /\ \A g \in Hosts : member'[h].ip # member[g].ip
  BY <1>1, Activates, Zenon
<1>3. RowType'
  BY <1>1, <1>2, Zenon DEF RowType
<1>4. BuildType' /\ IpsKept
  BY <1>1, PushKeeps, Zenon
<1>5. job' = [job EXCEPT ![h] = Overtaken(job[h])] /\ job[h] \in Seq(JobRecords)
  BY Zenon DEF PlaceVm, HostType
<1>7. PICK r \in Seq(JobRecords) : r = Overtaken(job[h])
  BY <1>5, OvertakenGive, Zenon
<1>6. /\ job' \in [Hosts -> Seq(JobRecords)] /\ job'[h] = r
      /\ \A g \in Hosts : g # h => job'[g] = job[g]
  BY <1>5, <1>7, JobWrites, Zenon
<1>8. HostType'
  BY <1>1, <1>6, Zenon DEF HostType
<1>9. ASSUME Safe
      PROVE  Rows' /\ HostInv(h)'
  <2>1. Rows
    BY <1>9, Zenon DEF Safe
  <2>2. member[h].ip \in {0, member'[h].ip}
    BY <1>2, <2>1, Zenon DEF Rows
  <2>3. HostInv(h)'
    BY <1>1, <1>2, <1>4, <1>6, <1>7, <1>9, <2>2, HostPlaced, Zenon DEF Safe
  <2>4. member'[h].ip # 0 /\ \A g \in Hosts : g # h => member'[h].ip # member[g].ip
    BY <1>2, <2>1, Zenon DEF Rows
  <2>5. \A g \in Hosts : (member'[g].state = "none") <=> (member'[g].ip = 0)
    BY <1>2, <2>1, <2>4, Zenon DEF Rows
  <2>6. \A g, k \in Hosts : g # k /\ member'[g].ip # 0 => member'[g].ip # member'[k].ip
    BY <1>2, <2>1, <2>4, ZenonT(60) DEF Rows
  <2>7. Rows'
    BY <1>1, <2>5, <2>6, Zenon DEF Rows
  <2>. QED  BY <2>3, <2>7, Zenon
<1>. QED  BY <1>1, <1>2, <1>3, <1>4, <1>6, <1>8, <1>9, NoFaultStays, MemberStep, Zenon

\* DeleteMachine of the host's last VM makes its row pending.
LEMMA DeleteStep ==
    ASSUME Types, NEW h \in Hosts, DeleteVm(h)
    PROVE  StepOk
<1>. USE DEF Types
<1>1. /\ member' = [member EXCEPT ![h].state = IF @ = "active" THEN "pending" ELSE @]
      /\ Push({h}) /\ UNCHANGED <<row, domain, owner>> /\ UNCHANGED <<net, live, job, happened>>
  BY Zenon DEF DeleteVm, Unplace, netVars
<1>2. member[h] \in Members
  BY Zenon DEF RowType
<1>3. PICK m \in Members :
        /\ member' = [member EXCEPT ![h] = m] /\ m.ip = member[h].ip
        /\ \/ m.state = member[h].state
           \/ member[h].state = "active" /\ m.state = "pending"
  <2>. DEFINE l == IF member[h].state = "active" THEN "pending" ELSE member[h].state
  <2>1. l \in {"none", "active", "pending"}
    BY <1>2, Zenon DEF Members
  <2>2. \/ l = member[h].state
        \/ member[h].state = "active" /\ l = "pending"
    OBVIOUS
  <2>3. member' = [member EXCEPT ![h] = [member[h] EXCEPT !.state = l]]
    BY <1>1, Zenon
  <2>. HIDE DEF l
  <2>4. PICK m \in Members : m = [member[h] EXCEPT !.state = l] /\ m.ip = member[h].ip /\ m.state = l
    BY <1>2, <2>1, MemberRecords, ZenonT(60)
  <2>. QED  BY <2>2, <2>3, <2>4, Zenon
<1>4. /\ member' \in [Hosts -> Members] /\ member'[h] = m
      /\ \A g \in Hosts : g # h => member'[g] = member[g]
  BY <1>3, MemberWrites, Zenon
<1>5. RowType'
  BY <1>1, <1>4, Zenon DEF RowType
<1>6. BuildType' /\ IpsKept
  BY <1>1, PushKeeps, Zenon
<1>7. HostType'
  BY <1>1, Zenon DEF HostType
<1>8. ASSUME Safe
      PROVE  Rows' /\ HostInv(h)'
  <2>1. HostInv(h)'
    BY <1>1, <1>3, <1>4, <1>6, <1>8, HostUnplaced, Zenon DEF Safe
  <2>2. \A g \in Hosts : member'[g].ip = member[g].ip
    BY <1>3, <1>4, Zenon
  <2>3. \A g \in Hosts : (member'[g].state = "none") <=> (member[g].state = "none")
    BY <1>3, <1>4, Zenon
  <2>4. Rows'
    BY <1>1, <1>8, <2>2, <2>3 DEF Safe, Rows
  <2>. QED  BY <2>1, <2>4, Zenon
<1>. QED  BY <1>1, <1>4, <1>5, <1>6, <1>7, <1>8, NoFaultStays, MemberStep, Zenon

\* Elections that find the cluster gone end, and read nothing.
LEMMA RefusedKeep ==
    ASSUME BuildType, build' = RefuseElections
    PROVE  BuildType' /\ IpsKept
<1>1. ASSUME NEW h \in Hosts, NEW t \in Tasks
      PROVE  build'[h][t] \in Builds /\ build'[h][t].ip = build[h][t].ip
  <2>1. build[h][t] \in Builds
    BY Zenon DEF BuildType
  <2>2. \A l \in {"refused", "owner"} : /\ [build[h][t] EXCEPT !.pc = l] \in Builds
                                       /\ [build[h][t] EXCEPT !.pc = l].ip = build[h][t].ip
    BY <2>1, BuildMoves, Zenon DEF BuildSteps
  <2>3. build'[h][t] \in {build[h][t], [build[h][t] EXCEPT !.pc = "refused"],
                         [build[h][t] EXCEPT !.pc = "owner"]}
    BY Zenon DEF RefuseElections, Refused
  <2>. QED  BY <2>1, <2>2, <2>3, Zenon
<1>2. build' = [h \in Hosts |-> [t \in Tasks |-> build'[h][t]]]
  BY Zenon DEF RefuseElections
<1>3. BuildType'
  BY <1>1, <1>2, Zenon DEF BuildType
<1>. QED  BY <1>1, <1>3, Zenon DEF IpsKept

\* ack_tombstones: a pending row goes, the others stay, and the cluster goes
\* only without a row left.
LEMMA AckDrops ==
    ASSUME Types, NEW h \in Hosts, AckCluster(h)
    PROVE  /\ RowType' /\ BuildType' /\ IpsKept
           /\ \A g \in Hosts : g # h => member'[g] = member[g]
           /\ \/ member'[h] = member[h]
              \/ member[h].state = "pending" /\ member'[h] = NoMember
           /\ ~row => row' = row /\ member' = member
           /\ ~row' => ~row \/ \A g \in Hosts : member'[g] = NoMember
<1>. USE DEF Types
<1>. DEFINE m == IF member[h].state = "pending" THEN NoMember ELSE member[h]
            left == [member EXCEPT ![h] = m]
            drained == placed = {} /\ \A g \in Hosts : left[g] = NoMember
<1>1. \/ UNCHANGED <<member, row, owner, build>> /\ ~row
      \/ /\ row /\ member' = left /\ row' = ~drained /\ owner' = IF drained THEN 0 ELSE owner
         /\ build' = IF drained THEN RefuseElections ELSE build
  BY Zenon DEF AckCluster
<1>2. domain' = domain
  BY Zenon DEF AckCluster
<1>3. member[h] \in Members /\ m \in Members
  BY Constants, Zenon DEF RowType
<1>4. CASE UNCHANGED <<member, row, owner, build>> /\ ~row
  <2>1. RowType' /\ BuildType'
    BY <1>2, <1>4, Zenon DEF RowType, BuildType
  <2>. QED  BY <1>4, <2>1, Zenon DEF IpsKept
<1>5. CASE /\ row /\ member' = left /\ row' = ~drained /\ owner' = IF drained THEN 0 ELSE owner
           /\ build' = IF drained THEN RefuseElections ELSE build
  <2>1. m = member[h] \/ (member[h].state = "pending" /\ m = NoMember)
    OBVIOUS
  <2>2. drained => \A g \in Hosts : left[g] = NoMember
    OBVIOUS
  <2>3. drained \in BOOLEAN
    OBVIOUS
  <2>. HIDE DEF m, drained
  <2>4. /\ left \in [Hosts -> Members] /\ left[h] = m
        /\ \A g \in Hosts : g # h => left[g] = member[g]
    BY <1>3, Zenon DEF RowType
  <2>. HIDE DEF left
  <2>5. RowType'
    BY <1>2, <1>5, <2>3, <2>4, Zenon DEF RowType
  <2>6. BuildType' /\ IpsKept
    <3>1. CASE drained
      BY <1>5, <3>1, RefusedKeep, Zenon
    <3>2. CASE ~drained
      BY <1>5, <3>2, Zenon DEF IpsKept, BuildType
    <3>. QED  BY <3>1, <3>2, Zenon
  <2>. QED  BY <1>5, <2>1, <2>2, <2>4, <2>5, <2>6, Zenon
<1>. QED  BY <1>1, <1>4, <1>5, Zenon

\* An acknowledgement, heard or not.
LEMMA AckStep ==
    ASSUME Types, NEW h \in Hosts, NEW i \in DOMAIN job[h], Ack(h, i)
    PROVE  StepOk
<1>. USE DEF Types
<1>1. Finish(h, i, "ack") /\ UNCHANGED <<net, live>> /\ "ack" \in job[h][i].left
  BY Zenon DEF Ack, Finish
<1>2. /\ job' \in [Hosts -> Seq(JobRecords)] /\ Thins(job[h], job'[h])
      /\ \A g \in Hosts : g # h => job'[g] = job[g]
  BY <1>1, FinishThins, Zenon
<1>3. HostType'
  BY <1>1, <1>2, Zenon DEF HostType
<1>4. Orderly' => Orderly /\ ~Late(h, i)
  <2>1. CASE Late(h, i)
    BY <2>1, FaultGrows, Zenon DEF Ack
  <2>2. CASE ~Late(h, i)
    BY <2>2, NoFaultStays, Zenon DEF Ack, NoFault
  <2>. QED  BY <2>1, <2>2, Zenon
<1>5. CASE ~job[h][i].heard
  <2>1. UNCHANGED <<row, member, build, owner, domain>>
    BY <1>5, Zenon DEF Ack, controllerVars
  <2>2. RowType' /\ BuildType' /\ IpsKept
    BY <2>1, Zenon DEF RowType, BuildType, IpsKept
  <2>3. ASSUME Safe
        PROVE  Rows' /\ HostInv(h)'
    BY <1>1, <1>2, <2>1, <2>2, <2>3, HostThinned, KeptIsOwn, Zenon DEF Safe, Rows
  <2>. QED  BY <1>1, <1>2, <1>3, <1>4, <2>1, <2>2, <2>3, MemberStep, Zenon
<1>6. CASE job[h][i].heard
  <2>1. AckCluster(h)
    BY <1>6, Zenon DEF Ack
  <2>2. /\ RowType' /\ BuildType' /\ IpsKept
        /\ \A g \in Hosts : g # h => member'[g] = member[g]
        /\ \/ member'[h] = member[h]
           \/ member[h].state = "pending" /\ member'[h] = NoMember
        /\ ~row => row' = row /\ member' = member
        /\ ~row' => ~row \/ \A g \in Hosts : member'[g] = NoMember
    BY <2>1, AckDrops, Zenon
  <2>3. ASSUME Orderly', Safe
        PROVE  Rows' /\ HostInv(h)'
    <3>1. Rows /\ HostInv(h)
      BY <2>3, Zenon DEF Safe
    <3>2. HostInv(h)'
      <4>1. CASE member'[h] = member[h]
        BY <1>1, <1>2, <2>2, <3>1, <4>1, HostThinned, KeptIsOwn, Zenon
      <4>2. CASE member[h].state = "pending" /\ member'[h] = NoMember
        BY <1>1, <1>2, <1>4, <1>6, <2>2, <2>3, <3>1, <4>2, HostAcked, Zenon
      <4>. QED  BY <2>2, <4>1, <4>2, Zenon
    <3>3. NoMember.state = "none" /\ NoMember.ip = 0
      BY Constants, Zenon
    <3>4. \A g \in Hosts : (member'[g].state = "none") <=> (member'[g].ip = 0)
      BY <2>2, <3>1, <3>3, Zenon DEF Rows
    <3>5. \A g \in Hosts : member'[g].ip \in {0, member[g].ip}
      BY <2>2, <3>3, Zenon
    <3>6. \A g, k \in Hosts : g # k /\ member'[g].ip # 0 => member'[g].ip # member'[k].ip
      BY <3>1, <3>5, Zenon DEF Rows
    <3>7. ~row' => \A g \in Hosts : member'[g].state = "none"
      BY <2>2, <3>1, <3>3, Zenon DEF Rows
    <3>. QED  BY <3>2, <3>4, <3>6, <3>7, Zenon DEF Rows
  <2>. QED  BY <1>1, <1>2, <1>3, <1>4, <2>2, <2>3, MemberStep, Zenon
<1>. QED  BY <1>5, <1>6, Zenon

-----------------------------------------------------------------------------
(* The theorem. *)

\* Every step of the controller, of an agent or of a fault keeps the invariant.
LEMMA NextStep ==
    ASSUME Types, [Next]_vars
    PROVE  StepOk
<1>1. CASE UNCHANGED vars
  <2>1. UNCHANGED controllerVars /\ UNCHANGED <<net, live, job, happened>>
    BY <1>1, Zenon DEF vars, netVars
  <2>. QED  BY <2>1, AgentIsQuiet, NoFaultStays, QuietStep, Zenon
<1>2. CASE CallCluster
  BY <1>2, CallClusterQuiet, NoFaultStays, QuietStep, Zenon
<1>3. CASE Service
  <2>1. happened' = happened
    BY <1>3, Zenon DEF Service, netVars
  <2>. QED  BY <1>3, <2>1, OthersQuiet, NoFaultStays, QuietStep, Zenon
<1>4. ASSUME NEW h \in Hosts, PlaceVm(h) \/ DeleteVm(h)
      PROVE  StepOk
  BY <1>4, PlaceStep, DeleteStep, Zenon
<1>5. ASSUME NEW h \in Hosts, NEW t \in Tasks, Tick(h, t) \/ Elect(h, t) \/ Send(h, t)
      PROVE  StepOk
  BY <1>5, TickQuiet, ElectQuiet, SendStep, NoFaultStays, QuietStep, Zenon
<1>6. ASSUME NEW h \in Hosts, NEW i \in DOMAIN job[h], Work(h, i)
      PROVE  StepOk
  BY <1>6, ApplyStep, TombstoneStep, AckStep, AdvertiseStep, Zenon DEF Work
<1>7. ASSUME NEW h \in Hosts, Stale(h) \/ Recover(h)
      PROVE  StepOk
  <2>1. Orderly' => Orderly
    <3>1. CASE Stale(h)
      BY <3>1, FaultGrows, Zenon DEF Stale
    <3>2. CASE Recover(h)
      BY <3>2, NoFaultStays, Zenon DEF Recover, netVars
    <3>. QED  BY <1>7, <3>1, <3>2, Zenon
  <2>. QED  BY <1>7, <2>1, OthersQuiet, QuietStep, Zenon
<1>8. ASSUME NEW h \in Hosts,
             AttachVm(h) \/ Watcher(h) \/ AgentFault(h) \/ GobgpdFault(h)
      PROVE  StepOk
  BY <1>8, RouteSteps, FaultSteps, Zenon
<1>. QED  BY <1>1, <1>2, <1>3, <1>4, <1>5, <1>6, <1>7, <1>8, Zenon DEF Next

\* A new cluster has no rows, no commands and no network on any host.
LEMMA InitHolds == Init => AddressInv
<1>. SUFFICES ASSUME Init
              PROVE  AddressInv
  OBVIOUS
<1>. USE DEF Init, ControllerInit, NetInit
<1>1. RowType
  <2>1. domain \in Domains
    BY Constants, Zenon
  <2>. QED  BY <2>1, Constants, Zenon DEF RowType
<1>2. BuildType
  BY Constants, Zenon DEF BuildType
<1>3. NoNet \in Nets /\ NoNet.addrs = {}
  BY Zenon DEF NoNet, Nets
<1>4. NotLive \in Lives
  BY Zenon DEF NotLive, Lives
<1>5. HostType
  <2>1. <<>> \in Seq(JobRecords)
    OBVIOUS
  <2>. QED  BY <1>3, <1>4, <2>1, Zenon DEF HostType
<1>6. Rows
  BY Constants, Zenon DEF Rows
<1>7. ASSUME NEW h \in Hosts
      PROVE  HostInv(h)
  <2>1. job[h] = <<>> /\ net[h].addrs = {} /\ \A t \in Tasks : build[h][t].ip = 0
    BY <1>3, Constants, Zenon
  <2>2. DOMAIN job[h] = {}
    BY <2>1
  <2>. QED  BY <2>1, <2>2, Zenon DEF HostInv, OwnAddress, InTurn, Leaving, Emptied
<1>. QED  BY <1>1, <1>2, <1>5, <1>6, <1>7, Zenon DEF AddressInv, Types

\* No two hosts hold the same bridge address, through placements, deletes,
\* acknowledgements, lost streams, restarts and reboots, for any number of
\* hosts, addresses, changes and faults but the three of Orderly: what the row
\* of a host names, nothing of another host still uses.
\* (ensure_host_cluster_active, tombstone_cluster, ack_tombstones)
THEOREM AddressesStayDistinct == Spec => []AddressesDistinct
<1>1. AddressInv /\ [Next]_vars => AddressInv'
  BY NextStep, Zenon DEF AddressInv, StepOk, Safe
<1>2. AddressInv => AddressesDistinct
  <2>. SUFFICES ASSUME AddressInv, Orderly, NEW g \in Hosts, NEW h \in Hosts, g # h
                PROVE  net[g].addrs \intersect net[h].addrs = {}
    BY Zenon DEF AddressesDistinct
  <2>1. /\ net[g].addrs \subseteq {member[g].ip} \ {0}
        /\ net[h].addrs \subseteq {member[h].ip} \ {0}
    BY Zenon DEF AddressInv, HostInv, OwnAddress
  <2>2. member[g].ip # 0 => member[g].ip # member[h].ip
    BY Zenon DEF AddressInv, Rows
  <2>. QED  BY <2>1, <2>2, Zenon
<1>. QED  BY <1>1, <1>2, InitHolds, PTL DEF Spec

=============================================================================
