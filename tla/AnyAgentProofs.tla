---------------------------- MODULE AnyAgentProofs ----------------------------
(***************************************************************************)
(* The controller keeps its promises to any number of VMs, hosts and       *)
(* addresses, against the agents of AnyAgent.  None of the promises is     *)
(* inductive on its own, because what a step may release or drop was       *)
(* decided steps, or calls, earlier: Inv carries them together, through    *)
(* the steps of a CreateMachine call, then through cleanups, deletes,      *)
(* streams, reports, restarts and whatever the agents send.                *)
(***************************************************************************)
EXTENDS AnyAgent, TLAPS

-----------------------------------------------------------------------------
\* The types of the variables the argument is about.
RowType ==
    /\ cluster \in BOOLEAN
    /\ state \in [VMs -> VmStates]
    /\ host \in [VMs -> Hosts \cup {NoHost}]
    /\ name \in [VMs -> Names \cup {NoName}]
    /\ ip \in [VMs -> Ips \cup {NoIp}]
    /\ owner \in [Ips -> VMs \cup {NoVm}]
    /\ hc \in [Hosts -> {"none", "active", "pending"}]

CallType ==
    /\ create \in [VMs -> CreateSteps]
    /\ reply \in [VMs -> VMs \cup {NoVm}]
    /\ waiter \in [VMs -> {"none", "waiting", "ok", "failed", "closed"}]
    /\ doomed \subseteq VMs

ReportRecords == [vm : VMs \cup {NoVm}, st : {"none", "running", "failed"},
                  prev : VmStates, step : {"idle", "apply", "outbox"}]

StreamType ==
    /\ entry \in [Hosts -> {"none", "open", "half", "closed"}]
    /\ reading \in [Hosts -> ReportRecords]
    /\ up \in [Hosts -> Seq(Messages)]

\* A report that is about to be applied is one of the two an agent sends.
Reports == \A h \in Hosts : reading[h].step = "apply" => reading[h].st \in {"running", "failed"}

\* Until its insert a call has no row, nobody was told of its VM, and nobody
\* decided on its teardown or is about to.
Fresh ==
    \A v \in VMs : create[v] \in {"idle", "place", "reread"} \cup Placing =>
        /\ state[v] = "none" /\ v \notin doomed /\ reply[v] = NoVm
        /\ dc = "mark" => v \notin dcLeft

\* From the insert on the VM has a host.
Sited ==
    \A v \in VMs :
        v \in Rows \/ create[v] \in {"insert", "activate", "broadcast", "dispatch", "send",
                                     "sent", "wait"}
            => host[v] \in Hosts

\* An address is held from the allocation on, before there is a row.
Held ==
    \A v \in VMs :
        create[v] = "insert" \/ v \in Rows \ doomed => ip[v] \in Ips /\ owner[ip[v]] = v

\* Only a VM whose teardown was decided is torn down or cleaned up.
Decided ==
    \A v \in VMs :
        state[v] = "teardown" \/ create[v] \in {"c_mark", "c_release", "c_hc", "c_push"}
            => v \in doomed

\* Only a VM whose teardown was decided is acknowledged.
Acks ==
    \A h \in Hosts : \A i \in 1..Len(up[h]) :
        up[h][i].type = "tombs" => up[h][i].vms \subseteq doomed

\* The VM a response names has the name that was asked for and has a row until
\* its teardown is decided; no two rows share a name.
Named ==
    /\ \A v \in VMs : reply[v] # NoVm =>
          reply[v] \in Rows \cup doomed /\ name[reply[v]] = name[v]
    /\ \A v, w \in Rows : name[v] = name[w] => v = w

\* A call that sends, or waits for an answer, has a stream.
Streams ==
    \A v \in VMs :
        create[v] \in {"send", "sent"} \/ (create[v] = "wait" /\ waiter[v] = "waiting")
            => entry[host[v]] # "none"

Inv ==
    /\ RowType /\ CallType /\ StreamType
    /\ Reports /\ Fresh /\ Sited /\ Held /\ Decided /\ Acks /\ Named /\ Streams
    /\ ClusterRowLast

-----------------------------------------------------------------------------
USE ControllerAssumption, ChanAssumption
    DEF vmVars, netVars, healthVars, createVars, deleteVars, streamVars, ctlVars, wireVars,
        Rows, Placing, Ended, Unactivated, Abandoned, CreateSteps, VmStates

\* No row appears, and those that go were decided on.
SameRows ==
    Rows' \subseteq Rows /\ Rows \subseteq Rows' \cup doomed' /\ doomed \subseteq doomed'

\* What a step does not write it does not disturb.
LEMMA Undisturbed ==
    /\ RowType /\ UNCHANGED <<vmVars, netVars>> => RowType'
    /\ CallType /\ UNCHANGED <<create, reply, waiter, doomed>> => CallType'
    /\ StreamType /\ UNCHANGED <<entry, reading, up>> => StreamType'
    /\ Reports /\ UNCHANGED reading => Reports'
    /\ Fresh /\ UNCHANGED <<create, doomed, reply, dc, dcLeft>> /\ SameRows => Fresh'
    /\ Sited /\ UNCHANGED <<create, host>> /\ SameRows => Sited'
    /\ Held /\ UNCHANGED <<create, ip, owner>> /\ SameRows => Held'
    /\ Decided /\ UNCHANGED <<state, create, doomed>> => Decided'
    /\ Acks /\ UNCHANGED up /\ doomed \subseteq doomed' => Acks'
    /\ Named /\ UNCHANGED <<reply, name>> /\ SameRows => Named'
    /\ Streams /\ UNCHANGED <<create, waiter, entry, host>> => Streams'
    /\ ClusterRowLast /\ UNCHANGED <<cluster, hc>> /\ SameRows => ClusterRowLast'
<1>. USE DEF SameRows
<1>1. RowType /\ UNCHANGED <<vmVars, netVars>> => RowType'
  BY Zenon DEF RowType
<1>2. /\ CallType /\ UNCHANGED <<create, reply, waiter, doomed>> => CallType'
      /\ StreamType /\ UNCHANGED <<entry, reading, up>> => StreamType'
  BY Zenon DEF CallType, StreamType
<1>3. /\ Reports /\ UNCHANGED reading => Reports'
      /\ Acks /\ UNCHANGED up /\ doomed \subseteq doomed' => Acks'
  BY Zenon DEF Reports, Acks
<1>4. Fresh /\ UNCHANGED <<create, doomed, reply, dc, dcLeft>> /\ SameRows => Fresh'
  BY Zenon DEF Fresh
<1>5. /\ Sited /\ UNCHANGED <<create, host>> /\ SameRows => Sited'
      /\ Decided /\ UNCHANGED <<state, create, doomed>> => Decided'
  BY Zenon DEF Sited, Decided
<1>6. Held /\ UNCHANGED <<create, ip, owner>> /\ SameRows => Held'
  BY Zenon DEF Held
<1>7. Named /\ UNCHANGED <<reply, name>> /\ SameRows => Named'
  BY Zenon DEF Named
<1>8. /\ Streams /\ UNCHANGED <<create, waiter, entry, host>> => Streams'
      /\ ClusterRowLast /\ UNCHANGED <<cluster, hc>> /\ SameRows => ClusterRowLast'
  BY DEF Streams, ClusterRowLast
<1>. QED  BY <1>1, <1>2, <1>3, <1>4, <1>5, <1>6, <1>7, <1>8, Zenon

\* The steps of a call after its insert, and those among them that need a host
\* or clean up.
Past == CreateSteps \ ({"idle", "place", "reread"} \cup Placing)
Sending == {"activate", "broadcast", "dispatch", "send", "sent", "wait"}
Cleaning == {"c_mark", "c_release", "c_hc", "c_push"}

\* A call past its insert goes on: nothing but its own VM is concerned.
LEMMA Moves ==
    ASSUME Inv, NEW v \in VMs, create[v] \in Past, create'[v] \in Past,
           \A w \in VMs \ {v} : create'[w] = create[w] /\ reply'[w] = reply[w],
           create'[v] \in Sending => create[v] \in Sending,
           create'[v] \in Cleaning => v \in doomed',
           doomed' \subseteq doomed \cup {v}, SameRows,
           \A w \in VMs : state'[w] = "teardown" => state[w] = "teardown" \/ w \in doomed',
           UNCHANGED <<host, ip, dc, dcLeft>>
    PROVE  Fresh' /\ Sited' /\ Decided' /\ (UNCHANGED owner => Held')
<1>. USE DEF Inv, Past, SameRows
<1>1. Fresh'
  BY Zenon DEF Fresh
<1>2. Sited'
  BY Zenon DEF Sited, Sending
<1>3. Decided'
  BY Zenon DEF Decided, Cleaning
<1>4. UNCHANGED owner => Held'
  BY ZenonT(60) DEF Held
<1>. QED  BY <1>1, <1>2, <1>3, <1>4, Zenon

\* What is to be shown of every action.
Keeps(A) == Inv /\ A => Inv'

\* broadcast_cluster, mark_command_sent and the last push of cleanup_failed_vm
\* only take the call on.
LEMMA GoesOnInv == \A v \in VMs : Keeps(Broadcast(v) \/ SentMark(v) \/ CleanupPush(v))
<1>. SUFFICES ASSUME NEW v \in VMs, Inv, Broadcast(v) \/ SentMark(v) \/ CleanupPush(v)
             PROVE  Inv'
  BY Zenon DEF Keeps
<1>1. UNCHANGED <<vmVars, netVars, reply, waiter, doomed, dc, dcLeft, entry, reading, up>>
  BY Zenon DEF Broadcast, SentMark, CleanupPush, PushReconcile
<1>2. \/ create[v] = "broadcast" /\ Goto(v, "dispatch")
      \/ create[v] = "sent" /\ Goto(v, "wait")
      \/ create[v] = "c_push" /\ Goto(v, "error")
  BY Zenon DEF Broadcast, SentMark, CleanupPush
<1>3. CallType' /\ \A w \in VMs \ {v} : create'[w] = create[w]
  BY <1>1, <1>2, Zenon DEF Inv, CallType, Goto
<1>4. create[v] \in Past /\ create'[v] \in Past /\ create'[v] \notin Cleaning
      /\ (create'[v] \in Sending => create[v] \in Sending)
  BY <1>2, Zenon DEF Inv, CallType, Goto, Past, Sending, Cleaning
<1>5. SameRows
  BY <1>1, Zenon DEF SameRows
<1>6. Fresh' /\ Sited' /\ Decided' /\ Held'
  BY <1>1, <1>3, <1>4, <1>5, Moves, Zenon
<1>7. Streams'
  BY <1>1, <1>2, <1>3 DEF Inv, CallType, Goto, Streams
<1>. QED  BY <1>1, <1>3, <1>5, <1>6, <1>7, Undisturbed, Zenon DEF Inv

\* create_machine, the lookup by name: the VM it answers with has a row.
LEMMA ReceiveInv == \A v \in VMs, n \in Names : Keeps(Receive(v, n))
<1>. SUFFICES ASSUME NEW v \in VMs, NEW n \in Names, Inv, Receive(v, n)
             PROVE  Inv'
  BY Zenon DEF Keeps
<1>1. UNCHANGED <<state, host, ip, netVars, outbox, healthVars, attempt, waiter,
                  deleteVars, streamVars, faults, doomed, wireVars>>
  BY Zenon DEF Receive
<1>2. RowType'
  BY Zenon DEF Inv, RowType, Receive, Goto
<1>3. CallType'
  BY DEF Inv, CallType, Receive, Goto
<1>4. Fresh'
  BY <1>1 DEF Inv, CallType, Fresh, Receive, Goto
<1>5. Sited'
  BY <1>1 DEF Inv, CallType, Sited, Fresh, Receive, Goto
<1>6. Held'
  BY <1>1 DEF Inv, CallType, Held, Fresh, Decided, Acks, Receive, Goto
<1>7. Decided'
  BY <1>1 DEF Inv, CallType, Decided, Fresh, Receive, Goto
<1>8. Named'
  BY <1>1 DEF Inv, RowType, CallType, Named, Fresh, Decided, Receive, Goto
<1>9. Streams'
  BY <1>1, Zenon DEF Inv, CallType, Streams, Sited, Receive, Goto
<1>. QED  BY <1>1, <1>2, <1>3, <1>4, <1>5, <1>6, <1>7, <1>8, <1>9, Undisturbed, Zenon DEF Inv, SameRows

\* allocate_from_range takes an address nobody holds.
LEMMA AllocateIpInv == \A v \in VMs : Keeps(AllocateIp(v))
<1>. SUFFICES ASSUME NEW v \in VMs, Inv, AllocateIp(v)
             PROVE  Inv'
  BY Zenon DEF Keeps
<1>1. UNCHANGED <<state, name, cluster, hc, outbox, healthVars, attempt, reply, waiter,
                  deleteVars, streamVars, faults, doomed, wireVars>>
  BY Zenon DEF AllocateIp
<1>2. RowType'
  BY DEF Inv, RowType, AllocateIp, Goto, FreeIps
<1>3. CallType'
  BY Zenon DEF Inv, CallType, AllocateIp, Goto, FreeIps
<1>4. Fresh'
  BY <1>1 DEF Inv, CallType, Fresh, AllocateIp, Goto, FreeIps
<1>5. Sited'
  BY <1>1 DEF Inv, RowType, CallType, Sited, Fresh, AllocateIp, Goto, FreeIps
<1>6. Held'
  <2>. USE DEF Inv, AllocateIp, Goto, FreeIps
  <2>1. ASSUME NEW w \in VMs, create'[w] = "insert" \/ w \in Rows' \ doomed', w # v
        PROVE  ip'[w] \in Ips /\ owner'[ip'[w]] = w
    <3>1. ip[w] \in Ips /\ owner[ip[w]] = w /\ ip'[w] = ip[w]
      BY <2>1 DEF RowType, CallType, Held
    <3>2. owner[ip[w]] # NoVm
      BY <3>1, Zenon
    <3>3. CASE UNCHANGED owner
      BY <3>1, <3>3, Zenon
    <3>4. ASSUME NEW a \in FreeIps, owner' = [owner EXCEPT ![a] = v]
          PROVE  owner'[ip[w]] = w
      BY <3>1, <3>2, <3>4, Zenon DEF RowType
    <3>. QED  BY <3>1, <3>3, <3>4, Zenon
  <2>2. create'[v] = "insert" => ip'[v] \in Ips /\ owner'[ip'[v]] = v
    BY DEF RowType, CallType
  <2>3. v \notin Rows'
    BY Zenon DEF Fresh
  <2>. QED  BY <2>1, <2>2, <2>3, Zenon DEF Held
<1>7. Decided'
  BY <1>1 DEF Inv, CallType, Decided, Fresh, AllocateIp, Goto, FreeIps
<1>8. Streams'
  BY <1>1 DEF Inv, RowType, CallType, Streams, Sited, AllocateIp, Goto, FreeIps
<1>. QED  BY <1>1, <1>2, <1>3, <1>4, <1>5, <1>6, <1>7, <1>8, Undisturbed, Zenon DEF Inv, SameRows

\* insert_vm: the row finds its address held and its name free.
LEMMA InsertVmInv == \A v \in VMs : Keeps(InsertVm(v))
<1>. SUFFICES ASSUME NEW v \in VMs, Inv, InsertVm(v)
             PROVE  Inv'
  BY Zenon DEF Keeps
<1>1. UNCHANGED <<host, name, ip, netVars, outbox, healthVars, attempt, reply, waiter,
                  deleteVars, streamVars, doomed, wireVars>>
  BY Zenon DEF InsertVm
<1>2. RowType'
  BY Zenon DEF Inv, RowType, InsertVm, Goto, Fault, NameTaken
<1>3. CallType'
  BY Zenon DEF Inv, CallType, InsertVm, Goto, Fault, NameTaken
<1>4. Fresh'
  BY <1>1 DEF Inv, RowType, CallType, Fresh, InsertVm, Goto, Fault, NameTaken
<1>5. Sited'
  BY <1>1 DEF Inv, RowType, CallType, Sited, Fresh, InsertVm, Goto, Fault, NameTaken
<1>6. Held'
  BY <1>1 DEF Inv, RowType, CallType, Held, Fresh, Decided, Acks, InsertVm, Goto, Fault,
     NameTaken
<1>7. Decided'
  BY <1>1 DEF Inv, RowType, CallType, Decided, Fresh, InsertVm, Goto, Fault, NameTaken
<1>8. Named'
  BY <1>1 DEF Inv, RowType, Named, Fresh, Decided, InsertVm, Goto, Fault, NameTaken
<1>9. Streams'
  BY <1>1, ZenonT(60) DEF Inv, CallType, Streams, Sited, InsertVm, Goto, Fault, NameTaken
<1>10. ClusterRowLast'
  BY <1>1 DEF Inv, RowType, ClusterRowLast, InsertVm, Goto, Fault, NameTaken
<1>. QED  BY <1>1, <1>2, <1>3, <1>4, <1>5, <1>6, <1>7, <1>8, <1>9, <1>10, Undisturbed, Zenon DEF Inv,
   SameRows

\* release_vm_ips after a failed insert: only the caller's address goes.
LEMMA UnplaceInv == \A v \in VMs : Keeps(Unplace(v))
<1>. SUFFICES ASSUME NEW v \in VMs, Inv, Unplace(v)
             PROVE  Inv'
  BY Zenon DEF Keeps
<1>1. UNCHANGED <<vmVars, cluster, hc, outbox, healthVars, reply, waiter, deleteVars,
                  streamVars, doomed, wireVars>>
  BY Zenon DEF Unplace
<1>2. RowType'
  BY Zenon DEF Inv, RowType, Unplace, Goto, Tried, Fault, ReleaseVmIps
<1>3. CallType'
  BY Zenon DEF Inv, CallType, Unplace, Goto, Tried, Fault, ReleaseVmIps
<1>4. Fresh'
  BY <1>1, Zenon DEF Inv, CallType, Fresh, Unplace, Goto, Tried, Fault, ReleaseVmIps
<1>5. Sited'
  BY <1>1, Zenon DEF Inv, CallType, Sited, Fresh, Unplace, Goto, Tried, Fault, ReleaseVmIps
<1>6. Held'
  BY <1>1 DEF Inv, RowType, CallType, Held, Fresh, Decided, Acks, Unplace, Goto, Tried,
     Fault, ReleaseVmIps
<1>7. Decided'
  BY <1>1, Zenon DEF Inv, CallType, Decided, Fresh, Unplace, Goto, Tried, Fault, ReleaseVmIps
<1>8. Streams'
  BY <1>1, Zenon DEF Inv, CallType, Streams, Sited, Unplace, Goto, Tried, Fault, ReleaseVmIps
<1>. QED  BY <1>1, <1>2, <1>3, <1>4, <1>5, <1>6, <1>7, <1>8, Undisturbed, Zenon DEF Inv, SameRows

\* create_machine after a name conflict: the VM it answers with has a row.
LEMMA RereadInv == \A v \in VMs : Keeps(Reread(v))
<1>. SUFFICES ASSUME NEW v \in VMs, Inv, Reread(v)
             PROVE  Inv'
  BY Zenon DEF Keeps
<1>1. UNCHANGED <<vmVars, netVars, outbox, healthVars, attempt, waiter, deleteVars,
                  streamVars, faults, doomed, wireVars>>
  BY Zenon DEF Reread
<1>2. CallType'
  BY DEF Inv, CallType, Reread, Goto
<1>3. Fresh'
  BY <1>1 DEF Inv, CallType, Fresh, Reread, Goto
<1>4. Sited'
  BY <1>1 DEF Inv, CallType, Sited, Fresh, Reread, Goto
<1>5. Held'
  BY <1>1, Zenon DEF Inv, Reread, Goto, CallType, Held
<1>6. Decided'
  BY <1>1 DEF Inv, CallType, Decided, Fresh, Reread, Goto
<1>7. Named'
  BY <1>1 DEF Inv, CallType, Named, Fresh, Decided, Reread, Goto
<1>8. Streams'
  BY <1>1, Zenon DEF Inv, CallType, Streams, Sited, Reread, Goto
<1>. QED  BY <1>1, <1>2, <1>3, <1>4, <1>5, <1>6, <1>7, <1>8, Undisturbed, Zenon DEF Inv, SameRows

\* ensure_host_cluster_active adds a row only while the cluster has its own.
LEMMA ActivateInv == \A v \in VMs : Keeps(Activate(v))
<1>. SUFFICES ASSUME NEW v \in VMs, Inv, Activate(v)
             PROVE  Inv'
  BY Zenon DEF Keeps
<1>1. UNCHANGED <<vmVars, cluster, owner, outbox, healthVars, attempt, reply, waiter,
                  deleteVars, streamVars, wireVars>>
  BY Zenon DEF Activate
<1>2. RowType'
  BY Zenon DEF Inv, RowType, Activate, Goto, GiveUp, Fault, HasBridgeRow
<1>3. CallType'
  BY Zenon DEF Inv, CallType, Activate, Goto, GiveUp, Fault, HasBridgeRow
<1>4. SameRows
  BY <1>1, Zenon DEF Inv, RowType, SameRows, Activate, Goto, GiveUp, Fault, HasBridgeRow
<1>5. Fresh' /\ Sited' /\ Decided' /\ Held'
  BY <1>1, <1>4, Moves, Zenon DEF Inv, CallType, Past, Sending, Cleaning, Activate, Goto, GiveUp,
     Fault, HasBridgeRow
<1>6. Streams'
  BY <1>1, Zenon DEF Inv, CallType, Streams, Sited, Activate, Goto, GiveUp, Fault, HasBridgeRow
<1>7. ClusterRowLast'
  BY <1>1 DEF Inv, RowType, ClusterRowLast, Activate, Goto, GiveUp, Fault, HasBridgeRow
<1>. QED  BY <1>1, <1>2, <1>3, <1>4, <1>5, <1>6, <1>7, Undisturbed, Zenon DEF Inv, SameRows

\* agents.get and the outbox insert: the call goes on only with a stream.
LEMMA DispatchInv == \A v \in VMs : Keeps(Dispatch(v))
<1>. SUFFICES ASSUME NEW v \in VMs, Inv, Dispatch(v)
             PROVE  Inv'
  BY Zenon DEF Keeps
<1>1. UNCHANGED <<vmVars, netVars, healthVars, attempt, reply, deleteVars, streamVars,
                  wireVars>>
  BY Zenon DEF Dispatch
<1>2. CallType'
  BY Zenon DEF Inv, CallType, Dispatch, Goto, GiveUp, Fault
<1>3. SameRows
  BY <1>1, Zenon DEF Inv, RowType, SameRows, Dispatch, Goto, GiveUp, Fault
<1>4. Fresh' /\ Sited' /\ Decided' /\ Held'
  BY <1>1, <1>3, Moves, Zenon DEF Inv, CallType, Past, Sending, Cleaning, Dispatch, Goto, GiveUp,
     Fault
<1>5. Streams'
  BY <1>1, Zenon DEF Inv, CallType, Streams, Sited, Dispatch, Goto, GiveUp, Fault
<1>. QED  BY <1>1, <1>2, <1>3, <1>4, <1>5, Undisturbed, Zenon DEF Inv, SameRows

\* command_tx.send, or giving the VM up.
LEMMA SendInv == \A v \in VMs : Keeps(Send(v))
<1>. SUFFICES ASSUME NEW v \in VMs, Inv, Send(v)
             PROVE  Inv'
  BY Zenon DEF Keeps
<1>1. UNCHANGED <<vmVars, netVars, outbox, healthVars, attempt, reply, deleteVars,
                  streamVars, faults, link, up>>
  BY Zenon DEF Send
<1>2. CallType'
  BY Zenon DEF Inv, CallType, Send, Goto, GiveUp, SendFails
<1>3. SameRows
  BY <1>1, Zenon DEF Inv, RowType, SameRows, Send, Goto, GiveUp, SendFails
<1>4. Fresh' /\ Sited' /\ Decided' /\ Held'
  BY <1>1, <1>3, Moves, Zenon DEF Inv, CallType, Past, Sending, Cleaning, Send, Goto, GiveUp,
     SendFails
<1>5. Streams'
  BY <1>1, Zenon DEF Inv, CallType, Streams, Sited, Send, Goto, GiveUp, SendFails
<1>. QED  BY <1>1, <1>2, <1>3, <1>4, <1>5, Undisturbed, Zenon DEF Inv, SameRows

\* The waiter's result: the VM it answers with has a row.
LEMMA AwaitInv == \A v \in VMs : Keeps(Await(v))
<1>. SUFFICES ASSUME NEW v \in VMs, Inv, Await(v)
             PROVE  Inv'
  BY Zenon DEF Keeps
<1>1. UNCHANGED <<vmVars, netVars, outbox, healthVars, attempt, deleteVars, streamVars,
                  faults, wireVars>>
  BY Zenon DEF Await
<1>2. CallType'
  <2>1. create' \in [VMs -> CreateSteps] /\ doomed' \subseteq VMs
    BY Zenon DEF Inv, CallType, Await, Goto, GiveUp
  <2>2. reply' = reply \/ reply' = [reply EXCEPT ![v] = v]
    BY Zenon DEF Await
  <2>3. reply' \in [VMs -> VMs \cup {NoVm}]
    BY <2>2, Zenon DEF Inv, CallType
  <2>4. waiter' \in [VMs -> {"none", "waiting", "ok", "failed", "closed"}]
    BY Zenon DEF Inv, CallType, Await
  <2>. QED  BY <2>1, <2>3, <2>4, Zenon DEF CallType
<1>3. SameRows
  BY <1>1, Zenon DEF Inv, RowType, SameRows, Await, Goto, GiveUp
<1>4. Fresh' /\ Sited' /\ Decided' /\ Held'
  <2>1. /\ create[v] \in Past /\ create'[v] \in Past /\ create'[v] \notin Sending
        /\ create'[v] \in Cleaning => v \in doomed'
    BY Zenon DEF Inv, CallType, Past, Sending, Cleaning, Await, Goto, GiveUp
  <2>2. /\ \A w \in VMs \ {v} : create'[w] = create[w] /\ reply'[w] = reply[w]
        /\ doomed' \subseteq doomed \cup {v}
    BY Zenon DEF Inv, CallType, Await, Goto, GiveUp
  <2>. QED  BY <1>1, <1>3, <2>1, <2>2, Moves, Zenon
<1>5. Named'
  <2>1. reply' = reply \/ (v \in Rows /\ reply' = [reply EXCEPT ![v] = v])
    BY Zenon DEF Await
  <2>. QED  BY <1>1, <1>3, <2>1 DEF Inv, CallType, Named, SameRows
<1>6. Streams'
  BY <1>1, Zenon DEF Inv, CallType, Streams, Sited, Await, Goto, GiveUp
<1>. QED  BY <1>1, <1>2, <1>3, <1>4, <1>5, <1>6, Undisturbed, Zenon DEF Inv, SameRows

\* CREATE_MACHINE_TIMEOUT.
LEMMA TimeoutInv == \A v \in VMs : Keeps(Timeout(v))
<1>. SUFFICES ASSUME NEW v \in VMs, Inv, Timeout(v)
             PROVE  Inv'
  BY Zenon DEF Keeps
<1>1. UNCHANGED <<vmVars, netVars, outbox, healthVars, attempt, reply, deleteVars,
                  streamVars, faults, doomed, wireVars>>
  BY Zenon DEF Timeout
<1>2. CallType'
  BY Zenon DEF Inv, CallType, Timeout, Goto
<1>3. SameRows
  BY <1>1, Zenon DEF SameRows
<1>4. Fresh' /\ Sited' /\ Decided' /\ Held'
  BY <1>1, <1>3, Moves, ZenonT(60) DEF Inv, CallType, Past, Sending, Cleaning, Timeout, Goto
<1>5. Streams'
  BY <1>1, Zenon DEF Inv, CallType, Streams, Sited, Timeout, Goto
<1>. QED  BY <1>1, <1>2, <1>3, <1>4, <1>5, Undisturbed, Zenon DEF Inv, SameRows

-----------------------------------------------------------------------------
(* Cleanups, deletes, streams and what the agents send. *)

\* Steps that write nothing the invariant is about: outbox, replay, commands,
\* heartbeats and the dials of agents.
LEMMA QuietInv ==
    Keeps(UNCHANGED <<vmVars, netVars, create, reply, waiter, doomed, dc, dcLeft, entry,
                      reading, up>>)
<1>. SUFFICES ASSUME Inv,
                    UNCHANGED <<vmVars, netVars, create, reply, waiter, doomed, dc, dcLeft,
                                entry, reading, up>>
             PROVE  Inv'
  BY Zenon DEF Keeps
<1>1. SameRows
  BY Zenon DEF SameRows
<1>2. RowType' /\ CallType' /\ StreamType' /\ Reports' /\ Acks'
  BY Undisturbed, Zenon DEF Inv
<1>3. Fresh' /\ Sited' /\ Held' /\ Decided'
  BY <1>1, Undisturbed, Zenon DEF Inv
<1>4. Named' /\ Streams' /\ ClusterRowLast'
  BY <1>1, Undisturbed, Zenon DEF Inv
<1>. QED  BY <1>2, <1>3, <1>4, Zenon DEF Inv

\* The quiet steps of deletes, streams, the health checker and the agents.
LEMMA QuietSteps ==
    ASSUME Inv,
           \/ \E v \in VMs : DeleteRead(v) \/ DeletePush(v) \/ CancelDelete(v)
           \/ \E h \in Hosts :
                 \/ Accept(h) \/ ListOutbox(h) \/ (\E v \in VMs : ReplaySend(h, v))
                 \/ ReplayMark(h) \/ ReplayDone(h) \/ Tick(h) \/ Heartbeat(h) \/ GoStale(h)
                 \/ AnyDial(h) \/ AnyGetCommand(h) \/ EndHandshake(h)
           \/ CheckSelect \/ CheckUpdate \/ CheckDone
    PROVE  Inv'
<1>1. CASE \E v \in VMs : DeleteRead(v) \/ DeletePush(v) \/ CancelDelete(v)
  BY <1>1, QuietInv, Zenon DEF DeleteRead, DeletePush, PushReconcile, CancelDelete, Keeps
<1>2. ASSUME NEW h \in Hosts,
             \/ Accept(h) \/ ListOutbox(h) \/ (\E v \in VMs : ReplaySend(h, v))
             \/ ReplayMark(h) \/ ReplayDone(h)
      PROVE  Inv'
  BY <1>2, QuietInv, Zenon DEF Accept, ListOutbox, ReplaySend, ReplayMark, ReplayDone, Keeps
<1>3. ASSUME NEW h \in Hosts, Tick(h) \/ Heartbeat(h) \/ GoStale(h)
      PROVE  Inv'
  BY <1>3, QuietInv, Zenon DEF Tick, Heartbeat, GoStale, Keeps
<1>4. ASSUME NEW h \in Hosts, AnyDial(h) \/ AnyGetCommand(h) \/ EndHandshake(h)
      PROVE  Inv'
  BY <1>4, QuietInv, Zenon DEF AnyDial, AnyGetCommand, EndHandshake, Keeps
<1>5. CASE CheckSelect \/ CheckUpdate \/ CheckDone
  BY <1>5, QuietInv, Zenon DEF CheckSelect, CheckUpdate, CheckDone, Keeps
<1>. QED  BY <1>1, <1>2, <1>3, <1>4, <1>5, Zenon

\* update_vm_state(FAILED) after the timeout brings no row back.
LEMMA TimedOutInv == \A v \in VMs : Keeps(TimedOut(v))
<1>. SUFFICES ASSUME NEW v \in VMs, Inv, TimedOut(v)
             PROVE  Inv'
  BY Zenon DEF Keeps
<1>1. UNCHANGED <<host, name, ip, netVars, outbox, healthVars, attempt, reply, waiter,
                  deleteVars, streamVars, doomed, wireVars>>
  BY Zenon DEF TimedOut
<1>2. RowType'
  BY Zenon DEF Inv, RowType, TimedOut, Goto, Tried, Fault
<1>3. CallType'
  BY Zenon DEF Inv, CallType, TimedOut, Goto, Tried, Fault
<1>4. SameRows
  BY <1>1, Zenon DEF Inv, RowType, SameRows, TimedOut, Goto, Tried, Fault
<1>5. Fresh' /\ Sited' /\ Decided' /\ Held'
  BY <1>1, <1>4, Moves, ZenonT(60) DEF Inv, CallType, Past, Sending, Cleaning, RowType, Decided,
     TimedOut, Goto, Tried, Fault
<1>6. Streams'
  BY <1>1, Zenon DEF Inv, CallType, Streams, Sited, TimedOut, Goto, Tried, Fault
<1>. QED  BY <1>1, <1>2, <1>3, <1>4, <1>5, <1>6, Undisturbed, Zenon DEF Inv, SameRows

\* cleanup_failed_vm: mark_vm_pending_teardown of a VM given up before.
LEMMA CleanupMarkInv == \A v \in VMs : Keeps(CleanupMark(v))
<1>. SUFFICES ASSUME NEW v \in VMs, Inv, CleanupMark(v)
             PROVE  Inv'
  BY Zenon DEF Keeps
<1>1. UNCHANGED <<host, name, ip, netVars, outbox, healthVars, attempt, reply, waiter,
                  deleteVars, streamVars, doomed, wireVars>>
  BY Zenon DEF CleanupMark
<1>2. RowType'
  BY Zenon DEF Inv, RowType, CleanupMark, Goto, Tried, Fault, MarkTeardown
<1>3. CallType'
  BY Zenon DEF Inv, CallType, CleanupMark, Goto, Tried, Fault, MarkTeardown
<1>4. SameRows
  BY <1>1, Zenon DEF Inv, RowType, SameRows, CleanupMark, Goto, Tried, Fault, MarkTeardown
<1>5. Fresh' /\ Sited' /\ Decided' /\ Held'
  BY <1>1, <1>4, Moves, Zenon DEF Inv, CallType, Past, Sending, Cleaning, RowType, Decided,
     CleanupMark, Goto, Tried, Fault, MarkTeardown
<1>6. Streams'
  BY <1>1, Zenon DEF Inv, CallType, Streams, Sited, CleanupMark, Goto, Tried, Fault, MarkTeardown
<1>. QED  BY <1>1, <1>2, <1>3, <1>4, <1>5, <1>6, Undisturbed, Zenon DEF Inv, SameRows

\* cleanup_failed_vm: release_vm_ips of a VM given up before.
LEMMA CleanupReleaseInv == \A v \in VMs : Keeps(CleanupRelease(v))
<1>. SUFFICES ASSUME NEW v \in VMs, Inv, CleanupRelease(v)
             PROVE  Inv'
  BY Zenon DEF Keeps
<1>1. UNCHANGED <<vmVars, cluster, hc, outbox, healthVars, attempt, reply, waiter,
                  deleteVars, streamVars, doomed, wireVars>>
  BY Zenon DEF CleanupRelease
<1>2. RowType'
  BY Zenon DEF Inv, RowType, CleanupRelease, Goto, Tried, Fault, ReleaseVmIps
<1>3. CallType'
  BY Zenon DEF Inv, CallType, CleanupRelease, Goto, Tried, Fault, ReleaseVmIps
<1>4. SameRows
  BY <1>1, Zenon DEF SameRows
<1>5. Fresh' /\ Sited' /\ Decided'
  BY <1>1, <1>4, Moves, Zenon DEF Inv, CallType, Past, Sending, Cleaning, RowType, Decided,
     CleanupRelease, Goto, Tried, Fault, ReleaseVmIps
<1>6. Held'
  <2>. USE DEF Inv, CleanupRelease, Goto, Tried, Fault, ReleaseVmIps
  <2>1. v \in doomed
    BY Zenon DEF Decided
  <2>2. create'[v] # "insert"
    BY Zenon DEF CallType
  <2>3. ASSUME NEW w \in VMs, w # v, create'[w] = "insert" \/ w \in Rows' \ doomed'
        PROVE  ip'[w] \in Ips /\ owner'[ip'[w]] = w
    <3>1. ip[w] \in Ips /\ owner[ip[w]] = w
      BY <2>3, Zenon DEF CallType, Held
    <3>. QED  BY <2>3, <3>1, Zenon
  <2>. QED  BY <2>1, <2>2, <2>3, Zenon DEF Held
<1>7. Streams'
  BY <1>1, Zenon DEF Inv, CallType, Streams, Sited, CleanupRelease, Goto, Tried, Fault,
     ReleaseVmIps
<1>. QED  BY <1>1, <1>2, <1>3, <1>4, <1>5, <1>6, <1>7, Undisturbed, Zenon DEF Inv, SameRows

\* cleanup_failed_vm: mark_host_cluster_pending_teardown.
LEMMA CleanupHostClusterInv == \A v \in VMs : Keeps(CleanupHostCluster(v))
<1>. SUFFICES ASSUME NEW v \in VMs, Inv, CleanupHostCluster(v)
             PROVE  Inv'
  BY Zenon DEF Keeps
<1>1. UNCHANGED <<vmVars, cluster, owner, outbox, healthVars, attempt, reply, waiter,
                  deleteVars, streamVars, doomed, wireVars>>
  BY Zenon DEF CleanupHostCluster
<1>2. RowType'
  BY Zenon DEF Inv, RowType, CleanupHostCluster, Goto, Tried, Fault, MarkHostCluster
<1>3. CallType'
  BY Zenon DEF Inv, CallType, CleanupHostCluster, Goto, Tried, Fault, MarkHostCluster
<1>4. SameRows
  BY <1>1, Zenon DEF SameRows
<1>5. Fresh' /\ Sited' /\ Decided' /\ Held'
  BY <1>1, <1>4, Moves, Zenon DEF Inv, CallType, Past, Sending, Cleaning, RowType, Decided,
     CleanupHostCluster, Goto, Tried, Fault, MarkHostCluster
<1>6. Streams'
  BY <1>1, Zenon DEF Inv, CallType, Streams, Sited, CleanupHostCluster, Goto, Tried, Fault,
     MarkHostCluster
<1>7. ClusterRowLast'
  BY <1>1 DEF Inv, RowType, ClusterRowLast, CleanupHostCluster, Goto, Tried, Fault,
     MarkHostCluster
<1>. QED  BY <1>1, <1>2, <1>3, <1>4, <1>5, <1>6, <1>7, Undisturbed, Zenon DEF Inv, SameRows

\* A dropped create_machine future.
LEMMA CancelCreateInv == \A v \in VMs : Keeps(CancelCreate(v))
<1>. SUFFICES ASSUME NEW v \in VMs, Inv, CancelCreate(v)
             PROVE  Inv'
  BY Zenon DEF Keeps
<1>1. UNCHANGED <<vmVars, netVars, outbox, healthVars, attempt, reply, waiter, deleteVars,
                  streamVars, doomed, wireVars>>
  BY Zenon DEF CancelCreate
<1>2. CallType'
  BY Zenon DEF Inv, CallType, CancelCreate, Goto, Fault
<1>3. Fresh'
  BY <1>1, Zenon DEF Inv, CallType, Fresh, CancelCreate, Goto, Fault
<1>4. Sited'
  BY <1>1, Zenon DEF Inv, CallType, Sited, Fresh, CancelCreate, Goto, Fault
<1>5. Held'
  BY <1>1 DEF Inv, CallType, Held, Fresh, Decided, Acks, CancelCreate, Goto, Fault
<1>6. Decided'
  BY <1>1, Zenon DEF Inv, CallType, Decided, Fresh, CancelCreate, Goto, Fault
<1>7. Streams'
  BY <1>1, Zenon DEF Inv, CallType, Streams, Sited, CancelCreate, Goto, Fault
<1>. QED  BY <1>1, <1>2, <1>3, <1>4, <1>5, <1>6, <1>7, Undisturbed, Zenon DEF Inv, SameRows

\* The reports and acknowledgements of the agents are messages.
LEMMA WireValues ==
    /\ \A v \in VMs, s \in {"running", "failed"} : VmState(v, s) \in Messages
    /\ \A c \in BOOLEAN, V \in SUBSET VMs : TombstoneAck(c, V) \in Messages
    /\ \A m \in Messages :
          /\ m.type \in {"state", "tombs"}
          /\ m.type = "state" => m.vm \in VMs /\ m.st \in {"running", "failed"}
          /\ m.type = "tombs" => m.cluster \in BOOLEAN /\ m.vms \subseteq VMs
<1>1. \A v \in VMs, s \in {"running", "failed"} : VmState(v, s) \in Messages
  BY DEF Messages
<1>2. \A c \in BOOLEAN, V \in SUBSET VMs : TombstoneAck(c, V) \in Messages
  BY DEF Messages, TombstoneAck
<1>3. ASSUME NEW m \in Messages
      PROVE  /\ m.type \in {"state", "tombs"}
             /\ m.type = "state" => m.vm \in VMs /\ m.st \in {"running", "failed"}
             /\ m.type = "tombs" => m.cluster \in BOOLEAN /\ m.vms \subseteq VMs
  BY DEF Messages, VmState
<1>. QED  BY <1>1, <1>2, <1>3, Zenon

\* The head and the tail of a queue.
LEMMA HeadAndTail ==
    ASSUME NEW S, NEW q \in Seq(S), q # <<>>
    PROVE  /\ Head(q) \in S /\ Head(q) = q[1] /\ 1 \in 1..Len(q)
           /\ Tail(q) \in Seq(S)
           /\ \A i \in 1..Len(Tail(q)) : i + 1 \in 1..Len(q) /\ Tail(q)[i] = q[i + 1]
OBVIOUS

\* What a lost session leaves of a queue.
LEMMA PrefixOf ==
    ASSUME NEW S, NEW q \in Seq(S), NEW n \in 0..Len(q)
    PROVE  /\ SubSeq(q, 1, n) \in Seq(S) /\ Len(SubSeq(q, 1, n)) = n
           /\ \A i \in 1..n : i \in 1..Len(q) /\ SubSeq(q, 1, n)[i] = q[i]
OBVIOUS

\* A message that acknowledges only what was decided may be sent.
LEMMA EmitAcks ==
    ASSUME Inv, NEW h \in Hosts, NEW m \in Messages, Emit(h, m), UNCHANGED doomed,
           m.type = "tombs" => m.vms \subseteq doomed
    PROVE  up' \in [Hosts -> Seq(Messages)] /\ Acks'
<1>. USE DEF Inv, StreamType, Emit
<1>1. up' \in [Hosts -> Seq(Messages)]
  OBVIOUS
<1>2. ASSUME NEW g \in Hosts, NEW i \in 1..Len(up'[g]), up'[g][i].type = "tombs"
      PROVE  up'[g][i].vms \subseteq doomed'
  <2>1. CASE g # h \/ i # Len(up[h]) + 1
    <3>1. i \in 1..Len(up[g]) /\ up'[g][i] = up[g][i]
      BY <2>1
    <3>. QED  BY <3>1, <1>2, Zenon DEF Acks
  <2>2. CASE g = h /\ i = Len(up[h]) + 1
    BY <2>2, <1>2
  <2>. QED  BY <2>1, <2>2, Zenon
<1>. QED  BY <1>1, <1>2, Zenon DEF Acks

\* delete_machine: initiate_vm_teardown decides.
LEMMA DeleteMarkInv == \A v \in VMs : Keeps(DeleteMark(v))
<1>. SUFFICES ASSUME NEW v \in VMs, Inv, DeleteMark(v)
             PROVE  Inv'
  BY Zenon DEF Keeps
<1>1. UNCHANGED <<host, name, ip, netVars, outbox, healthVars, createVars, dc, dcLeft,
                  deletes, streamVars, wireVars>>
  BY Zenon DEF DeleteMark
<1>2. RowType'
  BY Zenon DEF Inv, RowType, DeleteMark, Fault, MarkTeardown
<1>3. CallType'
  BY Zenon DEF Inv, CallType, DeleteMark, Fault, MarkTeardown
<1>4. SameRows
  BY <1>1, Zenon DEF Inv, RowType, SameRows, DeleteMark, Fault, MarkTeardown
<1>5. Fresh'
  BY <1>1 DEF Inv, RowType, CallType, Fresh, DeleteMark, Fault, MarkTeardown
<1>6. Decided'
  BY <1>1 DEF Inv, RowType, CallType, Decided, Fresh, DeleteMark, Fault, MarkTeardown
<1>. QED  BY <1>1, <1>2, <1>3, <1>4, <1>5, <1>6, Undisturbed, Zenon DEF Inv, SameRows

\* delete_machine: mark_host_cluster_pending_teardown.
LEMMA DeleteHostClusterInv == \A v \in VMs : Keeps(DeleteHostCluster(v))
<1>. SUFFICES ASSUME NEW v \in VMs, Inv, DeleteHostCluster(v)
             PROVE  Inv'
  BY Zenon DEF Keeps
<1>1. UNCHANGED <<vmVars, cluster, owner, outbox, healthVars, createVars, dc, dcLeft,
                  deletes, streamVars, doomed, wireVars>>
  BY Zenon DEF DeleteHostCluster
<1>2. RowType'
  BY Zenon DEF Inv, RowType, DeleteHostCluster, Fault, MarkHostCluster
<1>3. ClusterRowLast'
  BY <1>1 DEF Inv, RowType, ClusterRowLast, DeleteHostCluster, Fault, MarkHostCluster
<1>. QED  BY <1>1, <1>2, <1>3, Undisturbed, Zenon DEF Inv, SameRows

\* delete_cluster lists VMs that have a row, so none that is yet to be inserted.
LEMMA DcReadInv == Keeps(DcRead)
<1>. SUFFICES ASSUME Inv, DcRead
             PROVE  Inv'
  BY Zenon DEF Keeps
<1>1. UNCHANGED <<vmVars, netVars, outbox, healthVars, createVars, del, deletes,
                  streamVars, faults, doomed, wireVars>>
  BY Zenon DEF DcRead
<1>2. Fresh'
  BY <1>1, Zenon DEF Inv, Fresh, DcRead
<1>. QED  BY <1>1, <1>2, Undisturbed, Zenon DEF Inv, SameRows

\* delete_cluster marks a VM it listed.
LEMMA DcMarkInv == \A v \in VMs : Keeps(DcMark(v))
<1>. SUFFICES ASSUME NEW v \in VMs, Inv, DcMark(v)
             PROVE  Inv'
  BY Zenon DEF Keeps
<1>1. UNCHANGED <<host, name, ip, netVars, outbox, healthVars, createVars, del, dc,
                  deletes, streamVars, wireVars>>
  BY Zenon DEF DcMark
<1>2. RowType'
  BY Zenon DEF Inv, RowType, DcMark, Tried, Fault, MarkTeardown
<1>3. CallType'
  BY Zenon DEF Inv, CallType, DcMark, Tried, Fault, MarkTeardown
<1>4. SameRows
  BY <1>1, Zenon DEF Inv, RowType, SameRows, DcMark, Tried, Fault, MarkTeardown
<1>5. Fresh'
  BY <1>1, Zenon DEF Inv, RowType, CallType, Fresh, DcMark, Tried, Fault, MarkTeardown
<1>6. Decided'
  BY <1>1, Zenon DEF Inv, RowType, CallType, Decided, Fresh, DcMark, Tried, Fault, MarkTeardown
<1>. QED  BY <1>1, <1>2, <1>3, <1>4, <1>5, <1>6, Undisturbed, Zenon DEF Inv, SameRows

\* mark_cluster_pending_teardown_all_hosts adds no host_clusters row.
LEMMA DcHostsInv == Keeps(DcHosts)
<1>. SUFFICES ASSUME Inv, DcHosts
             PROVE  Inv'
  BY Zenon DEF Keeps
<1>1. UNCHANGED <<vmVars, cluster, owner, outbox, healthVars, createVars, del, deletes,
                  streamVars, doomed, wireVars>>
  BY Zenon DEF DcHosts
<1>2. RowType'
  BY Zenon DEF Inv, RowType, DcHosts, Fault
<1>3. Fresh'
  BY <1>1, Zenon DEF Inv, Fresh, DcHosts, Fault
<1>4. ClusterRowLast'
  BY <1>1 DEF Inv, RowType, ClusterRowLast, DcHosts, Fault
<1>. QED  BY <1>1, <1>2, <1>3, <1>4, Undisturbed, Zenon DEF Inv, SameRows

\* delete_cluster: push_reconcile to a host.
LEMMA DcPushInv == \A h \in Hosts : Keeps(DcPush(h))
<1>. SUFFICES ASSUME NEW h \in Hosts, Inv, DcPush(h)
             PROVE  Inv'
  BY Zenon DEF Keeps
<1>1. UNCHANGED <<vmVars, netVars, outbox, healthVars, createVars, del, dc, deletes,
                  streamVars, faults, doomed, link, up>>
  BY Zenon DEF DcPush, PushReconcile
<1>2. Fresh'
  BY <1>1, Zenon DEF Inv, Fresh, DcPush
<1>. QED  BY <1>1, <1>2, Undisturbed, Zenon DEF Inv, SameRows

\* delete_cluster returns.
LEMMA DcDoneInv == Keeps(DcDone)
<1>. SUFFICES ASSUME Inv, DcDone
             PROVE  Inv'
  BY Zenon DEF Keeps
<1>1. UNCHANGED <<vmVars, netVars, outbox, healthVars, createVars, del, dcLeft, deletes,
                  streamVars, faults, doomed, wireVars>>
  BY Zenon DEF DcDone
<1>2. Fresh'
  BY <1>1, Zenon DEF Inv, Fresh, DcDone
<1>. QED  BY <1>1, <1>2, Undisturbed, Zenon DEF Inv, SameRows

\* stream_messages: agents.insert.
LEMMA RegisterInv == \A h \in Hosts : Keeps(Register(h))
<1>. SUFFICES ASSUME NEW h \in Hosts, Inv, Register(h)
             PROVE  Inv'
  BY Zenon DEF Keeps
<1>1. UNCHANGED <<vmVars, netVars, outbox, healthVars, createVars, deleteVars, replay,
                  reading, faults, doomed, wireVars>>
  BY Zenon DEF Register
<1>2. StreamType'
  BY Zenon DEF Inv, StreamType, Register
<1>3. Streams'
  BY <1>1, Zenon DEF Inv, StreamType, Streams, Sited, Register
<1>. QED  BY <1>1, <1>2, <1>3, Undisturbed, Zenon DEF Inv, SameRows

\* A lost session leaves a prefix of the messages and the entry.
LEMMA LinkLostInv == \A h \in Hosts : Keeps(LinkLost(h))
<1>. SUFFICES ASSUME NEW h \in Hosts, Inv, LinkLost(h)
             PROVE  Inv'
  BY Zenon DEF Keeps
<1>1. UNCHANGED <<vmVars, netVars, outbox, healthVars, createVars, deleteVars, late,
                  reading, doomed>>
  BY Zenon DEF LinkLost
<1>2. StreamType'
  <2>. USE DEF Inv, LinkLost, Fault
  <2>1. PICK n \in 0..Len(up[h]) : up' = [up EXCEPT ![h] = SubSeq(@, 1, n)]
    OBVIOUS
  <2>2. SubSeq(up[h], 1, n) \in Seq(Messages)
    BY PrefixOf, Zenon DEF StreamType
  <2>. QED  BY <2>1, <2>2, Zenon DEF StreamType
<1>3. Acks'
  <2>. USE DEF Inv, LinkLost, Fault
  <2>1. PICK n \in 0..Len(up[h]) : up' = [up EXCEPT ![h] = SubSeq(@, 1, n)]
    OBVIOUS
  <2>2. /\ Len(SubSeq(up[h], 1, n)) = n
        /\ \A i \in 1..n : i \in 1..Len(up[h]) /\ SubSeq(up[h], 1, n)[i] = up[h][i]
    BY PrefixOf DEF StreamType
  <2>. QED  BY <2>1, <2>2 DEF StreamType, Acks
<1>4. Streams'
  BY <1>1, Zenon DEF Inv, StreamType, Streams, Sited, LinkLost, Fault
<1>. QED  BY <1>1, <1>2, <1>3, <1>4, Undisturbed, Zenon DEF Inv, SameRows

\* The response stream is dropped.
LEMMA ChannelClosedInv == \A h \in Hosts : Keeps(ChannelClosed(h))
<1>. SUFFICES ASSUME NEW h \in Hosts, Inv, ChannelClosed(h)
             PROVE  Inv'
  BY Zenon DEF Keeps
<1>1. UNCHANGED <<vmVars, netVars, outbox, healthVars, createVars, deleteVars, sess, late,
                  replay, reading, faults, doomed, wireVars>>
  BY Zenon DEF ChannelClosed
<1>2. StreamType'
  BY Zenon DEF Inv, StreamType, ChannelClosed
<1>3. Streams'
  BY <1>1, Zenon DEF Inv, StreamType, Streams, Sited, ChannelClosed
<1>. QED  BY <1>1, <1>2, <1>3, Undisturbed, Zenon DEF Inv, SameRows

\* release_agent_stream cancels whoever waits on the entry it removes.
LEMMA ReleaseInv == \A h \in Hosts : Keeps(Release(h))
<1>. SUFFICES ASSUME NEW h \in Hosts, Inv, Release(h)
             PROVE  Inv'
  BY Zenon DEF Keeps
<1>1. UNCHANGED <<vmVars, netVars, outbox, healthVars, create, attempt, reply, deleteVars,
                  late, replay, reading, faults, doomed, wireVars>>
  BY Zenon DEF Release
<1>2. CallType'
  BY Zenon DEF Inv, CallType, Release, ReleaseEntry
<1>3. StreamType'
  BY Zenon DEF Inv, StreamType, Release, ReleaseEntry
<1>4. Streams'
  BY Zenon DEF Inv, Release, ReleaseEntry, CallType, StreamType, Streams, Sited, GuardHeld
<1>. QED  BY <1>1, <1>2, <1>3, <1>4, Undisturbed, Zenon DEF Inv, SameRows

\* release_agent_stream of an older stream does the same, or nothing.
LEMMA ReleaseLateInv == \A h \in Hosts : Keeps(ReleaseLate(h))
<1>. SUFFICES ASSUME NEW h \in Hosts, Inv, ReleaseLate(h)
             PROVE  Inv'
  BY Zenon DEF Keeps
<1>1. UNCHANGED <<vmVars, netVars, outbox, healthVars, create, attempt, reply, deleteVars,
                  sess, replay, reading, faults, doomed, wireVars>>
  BY Zenon DEF ReleaseLate
<1>2. CallType'
  BY Zenon DEF Inv, CallType, ReleaseLate, ReleaseEntry
<1>3. StreamType'
  <2>1. entry' = entry \/ entry' = [entry EXCEPT ![h] = "none"]
    BY Zenon DEF ReleaseLate, ReleaseEntry
  <2>. QED  BY <1>1, <2>1, Zenon DEF Inv, StreamType
<1>4. Streams'
  BY DEF Inv, ReleaseLate, ReleaseEntry, CallType, StreamType, Streams, Sited, GuardHeld
<1>. QED  BY <1>1, <1>2, <1>3, <1>4, Undisturbed, Zenon DEF Inv, SameRows

\* update_vm_state changes rows that are there, and tears none down.
LEMMA ApplyReportInv == \A h \in Hosts : Keeps(ApplyReport(h))
<1>. SUFFICES ASSUME NEW h \in Hosts, Inv, ApplyReport(h)
             PROVE  Inv'
  BY Zenon DEF Keeps
<1>1. UNCHANGED <<host, name, ip, netVars, outbox, healthVars, create, attempt, reply,
                  deleteVars, entry, sess, late, replay, doomed, wireVars>>
  BY Zenon DEF ApplyReport
<1>2. RowType'
  <2>. USE DEF Inv, ApplyReport, Fault
  <2>1. state' \in [VMs -> VmStates]
    BY Zenon DEF RowType, Reports
  <2>. QED  BY <2>1, Zenon DEF RowType
<1>3. CallType'
  BY Zenon DEF Inv, CallType, ApplyReport, Fault
<1>4. StreamType'
  <2>. USE DEF Inv, ApplyReport, Fault
  <2>1. NoReport \in ReportRecords
    BY Zenon DEF NoReport, ReportRecords
  <2>2. [reading[h] EXCEPT !.step = "outbox"] \in ReportRecords
    BY ZenonT(60) DEF StreamType, ReportRecords
  <2>3. reading' = [reading EXCEPT ![h] = NoReport]
          \/ reading' = [reading EXCEPT ![h] = [reading[h] EXCEPT !.step = "outbox"]]
    BY Zenon DEF StreamType
  <2>. QED  BY <2>1, <2>2, <2>3, Zenon DEF StreamType
<1>5. SameRows
  <2>. USE DEF Inv, ApplyReport, Fault
  <2>1. \A w \in VMs : state'[w] = state[w] \/ (state[w] # "none" /\ state'[w] # "none")
      BY Zenon DEF RowType, Reports
    <2>. QED  BY <2>1, Zenon DEF SameRows
<1>6. Reports'
  <2>. USE DEF Inv, ApplyReport, Fault
  <2>1. reading' = [reading EXCEPT ![h] = NoReport]
          \/ reading' = [reading EXCEPT ![h].step = "outbox"]
    OBVIOUS
  <2>2. CASE reading' = [reading EXCEPT ![h] = NoReport]
    BY <2>2, Zenon DEF StreamType, Reports, NoReport
  <2>3. CASE reading' = [reading EXCEPT ![h].step = "outbox"]
    BY <2>3, Zenon DEF StreamType, ReportRecords, Reports
  <2>. QED  BY <2>1, <2>2, <2>3, Zenon
<1>7. Decided'
  <2>. USE DEF Inv, ApplyReport, Fault
  <2>1. \A w \in VMs : state'[w] = state[w] \/ state'[w] # "teardown"
    BY Zenon DEF RowType, Reports
  <2>. QED  BY <2>1, Zenon DEF Decided
<1>8. Streams'
  BY <1>1, Zenon DEF Inv, CallType, Streams, Sited, ApplyReport, Fault
<1>. QED  BY <1>1, <1>2, <1>3, <1>4, <1>5, <1>6, <1>7, <1>8, Undisturbed, Zenon DEF Inv, SameRows

\* ack_pending_commands_for_vm.
LEMMA AckOutboxInv == \A h \in Hosts : Keeps(AckOutbox(h))
<1>. SUFFICES ASSUME NEW h \in Hosts, Inv, AckOutbox(h)
             PROVE  Inv'
  BY Zenon DEF Keeps
<1>1. UNCHANGED <<vmVars, netVars, healthVars, createVars, deleteVars, entry, sess, late,
                  replay, doomed, wireVars>>
  BY Zenon DEF AckOutbox
<1>2. StreamType'
  BY Zenon DEF Inv, StreamType, AckOutbox, Tried, Fault, NoReport, ReportRecords
<1>3. Reports'
  BY Zenon DEF Inv, AckOutbox, Tried, Fault, StreamType, ReportRecords, Reports, NoReport
<1>. QED  BY <1>1, <1>2, <1>3, Undisturbed, Zenon DEF Inv, SameRows

\* mark_vms_failed_on_host changes rows that are there, and tears none down.
LEMMA CascadeInv == \A h \in Hosts : Keeps(Cascade(h))
<1>. SUFFICES ASSUME NEW h \in Hosts, Inv, Cascade(h)
             PROVE  Inv'
  BY Zenon DEF Keeps
<1>1. UNCHANGED <<host, name, ip, netVars, outbox, healthy, fresh, checker, createVars,
                  deleteVars, streamVars, doomed, wireVars>>
  BY Zenon DEF Cascade
<1>2. RowType'
  <2>. USE DEF Inv, Cascade, Tried, Fault, OnHost
  <2>1. state' \in [VMs -> VmStates]
    BY Zenon DEF RowType
  <2>. QED  BY <2>1, Zenon DEF RowType
<1>3. SameRows
  BY <1>1, Zenon DEF Inv, RowType, SameRows, Cascade, Tried, Fault, OnHost
<1>4. Decided'
  BY <1>1, Zenon DEF Inv, RowType, Decided, Fresh, Cascade, Tried, Fault, OnHost
<1>. QED  BY <1>1, <1>2, <1>3, <1>4, Undisturbed, Zenon DEF Inv, SameRows

\* A restart ends every call, and with it every wait.
LEMMA CrashInv == Keeps(Crash)
<1>. SUFFICES ASSUME Inv, Crash
             PROVE  Inv'
  BY Zenon DEF Keeps
<1>1. UNCHANGED <<vmVars, netVars, outbox, healthy, fresh, attempt, reply, deletes, doomed>>
  BY Zenon DEF Crash
<1>2. CallType'
  BY Zenon DEF Inv, CallType, Crash, Fault
<1>3. StreamType'
  BY DEF Inv, StreamType, Crash, Fault, NoReport, ReportRecords
<1>4. Reports'
  BY <1>1, Zenon DEF Inv, StreamType, Reports, Crash, Fault, NoReport
<1>5. Fresh'
  BY <1>1, Zenon DEF Inv, CallType, Fresh, Crash, Fault
<1>6. Sited'
  BY <1>1, Zenon DEF Inv, CallType, Sited, Fresh, Crash, Fault
<1>7. Held'
  BY <1>1, Zenon DEF Inv, CallType, Held, Fresh, Decided, Acks, Crash, Fault
<1>8. Decided'
  BY <1>1, Zenon DEF Inv, CallType, Decided, Fresh, Crash, Fault
<1>9. Acks'
  BY <1>1 DEF Inv, StreamType, Acks, Crash, Fault
<1>10. Streams'
  BY <1>1, Zenon DEF Inv, CallType, StreamType, Streams, Sited, Crash, Fault
<1>. QED  BY <1>1, <1>2, <1>3, <1>4, <1>5, <1>6, <1>7, <1>8, <1>9, <1>10, Undisturbed, Zenon DEF Inv,
   SameRows

\* An agent reports a VM: reports acknowledge nothing.
LEMMA SendReportInv == \A h \in Hosts, v \in VMs, s \in {"running", "failed"} : 
    Keeps(SendReport(h, v, s))
<1>. SUFFICES ASSUME NEW h \in Hosts, NEW v \in VMs, NEW s \in {"running", "failed"}, Inv,
                    SendReport(h, v, s)
             PROVE  Inv'
  BY Zenon DEF Keeps
<1>1. UNCHANGED <<vmVars, netVars, outbox, healthVars, createVars, deleteVars, streamVars,
                  faults, doomed, link, down>>
  BY Zenon DEF SendReport
<1>2. StreamType'
  BY WireValues, EmitAcks, Zenon DEF Inv, SendReport, Emit, VmState, StreamType
<1>3. Acks'
  BY WireValues, EmitAcks, Zenon DEF Inv, SendReport, Emit, VmState
<1>. QED  BY <1>1, <1>2, <1>3, Undisturbed, Zenon DEF Inv, SameRows

\* An agent acknowledges VMs whose teardown was decided.
LEMMA SendAckInv == \A h \in Hosts, c \in BOOLEAN, V \in SUBSET VMs : 
    Keeps(SendAck(h, c, V))
<1>. SUFFICES ASSUME NEW h \in Hosts, NEW c \in BOOLEAN, NEW V \in SUBSET VMs, Inv,
                    SendAck(h, c, V)
             PROVE  Inv'
  BY Zenon DEF Keeps
<1>1. UNCHANGED <<vmVars, netVars, outbox, healthVars, createVars, deleteVars, streamVars,
                  faults, doomed, link, down>>
  BY Zenon DEF SendAck
<1>2. StreamType'
  BY WireValues, EmitAcks, Zenon DEF Inv, SendAck, Emit, TombstoneAck, StreamType
<1>3. Acks'
  BY WireValues, EmitAcks, Zenon DEF Inv, SendAck, Emit, TombstoneAck
<1>. QED  BY <1>1, <1>2, <1>3, Undisturbed, Zenon DEF Inv, SameRows

-----------------------------------------------------------------------------
(* Reports, acknowledgements and the promises. *)

\* The message the inbound loop takes is one an agent sent.
LEMMA HandleUp ==
    ASSUME Inv, NEW h \in Hosts, Handle(h)
    PROVE  /\ up' \in [Hosts -> Seq(Messages)] /\ Acks'
           /\ Head(up[h]) \in Messages
           /\ Head(up[h]).type = "tombs" => Head(up[h]).vms \subseteq doomed
<1>. USE DEF Inv, StreamType, Handle
<1>1. /\ Head(up[h]) \in Messages /\ Head(up[h]) = up[h][1] /\ 1 \in 1..Len(up[h])
      /\ Tail(up[h]) \in Seq(Messages)
      /\ \A i \in 1..Len(Tail(up[h])) :
            i + 1 \in 1..Len(up[h]) /\ Tail(up[h])[i] = up[h][i + 1]
  BY HeadAndTail
<1>2. up' \in [Hosts -> Seq(Messages)]
  BY <1>1, Zenon
<1>3. Acks'
  BY <1>1 DEF Acks
<1>. QED  BY <1>1, <1>2, <1>3 DEF Acks

\* handle_agent_message, a VmState report: the row is read, nothing is written.
LEMMA HandleReportInv ==
    \A h \in Hosts : Keeps(Handle(h) /\ ReadReport(h, Head(up[h])))
<1>. SUFFICES ASSUME NEW h \in Hosts, Inv, Handle(h), ReadReport(h, Head(up[h]))
             PROVE  Inv'
  BY Zenon DEF Keeps
<1>. DEFINE m == Head(up[h])
<1>. USE DEF Inv, Handle, ReadReport
<1>1. m \in Messages /\ m.vm \in VMs /\ m.st \in {"running", "failed"}
  BY HandleUp, WireValues, Zenon
<1>2. reading' = reading \/ reading' = [reading EXCEPT ![h] =
        [vm |-> m.vm, st |-> m.st, prev |-> state[m.vm], step |-> "apply"]]
  BY Zenon DEF StreamType
<1>3. [vm |-> m.vm, st |-> m.st, prev |-> state[m.vm], step |-> "apply"] \in ReportRecords
  BY <1>1, Zenon DEF RowType, ReportRecords
<1>4. StreamType'
  BY <1>2, <1>3, HandleUp, Zenon DEF StreamType
<1>5. Reports'
  BY <1>1, <1>2, Zenon DEF StreamType, Reports
<1>6. /\ SameRows
      /\ UNCHANGED <<vmVars, netVars, create, reply, waiter, doomed, dc, dcLeft, entry>>
  BY Zenon DEF SameRows
<1>. QED  BY <1>4, <1>5, <1>6, HandleUp, Undisturbed, Zenon

\* ack_tombstones: the rows and addresses it drops are of VMs whose teardown
\* was decided, and the clusters row goes when nothing else is left.
LEMMA HandleAckInv ==
    \A h \in Hosts : Keeps(Handle(h) /\ AckTombstones(h, Head(up[h])))
<1>. SUFFICES ASSUME NEW h \in Hosts, Inv, Handle(h), AckTombstones(h, Head(up[h]))
             PROVE  Inv'
  BY Zenon DEF Keeps
<1>. DEFINE m == Head(up[h])
            gone == {v \in m.vms \cap OnHost(h) : state[v] = "teardown"}
            left == [g \in Hosts |-> IF g = h /\ m.cluster /\ cluster /\ hc[g] = "pending"
                                     THEN "none" ELSE hc[g]]
<1>. USE DEF Inv, Handle, AckTombstones, AckedIps, ReleaseVmIps
<1>1. m.type = "tombs" /\ m.cluster \in BOOLEAN /\ m.vms \subseteq VMs /\ m.vms \subseteq doomed
  BY HandleUp, WireValues, Zenon
<1>2. CASE Fault("db") /\ UNCHANGED <<state, netVars, reading>>
  <2>1. SameRows
    BY <1>2, Zenon DEF SameRows
  <2>2. StreamType'
    BY <1>2, HandleUp, Zenon DEF StreamType
  <2>. QED  BY <1>2, <2>1, <2>2, HandleUp, Undisturbed, Zenon
<1>3. CASE /\ owner' = [a \in Ips |-> IF owner[a] \in m.vms THEN NoVm ELSE owner[a]]
           /\ state' = [v \in VMs |-> IF v \in gone THEN "none" ELSE state[v]]
           /\ hc' = left
           /\ cluster' = (cluster /\ ~(m.cluster /\ Drained(Rows \ gone, left)))
           /\ UNCHANGED <<faults, reading>>
  <2>1. gone \subseteq doomed
    BY <1>1, Zenon
  <2>2. SameRows
    BY <1>3, <2>1, Zenon DEF SameRows
  <2>3. RowType' /\ StreamType'
    <3>1. cluster' \in BOOLEAN
      BY <1>3, Zenon
    <3>2. state' \in [VMs -> VmStates] /\ owner' \in [Ips -> VMs \cup {NoVm}]
      BY <1>3, Zenon DEF RowType
    <3>3. hc' \in [Hosts -> {"none", "active", "pending"}]
      BY <1>3, Zenon DEF RowType
    <3>4. StreamType'
      BY <1>3, HandleUp, Zenon DEF StreamType
    <3>. QED  BY <3>1, <3>2, <3>3, <3>4, Zenon DEF RowType
  <2>4. Held'
    <3>1. ASSUME NEW v \in VMs, create'[v] = "insert" \/ v \in Rows' \ doomed'
          PROVE  ip'[v] \in Ips /\ owner'[ip'[v]] = v
      <4>1. v \notin doomed
        BY <3>1, Zenon DEF Fresh
      <4>2. ip[v] \in Ips /\ owner[ip[v]] = v
        BY <2>2, <3>1, Zenon DEF Held, SameRows
      <4>. QED  BY <1>1, <1>3, <4>1, <4>2, Zenon
    <3>. QED  BY <3>1, Zenon DEF Held
  <2>5. Decided'
    BY <1>3, Zenon DEF Decided
  <2>6. ClusterRowLast'
    <3>1. CASE ~cluster
      BY <1>3, <2>2, <3>1, Zenon DEF ClusterRowLast, SameRows
    <3>2. CASE cluster /\ ~cluster'
      <4>1. Rows \ gone = {} /\ \A g \in Hosts : left[g] = "none"
        BY <1>1, <1>3, <3>2, Zenon DEF Drained
      <4>2. Rows' = Rows \ gone
        BY <1>3, Zenon
      <4>. QED  BY <1>3, <4>1, <4>2, Zenon DEF ClusterRowLast
    <3>3. CASE cluster'
      BY <3>3, Zenon DEF ClusterRowLast
    <3>. QED  BY <3>1, <3>2, <3>3, Zenon
  <2>. QED  BY <1>3, <2>2, <2>3, <2>4, <2>5, <2>6, HandleUp, Undisturbed, Zenon
<1>. QED  BY <1>2, <1>3, Zenon

\* The invariant holds at the start, also when the cluster is leaving hosts.
LEMMA InitInv == ASSUME NEW L, AnyInit(L) PROVE Inv
<1>. USE DEF AnyInit, WireInit, CtlInit
<1>1. RowType
  BY Zenon DEF RowType
<1>2. CallType
  BY Zenon DEF CallType
<1>3. StreamType
  BY DEF StreamType, NoReport, ReportRecords
<1>4. Reports /\ Acks
  BY DEF Reports, NoReport, Acks
<1>5. Fresh /\ Sited /\ Decided
  BY Zenon DEF Fresh, Sited, Decided
<1>6. Held /\ Named /\ Streams /\ ClusterRowLast
  BY Zenon DEF Held, Named, Streams, ClusterRowLast
<1>. QED  BY <1>1, <1>2, <1>3, <1>4, <1>5, <1>6, Zenon DEF Inv

-----------------------------------------------------------------------------
\* The steps of the calls.
LEMMA CallsInv ==
    ASSUME Inv, NEW v \in VMs,
           \/ \E n \in Names : Receive(v, n)
           \/ CreateStep(v) \/ CancelCreate(v)
           \/ DeleteRead(v) \/ DeleteStep(v) \/ CancelDelete(v)
    PROVE  Inv'
<1>1. CASE CreateStep(v)
  BY <1>1, AllocateIpInv, InsertVmInv, UnplaceInv, RereadInv, ActivateInv, GoesOnInv,
     DispatchInv, SendInv, AwaitInv, TimeoutInv, TimedOutInv, CleanupMarkInv,
     CleanupReleaseInv, CleanupHostClusterInv, Zenon
     DEF CreateStep, Keeps
<1>2. CASE DeleteStep(v)
  BY <1>2, DeleteMarkInv, DeleteHostClusterInv, QuietSteps, Zenon DEF DeleteStep, Keeps
<1>. QED  BY <1>1, <1>2, ReceiveInv, CancelCreateInv, QuietSteps, Zenon DEF Keeps

\* The steps of a host's streams and messages.
LEMMA HostInv ==
    ASSUME Inv, NEW h \in Hosts,
           \/ StreamStep(h) \/ InboundStep(h) \/ Tick(h)
           \/ Heartbeat(h) \/ GoStale(h) \/ LinkLost(h) \/ AgentStep(h)
    PROVE  Inv'
<1>1. CASE StreamStep(h)
  BY <1>1, QuietSteps, RegisterInv, ChannelClosedInv, ReleaseInv, ReleaseLateInv, Zenon
     DEF StreamStep, Keeps
<1>2. CASE InboundStep(h)
  <2>1. Handle(h) => Inv'
    BY HandleReportInv, HandleAckInv, Zenon DEF Handle, Keeps
  <2>. QED  BY <1>2, <2>1, ApplyReportInv, AckOutboxInv, Zenon DEF InboundStep, Keeps
<1>3. CASE AgentStep(h)
  BY <1>3, QuietSteps, SendReportInv, SendAckInv, Zenon
     DEF AgentStep, Keeps
<1>. QED  BY <1>1, <1>2, <1>3, QuietSteps, LinkLostInv, Zenon DEF Keeps

\* Every step of the controller and of its agents keeps the invariant.
LEMMA NextInv == ASSUME Inv, [AnyNext]_anyVars PROVE Inv'
<1>1. CASE DcRead \/ DcStep
  BY <1>1, DcReadInv, DcMarkInv, DcPushInv, DcHostsInv, DcDoneInv, Zenon DEF DcStep, Keeps
<1>2. CASE CheckStep
  BY <1>2, QuietSteps, CascadeInv, Zenon DEF CheckStep, Keeps
<1>3. CASE CtlNext
  BY <1>1, <1>2, <1>3, CallsInv, HostInv, Zenon DEF CtlNext
<1>4. CASE UNCHANGED anyVars
  BY <1>4, QuietInv, Zenon DEF anyVars, Keeps
<1>. QED  BY <1>3, <1>4, CrashInv, HostInv, Zenon DEF AnyNext, Keeps

\* The controller against any agents, its cluster still leaving the hosts L.
AnyFrom(L) == AnyInit(L) /\ [][AnyNext]_anyVars

\* The inductive invariant of the controller holds against any agents.
THEOREM InvHolds ==
    ASSUME NEW L PROVE AnyFrom(L) => []Inv
<1>1. AnyInit(L) => Inv
  BY InitInv, Zenon
<1>. QED  BY <1>1, NextInv, PTL DEF AnyFrom

\* While nobody decided to tear a VM down, its address stays allocated to it:
\* release_vm_ips, whoever calls it and with whatever acknowledgement, takes
\* only the addresses of VMs that are going.
THEOREM VmIpStaysHeld ==
    ASSUME NEW L PROVE AnyFrom(L) => []VmIpHeld
<1>1. Inv => VmIpHeld
  BY Zenon DEF Inv, Held, VmIpHeld
<1>. QED  BY <1>1, InvHolds, PTL

\* CreateMachine is idempotent by name, for any number of calls with the name.
THEOREM CreateIdempotent ==
    ASSUME NEW L PROVE AnyFrom(L) => []IdempotentByName
<1>1. Inv => IdempotentByName
  BY Zenon DEF Inv, CallType, Named, IdempotentByName
<1>. QED  BY <1>1, InvHolds, PTL

\* The clusters row goes last: delete_cluster and the acknowledgements of its
\* hosts leave no vms and no host_clusters row behind it.
THEOREM ClusterGoesLast ==
    ASSUME NEW L PROVE AnyFrom(L) => []ClusterRowLast
<1>1. Inv => ClusterRowLast
  BY Zenon DEF Inv
<1>. QED  BY <1>1, InvHolds, PTL

\* A call that waits for its agent has a stream whose end wakes it.
THEOREM WaitersAreWoken ==
    ASSUME NEW L PROVE AnyFrom(L) => []WaiterHasStream
<1>1. Inv => WaiterHasStream
  BY Zenon DEF Inv, Streams, WaiterHasStream
<1>. QED  BY <1>1, InvHolds, PTL

-----------------------------------------------------------------------------
\* Without DeleteCluster: nobody marks a host_clusters row over live VMs.
Kept == dc = "idle" /\ HostClusterKept

\* The VMs HostClusterKept is about.
SetGoing == {v \in Rows \ doomed : create[v] \notin Unactivated \cup {"dropped"}}

\* A step that sets no VM going and takes the ACTIVE mark only from hosts
\* without one keeps every host_clusters row that is needed.
LEMMA KeptFrame ==
    ASSUME Kept, dc' = dc, SetGoing' \subseteq SetGoing,
           \A v \in SetGoing' : host'[v] = host[v],
           \A v \in SetGoing' : hc[host[v]] = "active" => hc'[host[v]] = "active"
    PROVE  Kept'
<1>. HIDE DEF Rows, Unactivated
<1>1. HostClusterKept <=> \A v \in SetGoing : hc[host[v]] = "active"
  BY Zenon DEF HostClusterKept, SetGoing
<1>2. HostClusterKept' <=> \A v \in SetGoing' : hc'[host'[v]] = "active"
  BY Zenon DEF HostClusterKept, SetGoing
<1>. QED  BY <1>1, <1>2, Zenon DEF Kept

\* mark_host_cluster_pending_teardown spares a host with a VM that is kept.
LEMMA MarkSpares ==
    ASSUME Inv, NEW v \in VMs, MarkHostCluster(host[v]),
           NEW w \in SetGoing, hc[host[w]] = "active"
    PROVE  hc'[host[w]] = "active"
<1>1. w \in VMs /\ w \in Rows /\ w \notin doomed
  BY Zenon DEF SetGoing
<1>2. host[w] \in Hosts /\ state[w] # "teardown"
  BY <1>1, Zenon DEF Inv, Sited, Decided
<1>3. host[w] = host[v] => LiveOn(host[v]) # {}
  BY <1>1, <1>2, Zenon DEF LiveOn, OnHost
<1>. QED  BY <1>2, <1>3, Zenon DEF MarkHostCluster, Inv, RowType

\* The steps of a call before its VM is set going: what they change is not yet
\* a VM that needs the host_clusters row.
LEMMA EarlyKept ==
    ASSUME Inv, Kept, NEW v \in VMs,
           \/ \E n \in Names : Receive(v, n)
           \/ AllocateIp(v) \/ InsertVm(v) \/ Unplace(v) \/ Reread(v)
    PROVE  Kept'
<1>1. /\ create[v] \in {"idle", "place", "reread"} \cup Placing
      /\ \A w \in VMs \ {v} :
            create'[w] = create[w] /\ state'[w] = state[w] /\ host'[w] = host[w]
      /\ UNCHANGED <<hc, doomed, dc>>
  <2>1. CASE \E n \in Names : Receive(v, n)
    BY <2>1, Zenon DEF Receive, Goto, Inv, CallType
  <2>2. CASE AllocateIp(v)
    BY <2>2, Zenon DEF AllocateIp, Goto, Inv, CallType, RowType
  <2>3. CASE InsertVm(v)
    BY <2>3, ZenonT(60) DEF InsertVm, Goto, Inv, CallType, RowType
  <2>4. CASE Unplace(v)
    BY <2>4, Zenon DEF Unplace, Goto, Inv, CallType
  <2>5. CASE Reread(v)
    BY <2>5, Zenon DEF Reread, Goto, Inv, CallType
  <2>. QED  BY <2>1, <2>2, <2>3, <2>4, <2>5, Zenon
<1>2. state'[v] = "none" \/ create'[v] = "activate"
  <2>1. state[v] = "none"
    BY <1>1, Zenon DEF Inv, Fresh
  <2>2. CASE InsertVm(v)
    BY <2>1, <2>2, Zenon DEF InsertVm, Goto, Inv, CallType
  <2>3. CASE ~InsertVm(v)
    BY <2>1, <2>3, Zenon DEF Receive, AllocateIp, Unplace, Reread
  <2>. QED  BY <2>2, <2>3, Zenon
<1>3. \A w \in SetGoing' : w # v /\ w \in SetGoing
  BY <1>1, <1>2, Zenon DEF SetGoing
<1>. QED  BY <1>1, <1>3, KeptFrame, Zenon DEF SetGoing

\* ensure_host_cluster_active, and the steps of a call after it.
LEMMA LateKept ==
    ASSUME Inv, Kept, NEW v \in VMs,
           CreateStep(v) \/ CancelCreate(v),
           ~(AllocateIp(v) \/ InsertVm(v) \/ Unplace(v) \/ Reread(v))
    PROVE  Kept'
<1>. USE DEF Inv
<1>1. CASE Activate(v)
  <2>1. \A w \in VMs \ {v} : create'[w] = create[w]
    BY <1>1, Zenon DEF Activate, Goto, GiveUp, CallType
  <2>2. CASE /\ hc' = [hc EXCEPT ![host[v]] = "active"]
             /\ UNCHANGED doomed
    <3>1. ASSUME NEW w \in SetGoing' PROVE hc'[host'[w]] = "active"
      <4>1. w \in VMs /\ w \in Rows /\ host[w] \in Hosts /\ host' = host
        BY <1>1, Zenon DEF Activate, SetGoing, Sited
      <4>2. CASE w = v
        BY <2>2, <4>1, <4>2, Zenon DEF RowType
      <4>3. CASE w # v
        <5>1. hc[host[w]] = "active"
          BY <1>1, <2>1, <2>2, <4>1, <4>3, Zenon DEF Activate, Kept, HostClusterKept, SetGoing
        <5>. QED  BY <2>2, <4>1, <5>1, Zenon DEF RowType
      <4>. QED  BY <4>2, <4>3, Zenon
    <3>2. HostClusterKept'
      BY <3>1, Zenon DEF HostClusterKept, SetGoing
    <3>. QED  BY <1>1, <3>2, Zenon DEF Activate, Kept
  <2>3. CASE UNCHANGED hc /\ doomed' = doomed \cup {v}
    BY <1>1, <2>1, <2>3, KeptFrame, Zenon DEF Activate, SetGoing
  <2>. QED  BY <1>1, <2>2, <2>3, Zenon DEF Activate, GiveUp
<1>2. ASSUME \A w \in VMs \ {v} : create'[w] = create[w],
             create[v] \in Unactivated => create'[v] = "dropped",
             create[v] = "dropped" => create'[v] = "dropped",
             Rows' \subseteq Rows, doomed \subseteq doomed',
             UNCHANGED <<host, dc>>,
             UNCHANGED hc \/ MarkHostCluster(host[v])
      PROVE  Kept'
  <2>1. SetGoing' \subseteq SetGoing
    BY <1>2, Zenon DEF SetGoing
  <2>2. \A w \in SetGoing' : hc[host[w]] = "active" => hc'[host[w]] = "active"
    BY <1>2, <2>1, MarkSpares, Zenon
  <2>. QED  BY <1>2, <2>1, <2>2, KeptFrame, Zenon
<1>3. CASE Broadcast(v) \/ CleanupPush(v)
  BY <1>2, <1>3, Zenon DEF Broadcast, CleanupPush, Goto, CallType
<1>4. CASE Dispatch(v) \/ Send(v)
  BY <1>2, <1>4, Zenon DEF Dispatch, Send, SendFails, Goto, GiveUp, CallType
<1>5. CASE SentMark(v) \/ Await(v) \/ Timeout(v)
  BY <1>2, <1>5, Zenon DEF SentMark, Await, Timeout, Goto, GiveUp, CallType
<1>6. CASE TimedOut(v) \/ CleanupMark(v)
  <2>1. Rows' \subseteq Rows
    BY <1>6, Zenon DEF TimedOut, CleanupMark, MarkTeardown, Tried, RowType
  <2>. QED  BY <1>2, <1>6, <2>1, Zenon DEF TimedOut, CleanupMark, Goto, CallType
<1>7. CASE CleanupRelease(v) \/ CleanupHostCluster(v)
  BY <1>2, <1>7, Zenon DEF CleanupRelease, CleanupHostCluster, Tried, Goto, CallType
<1>8. CASE CancelCreate(v)
  BY <1>2, <1>8, Zenon DEF CancelCreate, Goto, CallType
<1>. QED  BY <1>1, <1>3, <1>4, <1>5, <1>6, <1>7, <1>8, Zenon DEF CreateStep

\* The steps of everyone else.
LEMMA OthersKept ==
    ASSUME Inv, Kept, ~ClusterDeletes,
           \/ \E v \in VMs : DeleteRead(v) \/ DeleteStep(v) \/ CancelDelete(v)
           \/ DcRead \/ DcStep \/ CheckStep \/ Crash
           \/ \E h \in Hosts :
                 \/ StreamStep(h) \/ InboundStep(h) \/ Tick(h)
                 \/ Heartbeat(h) \/ GoStale(h) \/ LinkLost(h) \/ AgentStep(h)
    PROVE  Kept'
<1>. USE DEF Inv
<1>1. ASSUME \A w \in VMs : create'[w] \notin Unactivated \cup {"dropped"}
                               => create[w] \notin Unactivated \cup {"dropped"},
             Rows' \subseteq Rows, doomed \subseteq doomed', UNCHANGED host, dc' = "idle",
             \A g \in Hosts : hc[g] = "active" => hc'[g] = "active"
      PROVE  Kept'
  <2>1. SetGoing' \subseteq SetGoing
    BY <1>1, Zenon DEF SetGoing
  <2>2. \A w \in SetGoing : host[w] \in Hosts
    BY Zenon DEF SetGoing, Sited
  <2>. QED  BY <1>1, <2>1, <2>2, KeptFrame, Zenon DEF Kept
<1>2. CASE \E v \in VMs : DeleteRead(v) \/ DeletePush(v) \/ CancelDelete(v)
  BY <1>1, <1>2, Zenon DEF DeleteRead, DeletePush, CancelDelete, Kept
<1>3. CASE \E v \in VMs : DeleteMark(v)
  <2>1. Rows' \subseteq Rows
    BY <1>3, Zenon DEF DeleteMark, MarkTeardown, RowType
  <2>. QED  BY <1>1, <1>3, <2>1, Zenon DEF DeleteMark, Kept
<1>4. ASSUME NEW v \in VMs, DeleteHostCluster(v) PROVE Kept'
  <2>1. SetGoing' = SetGoing /\ UNCHANGED <<host, dc>>
    BY <1>4, Zenon DEF DeleteHostCluster, SetGoing
  <2>2. CASE MarkHostCluster(host[v])
    BY <2>1, <2>2, MarkSpares, KeptFrame, Zenon
  <2>3. CASE UNCHANGED hc
    BY <2>1, <2>3, KeptFrame, Zenon
  <2>. QED  BY <1>4, <2>2, <2>3, Zenon DEF DeleteHostCluster
<1>5. ~(DcRead \/ DcStep)
  BY Zenon DEF DcRead, DcStep, DcMark, DcPush, DcHosts, DcDone, Kept
<1>6. CASE CheckStep
  <2>1. Rows' \subseteq Rows
    BY <1>6, Zenon DEF CheckStep, CheckSelect, CheckUpdate, CheckDone, Cascade, Tried, OnHost
  <2>. QED  BY <1>1, <1>6, <2>1, Zenon 
     DEF CheckStep, CheckSelect, CheckUpdate, CheckDone, Cascade, Kept
<1>7. CASE Crash
  BY <1>1, <1>7, Zenon DEF Crash
<1>8. ASSUME NEW h \in Hosts, StreamStep(h) PROVE Kept'
  BY <1>1, <1>8, Zenon DEF StreamStep, Accept, Register, ListOutbox, ReplaySend, ReplayMark,
     ReplayDone, ChannelClosed, Release, ReleaseLate, Kept
<1>9. ASSUME NEW h \in Hosts, InboundStep(h) PROVE Kept'
  <2>1. CASE Handle(h)
    BY <1>1, <2>1, Zenon DEF Handle, ReadReport, AckTombstones, Kept
  <2>2. CASE ApplyReport(h)
    <3>1. Rows' \subseteq Rows
      BY <2>2, Zenon DEF ApplyReport, RowType
    <3>. QED  BY <1>1, <2>2, <3>1, Zenon DEF ApplyReport, Kept
  <2>3. CASE AckOutbox(h)
    BY <1>1, <2>3, Zenon DEF AckOutbox, Kept
  <2>. QED  BY <1>9, <2>1, <2>2, <2>3, Zenon DEF InboundStep
<1>10. ASSUME NEW h \in Hosts, Tick(h) \/ Heartbeat(h) \/ GoStale(h) \/ LinkLost(h)
       PROVE  Kept'
  BY <1>1, <1>10, Zenon DEF Tick, Heartbeat, GoStale, LinkLost, Kept
<1>11. ASSUME NEW h \in Hosts, AgentStep(h) PROVE Kept'
  BY <1>1, <1>11, Zenon DEF AgentStep, AnyDial, AnyGetCommand, EndHandshake, SendReport, SendAck, Kept
<1>. QED  BY <1>2, <1>3, <1>4, <1>5, <1>6, <1>7, <1>8, <1>9, <1>10, <1>11, Zenon DEF DeleteStep

\* While no cluster is deleted, the host of every VM that was set going keeps
\* the cluster: mark_host_cluster_pending_teardown of a sibling's delete or
\* cleanup never takes the host_clusters row from under a live VM, and a late
\* acknowledgement never drops it.
THEOREM HostKeepsCluster ==
    ASSUME NEW L, ~ClusterDeletes PROVE AnyFrom(L) => []HostClusterKept
<1>1. AnyInit(L) => Kept
  BY DEF AnyInit, CtlInit, Kept, HostClusterKept
<1>2. ASSUME Inv, Kept, [AnyNext]_anyVars PROVE Kept'
  <2>1. CASE UNCHANGED anyVars
    BY <1>2, <2>1, KeptFrame, Zenon DEF anyVars, SetGoing
  <2>2. CASE AnyNext
    BY <1>2, <2>2, EarlyKept, LateKept, OthersKept, Zenon DEF AnyNext, CtlNext
  <2>. QED  BY <1>2, <2>1, <2>2, Zenon
<1>3. Kept => HostClusterKept
  BY Zenon DEF Kept
<1>. QED  BY <1>1, <1>2, <1>3, InvHolds, PTL DEF AnyFrom

-----------------------------------------------------------------------------
\* What was dispatched or decided stays so.
Onward ==
    /\ doomed \subseteq doomed'
    /\ \A v \in VMs : create[v] \in Dispatched => create'[v] \in Dispatched /\ host'[v] = host[v]

\* A step of one call concerns its own VM, and takes it past the dispatch for good.
LEMMA CallsOnward ==
    ASSUME Inv, NEW v \in VMs,
           (\E n \in Names : Receive(v, n)) \/ CreateStep(v) \/ CancelCreate(v)
    PROVE  Onward
<1>. USE DEF Inv, CallType, RowType, Goto
<1>1. ASSUME \A w \in VMs \ {v} : create'[w] = create[w] /\ host'[w] = host[w],
             doomed \subseteq doomed',
             create[v] \in Dispatched => create'[v] \in Dispatched /\ host'[v] = host[v]
      PROVE  Onward
  BY <1>1, Zenon DEF Onward
<1>2. CASE \E n \in Names : Receive(v, n)
  BY <1>1, <1>2 DEF Receive, Dispatched
<1>3. CASE AllocateIp(v)
  BY <1>1, <1>3 DEF AllocateIp, Dispatched
<1>4. CASE InsertVm(v) \/ Unplace(v) \/ Reread(v)
  BY <1>1, <1>4 DEF InsertVm, Unplace, Reread, Placing, Dispatched
<1>5. CASE Activate(v) \/ Broadcast(v) \/ Dispatch(v)
  BY <1>1, <1>5, Zenon DEF Activate, Broadcast, Dispatch, GiveUp, Dispatched
<1>6. CASE Send(v)
  <2>1. /\ \/ create' = [create EXCEPT ![v] = "sent"] /\ doomed' = doomed
           \/ create' = [create EXCEPT ![v] = "c_mark"] /\ doomed' = doomed \cup {v}
        /\ host' = host
    BY <1>6, Zenon DEF Send, SendFails, GiveUp, vmVars
  <2>. QED  BY <1>1, <2>1, Zenon DEF Dispatched
<1>7. CASE SentMark(v)
  BY <1>1, <1>7, Zenon DEF SentMark, Dispatched, vmVars
<1>8. CASE Await(v) \/ Timeout(v) \/ TimedOut(v)
  BY <1>1, <1>8, ZenonT(60) DEF Await, Timeout, TimedOut, GiveUp, Dispatched
<1>9. CASE CleanupMark(v) \/ CleanupRelease(v) \/ CleanupHostCluster(v) \/ CleanupPush(v)
  BY <1>1, <1>9, Zenon DEF CleanupMark, CleanupRelease, CleanupHostCluster, CleanupPush, Dispatched
<1>10. CASE CancelCreate(v)
  BY <1>1, <1>10, Zenon DEF CancelCreate, Abandoned, Ended, Unactivated, Placing, Dispatched
<1>. QED  BY <1>2, <1>3, <1>4, <1>5, <1>6, <1>7, <1>8, <1>9, <1>10, Zenon DEF CreateStep

\* No other step of the controller takes a call back or forgets a decision.
LEMMA ControllerOnward ==
    ASSUME Inv, CtlNext \/ Crash \/ \E h \in Hosts : LinkLost(h)
    PROVE  Onward
<1>. USE DEF Onward
<1>1. CASE \E v \in VMs : DeleteRead(v) \/ DeleteStep(v) \/ CancelDelete(v)
  BY <1>1, Zenon DEF DeleteRead, DeleteStep, DeleteMark, DeleteHostCluster, DeletePush, CancelDelete
<1>2. CASE DcRead \/ DcStep
  BY <1>2, Zenon DEF DcRead, DcStep, DcMark, DcPush, DcHosts, DcDone
<1>3. CASE \E h \in Hosts : StreamStep(h)
  BY <1>3, Zenon DEF StreamStep, Accept, Register, ListOutbox, ReplaySend, ReplayMark, ReplayDone,
     ChannelClosed, Release, ReleaseLate
<1>4. CASE \E h \in Hosts : InboundStep(h) \/ Tick(h)
  BY <1>4, Zenon DEF InboundStep, Handle, ApplyReport, AckOutbox, Tick
<1>5. CASE \E h \in Hosts : Heartbeat(h) \/ GoStale(h) \/ LinkLost(h)
  BY <1>5, Zenon DEF Heartbeat, GoStale, LinkLost
<1>6. CASE CheckStep
  BY <1>6, Zenon DEF CheckStep, CheckSelect, CheckUpdate, CheckDone, Cascade
<1>7. CASE Crash
  BY <1>7, Zenon DEF Crash, Abandoned, Ended, Unactivated, Placing, Dispatched
<1>. QED  BY <1>1, <1>2, <1>3, <1>4, <1>5, <1>6, <1>7, CallsOnward, Zenon DEF CtlNext

-----------------------------------------------------------------------------
(***************************************************************************)
(* What an agent can rely on: the commands of its stream.  The RegisterAck *)
(* comes first and no command is received before it, a CreateVm is one     *)
(* that was dispatched to this host, and a tombstone was decided on,       *)
(* through replays of the outbox, reconnects and restarts.                 *)
(***************************************************************************)
\* The types of the session and of the outbox.
LinkType ==
    /\ link \in [Hosts -> Sessions] /\ down \in [Hosts -> Seq(Commands)]
    /\ sess \in [Hosts -> {"none", "acked", "inserted", "replay", "up", "ending"}]

\* The CreateVm of v went to h, or into the outbox for h.
Sent(h, v) == host[v] = h /\ create[v] \in Dispatched

\* What the controller may send: a CreateVm that was put in the outbox, or
\* tombstones of VMs whose teardown was decided.
CommandOk(h, c) ==
    \/ \E v \in VMs : c = CreateVm(v) /\ Sent(h, v)
    \/ c \in ReconcileCommands /\ c.vtombs \subseteq doomed

\* The outbox and its replay hold commands of calls that came to dispatching,
\* and the channel nothing that may not be sent.
Listed ==
    /\ outbox \in [VMs -> {"none", "pending", "sent"}]
    /\ replay \in [Hosts -> [left : SUBSET VMs, cur : VMs \cup {NoVm}]]
    /\ \A v \in VMs : outbox[v] # "none" => create[v] \in Dispatched
    /\ \A h \in Hosts :
          /\ \A v \in replay[h].left : Sent(h, v)
          /\ replay[h].cur # NoVm => Sent(h, replay[h].cur)

Told == \A h \in Hosts : \A i \in 1..Len(down[h]) : CommandOk(h, down[h][i])

Accepting == {"acked", "inserted", "replay"}

\* The RegisterAck is the first command of a session, there before the stream is
\* handed to the agent, and received once.
FirstAck ==
    \A h \in Hosts :
        /\ sess[h] \in Accepting =>
              link[h] = "dialing" /\ down[h] # <<>> /\ down[h][1].type = "ack"
        /\ \A i \in 1..Len(down[h]) : down[h][i].type = "ack" => i = 1 /\ link[h] # "up"

WireInv == LinkType /\ Listed /\ Told /\ FirstAck

-----------------------------------------------------------------------------
USE ControllerAssumption, ChanAssumption
    DEF vmVars, netVars, healthVars, createVars, deleteVars, streamVars, ctlVars, wireVars

\* What was sent stays sent.
LEMMA StillSent ==
    ASSUME Onward
    PROVE  /\ \A h \in Hosts, v \in VMs : Sent(h, v) => Sent(h, v)'
           /\ \A h \in Hosts, c \in Commands : CommandOk(h, c) => CommandOk(h, c)'
<1>1. ASSUME NEW h \in Hosts, NEW v \in VMs, Sent(h, v) PROVE Sent(h, v)'
  BY <1>1, Zenon DEF Onward, Sent
<1>2. ASSUME NEW h \in Hosts, NEW c \in Commands, CommandOk(h, c) PROVE CommandOk(h, c)'
  BY <1>1, <1>2, Zenon DEF Onward, CommandOk
<1>. QED  BY <1>1, <1>2, Zenon

\* What a step does not write it does not disturb.
LEMMA WireUndisturbed ==
    ASSUME WireInv, Onward
    PROVE  /\ UNCHANGED <<link, down, sess>> => LinkType'
           /\ UNCHANGED <<outbox, replay>> => Listed'
           /\ UNCHANGED down => Told'
           /\ UNCHANGED <<link, sess, down>> => FirstAck'
<1>. USE DEF WireInv
<1>1. UNCHANGED <<link, down, sess>> => LinkType'
  BY Zenon DEF LinkType
<1>4. UNCHANGED <<outbox, replay>> => Listed'
  <2>. SUFFICES ASSUME UNCHANGED <<outbox, replay>> PROVE Listed'
    OBVIOUS
  <2>1. \A v \in VMs : outbox'[v] # "none" => create'[v] \in Dispatched
    BY Zenon DEF Listed, Onward
  <2>2. ASSUME NEW h \in Hosts
        PROVE  /\ \A v \in replay[h].left : Sent(h, v)'
               /\ replay[h].cur # NoVm => Sent(h, replay[h].cur)'
    BY StillSent, Zenon DEF Listed
  <2>. QED  BY <2>1, <2>2, Zenon DEF Listed
<1>2. UNCHANGED down => Told'
  <2>. SUFFICES ASSUME UNCHANGED down PROVE Told'
    OBVIOUS
  <2>3. ASSUME NEW h \in Hosts, NEW i \in 1..Len(down[h])
        PROVE  CommandOk(h, down[h][i])'
    <3>1. down[h][i] \in Commands
      BY DEF LinkType
    <3>2. CommandOk(h, down[h][i])
      BY Zenon DEF Told
    <3>3. \A c \in Commands : CommandOk(h, c) => CommandOk(h, c)'
      BY StillSent, Zenon
    <3>4. \A c : CommandOk(h, c)' <=> \/ \E v \in VMs : c = CreateVm(v) /\ Sent(h, v)'
                                      \/ c \in ReconcileCommands /\ c.vtombs \subseteq doomed'
      BY Zenon DEF CommandOk
    <3>5. CommandOk(h, down[h][i])' <=>
             \/ \E v \in VMs : down[h][i] = CreateVm(v) /\ Sent(h, v)'
             \/ down[h][i] \in ReconcileCommands /\ down[h][i].vtombs \subseteq doomed'
      BY Zenon DEF CommandOk
    <3>. QED  BY <3>1, <3>2, <3>3, <3>4, <3>5, Zenon
  <2>. QED  BY <2>3, Zenon DEF Told
<1>3. UNCHANGED <<link, sess, down>> => FirstAck'
  BY Zenon DEF FirstAck
<1>. QED  BY <1>1, <1>2, <1>3, <1>4, Zenon

\* How a step of the controller changes the streams: it hands a stream with its
\* RegisterAck to a dialing agent, and puts other commands behind what is there.
Streamed ==
    \A h \in Hosts :
        /\ \/ link'[h] = link[h]
           \/ sess[h] \in Accepting /\ link'[h] = "handshake" /\ down'[h] = down[h]
        /\ \/ link[h] = "dialing"
           \/ down'[h] = down[h]
           \/ \E c \in Commands : c.type # "ack" /\ down'[h] = Append(down[h], c)

WireNext == WireInv' /\ Streamed

\* A command that may be sent is put on the channel of some hosts.
LEMMA Pushed ==
    ASSUME WireInv, Onward, Listed', UNCHANGED <<link, sess>>,
           down' = [h \in Hosts |-> down'[h]],
           \A h \in Hosts :
              \/ down'[h] = down[h]
              \/ \E c \in Commands : /\ c.type # "ack" /\ CommandOk(h, c)'
                                     /\ down'[h] = Append(down[h], c)
    PROVE  WireNext
<1>. USE DEF WireInv
<1>1. ASSUME NEW h \in Hosts
      PROVE  /\ down'[h] \in Seq(Commands) /\ Len(down'[h]) >= Len(down[h])
             /\ \A i \in 1..Len(down[h]) : down'[h][i] = down[h][i]
             /\ \A i \in 1..Len(down'[h]) :
                   \/ i \in 1..Len(down[h])
                   \/ down'[h][i].type # "ack" /\ CommandOk(h, down[h][i])'
  <2>1. down[h] \in Seq(Commands)
    BY Zenon DEF LinkType
  <2>2. CASE down'[h] = down[h]
    BY <2>1, <2>2
  <2>3. ASSUME NEW c \in Commands, c.type # "ack", CommandOk(h, c)',
               down'[h] = Append(down[h], c)
        PROVE  <1>1!2
    <3>1. /\ down'[h] \in Seq(Commands) /\ Len(down'[h]) = Len(down[h]) + 1
          /\ \A i \in 1..Len(down[h]) : down'[h][i] = down[h][i]
          /\ down'[h][Len(down[h]) + 1] = c
      BY <2>1, <2>3
    <3>2. ASSUME NEW i \in 1..Len(down'[h]), i \notin 1..Len(down[h])
          PROVE  down'[h][i].type # "ack" /\ CommandOk(h, down[h][i])'
      <4>1. down'[h][i] = c
        BY <2>1, <3>1, <3>2
      <4>. QED  BY <2>3, <4>1, Zenon DEF CommandOk
    <3>. QED  BY <2>1, <3>1, <3>2
  <2>. QED  BY <2>2, <2>3, Zenon
<1>2. LinkType'
  BY <1>1, Zenon DEF LinkType
<1>3. Told'
  <2>1. ASSUME NEW h \in Hosts, NEW i \in 1..Len(down'[h]) PROVE CommandOk(h, down[h][i])'
    <3>1. CASE i \in 1..Len(down[h])
      <4>1. down'[h][i] = down[h][i] /\ down[h][i] \in Commands /\ CommandOk(h, down[h][i])
        BY <1>1, <3>1 DEF Told, LinkType
      <4>. QED  BY <4>1, StillSent, Zenon DEF CommandOk, Onward
    <3>. QED  BY <1>1, <3>1, Zenon
  <2>. QED  BY <2>1, Zenon DEF Told
<1>4. FirstAck'
  <2>1. ASSUME NEW h \in Hosts
        PROVE  /\ down[h] # <<>> => down'[h] # <<>> /\ down'[h][1] = down[h][1]
               /\ \A i \in 1..Len(down'[h]) : down'[h][i].type = "ack" =>
                     i \in 1..Len(down[h]) /\ down[h][i].type = "ack"
    <3>1. /\ down[h] \in Seq(Commands) /\ Len(down'[h]) >= Len(down[h])
          /\ 1 \in 1..Len(down[h]) => down'[h][1] = down[h][1]
      BY <1>1, Zenon DEF LinkType
    <3>2. down[h] # <<>> => Len(down[h]) >= 1
      BY <3>1
    <3>3. Len(down'[h]) >= 1 => down'[h] # <<>>
      OBVIOUS
    <3>4. Len(down[h]) \in Nat
      BY <3>1
    <3>5. down[h] # <<>> => 1 \in 1..Len(down[h]) /\ Len(down'[h]) >= 1
      <4>1. Len(down'[h]) \in Nat
        BY <1>1
      <4>. QED  BY <3>1, <3>2, <3>4, <4>1
    <3>6. down[h] # <<>> => down'[h] # <<>> /\ down'[h][1] = down[h][1]
      BY <3>1, <3>3, <3>5, Zenon
    <3>7. ASSUME NEW i \in 1..Len(down'[h]), down'[h][i].type = "ack"
          PROVE  i \in 1..Len(down[h]) /\ down[h][i].type = "ack"
      BY <1>1, <3>7, Zenon
    <3>. QED  BY <3>6, <3>7, Zenon
  <2>. QED  BY <2>1 DEF FirstAck
<1>5. Streamed
  BY Zenon DEF Streamed
<1>. QED  BY <1>2, <1>3, <1>4, <1>5, Zenon DEF WireNext

\* push_reconcile sends tombstones of VMs that are to go.
LEMMA ReconcileOk ==
    ASSUME Inv, Onward, NEW h \in Hosts
    PROVE  /\ BuildReconcile(h, "reconcile") \in Commands
           /\ BuildReconcile(h, "reconcile").type = "reconcile"
           /\ CommandOk(h, BuildReconcile(h, "ack"))
           /\ \A c : c = BuildReconcile(h, "reconcile") => CommandOk(h, c)'
<1>1. {v \in OnHost(h) : state[v] = "teardown"} \subseteq doomed
  BY Zenon DEF Inv, Decided, OnHost, Rows
<1>2. {v \in OnHost(h) : state[v] = "teardown"} \subseteq VMs
  BY Zenon DEF OnHost, Rows
<1>3. /\ BuildReconcile(h, "reconcile") \in ReconcileCommands
      /\ BuildReconcile(h, "ack") \in ReconcileCommands
  BY <1>2, Zenon DEF BuildReconcile, ReconcileCommands
<1>4. /\ BuildReconcile(h, "reconcile").type = "reconcile"
      /\ BuildReconcile(h, "reconcile").vtombs \subseteq doomed
      /\ BuildReconcile(h, "ack").vtombs \subseteq doomed
  BY <1>1, Zenon DEF BuildReconcile
<1>. QED  BY <1>3, <1>4, Zenon DEF CommandOk, Commands, Onward

\* The steps of the controller that push a reconcile.
LEMMA ReconcilesTold ==
    ASSUME Inv, WireInv, Onward,
           \/ \E v \in VMs : Broadcast(v) \/ CleanupPush(v) \/ DeletePush(v)
           \/ \E h \in Hosts : DcPush(h) \/ Tick(h)
    PROVE  WireNext
<1>1. ASSUME NEW H, PushReconcile(H), UNCHANGED <<outbox, sess, replay>>
      PROVE  WireNext
  <2>1. ASSUME NEW h \in Hosts
        PROVE  down'[h] = down[h] \/ down'[h] = Append(down[h], BuildReconcile(h, "reconcile"))
    BY <1>1, Zenon DEF PushReconcile
  <2>2. down' = [h \in Hosts |-> down'[h]] /\ UNCHANGED link
    BY <1>1, Zenon DEF PushReconcile
  <2>. QED  BY <1>1, <2>1, <2>2, ReconcileOk, Pushed, WireUndisturbed, Zenon
<1>2. ASSUME NEW h \in Hosts, Tick(h) PROVE WireNext
  <2>1. ASSUME NEW g \in Hosts
        PROVE  down'[g] = down[g] \/ down'[g] = Append(down[g], BuildReconcile(g, "reconcile"))
    BY <1>2, Zenon DEF Tick, WireInv, LinkType
  <2>2. down' = [g \in Hosts |-> down'[g]]
    BY <1>2, Zenon DEF Tick, WireInv, LinkType
  <2>. QED  BY <1>2, <2>1, <2>2, ReconcileOk, Pushed, WireUndisturbed, Zenon DEF Tick
<1>. QED  BY <1>1, <1>2, Zenon DEF Broadcast, CleanupPush, DeletePush, DcPush

\* A CreateVm goes out when its row is in the outbox: the call's own send and
\* the replay.
LEMMA CreatesTold ==
    ASSUME Inv, WireInv, Onward,
           \/ \E v \in VMs : Send(v)
           \/ \E h \in Hosts, v \in VMs : ReplaySend(h, v)
    PROVE  WireNext
<1>. USE DEF WireInv
<1>1. ASSUME NEW h \in Hosts, NEW v \in VMs, Sent(h, v), Listed',
             UNCHANGED <<link, sess>>, down' = [down EXCEPT ![h] = Append(@, CreateVm(v))]
      PROVE  WireNext
  <2>1. CreateVm(v) \in Commands /\ CreateVm(v).type # "ack"
    BY Zenon DEF Commands, CreateVm
  <2>2. \A c : c = CreateVm(v) => CommandOk(h, c)'
    BY <1>1, StillSent, Zenon DEF CommandOk
  <2>3. down' = [g \in Hosts |-> IF g = h THEN Append(down[g], CreateVm(v)) ELSE down[g]]
    BY <1>1, Zenon DEF LinkType
  <2>. QED  BY <1>1, <2>1, <2>2, <2>3, Pushed, Zenon
<1>2. ASSUME NEW v \in VMs, Send(v) PROVE WireNext
  <2>1. Listed' /\ UNCHANGED <<link, sess>>
    BY <1>2, WireUndisturbed, Zenon DEF Send
  <2>2. CASE UNCHANGED down
    BY <2>1, <2>2, WireUndisturbed, Zenon DEF WireNext, Streamed
  <2>3. CASE down' = [down EXCEPT ![host[v]] = Append(@, CreateVm(v))]
    <3>1. create[v] = "send"
      BY <1>2, Zenon DEF Send
    <3>2. PICK h \in Hosts : h = host[v]
      BY <3>1, Zenon DEF Inv, Sited
    <3>. QED  BY <1>1, <2>1, <2>3, <3>1, <3>2, Zenon DEF Sent, Dispatched
  <2>. QED  BY <1>2, <2>2, <2>3, Zenon DEF Send, SendFails
<1>3. ASSUME NEW h \in Hosts, NEW v \in VMs, ReplaySend(h, v) PROVE WireNext
  <2>1. Sent(h, v)
    BY <1>3, Zenon DEF Listed, ReplaySend
  <2>2. /\ outbox' = outbox /\ create' = create /\ host' = host /\ link' = link /\ sess' = sess
        /\ replay' = [replay EXCEPT ![h].cur = v]
    BY <1>3, Zenon DEF ReplaySend
  <2>3. Listed'
    BY <2>1, <2>2 DEF Listed, Sent
  <2>. QED  BY <1>1, <1>3, <2>1, <2>2, <2>3, Zenon DEF ReplaySend
<1>. QED  BY <1>2, <1>3, Zenon

\* A replay that only gets shorter.
LEMMA ReplayKept ==
    ASSUME Listed, Onward,
           \A h \in Hosts : /\ replay'[h].left \subseteq replay[h].left
                            /\ replay'[h].cur \in {NoVm, replay[h].cur}
    PROVE  \A h \in Hosts : /\ \A v \in replay'[h].left : Sent(h, v)'
                            /\ replay'[h].cur # NoVm => Sent(h, replay[h].cur)'
<1>1. ASSUME NEW h \in Hosts, NEW v \in replay'[h].left PROVE Sent(h, v)'
  BY StillSent, <1>1, Zenon DEF Listed
<1>2. ASSUME NEW h \in Hosts, replay'[h].cur # NoVm PROVE Sent(h, replay[h].cur)'
  <2>1. PICK v \in VMs : v = replay[h].cur /\ v = replay'[h].cur
    BY <1>2, Zenon DEF Listed
  <2>2. Sent(h, v)'
    BY <1>2, <2>1, StillSent, Zenon DEF Listed
  <2>. QED  BY <2>1, <2>2, Zenon DEF Sent
<1>. QED  BY <1>1, <1>2, Zenon

\* The outbox row is written when the call dispatches, and then only marked or
\* removed.
LEMMA OutboxListed ==
    ASSUME Inv, WireInv, Onward,
           \/ \E v \in VMs : Dispatch(v) \/ SentMark(v)
           \/ \E h \in Hosts : ReplayMark(h) \/ AckOutbox(h)
    PROVE  WireNext
<1>. USE DEF WireInv
<1>1. UNCHANGED <<link, down, sess>>
  BY Zenon DEF Dispatch, SentMark, ReplayMark, AckOutbox
<1>2. ASSUME Listed' PROVE WireNext
  BY <1>1, <1>2, WireUndisturbed, Zenon DEF WireNext, Streamed
<1>3. ASSUME NEW v \in VMs, Dispatch(v) PROVE Listed'
  <2>1. UNCHANGED <<host, replay>>
    BY <1>3, Zenon DEF Dispatch
  <2>2. outbox' = outbox \/ (outbox' = [outbox EXCEPT ![v] = "pending"] /\ create' = [create EXCEPT ![v] = "send"])
    BY <1>3, Zenon DEF Dispatch, Goto
  <2>3. CASE outbox' = outbox
    BY <2>1, <2>3, WireUndisturbed, Zenon
  <2>4. CASE outbox' = [outbox EXCEPT ![v] = "pending"] /\ create' = [create EXCEPT ![v] = "send"]
    <3>1. outbox' \in [VMs -> {"none", "pending", "sent"}]
      BY <2>4, Zenon DEF Listed
    <3>2. \A w \in VMs : outbox'[w] # "none" => create'[w] \in Dispatched
      BY <2>4, Zenon DEF Listed, Inv, CallType, Dispatched
    <3>. QED  BY <2>1, <3>1, <3>2, ReplayKept, Zenon DEF Listed
  <2>. QED  BY <2>2, <2>3, <2>4, Zenon
<1>4. ASSUME NEW v, outbox' = outbox \/ MarkSent(v) \/ outbox' = [outbox EXCEPT ![v] = "none"]
      PROVE  /\ outbox' \in [VMs -> {"none", "pending", "sent"}]
             /\ \A w \in VMs : outbox'[w] # "none" => create'[w] \in Dispatched
  BY <1>4, Zenon DEF Listed, MarkSent, Onward
<1>5. ASSUME NEW v, outbox' = outbox \/ MarkSent(v) \/ outbox' = [outbox EXCEPT ![v] = "none"],
             replay' = replay
      PROVE  Listed'
  BY <1>4, <1>5, ReplayKept, Zenon DEF Listed
<1>6. ASSUME NEW v \in VMs, SentMark(v) PROVE Listed'
  <2>1. UNCHANGED replay /\ (outbox' = outbox \/ MarkSent(v))
    BY <1>6, Zenon DEF SentMark, Tried
  <2>. QED  BY <1>5, <2>1, Zenon
<1>7. ASSUME NEW h \in Hosts, AckOutbox(h) PROVE Listed'
  <2>1. UNCHANGED replay /\ (outbox' = outbox \/ outbox' = [outbox EXCEPT ![reading[h].vm] = "none"])
    BY <1>7, Zenon DEF AckOutbox, Tried
  <2>. QED  BY <1>5, <2>1, Zenon
<1>8. ASSUME NEW h \in Hosts, ReplayMark(h) PROVE Listed'
  <2>1. /\ outbox' = outbox \/ MarkSent(replay[h].cur)
        /\ replay' = [replay EXCEPT ![h] = [left |-> @.left \ {replay[h].cur}, cur |-> NoVm]]
    BY <1>8, Zenon DEF ReplayMark, Tried
  <2>2. /\ replay' \in [Hosts -> [left : SUBSET VMs, cur : VMs \cup {NoVm}]]
        /\ \A g \in Hosts : /\ replay'[g].left \subseteq replay[g].left
                            /\ replay'[g].cur \in {NoVm, replay[g].cur}
    BY <2>1, Zenon DEF Listed
  <2>. QED  BY <1>4, <2>1, <2>2, ReplayKept, Zenon DEF Listed
<1>. QED  BY <1>2, <1>3, <1>6, <1>7, <1>8, Zenon

\* stream_messages: the RegisterAck is sent before anything else, and the agent
\* sees no command before the replay is done.
LEMMA StreamsTold ==
    ASSUME Inv, WireInv, Onward, NEW h \in Hosts,
           Accept(h) \/ Register(h) \/ ListOutbox(h) \/ ReplayDone(h) \/ Release(h)
    PROVE  WireNext
<1>. USE DEF WireInv
<1>2. CASE Accept(h)
  <2>1. /\ link[h] = "dialing" /\ link' = link /\ outbox' = outbox /\ replay' = replay
        /\ down' = [down EXCEPT ![h] = <<BuildReconcile(h, "ack")>>]
        /\ sess' = [sess EXCEPT ![h] = "acked"]
        /\ doomed' = doomed
    BY <1>2, Zenon DEF Accept
  <2>2. /\ BuildReconcile(h, "ack") \in Commands /\ BuildReconcile(h, "ack").type = "ack"
        /\ \A c : c = BuildReconcile(h, "ack") => CommandOk(h, c)'
    <3>1. BuildReconcile(h, "ack") \in ReconcileCommands /\ BuildReconcile(h, "ack").type = "ack"
      BY Zenon DEF BuildReconcile, ReconcileCommands, OnHost, Rows
    <3>2. BuildReconcile(h, "ack").vtombs \subseteq doomed
      BY Zenon DEF BuildReconcile, Inv, Decided, OnHost, Rows
    <3>. QED  BY <2>1, <3>1, <3>2, Zenon DEF CommandOk, Commands
  <2>3. \A g \in Hosts : down'[g] = IF g = h THEN <<BuildReconcile(h, "ack")>> ELSE down[g]
    BY <2>1, Zenon DEF LinkType
  <2>4. LinkType'
    BY <2>1, <2>2 DEF LinkType
  <2>5. Listed'
    BY <2>1, WireUndisturbed, Zenon
  <2>6. Told'
    <3>1. ASSUME NEW g \in Hosts, g # h, NEW i \in 1..Len(down'[g])
          PROVE  CommandOk(g, down[g][i])'
      <4>1. down'[g] = down[g] /\ CommandOk(g, down[g][i]) /\ down[g][i] \in Commands
        BY <2>3, <3>1 DEF LinkType, Told
      <4>. QED  BY <4>1, StillSent, Zenon DEF CommandOk, Onward
    <3>2. ASSUME NEW i \in 1..Len(down'[h]) PROVE CommandOk(h, down[h][i])'
      <4>1. down'[h][i] = BuildReconcile(h, "ack")
        BY <2>3
      <4>. QED  BY <2>2, <4>1, Zenon DEF CommandOk
    <3>. QED  BY <3>1, <3>2, Zenon DEF Told
  <2>7. FirstAck'
    <3>1. /\ down'[h] # <<>> /\ down'[h][1].type = "ack"
          /\ \A i \in 1..Len(down'[h]) : i = 1
      <4>1. \A c : <<c>> # <<>> /\ <<c>>[1] = c /\ Len(<<c>>) = 1
        OBVIOUS
      <4>2. down'[h] = <<BuildReconcile(h, "ack")>>
        BY <2>3, Zenon
      <4>. QED  BY <2>2, <4>1, <4>2
    <3>2. \A g \in Hosts \ {h} : down'[g] = down[g] /\ sess'[g] = sess[g]
      BY <2>1, <2>3, Zenon DEF LinkType
    <3>3. sess'[h] = "acked"
      BY <2>1, Zenon DEF LinkType
    <3>. QED  BY <2>1, <3>1, <3>2, <3>3, ZenonT(60) DEF FirstAck, Accepting
  <2>8. Streamed
    BY <2>1, <2>3, Zenon DEF Streamed
  <2>. QED  BY <2>4, <2>5, <2>6, <2>7, <2>8, Zenon DEF WireNext
<1>3. CASE Register(h) \/ Release(h)
  <2>1. /\ UNCHANGED <<link, down, outbox, replay>>
        /\ \E s \in {"inserted", "none"} : sess' = [sess EXCEPT ![h] = s]
        /\ sess[h] \in Accepting \/ sess'[h] \notin Accepting
    BY <1>3, Zenon DEF Register, Release, Accepting, LinkType
  <2>2. LinkType'
    BY <2>1, Zenon DEF LinkType
  <2>3. FirstAck'
    BY <2>1, Zenon DEF FirstAck, LinkType
  <2>. QED  BY <2>1, <2>2, <2>3, WireUndisturbed, Zenon DEF WireNext, Streamed
<1>4. CASE ListOutbox(h)
  <2>1. /\ UNCHANGED <<link, down, outbox, host, create>> /\ sess[h] \in Accepting
        /\ sess' = [sess EXCEPT ![h] = "replay"]
        /\ replay' = [replay EXCEPT ![h] = [left |-> PendingOn(h), cur |-> NoVm]]
    BY <1>4, Zenon DEF ListOutbox, Accepting
  <2>2. LinkType'
    BY <2>1, Zenon DEF LinkType
  <2>3. FirstAck'
    BY <2>1, Zenon DEF FirstAck, LinkType, Accepting
  <2>4. Listed'
    BY <2>1, ZenonT(60) DEF Listed, PendingOn, Sent
  <2>. QED  BY <2>1, <2>2, <2>3, <2>4, WireUndisturbed, Zenon DEF WireNext, Streamed
<1>5. CASE ReplayDone(h)
  <2>1. /\ UNCHANGED <<down, outbox, replay>> /\ sess[h] \in Accepting
        /\ sess' = [sess EXCEPT ![h] = "up"]
        /\ link' = [link EXCEPT ![h] = "handshake"]
    BY <1>5, Zenon DEF ReplayDone, Accepting
  <2>2. LinkType'
    BY <2>1, Zenon DEF LinkType, Sessions
  <2>3. FirstAck'
    <3>1. \A g \in Hosts \ {h} : link'[g] = link[g] /\ sess'[g] = sess[g]
      BY <2>1, Zenon DEF LinkType
    <3>2. link'[h] = "handshake" /\ sess'[h] = "up" /\ link[h] = "dialing"
      BY <2>1, Zenon DEF LinkType, FirstAck
    <3>. QED  BY <2>1, <3>1, <3>2 DEF FirstAck, Accepting
  <2>4. Streamed
    BY <2>1, Zenon DEF Streamed, LinkType
  <2>. QED  BY <2>1, <2>2, <2>3, <2>4, WireUndisturbed, Zenon DEF WireNext
<1>. QED  BY <1>2, <1>3, <1>4, <1>5, Zenon

\* A step of the controller keeps what the agents rely on.
LEMMA ControllerWire ==
    ASSUME Inv, WireInv, CtlNext
    PROVE  WireNext
<1>0. Onward
  BY ControllerOnward, Zenon
<1>1. ASSUME UNCHANGED <<link, down, outbox, sess, replay>> PROVE WireNext
  BY <1>0, <1>1, WireUndisturbed, Zenon DEF WireInv, WireNext, Streamed
<1>2. CASE \E v \in VMs : (\E n \in Names : Receive(v, n)) \/ CancelCreate(v)
  BY <1>1, <1>2, Zenon DEF Receive, CancelCreate
<1>3. CASE \E v \in VMs : CreateStep(v)
  <2>. SUFFICES ASSUME NEW v \in VMs, CreateStep(v) PROVE WireNext
    BY <1>3, Zenon
  <2>1. CASE AllocateIp(v) \/ InsertVm(v) \/ Unplace(v) \/ Reread(v)
    BY <1>1, <2>1, Zenon DEF AllocateIp, InsertVm, Unplace, Reread
  <2>2. CASE Activate(v) \/ Await(v) \/ Timeout(v) \/ TimedOut(v)
    BY <1>1, <2>2, Zenon DEF Activate, Await, Timeout, TimedOut
  <2>3. CASE CleanupMark(v) \/ CleanupRelease(v) \/ CleanupHostCluster(v)
    BY <1>1, <2>3, Zenon DEF CleanupMark, CleanupRelease, CleanupHostCluster
  <2>4. CASE Broadcast(v) \/ CleanupPush(v)
    BY <1>0, <2>4, ReconcilesTold, Zenon
  <2>5. CASE Send(v)
    BY <1>0, <2>5, CreatesTold, Zenon
  <2>6. CASE Dispatch(v) \/ SentMark(v)
    BY <1>0, <2>6, OutboxListed, Zenon
  <2>. QED  BY <2>1, <2>2, <2>3, <2>4, <2>5, <2>6, Zenon DEF CreateStep
<1>4. CASE \E v \in VMs : DeleteRead(v) \/ DeleteStep(v) \/ CancelDelete(v)
  <2>. SUFFICES ASSUME NEW v \in VMs, DeleteRead(v) \/ DeleteStep(v) \/ CancelDelete(v)
                PROVE  WireNext
    BY <1>4, Zenon
  <2>1. CASE DeletePush(v)
    BY <1>0, <2>1, ReconcilesTold, Zenon
  <2>2. CASE DeleteRead(v) \/ CancelDelete(v) \/ DeleteMark(v) \/ DeleteHostCluster(v)
    BY <1>1, <2>2, Zenon DEF DeleteRead, CancelDelete, DeleteMark, DeleteHostCluster
  <2>. QED  BY <2>1, <2>2, Zenon DEF DeleteStep
<1>5. CASE DcRead \/ DcStep
  <2>1. CASE \E h \in Hosts : DcPush(h)
    BY <1>0, <2>1, ReconcilesTold, Zenon
  <2>2. CASE DcRead \/ DcHosts \/ DcDone \/ \E v \in VMs : DcMark(v)
    BY <1>1, <2>2, Zenon DEF DcRead, DcHosts, DcDone, DcMark
  <2>. QED  BY <1>5, <2>1, <2>2, Zenon DEF DcStep
<1>6. CASE \E h \in Hosts : StreamStep(h)
  <2>. SUFFICES ASSUME NEW h \in Hosts, StreamStep(h) PROVE WireNext
    BY <1>6, Zenon
  <2>1. CASE Accept(h) \/ Register(h) \/ ListOutbox(h) \/ ReplayDone(h) \/ Release(h)
    BY <1>0, <2>1, StreamsTold, Zenon
  <2>2. CASE \E v \in VMs : ReplaySend(h, v)
    BY <1>0, <2>2, CreatesTold, Zenon
  <2>3. CASE ReplayMark(h)
    BY <1>0, <2>3, OutboxListed, Zenon
  <2>4. CASE ChannelClosed(h) \/ ReleaseLate(h)
    BY <1>1, <2>4, Zenon DEF ChannelClosed, ReleaseLate
  <2>. QED  BY <2>1, <2>2, <2>3, <2>4, Zenon DEF StreamStep
<1>7. CASE \E h \in Hosts : InboundStep(h) \/ Tick(h)
  <2>. SUFFICES ASSUME NEW h \in Hosts, InboundStep(h) \/ Tick(h) PROVE WireNext
    BY <1>7, Zenon
  <2>1. CASE Handle(h) \/ ApplyReport(h)
    BY <1>1, <2>1, Zenon DEF Handle, ApplyReport
  <2>2. CASE AckOutbox(h)
    BY <1>0, <2>2, OutboxListed, Zenon
  <2>3. CASE Tick(h)
    BY <1>0, <2>3, ReconcilesTold, Zenon
  <2>. QED  BY <2>1, <2>2, <2>3, Zenon DEF InboundStep
<1>8. CASE \E h \in Hosts : Heartbeat(h) \/ GoStale(h)
  BY <1>1, <1>8, Zenon DEF Heartbeat, GoStale
<1>9. CASE CheckStep
  BY <1>1, <1>9, Zenon DEF CheckStep, CheckSelect, CheckUpdate, CheckDone, Cascade
<1>. QED  BY <1>2, <1>3, <1>4, <1>5, <1>6, <1>7, <1>8, <1>9, Zenon DEF CtlNext

\* The steps of an agent: only the receipt of a command changes its stream.
LEMMA AgentWire ==
    ASSUME WireInv, NEW h \in Hosts, AgentStep(h)
    PROVE  WireInv'
<1>. USE DEF WireInv
<1>1. UNCHANGED <<outbox, replay, sess, create, host, doomed>>
  BY Zenon DEF AgentStep, AnyDial, AnyGetCommand, EndHandshake, SendReport, SendAck
<1>2. Onward
  BY <1>1, Zenon DEF Onward
<1>3. Listed'
  BY <1>1, <1>2, WireUndisturbed, Zenon
<1>4. CASE (\E v \in VMs, s \in {"running", "failed"} : SendReport(h, v, s))
            \/ \E c \in BOOLEAN, V \in SUBSET VMs : SendAck(h, c, V)
  <2>1. UNCHANGED <<link, down>>
    BY <1>4, Zenon DEF SendReport, SendAck
  <2>. QED  BY <1>1, <1>2, <1>3, <2>1, WireUndisturbed, Zenon
<1>5. CASE AnyDial(h) \/ EndHandshake(h)
  <2>1. /\ UNCHANGED down
        /\ \E s \in {"dialing", "up"} :
              /\ link' = [link EXCEPT ![h] = s]
              /\ link[h] # "dialing"
              /\ s = "up" => \A i \in 1..Len(down[h]) : down[h][i].type # "ack"
    BY <1>5, Zenon DEF AnyDial, EndHandshake
  <2>2. LinkType'
    BY <1>1, <2>1, Zenon DEF LinkType, Sessions
  <2>3. FirstAck'
    BY <1>1, <2>1, Zenon DEF LinkType, FirstAck
  <2>. QED  BY <1>2, <1>3, <2>1, <2>2, <2>3, WireUndisturbed, Zenon
<1>6. CASE AnyGetCommand(h)
  <2>1. /\ link[h] # "dialing" /\ down[h] # <<>> /\ UNCHANGED link
        /\ down' = [down EXCEPT ![h] = Tail(@)]
    BY <1>6, Zenon DEF AnyGetCommand, Connected
  <2>2. /\ Tail(down[h]) \in Seq(Commands)
        /\ \A i \in 1..Len(Tail(down[h])) :
              i + 1 \in 1..Len(down[h]) /\ Tail(down[h])[i] = down[h][i + 1]
    <3>1. down[h] \in Seq(Commands)
      BY Zenon DEF LinkType
    <3>. QED  BY <2>1, <3>1, HeadAndTail, Zenon
  <2>3. \A g \in Hosts : down'[g] = IF g = h THEN Tail(down[h]) ELSE down[g]
    BY <2>1, Zenon DEF LinkType
  <2>4. LinkType'
    BY <1>1, <2>1, <2>2, Zenon DEF LinkType
  <2>5. ASSUME NEW g \in Hosts, NEW i \in 1..Len(down'[g])
        PROVE  /\ \E j \in 1..Len(down[g]) : down'[g][i] = down[g][j] /\ (j # i => j = i + 1)
               /\ g = h => down'[g][i] = down[g][i + 1] /\ i + 1 \in 1..Len(down[g])
    BY <2>2, <2>3, Zenon
  <2>6. Told'
    <3>1. ASSUME NEW g \in Hosts, NEW i \in 1..Len(down'[g]) PROVE CommandOk(g, down[g][i])'
      <4>1. PICK j \in 1..Len(down[g]) : down'[g][i] = down[g][j]
        BY <2>5, Zenon
      <4>2. CommandOk(g, down[g][j])
        BY Zenon DEF Told
      <4>. QED  BY <1>1, <4>1, <4>2, Zenon DEF CommandOk, Sent
    <3>. QED  BY <3>1, Zenon DEF Told
  <2>7. FirstAck'
    <3>1. ASSUME NEW i \in 1..Len(down'[h]) PROVE down'[h][i].type # "ack"
      <4>1. i + 1 # 1 /\ down'[h][i] = down[h][i + 1] /\ i + 1 \in 1..Len(down[h])
        BY <2>2, <2>5
      <4>. QED  BY <4>1, Zenon DEF FirstAck
    <3>2. sess[h] \notin Accepting
      BY <2>1, Zenon DEF FirstAck
    <3>. QED  BY <1>1, <2>1, <2>3, <3>1, <3>2, ZenonT(60) DEF FirstAck
  <2>. QED  BY <1>3, <2>4, <2>6, <2>7, Zenon
<1>. QED  BY <1>4, <1>5, <1>6, Zenon DEF AgentStep

\* The streams of the hosts H end, and their replays with them.
StreamsEnd(H) ==
    /\ link' = [h \in Hosts |-> IF h \in H THEN "down" ELSE link[h]]
    /\ down' = [h \in Hosts |-> IF h \in H THEN <<>> ELSE down[h]]
    /\ sess' \in [Hosts -> {"none", "acked", "inserted", "replay", "up", "ending"}]
    /\ \A h \in Hosts : IF h \in H THEN sess'[h] \notin Accepting ELSE sess'[h] = sess[h]
    /\ replay' \in [Hosts -> [left : SUBSET VMs, cur : VMs \cup {NoVm}]]
    /\ \A h \in Hosts : /\ replay'[h].left \subseteq replay[h].left
                        /\ replay'[h].cur \in {NoVm, replay[h].cur}
    /\ outbox' = outbox

\* Lost sessions and restarts end the streams of some hosts.
LEMMA EndsWire ==
    ASSUME Inv, WireInv, Crash \/ \E h \in Hosts : LinkLost(h)
    PROVE  WireInv'
<1>. USE DEF WireInv
<1>0. Onward
  BY ControllerOnward, Zenon
<1>1. PICK H \in SUBSET Hosts : StreamsEnd(H)
  <2>0. /\ NoReplay \in [left : SUBSET VMs, cur : VMs \cup {NoVm}]
        /\ NoReplay.left = {} /\ NoReplay.cur = NoVm
    BY Zenon DEF NoReplay
  <2>1. CASE Crash
    <3>1. /\ link' = [h \in Hosts |-> "down"] /\ down' = [h \in Hosts |-> <<>>]
          /\ sess' = [h \in Hosts |-> "none"] /\ replay' = [h \in Hosts |-> NoReplay]
          /\ outbox' = outbox
      BY <2>1, Zenon DEF Crash
    <3>2. /\ link' = [h \in Hosts |-> IF h \in Hosts THEN "down" ELSE link[h]]
          /\ down' = [h \in Hosts |-> IF h \in Hosts THEN <<>> ELSE down[h]]
      BY <3>1, Zenon
    <3>3. /\ sess' \in [Hosts -> {"none", "acked", "inserted", "replay", "up", "ending"}]
          /\ \A h \in Hosts : sess'[h] \notin Accepting
      BY <3>1, Zenon DEF Accepting
    <3>4. /\ replay' \in [Hosts -> [left : SUBSET VMs, cur : VMs \cup {NoVm}]]
          /\ \A h \in Hosts : /\ replay'[h].left \subseteq replay[h].left
                              /\ replay'[h].cur \in {NoVm, replay[h].cur}
      BY <2>0, <3>1, Zenon
    <3>5. StreamsEnd(Hosts)
      BY <3>1, <3>2, <3>3, <3>4, Zenon DEF StreamsEnd
    <3>. QED  BY <3>5, Zenon
  <2>2. ASSUME NEW h \in Hosts, LinkLost(h) PROVE StreamsEnd({h})
    <3>1. /\ link' = [link EXCEPT ![h] = "down"] /\ down' = [down EXCEPT ![h] = <<>>]
          /\ sess' = [sess EXCEPT ![h] = IF @ \in {"up", "ending"} THEN "ending" ELSE "none"]
          /\ replay' = [replay EXCEPT ![h] = NoReplay] /\ outbox' = outbox
      BY <2>2, Zenon DEF LinkLost
    <3>2. /\ link' = [g \in Hosts |-> IF g \in {h} THEN "down" ELSE link[g]]
          /\ down' = [g \in Hosts |-> IF g \in {h} THEN <<>> ELSE down[g]]
      BY <3>1, Zenon DEF LinkType
    <3>3. /\ sess' \in [Hosts -> {"none", "acked", "inserted", "replay", "up", "ending"}]
          /\ \A g \in Hosts : IF g \in {h} THEN sess'[g] \notin Accepting ELSE sess'[g] = sess[g]
      BY <3>1, Zenon DEF LinkType, Accepting
    <3>4. /\ replay' \in [Hosts -> [left : SUBSET VMs, cur : VMs \cup {NoVm}]]
          /\ \A g \in Hosts : /\ replay'[g].left \subseteq replay[g].left
                              /\ replay'[g].cur \in {NoVm, replay[g].cur}
      BY <2>0, <3>1, Zenon DEF Listed
    <3>. QED  BY <3>1, <3>2, <3>3, <3>4, Zenon DEF StreamsEnd
  <2>. QED  BY <2>1, <2>2, Zenon
<1>2. \A h \in Hosts : /\ h \in H => link'[h] = "down" /\ down'[h] = <<>>
                       /\ h \notin H => link'[h] = link[h] /\ down'[h] = down[h]
  BY <1>1, Zenon DEF StreamsEnd
<1>3. LinkType'
  <2>1. <<>> \in Seq(Commands)
    OBVIOUS
  <2>. QED  BY <1>1, <2>1, Zenon DEF LinkType, Sessions, StreamsEnd
<1>4. Listed'
  BY <1>0, <1>1, ReplayKept, Zenon DEF Listed, Onward, StreamsEnd
<1>5. \A h \in Hosts : \A i \in 1..Len(down'[h]) : h \notin H
  <2>1. 1..Len(<<>>) = {}
    OBVIOUS
  <2>. QED  BY <1>2, <2>1, Zenon
<1>6. Told'
  <2>1. ASSUME NEW h \in Hosts, NEW i \in 1..Len(down'[h]) PROVE CommandOk(h, down[h][i])'
    <3>1. down'[h] = down[h]
      BY <1>2, <1>5, Zenon
    <3>2. CommandOk(h, down[h][i]) /\ down[h][i] \in Commands
      BY <3>1 DEF Told, LinkType
    <3>. QED  BY <1>0, <3>1, <3>2, StillSent, Zenon DEF CommandOk, Onward
  <2>. QED  BY <2>1, Zenon DEF Told
<1>7. FirstAck'
  BY <1>1, <1>2, <1>5 DEF FirstAck, StreamsEnd
<1>. QED  BY <1>3, <1>4, <1>6, <1>7, Zenon

\* At the start there is no session.
LEMMA InitWire == ASSUME NEW L, AnyInit(L) PROVE WireInv
<1>. USE DEF AnyInit, WireInit, CtlInit
<1>1. LinkType
  <2>1. <<>> \in Seq(Commands)
    OBVIOUS
  <2>. QED  BY <2>1, Zenon DEF LinkType, Sessions
<1>2. Listed
  BY Zenon DEF Listed, NoReplay
<1>3. Told /\ FirstAck
  BY DEF Told, FirstAck, Accepting
<1>. QED  BY <1>1, <1>2, <1>3, Zenon DEF WireInv

\* Every step keeps what an agent relies on.
LEMMA NextWire == ASSUME Inv, WireInv, [AnyNext]_anyVars PROVE WireInv'
<1>1. CASE UNCHANGED anyVars
  <2>1. Onward
    BY <1>1, Zenon DEF anyVars, Onward
  <2>. QED  BY <1>1, <2>1, WireUndisturbed, Zenon DEF anyVars, WireInv
<1>. QED  BY <1>1, ControllerWire, AgentWire, EndsWire, Zenon DEF AnyNext, WireNext

\* An agent of any behaviour is told only what the controller decided, and its
\* RegisterAck comes first: every CreateVm on its stream was dispatched to this
\* host, every tombstone is of a VM whose teardown was decided, and no command
\* is there without the RegisterAck before the session is handed over.
THEOREM StreamsAreTold ==
    ASSUME NEW L PROVE AnyFrom(L) => [](Told /\ FirstAck)
<1>1. AnyInit(L) => WireInv
  BY InitWire
<1>2. ASSUME Inv, WireInv, [AnyNext]_anyVars PROVE WireInv'
  BY <1>2, NextWire, Zenon
<1>3. WireInv => Told /\ FirstAck
  BY Zenon DEF WireInv
<1>4. AnyFrom(L) => []Inv
  BY InvHolds
<1>. QED  BY <1>1, <1>2, <1>3, <1>4, PTL DEF AnyFrom

=============================================================================
