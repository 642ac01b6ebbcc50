------------------------------- MODULE AnyAgent -------------------------------
(***************************************************************************)
(* The controller against the most general agents it can rely on: the      *)
(* agent of a host connects when it likes, reports any outcome for a VM    *)
(* that was dispatched to it, and acknowledges the cluster's tombstone and *)
(* the tombstones of VMs whose teardown was decided, in any order, any     *)
(* number of times, before or after a reconnect or a restart of its own.   *)
(* What holds here holds for every agent that acknowledges no VM it was    *)
(* not told to tear down.                                                  *)
(***************************************************************************)
EXTENDS Controller

anyVars == <<ctlVars, wireVars>>

\* L: the hosts the cluster is still leaving.
AnyInit(L) == WireInit /\ CtlInit(L)

-----------------------------------------------------------------------------
Connected == {"handshake", "up"}

AnyDial(h) ==
    /\ link[h] = "down"
    /\ link' = [link EXCEPT ![h] = "dialing"]
    /\ UNCHANGED <<ctlVars, down, up>>

\* A command arrives.
AnyGetCommand(h) ==
    /\ link[h] \in Connected /\ down[h] # <<>>
    /\ down' = [down EXCEPT ![h] = Tail(@)]
    /\ UNCHANGED <<ctlVars, link, up>>

\* The RegisterAck was received and has been applied.
EndHandshake(h) ==
    /\ link[h] = "handshake"
    /\ \A i \in 1..Len(down[h]) : down[h][i].type # "ack"
    /\ link' = [link EXCEPT ![h] = "up"]
    /\ UNCHANGED <<ctlVars, down, up>>

\* The command is in the outbox, where the replay finds it, from "send" on.
Dispatched == {"send", "sent", "wait", "timeout", "ok", "c_mark", "c_release", "c_hc",
               "c_push", "error", "lost"}

SendReport(h, v, s) ==
    /\ link[h] = "up" /\ host[v] = h /\ create[v] \in Dispatched
    /\ Emit(h, VmState(v, s))
    /\ UNCHANGED <<ctlVars, link, down>>

\* The handshake acknowledges what the RegisterAck tombstones.
SendAck(h, c, V) ==
    /\ link[h] \in Connected /\ V \subseteq doomed /\ (c \/ V # {})
    /\ Emit(h, TombstoneAck(c, V))
    /\ UNCHANGED <<ctlVars, link, down>>

AgentStep(h) ==
    \/ AnyDial(h) \/ AnyGetCommand(h) \/ EndHandshake(h)
    \/ \E v \in VMs, s \in {"running", "failed"} : SendReport(h, v, s)
    \/ \E c \in BOOLEAN, V \in SUBSET VMs : SendAck(h, c, V)

AnyNext == CtlNext \/ Crash \/ \E h \in Hosts : LinkLost(h) \/ AgentStep(h)

AnySpec == AnyInit({}) /\ [][AnyNext]_anyVars

\* The controller's tasks are polled, its clock runs, and a connected agent
\* reads its stream.  Nothing is assumed of what an agent answers.
FairSpec ==
    /\ AnySpec
    /\ \A v \in VMs : WF_anyVars(CreateStep(v))
    /\ \A h \in Hosts : WF_anyVars(StreamStep(h)) /\ WF_anyVars(InboundStep(h))
                         /\ WF_anyVars(AnyGetCommand(h))
    /\ WF_anyVars(CheckStep)

-----------------------------------------------------------------------------
VmStates == {"none", "creating", "running", "failed", "teardown"}
CreateSteps == Ended \cup Unactivated \cup
    {"broadcast", "dispatch", "send", "sent", "wait", "timeout",
     "c_mark", "c_release", "c_hc", "c_push"}

\* Every variable of the controller and the wire has its type.
AnyTypeOK ==
    /\ WireType
    /\ cluster \in BOOLEAN
    /\ state \in [VMs -> VmStates]
    /\ host \in [VMs -> Hosts \cup {NoHost}]
    /\ name \in [VMs -> Names \cup {NoName}]
    /\ ip \in [VMs -> Ips \cup {NoIp}]
    /\ owner \in [Ips -> VMs \cup {NoVm}]
    /\ hc \in [Hosts -> {"none", "active", "pending"}]
    /\ outbox \in [VMs -> {"none", "pending", "sent"}]
    /\ healthy \in [Hosts -> BOOLEAN]
    /\ fresh \in [Hosts -> BOOLEAN]
    /\ create \in [VMs -> CreateSteps]
    /\ attempt \in [VMs -> 1..MaxAttempts]
    /\ reply \in [VMs -> VMs \cup {NoVm}]
    /\ waiter \in [VMs -> {"none", "waiting", "ok", "failed", "closed"}]
    /\ del \in [VMs -> {"idle", "mark", "hc", "push"}]
    /\ dc \in {"idle", "mark", "push"}
    /\ dcLeft \subseteq (IF dc = "push" THEN Hosts ELSE VMs)
    /\ entry \in [Hosts -> {"none", "open", "half", "closed"}]
    /\ sess \in [Hosts -> {"none", "acked", "inserted", "replay", "up", "ending"}]
    /\ late \in [Hosts -> {"none", "holds", "superseded"}]
    /\ replay \in [Hosts -> [left : SUBSET VMs, cur : VMs \cup {NoVm}]]
    /\ reading \in [Hosts -> [vm : VMs \cup {NoVm}, st : {"none", "running", "failed"},
                              prev : VmStates, step : {"idle", "apply", "outbox"}]]
    /\ checker \in {"idle", "update", "cascade"}
    /\ stale \subseteq Hosts
    /\ faults \in 0..MaxFaults /\ deletes \in 0..MaxDeletes
    /\ doomed \subseteq VMs

\* A host keeps the cluster up for its VMs: while a VM that was set going and
\* that nobody decided to tear down has its row, the host_clusters row of its
\* host is ACTIVE, whatever deletes, cleanups, late acknowledgements and
\* reactivations of its siblings interleave (DeleteCluster apart).
HostClusterKept ==
    \A v \in Rows \ doomed :
        create[v] \notin Unactivated \cup {"dropped"} => hc[host[v]] = "active"

\* A VM keeps its address: while nobody decided to tear it down, the
\* ip_allocations row of its address names it.
VmIpHeld == \A v \in Rows \ doomed : ip[v] \in Ips /\ owner[ip[v]] = v

\* CreateMachine is idempotent by name: two calls with the same name that both
\* return a VM return the same one, unless the teardown of one was decided.
IdempotentByName ==
    \A v, w \in VMs :
        reply[v] # NoVm /\ reply[w] # NoVm /\ name[v] = name[w]
            => reply[v] = reply[w] \/ {reply[v], reply[w]} \cap doomed # {}

\* The clusters row is the last to go: once it is gone no vms and no
\* host_clusters row of the cluster is left, and none appears.
ClusterRowLast == ~cluster => Rows = {} /\ \A h \in Hosts : hc[h] = "none"

\* A CreateMachine call that waits for its agent is woken when the stream ends:
\* the host has an entry in the agents map, whose release cancels it.
WaiterHasStream ==
    \A v \in VMs : create[v] = "wait" /\ waiter[v] = "waiting" => entry[host[v]] # "none"

\* Every CreateMachine call ends, answered or not: no send, lock, retry or wait
\* holds it forever.
CreateReturns == \A v \in VMs : create[v] # "idle" ~> create[v] \in Ended

\* An agent that dials is registered or loses its session: stream_messages
\* does not wait for itself.
DialAnswered == \A h \in Hosts : link[h] = "dialing" ~> link[h] # "dialing"
===============================================================================
