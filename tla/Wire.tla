--------------------------------- MODULE Wire ---------------------------------
(***************************************************************************)
(* The gRPC stream between the controller and the agent of each host: one  *)
(* ordered channel per direction while the agent's session lasts.  A lost  *)
(* session loses every command that was not yet received and any suffix of *)
(* the messages.                                                           *)
(*                                                                         *)
(* One cluster is followed.  A reconcile command is reduced to whether it  *)
(* lists the cluster as active, whether it carries the cluster's tombstone *)
(* and which VMs it tombstones; the RegisterAck carries the same thing.    *)
(***************************************************************************)
EXTENDS Integers, Sequences, FiniteSets

CONSTANTS
    Hosts,
    VMs,         \* vm_ids, one for each CreateMachine call
    NoVm,
    DownBound, UpBound  \* capacity of each direction (mpsc::channel(32) on both
                        \* sides in the code)

ASSUME ChanAssumption ==
    DownBound \in Nat \ {0} /\ UpBound \in Nat \ {0} /\ NoVm \notin VMs

VARIABLES
    link,    \* link[h]: the session: "down", "dialing" (no response yet),
             \*          "handshake" (no RegisterAck yet) or "up"
    down,    \* down[h]: commands on their way to the agent
    up       \* up[h]: messages on their way to the controller

wireVars == <<link, down, up>>

CreateVm(v) == [type |-> "create", vm |-> v]
ReconcileCommands ==
    [type : {"ack", "reconcile"}, active : BOOLEAN, ctomb : BOOLEAN, vtombs : SUBSET VMs]
Commands == {CreateVm(v) : v \in VMs} \cup ReconcileCommands

VmState(v, s) == [type |-> "state", vm |-> v, st |-> s]
TombstoneAck(c, V) == [type |-> "tombs", cluster |-> c, vms |-> V]
Messages ==
    {VmState(v, s) : v \in VMs, s \in {"running", "failed"}}
        \cup [type : {"tombs"}, cluster : BOOLEAN, vms : SUBSET VMs]

Sessions == {"down", "dialing", "handshake", "up"}

WireInit ==
    /\ link = [h \in Hosts |-> "down"]
    /\ down = [h \in Hosts |-> <<>>]
    /\ up = [h \in Hosts |-> <<>>]

WireType ==
    /\ link \in [Hosts -> Sessions]
    /\ down \in [Hosts -> Seq(Commands)]
    /\ up \in [Hosts -> Seq(Messages)]

\* mpsc send: waits for room.
HasRoom(h) == Len(down[h]) < DownBound
Emit(h, m) == Len(up[h]) < UpBound /\ up' = [up EXCEPT ![h] = Append(@, m)]
===============================================================================
