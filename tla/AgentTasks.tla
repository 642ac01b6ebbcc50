------------------------------ MODULE AgentTasks ------------------------------
(***************************************************************************)
(* The tasks of an agent that work on the volumes of a host.  Of a VM at   *)
(* most one create_vm and one delete_vm run at a time here (HostAgent has  *)
(* several of each); a create that fails runs delete_vm itself.  The       *)
(* orphan sweep removes the volumes of a VM that has no row.               *)
(***************************************************************************)
EXTENDS Naturals, FiniteSets

CONSTANTS
    VMs,
    NoTask,
    Faults,      \* which of "net", "convert", "torn", "spawn", "lvm", "busy", "db",
                 \* "boot", "stop" and "crash" may happen,
    MaxFaults    \* and how often between them

Tasks == {"create", "delete", "sweep"} \X VMs

ASSUME TaskAssumption == NoTask \notin Tasks

VmOf(t) == t[2]

VARIABLES
    pc,         \* where each task is; "idle" when there is none
    booted,     \* booted[v]: the hypervisor of the VM runs, from its volumes
    faults,     \* faults so far
    happened    \* their kinds (history)

taskVars == <<pc, booted, faults, happened>>

TaskInit ==
    /\ pc = [t \in Tasks |-> "idle"]
    /\ booted = [v \in VMs |-> FALSE]
    /\ faults = 0
    /\ happened = {}

Goto(t, l) == pc' = [pc EXCEPT ![t] = l]

NoFault == UNCHANGED <<faults, happened>>

Fault(f) ==
    /\ f \in Faults /\ faults < MaxFaults
    /\ faults' = faults + 1
    /\ happened' = happened \cup {f}

\* A semaphore with one permit, or a mutex: who holds it.  A task that ends,
\* or whose `?` returns, drops the permits it holds.
Freed(holder, t) == IF holder = t THEN NoTask ELSE holder
===============================================================================
