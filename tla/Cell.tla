--------------------------------- MODULE Cell ---------------------------------
(***************************************************************************)
(* A cell: the controller and the agents of its hosts on the streams       *)
(* between them.  A lost session and a restart are steps of both ends.     *)
(***************************************************************************)
EXTENDS Controller, HostAgent

vars == <<ctlVars, agentVars, wireVars>>

Init == WireInit /\ CtlInit({}) /\ AgentInit

SessionLost(h) == LinkLost(h) /\ SessionEnds({h})

ControllerRestarts == Crash /\ SessionEnds(Hosts)

\* An agent that restarts loses its session if it has one.
AgentRestarts(h) ==
    /\ Restart(h)
    /\ LinkLost(h) \/ (link[h] = "down" /\ UNCHANGED <<ctlVars, wireVars>>)

Next ==
    \/ CtlNext /\ UNCHANGED agentVars
    \/ \E h \in Hosts : AgentNext(h) /\ UNCHANGED ctlVars
    \/ \E h \in Hosts : SessionLost(h) \/ AgentRestarts(h)
    \/ ControllerRestarts

Spec == Init /\ [][Next]_vars

\* Tasks of either process are polled, both clocks run, agents redial.  A task
\* that waits for room in a channel queues for it in order (tokio's mpsc is
\* first come, first served), so it is not overtaken forever: strong fairness.
Fairness ==
    /\ \A v \in VMs : SF_vars(CreateStep(v) /\ UNCHANGED agentVars)
                      /\ SF_vars(DeleteStep(v) /\ UNCHANGED agentVars)
                      /\ \A h \in Hosts, k \in 1..Creates :
                            SF_vars(CreateTask(h, v, k) /\ UNCHANGED ctlVars)
    /\ \A h \in Hosts :
          /\ WF_vars(StreamStep(h) /\ UNCHANGED agentVars)
          /\ WF_vars(InboundStep(h) /\ UNCHANGED agentVars)
          /\ SF_vars(Tick(h) /\ UNCHANGED agentVars)
          /\ WF_vars(SessionStep(h) /\ UNCHANGED ctlVars)
          /\ WF_vars(SweepStep(h) /\ UNCHANGED ctlVars)
          /\ \A k \in 1..Reconciles : SF_vars(ReconcileTask(h, k) /\ UNCHANGED ctlVars)

-----------------------------------------------------------------------------
\* What the agents hold has its type.
TypeOK ==
    /\ WireType
    /\ loc \in [Hosts -> [VMs -> [row : BOOLEAN, dir : {"none", "made", "iso"},
                                  disk : BOOLEAN, tap : {"none", "loose", "on"},
                                  unit : {"none", "dead", "running"},
                                  pending : BOOLEAN, tracked : BOOLEAN]]]
    /\ bridge \in [Hosts -> BOOLEAN]
    /\ cjob \in [Hosts -> [VMs -> [1..Creates ->
                    [step : {"none", "mkdir", "row", "disk", "tap", "spawn", "report",
                             "stop", "detach", "erase"},
                     ok : BOOLEAN, live : BOOLEAN]]]]
    /\ rjob \in [Hosts -> [1..Reconciles ->
                    [step : {"none", "clusters", "vms", "detach", "erase", "done"},
                     active : BOOLEAN, ctomb : BOOLEAN, left : SUBSET VMs,
                     cur : VMs \cup {NoVm}, acked : SUBSET VMs, live : BOOLEAN,
                     inline : BOOLEAN]]]
    /\ sweep \in [Hosts -> [step : {"none", "begin", "units", "lvs", "dirs"},
                            known : SUBSET VMs, left : SUBSET VMs, cur : VMs \cup {NoVm},
                            del : {"stop", "detach", "erase"}]]
    /\ afaults \in 0..MaxAgentFaults

\* A machine CreateMachine answered for is there: until its teardown is
\* decided, its host keeps its local row and its unit, whatever creates, reports,
\* reconciles, rollbacks and deletes of it and of others run at the same time.
AnsweredVmRuns ==
    \A v \in Rows \ doomed :
        create[v] = "ok" => loc[host[v]][v].row /\ loc[host[v]][v].unit # "none"

\* The tap of a VM nobody decided to tear down stays on its cluster's bridge,
\* through deletes of its siblings, lost sessions and restarts on both sides.
LiveTapOnBridge ==
    \A v \in Rows \ doomed, h \in Hosts :
        host[v] = h => /\ loc[h][v].tap # "loose"
                       /\ loc[h][v].tap = "on" => bridge[h]

\* VmManager's notes last exactly as long as the create task.  A sweep that
\* begins while a task is past its first step knows the VM, by its row or by a
\* note, also when a delete has just removed them; and a pending mark does not
\* outlive the task.
NotesMatchTasks ==
    /\ \A h \in Hosts, v \in VMs : Building(h, v) => v \in Known(h)
    /\ PendingEnds

\* Every tombstone is drained: through lost sessions and failed teardowns the
\* reconcile is repeated until the agent's acknowledgement drops the row.
TombstonesDrain == \A v \in VMs : state[v] = "teardown" ~> state[v] # "teardown"
===============================================================================
