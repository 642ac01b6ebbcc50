---------------------------- MODULE HostAgentProofs ----------------------------
(***************************************************************************)
(* What the steps of an agent may do to its tasks and to its host, for any *)
(* number of hosts, VMs and concurrent tasks.  CellProofs uses it to show  *)
(* that the agents of a cell are agents the controller can rely on.        *)
(***************************************************************************)
EXTENDS HostAgent, TLAPS

-----------------------------------------------------------------------------
Holdings == [row : BOOLEAN, dir : {"none", "made", "iso"}, disk : BOOLEAN,
             tap : {"none", "loose", "on"}, unit : {"none", "dead", "running"},
             pending : BOOLEAN, tracked : BOOLEAN]
CreateJobs == [step : {"none", "mkdir", "row", "disk", "tap", "spawn", "report", "stop",
                       "detach", "erase"},
               ok : BOOLEAN, live : BOOLEAN]
ReconcileJobs == [step : {"none", "clusters", "vms", "detach", "erase", "done"},
                  active : BOOLEAN, ctomb : BOOLEAN, left : SUBSET VMs,
                  cur : VMs \cup {NoVm}, acked : SUBSET VMs, live : BOOLEAN,
                  inline : BOOLEAN]

\* The types of what a host holds and of the agent's tasks.
AgentType ==
    /\ loc \in [Hosts -> [VMs -> Holdings]]
    /\ cjob \in [Hosts -> [VMs -> [1..Creates -> CreateJobs]]]
    /\ rjob \in [Hosts -> [1..Reconciles -> ReconcileJobs]]

\* The agent's own invariant: only the handshake's task waits to be seen done, and
\* pending marks end with their create tasks.
AgentInv ==
    /\ AgentType
    /\ \A h \in Hosts, k \in 1..Reconciles : rjob[h][k].step = "done" => rjob[h][k].inline
    /\ PendingEnds

Steps == {"row", "disk", "tap", "spawn"}

\* The VMs a reconcile task tears down, has torn down, or is at.
Targets(j) == j.left \cup j.acked \cup ({j.cur} \ {NoVm})

-----------------------------------------------------------------------------
USE AgentAssumption, ChanAssumption DEF agentVars, wireVars

\* What a step of the agent makes of what a host holds of a VM, of a create
\* task and of a reconcile task.
LocIs(h, v, x) ==
    /\ loc' \in [Hosts -> [VMs -> Holdings]]
    /\ \A g \in Hosts, w \in VMs : loc'[g][w] = IF g = h /\ w = v THEN x ELSE loc[g][w]
CreateIs(h, v, k, j) ==
    /\ cjob' \in [Hosts -> [VMs -> [1..Creates -> CreateJobs]]]
    /\ \A g \in Hosts, w \in VMs, i \in 1..Creates :
          cjob'[g][w][i] = IF g = h /\ w = v /\ i = k THEN j ELSE cjob[g][w][i]
ReconcileIs(h, k, j) ==
    /\ rjob' \in [Hosts -> [1..Reconciles -> ReconcileJobs]]
    /\ \A g \in Hosts, i \in 1..Reconciles :
          rjob'[g][i] = IF g = h /\ i = k THEN j ELSE rjob[g][i]

\* What is written in these tables changes one place of them.
LEMMA AgentWrites ==
    ASSUME AgentType, NEW h \in Hosts
    PROVE  /\ \A v \in VMs, x \in Holdings : SetLoc(h, v, x) => LocIs(h, v, x)
           /\ \A v \in VMs : UNCHANGED loc => LocIs(h, v, loc[h][v])
           /\ \A v \in VMs, k \in 1..Creates, j \in CreateJobs :
                 cjob' = [cjob EXCEPT ![h][v][k] = j] => CreateIs(h, v, k, j)
           /\ \A k \in 1..Reconciles, j \in ReconcileJobs : RJob(h, k, j) => ReconcileIs(h, k, j)
<1>1. ASSUME NEW v \in VMs, NEW x \in Holdings, SetLoc(h, v, x) PROVE LocIs(h, v, x)
  BY <1>1, Zenon DEF SetLoc, AgentType, LocIs
<1>2. ASSUME NEW v \in VMs, NEW k \in 1..Creates, NEW j \in CreateJobs,
             cjob' = [cjob EXCEPT ![h][v][k] = j]
      PROVE  CreateIs(h, v, k, j)
  BY <1>2 DEF AgentType, CreateIs
<1>3. ASSUME NEW k \in 1..Reconciles, NEW j \in ReconcileJobs, RJob(h, k, j)
      PROVE  ReconcileIs(h, k, j)
  BY <1>3, Zenon DEF RJob, AgentType, ReconcileIs
<1>4. ASSUME NEW v \in VMs, UNCHANGED loc PROVE LocIs(h, v, loc[h][v])
  BY <1>4, Zenon DEF AgentType, LocIs
<1>. QED  BY <1>1, <1>2, <1>3, <1>4, Zenon

\* delete_vm takes from a host and adds nothing.
LEMMA DeleteTakes ==
    ASSUME AgentType, NEW h \in Hosts, NEW v \in VMs, NEW s, NEW t, DeleteVm(h, v, s, t)
    PROVE  \E x \in Holdings : /\ LocIs(h, v, x) /\ (x.row => loc[h][v].row)
                               /\ x.pending = loc[h][v].pending
<1>. DEFINE y == loc[h][v]
<1>1. y \in Holdings
  BY DEF AgentType
<1>2. /\ [y EXCEPT !.unit = "none", !.tracked = FALSE] \in Holdings
      /\ [y EXCEPT !.dir = "none", !.tap = "none"] \in Holdings
      /\ [y EXCEPT !.disk = FALSE, !.row = FALSE] \in Holdings
      /\ [y EXCEPT !.unit = "none", !.tracked = FALSE].row = y.row
      /\ [y EXCEPT !.dir = "none", !.tap = "none"].row = y.row
      /\ [y EXCEPT !.disk = FALSE, !.row = FALSE].row = FALSE
      /\ [y EXCEPT !.unit = "none", !.tracked = FALSE].pending = y.pending
      /\ [y EXCEPT !.dir = "none", !.tap = "none"].pending = y.pending
      /\ [y EXCEPT !.disk = FALSE, !.row = FALSE].pending = y.pending
  BY <1>1, Zenon DEF Holdings
<1>3. UNCHANGED loc \/ \E x \in Holdings : /\ SetLoc(h, v, x) /\ (x.row => y.row)
                                             /\ x.pending = y.pending
  BY <1>2, Zenon DEF DeleteVm
<1>4. CASE UNCHANGED loc
  BY <1>1, <1>4, AgentWrites, Zenon
<1>5. CASE \E x \in Holdings : SetLoc(h, v, x) /\ (x.row => y.row) /\ x.pending = y.pending
  BY <1>5, AgentWrites, Zenon
<1>. QED  BY <1>3, <1>4, <1>5, Zenon

\* A step that goes on with the tasks the agent has: a row appears only where a
\* create task runs, no task is given VMs to tear down, and the handshake's own
\* task stays until the session is over.
Calm ==
    /\ AgentInv'
    /\ \A h \in Hosts, v \in VMs :
          loc'[h][v].row => loc[h][v].row \/ \E k \in 1..Creates : cjob[h][v][k].step # "none"
    /\ \A h \in Hosts, v \in VMs, k \in 1..Creates :
          /\ cjob'[h][v][k].step # "none" => cjob[h][v][k].step # "none"
          /\ cjob'[h][v][k].live => cjob[h][v][k].live
    /\ \A h \in Hosts, k \in 1..Reconciles :
          /\ Targets(rjob'[h][k]) \subseteq Targets(rjob[h][k])
          /\ rjob'[h][k].live => rjob[h][k].live
          /\ rjob'[h][k].inline => rjob[h][k].inline
          /\ rjob[h][k].inline /\ link[h] # "down" => rjob'[h][k].inline

\* No pending mark appears but where a task is building, and none loses its task.
LEMMA PendingKept ==
    ASSUME PendingEnds,
           \A h \in Hosts, v \in VMs : loc'[h][v].pending =>
              \/ \E k \in 1..Creates : cjob'[h][v][k].step \in Steps
              \/ /\ loc[h][v].pending
                 /\ \A k \in 1..Creates : cjob[h][v][k].step \in Steps
                                             => cjob'[h][v][k].step \in Steps
    PROVE  PendingEnds'
BY DEF PendingEnds, Building, Steps

\* A create task goes on or ends, and changes what the host holds of its VM.
LEMMA CreateGoesOn ==
    ASSUME AgentInv, NEW h \in Hosts, NEW v \in VMs, NEW k \in 1..Creates,
           cjob[h][v][k].step # "none", UNCHANGED rjob,
           NEW j \in CreateJobs, CreateIs(h, v, k, j), j.live => cjob[h][v][k].live,
           NEW x \in Holdings, LocIs(h, v, x),
           x.pending => \/ j.step \in Steps
                        \/ loc[h][v].pending /\ cjob[h][v][k].step \notin Steps
    PROVE  Calm
<1>. USE DEF AgentInv
<1>1. /\ loc' \in [Hosts -> [VMs -> Holdings]]
      /\ cjob' \in [Hosts -> [VMs -> [1..Creates -> CreateJobs]]]
  BY Zenon DEF LocIs, CreateIs
<1>2. AgentType'
  BY <1>1, Zenon DEF AgentType
<1>3. \A g \in Hosts, w \in VMs, i \in 1..Creates :
         /\ cjob'[g][w][i].step # "none" => cjob[g][w][i].step # "none"
         /\ cjob'[g][w][i].live => cjob[g][w][i].live
  BY DEF CreateIs
<1>4. \A g \in Hosts, w \in VMs :
         loc'[g][w].row => loc[g][w].row \/ \E i \in 1..Creates : cjob[g][w][i].step # "none"
  BY Zenon DEF LocIs
<1>5. PendingEnds'
  <2>1. ASSUME NEW g \in Hosts, NEW w \in VMs, loc'[g][w].pending
        PROVE  \/ \E i \in 1..Creates : cjob'[g][w][i].step \in Steps
               \/ /\ loc[g][w].pending
                  /\ \A i \in 1..Creates : cjob[g][w][i].step \in Steps
                                              => cjob'[g][w][i].step \in Steps
    <3>1. CASE g = h /\ w = v
      <4>1. loc'[g][w] = x /\ cjob'[g][w][k] = j
        BY <3>1, Zenon DEF LocIs, CreateIs
      <4>2. \A i \in 1..Creates : i = k \/ cjob'[g][w][i] = cjob[g][w][i]
        BY <3>1, Zenon DEF CreateIs
      <4>. QED  BY <2>1, <3>1, <4>1, <4>2, Zenon
    <3>2. CASE ~(g = h /\ w = v)
      <4>1. loc'[g][w] = loc[g][w] /\ \A i \in 1..Creates : cjob'[g][w][i] = cjob[g][w][i]
        BY <3>2 DEF LocIs, CreateIs
      <4>. QED  BY <2>1, <4>1, Zenon
    <3>. QED  BY <3>1, <3>2, Zenon
  <2>. QED  BY <2>1, PendingKept, Zenon
<1>6. AgentInv'
  BY <1>2, <1>5, Zenon
<1>. QED  BY <1>3, <1>4, <1>6, Zenon DEF Calm

\* What a step of a create task does to the task.
LEMMA CreateJobSet ==
    ASSUME AgentType, NEW h \in Hosts, NEW v \in VMs, NEW k \in 1..Creates
    PROVE  /\ \A s \in {"row", "disk", "tap", "spawn", "report", "detach", "erase"} :
                 CGoto(h, v, k, s) =>
                    \E j \in CreateJobs : /\ j.live = cjob[h][v][k].live /\ j.step = s
                                          /\ CreateIs(h, v, k, j)
           /\ CFail(h, v, k) =>
                 /\ \E x \in Holdings : LocIs(h, v, x) /\ ~x.pending /\ x.row = loc[h][v].row
                 /\ \E j \in CreateJobs : /\ j.live = cjob[h][v][k].live /\ j.step = "stop"
                                          /\ CreateIs(h, v, k, j)
<1>. DEFINE c == cjob[h][v][k]
<1>0. c \in CreateJobs /\ loc[h][v] \in Holdings
  BY DEF AgentType
<1>1. ASSUME NEW s \in {"row", "disk", "tap", "spawn", "report", "detach", "erase"},
             CGoto(h, v, k, s)
      PROVE  \E j \in CreateJobs : /\ j.live = cjob[h][v][k].live /\ j.step = s
                                   /\ CreateIs(h, v, k, j)
  <2>1. [c EXCEPT !.step = s] \in CreateJobs /\ [c EXCEPT !.step = s].live = c.live
        /\ [c EXCEPT !.step = s].step = s
    BY <1>0, Zenon DEF CreateJobs
  <2>2. CreateIs(h, v, k, [c EXCEPT !.step = s])
    <3>1. cjob' = [cjob EXCEPT ![h][v][k] = [c EXCEPT !.step = s]]
      BY <1>1, Zenon DEF CGoto
    <3>. QED  BY <2>1, <3>1, AgentWrites, Zenon
  <2>. QED  BY <2>1, <2>2, Zenon
<1>2. ASSUME CFail(h, v, k)
      PROVE  /\ \E x \in Holdings : LocIs(h, v, x) /\ ~x.pending /\ x.row = loc[h][v].row
             /\ \E j \in CreateJobs : /\ j.live = cjob[h][v][k].live /\ j.step = "stop"
                                      /\ CreateIs(h, v, k, j)
  <2>1. /\ [c EXCEPT !.step = "stop", !.ok = FALSE] \in CreateJobs
        /\ [c EXCEPT !.step = "stop", !.ok = FALSE].live = c.live
        /\ [c EXCEPT !.step = "stop", !.ok = FALSE].step = "stop"
    BY <1>0, Zenon DEF CreateJobs
  <2>2. CreateIs(h, v, k, [c EXCEPT !.step = "stop", !.ok = FALSE])
    <3>. DEFINE b == [c EXCEPT !.step = "stop"]
                d == [cjob EXCEPT ![h][v][k] = b]
    <3>1. b \in CreateJobs /\ [b EXCEPT !.ok = FALSE] = [c EXCEPT !.step = "stop", !.ok = FALSE]
      BY <1>0, Zenon DEF CreateJobs
    <3>2. /\ d \in [Hosts -> [VMs -> [1..Creates -> CreateJobs]]]
          /\ \A g \in Hosts, w \in VMs, i \in 1..Creates :
                d[g][w][i] = IF g = h /\ w = v /\ i = k THEN b ELSE cjob[g][w][i]
      <4>1. cjob \in [Hosts -> [VMs -> [1..Creates -> CreateJobs]]]
        BY Zenon DEF AgentType
      <4>. QED  BY <3>1, <4>1
    <3>3. cjob' = [d EXCEPT ![h][v][k] = [d[h][v][k] EXCEPT !.ok = FALSE]]
      BY <1>2, Zenon DEF CFail
    <3>4. PICK e \in CreateJobs : e = [c EXCEPT !.step = "stop", !.ok = FALSE]
      BY <2>1, Zenon
    <3>. HIDE DEF d, b
    <3>5. cjob' = [d EXCEPT ![h][v][k] = e]
      BY <3>1, <3>2, <3>3, <3>4, Zenon
    <3>6. /\ cjob' \in [Hosts -> [VMs -> [1..Creates -> CreateJobs]]]
          /\ \A g \in Hosts, w \in VMs, i \in 1..Creates :
                cjob'[g][w][i] = IF g = h /\ w = v /\ i = k THEN e ELSE d[g][w][i]
      BY <3>2, <3>5
    <3>7. CreateIs(h, v, k, e)
      <4>1. \A g \in Hosts, w \in VMs, i \in 1..Creates :
                d[g][w][i] = IF g = h /\ w = v /\ i = k THEN b ELSE cjob[g][w][i]
        BY <3>2, Zenon
      <4>2. ASSUME NEW g \in Hosts, NEW w \in VMs, NEW i \in 1..Creates
            PROVE  cjob'[g][w][i] = IF g = h /\ w = v /\ i = k THEN e ELSE cjob[g][w][i]
        <5>1. CASE g = h /\ w = v /\ i = k
          BY <3>6, <5>1, Zenon
        <5>2. CASE ~(g = h /\ w = v /\ i = k)
          BY <3>6, <4>1, <5>2
        <5>. QED  BY <5>1, <5>2, Zenon
      <4>. QED  BY <3>6, <4>2, Zenon DEF CreateIs
    <3>. QED  BY <3>4, <3>7, Zenon
  <2>3. /\ [loc[h][v] EXCEPT !.pending = FALSE] \in Holdings
        /\ ~[loc[h][v] EXCEPT !.pending = FALSE].pending
        /\ [loc[h][v] EXCEPT !.pending = FALSE].row = loc[h][v].row
    BY <1>0, Zenon DEF Holdings
  <2>. QED  BY <1>2, <2>1, <2>2, <2>3, AgentWrites, Zenon DEF CFail
<1>. QED  BY <1>1, <1>2, Zenon

\* Each step of a create task is calm.
LEMMA CreatesCalm ==
    ASSUME AgentInv, NEW h \in Hosts, NEW v \in VMs, NEW k \in 1..Creates,
           CreateTask(h, v, k)
    PROVE  Calm /\ UNCHANGED <<link, down>>
<1>. DEFINE c == cjob[h][v][k]
            y == loc[h][v]
<1>0. AgentType /\ c \in CreateJobs /\ y \in Holdings
  BY DEF AgentInv, AgentType
<1>1. UNCHANGED <<link, down, rjob>> /\ c.step # "none"
  BY Zenon DEF CreateTask, CreateMkdir, CreateRow, CreateDisk, CreateTap, CreateSpawn,
     CreateRollback, DeleteVm, CreateReport
<1>2. ASSUME CFail(h, v, k) PROVE Calm
  BY <1>0, <1>1, <1>2, CreateJobSet, CreateGoesOn
<1>3. ASSUME NEW x \in Holdings, SetLoc(h, v, x), NEW s \in Steps, CGoto(h, v, k, s)
      PROVE  Calm
  BY <1>0, <1>1, <1>3, CreateJobSet, CreateGoesOn, AgentWrites DEF Steps
<1>4. CASE CreateMkdir(h, v, k)
  <2>1. [y EXCEPT !.pending = TRUE, !.dir = IF @ = "none" THEN "made" ELSE @] \in Holdings
    BY <1>0, Zenon DEF Holdings
  <2>. QED  BY <1>3, <1>4, <2>1, Zenon DEF CreateMkdir, Steps
<1>5. CASE CreateRow(h, v, k)
  <2>1. [y EXCEPT !.row = TRUE] \in Holdings
    BY <1>0, Zenon DEF Holdings
  <2>. QED  BY <1>2, <1>3, <1>5, <2>1, Zenon DEF CreateRow, Steps
<1>6. CASE CreateDisk(h, v, k)
  <2>1. [y EXCEPT !.disk = TRUE, !.dir = "iso"] \in Holdings
    BY <1>0, Zenon DEF Holdings
  <2>. QED  BY <1>2, <1>3, <1>6, <2>1, Zenon DEF CreateDisk, Steps
<1>7. CASE CreateTap(h, v, k)
  <2>1. [y EXCEPT !.tap = "on"] \in Holdings
    BY <1>0, Zenon DEF Holdings
  <2>. QED  BY <1>2, <1>3, <1>7, <2>1, Zenon DEF CreateTap, Steps
<1>8. CASE CreateSpawn(h, v, k)
  <2>. DEFINE x == [y EXCEPT !.unit = IF y.disk /\ y.dir = "iso" THEN "running" ELSE "dead",
                             !.dir = IF @ = "none" THEN "made" ELSE @,
                             !.tracked = TRUE, !.pending = FALSE]
  <2>1. x \in Holdings /\ ~x.pending
    BY <1>0, Zenon DEF Holdings
  <2>2. CFail(h, v, k) \/ (SetLoc(h, v, x) /\ CGoto(h, v, k, "report"))
    BY <1>8, Zenon DEF CreateSpawn
  <2>. HIDE DEF x
  <2>3. CASE SetLoc(h, v, x) /\ CGoto(h, v, k, "report")
    BY <1>0, <1>1, <2>1, <2>3, CreateJobSet, CreateGoesOn, AgentWrites
  <2>. QED  BY <1>1, <1>2, <2>2, <2>3, Zenon
<1>9. CASE CreateRollback(h, v, k)
  <2>1. PICK t \in DeleteSteps :
               /\ DeleteVm(h, v, c.step, t)
               /\ CGoto(h, v, k, IF t \in {"gone", "error"} THEN "report" ELSE t)
    BY <1>9, Zenon DEF CreateRollback
  <2>2. t # "stop" /\ c.step \notin Steps
    BY <2>1, Zenon DEF DeleteVm, Steps
  <2>3. PICK s \in {"report", "detach", "erase"} : CGoto(h, v, k, s)
    BY <2>1, <2>2, Zenon DEF DeleteSteps
  <2>4. PICK x \in Holdings : LocIs(h, v, x) /\ x.pending = loc[h][v].pending
    BY <1>0, <2>1, DeleteTakes, Zenon
  <2>. QED  BY <1>0, <1>1, <2>2, <2>3, <2>4, CreateJobSet, CreateGoesOn
<1>10. CASE CreateReport(h, v, k)
  <2>1. NoCreate \in CreateJobs /\ NoCreate.live = FALSE
    BY Zenon DEF NoCreate, CreateJobs
  <2>2. /\ cjob' = [cjob EXCEPT ![h][v][k] = NoCreate]
        /\ UNCHANGED loc /\ c.step \notin Steps
    BY <1>10, Zenon DEF CreateReport, Steps
  <2>4. CreateIs(h, v, k, NoCreate)
    BY <1>0, <2>1, <2>2, AgentWrites, Zenon
  <2>3. LocIs(h, v, y)
    BY <1>0, <2>2, AgentWrites, Zenon
  <2>. QED  BY <1>0, <1>1, <2>1, <2>2, <2>3, <2>4, CreateGoesOn, Zenon
<1>. QED  BY <1>1, <1>4, <1>5, <1>6, <1>7, <1>8, <1>9, <1>10, Zenon DEF CreateTask

\* A step of this kind leaves of what the hosts hold, and adds nothing.
Takes ==
    /\ loc' \in [Hosts -> [VMs -> Holdings]]
    /\ \A h \in Hosts, v \in VMs : /\ loc'[h][v].row => loc[h][v].row
                                   /\ loc'[h][v].pending => loc[h][v].pending

\* A reconcile task goes on with the VMs it has, or ends; the handshake's own ends
\* by marking itself done, or with its session.
GoesOn(h, k, j) ==
    LET r == rjob[h][k]
    IN /\ Targets(j) \subseteq Targets(r)
       /\ j.live => r.live
       /\ j.step = "done" => j.inline
       /\ j.inline => r.inline
       /\ r.inline /\ link[h] # "down" => j.inline

\* A step that only takes, and goes on with one reconcile task, is calm.
LEMMA ReconcileGoesOn ==
    ASSUME AgentInv, NEW h \in Hosts, NEW k \in 1..Reconciles, UNCHANGED cjob, Takes,
           NEW j \in ReconcileJobs, GoesOn(h, k, j), ReconcileIs(h, k, j)
    PROVE  Calm
<1>. USE DEF AgentInv
<1>2. AgentType'
  BY Zenon DEF AgentType, ReconcileIs, Takes
<1>3. PendingEnds'
  BY PendingKept, Zenon DEF Takes
<1>4. ASSUME NEW g \in Hosts, NEW i \in 1..Reconciles
      PROVE  /\ Targets(rjob'[g][i]) \subseteq Targets(rjob[g][i])
             /\ rjob'[g][i].live => rjob[g][i].live
             /\ rjob'[g][i].step = "done" => rjob'[g][i].inline
             /\ rjob'[g][i].inline => rjob[g][i].inline
             /\ rjob[g][i].inline /\ link[g] # "down" => rjob'[g][i].inline
  <2>1. CASE g = h /\ i = k
    <3>1. rjob'[g][i] = j
      BY <2>1, Zenon DEF ReconcileIs
    <3>. QED  BY <2>1, <3>1, Zenon DEF GoesOn
  <2>2. CASE ~(g = h /\ i = k)
    <3>1. rjob'[g][i] = rjob[g][i]
      BY <2>2, Zenon DEF ReconcileIs
    <3>. QED  BY <3>1, Zenon
  <2>. QED  BY <2>1, <2>2, Zenon
<1>5. AgentInv'
  BY <1>2, <1>3, <1>4, Zenon
<1>. QED  BY <1>4, <1>5, Zenon DEF Calm, Takes

\* What a task ends with.
LEMMA AppliedGoesOn ==
    ASSUME AgentInv, NEW h \in Hosts, NEW k \in 1..Reconciles
    PROVE  /\ Applied(rjob[h][k]) \in ReconcileJobs /\ GoesOn(h, k, Applied(rjob[h][k]))
           /\ NoReconcile \in ReconcileJobs
           /\ rjob[h][k].inline /\ link[h] = "down" => GoesOn(h, k, NoReconcile)
           /\ ~rjob[h][k].inline => GoesOn(h, k, NoReconcile)
<1>. DEFINE r == rjob[h][k]
            d == [NoReconcile EXCEPT !.step = "done", !.inline = TRUE]
<1>1. r \in ReconcileJobs
  BY DEF AgentInv, AgentType
<1>2. NoReconcile \in ReconcileJobs
  BY Zenon DEF NoReconcile, ReconcileJobs
<1>3. /\ NoReconcile.left = {} /\ NoReconcile.acked = {} /\ NoReconcile.cur = NoVm
      /\ NoReconcile.live = FALSE /\ NoReconcile.step = "none" /\ NoReconcile.inline = FALSE
  BY Zenon DEF NoReconcile
<1>4. /\ d \in ReconcileJobs
      /\ d.left = {} /\ d.acked = {} /\ d.cur = NoVm /\ d.live = FALSE /\ d.inline = TRUE
  BY <1>2, <1>3, Zenon DEF ReconcileJobs
<1>5. r.inline \in BOOLEAN
  BY <1>1, Zenon DEF ReconcileJobs
<1>. HIDE DEF d
<1>6. r.inline => GoesOn(h, k, d)
  BY <1>4, Zenon DEF GoesOn, Targets
<1>7. ~r.inline \/ link[h] = "down" => GoesOn(h, k, NoReconcile)
  BY <1>3, Zenon DEF GoesOn, Targets
<1>8. Applied(r) = IF r.inline THEN d ELSE NoReconcile
  BY Zenon DEF Applied, d
<1>. QED  BY <1>2, <1>4, <1>5, <1>6, <1>7, <1>8, Zenon

\* Each step of a reconcile task is such a step.
LEMMA ReconcilesCalm ==
    ASSUME AgentInv, NEW h \in Hosts, NEW k \in 1..Reconciles, ReconcileTask(h, k)
    PROVE  Calm /\ UNCHANGED <<link, down>>
<1>. DEFINE r == rjob[h][k]
<1>0. AgentType /\ r \in ReconcileJobs
  BY DEF AgentInv, AgentType
<1>1. UNCHANGED <<link, down, cjob>>
  BY Zenon DEF ReconcileTask, RClusters, RTombstone, RAck
<1>2. ASSUME \E j \in ReconcileJobs : GoesOn(h, k, j) /\ RJob(h, k, j), Takes
      PROVE  Calm
  BY <1>0, <1>1, <1>2, AgentWrites, ReconcileGoesOn, Zenon
<1>3. CASE RClusters(h, k)
  <2>1. \A c \in BOOLEAN : /\ [r EXCEPT !.step = "vms", !.ctomb = c] \in ReconcileJobs
                           /\ GoesOn(h, k, [r EXCEPT !.step = "vms", !.ctomb = c])
    <3>. SUFFICES ASSUME NEW c \in BOOLEAN
                  PROVE  /\ [r EXCEPT !.step = "vms", !.ctomb = c] \in ReconcileJobs
                         /\ GoesOn(h, k, [r EXCEPT !.step = "vms", !.ctomb = c])
      OBVIOUS
    <3>. DEFINE j == [r EXCEPT !.step = "vms", !.ctomb = c]
    <3>1. /\ j \in ReconcileJobs /\ j.left = r.left /\ j.acked = r.acked /\ j.cur = r.cur
          /\ j.live = r.live /\ j.step = "vms" /\ j.inline = r.inline
      BY <1>0, Zenon DEF ReconcileJobs
    <3>. HIDE DEF j
    <3>2. GoesOn(h, k, j)
      BY <3>1, Zenon DEF GoesOn, Targets
    <3>. QED  BY <3>1, <3>2, Zenon DEF j
  <2>2. \E j \in ReconcileJobs : GoesOn(h, k, j) /\ RJob(h, k, j)
    BY <1>3, <2>1, AppliedGoesOn, Zenon DEF RClusters
  <2>3. UNCHANGED loc \/ TombstoneCluster(h)
    BY <1>3, Zenon DEF RClusters
  <2>4. CASE TombstoneCluster(h)
    <3>1. ASSUME NEW v \in VMs
          PROVE  /\ [loc[h][v] EXCEPT !.tap = IF @ = "on" THEN "loose" ELSE @] \in Holdings
                 /\ [loc[h][v] EXCEPT !.tap = IF @ = "on" THEN "loose" ELSE @].row = loc[h][v].row
                 /\ [loc[h][v] EXCEPT !.tap = IF @ = "on" THEN "loose" ELSE @].pending
                       = loc[h][v].pending
      <4>1. loc[h][v] \in Holdings
        BY <1>0 DEF AgentType
      <4>. QED  BY <4>1, Zenon DEF Holdings
    <3>2. Takes
      BY <1>0, <2>4, <3>1, Zenon DEF TombstoneCluster, AgentType, Takes
    <3>. QED  BY <1>1, <1>2, <2>2, <3>2, Zenon
  <2>. QED  BY <1>0, <1>1, <1>2, <2>2, <2>3, <2>4, Zenon DEF AgentType, Takes
<1>4. CASE RTombstone(h, k)
  <2>1. PICK v \in VMs, t \in DeleteSteps :
             /\ IF r.step = "vms" THEN v \in r.left ELSE v = r.cur
             /\ DeleteVm(h, v, IF r.step = "vms" THEN "stop" ELSE r.step, t)
             /\ RJob(h, k, IF t \in {"gone", "error"}
                           THEN [r EXCEPT !.step = "vms", !.cur = NoVm,
                                          !.acked = IF t = "gone" THEN @ \cup {v} ELSE @]
                           ELSE [r EXCEPT !.step = t, !.cur = v, !.left = @ \ {v}])
    BY <1>4, Zenon DEF RTombstone
  <2>2. v \in Targets(r)
    BY <2>1, Zenon DEF Targets
  <2>3. t \in {"gone", "error", "detach", "erase"}
    BY <2>1, Zenon DEF DeleteSteps, DeleteVm
  <2>4. ASSUME t \in {"gone", "error"}
        PROVE  \E j \in ReconcileJobs : GoesOn(h, k, j) /\ RJob(h, k, j)
    <3>. DEFINE j == [r EXCEPT !.step = "vms", !.cur = NoVm,
                               !.acked = IF t = "gone" THEN @ \cup {v} ELSE @]
    <3>1. /\ j \in ReconcileJobs /\ j.left = r.left /\ j.acked \subseteq r.acked \cup {v}
          /\ j.cur = NoVm /\ j.live = r.live /\ j.step = "vms" /\ j.inline = r.inline
      BY <1>0, Zenon DEF ReconcileJobs
    <3>2. RJob(h, k, j)
      BY <2>1, <2>4, Zenon
    <3>. HIDE DEF j
    <3>3. GoesOn(h, k, j)
      BY <2>2, <3>1, Zenon DEF GoesOn, Targets
    <3>. QED  BY <3>1, <3>2, <3>3, Zenon
  <2>5. ASSUME t \in {"detach", "erase"}
        PROVE  \E j \in ReconcileJobs : GoesOn(h, k, j) /\ RJob(h, k, j)
    <3>. DEFINE j == [r EXCEPT !.step = t, !.cur = v, !.left = @ \ {v}]
    <3>1. /\ j \in ReconcileJobs /\ j.left \subseteq r.left /\ j.acked = r.acked
          /\ j.cur = v /\ j.live = r.live /\ j.step = t /\ j.inline = r.inline
      BY <1>0, <2>5, Zenon DEF ReconcileJobs
    <3>2. RJob(h, k, j)
      BY <2>1, <2>5, Zenon
    <3>. HIDE DEF j
    <3>3. GoesOn(h, k, j)
      BY <2>2, <2>5, <3>1, Zenon DEF GoesOn, Targets
    <3>. QED  BY <3>1, <3>2, <3>3, Zenon
  <2>6. Takes
    <3>1. PICK x \in Holdings : /\ LocIs(h, v, x) /\ (x.row => loc[h][v].row)
                                /\ x.pending = loc[h][v].pending
      BY <1>0, <2>1, DeleteTakes, Zenon
    <3>. QED  BY <3>1, Zenon DEF LocIs, Takes
  <2>. QED  BY <1>1, <1>2, <2>3, <2>4, <2>5, <2>6, Zenon
<1>5. CASE RAck(h, k)
  <2>1. Takes
    BY <1>0, <1>5, Zenon DEF RAck, AgentType, Takes
  <2>2. \E j \in ReconcileJobs : GoesOn(h, k, j) /\ RJob(h, k, j)
    BY <1>5, AppliedGoesOn, Zenon DEF RAck
  <2>. QED  BY <1>1, <1>2, <2>1, <2>2, Zenon
<1>. QED  BY <1>3, <1>4, <1>5, Zenon DEF ReconcileTask

\* The sweep, the reports and the guests add no row and start no task.
LEMMA OthersCalm ==
    ASSUME AgentInv, NEW h \in Hosts,
           SweepBegin(h) \/ SweepStep(h) \/ \E v \in VMs : Report(h, v) \/ GuestDies(h, v)
    PROVE  Calm /\ UNCHANGED <<link, down>>
<1>0. AgentType
  BY Zenon DEF AgentInv
<1>1. ASSUME UNCHANGED <<cjob, rjob>>, NEW v \in VMs, NEW x \in Holdings, LocIs(h, v, x),
             x.row => loc[h][v].row, x.pending => loc[h][v].pending
      PROVE  Calm
  <2>1. Takes
    BY <1>1, Zenon DEF LocIs, Takes
  <2>2. AgentInv'
    BY <1>0, <1>1, <2>1, PendingKept, Zenon DEF AgentInv, AgentType, Takes
  <2>. QED  BY <1>1, <2>1, <2>2, Zenon DEF Calm, Takes
<1>2. ASSUME UNCHANGED <<loc, cjob, rjob>> PROVE Calm
  <2>1. AgentInv'
    BY <1>0, <1>2, PendingKept, Zenon DEF AgentInv, AgentType
  <2>. QED  BY <1>2, <2>1, Zenon DEF Calm
<1>6. UNCHANGED <<link, down>>
  BY Zenon DEF SweepBegin, SweepStep, SweepList, SweepReclaim, Report, GuestDies
<1>3. CASE SweepBegin(h) \/ SweepList(h) \/ \E v \in VMs : Report(h, v)
  <2>1. UNCHANGED <<loc, cjob, rjob>>
    BY <1>3, Zenon DEF SweepBegin, SweepList, Report
  <2>. QED  BY <1>2, <1>6, <2>1, Zenon
<1>4. ASSUME NEW v \in VMs, SweepReclaim(h, v) PROVE Calm
  <2>0. loc[h][v] \in Holdings
    BY <1>0 DEF AgentType
  <2>1. /\ [loc[h][v] EXCEPT !.disk = Busy(loc[h][v])] \in Holdings
        /\ [loc[h][v] EXCEPT !.disk = Busy(loc[h][v])].pending = loc[h][v].pending
        /\ [loc[h][v] EXCEPT !.dir = "none"].pending = loc[h][v].pending
        /\ [loc[h][v] EXCEPT !.disk = Busy(loc[h][v])].row = loc[h][v].row
        /\ [loc[h][v] EXCEPT !.dir = "none"] \in Holdings
        /\ [loc[h][v] EXCEPT !.dir = "none"].row = loc[h][v].row
    <3>1. Busy(loc[h][v]) \in BOOLEAN
      BY <2>0, Zenon DEF Busy, Holdings
    <3>. QED  BY <2>0, <3>1, Zenon DEF Holdings
  <2>2. \/ \E s, t : DeleteVm(h, v, s, t)
        \/ SetLoc(h, v, [loc[h][v] EXCEPT !.disk = Busy(loc[h][v])])
        \/ SetLoc(h, v, [loc[h][v] EXCEPT !.dir = "none"])
    BY <1>4, Zenon DEF SweepReclaim
  <2>3. UNCHANGED <<cjob, rjob>>
    BY <1>4, Zenon DEF SweepReclaim
  <2>4. CASE \E s, t : DeleteVm(h, v, s, t)
    BY <1>0, <1>1, <2>3, <2>4, DeleteTakes, Zenon
  <2>5. CASE SetLoc(h, v, [loc[h][v] EXCEPT !.disk = Busy(loc[h][v])])
    BY <1>0, <1>1, <2>1, <2>3, <2>5, AgentWrites, Zenon
  <2>6. CASE SetLoc(h, v, [loc[h][v] EXCEPT !.dir = "none"])
    BY <1>0, <1>1, <2>1, <2>3, <2>6, AgentWrites, Zenon
  <2>. QED  BY <2>2, <2>4, <2>5, <2>6, Zenon
<1>5. ASSUME NEW v \in VMs, GuestDies(h, v) PROVE Calm
  <2>0. loc[h][v] \in Holdings
    BY <1>0 DEF AgentType
  <2>1. /\ [loc[h][v] EXCEPT !.unit = "dead"] \in Holdings
        /\ [loc[h][v] EXCEPT !.unit = "dead"].pending = loc[h][v].pending
        /\ [loc[h][v] EXCEPT !.unit = "dead"].row = loc[h][v].row
    BY <2>0, Zenon DEF Holdings
  <2>2. UNCHANGED <<cjob, rjob>> /\ SetLoc(h, v, [loc[h][v] EXCEPT !.unit = "dead"])
    BY <1>5, Zenon DEF GuestDies
  <2>. QED  BY <1>0, <1>1, <2>1, <2>2, AgentWrites, Zenon
<1>. QED  BY <1>3, <1>4, <1>5, <1>6, Zenon DEF SweepStep

-----------------------------------------------------------------------------
\* A CreateVm becomes a create task of its VM.
LEMMA CreateTaken ==
    ASSUME AgentInv, NEW h \in Hosts, GetCommand(h), NEW v \in VMs, Head(down[h]) = CreateVm(v)
    PROVE  /\ AgentInv' /\ UNCHANGED <<loc, rjob>>
           /\ \E k \in 1..Creates, j \in CreateJobs : CreateIs(h, v, k, j)
<1>. USE DEF AgentInv
<1>1. Head(down[h]).type = "create" /\ Head(down[h]).vm = v
  BY DEF CreateVm
<1>2. PICK j \in CreateJobs : j = [step |-> "mkdir", ok |-> TRUE, live |-> TRUE]
  BY Zenon DEF CreateJobs
<1>3. /\ \E k \in 1..Creates : /\ FreeSlot(cjob[h][v], NoCreate, k)
                               /\ cjob' = [cjob EXCEPT ![h][v][k] = j]
      /\ UNCHANGED <<loc, rjob>>
  BY <1>1, <1>2, Zenon DEF GetCommand
<1>4. PICK k \in 1..Creates : /\ cjob[h][v][k] = NoCreate
                              /\ cjob' = [cjob EXCEPT ![h][v][k] = j]
  BY <1>3, Zenon DEF FreeSlot
<1>5. CreateIs(h, v, k, j)
  BY <1>4, AgentWrites, Zenon
<1>6. NoCreate.step \notin Steps
  BY Zenon DEF NoCreate, Steps
<1>7. \A g \in Hosts, w \in VMs, i \in 1..Creates :
         cjob[g][w][i].step \in Steps => cjob'[g][w][i].step \in Steps
  BY <1>4, <1>5, <1>6 DEF CreateIs
<1>8. PendingEnds'
  BY <1>3, <1>7, PendingKept, Zenon
<1>9. AgentType'
  BY <1>3, <1>5, Zenon DEF AgentType, CreateIs
<1>. QED  BY <1>3, <1>5, <1>8, <1>9, Zenon

\* Any other command becomes a reconcile task with the VMs it names, which is
\* the handshake's own for a RegisterAck.
LEMMA ReconcileTaken ==
    ASSUME AgentInv, NEW h \in Hosts, GetCommand(h), NEW c \in ReconcileCommands,
           Head(down[h]) = c
    PROVE  /\ AgentInv' /\ UNCHANGED <<loc, cjob>>
           /\ \E k \in 1..Reconciles, j \in ReconcileJobs :
                 /\ ReconcileIs(h, k, j) /\ rjob[h][k] = NoReconcile
                 /\ Targets(j) = c.vtombs /\ j.inline = (c.type = "ack")
<1>. USE DEF AgentInv
<1>. DEFINE job == [NoReconcile EXCEPT !.step = "clusters", !.active = c.active,
                                       !.ctomb = c.ctomb, !.left = c.vtombs, !.live = TRUE,
                                       !.inline = c.type = "ack"]
<1>1. /\ c.type # "create" /\ c.active \in BOOLEAN /\ c.ctomb \in BOOLEAN
      /\ c.vtombs \in SUBSET VMs /\ (c.type = "ack") \in BOOLEAN
  BY Zenon DEF ReconcileCommands
<1>2. /\ \E k \in 1..Reconciles : FreeSlot(rjob[h], NoReconcile, k) /\ RJob(h, k, job)
      /\ UNCHANGED <<loc, cjob>>
  BY <1>1, Zenon DEF GetCommand
<1>3. PICK k \in 1..Reconciles : rjob[h][k] = NoReconcile /\ RJob(h, k, job)
  BY <1>2, Zenon DEF FreeSlot
<1>4. /\ job.left = c.vtombs /\ job.acked = {} /\ job.cur = NoVm
      /\ job.step = "clusters" /\ job.inline = (c.type = "ack")
  BY Zenon DEF NoReconcile
<1>5. job \in ReconcileJobs
  BY <1>1, Zenon DEF NoReconcile, ReconcileJobs
<1>. HIDE DEF job
<1>6. ReconcileIs(h, k, job)
  BY <1>3, <1>5, AgentWrites, Zenon
<1>7. Targets(job) = c.vtombs
  BY <1>4, Zenon DEF Targets
<1>8. AgentType'
  BY <1>2, <1>6, Zenon DEF AgentType, ReconcileIs
<1>9. PendingEnds'
  BY <1>2, PendingKept, Zenon
<1>10. \A g \in Hosts, i \in 1..Reconciles : rjob'[g][i].step = "done" => rjob'[g][i].inline
  BY <1>4, <1>6, Zenon DEF ReconcileIs
<1>. QED  BY <1>2, <1>3, <1>4, <1>5, <1>6, <1>7, <1>8, <1>9, <1>10, Zenon

\* What an empty slot of the task tables is.
LEMMA NoTask ==
    /\ NoCreate \in CreateJobs /\ NoCreate.step = "none" /\ ~NoCreate.live
    /\ NoReconcile \in ReconcileJobs /\ Targets(NoReconcile) = {} /\ ~NoReconcile.live
    /\ NoReconcile.step = "none" /\ ~NoReconcile.inline
BY Zenon DEF NoCreate, CreateJobs, NoReconcile, ReconcileJobs, Targets

\* The handshake ends when its task is done.
LEMMA HandshakeTaken ==
    ASSUME AgentInv, NEW h \in Hosts, HandshakeDone(h)
    PROVE  /\ AgentInv' /\ UNCHANGED <<loc, cjob>> /\ Handshaking(h)
           /\ \E k \in 1..Reconciles : ReconcileIs(h, k, NoReconcile)
<1>. USE DEF AgentInv
<1>1. PICK k \in 1..Reconciles : rjob[h][k].step = "done" /\ RJob(h, k, NoReconcile)
  BY Zenon DEF HandshakeDone
<1>2. UNCHANGED <<loc, cjob>>
  BY Zenon DEF HandshakeDone
<1>3. ReconcileIs(h, k, NoReconcile)
  BY <1>1, NoTask, AgentWrites, Zenon
<1>4. AgentType'
  BY <1>2, <1>3, Zenon DEF AgentType, ReconcileIs
<1>5. PendingEnds'
  BY <1>2, PendingKept, Zenon
<1>6. \A g \in Hosts, i \in 1..Reconciles : rjob'[g][i].step = "done" => rjob'[g][i].inline
  BY <1>3, NoTask, Zenon DEF ReconcileIs
<1>. QED  BY <1>1, <1>2, <1>3, <1>4, <1>5, <1>6, Zenon DEF Handshaking

\* No row and no task appears, and no task of the hosts H may send any more.
TasksOver(H) ==
    /\ \A h \in Hosts, v \in VMs : loc'[h][v].row => loc[h][v].row
    /\ \A h \in Hosts, v \in VMs, k \in 1..Creates :
          /\ cjob'[h][v][k].step # "none" => cjob[h][v][k].step # "none"
          /\ IF h \in H THEN ~cjob'[h][v][k].live ELSE cjob'[h][v][k].live = cjob[h][v][k].live
    /\ \A h \in Hosts, k \in 1..Reconciles :
          /\ Targets(rjob'[h][k]) \subseteq Targets(rjob[h][k])
          /\ IF h \in H THEN ~rjob'[h][k].live ELSE rjob'[h][k] = rjob[h][k]

\* A session that ends leaves its tasks running.
LEMMA TasksOutlive ==
    ASSUME AgentInv, NEW H \in SUBSET Hosts, SessionEnds(H)
    PROVE  AgentInv' /\ TasksOver(H)
<1>. USE DEF AgentInv
<1>1. ASSUME NEW h \in Hosts, NEW v \in VMs, NEW k \in 1..Creates
      PROVE  /\ [cjob[h][v][k] EXCEPT !.live = FALSE] \in CreateJobs
             /\ [cjob[h][v][k] EXCEPT !.live = FALSE].step = cjob[h][v][k].step
             /\ [cjob[h][v][k] EXCEPT !.live = FALSE].live = FALSE
  <2>1. cjob[h][v][k] \in CreateJobs
    BY DEF AgentType
  <2>. QED  BY <2>1, Zenon DEF CreateJobs
<1>2. ASSUME NEW h \in Hosts, NEW k \in 1..Reconciles
      PROVE  /\ [rjob[h][k] EXCEPT !.live = FALSE] \in ReconcileJobs
             /\ [rjob[h][k] EXCEPT !.live = FALSE].left = rjob[h][k].left
             /\ [rjob[h][k] EXCEPT !.live = FALSE].acked = rjob[h][k].acked
             /\ [rjob[h][k] EXCEPT !.live = FALSE].cur = rjob[h][k].cur
             /\ [rjob[h][k] EXCEPT !.live = FALSE].step = rjob[h][k].step
             /\ [rjob[h][k] EXCEPT !.live = FALSE].inline = rjob[h][k].inline
             /\ [rjob[h][k] EXCEPT !.live = FALSE].live = FALSE
  <2>1. rjob[h][k] \in ReconcileJobs
    BY DEF AgentType
  <2>. QED  BY <2>1, Zenon DEF ReconcileJobs
<1>3. ASSUME NEW h \in Hosts, NEW v \in VMs, NEW k \in 1..Creates
      PROVE  cjob'[h][v][k] = IF h \in H THEN [cjob[h][v][k] EXCEPT !.live = FALSE]
                              ELSE cjob[h][v][k]
  BY Zenon DEF SessionEnds
<1>4. ASSUME NEW h \in Hosts, NEW k \in 1..Reconciles
      PROVE  rjob'[h][k] = IF h \in H THEN [rjob[h][k] EXCEPT !.live = FALSE] ELSE rjob[h][k]
  BY Zenon DEF SessionEnds
<1>5. AgentType'
  <2>1. cjob' \in [Hosts -> [VMs -> [1..Creates -> CreateJobs]]]
    BY <1>1, Zenon DEF SessionEnds, AgentType
  <2>2. rjob' \in [Hosts -> [1..Reconciles -> ReconcileJobs]]
    BY <1>2, Zenon DEF SessionEnds, AgentType
  <2>. QED  BY <2>1, <2>2, Zenon DEF SessionEnds, AgentType
<1>6. ASSUME NEW h \in Hosts, NEW v \in VMs, NEW k \in 1..Creates
      PROVE  /\ cjob'[h][v][k].step = cjob[h][v][k].step
             /\ IF h \in H THEN ~cjob'[h][v][k].live
                ELSE cjob'[h][v][k].live = cjob[h][v][k].live
  <2>1. CASE h \in H
    <3>1. cjob'[h][v][k] = [cjob[h][v][k] EXCEPT !.live = FALSE]
      BY <1>3, <2>1, Zenon
    <3>. QED  BY <1>1, <2>1, <3>1
  <2>2. CASE h \notin H
    BY <1>3, <2>2, Zenon
  <2>. QED  BY <2>1, <2>2, Zenon
<1>7. ASSUME NEW h \in Hosts, NEW k \in 1..Reconciles
      PROVE  /\ Targets(rjob'[h][k]) = Targets(rjob[h][k])
             /\ rjob'[h][k].step = "done" => rjob'[h][k].inline
             /\ IF h \in H THEN ~rjob'[h][k].live ELSE rjob'[h][k] = rjob[h][k]
  <2>0. rjob[h][k].step = "done" => rjob[h][k].inline
    OBVIOUS
  <2>1. CASE h \in H
    <3>1. rjob'[h][k] = [rjob[h][k] EXCEPT !.live = FALSE]
      BY <1>4, <2>1, Zenon
    <3>2. /\ rjob'[h][k].left = rjob[h][k].left /\ rjob'[h][k].acked = rjob[h][k].acked
          /\ rjob'[h][k].cur = rjob[h][k].cur /\ rjob'[h][k].step = rjob[h][k].step
          /\ rjob'[h][k].inline = rjob[h][k].inline /\ ~rjob'[h][k].live
      BY <1>2, <3>1
    <3>. QED  BY <2>0, <2>1, <3>2, Zenon DEF Targets
  <2>2. CASE h \notin H
    BY <1>4, <2>0, <2>2, Zenon
  <2>. QED  BY <2>1, <2>2, Zenon
<1>8. loc' = loc
  BY Zenon DEF SessionEnds
<1>9. PendingEnds'
  BY <1>6, <1>8, PendingKept, Zenon
<1>. QED  BY <1>5, <1>6, <1>7, <1>8, <1>9 DEF TasksOver

\* reconcile_on_startup adds no row and marks nothing pending.
LEMMA RecoveredHolds ==
    ASSUME NEW x \in Holdings
    PROVE  /\ Recovered(x) \in Holdings
           /\ Recovered(x).row => x.row
           /\ Recovered(x).pending => x.pending
<1>1. CASE x.row /\ x.unit = "running"
  <2>1. Recovered(x) = [x EXCEPT !.tracked = TRUE]
    BY <1>1, Zenon DEF Recovered
  <2>. QED  BY <2>1, Zenon DEF Holdings
<1>2. CASE x.row /\ x.unit # "running" /\ x.disk /\ x.dir = "iso"
  <2>1. Recovered(x) = [x EXCEPT !.tap = "on", !.unit = IF @ = "none" THEN "running" ELSE @,
                                 !.tracked = x.unit = "none"]
    BY <1>2, Zenon DEF Recovered
  <2>. QED  BY <1>2, <2>1, Zenon DEF Holdings
<1>3. CASE ~x.row
  <2>1. Recovered(x) = [Nothing EXCEPT !.tap = IF x.unit = "none" THEN x.tap ELSE "none"]
    BY <1>3, Zenon DEF Recovered
  <2>2. (IF x.unit = "none" THEN x.tap ELSE "none") \in {"none", "loose", "on"}
    BY Zenon DEF Holdings
  <2>. QED  BY <2>1, <2>2, Zenon DEF Holdings, Nothing
<1>4. CASE x.row /\ x.unit # "running" /\ ~(x.disk /\ x.dir = "iso")
  <2>1. Recovered(x) = x
    BY <1>4, Zenon DEF Recovered
  <2>. QED  BY <2>1, Zenon
<1>. QED  BY <1>1, <1>2, <1>3, <1>4, Zenon

\* A restart leaves what the database and the host keep, and no task.
LEMMA RestartedTasks ==
    ASSUME AgentInv, NEW h \in Hosts, Restart(h)
    PROVE  AgentInv' /\ TasksOver({h}) /\ \A k \in 1..Reconciles : ~rjob'[h][k].inline
<1>. DEFINE Left(f, x) == [x EXCEPT !.pending = FALSE, !.tracked = FALSE,
                                    !.unit = IF f = "reboot" THEN "none" ELSE @,
                                    !.tap = IF f = "reboot" THEN "none" ELSE @]
<1>1. PICK f \in {"restart", "reboot"} :
           /\ loc' = [loc EXCEPT ![h] = [v \in VMs |-> Recovered(Left(f, loc[h][v]))]]
           /\ cjob' = [cjob EXCEPT ![h] = [v \in VMs |-> [k \in 1..Creates |-> NoCreate]]]
           /\ rjob' = [rjob EXCEPT ![h] = [k \in 1..Reconciles |-> NoReconcile]]
  BY Zenon DEF Restart
<1>2. ASSUME NEW x \in Holdings
      PROVE  Left(f, x) \in Holdings /\ Left(f, x).row = x.row /\ ~Left(f, x).pending
  BY Zenon DEF Holdings
<1>. HIDE DEF Left
<1>3. ASSUME NEW v \in VMs
      PROVE  /\ Recovered(Left(f, loc[h][v])) \in Holdings
             /\ Recovered(Left(f, loc[h][v])).row => loc[h][v].row
             /\ ~Recovered(Left(f, loc[h][v])).pending
  <2>1. loc[h][v] \in Holdings
    BY DEF AgentInv, AgentType
  <2>2. PICK y \in Holdings : y = Left(f, loc[h][v]) /\ y.row = loc[h][v].row /\ ~y.pending
    BY <1>2, <2>1, Zenon
  <2>. QED  BY <2>2, RecoveredHolds, Zenon
<1>4. /\ loc' \in [Hosts -> [VMs -> Holdings]]
      /\ \A g \in Hosts \ {h} : loc'[g] = loc[g]
      /\ \A v \in VMs : (loc'[h][v].row => loc[h][v].row) /\ ~loc'[h][v].pending
  BY <1>1, <1>3, Zenon DEF AgentInv, AgentType
<1>7. /\ cjob' \in [Hosts -> [VMs -> [1..Creates -> CreateJobs]]]
      /\ \A g \in Hosts \ {h} : cjob'[g] = cjob[g]
      /\ \A v \in VMs, k \in 1..Creates : cjob'[h][v][k] = NoCreate
  BY <1>1, NoTask, Zenon DEF AgentInv, AgentType
<1>8. /\ rjob' \in [Hosts -> [1..Reconciles -> ReconcileJobs]]
      /\ \A g \in Hosts \ {h} : rjob'[g] = rjob[g]
      /\ \A k \in 1..Reconciles : rjob'[h][k] = NoReconcile
  BY <1>1, NoTask, Zenon DEF AgentInv, AgentType
<1>9. AgentType'
  BY <1>4, <1>7, <1>8, Zenon DEF AgentType
<1>10. /\ TasksOver({h})
       /\ \A g \in Hosts, k \in 1..Reconciles : rjob'[g][k].step = "done" => rjob'[g][k].inline
  <2>1. \A g \in Hosts, v \in VMs : loc'[g][v].row => loc[g][v].row
    BY <1>4, Zenon
  <2>2. ASSUME NEW g \in Hosts, NEW v \in VMs, NEW k \in 1..Creates
        PROVE  /\ cjob'[g][v][k].step # "none" => cjob[g][v][k].step # "none"
               /\ IF g \in {h} THEN ~cjob'[g][v][k].live
                  ELSE cjob'[g][v][k].live = cjob[g][v][k].live
    BY <1>7, NoTask, Zenon
  <2>3. ASSUME NEW g \in Hosts, NEW k \in 1..Reconciles
        PROVE  /\ Targets(rjob'[g][k]) \subseteq Targets(rjob[g][k])
               /\ rjob'[g][k].step = "done" => rjob'[g][k].inline
               /\ IF g \in {h} THEN ~rjob'[g][k].live ELSE rjob'[g][k] = rjob[g][k]
    <3>1. CASE g = h
      BY <1>8, <3>1, NoTask, Zenon
    <3>2. CASE g # h
      BY <1>8, <3>2, Zenon DEF AgentInv
    <3>. QED  BY <3>1, <3>2, Zenon
  <2>. QED  BY <2>1, <2>2, <2>3 DEF TasksOver
<1>11. PendingEnds'
  <2>1. \A g \in Hosts, v \in VMs : loc'[g][v].pending =>
           loc[g][v].pending /\ \A k \in 1..Creates : cjob'[g][v][k] = cjob[g][v][k]
    BY <1>4, <1>7, Zenon
  <2>. QED  BY <2>1, PendingKept DEF AgentInv
<1>. QED  BY <1>8, <1>9, <1>10, <1>11, NoTask, Zenon DEF AgentInv

\* At the start no agent holds or does anything.
LEMMA AgentStarts ==
    ASSUME AgentInit
    PROVE  /\ AgentInv
           /\ \A h \in Hosts, v \in VMs : ~loc[h][v].row
           /\ \A h \in Hosts, v \in VMs, k \in 1..Creates : cjob[h][v][k] = NoCreate
           /\ \A h \in Hosts, k \in 1..Reconciles : rjob[h][k] = NoReconcile
<1>. USE DEF AgentInit
<1>1. Nothing \in Holdings /\ ~Nothing.row /\ ~Nothing.pending
  BY Zenon DEF Nothing, Holdings
<1>2. AgentType
  BY <1>1, NoTask, Zenon DEF AgentType
<1>3. \A h \in Hosts, v \in VMs : loc[h][v] = Nothing
  OBVIOUS
<1>4. PendingEnds
  BY <1>1, <1>3, Zenon DEF PendingEnds
<1>5. \A h \in Hosts, k \in 1..Reconciles : rjob[h][k] = NoReconcile
  OBVIOUS
<1>. QED  BY <1>1, <1>2, <1>3, <1>4, <1>5, NoTask, Zenon DEF AgentInv

=============================================================================
