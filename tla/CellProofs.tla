------------------------------ MODULE CellProofs ------------------------------
(***************************************************************************)
(* A cell implements AnyAgent: against the agents of HostAgent the         *)
(* controller keeps everything it keeps against the most general agents.   *)
(* The argument joins what an agent is told (WireInv) with what its tasks  *)
(* do (HostAgentProofs): a task and a local row exist only for a           *)
(* CreateVm that went to this host, a reconcile tears down only VMs whose  *)
(* teardown was decided, and no task speaks on a session it is not of.     *)
(***************************************************************************)
EXTENDS Cell, AnyAgentProofs, HostAgentProofs

-----------------------------------------------------------------------------
\* Rows and create tasks come from commands that were sent, and what is torn
\* down was decided on.
Tasked ==
    /\ \A h \in Hosts, v \in VMs : loc[h][v].row => Sent(h, v)
    /\ \A h \in Hosts, v \in VMs, k \in 1..Creates :
          cjob[h][v][k].step # "none" => Sent(h, v)
    /\ \A h \in Hosts, k \in 1..Reconciles : Targets(rjob[h][k]) \subseteq doomed

\* A task that may still send has its session.
Live ==
    /\ \A h \in Hosts, v \in VMs, k \in 1..Creates : cjob[h][v][k].live => link[h] = "up"
    /\ \A h \in Hosts, k \in 1..Reconciles : rjob[h][k].live => link[h] \in Connected

\* The handshake waits for the RegisterAck, then applies it, once.
Greeting(h) ==
    /\ link[h] = "dialing" => ~Handshaking(h)
    /\ link[h] = "handshake" /\ ~Handshaking(h) => down[h] # <<>> /\ down[h][1].type = "ack"
    /\ Handshaking(h) => \A i \in 1..Len(down[h]) : down[h][i].type # "ack"

Greets == \A h \in Hosts : Greeting(h)

TaskInv == AgentInv /\ Tasked /\ Live /\ Greets

-----------------------------------------------------------------------------
USE ControllerAssumption, ChanAssumption, AgentAssumption
    DEF vmVars, netVars, healthVars, createVars, deleteVars, streamVars, ctlVars, wireVars,
        agentVars

\* What a step does not write it does not disturb.
LEMMA TasksUndisturbed ==
    ASSUME TaskInv, Onward
    PROVE  /\ UNCHANGED <<loc, cjob, rjob>> => AgentInv' /\ Tasked'
           /\ UNCHANGED <<link, cjob, rjob>> => Live'
           /\ \A h \in Hosts : UNCHANGED <<rjob, link[h], down[h]>> => Greeting(h)'
<1>. USE DEF TaskInv
<1>1. UNCHANGED <<loc, cjob, rjob>> => AgentInv'
  BY Zenon DEF AgentInv, AgentType, PendingEnds, Building
<1>2. UNCHANGED <<loc, cjob, rjob>> => Tasked'
  BY StillSent, ZenonT(60) DEF Tasked, Onward
<1>3. UNCHANGED <<link, cjob, rjob>> => Live'
  BY Zenon DEF Live
<1>4. \A h \in Hosts : UNCHANGED <<rjob, link[h], down[h]>> => Greeting(h)'
  BY Zenon DEF Greets, Greeting, Handshaking
<1>. QED  BY <1>1, <1>2, <1>3, <1>4, Zenon

\* A step of the controller keeps what the agents' tasks rely on: it hands over
\* a stream with its RegisterAck, and other commands go behind what is there.
LEMMA ControllerTasks ==
    ASSUME Inv, WireInv, TaskInv, CtlNext, UNCHANGED agentVars
    PROVE  TaskInv'
<1>. USE DEF TaskInv
<1>1. Onward /\ Streamed
  BY ControllerOnward, ControllerWire, Zenon DEF WireNext
<1>2. AgentInv' /\ Tasked'
  BY <1>1, TasksUndisturbed, Zenon
<1>3. \A h \in Hosts : link[h] = "dialing" \/ link'[h] = link[h]
  BY <1>1, Zenon DEF Streamed, WireInv, FirstAck
<1>4. Live'
  BY <1>3, Zenon DEF Live, Connected
<1>5. ASSUME NEW h \in Hosts PROVE Greeting(h)'
  <2>0. Handshaking(h)' <=> Handshaking(h)
    BY Zenon DEF Handshaking
  <2>1. Greeting(h) /\ down[h] \in Seq(Commands)
    BY Zenon DEF Greets, WireInv, LinkType
  <2>2. CASE link'[h] # link[h]
    <3>1. /\ link[h] = "dialing" /\ link'[h] = "handshake" /\ down'[h] = down[h]
          /\ down[h] # <<>> /\ down[h][1].type = "ack"
      BY <1>1, <2>2, Zenon DEF Streamed, WireInv, FirstAck
    <3>. QED  BY <2>0, <2>1, <3>1, Zenon DEF Greeting
  <2>3. CASE link'[h] = link[h] /\ link[h] = "dialing"
    BY <2>0, <2>1, <2>3, Zenon DEF Greeting
  <2>4. CASE link'[h] = link[h] /\ down'[h] = down[h]
    BY <2>0, <2>1, <2>4, Zenon DEF Greeting
  <2>5. ASSUME link'[h] = link[h], NEW c \in Commands, c.type # "ack",
               down'[h] = Append(down[h], c)
        PROVE  Greeting(h)'
    <3>1. /\ Len(down'[h]) = Len(down[h]) + 1 /\ down'[h] # <<>>
          /\ \A i \in 1..Len(down[h]) : down'[h][i] = down[h][i]
          /\ down'[h][Len(down[h]) + 1] = c
          /\ down[h] # <<>> => 1 \in 1..Len(down[h])
          /\ \A i \in 1..(Len(down[h]) + 1) : i \in 1..Len(down[h]) \/ i = Len(down[h]) + 1
      BY <2>1, <2>5
    <3>. QED  BY <2>0, <2>1, <2>5, <3>1, Zenon DEF Greeting
  <2>. QED  BY <1>1, <2>2, <2>3, <2>4, <2>5, Zenon DEF Streamed
<1>. QED  BY <1>2, <1>4, <1>5, Zenon DEF Greets

-----------------------------------------------------------------------------
\* A step that goes on with the tasks an agent has keeps the invariant.
LEMMA CalmTasks ==
    ASSUME TaskInv, UNCHANGED <<ctlVars, link, down>>, Calm
    PROVE  TaskInv'
<1>. USE DEF TaskInv
<1>1. UNCHANGED <<create, host, doomed, link, down>>
  OBVIOUS
<1>2. AgentInv'
  BY Zenon DEF Calm
<1>3. \A h \in Hosts, v \in VMs : Sent(h, v)' <=> Sent(h, v)
  BY <1>1, Zenon DEF Sent
<1>4. Tasked'
  <2>1. ASSUME NEW h \in Hosts, NEW v \in VMs, loc'[h][v].row PROVE Sent(h, v)
    BY <2>1 DEF Tasked, Calm
  <2>2. ASSUME NEW h \in Hosts, NEW v \in VMs, NEW k \in 1..Creates,
               cjob'[h][v][k].step # "none"
        PROVE  Sent(h, v)
    BY <2>2, Zenon DEF Tasked, Calm
  <2>3. ASSUME NEW h \in Hosts, NEW k \in 1..Reconciles
        PROVE  Targets(rjob'[h][k]) \subseteq doomed
    BY Zenon DEF Tasked, Calm
  <2>4. \A h \in Hosts, k \in 1..Reconciles : Targets(rjob[h][k])' = Targets(rjob'[h][k])
    BY Zenon DEF Targets
  <2>. QED  BY <1>1, <1>3, <2>1, <2>2, <2>3, <2>4, Zenon DEF Tasked
<1>5. Live'
  BY <1>1, Zenon DEF Live, Calm
<1>6. Greets'
  <2>1. \A h \in Hosts : Handshaking(h)' => Handshaking(h)
    BY Zenon DEF Handshaking, Calm
  <2>2. \A h \in Hosts : link[h] # "down" /\ Handshaking(h) => Handshaking(h)'
    BY Zenon DEF Handshaking, Calm
  <2>. QED  BY <1>1, <2>1, <2>2, Zenon DEF Greets, Greeting
<1>. QED  BY <1>2, <1>4, <1>5, <1>6, Zenon

\* A new session begins when the handshake of the last one is over.
LEMMA DialTasks ==
    ASSUME LinkType, TaskInv, NEW h \in Hosts, Dial(h), UNCHANGED ctlVars
    PROVE  TaskInv'
<1>. USE DEF TaskInv
<1>1. /\ link[h] = "down" /\ ~Handshaking(h) /\ link' = [link EXCEPT ![h] = "dialing"]
      /\ UNCHANGED <<down, loc, cjob, rjob, create, host, doomed>>
  BY Zenon DEF Dial
<1>2. Onward
  BY <1>1, Zenon DEF Onward
<1>3. AgentInv' /\ Tasked'
  BY <1>1, <1>2, TasksUndisturbed, Zenon
<1>4. \A g \in Hosts : link'[g] = IF g = h THEN "dialing" ELSE link[g]
  BY <1>1, Zenon DEF LinkType
<1>5. Live'
  BY <1>1, <1>4, Zenon DEF Live, Connected
<1>6. ASSUME NEW g \in Hosts PROVE Greeting(g)'
  <2>1. CASE g = h
    BY <1>1, <1>4, <2>1 DEF Greeting, Handshaking
  <2>2. CASE g # h
    BY <1>1, <1>2, <1>4, <2>2, TasksUndisturbed, Zenon
  <2>. QED  BY <2>1, <2>2, Zenon
<1>. QED  BY <1>3, <1>5, <1>6, Zenon DEF Greets

\* The handshake ends when the task that applied the RegisterAck is done.
LEMMA HandshakeEnds ==
    ASSUME LinkType, TaskInv, NEW h \in Hosts, HandshakeDone(h), UNCHANGED ctlVars
    PROVE  /\ TaskInv'
           /\ link[h] # "dialing" /\ \A i \in 1..Len(down[h]) : down[h][i].type # "ack"
<1>. USE DEF TaskInv
<1>1. /\ AgentInv' /\ UNCHANGED <<loc, cjob>> /\ Handshaking(h)
      /\ \E k \in 1..Reconciles : ReconcileIs(h, k, NoReconcile)
  BY HandshakeTaken, Zenon
<1>2. /\ link' = [link EXCEPT ![h] = IF @ = "handshake" THEN "up" ELSE @]
      /\ UNCHANGED <<down, create, host, doomed>>
  BY Zenon DEF HandshakeDone
<1>3. link[h] # "dialing" /\ \A i \in 1..Len(down[h]) : down[h][i].type # "ack"
  BY <1>1, Zenon DEF Greets, Greeting
<1>4. \A g \in Hosts, i \in 1..Reconciles :
          rjob'[g][i] = rjob[g][i] \/ (g = h /\ rjob'[g][i] = NoReconcile)
  BY <1>1, Zenon DEF ReconcileIs
<1>5. Tasked'
  <2>1. \A g \in Hosts, v \in VMs : Sent(g, v)' <=> Sent(g, v)
    BY <1>2, Zenon DEF Sent
  <2>2. \A g \in Hosts, k \in 1..Reconciles :
           Targets(rjob[g][k])' = Targets(rjob'[g][k]) /\ Targets(rjob'[g][k]) \subseteq doomed
    <3>1. \A g \in Hosts, k \in 1..Reconciles : Targets(rjob'[g][k]) \subseteq doomed
      BY <1>4, NoTask, Zenon DEF Tasked
    <3>. QED  BY <3>1, Zenon DEF Targets
  <2>. QED  BY <1>1, <1>2, <2>1, <2>2, Zenon DEF Tasked
<1>6. \A g \in Hosts : link'[g] = IF g = h /\ link[g] = "handshake" THEN "up" ELSE link[g]
  BY <1>2, Zenon DEF LinkType
<1>7. Live'
  BY <1>1, <1>4, <1>6, NoTask DEF Live, Connected
<1>8. ASSUME NEW g \in Hosts PROVE Greeting(g)'
  <2>1. CASE g = h
    BY <1>2, <1>3, <1>6, <2>1 DEF Greeting
  <2>2. CASE g # h
    <3>1. Handshaking(g)' <=> Handshaking(g)
      BY <1>4, <2>2, Zenon DEF Handshaking
    <3>. QED  BY <1>2, <1>6, <2>2, <3>1, Zenon DEF Greets, Greeting
  <2>. QED  BY <2>1, <2>2, Zenon
<1>. QED  BY <1>1, <1>3, <1>5, <1>7, <1>8, Zenon DEF Greets

\* Until the RegisterAck was applied it is the command that is received; after
\* that each command becomes a task of its session.
LEMMA CommandsTasked ==
    ASSUME WireInv, TaskInv, NEW h \in Hosts, GetCommand(h), UNCHANGED ctlVars
    PROVE  TaskInv'
<1>. USE DEF TaskInv
<1>1. /\ link[h] \in Connected /\ ~Handshaking(h) /\ down[h] # <<>>
      /\ down' = [down EXCEPT ![h] = Tail(@)]
      /\ UNCHANGED <<link, create, host, doomed>>
  BY Zenon DEF GetCommand, Connected
<1>2. PICK c \in Commands : c = Head(down[h]) /\ c = down[h][1]
  <2>1. down[h] \in Seq(Commands)
    BY Zenon DEF WireInv, LinkType
  <2>. QED  BY <1>1, <2>1, HeadAndTail, Zenon
<1>3. /\ 1 \in 1..Len(down[h]) /\ Tail(down[h]) \in Seq(Commands)
      /\ \A i \in 1..Len(Tail(down[h])) :
            /\ i + 1 \in 1..Len(down[h]) /\ i + 1 # 1
            /\ Tail(down[h])[i] = down[h][i + 1]
  <2>1. down[h] \in Seq(Commands)
    BY Zenon DEF WireInv, LinkType
  <2>2. 1 \in 1..Len(down[h])
    BY <1>1, <2>1
  <2>. QED  BY <1>1, <2>1, <2>2, HeadAndTail
<1>4. \A g \in Hosts : down'[g] = IF g = h THEN Tail(down[h]) ELSE down[g]
  BY <1>1, Zenon DEF WireInv, LinkType
<1>5. CommandOk(h, c)
  BY <1>2, <1>3, Zenon DEF WireInv, Told
<1>6. /\ c.type # "ack" => link[h] = "up"
      /\ c.type = "ack" => link[h] = "handshake"
  BY <1>1, <1>2, <1>3, Zenon DEF WireInv, FirstAck, Greets, Greeting, Connected
<1>7. \A i \in 1..Len(Tail(down[h])) : Tail(down[h])[i].type # "ack"
  BY <1>3, ZenonT(60) DEF WireInv, FirstAck
<1>8. \A g \in Hosts, v \in VMs : Sent(g, v)' <=> Sent(g, v)
  BY <1>1, Zenon DEF Sent
<1>9. ASSUME \A g \in Hosts \ {h} : Handshaking(g)' <=> Handshaking(g),
             c.type = "ack" => Handshaking(h)'
      PROVE  Greets'
  <2>1. ASSUME NEW g \in Hosts, g # h PROVE Greeting(g)'
    BY <1>1, <1>4, <1>9, <2>1, Zenon DEF Greets, Greeting
  <2>2. Greeting(h)'
    BY <1>1, <1>4, <1>6, <1>7, <1>9, Zenon DEF Greeting, Connected
  <2>. QED  BY <2>1, <2>2, Zenon DEF Greets
<1>10. ASSUME NEW v \in VMs, c = CreateVm(v), Sent(h, v) PROVE TaskInv'
  <2>1. AgentInv' /\ UNCHANGED <<loc, rjob>>
    BY <1>2, <1>10, CreateTaken, Zenon
  <2>2. PICK k \in 1..Creates, j \in CreateJobs : CreateIs(h, v, k, j)
    BY <1>2, <1>10, CreateTaken, Zenon
  <2>3. ASSUME NEW g \in Hosts, NEW w \in VMs, NEW i \in 1..Creates
        PROVE  cjob'[g][w][i] = cjob[g][w][i] \/ (g = h /\ w = v)
    <3>1. cjob'[g][w][i] = IF g = h /\ w = v /\ i = k THEN j ELSE cjob[g][w][i]
      BY <2>2, ZenonT(60) DEF CreateIs
    <3>. QED  BY <3>1, Zenon
  <2>4. Tasked'
    <3>1. ASSUME NEW g \in Hosts, NEW w \in VMs, NEW i \in 1..Creates,
                 cjob'[g][w][i].step # "none"
          PROVE  Sent(g, w)
      BY <1>10, <2>3, <3>1 DEF Tasked
    <3>. QED  BY <1>1, <1>8, <2>1, <3>1, Zenon DEF Tasked
  <2>5. c.type = "create" /\ "create" # "ack"
    BY <1>10, Zenon DEF CreateVm
  <2>6. Live'
    BY <1>1, <1>6, <2>1, <2>3, <2>5 DEF Live
  <2>7. Greets'
    BY <1>9, <2>1, <2>5, Zenon DEF Handshaking
  <2>. QED  BY <2>1, <2>4, <2>6, <2>7, Zenon
<1>11. ASSUME c \in ReconcileCommands, c.vtombs \subseteq doomed PROVE TaskInv'
  <2>1. AgentInv' /\ UNCHANGED <<loc, cjob>>
    BY <1>2, <1>11, ReconcileTaken, Zenon
  <2>2. PICK k \in 1..Reconciles, j \in ReconcileJobs :
                /\ ReconcileIs(h, k, j) /\ rjob[h][k] = NoReconcile
                /\ Targets(j) = c.vtombs /\ j.inline = (c.type = "ack")
    BY <1>2, <1>11, ReconcileTaken, Zenon
  <2>3. \A g \in Hosts, i \in 1..Reconciles :
           rjob'[g][i] = IF g = h /\ i = k THEN j ELSE rjob[g][i]
    BY <2>2, Zenon DEF ReconcileIs
  <2>4. Tasked'
    <3>1. ASSUME NEW g \in Hosts, NEW i \in 1..Reconciles
          PROVE  Targets(rjob'[g][i]) \subseteq doomed
      <4>1. CASE rjob'[g][i] = j
        BY <1>11, <2>2, <4>1, Zenon
      <4>2. CASE rjob'[g][i] = rjob[g][i]
        BY <4>2, Zenon DEF Tasked
      <4>. QED  BY <2>3, <4>1, <4>2, Zenon
    <3>2. \A g \in Hosts, i \in 1..Reconciles : Targets(rjob[g][i])' = Targets(rjob'[g][i])
      BY Zenon DEF Targets
    <3>. QED  BY <1>1, <1>8, <2>1, <3>1, <3>2, Zenon DEF Tasked
  <2>5. Live'
    BY <1>1, <2>1, <2>3 DEF Live
  <2>6. Greets'
    <3>1. \A g \in Hosts \ {h} : Handshaking(g)' <=> Handshaking(g)
      BY <2>3, Zenon DEF Handshaking
    <3>2. c.type = "ack" => Handshaking(h)'
      BY <2>2, <2>3, Zenon DEF Handshaking
    <3>. QED  BY <1>9, <3>1, <3>2, Zenon
  <2>. QED  BY <2>1, <2>4, <2>5, <2>6, Zenon
<1>. QED  BY <1>5, <1>10, <1>11, Zenon DEF CommandOk

-----------------------------------------------------------------------------
\* The sessions of the hosts H end while their tasks run on.
LEMMA SessionsOver ==
    ASSUME TaskInv, Onward, AgentInv', NEW H \in SUBSET Hosts, TasksOver(H),
           \A h \in Hosts : IF h \in H THEN link'[h] = "down" /\ down'[h] = <<>>
                            ELSE link'[h] = link[h] /\ down'[h] = down[h]
    PROVE  TaskInv'
<1>. USE DEF TaskInv
<1>1. Tasked'
  <2>1. ASSUME NEW h \in Hosts, NEW v \in VMs, loc'[h][v].row PROVE Sent(h, v)'
    BY <2>1, StillSent, Zenon DEF Tasked, TasksOver
  <2>2. ASSUME NEW h \in Hosts, NEW v \in VMs, NEW k \in 1..Creates,
               cjob'[h][v][k].step # "none"
        PROVE  Sent(h, v)'
    BY <2>2, StillSent, Zenon DEF Tasked, TasksOver
  <2>3. ASSUME NEW h \in Hosts, NEW k \in 1..Reconciles
        PROVE  Targets(rjob'[h][k]) \subseteq doomed'
    BY Zenon DEF Tasked, TasksOver, Onward
  <2>4. \A h \in Hosts, k \in 1..Reconciles : Targets(rjob[h][k])' = Targets(rjob'[h][k])
    BY Zenon DEF Targets
  <2>. QED  BY <2>1, <2>2, <2>3, <2>4, Zenon DEF Tasked
<1>2. Live'
  <2>1. ASSUME NEW h \in Hosts, NEW v \in VMs, NEW k \in 1..Creates, cjob'[h][v][k].live
        PROVE  link'[h] = "up"
    BY <2>1 DEF Live, TasksOver
  <2>2. ASSUME NEW h \in Hosts, NEW k \in 1..Reconciles, rjob'[h][k].live
        PROVE  link'[h] \in Connected
    BY <2>2 DEF Live, TasksOver
  <2>. QED  BY <2>1, <2>2, Zenon DEF Live
<1>3. ASSUME NEW h \in Hosts PROVE Greeting(h)'
  <2>1. CASE h \in H
    <3>1. \A i : i \notin 1..Len(<<>>)
      OBVIOUS
    <3>2. link'[h] = "down" /\ down'[h] = <<>>
      BY <2>1, Zenon
    <3>. QED  BY <3>1, <3>2, Zenon DEF Greeting
  <2>2. CASE h \notin H
    <3>1. \A k \in 1..Reconciles : rjob'[h][k] = rjob[h][k]
      BY <2>2, Zenon DEF TasksOver
    <3>2. Handshaking(h)' <=> Handshaking(h)
      BY <3>1, Zenon DEF Handshaking
    <3>3. link'[h] = link[h] /\ down'[h] = down[h]
      BY <2>2, Zenon
    <3>. QED  BY <3>2, <3>3, Zenon DEF Greets, Greeting
  <2>. QED  BY <2>1, <2>2, Zenon
<1>. QED  BY <1>1, <1>2, <1>3, Zenon DEF Greets

\* Lost sessions and restarts on either side.
LEMMA EndsTasked ==
    ASSUME Inv, LinkType, TaskInv,
           ControllerRestarts \/ \E h \in Hosts : SessionLost(h) \/ AgentRestarts(h)
    PROVE  TaskInv'
<1>0. AgentInv
  BY Zenon DEF TaskInv
<1>1. ASSUME NEW h \in Hosts, LinkLost(h), AgentInv', TasksOver({h}) PROVE TaskInv'
  <2>1. Onward
    BY <1>1, ControllerOnward, Zenon
  <2>2. link' = [link EXCEPT ![h] = "down"] /\ down' = [down EXCEPT ![h] = <<>>]
    BY <1>1, Zenon DEF LinkLost
  <2>3. \A g \in Hosts : IF g \in {h} THEN link'[g] = "down" /\ down'[g] = <<>>
                         ELSE link'[g] = link[g] /\ down'[g] = down[g]
    BY <2>2, Zenon DEF LinkType
  <2>. QED  BY <1>1, <2>1, <2>3, SessionsOver, Zenon
<1>2. ASSUME NEW h \in Hosts, SessionLost(h) PROVE TaskInv'
  <2>1. LinkLost(h) /\ SessionEnds({h})
    BY <1>2, Zenon DEF SessionLost
  <2>2. AgentInv' /\ TasksOver({h})
    BY <1>0, <2>1, TasksOutlive, Zenon
  <2>. QED  BY <1>1, <2>1, <2>2, Zenon
<1>3. ASSUME NEW h \in Hosts, AgentRestarts(h) PROVE TaskInv'
  <2>1. AgentInv' /\ TasksOver({h}) /\ \A k \in 1..Reconciles : ~rjob'[h][k].inline
    BY <1>0, <1>3, RestartedTasks, Zenon DEF AgentRestarts
  <2>2. CASE LinkLost(h)
    BY <1>1, <2>1, <2>2, Zenon
  <2>3. CASE link[h] = "down" /\ UNCHANGED <<ctlVars, wireVars>>
    <3>1. \A g \in Hosts, v \in VMs, k \in 1..Creates :
             /\ cjob'[g][v][k].step # "none" => cjob[g][v][k].step # "none"
             /\ cjob'[g][v][k].live => cjob[g][v][k].live
      BY <2>1 DEF TasksOver
    <3>2. ASSUME NEW g \in Hosts, NEW k \in 1..Reconciles
          PROVE  /\ Targets(rjob'[g][k]) \subseteq Targets(rjob[g][k])
                 /\ rjob'[g][k].live => rjob[g][k].live
                 /\ rjob'[g][k].inline => rjob[g][k].inline
                 /\ rjob[g][k].inline /\ link[g] # "down" => rjob'[g][k].inline
      <4>1. CASE g = h
        <5>1. ~rjob'[g][k].live /\ ~rjob'[g][k].inline /\ link[g] = "down"
          BY <2>1, <2>3, <4>1, Zenon DEF TasksOver
        <5>. QED  BY <2>1, <5>1, Zenon DEF TasksOver
      <4>2. CASE g # h
        <5>1. rjob'[g][k] = rjob[g][k]
          BY <2>1, <4>2, ZenonT(60) DEF TasksOver
        <5>. QED  BY <5>1, Zenon
      <4>. QED  BY <4>1, <4>2, Zenon
    <3>3. Calm
      BY <2>1, <3>1, <3>2, Zenon DEF Calm, TasksOver
    <3>. QED  BY <2>3, <3>3, CalmTasks, Zenon
  <2>. QED  BY <1>3, <2>2, <2>3, Zenon DEF AgentRestarts
<1>4. CASE ControllerRestarts
  <2>0. Crash /\ SessionEnds(Hosts)
    BY <1>4, Zenon DEF ControllerRestarts
  <2>1. Onward
    BY <2>0, ControllerOnward, Zenon
  <2>2. link' = [h \in Hosts |-> "down"] /\ down' = [h \in Hosts |-> <<>>]
    BY <2>0, Zenon DEF Crash
  <2>3. AgentInv' /\ TasksOver(Hosts)
    BY <1>0, <2>0, TasksOutlive, Zenon
  <2>4. \A h \in Hosts : IF h \in Hosts THEN link'[h] = "down" /\ down'[h] = <<>>
                         ELSE link'[h] = link[h] /\ down'[h] = down[h]
    BY <2>2, Zenon
  <2>. QED  BY <2>1, <2>3, <2>4, SessionsOver, Zenon
<1>. QED  BY <1>2, <1>3, <1>4, Zenon

\* At the start no agent holds or does anything.
LEMMA InitTasks == ASSUME Init PROVE TaskInv
<1>. USE DEF Init
<1>1. /\ AgentInv
      /\ \A h \in Hosts, v \in VMs : ~loc[h][v].row
      /\ \A h \in Hosts, v \in VMs, k \in 1..Creates : cjob[h][v][k] = NoCreate
      /\ \A h \in Hosts, k \in 1..Reconciles : rjob[h][k] = NoReconcile
  BY AgentStarts, Zenon
<1>2. Tasked /\ Live
  BY <1>1, NoTask DEF Tasked, Live
<1>3. \A h \in Hosts : link[h] = "down" /\ ~Handshaking(h)
  BY <1>1, NoTask DEF WireInit, Handshaking
<1>4. Greets
  BY <1>3, Zenon DEF Greets, Greeting
<1>. QED  BY <1>1, <1>2, <1>4, Zenon DEF TaskInv

-----------------------------------------------------------------------------
\* A step of an agent keeps the invariant.
LEMMA AgentTasks ==
    ASSUME WireInv, TaskInv, NEW h \in Hosts, AgentNext(h), UNCHANGED ctlVars
    PROVE  TaskInv'
<1>1. LinkType /\ AgentInv
  BY Zenon DEF WireInv, TaskInv
<1>2. ASSUME NEW v \in VMs, NEW k \in 1..Creates, CreateTask(h, v, k) PROVE TaskInv'
  <2>1. Calm /\ UNCHANGED <<link, down>>
    BY <1>1, <1>2, CreatesCalm, Zenon
  <2>. QED  BY <2>1, CalmTasks, Zenon
<1>3. ASSUME NEW k \in 1..Reconciles, ReconcileTask(h, k) PROVE TaskInv'
  <2>1. Calm /\ UNCHANGED <<link, down>>
    BY <1>1, <1>3, ReconcilesCalm, Zenon
  <2>. QED  BY <2>1, CalmTasks, Zenon
<1>4. CASE SweepBegin(h) \/ SweepStep(h) \/ \E v \in VMs : Report(h, v) \/ GuestDies(h, v)
  <2>1. Calm /\ UNCHANGED <<link, down>>
    BY <1>1, <1>4, OthersCalm, Zenon
  <2>. QED  BY <2>1, CalmTasks, Zenon
<1>5. CASE SessionStep(h)
  BY <1>1, <1>5, DialTasks, HandshakeEnds, CommandsTasked, Zenon DEF SessionStep
<1>. QED  BY <1>2, <1>3, <1>4, <1>5, Zenon DEF AgentNext

\* Every step of a cell keeps the invariant.
LEMMA NextTasks == ASSUME Inv, WireInv, TaskInv, [Next]_vars PROVE TaskInv'
<1>0. LinkType
  BY Zenon DEF WireInv
<1>1. CASE UNCHANGED vars
  <2>1. Onward
    BY <1>1, Zenon DEF vars, Onward
  <2>2. UNCHANGED <<loc, cjob, rjob, link, down>>
    BY <1>1, Zenon DEF vars
  <2>. QED  BY <2>1, <2>2, TasksUndisturbed, Zenon DEF TaskInv, Greets
<1>2. CASE CtlNext /\ UNCHANGED agentVars
  BY <1>2, ControllerTasks, Zenon
<1>3. CASE \E h \in Hosts : AgentNext(h) /\ UNCHANGED ctlVars
  BY <1>3, AgentTasks, Zenon
<1>4. CASE ControllerRestarts \/ \E h \in Hosts : SessionLost(h) \/ AgentRestarts(h)
  BY <1>0, <1>4, EndsTasked, Zenon
<1>. QED  BY <1>1, <1>2, <1>3, <1>4, Zenon DEF Next

\* What an agent sends is what AnyAgent lets an agent send.
LEMMA AgentImplements ==
    ASSUME LinkType, TaskInv, NEW h \in Hosts, AgentNext(h), UNCHANGED ctlVars
    PROVE  AgentStep(h) \/ UNCHANGED anyVars
<1>1. ASSUME UNCHANGED wireVars PROVE UNCHANGED anyVars
  BY <1>1, Zenon DEF anyVars
<1>2. ASSUME NEW v \in VMs, NEW s \in {"running", "failed"}, Sent(h, v), link[h] = "up",
             Emit(h, VmState(v, s)), UNCHANGED <<link, down>>
      PROVE  AgentStep(h)
  BY <1>2, Zenon DEF AgentStep, SendReport, Sent
<1>3. ASSUME NEW v \in VMs, NEW k \in 1..Creates, CreateTask(h, v, k)
      PROVE  AgentStep(h) \/ UNCHANGED anyVars
  <2>1. CASE CreateReport(h, v, k)
    <3>1. Sent(h, v) /\ (cjob[h][v][k].live => link[h] = "up")
      BY <2>1, Zenon DEF CreateReport, TaskInv, Tasked, Live
    <3>2. CASE cjob[h][v][k].live
      BY <1>2, <2>1, <3>1, <3>2, Zenon DEF CreateReport
    <3>3. CASE ~cjob[h][v][k].live
      BY <1>1, <2>1, <3>3, Zenon DEF CreateReport
    <3>. QED  BY <3>2, <3>3, Zenon
  <2>2. CASE ~CreateReport(h, v, k)
    BY <1>1, <1>3, <2>2, Zenon DEF CreateTask, CreateMkdir, CreateRow, CreateDisk, CreateTap,
       CreateSpawn, CreateRollback
  <2>. QED  BY <2>1, <2>2, Zenon
<1>4. ASSUME NEW k \in 1..Reconciles, ReconcileTask(h, k)
      PROVE  AgentStep(h) \/ UNCHANGED anyVars
  <2>1. CASE RAck(h, k)
    <3>. DEFINE j == rjob[h][k]
    <3>1. /\ j.acked \subseteq doomed /\ j.acked \in SUBSET VMs /\ j.ctomb \in BOOLEAN
          /\ j.live => link[h] \in Connected
      <4>1. j \in ReconcileJobs /\ Targets(j) \subseteq doomed
        BY DEF TaskInv, Tasked, AgentInv, AgentType
      <4>2. j.live => link[h] \in Connected
        BY Zenon DEF TaskInv, Live
      <4>. QED  BY <4>1, <4>2, Zenon DEF ReconcileJobs, Targets
    <3>2. CASE j.live /\ (j.ctomb \/ j.acked # {})
      BY <2>1, <3>1, <3>2, Zenon DEF RAck, AgentStep, SendAck
    <3>3. CASE ~(j.live /\ (j.ctomb \/ j.acked # {}))
      BY <1>1, <2>1, <3>3, Zenon DEF RAck
    <3>. QED  BY <3>2, <3>3, Zenon
  <2>2. CASE RClusters(h, k) \/ RTombstone(h, k)
    BY <1>1, <2>2, Zenon DEF RClusters, RTombstone
  <2>. QED  BY <1>4, <2>1, <2>2, Zenon DEF ReconcileTask
<1>5. ASSUME NEW v \in VMs, Report(h, v) PROVE AgentStep(h)
  <2>1. Sent(h, v)
    BY <1>5, Zenon DEF Report, TaskInv, Tasked
  <2>. QED  BY <1>2, <1>5, <2>1, Zenon DEF Report
<1>6. CASE SweepBegin(h) \/ SweepStep(h) \/ \E v \in VMs : GuestDies(h, v)
  BY <1>1, <1>6, Zenon DEF SweepBegin, SweepStep, SweepList, SweepReclaim, GuestDies
<1>7. CASE Dial(h)
  BY <1>7, Zenon DEF Dial, AgentStep, AnyDial
<1>8. CASE GetCommand(h)
  BY <1>8, Zenon DEF GetCommand, AgentStep, AnyGetCommand, Connected
<1>9. CASE HandshakeDone(h)
  <2>1. link[h] # "dialing" /\ \A i \in 1..Len(down[h]) : down[h][i].type # "ack"
    BY <1>9, HandshakeEnds, Zenon
  <2>2. /\ link' = [link EXCEPT ![h] = IF @ = "handshake" THEN "up" ELSE @]
        /\ UNCHANGED <<down, up>>
    BY <1>9, Zenon DEF HandshakeDone
  <2>3. CASE link[h] = "handshake"
    <3>1. link' = [link EXCEPT ![h] = "up"]
      BY <2>2, <2>3, Zenon
    <3>. QED  BY <2>1, <2>2, <2>3, <3>1, Zenon DEF AgentStep, EndHandshake
  <2>4. CASE link[h] # "handshake"
    <3>1. UNCHANGED link
      BY <2>2, <2>4, Zenon DEF LinkType
    <3>. QED  BY <1>1, <2>2, <3>1, Zenon
  <2>. QED  BY <2>3, <2>4, Zenon
<1>. QED  BY <1>3, <1>4, <1>5, <1>6, <1>7, <1>8, <1>9, Zenon DEF AgentNext, SessionStep

\* Every step of a cell is a step of the controller against some agents.
LEMMA StepImplements == ASSUME WireInv, TaskInv, [Next]_vars PROVE [AnyNext]_anyVars
<1>0. LinkType
  BY Zenon DEF WireInv
<1>1. CASE UNCHANGED vars
  BY <1>1, Zenon DEF vars, anyVars
<1>2. CASE CtlNext /\ UNCHANGED agentVars
  BY <1>2, Zenon DEF AnyNext
<1>3. ASSUME NEW h \in Hosts, SessionLost(h) \/ AgentRestarts(h) PROVE [AnyNext]_anyVars
  BY <1>3, Zenon DEF SessionLost, AgentRestarts, AnyNext, anyVars
<1>4. CASE ControllerRestarts
  BY <1>4, Zenon DEF ControllerRestarts, AnyNext
<1>5. ASSUME NEW h \in Hosts, AgentNext(h) /\ UNCHANGED ctlVars PROVE [AnyNext]_anyVars
  <2>1. AgentStep(h) \/ UNCHANGED anyVars
    BY <1>0, <1>5, AgentImplements, Zenon
  <2>. QED  BY <2>1, Zenon DEF AnyNext
<1>. QED  BY <1>1, <1>2, <1>3, <1>4, <1>5, Zenon DEF Next

-----------------------------------------------------------------------------
\* The invariants hold along every behaviour of a cell.
LEMMA CellInv == Spec => []Inv /\ []WireInv /\ []TaskInv
<1>1. Init => Inv /\ WireInv /\ TaskInv
  <2>1. Init => AnyInit({})
    BY Zenon DEF Init, AnyInit
  <2>. QED  BY <2>1, InitInv, InitWire, InitTasks, Zenon
<1>2. ASSUME Inv, WireInv, TaskInv, [Next]_vars PROVE Inv' /\ WireInv' /\ TaskInv'
  <2>1. [AnyNext]_anyVars
    BY <1>2, StepImplements, Zenon
  <2>. QED  BY <1>2, <2>1, NextInv, NextWire, NextTasks, Zenon
<1>. QED  BY <1>1, <1>2, PTL DEF Spec

\* A cell implements AnyAgent: whatever create tasks, reconciles, sweeps,
\* handshakes and restarts interleave on the hosts, an agent reports only VMs
\* whose CreateVm went to it and acknowledges only tombstones that were decided.
THEOREM CellImplementsAnyAgent == Spec => AnySpec
<1>1. Init => AnyInit({})
  BY Zenon DEF Init, AnyInit
<1>2. ASSUME WireInv, TaskInv, [Next]_vars PROVE [AnyNext]_anyVars
  BY <1>2, StepImplements, Zenon
<1>. QED  BY <1>1, <1>2, CellInv, PTL DEF Spec, AnySpec

\* So a cell keeps the promises of the controller: VMs keep their addresses,
\* CreateMachine is idempotent by name, the clusters row goes last and a call
\* that waits is woken.
THEOREM CellPromises ==
    Spec => [](VmIpHeld /\ IdempotentByName /\ ClusterRowLast /\ WaiterHasStream)
<1>1. Spec => AnyFrom({})
  BY CellImplementsAnyAgent, Zenon DEF AnySpec, AnyFrom
<1>2. AnyFrom({}) => []VmIpHeld
  BY VmIpStaysHeld, Zenon
<1>3. AnyFrom({}) => []IdempotentByName
  BY CreateIdempotent, Zenon
<1>4. AnyFrom({}) => []ClusterRowLast
  BY ClusterGoesLast, Zenon
<1>5. AnyFrom({}) => []WaiterHasStream
  BY WaitersAreWoken, Zenon
<1>. QED  BY <1>1, <1>2, <1>3, <1>4, <1>5, PTL

\* And without DeleteCluster a host of a cell keeps the cluster up for its VMs.
THEOREM CellKeepsCluster == ASSUME ~ClusterDeletes PROVE Spec => []HostClusterKept
<1>1. Spec => AnyFrom({})
  BY CellImplementsAnyAgent, Zenon DEF AnySpec, AnyFrom
<1>2. AnyFrom({}) => []HostClusterKept
  BY HostKeepsCluster, Zenon
<1>. QED  BY <1>1, <1>2, PTL

\* No VM is held back from the sweep and from the reports for ever: a pending
\* mark of VmManager ends with its create task, through failed steps,
\* rollbacks, concurrent deletes of the VM and restarts.
THEOREM PendingMarksEnd == Spec => []PendingEnds
<1>1. TaskInv => PendingEnds
  BY Zenon DEF TaskInv, AgentInv
<1>. QED  BY <1>1, CellInv, PTL

\* A local row, a create task and a teardown exist on a host only for a VM that
\* was sent there or whose teardown was decided, and a task that may still send
\* belongs to the session that is up.
THEOREM TasksAreTold == Spec => [](Tasked /\ Live)
<1>1. TaskInv => Tasked /\ Live
  BY Zenon DEF TaskInv
<1>. QED  BY <1>1, CellInv, PTL

=============================================================================
