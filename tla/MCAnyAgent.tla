------------------------------ MODULE MCAnyAgent ------------------------------
EXTENDS AnyAgent, TLC

MCIps == 1..2
MCSymmetry == Permutations(VMs) \cup Permutations(Names) \cup Permutations(Hosts)

\* Mail is sent when it can be taken, and delivered before anything else
\* happens.  This loses no reachable database or memory state: these agents
\* never lose the power to send what they can send now, so a message that
\* arrives late is one sent late, and a command is only something to wait for.
\* For the same reason a command nobody waits behind need not be sent, nor a
\* message, or a part of one, that the handler ignores.
Undelivered(h) == up[h] # <<>> \/ (link[h] \in {"handshake", "up"} /\ down[h] # <<>>)

Heeded(h, m) ==
    CASE m.type = "state" -> m.vm \in OnHost(h)
      [] m.type = "tombs" ->
           /\ \A v \in m.vms : (v \in OnHost(h) /\ state[v] = "teardown")
                               \/ \E a \in Ips : owner[a] = v
           /\ m.cluster => hc[h] = "pending" \/ \A g \in Hosts : hc[g] = "none"

Prompt ==
    IF \E h \in Hosts : Undelivered(h)
    THEN \E h \in Hosts : Len(up'[h]) < Len(up[h]) \/ Len(down'[h]) < Len(down[h])
    ELSE /\ <<ctlVars, link, up>>' # <<ctlVars, link, up>>
         /\ \A h \in Hosts : up'[h] # <<>> =>
               sess[h] = "up" /\ reading[h] = NoReport /\ Heeded(h, up'[h][1])

\* Once the teardown of every VM is decided none is left to keep.
SomeKept == doomed # VMs

\* The cluster had machines before, and is still leaving some host.
LeavingInit == \E h \in Hosts : AnyInit({h})

LeavingSpec == LeavingInit /\ [][AnyNext]_anyVars
===============================================================================
