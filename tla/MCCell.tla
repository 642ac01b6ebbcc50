-------------------------------- MODULE MCCell --------------------------------
EXTENDS Cell, TLC

MCIps == 1..2
MCSymmetry == Permutations(VMs)

\* Every host has registered and nothing is under way.
Idle ==
    /\ link = [h \in Hosts |-> "up"] /\ down = [h \in Hosts |-> <<>>] /\ up = down
    /\ healthy = [h \in Hosts |-> TRUE] /\ fresh = healthy
    /\ entry = [h \in Hosts |-> "open"] /\ sess = [h \in Hosts |-> "up"]
    /\ late = [h \in Hosts |-> "none"]
    /\ replay = [h \in Hosts |-> NoReplay] /\ reading = [h \in Hosts |-> NoReport]
    /\ checker = "idle" /\ stale = {} /\ cluster = TRUE
    /\ outbox = [v \in VMs |-> "none"] /\ waiter = outbox
    /\ attempt = [v \in VMs |-> 1] /\ del = [v \in VMs |-> "idle"]
    /\ dc = "idle" /\ dcLeft = {}
    /\ faults = 0 /\ deletes = 0 /\ doomed = {}
    /\ cjob = [h \in Hosts |-> [v \in VMs |-> [k \in 1..Creates |-> NoCreate]]]
    /\ rjob = [h \in Hosts |-> [k \in 1..Reconciles |-> NoReconcile]]
    /\ sweep = [h \in Hosts |-> NoSweep]
    /\ afaults = 0

\* The machines of S were created: what their CreateMachine calls leave behind
\* when they ran one after the other, once the hosts had registered.
Serving(S) ==
    /\ Idle
    /\ \E h \in Hosts, a \in [S -> Ips], n \in [S -> Names] :
          /\ \A v, w \in S : v # w => a[v] # a[w] /\ n[v] # n[w]
          /\ host = [v \in VMs |-> IF v \in S THEN h ELSE NoHost]
          /\ ip = [v \in VMs |-> IF v \in S THEN a[v] ELSE NoIp]
          /\ name = [v \in VMs |-> IF v \in S THEN n[v] ELSE NoName]
          /\ owner = [i \in Ips |-> IF \E v \in S : a[v] = i
                                    THEN CHOOSE v \in S : a[v] = i ELSE NoVm]
          /\ hc = [g \in Hosts |-> IF g = h /\ S # {} THEN "active" ELSE "none"]
          /\ bridge = [g \in Hosts |-> g = h /\ S # {}]
          /\ loc = [g \in Hosts |-> [v \in VMs |->
                      IF g # h \/ v \notin S THEN Nothing
                      ELSE [row |-> TRUE, dir |-> "iso", disk |-> TRUE, tap |-> "on",
                            unit |-> "running", pending |-> FALSE, tracked |-> TRUE]]]
    /\ state = [v \in VMs |-> IF v \in S THEN "running" ELSE "none"]
    /\ create = [v \in VMs |-> IF v \in S THEN "ok" ELSE "idle"]
    /\ reply = [v \in VMs |-> IF v \in S THEN v ELSE NoVm]

ConnectedSpec == Serving({}) /\ [][Next]_vars
ServingSpec == Serving(VMs) /\ [][Next]_vars
ServingFairSpec == ServingSpec /\ Fairness
===============================================================================
