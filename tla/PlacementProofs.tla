--------------------------- MODULE PlacementProofs ---------------------------
(***************************************************************************)
(* What an attempt to place a VM takes, it gives back: for any number of   *)
(* calls, hosts and devices, whatever the scheduler decides and whatever   *)
(* changes under it.                                                       *)
(*                                                                         *)
(* AttemptsGiveBack is not inductive: a lost attempt releases by the VM's  *)
(* id, and that this takes no address of a VM with a row needs that a row  *)
(* is there only after the call's commit (Addressed).                      *)
(* Turns is the discipline of the lock: it is a call's own place in the    *)
(* queue that is dropped, because whoever is past its wait is the head.    *)
(***************************************************************************)
EXTENDS Placement, SequenceTheorems, TLAPS

Labels == {"new", "wait", "usage", "claims", "storage", "insert", "lookup"} \cup Ended
Reading == {"usage", "claims", "storage", "insert"}

\* The calls that wait for the lock or hold it.
Queued == {v \in VMs : pc[v] \notin Ended \cup {"new", "lookup"}}
Distinct(q) == \A i, j \in DOMAIN q : i # j => q[i] # q[j]

\* The lock's queue: who is in it, once, and only its head past the wait.
Turns ==
    /\ pc \in [VMs -> Labels] /\ queue \in Seq(VMs)
    /\ ToSet(queue) = Queued /\ Distinct(queue)
    /\ \A i \in DOMAIN queue : i > 1 => pc[queue[i]] = "wait"

\* A VM with a row is one whose call has committed it, so that an attempt never
\* gives back the address of a VM that is there.
Holds(v) ==
    IF vms[v] # NoRow \/ pc[v] = "insert"
    THEN ips[v] >= 1 /\ (v \notin kept => ips[v] = 1)
    ELSE v \notin kept => ips[v] = 0
Addressed ==
    /\ DOMAIN vms = VMs /\ ips \in [VMs -> Nat]
    /\ \A v \in VMs : vms[v] # NoRow => pc[v] = "placed"
    /\ \A v \in VMs : Holds(v)

Attempts == Turns /\ Addressed

-----------------------------------------------------------------------------
\* The lock passes to the next in line.
LEMMA TailOfQueue ==
    ASSUME NEW S, NEW q \in Seq(S), q # <<>>, Distinct(q)
    PROVE  /\ Tail(q) \in Seq(S) /\ Distinct(Tail(q)) /\ Head(q) \in ToSet(q)
           /\ ToSet(Tail(q)) = ToSet(q) \ {Head(q)}
           /\ \A x \in ToSet(Tail(q)) : \E i \in DOMAIN q : i > 1 /\ q[i] = x
<1>1. /\ Tail(q) \in Seq(S) /\ Len(q) \in Nat \ {0} /\ DOMAIN q = 1 .. Len(q) /\ Head(q) = q[1]
      /\ DOMAIN Tail(q) = 1 .. Len(q) - 1 /\ \A i \in 1 .. Len(q) - 1 : Tail(q)[i] = q[i + 1]
  OBVIOUS
<1>2. Distinct(Tail(q))
  <2>1. ASSUME NEW i \in DOMAIN Tail(q), NEW j \in DOMAIN Tail(q), i # j PROVE Tail(q)[i] # Tail(q)[j]
    <3>1. i + 1 \in DOMAIN q /\ j + 1 \in DOMAIN q /\ i + 1 # j + 1
      BY <1>1, <2>1
    <3>. QED  BY <1>1, <3>1 DEF Distinct
  <2>. QED  BY <2>1 DEF Distinct
<1>3. \A i \in DOMAIN q : i > 1 => i - 1 \in DOMAIN Tail(q) /\ Tail(q)[i - 1] = q[i]
  BY <1>1
<1>4. \A x \in ToSet(Tail(q)) : \E i \in DOMAIN q : i > 1 /\ q[i] = x
  <2>1. ASSUME NEW x, NEW i \in DOMAIN Tail(q), x = Tail(q)[i]
        PROVE  i + 1 \in DOMAIN q /\ i + 1 > 1 /\ q[i + 1] = x
    BY <1>1, <2>1
  <2>. QED  BY <2>1 DEF ToSet
<1>5. \A x : x \in ToSet(q) /\ x # Head(q) => x \in ToSet(Tail(q))
  <2>1. ASSUME NEW i \in DOMAIN q, q[i] # Head(q) PROVE q[i] \in ToSet(Tail(q))
    <3>1. i > 1
      BY <1>1, <2>1
    <3>. QED  BY <1>3, <3>1 DEF ToSet
  <2>. QED  BY <2>1 DEF ToSet
<1>6. \A x \in ToSet(Tail(q)) : x \in ToSet(q) /\ x # Head(q)
  <2>1. 1 \in DOMAIN q
    BY <1>1
  <2>. QED  BY <1>1, <1>4, <2>1 DEF Distinct, ToSet
<1>7. Head(q) \in ToSet(q)
  BY <1>1 DEF ToSet
<1>. QED  BY <1>1, <1>2, <1>4, <1>5, <1>6, <1>7

\* A call that asks for the lock is the last in line.
LEMMA JoinQueue ==
    ASSUME NEW S, NEW q \in Seq(S), Distinct(q), NEW x \in S, x \notin ToSet(q)
    PROVE  /\ Append(q, x) \in Seq(S) /\ Distinct(Append(q, x))
           /\ ToSet(Append(q, x)) = ToSet(q) \cup {x}
           /\ \A i \in DOMAIN Append(q, x) : Append(q, x)[i] = x \/ (i \in DOMAIN q /\ Append(q, x)[i] = q[i])
<1>. DEFINE p == Append(q, x)
<1>1. /\ p \in Seq(S) /\ Len(q) \in Nat /\ DOMAIN q = 1 .. Len(q)
      /\ DOMAIN p = 1 .. Len(q) + 1 /\ p[Len(q) + 1] = x /\ \A i \in 1 .. Len(q) : p[i] = q[i]
  OBVIOUS
<1>. HIDE DEF p
<1>2. \A i \in DOMAIN p : (i = Len(q) + 1 /\ p[i] = x) \/ (i \in DOMAIN q /\ p[i] = q[i])
  BY <1>1
<1>3. DOMAIN q \subseteq DOMAIN p /\ Len(q) + 1 \in DOMAIN p
  BY <1>1
<1>4. \A i \in DOMAIN q : q[i] # x
  BY Zenon DEF ToSet
<1>5. Distinct(p)
  BY <1>2, <1>4, Zenon DEF Distinct
<1>6. ToSet(p) = ToSet(q) \cup {x}
  <2>1. ToSet(p) \subseteq ToSet(q) \cup {x}
    BY <1>2, Zenon DEF ToSet
  <2>2. x \in ToSet(p)
    BY <1>1, <1>3, Zenon DEF ToSet
  <2>3. ToSet(q) \subseteq ToSet(p)
    BY <1>1, <1>3, Zenon DEF ToSet
  <2>. QED  BY <2>1, <2>2, <2>3, Zenon
<1>. QED  BY <1>1, <1>2, <1>5, <1>6, Zenon DEF p

\* A call that is dropped leaves the others in line.
LEMMA LeaveQueue ==
    ASSUME NEW S, NEW q \in Seq(S), Distinct(q), NEW n \in DOMAIN q
    PROVE  /\ RemoveAt(q, n) \in Seq(S) /\ Distinct(RemoveAt(q, n))
           /\ ToSet(RemoveAt(q, n)) = ToSet(q) \ {q[n]}
           /\ \A i \in DOMAIN RemoveAt(q, n) : i > 1 =>
                 \E j \in DOMAIN q : j > 1 /\ q[j] = RemoveAt(q, n)[i]
<1>. DEFINE a == SubSeq(q, 1, n - 1)
            b == SubSeq(q, n + 1, Len(q))
            p == RemoveAt(q, n)
            At(i) == IF i < n THEN i ELSE i + 1
<1>1. Len(q) \in Nat /\ DOMAIN q = 1 .. Len(q) /\ n \in 1 .. Len(q)
  OBVIOUS
<1>2. a \in Seq(S) /\ Len(a) = n - 1 /\ \A i \in 1 .. n - 1 : a[i] = q[i]
  BY <1>1
<1>3. b \in Seq(S) /\ Len(b) = Len(q) - n /\ \A i \in 1 .. Len(q) - n : b[i] = q[n + i]
  BY <1>1
<1>. HIDE DEF a, b
<1>4. /\ p = a \o b
  BY DEF RemoveAt, a, b
<1>5. p \in Seq(S) /\ DOMAIN p = 1 .. Len(q) - 1 /\ \A i \in 1 .. Len(q) - 1 : p[i] = q[At(i)]
  <2>. HIDE DEF p
  <2>1. /\ p \in Seq(S) /\ Len(p) = Len(a) + Len(b)
        /\ \A i \in 1 .. Len(a) + Len(b) : p[i] = IF i <= Len(a) THEN a[i] ELSE b[i - Len(a)]
    BY <1>2, <1>3, <1>4, ConcatProperties, Zenon
  <2>3. \A i \in 1 .. Len(q) - 1 : i >= n => i - Len(a) \in 1 .. Len(q) - n /\ n + (i - Len(a)) = i + 1
    BY <1>1, <1>2
  <2>4. DOMAIN p = 1 .. Len(q) - 1
    BY <1>1, <1>2, <1>3, <2>1
  <2>5. ASSUME NEW i \in 1 .. Len(q) - 1 PROVE p[i] = q[At(i)]
    <3>1. CASE i < n
      BY <1>1, <1>2, <1>3, <2>1, <3>1
    <3>2. CASE i >= n
      <4>1. p[i] = b[i - Len(a)]
        BY <1>1, <1>2, <1>3, <2>1, <3>2
      <4>. QED  BY <1>1, <1>3, <2>3, <3>2, <4>1
    <3>. QED  BY <1>1, <3>1, <3>2
  <2>. QED  BY <2>1, <2>4, <2>5
<1>6. \A i \in DOMAIN p : /\ At(i) \in DOMAIN q /\ At(i) # n /\ (i > 1 => At(i) > 1)
                          /\ p[i] = q[At(i)]
                          /\ \A j \in DOMAIN p : i # j => At(i) # At(j)
  BY <1>1, <1>5
<1>7. \A j \in DOMAIN q : j # n => \E i \in DOMAIN p : At(i) = j
  <2>1. ASSUME NEW j \in DOMAIN q, j # n PROVE \E i \in DOMAIN p : At(i) = j
    <3>1. CASE j < n
      <4>1. j \in DOMAIN p /\ At(j) = j
        BY <1>1, <1>5, <3>1
      <4>. QED  BY <4>1
    <3>2. CASE j > n
      <4>1. j - 1 \in DOMAIN p /\ At(j - 1) = j
        BY <1>1, <1>5, <3>2
      <4>. QED  BY <4>1
    <3>. QED  BY <1>1, <2>1, <3>1, <3>2
  <2>. QED  BY <2>1
<1>. HIDE DEF p, At
<1>8. Distinct(p)
  BY <1>6, Zenon DEF Distinct
<1>9. ToSet(p) = ToSet(q) \ {q[n]}
  <2>1. \A i \in DOMAIN p : p[i] \in ToSet(q) /\ p[i] # q[n]
    BY <1>6, Zenon DEF Distinct, ToSet
  <2>2. \A j \in DOMAIN q : q[j] # q[n] => q[j] \in ToSet(p)
    BY <1>6, <1>7, Zenon DEF ToSet
  <2>. QED  BY <2>1, <2>2, Zenon DEF ToSet
<1>10. \A i \in DOMAIN p : i > 1 => \E j \in DOMAIN q : j > 1 /\ q[j] = p[i]
  BY <1>6, Zenon
<1>. QED  BY <1>5, <1>8, <1>9, <1>10, Zenon DEF p
\* A call past its wait is the head of the queue.
LEMMA HolderIsHead ==
    ASSUME Turns, NEW v \in VMs, pc[v] \in Reading
    PROVE  queue # <<>> /\ Head(queue) = v
<1>1. v \in ToSet(queue) /\ pc[v] # "wait"
  BY Zenon DEF Turns, Queued, Reading, Ended
<1>2. PICK i \in DOMAIN queue : queue[i] = v
  BY <1>1, Zenon DEF ToSet
<1>3. queue \in Seq(VMs) /\ ~(i > 1)
  BY <1>1, <1>2, Zenon DEF Turns
<1>. QED  BY <1>2, <1>3

-----------------------------------------------------------------------------
(* The queue of the lock. *)

\* A call that neither joins nor leaves the queue.
LEMMA TurnsQuiet ==
    ASSUME Turns, NEW v \in VMs, NEW l \in Labels, Goto(v, l), UNCHANGED queue,
           \/ pc[v] \in {"new", "lookup"} /\ l \in Ended
           \/ /\ pc[v] \in Reading \/ (pc[v] = "wait" /\ queue # <<>> /\ Head(queue) = v)
              /\ l \in Reading
    PROVE  Turns'
<1>1. pc' \in [VMs -> Labels] /\ \A w \in VMs : pc'[w] = IF w = v THEN l ELSE pc[w]
  BY Zenon DEF Turns, Goto
<1>2. Queued' = Queued
  BY <1>1 DEF Queued, Reading, Ended
<1>3. \A i \in DOMAIN queue : queue[i] \in VMs
  BY DEF Turns
<1>4. ASSUME NEW i \in DOMAIN queue, i > 1 PROVE queue[i] # v
  <2>1. CASE pc[v] \in {"new", "lookup"} /\ l \in Ended
    <3>1. pc[queue[i]] = "wait"
      BY <1>4, Zenon DEF Turns
    <3>. QED  BY <2>1, <3>1
  <2>2. CASE queue # <<>> /\ Head(queue) = v
    <3>1. queue \in Seq(VMs) /\ Distinct(queue)
      BY Zenon DEF Turns
    <3>2. 1 \in DOMAIN queue /\ queue[1] = v /\ i # 1
      BY <1>4, <2>2, <3>1
    <3>. QED  BY <1>4, <3>1, <3>2, Zenon DEF Distinct
  <2>. QED  BY <2>1, <2>2, HolderIsHead, Zenon
<1>5. \A i \in DOMAIN queue : i > 1 => pc'[queue[i]] = "wait"
  BY <1>1, <1>3, <1>4, Zenon DEF Turns
<1>. QED  BY <1>1, <1>2, <1>5, Zenon DEF Turns

\* The first attempt of a call asks for the lock.
LEMMA TurnsBegin ==
    ASSUME Turns, NEW v \in VMs, pc[v] = "new", Goto(v, "wait"), queue' = Append(queue, v)
    PROVE  Turns'
<1>1. pc' \in [VMs -> Labels] /\ \A w \in VMs : pc'[w] = IF w = v THEN "wait" ELSE pc[w]
  BY Zenon DEF Turns, Goto, Labels
<1>2. queue \in Seq(VMs) /\ Distinct(queue) /\ v \notin ToSet(queue) /\ ToSet(queue) = Queued
  BY Zenon DEF Turns, Queued
<1>3. /\ queue' \in Seq(VMs) /\ Distinct(queue') /\ ToSet(queue') = ToSet(queue) \cup {v}
      /\ \A i \in DOMAIN queue' : queue'[i] = v \/ (i \in DOMAIN queue /\ queue'[i] = queue[i])
  BY <1>2, JoinQueue
<1>4. Queued' = Queued \cup {v}
  BY <1>1 DEF Queued, Ended
<1>5. \A i \in DOMAIN queue : queue[i] \in VMs
  BY <1>2
<1>6. ASSUME NEW i \in DOMAIN queue', i > 1 PROVE pc'[queue'[i]] = "wait"
  <2>1. CASE queue'[i] = v
    BY <1>1, <2>1, Zenon
  <2>2. CASE i \in DOMAIN queue /\ queue'[i] = queue[i]
    <3>1. pc[queue[i]] = "wait" /\ queue[i] \in VMs
      BY <1>5, <1>6, <2>2, Zenon DEF Turns
    <3>. QED  BY <1>1, <2>2, <3>1, Zenon
  <2>. QED  BY <1>3, <2>1, <2>2, Zenon
<1>. QED  BY <1>1, <1>2, <1>3, <1>4, <1>6, Zenon DEF Turns, Distinct

\* Whoever holds the lock leaves the queue with its answer, or joins it again
\* at its end.
LEMMA TurnsUnlock ==
    ASSUME Turns, NEW v \in VMs, queue # <<>>, Head(queue) = v, NEW l \in Labels, Goto(v, l),
           \/ queue' = Tail(queue) /\ l \in Ended \cup {"lookup"}
           \/ queue' = Append(Tail(queue), v) /\ l = "wait"
    PROVE  Turns'
<1>. DEFINE t == Tail(queue)
<1>1. pc' \in [VMs -> Labels] /\ \A w \in VMs : pc'[w] = IF w = v THEN l ELSE pc[w]
  BY Zenon DEF Turns, Goto
<1>2. queue \in Seq(VMs) /\ Distinct(queue) /\ queue # <<>> /\ Head(queue) = v
  BY Zenon DEF Turns
<1>3. /\ t \in Seq(VMs) /\ Distinct(t) /\ ToSet(t) = ToSet(queue) \ {v}
      /\ \A x \in ToSet(t) : \E i \in DOMAIN queue : i > 1 /\ queue[i] = x
  BY <1>2, TailOfQueue
<1>4. \A x \in ToSet(t) : x \in VMs /\ x # v /\ pc[x] = "wait"
  <2>1. ToSet(t) \subseteq VMs
    BY <1>3 DEF ToSet
  <2>. QED  BY <1>3, <2>1, Zenon DEF Turns
<1>5. ToSet(t) = Queued \ {v}
  BY <1>3, Zenon DEF Turns
<1>. HIDE DEF t
<1>6. CASE queue' = t /\ l \in Ended \cup {"lookup"}
  <2>1. Queued' = Queued \ {v}
    BY <1>1, <1>6 DEF Queued, Ended
  <2>2. \A i \in DOMAIN queue' : pc'[queue'[i]] = "wait"
    BY <1>1, <1>4, <1>6, Zenon DEF ToSet
  <2>. QED  BY <1>1, <1>3, <1>5, <1>6, <2>1, <2>2, Zenon DEF Turns, Distinct
<1>7. CASE queue' = Append(t, v) /\ l = "wait"
  <2>1. /\ queue' \in Seq(VMs) /\ Distinct(queue') /\ ToSet(queue') = ToSet(t) \cup {v}
        /\ \A i \in DOMAIN queue' : queue'[i] = v \/ (i \in DOMAIN t /\ queue'[i] = t[i])
    BY <1>3, <1>7, JoinQueue
  <2>2. Queued' = (Queued \ {v}) \cup {v}
    BY <1>1, <1>7 DEF Queued, Ended
  <2>3. ASSUME NEW i \in DOMAIN queue' PROVE pc'[queue'[i]] = "wait"
    <3>1. CASE queue'[i] = v
      BY <1>1, <1>7, <3>1, Zenon
    <3>2. CASE i \in DOMAIN t /\ queue'[i] = t[i]
      <4>1. t[i] \in ToSet(t)
        BY <3>2, Zenon DEF ToSet
      <4>. QED  BY <1>1, <1>4, <3>2, <4>1, Zenon
    <3>. QED  BY <2>1, <3>1, <3>2, Zenon
  <2>. QED  BY <1>1, <1>5, <2>1, <2>2, <2>3, Zenon DEF Turns, Distinct
<1>. QED  BY <1>6, <1>7, Zenon DEF t

\* A call is dropped while it waits.
LEMMA TurnsDropped ==
    ASSUME Turns, NEW v \in VMs, NEW n \in DOMAIN queue, queue[n] = v, queue' = RemoveAt(queue, n),
           Goto(v, "dropped")
    PROVE  Turns'
<1>1. pc' \in [VMs -> Labels] /\ \A w \in VMs : pc'[w] = IF w = v THEN "dropped" ELSE pc[w]
  BY Zenon DEF Turns, Goto, Labels, Ended
<1>2. queue \in Seq(VMs) /\ Distinct(queue)
  BY Zenon DEF Turns
<1>3. /\ queue' \in Seq(VMs) /\ Distinct(queue') /\ ToSet(queue') = ToSet(queue) \ {v}
      /\ \A i \in DOMAIN queue' : i > 1 => \E j \in DOMAIN queue : j > 1 /\ queue[j] = queue'[i]
  BY <1>2, LeaveQueue
<1>4. Queued' = Queued \ {v}
  BY <1>1 DEF Queued, Ended
<1>5. \A i \in DOMAIN queue' : queue'[i] \in VMs /\ queue'[i] # v
  <2>1. \A i \in DOMAIN queue' : queue'[i] \in VMs
    BY <1>3
  <2>. QED  BY <1>3, <2>1, Zenon DEF ToSet
<1>6. ASSUME NEW i \in DOMAIN queue', i > 1 PROVE pc'[queue'[i]] = "wait"
  <2>1. PICK j \in DOMAIN queue : j > 1 /\ queue[j] = queue'[i]
    BY <1>3, <1>6, Zenon
  <2>2. pc[queue[j]] = "wait"
    BY <2>1, Zenon DEF Turns
  <2>. QED  BY <1>1, <1>5, <2>1, <2>2, Zenon
<1>. QED  BY <1>1, <1>3, <1>4, <1>6, Zenon DEF Turns, Distinct

-----------------------------------------------------------------------------
(* The addresses. *)

\* A call that has no row and whose attempt is not about to commit: before and
\* after the step.
LEMMA AddressedQuiet ==
    ASSUME Turns, Addressed, NEW v \in VMs, NEW l, Goto(v, l), UNCHANGED vms,
           pc[v] # "placed", l # "placed",
           \/ pc[v] # "insert" /\ l # "insert" /\ UNCHANGED <<ips, kept>>
           \/ pc[v] # "insert" /\ l = "insert" /\ ips' = [ips EXCEPT ![v] = @ + 1] /\ UNCHANGED kept
           \/ l # "insert" /\ Released(v)
           \/ l # "insert" /\ ReleaseFails(v)
    PROVE  Addressed'
<1>1. \A w \in VMs : pc'[w] = IF w = v THEN l ELSE pc[w]
  BY Zenon DEF Turns, Goto
<1>2. vms[v] = NoRow /\ vms'[v] = NoRow
  BY Zenon DEF Addressed, NoRow
<1>3. \A w \in VMs : vms'[w] # NoRow => pc'[w] = "placed"
  BY <1>1, <1>2, Zenon DEF Addressed, NoRow
<1>4. ips' \in [VMs -> Nat]
  BY DEF Addressed, Released, ReleaseFails
<1>5. ASSUME NEW w \in VMs, w # v PROVE Holds(w)'
  <2>1. ips'[w] = ips[w] /\ (w \in kept' <=> w \in kept)
    BY <1>5 DEF Addressed, Released, ReleaseFails
  <2>2. pc'[w] = pc[w] /\ Holds(w)
    BY <1>1, <1>5, Zenon DEF Addressed
  <2>. QED  BY <2>1, <2>2, Zenon DEF Holds, NoRow
<1>6. Holds(v)'
  <2>1. pc'[v] = l /\ Holds(v) /\ ips[v] \in Nat /\ DOMAIN ips = VMs
    BY <1>1 DEF Addressed
  <2>2. CASE pc[v] # "insert" /\ l # "insert" /\ UNCHANGED <<ips, kept>>
    BY <1>2, <2>1, <2>2, Zenon DEF Holds, NoRow
  <2>3. CASE pc[v] # "insert" /\ l = "insert" /\ ips' = [ips EXCEPT ![v] = @ + 1] /\ UNCHANGED kept
    <3>1. v \notin kept => ips[v] = 0
      BY <1>2, <2>1, <2>3, Zenon DEF Holds
    <3>2. ips'[v] = ips[v] + 1
      BY <2>1, <2>3
    <3>3. ips'[v] >= 1 /\ (v \notin kept' => ips'[v] = 1)
      BY <2>1, <2>3, <3>1, <3>2
    <3>. QED  BY <2>1, <2>3, <3>3, Zenon DEF Holds, NoRow
  <2>4. CASE l # "insert" /\ Released(v)
    BY <1>2, <2>1, <2>4, Zenon DEF Holds, Released, NoRow
  <2>5. CASE l # "insert" /\ ReleaseFails(v)
    BY <1>2, <2>1, <2>5, Zenon DEF Holds, ReleaseFails, NoRow
  <2>. QED  BY <2>2, <2>3, <2>4, <2>5, Zenon
<1>7. \A w \in VMs : Holds(w)'
  BY <1>5, <1>6, Zenon
<1>. QED  BY <1>3, <1>4, <1>7, Zenon DEF Addressed, NoRow

\* A row that is committed or acknowledged as gone.
LEMMA AddressedRow ==
    ASSUME Turns, Addressed, NEW v \in VMs, NEW row, vms' = [vms EXCEPT ![v] = row],
           \/ pc[v] = "insert" /\ Goto(v, "placed") /\ row # NoRow /\ UNCHANGED <<ips, kept>>
           \/ vms[v] # NoRow /\ UNCHANGED pc /\ row = NoRow /\ Released(v)
    PROVE  Addressed'
<1>1. DOMAIN vms' = VMs /\ \A w \in VMs : vms'[w] = IF w = v THEN row ELSE vms[w]
  BY Zenon DEF Addressed
<1>2. /\ \A w \in VMs \ {v} : pc'[w] = pc[w]
      /\ pc'[v] = "placed"
  BY Zenon DEF Turns, Addressed, Goto
<1>3. \A w \in VMs : vms'[w] # NoRow => pc'[w] = "placed"
  BY <1>1, <1>2, Zenon DEF Addressed, NoRow
<1>4. ips' \in [VMs -> Nat]
  BY DEF Addressed, Released
<1>5. ASSUME NEW w \in VMs, w # v PROVE Holds(w)'
  <2>1. ips'[w] = ips[w] /\ (w \in kept' <=> w \in kept)
    BY <1>5 DEF Addressed, Released
  <2>2. pc'[w] = pc[w] /\ vms'[w] = vms[w] /\ Holds(w)
    BY <1>1, <1>2, <1>5, Zenon DEF Addressed
  <2>. QED  BY <2>1, <2>2, Zenon DEF Holds, NoRow
<1>6. Holds(v)'
  <2>1. Holds(v) /\ DOMAIN ips = VMs /\ vms'[v] = row
    BY <1>1, Zenon DEF Addressed
  <2>2. CASE pc[v] = "insert" /\ row # NoRow /\ UNCHANGED <<ips, kept>>
    BY <2>1, <2>2, Zenon DEF Holds, NoRow
  <2>3. CASE row = NoRow /\ Released(v)
    <3>1. ips'[v] = 0
      BY <2>1, <2>3, Zenon DEF Released
    <3>2. pc'[v] # "insert"
      BY <1>2
    <3>. QED  BY <2>1, <2>3, <3>1, <3>2, Zenon DEF Holds, NoRow
  <2>. QED  BY <2>2, <2>3, Zenon
<1>7. \A w \in VMs : Holds(w)'
  BY <1>5, <1>6, Zenon
<1>. QED  BY <1>1, <1>3, <1>4, <1>7, Zenon DEF Addressed, NoRow

-----------------------------------------------------------------------------
\* Nobody has asked for anything at the start.
LEMMA AttemptsInit == Init => Attempts
<1>. SUFFICES ASSUME Init PROVE Attempts
  OBVIOUS
<1>1. /\ pc = [v \in VMs |-> "new"] /\ queue = <<>> /\ vms = [v \in VMs |-> NoRow]
      /\ ips = [v \in VMs |-> 0] /\ kept = {}
  BY Zenon DEF Init
<1>2. pc \in [VMs -> Labels] /\ Queued = {}
  BY <1>1, Zenon DEF Labels, Queued
<1>3. queue \in Seq(VMs) /\ DOMAIN queue = {}
  BY <1>1
<1>4. ToSet(queue) = {}
  BY <1>3, Zenon DEF ToSet
<1>5. Turns
  BY <1>2, <1>3, <1>4, Zenon DEF Turns, Distinct
<1>6. Addressed
  <2>1. DOMAIN vms = VMs /\ ips \in [VMs -> Nat]
    BY <1>1
  <2>. QED  BY <1>1, <2>1, Zenon DEF Addressed, Holds
<1>. QED  BY <1>5, <1>6, Zenon DEF Attempts

\* create_machine up to the decision: the lock, the reads, the address.
LEMMA AttemptGoesOn ==
    ASSUME Attempts, NEW v \in VMs,
           \/ Begin(v) \/ ReadHosts(v) \/ ReadUsage(v) \/ ReadClaims(v) \/ Lookup(v)
           \/ \E h \in Hosts : ReadStorage(v, h)
           \/ Decide(v)
           \/ Fails(v) \/ Drop(v)
    PROVE  Attempts'
<1>. USE DEF Attempts
<1>1. CASE Begin(v)
  <2>1. pc[v] = "new" /\ UNCHANGED <<vms, ips, kept>>
    BY <1>1, Zenon DEF Begin, rows, marks
  <2>2. CASE Goto(v, "existing") /\ UNCHANGED queue
    <3>1. "existing" \in Labels /\ "existing" \in Ended
      BY Zenon DEF Labels, Ended
    <3>. QED  BY <2>1, <2>2, <3>1, TurnsQuiet, AddressedQuiet, Zenon
  <2>3. CASE Goto(v, "wait") /\ queue' = Append(queue, v)
    BY <2>1, <2>3, TurnsBegin, AddressedQuiet, Zenon
  <2>. QED  BY <1>1, <2>2, <2>3, Zenon DEF Begin
<1>2. CASE ReadHosts(v)
  <2>1. /\ pc[v] = "wait" /\ Head(queue) = v /\ Goto(v, "usage") /\ UNCHANGED <<vms, ips, kept, queue>>
    BY <1>2, Zenon DEF ReadHosts, rows, marks
  <2>2. v \in ToSet(queue)
    BY <2>1, Zenon DEF Turns, Queued, Ended
  <2>3. queue # <<>>
    BY <2>2 DEF ToSet
  <2>4. "usage" \in Labels /\ "usage" \in Reading
    BY Zenon DEF Labels, Reading
  <2>. QED  BY <2>1, <2>3, <2>4, TurnsQuiet, AddressedQuiet, Zenon
<1>3. CASE ReadUsage(v) \/ ReadClaims(v)
  <2>1. /\ pc[v] \in {"usage", "claims"} /\ UNCHANGED <<vms, ips, kept, queue>>
        /\ \E l \in {"claims", "storage"} : Goto(v, l)
    BY <1>3, Zenon DEF ReadUsage, ReadClaims, rows, marks
  <2>2. PICK l \in {"claims", "storage"} : Goto(v, l)
    BY <2>1, Zenon
  <2>3. l \in Labels /\ l \in Reading /\ pc[v] \in Reading
    BY <2>1, Zenon DEF Labels, Reading
  <2>. QED  BY <2>1, <2>2, <2>3, TurnsQuiet, AddressedQuiet, Zenon
<1>4. CASE \E h \in Hosts : ReadStorage(v, h)
  <2>1. UNCHANGED <<vms, ips, kept, queue, pc>>
    BY <1>4, Zenon DEF ReadStorage, rows, marks
  <2>. QED  BY <2>1, Zenon DEF Turns, Addressed, Queued, Distinct, NoRow, Holds
<1>5. CASE Decide(v)
  <2>1. pc[v] = "storage" /\ pc[v] \in Reading /\ UNCHANGED <<vms, kept>>
        /\ queue # <<>> /\ Head(queue) = v
    <3>1. pc[v] = "storage" /\ pc[v] \in Reading /\ UNCHANGED <<vms, kept>>
      BY <1>5, Zenon DEF Decide, Reading, marks
    <3>. QED  BY <3>1, HolderIsHead, Zenon
  <2>2. CASE /\ UNCHANGED ips /\ queue' = Tail(queue)
             /\ Goto(v, "nocapacity") \/ Goto(v, "unmet")
    <3>1. PICK l \in {"nocapacity", "unmet"} : Goto(v, l)
      BY <2>2, Zenon
    <3>2. l \in Labels /\ l \in Ended
      BY Zenon DEF Labels, Ended
    <3>. QED  BY <2>1, <2>2, <3>1, <3>2, TurnsUnlock, AddressedQuiet, Zenon
  <2>3. CASE ips' = [ips EXCEPT ![v] = @ + 1] /\ Goto(v, "insert") /\ UNCHANGED queue
    <3>1. "insert" \in Labels /\ "insert" \in Reading
      BY Zenon DEF Labels, Reading
    <3>. QED  BY <2>1, <2>3, <3>1, TurnsQuiet, AddressedQuiet, Zenon
  <2>. QED  BY <1>5, <2>2, <2>3, Zenon DEF Decide, Unlock
<1>6. CASE Lookup(v)
  <2>1. pc[v] = "lookup" /\ UNCHANGED <<vms, ips, kept, queue>> /\ (Goto(v, "existing") \/ Goto(v, "internal"))
    BY <1>6, Zenon DEF Lookup, rows, marks
  <2>2. PICK l \in {"existing", "internal"} : Goto(v, l)
    BY <2>1, Zenon
  <2>3. l \in Labels /\ l \in Ended
    BY Zenon DEF Labels, Ended
  <2>. QED  BY <2>1, <2>2, <2>3, TurnsQuiet, AddressedQuiet, Zenon
<1>7. CASE Fails(v)
  <2>1. "internal" \in Labels /\ "internal" \in Ended
    BY Zenon DEF Labels, Ended
  <2>2. Goto(v, "internal") /\ UNCHANGED <<vms, ips, kept>>
    BY <1>7, Zenon DEF Fails, rows
  <2>3. CASE pc[v] \in {"new", "lookup"} /\ UNCHANGED queue
    BY <2>1, <2>2, <2>3, TurnsQuiet, AddressedQuiet, Zenon
  <2>4. CASE /\ pc[v] \in {"usage", "claims", "storage"} \/ (pc[v] = "wait" /\ Head(queue) = v)
             /\ queue' = Tail(queue)
    <3>1. queue # <<>> /\ Head(queue) = v
      <4>1. CASE pc[v] = "wait" /\ Head(queue) = v
        <5>1. v \in ToSet(queue)
          BY <4>1, Zenon DEF Turns, Queued, Ended
        <5>. QED  BY <4>1, <5>1 DEF ToSet
      <4>2. CASE pc[v] \in Reading
        BY <4>2, HolderIsHead, Zenon
      <4>. QED  BY <2>4, <4>1, <4>2, Zenon DEF Reading
    <3>2. Turns'
      BY <2>1, <2>2, <2>4, <3>1, TurnsUnlock, Zenon
    <3>. QED  BY <2>1, <2>2, <2>4, <3>2, AddressedQuiet, Zenon
  <2>. QED  BY <1>7, <2>3, <2>4, Zenon DEF Fails, Unlock
<1>8. CASE Drop(v)
  <2>1. "dropped" \in Labels /\ "dropped" \in Ended
    BY Zenon DEF Labels, Ended
  <2>2. /\ Goto(v, "dropped") /\ UNCHANGED <<vms, ips>>
        /\ kept' = IF pc[v] = "insert" THEN kept \cup {v} ELSE kept
        /\ pc[v] \in {"lookup", "wait"} \cup Reading
    BY <1>8, Zenon DEF Drop, rows, Reading
  <2>3. Turns'
    <3>1. CASE pc[v] = "lookup" /\ UNCHANGED queue
      BY <2>1, <2>2, <3>1, TurnsQuiet, Zenon
    <3>2. CASE \E i \in DOMAIN queue : queue[i] = v /\ queue' = RemoveAt(queue, i)
      BY <2>2, <3>2, TurnsDropped, Zenon
    <3>3. CASE pc[v] \in Reading /\ queue' = Tail(queue)
      <4>1. queue # <<>> /\ Head(queue) = v
        BY <3>3, HolderIsHead, Zenon
      <4>. QED  BY <2>1, <2>2, <3>3, <4>1, TurnsUnlock, Zenon
    <3>. QED  BY <1>8, <3>1, <3>2, <3>3, Zenon DEF Drop, Unlock, Reading
  <2>4. pc[v] # "placed"
    BY <2>2, Zenon DEF Reading
  <2>5. CASE pc[v] = "insert"
    BY <2>2, <2>4, <2>5, AddressedQuiet, <2>3, Zenon DEF ReleaseFails
  <2>6. CASE pc[v] # "insert"
    BY <2>2, <2>4, <2>6, AddressedQuiet, <2>3, Zenon
  <2>. QED  BY <2>5, <2>6, Zenon
<1>. QED  BY <1>1, <1>2, <1>3, <1>4, <1>5, <1>6, <1>7, <1>8, Zenon

\* insert_vm: whatever comes of it, the lock is given back, and the address
\* too unless the row was committed.
LEMMA AttemptEnds ==
    ASSUME Attempts, NEW v \in VMs, Insert(v)
    PROVE  Attempts'
<1>. USE DEF Attempts
<1>1. pc[v] = "insert" /\ queue # <<>> /\ Head(queue) = v
  <2>1. pc[v] = "insert" /\ pc[v] \in Reading
    BY Zenon DEF Insert, Reading
  <2>. QED  BY <2>1, HolderIsHead, Zenon
<1>2. CASE Raced(v)
  <2>1. /\ Released(v) \/ ReleaseFails(v)
        /\ UNCHANGED vms
        /\ \/ Goto(v, "wait") /\ queue' = Append(Tail(queue), v)
           \/ Goto(v, "contended") /\ queue' = Tail(queue)
    BY <1>2, Zenon DEF Raced, Undo
  <2>2. "wait" \in Labels /\ "contended" \in Labels /\ "contended" \in Ended
    BY Zenon DEF Labels, Ended
  <2>3. Turns'
    BY <1>1, <2>1, <2>2, TurnsUnlock, Zenon
  <2>4. Addressed'
    BY <1>1, <2>1, AddressedQuiet, Zenon
  <2>. QED  BY <2>3, <2>4, Zenon
<1>3. CASE /\ Goto(v, "lookup") \/ Goto(v, "internal")
           /\ Unlock /\ (Released(v) \/ ReleaseFails(v)) /\ UNCHANGED vms
  <2>1. PICK l \in {"lookup", "internal"} : Goto(v, l)
    BY <1>3, Zenon
  <2>2. l \in Labels /\ l \in Ended \cup {"lookup"}
    BY Zenon DEF Labels, Ended
  <2>3. Turns'
    BY <1>1, <1>3, <2>1, <2>2, TurnsUnlock, Zenon DEF Unlock
  <2>. QED  BY <1>1, <1>3, <2>1, <2>3, AddressedQuiet, Zenon
<1>4. ASSUME NEW h, Goto(v, "placed"), Unlock, UNCHANGED <<ips, kept>>,
             vms' = [vms EXCEPT ![v] = [host |-> h, gpus |-> snap.pick.gpus,
                                        disks |-> snap.pick.disks]]
      PROVE  Attempts'
  <2>1. "placed" \in Labels /\ "placed" \in Ended
    BY Zenon DEF Labels, Ended
  <2>2. Turns'
    BY <1>1, <1>4, <2>1, TurnsUnlock, Zenon DEF Unlock
  <2>3. PICK row : row = [host |-> h, gpus |-> snap.pick.gpus, disks |-> snap.pick.disks]
    OBVIOUS
  <2>4. row # NoRow
    <3>1. "host" \in DOMAIN row
      BY <2>3
    <3>2. DOMAIN NoRow = {}
      BY DEF NoRow
    <3>. QED  BY <3>1, <3>2
  <2>5. Addressed'
    BY <1>1, <1>4, <2>3, <2>4, AddressedRow, Zenon
  <2>. QED  BY <2>2, <2>5, Zenon
<1>. QED  BY <1>2, <1>3, <1>4, Zenon DEF Insert, Undo

\* Every step preserves the invariant.
LEMMA AttemptsNext == Attempts /\ [Next]_vars => Attempts'
<1>. SUFFICES ASSUME Attempts, [Next]_vars PROVE Attempts'
  OBVIOUS
<1>1. ASSUME NEW v \in VMs, CallStep(v) PROVE Attempts'
  BY <1>1, AttemptGoesOn, AttemptEnds, Zenon DEF CallStep
<1>2. ASSUME NEW v \in VMs, AckTearDown(v) PROVE Attempts'
  <2>1. /\ vms[v] # NoRow /\ vms' = [vms EXCEPT ![v] = NoRow] /\ Released(v)
        /\ UNCHANGED <<pc, queue>>
    BY <1>2, Zenon DEF AckTearDown, calls
  <2>2. Addressed'
    BY <2>1, AddressedRow, Zenon DEF Attempts
  <2>3. Turns'
    BY <2>1, Zenon DEF Attempts, Turns, Queued, Distinct
  <2>. QED  BY <2>2, <2>3, Zenon DEF Attempts
<1>3. CASE UNCHANGED <<vms, ips, kept, pc, queue>>
  BY <1>3, Zenon DEF Attempts, Turns, Addressed, Queued, Distinct, NoRow, Holds
<1>4. CASE \/ UNCHANGED vars
           \/ \E v \in VMs : AgentCreate(v) \/ TearDown(v)
           \/ \E h \in Hosts : RefreshCapacity(h) \/ Heartbeat(h) \/ Register(h) \/ HostGone(h)
           \/ \E d \in Unsteady : Drain(d) \/ Toggle(d)
  <2>1. UNCHANGED <<vms, ips, kept, pc, queue>>
    BY <1>4, Zenon DEF vars, rows, calls, marks, AgentCreate, TearDown, RefreshCapacity, Heartbeat,
                Register, HostGone, Drain, Toggle
  <2>. QED  BY <1>3, <2>1, Zenon
<1>. QED  BY <1>1, <1>2, <1>4, Zenon DEF Next

\* AttemptsGiveBack for any number of calls, hosts and devices, any number of
\* attempts per call, any changes under them and any number of failed statements
\* and dropped calls: every way out of try_place_vm gives back the placement
\* lock and, unless the row was committed, every cluster IP of the VM, but for
\* a release that fails itself and a call dropped before its commit; and no
\* release of a lost attempt takes the IP of a VM that has a row.
THEOREM AttemptsAreUndone == Spec => []AttemptsGiveBack
<1>1. Attempts => AttemptsGiveBack
  BY Zenon DEF Attempts, Turns, Addressed, AttemptsGiveBack, Queued, Distinct, Holds
<1>. QED  BY <1>1, AttemptsInit, AttemptsNext, PTL DEF Spec
===============================================================================
