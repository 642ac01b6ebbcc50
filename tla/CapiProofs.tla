------------------------------ MODULE CapiProofs ------------------------------
(***************************************************************************)
(* Proofs about the CAPI provider, for any number of machines, ids and     *)
(* faults and without restricting when the reconcilers run.                *)
(*                                                                         *)
(* No orphans (Safe): what a reconciler made is known to somebody at every *)
(* step, to the status of its object, to the answer it has just received,  *)
(* or to the call that waits for the agent.  The second part shows that    *)
(* CreateMachine answers with a VM that runs (ServingOrExcused).           *)
(***************************************************************************)
EXTENDS Capi, TLAPS

\* None of the ways an id gets lost has been met yet.
Clean == happened \cap {"lost", "kube", "restart", "stale", "host"} = {}

Objects == [fin: BOOLEAN, del: BOOLEAN, id: Nat, spec: Nat,
            ready: BOOLEAN, msg: BOOLEAN, reason: BOOLEAN]
VmRows == [name: Machines, c: Cids, st: VmStates]

\* The types of the variables the argument is about.
CapiType ==
    /\ obj \in [Reconcilers -> Objects] /\ seen \in [Reconcilers -> Objects]
    /\ loc \in [Reconcilers -> Objects] /\ pc \in [Reconcilers -> Steps]
    /\ ans = [r \in Reconcilers |-> ans[r]] /\ \A r \in Reconcilers : ans[r].id \in Nat
    /\ cid \in [Reconcilers -> Nat]
    /\ vms \in [Vids -> VmRows \cup {NoVm}] /\ calls \in [Machines -> {0} \cup Vids]
    /\ rows \subseteq Cids /\ nextCid \in Nat \ {0} /\ nextVid \in Nat \ {0}

-----------------------------------------------------------------------------
\* The VMs of machine m that nobody tears down.
Alive(x, m) == x # NoVm /\ x.name = m /\ x.st # "teardown"
LiveVms(m) == {v \in Vids : Alive(vms[v], m)}

\* What reconciler r answers for: its live VMs, or the clusters row of the name
\* unless DeleteCluster was called for it.
Mine(r) == IF r = Cluster THEN rows \ asked ELSE LiveVms(r)
Call(r) == IF r \in Machines THEN calls[r] ELSE 0

\* The steps at which the answer has the id and the status may not.
Holding(r) == IF r = Cluster THEN {"spec", "status"} ELSE {"status"}

\* The steps before the call, and those at which the copy has the object's id.
Early == {"idle", "finalize", "resolve", "client", "insert", "boot", "rpc"}
Reading == {"resolve", "client", "insert", "boot", "rpc", "wait"}

\* The answer has what CreateCluster or CreateMachine made, or what GetMachine
\* found; and DeleteMachine or DeleteCluster is done.
Observed(r, p, l, a) == r # Cluster /\ l.id # 0 /\ p = "wait" /\ ~l.del /\ a.code = "ok"
Created(r, p, l, a) == p \in Holding(r) \/ (p = "wait" /\ ~l.del /\ a.code = "ok")
Removed(p, l, a) == p = "lift" \/ (p = "wait" /\ l.del /\ a.code \in {"ok", "notfound"})

\* Reconciler r with the object o, at step p with the copy l, the answer a and
\* the call k, accounts for the set M.
Accounts(r, o, p, l, a, k, M) ==
    /\ p \notin {"idle", "finalize"} => o.fin
    /\ ~o.fin => o.id = 0
    /\ p \in Reading => l.id = o.id
    /\ p \in Early => a = NoAnswer
    /\ k # 0 => p = "wait" /\ a = NoAnswer /\ ~l.del /\ l.id = 0 /\ M \subseteq {k}
    /\ r = Cluster /\ p = "wait" => a.code # "notfound"
    /\ Observed(r, p, l, a) => a.id = o.id
    /\ Created(r, p, l, a) => M \subseteq {a.id}
    /\ ~Created(r, p, l, a) /\ k = 0 => M \subseteq {o.id}
    /\ Removed(p, l, a) => M = {}

Own(r) == Accounts(r, obj[r], pc[r], loc[r], ans[r], Call(r), Mine(r))

\* CreateCluster finds the row of the name or makes it.
OneRow == \A c, d \in rows : c = d

Accounted == CapiType /\ OneRow /\ \A r \in Reconcilers : Own(r)
Safe == Clean => Accounted

-----------------------------------------------------------------------------
\* The constants a step deals in.
LEMMA Facts ==
    /\ NoObj \in Objects /\ NewObj \in Objects /\ ~NoObj.fin /\ NoObj.id = 0
    /\ ~NewObj.fin /\ NewObj.id = 0
    /\ NoAnswer.id \in Nat /\ NoAnswer.code = "none"
    /\ \A v \in Vids : v \in Nat /\ v # 0
    /\ Cluster \in Reconcilers /\ \A m \in Machines : m \in Reconcilers /\ m # Cluster
    /\ Cids \subseteq Nat \ {0} /\ Vips \subseteq Nat
<1>1. 0 \in Nat
  OBVIOUS
<1>2. NoObj \in Objects
  BY <1>1, Zenon DEF NoObj, Objects
<1>3. NewObj \in Objects
  BY <1>2, Zenon DEF NewObj, Objects
<1>. QED  BY <1>2, <1>3, ApiAssumption DEF NoObj, NewObj, NoAnswer, Vids, Cids, Vips, Reconcilers

\* A step leaves reconciler r alone, but what it answers for may go away.
Apart(r) ==
    /\ obj'[r] = obj[r] /\ pc'[r] = pc[r] /\ loc'[r] = loc[r] /\ ans'[r] = ans[r]
    /\ Call(r)' = Call(r) /\ Mine(r)' \subseteq Mine(r)

\* A reconciler that is left alone still accounts for what is left.
LEMMA ApartOwns == ASSUME NEW r, Own(r), Apart(r) PROVE Own(r)'
<1>1. Accounts(r, obj[r], pc[r], loc[r], ans[r], Call(r), Mine(r)')
  BY Zenon DEF Own, Apart, Accounts
<1>. QED  BY <1>1, Zenon DEF Own, Apart

\* A step of reconciler r.
LEMMA OneSteps ==
    ASSUME Accounted, NEW r \in Reconcilers, CapiType', OneRow', Own(r)',
           \A q \in Reconcilers \ {r} : Apart(q)
    PROVE  Accounted'
<1>1. ASSUME NEW q \in Reconcilers PROVE Own(q)'
  BY <1>1, ApartOwns, Zenon DEF Accounted
<1>. QED  BY <1>1, Zenon DEF Accounted

\* Where the tables and the calls stay, so does what a reconciler answers for.
LEMMA Kept ==
    ASSUME UNCHANGED <<rows, asked, vms, calls>>
    PROVE  /\ \A r : Mine(r)' = Mine(r) /\ Call(r)' = Call(r)
           /\ OneRow => OneRow'
BY Zenon DEF Mine, LiveVms, Call, OneRow

\* A step of r that only moves on: to the object o, the step p, the copy l and
\* the answer a.
Moves(r, o, p, l, a) ==
    /\ obj' = [obj EXCEPT ![r] = o] /\ pc' = [pc EXCEPT ![r] = p]
    /\ loc' = [loc EXCEPT ![r] = l] /\ ans' = [ans EXCEPT ![r] = a]

\* Such a step keeps the account when the new values do.
LEMMA MoveOwns ==
    ASSUME Accounted, NEW r \in Reconcilers, NEW o \in Objects, NEW p \in Steps,
           NEW l \in Objects, NEW a, a.id \in Nat, Moves(r, o, p, l, a),
           UNCHANGED <<rows, asked, vms, calls, nextCid, nextVid>>,
           seen' \in [Reconcilers -> Objects], cid' \in [Reconcilers -> Nat],
           Accounts(r, o, p, l, a, Call(r), Mine(r))
    PROVE  Accounted'
<1>1. CapiType'
  BY Zenon DEF Accounted, CapiType, Moves
<1>2. /\ obj'[r] = o /\ pc'[r] = p /\ loc'[r] = l /\ ans'[r] = a
      /\ \A q \in Reconcilers \ {r} : /\ obj'[q] = obj[q] /\ pc'[q] = pc[q]
                                      /\ loc'[q] = loc[q] /\ ans'[q] = ans[q]
  BY Zenon DEF Accounted, CapiType, Moves
<1>3. Own(r)'
  BY <1>2, Kept, Zenon DEF Own
<1>4. \A q \in Reconcilers \ {r} : Apart(q)
  BY <1>2, Kept, Zenon DEF Apart
<1>5. OneRow'
  BY Kept, Zenon DEF Accounted
<1>. QED  BY <1>1, <1>3, <1>4, <1>5, OneSteps, Zenon

\* A value that stays, written as one of the updates above.
LEMMA Stays ==
    ASSUME CapiType, NEW r \in Reconcilers
    PROVE  /\ obj[r] \in Objects /\ pc[r] \in Steps /\ loc[r] \in Objects /\ ans[r].id \in Nat
           /\ obj = [obj EXCEPT ![r] = obj[r]] /\ pc = [pc EXCEPT ![r] = pc[r]]
           /\ loc = [loc EXCEPT ![r] = loc[r]] /\ ans = [ans EXCEPT ![r] = ans[r]]
BY Zenon DEF CapiType

\* An id is never 0.
LEMMA NotZero == ASSUME CapiType, NEW r PROVE 0 \notin Mine(r)
BY Facts, Zenon DEF CapiType, Mine, LiveVms

\* A reconcile that goes on to another step.
LEMMA GoOwns ==
    ASSUME Accounted, NEW r \in Reconcilers, NEW p \in Steps, Go(r, p),
           UNCHANGED <<obj, loc, ans, rows, asked, vms, calls, nextCid, nextVid, seen>>,
           cid' \in [Reconcilers -> Nat],
           Accounts(r, obj[r], p, loc[r], ans[r], Call(r), Mine(r))
    PROVE  Accounted'
<1>1. CapiType
  BY Zenon DEF Accounted
<1>2. Moves(r, obj[r], p, loc[r], ans[r])
  BY <1>1, Stays, Zenon DEF Go, Moves
<1>3. seen' \in [Reconcilers -> Objects]
  BY <1>1, Zenon DEF CapiType
<1>. QED  BY <1>1, <1>2, <1>3, Stays, MoveOwns, Zenon

\* A reconcile that ends, its object now o.
LEMMA DoneOwns ==
    ASSUME Accounted, NEW r \in Reconcilers, NEW again, Done(r, again),
           NEW o \in Objects, obj' = [obj EXCEPT ![r] = o],
           UNCHANGED <<rows, asked, vms, calls, nextCid, nextVid, seen>>,
           ~o.fin => o.id = 0, Call(r) = 0, Mine(r) \subseteq {o.id}
    PROVE  Accounted'
<1>1. CapiType
  BY Zenon DEF Accounted
<1>2. Moves(r, o, "idle", NoObj, NoAnswer)
  BY Zenon DEF Done, Moves
<1>3. seen' \in [Reconcilers -> Objects]
  BY <1>1, Zenon DEF CapiType
<1>4. cid' = [cid EXCEPT ![r] = 0]
  BY Zenon DEF Done
<1>5. cid' \in [Reconcilers -> Nat]
  BY <1>1, <1>4, Zenon DEF CapiType
<1>6. Accounts(r, o, "idle", NoObj, NoAnswer, Call(r), Mine(r))
  BY Facts, Zenon DEF Accounts, Created, Observed, Removed, Holding, Early, Reading
<1>7. "idle" \in Steps
  BY Zenon DEF Steps
<1>. QED  BY <1>1, <1>2, <1>3, <1>5, <1>6, <1>7, Facts, MoveOwns, Zenon

-----------------------------------------------------------------------------
\* Between the calls and at the failure path, what r answers for is what the
\* status of its object names.
LEMMA InStatus ==
    ASSUME NEW r, Own(r),
           pc[r] \in {"idle", "finalize", "resolve", "client", "insert", "boot", "rpc",
                      "crds", "terminal", "failed", "lift"}
    PROVE  /\ Call(r) = 0 /\ Mine(r) \subseteq {obj[r].id} /\ (~obj[r].fin => obj[r].id = 0)
           /\ pc[r] \notin {"idle", "finalize"} => obj[r].fin
           /\ pc[r] \in Reading => loc[r].id = obj[r].id
           /\ pc[r] \in Early => ans[r] = NoAnswer
BY Zenon DEF Own, Accounts, Created, Observed, Removed, Holding

\* A step after which that is still so.
LEMMA InStatusOwns ==
    ASSUME NEW r, NEW p \in {"resolve", "client", "insert", "boot", "rpc", "crds", "terminal",
                             "failed"},
           NEW o, NEW l, NEW a, NEW M, o.fin, M \subseteq {o.id},
           p \in Early => l.id = o.id /\ a = NoAnswer
    PROVE  Accounts(r, o, p, l, a, 0, M)
BY Zenon DEF Accounts, Created, Observed, Removed, Holding, Early, Reading

\* A reconcile begins on a copy that is the object.
LEMMA ReconcileOwns ==
    ASSUME Accounted, Clean', NEW r \in Reconcilers, Reconcile(r)
    PROVE  Accounted'
<1>1. CapiType /\ Own(r) /\ pc[r] = "idle"
  BY Zenon DEF Accounted, Reconcile
<1>2. seen[r] = obj[r]
  BY Zenon DEF Reconcile, Fault, Clean
<1>3. PICK p \in {"finalize", "client", "resolve", "lift"} :
         /\ pc' = [pc EXCEPT ![r] = p]
         /\ p # "finalize" => obj[r].fin
         /\ p = "lift" => obj[r].id = 0
  BY <1>2, Zenon DEF Reconcile, Go
<1>4. p \in Steps
  BY Zenon DEF Steps
<1>5. Moves(r, obj[r], p, obj[r], ans[r])
  BY <1>1, <1>2, <1>3, Stays, Zenon DEF Reconcile, Moves
<1>6. Accounts(r, obj[r], p, obj[r], ans[r], Call(r), Mine(r))
  <2>1. Call(r) = 0 /\ Mine(r) \subseteq {obj[r].id} /\ (~obj[r].fin => obj[r].id = 0)
        /\ ans[r] = NoAnswer
    BY <1>1, InStatus, Zenon DEF Early
  <2>2. p = "lift" => Mine(r) = {}
    BY <1>1, <1>3, <2>1, NotZero, Zenon
  <2>. QED  BY <1>3, <2>1, <2>2, Zenon DEF Accounts, Created, Observed, Removed, Holding, Early, Reading
<1>7. UNCHANGED <<rows, asked, vms, calls, nextCid, nextVid, seen, cid>>
  BY Zenon DEF Reconcile
<1>8. seen' \in [Reconcilers -> Objects] /\ cid' \in [Reconcilers -> Nat]
  BY <1>1, <1>7, Zenon DEF CapiType
<1>. QED  BY <1>1, <1>4, <1>5, <1>6, <1>7, <1>8, Stays, MoveOwns, Zenon

\* The finalizer is added to an object whose status has no id yet, or to none.
LEMMA AddFinalizerOwns ==
    ASSUME Accounted, NEW r \in Reconcilers, AddFinalizer(r) PROVE Accounted'
<1>1. CapiType /\ Own(r) /\ pc[r] = "finalize"
  BY Zenon DEF Accounted, AddFinalizer
<1>2. Call(r) = 0 /\ Mine(r) \subseteq {obj[r].id} /\ (~obj[r].fin => obj[r].id = 0)
  BY <1>1, InStatus, Zenon
<1>3. UNCHANGED <<rows, asked, vms, calls, nextCid, nextVid, seen>>
  BY Zenon DEF AddFinalizer
<1>4. CASE UNCHANGED obj
  <2>1. obj' = [obj EXCEPT ![r] = obj[r]] /\ obj[r] \in Objects
    BY <1>1, <1>4, Stays, Zenon
  <2>2. Done(r, TRUE) \/ Done(r, FALSE)
    BY Zenon DEF AddFinalizer
  <2>. QED  BY <1>2, <1>3, <2>1, <2>2, DoneOwns, Zenon
<1>5. CASE obj' = [obj EXCEPT ![r].fin = TRUE] /\ Done(r, FALSE)
  <2>1. PICK o : o = [obj[r] EXCEPT !.fin = TRUE]
    BY Zenon
  <2>2. o \in Objects /\ o.fin /\ o.id = obj[r].id
    BY <1>1, <2>1, Stays, Zenon DEF Objects
  <2>3. obj' = [obj EXCEPT ![r] = o]
    BY <1>5, <2>1, Zenon
  <2>. QED  BY <1>2, <1>3, <1>5, <2>2, <2>3, DoneOwns, Zenon
<1>. QED  BY <1>4, <1>5, Zenon DEF AddFinalizer

\* The finalizer is lifted when nothing is left to answer for.
LEMMA LiftFinalizerOwns ==
    ASSUME Accounted, NEW r \in Reconcilers, LiftFinalizer(r) PROVE Accounted'
<1>1. CapiType /\ Own(r) /\ pc[r] = "lift"
  BY Zenon DEF Accounted, LiftFinalizer
<1>2. Call(r) = 0 /\ Mine(r) = {} /\ (~obj[r].fin => obj[r].id = 0)
  BY <1>1, Zenon DEF Own, Accounts, Removed
<1>3. UNCHANGED <<rows, asked, vms, calls, nextCid, nextVid, seen>>
  BY Zenon DEF LiftFinalizer
<1>4. PICK o \in {obj[r], NoObj} : obj' = [obj EXCEPT ![r] = o]
  BY <1>1, Stays, Zenon DEF LiftFinalizer
<1>5. o \in Objects /\ (~o.fin => o.id = 0) /\ Mine(r) \subseteq {o.id}
  BY <1>1, <1>2, <1>4, Facts, Stays, Zenon
<1>6. Done(r, TRUE) \/ Done(r, FALSE)
  BY Zenon DEF LiftFinalizer
<1>. QED  BY <1>2, <1>3, <1>4, <1>5, <1>6, DoneOwns, Zenon

\* A reconcile goes from one such step to another.
LEMMA WithinStatus ==
    ASSUME Accounted, NEW r \in Reconcilers,
           pc[r] \in {"resolve", "client", "insert", "boot", "rpc", "crds", "terminal"},
           NEW p \in {"client", "insert", "boot", "rpc", "failed"}, Go(r, p),
           p \in Early => pc[r] \in {"resolve", "client", "insert", "boot", "rpc"},
           UNCHANGED <<obj, loc, ans, rows, asked, vms, calls, nextCid, nextVid, seen>>,
           cid' \in [Reconcilers -> Nat]
    PROVE  Accounted'
<1>1. Own(r)
  BY Zenon DEF Accounted
<1>2. /\ Call(r) = 0 /\ Mine(r) \subseteq {obj[r].id} /\ obj[r].fin
      /\ p \in Early => loc[r].id = obj[r].id /\ ans[r] = NoAnswer
  BY <1>1, InStatus, Zenon DEF Early, Reading
<1>3. p \in {"resolve", "client", "insert", "boot", "rpc", "crds", "terminal", "failed"}
  OBVIOUS
<1>4. Accounts(r, obj[r], p, loc[r], ans[r], 0, Mine(r))
  BY <1>2, <1>3, InStatusOwns, Zenon
<1>5. p \in Steps
  BY Zenon DEF Steps
<1>. QED  BY <1>2, <1>4, <1>5, GoOwns, Zenon

\* The client is looked up, and the call is refused or has no credentials.
LEMMA ClientOwns ==
    ASSUME Accounted, NEW r \in Reconcilers,
           CacheGet(r) \/ CacheError(r) \/ CacheInsert(r) \/ Refused(r)
    PROVE  Accounted'
<1>1. cid \in [Reconcilers -> Nat]
  BY Zenon DEF Accounted, CapiType
<1>2. CallStep(r) \in {"boot", "rpc"}
  BY Zenon DEF CallStep
<1>3. CASE CacheGet(r)
  <2>1. /\ pc[r] = "client" /\ (Go(r, CallStep(r)) \/ Go(r, "insert"))
        /\ UNCHANGED <<obj, loc, ans, rows, asked, vms, calls, nextCid, nextVid, seen, cid>>
    BY <1>3, Zenon DEF CacheGet, apiVars, kubeVars
  <2>. QED  BY <1>1, <1>2, <2>1, WithinStatus, Zenon DEF Early
<1>4. CASE CacheInsert(r)
  <2>1. /\ pc[r] = "insert" /\ Go(r, CallStep(r))
        /\ UNCHANGED <<obj, loc, ans, rows, asked, vms, calls, nextCid, nextVid, seen, cid>>
    BY <1>4, Zenon DEF CacheInsert, apiVars, kubeVars
  <2>. QED  BY <1>1, <1>2, <2>1, WithinStatus, Zenon DEF Early
<1>5. CASE CacheError(r) \/ Refused(r)
  <2>1. /\ pc[r] \in {"client", "rpc"} /\ Go(r, "failed")
        /\ UNCHANGED <<obj, loc, ans, rows, asked, vms, calls, nextCid, nextVid, seen, cid>>
    BY <1>5, Zenon DEF CacheError, Refused, Fail, kubeVars
  <2>. QED  BY <1>1, <2>1, WithinStatus, Zenon DEF Early
<1>. QED  BY <1>3, <1>4, <1>5, Zenon

\* A call that failed: what it may have begun is given up, and the retry or the
\* failure path goes on from the status.
LEMMA CallEndOwns ==
    ASSUME Accounted, NEW r \in Reconcilers, Retry(r) \/ CallFailed(r) PROVE Accounted'
<1>1. /\ CapiType /\ Own(r) /\ pc[r] = "wait"
      /\ ans[r].code \in {"unavailable", "deadline", "error"}
  BY Zenon DEF Accounted, Retry, CallFailed
<1>2. /\ Call(r) = 0 /\ Mine(r) \subseteq {obj[r].id} /\ obj[r].fin
      /\ loc[r].id = obj[r].id
  BY <1>1, Facts, Zenon DEF Own, Accounts, Created, Observed, Removed, Holding, Reading
<1>3. PICK p \in {"rpc", "failed"}, a \in {ans[r], NoAnswer} :
         /\ Go(r, p) /\ ans' = [ans EXCEPT ![r] = a]
         /\ p = "rpc" => a = NoAnswer
  BY <1>1, Stays, Zenon DEF Retry, CallFailed, Fail, apiVars
<1>4. UNCHANGED <<obj, loc, rows, asked, vms, calls, nextCid, nextVid, seen, cid>>
  BY Zenon DEF Retry, CallFailed, kubeVars, apiVars
<1>5. Moves(r, obj[r], p, loc[r], a) /\ a.id \in Nat
  BY <1>1, <1>3, <1>4, Stays, Facts, Zenon DEF Moves, Go
<1>6. Accounts(r, obj[r], p, loc[r], a, 0, Mine(r))
  BY <1>2, <1>3, InStatusOwns, Zenon DEF Early
<1>7. p \in Steps
  BY Zenon DEF Steps
<1>8. seen' \in [Reconcilers -> Objects] /\ cid' \in [Reconcilers -> Nat]
  BY <1>1, <1>4, Zenon DEF CapiType
<1>. QED  BY <1>1, <1>2, <1>4, <1>5, <1>6, <1>7, <1>8, Stays, MoveOwns, Zenon

\* The connection fails a call that was not carried out.
LEMMA UnreachedOwns ==
    ASSUME Accounted, NEW r \in Reconcilers, Unreached(r) PROVE Accounted'
<1>1. CapiType /\ Own(r) /\ pc[r] = "rpc"
  BY Zenon DEF Accounted, Unreached
<1>2. /\ Call(r) = 0 /\ Mine(r) \subseteq {obj[r].id} /\ obj[r].fin
      /\ loc[r].id = obj[r].id
  BY <1>1, InStatus, Zenon DEF Reading
<1>3. PICK a : a = [code |-> "unavailable", id |-> 0, st |-> "gone"]
  BY Zenon
<1>4. a.id \in Nat /\ a.code = "unavailable"
  BY <1>3, Zenon
<1>5. Moves(r, obj[r], "wait", loc[r], a)
  BY <1>1, <1>3, Stays, Zenon DEF Moves, Go, Unreached, Answer, kubeVars
<1>6. UNCHANGED <<rows, asked, vms, calls, nextCid, nextVid, seen, cid>>
  BY Zenon DEF Unreached, kubeVars
<1>7. Accounts(r, obj[r], "wait", loc[r], a, Call(r), Mine(r))
  BY <1>2, <1>4, Zenon DEF Accounts, Created, Observed, Removed, Holding, Early, Reading
<1>8. seen' \in [Reconcilers -> Objects] /\ cid' \in [Reconcilers -> Nat] /\ "wait" \in Steps
  BY <1>1, <1>6, Zenon DEF CapiType, Steps
<1>. QED  BY <1>1, <1>4, <1>5, <1>6, <1>7, <1>8, Stays, MoveOwns, Zenon

\* Any step of the protocol the reconcilers share.
LEMMA SharedOwns ==
    ASSUME Accounted, Clean', NEW r \in Reconcilers, SharedStep(r) PROVE Accounted'
BY ReconcileOwns, AddFinalizerOwns, LiftFinalizerOwns, ClientOwns, CallEndOwns, UnreachedOwns,
   Zenon DEF SharedStep

-----------------------------------------------------------------------------
\* A patch of the failure path leaves the id and the finalizer.
LEMMA FailurePatch ==
    ASSUME CapiType, NEW r \in Reconcilers, RecordFailure(r) \/ Patched(r, Failure(r))
    PROVE  \E o \in Objects : /\ obj' = [obj EXCEPT ![r] = o]
                              /\ o.fin = obj[r].fin /\ o.id = obj[r].id
<1>1. PICK o : o = Failure(r)
  BY Zenon
<1>2. obj[r] \in Objects
  BY Stays, Zenon
<1>3. o \in Objects /\ o.fin = obj[r].fin /\ o.id = obj[r].id
  BY <1>1, <1>2, Zenon DEF Objects, Failure
<1>4. obj' = [obj EXCEPT ![r] = o] \/ obj' = [obj EXCEPT ![r] = obj[r]]
  BY <1>1, Stays, Zenon DEF RecordFailure, Patched, PatchRefused, PatchLost
<1>. QED  BY <1>2, <1>3, <1>4, Zenon

\* The end of a reconcile whose object keeps its id and its finalizer.
LEMMA EndOwns ==
    ASSUME Accounted, NEW r \in Reconcilers,
           pc[r] \in {"crds", "terminal", "failed"} \/ (pc[r] = "spec" /\ r # Cluster),
           NEW again, Done(r, again), NEW o \in Objects, obj' = [obj EXCEPT ![r] = o],
           o.fin = obj[r].fin, o.id = obj[r].id,
           UNCHANGED <<rows, asked, vms, calls, nextCid, nextVid, seen>>
    PROVE  Accounted'
<1>1. Own(r)
  BY Zenon DEF Accounted
<1>2. Call(r) = 0 /\ Mine(r) \subseteq {obj[r].id} /\ obj[r].fin
  BY <1>1, Zenon DEF Own, Accounts, Created, Holding
<1>. QED  BY <1>2, DoneOwns, Zenon

\* A machine is resolved, its bootstrap data read, and its failure recorded.
LEMMA MachineGoes ==
    ASSUME Accounted, NEW m \in Machines,
           ResolveCluster(m) \/ Bootstrap(m) \/ MachineFailed(m)
    PROVE  Accounted'
<1>1. CapiType /\ m \in Reconcilers /\ cid \in [Reconcilers -> Nat]
  BY Facts, Zenon DEF Accounted, CapiType
<1>2. CASE ResolveCluster(m)
  <2>1. /\ pc[m] = "resolve" /\ (Go(m, "client") \/ Go(m, "failed"))
        /\ UNCHANGED <<obj, loc, ans, rows, asked, vms, calls, nextCid, nextVid, seen>>
    BY <1>2, Zenon DEF ResolveCluster, Fail, kubeVars
  <2>2. cid' = cid \/ cid' = [cid EXCEPT ![m] = obj[Cluster].id]
    BY <1>2, Zenon DEF ResolveCluster
  <2>3. obj[Cluster].id \in Nat
    BY <1>1, Facts, Stays, Zenon DEF Objects
  <2>4. cid' \in [Reconcilers -> Nat]
    BY <1>1, <2>2, <2>3, Zenon
  <2>. QED  BY <1>1, <2>1, <2>4, WithinStatus, Zenon DEF Early
<1>3. CASE Bootstrap(m)
  <2>1. /\ pc[m] = "boot" /\ (Go(m, "rpc") \/ Go(m, "failed"))
        /\ UNCHANGED <<obj, loc, ans, rows, asked, vms, calls, nextCid, nextVid, seen, cid>>
    BY <1>3, Zenon DEF Bootstrap, BootstrapData, Fail, apiVars, kubeVars
  <2>. QED  BY <1>1, <2>1, WithinStatus, Zenon DEF Early
<1>4. CASE MachineFailed(m)
  <2>1. /\ UNCHANGED obj \/ RecordFailure(m) \/ Patched(m, Failure(m))
        /\ pc[m] = "failed" /\ Done(m, TRUE)
        /\ UNCHANGED <<rows, asked, vms, calls, nextCid, nextVid, seen>>
    BY <1>4, Zenon DEF MachineFailed, Unresolved
  <2>2. \E o \in Objects : /\ obj' = [obj EXCEPT ![m] = o]
                           /\ o.fin = obj[m].fin /\ o.id = obj[m].id
    BY <1>1, <2>1, FailurePatch, Stays, Zenon
  <2>. QED  BY <1>1, <2>1, <2>2, EndOwns, Zenon
<1>. QED  BY <1>2, <1>3, <1>4, Zenon

\* What becomes of an answer.
LEMMA MachineAnsweredOwns ==
    ASSUME Accounted, NEW m \in Machines, MachineAnswered(m) PROVE Accounted'
<1>1. /\ CapiType /\ m \in Reconcilers /\ m # Cluster /\ cid \in [Reconcilers -> Nat]
      /\ Own(m) /\ pc[m] = "wait" /\ ans[m].code \in {"ok", "notfound"}
  BY Facts, Zenon DEF Accounted, CapiType, MachineAnswered
<1>2. /\ UNCHANGED <<rows, asked, vms, calls, nextCid, nextVid, seen, obj>>
  BY Zenon DEF MachineAnswered
<1>3. Call(m) = 0 /\ obj[m].fin /\ loc[m].id = obj[m].id
  BY <1>1, Facts, Zenon DEF Own, Accounts, Reading
<1>4. CASE loc[m].del
  <2>1. Go(m, "lift") /\ UNCHANGED <<loc, cid, ans>>
    BY <1>4, Zenon DEF MachineAnswered, Deletion_End
  <2>2. Mine(m) = {}
    BY <1>1, <1>4, Zenon DEF Own, Accounts, Removed
  <2>3. Accounts(m, obj[m], "lift", loc[m], ans[m], Call(m), Mine(m))
    BY <1>3, <2>2, Zenon DEF Accounts, Created, Observed, Removed, Holding, Early, Reading
  <2>4. "lift" \in Steps
    BY Zenon DEF Steps
  <2>. QED  BY <1>1, <1>2, <2>1, <2>3, <2>4, GoOwns, Zenon
<1>5. CASE ~loc[m].del /\ Creates(m)
  <2>1. PICK p \in {"status", "failed"} :
           Go(m, p) /\ UNCHANGED <<loc, cid, ans>> /\ (p = "status" <=> ans[m].code = "ok")
    BY <1>5, Zenon DEF MachineAnswered, Creation_End, Fail
  <2>2. Accounts(m, obj[m], p, loc[m], ans[m], Call(m), Mine(m))
    BY <1>1, <1>3, <1>5, <2>1, Zenon
       DEF Own, Accounts, Created, Observed, Removed, Holding, Early, Reading
  <2>3. p \in Steps
    BY Zenon DEF Steps
  <2>. QED  BY <1>1, <1>2, <2>1, <2>2, <2>3, GoOwns, Zenon
<1>6. CASE ~loc[m].del /\ ~Creates(m)
  <2>1. Mine(m) \subseteq {obj[m].id} /\ (ans[m].code = "ok" => ans[m].id = obj[m].id)
    BY <1>1, <1>3, <1>6, Zenon DEF Own, Accounts, Created, Observed, Holding, Creates
  <2>2. CASE Done(m, TRUE)
    <3>1. obj[m] \in Objects /\ obj' = [obj EXCEPT ![m] = obj[m]]
      BY <1>1, <1>2, Stays, Zenon
    <3>. QED  BY <1>1, <1>2, <1>3, <2>1, <2>2, <3>1, DoneOwns, Zenon
  <2>3. CASE \E p \in {"terminal", "status", "failed"} :
                Go(m, p) /\ UNCHANGED <<loc, cid, ans>> /\ (p = "status" => ans[m].code = "ok")
    <3>1. PICK p \in {"terminal", "status", "failed"} :
                Go(m, p) /\ UNCHANGED <<loc, cid, ans>> /\ (p = "status" => ans[m].code = "ok")
      BY <2>3, Zenon
    <3>2. Accounts(m, obj[m], p, loc[m], ans[m], Call(m), Mine(m))
      BY <1>1, <1>3, <2>1, <3>1, Zenon
         DEF Accounts, Created, Observed, Removed, Holding, Early, Reading
    <3>3. p \in Steps
      BY Zenon DEF Steps
    <3>. QED  BY <1>1, <1>2, <3>1, <3>2, <3>3, GoOwns, Zenon
  <2>. QED  BY <1>6, <2>2, <2>3, Zenon DEF MachineAnswered, Observation, Fail
<1>. QED  BY <1>4, <1>5, <1>6, Zenon

\* The id is committed to the status; then the spec is patched, or a terminal
\* failure recorded.
LEMMA MachinePatches ==
    ASSUME Accounted, Clean', NEW m \in Machines,
           CommitStatus(m) \/ CommitSpec(m) \/ RecordTerminal(m)
    PROVE  Accounted'
<1>1. /\ CapiType /\ m \in Reconcilers /\ m # Cluster /\ cid \in [Reconcilers -> Nat]
      /\ Own(m) /\ obj[m] \in Objects /\ ans[m].id \in Nat
      /\ loc[m] \in Objects /\ seen \in [Reconcilers -> Objects]
  BY Facts, Stays, Zenon DEF Accounted, CapiType
<1>2. pc[m] \in {"status", "spec", "terminal"}
  BY Zenon DEF CommitStatus, CommitSpec, RecordTerminal
<1>3. obj[m].fin /\ Call(m) = 0 /\ ~Gone(m)
  BY <1>1, <1>2, Facts, Zenon DEF Own, Accounts, Gone
<1>4. ~PatchRefused(m) /\ ~PatchLost(m)
  BY <1>3, Zenon DEF PatchRefused, PatchLost, Fault, Clean
<1>5. CASE CommitStatus(m)
  <2>1. PICK o : o = [obj[m] EXCEPT !.id = ans[m].id, !.ready = TRUE, !.msg = FALSE, !.reason = FALSE]
    BY Zenon
  <2>2. ans[m].id \in Nat
    BY <1>1, Zenon
  <2>3. o \in Objects /\ o.fin = obj[m].fin /\ o.id = ans[m].id
    BY <1>1, <2>1, <2>2, Zenon DEF Objects
  <2>4. /\ obj' = [obj EXCEPT ![m] = o] /\ Go(m, "spec")
        /\ UNCHANGED <<rows, asked, vms, calls, nextCid, nextVid, seen, cid, loc, ans>>
    BY <1>4, <1>5, <2>1, Zenon DEF CommitStatus, Patched
  <2>5. Moves(m, o, "spec", loc[m], ans[m])
    BY <1>1, <2>4, Stays, Zenon DEF Moves, Go
  <2>6. pc[m] = "status" /\ Mine(m) \subseteq {ans[m].id}
    BY <1>1, <1>5, Zenon DEF CommitStatus, Own, Accounts, Created, Holding
  <2>7. Accounts(m, o, "spec", loc[m], ans[m], Call(m), Mine(m))
    BY <1>1, <1>3, <2>3, <2>6, Zenon
       DEF Accounts, Created, Observed, Removed, Holding, Early, Reading
  <2>8. "spec" \in Steps /\ seen' \in [Reconcilers -> Objects] /\ cid' \in [Reconcilers -> Nat]
    BY <1>1, <2>4, Zenon DEF Steps
  <2>. QED  BY <1>1, <2>3, <2>4, <2>5, <2>7, <2>8, MoveOwns, Zenon
<1>6. CASE CommitSpec(m)
  <2>1. PICK o : o = [obj[m] EXCEPT !.spec = ans[m].id]
    BY Zenon
  <2>2. ans[m].id \in Nat
    BY <1>1, Zenon
  <2>3. o \in Objects /\ o.fin = obj[m].fin /\ o.id = obj[m].id
    BY <1>1, <2>1, <2>2, Zenon DEF Objects
  <2>4. /\ pc[m] = "spec" /\ obj' = [obj EXCEPT ![m] = o] /\ Done(m, TRUE)
        /\ UNCHANGED <<rows, asked, vms, calls, nextCid, nextVid, seen>>
    BY <1>4, <1>6, <2>1, Zenon DEF CommitSpec, Patched
  <2>. QED  BY <1>1, <2>3, <2>4, EndOwns, Zenon
<1>7. CASE RecordTerminal(m)
  <2>1. PICK o : o = [obj[m] EXCEPT !.ready = FALSE, !.msg = TRUE, !.reason = TRUE]
    BY Zenon
  <2>2. o \in Objects /\ o.fin = obj[m].fin /\ o.id = obj[m].id
    BY <1>1, <2>1, Zenon DEF Objects
  <2>3. /\ pc[m] = "terminal" /\ obj' = [obj EXCEPT ![m] = o] /\ Done(m, FALSE)
        /\ UNCHANGED <<rows, asked, vms, calls, nextCid, nextVid, seen>>
    BY <1>4, <1>7, <2>1, Zenon DEF RecordTerminal, Patched
  <2>. QED  BY <1>1, <2>2, <2>3, EndOwns, Zenon
<1>. QED  BY <1>5, <1>6, <1>7, Zenon

-----------------------------------------------------------------------------
\* A row changes its state, and a tombstone stays one or goes.
Withers ==
    /\ vms' \in [Vids -> VmRows \cup {NoVm}]
    /\ \A v \in Vids, m \in Machines : Alive(vms'[v], m) => Alive(vms[v], m)

\* Then no machine has more VMs to answer for.
LEMMA WitherMine ==
    ASSUME Withers, rows' \ asked' \subseteq rows \ asked, NEW r \in Reconcilers
    PROVE  Mine(r)' \subseteq Mine(r)
<1>1. r # Cluster => r \in Machines
  BY Zenon DEF Reconcilers
<1>. QED  BY <1>1, Zenon DEF Mine, LiveVms, Withers

\* A row in another state.
LEMMA NewState ==
    ASSUME CapiType, NEW v, vms[v] # NoVm, NEW s \in VmStates,
           v \in Vids => s = "teardown" \/ vms[v].st # "teardown",
           vms' = [vms EXCEPT ![v].st = s]
    PROVE  Withers /\ (s = "teardown" => \A m : v \notin LiveVms(m)')
<1>1. CASE v \notin Vids
  <2>1. vms' = vms
    BY <1>1, Zenon DEF CapiType
  <2>. QED  BY <1>1, <2>1, Zenon DEF CapiType, Withers, LiveVms
<1>2. CASE v \in Vids
  <2>1. PICK x : x = [vms[v] EXCEPT !.st = s]
    BY Zenon
  <2>2. vms[v] \in VmRows
    BY <1>2, Zenon DEF CapiType
  <2>3. x \in VmRows /\ x.st = s /\ x.name = vms[v].name
    BY <2>1, <2>2, Zenon DEF VmRows
  <2>4. vms' = [vms EXCEPT ![v] = x]
    BY <2>1, Zenon
  <2>5. /\ vms' \in [Vids -> VmRows \cup {NoVm}] /\ vms'[v] = x
        /\ \A w \in Vids : w # v => vms'[w] = vms[w]
    BY <1>2, <2>3, <2>4 DEF CapiType
  <2>6. \A m : Alive(x, m) => Alive(vms[v], m)
    BY <1>2, <2>3, Zenon DEF Alive
  <2>7. s = "teardown" => \A m : ~Alive(x, m)
    BY <2>3, Zenon DEF Alive
  <2>8. \A w \in Vids, m \in Machines : Alive(vms'[w], m) => Alive(vms[w], m)
    BY <2>5, <2>6, Zenon
  <2>. QED  BY <2>5, <2>7, <2>8, Zenon DEF Withers, LiveVms
<1>. QED  BY <1>1, <1>2, Zenon

\* The tables as a call leaves them.
Tables ==
    /\ vms' \in [Vids -> VmRows \cup {NoVm}] /\ calls' \in [Machines -> {0} \cup Vids]
    /\ rows' \subseteq Cids /\ nextCid' \in Nat \ {0} /\ nextVid' \in Nat \ {0}

\* A call of r is carried out or ends: r is at step p with the answer a.
LEMMA TableOwns ==
    ASSUME Accounted, NEW r \in Reconcilers, NEW p \in Steps, NEW a, a.id \in Nat,
           Moves(r, obj[r], p, loc[r], a), UNCHANGED <<seen, cid>>, Tables, OneRow',
           \A q \in Machines \ {r} : calls'[q] = calls[q],
           \A q \in Reconcilers \ {r} : Mine(q)' \subseteq Mine(q),
           Accounts(r, obj[r], p, loc[r], a, Call(r)', Mine(r)')
    PROVE  Accounted'
<1>1. CapiType /\ obj[r] \in Objects /\ loc[r] \in Objects
  BY Stays, Zenon DEF Accounted
<1>2. CapiType'
  <2>1. /\ obj' \in [Reconcilers -> Objects] /\ loc' \in [Reconcilers -> Objects]
        /\ pc' \in [Reconcilers -> Steps]
    BY <1>1, Zenon DEF CapiType, Moves
  <2>2. ans' = [q \in Reconcilers |-> ans'[q]] /\ \A q \in Reconcilers : ans'[q].id \in Nat
    BY <1>1, Zenon DEF CapiType, Moves
  <2>. QED  BY <1>1, <2>1, <2>2, Zenon DEF CapiType, Tables
<1>3. /\ obj'[r] = obj[r] /\ pc'[r] = p /\ loc'[r] = loc[r] /\ ans'[r] = a
      /\ \A q \in Reconcilers \ {r} : /\ obj'[q] = obj[q] /\ pc'[q] = pc[q]
                                      /\ loc'[q] = loc[q] /\ ans'[q] = ans[q]
  BY <1>1, Zenon DEF CapiType, Moves
<1>4. Own(r)'
  BY <1>3, Zenon DEF Own
<1>5. \A q \in Reconcilers \ {r} : Call(q)' = Call(q)
  BY Zenon DEF Call
<1>6. \A q \in Reconcilers \ {r} : Apart(q)
  BY <1>3, <1>5, Zenon DEF Apart
<1>. QED  BY <1>2, <1>4, <1>6, OneSteps, Zenon

\* DeleteMachine leaves the machine no VM: the one its status names is a
\* tombstone or gone.
LEMMA DeleteMachineOwns ==
    ASSUME Accounted, NEW m \in Machines, Reaches(m), DeleteMachine(m, loc[m].id), loc[m].del
    PROVE  Accounted'
<1>1. /\ CapiType /\ OneRow /\ m \in Reconcilers /\ m # Cluster /\ Own(m) /\ pc[m] = "rpc"
      /\ loc[m] \in Objects
  BY Facts, Stays, Zenon DEF Accounted, Reaches
<1>2. /\ Call(m) = 0 /\ Mine(m) \subseteq {obj[m].id} /\ obj[m].fin
      /\ loc[m].id = obj[m].id
  BY <1>1, InStatus, Zenon DEF Reading
<1>3. PICK a : a = [code |-> "ok", id |-> loc[m].id, st |-> "gone"]
  BY Zenon
<1>4. a.id \in Nat /\ a.code = "ok" /\ a # NoAnswer
  BY <1>1, <1>3, Zenon DEF Objects, NoAnswer
<1>5. Moves(m, obj[m], "wait", loc[m], a) /\ UNCHANGED <<seen, cid>>
  BY <1>1, <1>3, Stays, Zenon DEF Moves, Go, Reaches, DeleteMachine, Answer, kubeVars
<1>6. UNCHANGED <<rows, asked, calls, nextCid, nextVid>>
  BY Zenon DEF DeleteMachine
<1>7. Withers /\ loc[m].id \notin LiveVms(m)'
  <2>1. CASE vms[loc[m].id] = NoVm /\ UNCHANGED vms
    BY <1>1, <2>1, Zenon DEF CapiType, Withers, LiveVms, Alive
  <2>2. CASE vms[loc[m].id] # NoVm /\ vms' = [vms EXCEPT ![loc[m].id].st = "teardown"]
    <3>1. "teardown" \in VmStates
      BY Zenon DEF VmStates
    <3>. QED  BY <1>1, <2>2, <3>1, NewState, Zenon
  <2>. QED  BY <2>1, <2>2, Zenon DEF DeleteMachine
<1>8. \A q \in Reconcilers : Mine(q)' \subseteq Mine(q)
  BY <1>6, <1>7, WitherMine, Zenon
<1>9. Mine(m)' = {}
  BY <1>1, <1>2, <1>7, <1>8, Zenon DEF Mine
<1>10. Tables
  BY <1>1, <1>6, <1>7, Zenon DEF Tables, CapiType, Withers
<1>11. Call(m)' = 0
  BY <1>2, <1>6, Zenon DEF Call
<1>12. Accounts(m, obj[m], "wait", loc[m], a, Call(m)', Mine(m)')
  BY <1>2, <1>4, <1>9, <1>11, Zenon
     DEF Accounts, Created, Observed, Removed, Holding, Early, Reading
<1>13. OneRow' /\ "wait" \in Steps
  BY <1>1, <1>6, Zenon DEF OneRow, Steps
<1>. QED  BY <1>1, <1>4, <1>5, <1>6, <1>8, <1>10, <1>12, <1>13, TableOwns, Zenon

\* GetMachine answers with the VM the status names, if at all.
LEMMA GetMachineOwns ==
    ASSUME Accounted, NEW m \in Machines, Reaches(m), GetMachine(m, loc[m].id),
           ~loc[m].del, ~Creates(m)
    PROVE  Accounted'
<1>1. /\ CapiType /\ OneRow /\ m \in Reconcilers /\ m # Cluster /\ Own(m) /\ pc[m] = "rpc"
      /\ loc[m] \in Objects
  BY Facts, Stays, Zenon DEF Accounted, Reaches
<1>2. /\ Call(m) = 0 /\ Mine(m) \subseteq {obj[m].id} /\ obj[m].fin
      /\ loc[m].id = obj[m].id
  BY <1>1, InStatus, Zenon DEF Reading
<1>3. PICK a : /\ ans' = [ans EXCEPT ![m] = a]
               /\ \/ a = [code |-> "notfound", id |-> 0, st |-> "gone"]
                  \/ a = [code |-> "ok", id |-> loc[m].id, st |-> vms[loc[m].id].st]
  BY Zenon DEF GetMachine, Answer
<1>4. a.id \in Nat /\ (a.code = "ok" => a.id = loc[m].id)
  BY <1>1, <1>3 DEF Objects
<1>5. Moves(m, obj[m], "wait", loc[m], a) /\ UNCHANGED <<seen, cid>>
  BY <1>1, <1>3, Stays, Zenon DEF Moves, Go, Reaches, kubeVars
<1>6. UNCHANGED <<rows, asked, calls, vms, nextCid, nextVid>>
  BY Zenon DEF GetMachine
<1>7. Accounts(m, obj[m], "wait", loc[m], a, Call(m), Mine(m))
  BY <1>1, <1>2, <1>4, Zenon
     DEF Accounts, Created, Observed, Removed, Holding, Early, Reading
<1>8. seen' \in [Reconcilers -> Objects] /\ cid' \in [Reconcilers -> Nat] /\ "wait" \in Steps
  BY <1>1, <1>5, Zenon DEF CapiType, Steps
<1>. QED  BY <1>1, <1>4, <1>5, <1>6, <1>7, <1>8, Stays, MoveOwns, Zenon

\* CreateMachine is called for a machine without a VM; the one it makes is known
\* to the call that waits.
LEMMA BeginCreateOwns ==
    ASSUME Accounted, NEW m \in Machines, Reaches(m), BeginCreate(m, cid[m]),
           ~loc[m].del, Creates(m)
    PROVE  Accounted'
<1>1. /\ CapiType /\ OneRow /\ m \in Reconcilers /\ m # Cluster /\ Own(m) /\ pc[m] = "rpc"
      /\ loc[m].id = 0
  BY Facts, Zenon DEF Accounted, Reaches, Creates
<1>2. /\ Call(m) = 0 /\ Mine(m) \subseteq {obj[m].id} /\ obj[m].fin /\ obj[m].id = 0
      /\ ans[m] = NoAnswer
  BY <1>1, InStatus, Zenon DEF Reading, Early
<1>3. Mine(m) = {}
  BY <1>1, <1>2, NotZero, Zenon
<1>4. UNCHANGED <<rows, asked, nextCid, seen, cid, obj, loc>>
  BY Zenon DEF BeginCreate, Reaches, kubeVars
<1>5. "wait" \in Steps /\ seen' \in [Reconcilers -> Objects] /\ cid' \in [Reconcilers -> Nat]
  BY <1>1, <1>4, Zenon DEF CapiType, Steps
<1>6. CASE \E a : /\ a.id \in Nat /\ ans' = [ans EXCEPT ![m] = a]
                  /\ UNCHANGED <<vms, calls, nextVid>>
  <2>1. PICK a : /\ a.id \in Nat /\ ans' = [ans EXCEPT ![m] = a]
                 /\ UNCHANGED <<vms, calls, nextVid>>
    BY <1>6, Zenon
  <2>2. Moves(m, obj[m], "wait", loc[m], a)
    BY <1>1, <1>4, <2>1, Stays, Zenon DEF Moves, Go, Reaches
  <2>3. Accounts(m, obj[m], "wait", loc[m], a, Call(m), Mine(m))
    BY <1>1, <1>2, <1>3, Zenon
       DEF Accounts, Created, Observed, Removed, Holding, Early, Reading
  <2>. QED  BY <1>1, <1>4, <1>5, <2>1, <2>2, <2>3, Stays, MoveOwns, Zenon
<1>7. CASE /\ cid[m] \in rows /\ nextVid <= MaxVms
           /\ vms' = [vms EXCEPT ![nextVid] = [name |-> m, c |-> cid[m], st |-> "creating"]]
           /\ calls' = [calls EXCEPT ![m] = nextVid]
           /\ nextVid' = nextVid + 1
           /\ UNCHANGED ans
  <2>1. PICK x : x = [name |-> m, c |-> cid[m], st |-> "creating"]
    BY Zenon
  <2>2. cid[m] \in Cids /\ "creating" \in VmStates
    BY <1>1, <1>7, Zenon DEF CapiType, VmStates
  <2>3. x \in VmRows /\ x.name = m
    BY <2>1, <2>2, Zenon DEF VmRows
  <2>4. nextVid \in Vids /\ nextVid' \in Nat \ {0} /\ nextVid # 0
    BY <1>1, <1>7, ApiAssumption DEF CapiType, Vids
  <2>5. /\ vms' \in [Vids -> VmRows \cup {NoVm}] /\ vms'[nextVid] = x
        /\ \A v \in Vids : v # nextVid => vms'[v] = vms[v]
    BY <1>1, <1>7, <2>1, <2>3, <2>4, Zenon DEF CapiType
  <2>6. /\ calls' \in [Machines -> {0} \cup Vids] /\ calls'[m] = nextVid
        /\ \A q \in Machines \ {m} : calls'[q] = calls[q]
    BY <1>1, <1>7, <2>4, Zenon DEF CapiType
  <2>7. Tables /\ OneRow'
    BY <1>1, <1>4, <2>4, <2>5, <2>6, Zenon DEF Tables, CapiType, OneRow
  <2>8. Moves(m, obj[m], "wait", loc[m], ans[m]) /\ ans[m].id \in Nat
    BY <1>1, <1>4, <1>7, Stays, Zenon DEF Moves, Go, Reaches
  <2>9. Mine(m)' \subseteq {nextVid} /\ Call(m)' = nextVid
    BY <1>1, <1>3, <2>5, <2>6, Zenon DEF Mine, LiveVms, Call
  <2>10. ASSUME NEW q \in Reconcilers \ {m} PROVE Mine(q)' \subseteq Mine(q)
    <3>1. ~Alive(x, q)
      BY <2>3, Zenon DEF Alive
    <3>. QED  BY <1>4, <2>5, <3>1, Zenon DEF Mine, LiveVms
  <2>11. Accounts(m, obj[m], "wait", loc[m], ans[m], Call(m)', Mine(m)')
    BY <1>1, <1>2, <2>4, <2>9, Facts, Zenon
       DEF Accounts, Created, Observed, Removed, Holding, Early, Reading
  <2>. QED  BY <1>1, <1>4, <1>5, <2>6, <2>7, <2>8, <2>10, <2>11, TableOwns, Zenon
<1>8. ASSUME NEW v \in Nat, NEW c, NEW s, Answer(m, c, v, s)
      PROVE  \E a : a.id \in Nat /\ ans' = [ans EXCEPT ![m] = a]
  <2>1. PICK a : a = [code |-> c, id |-> v, st |-> s]
    BY Zenon
  <2>2. a.id = v
    BY <2>1, Zenon
  <2>. QED  BY <1>8, <2>1, <2>2, Zenon DEF Answer
<1>9. 0 \in Nat /\ \A v \in Named(m, cid[m]) : v \in Nat
  BY Facts, Zenon DEF Named
<1>. QED  BY <1>6, <1>7, <1>8, <1>9, Zenon DEF BeginCreate

\* A machine's reconciler in any of its steps.
LEMMA MachineOwns ==
    ASSUME Accounted, Clean', NEW m \in Machines, MachineStep(m) PROVE Accounted'
BY MachineGoes, MachineAnsweredOwns, MachinePatches, DeleteMachineOwns, GetMachineOwns,
   BeginCreateOwns, Zenon DEF MachineStep, CallMachine

-----------------------------------------------------------------------------
\* The agent reports the VM of a call running: the answer names it.
LEMMA CreateRunsOwns ==
    ASSUME Accounted, NEW m \in Machines, CreateRuns(m), UNCHANGED provVars
    PROVE  Accounted'
<1>. DEFINE v == calls[m]
<1>1. /\ CapiType /\ OneRow /\ m \in Reconcilers /\ m # Cluster /\ Own(m)
      /\ v # 0 /\ v \in Vids /\ v \in Nat
  BY Facts, Zenon DEF Accounted, CreateRuns, CapiType
<1>2. /\ pc[m] = "wait" /\ obj[m].fin /\ ~loc[m].del /\ loc[m].id = 0
      /\ obj[m].id = 0 /\ Mine(m) \subseteq {v}
  BY <1>1, Zenon DEF Own, Accounts, Call, Reading
<1>3. /\ UNCHANGED <<rows, asked, nextCid, nextVid, seen, cid, obj, loc, pc>>
      /\ calls' = [calls EXCEPT ![m] = 0]
  BY Zenon DEF CreateRuns, provVars
<1>4. /\ calls' \in [Machines -> {0} \cup Vids] /\ calls'[m] = 0
      /\ \A q \in Machines \ {m} : calls'[q] = calls[q]
  BY <1>1, <1>3, Zenon DEF CapiType
<1>5. Withers
  <2>1. CASE UNCHANGED vms
    BY <1>1, <2>1, Zenon DEF CapiType, Withers
  <2>2. CASE /\ vms[v] # NoVm
             /\ vms' = [vms EXCEPT ![v].st = IF @ = "teardown" THEN @ ELSE "running"]
    <3>1. PICK s : s = IF vms[v].st = "teardown" THEN "teardown" ELSE "running"
      BY Zenon
    <3>2. s \in VmStates /\ (s = "teardown" \/ vms[v].st # "teardown")
      BY <3>1, Zenon DEF VmStates
    <3>3. vms' = [vms EXCEPT ![v].st = s]
      BY <2>2, <3>1, Zenon
    <3>. QED  BY <1>1, <2>2, <3>2, <3>3, NewState, Zenon
  <2>. QED  BY <2>1, <2>2, Zenon DEF CreateRuns
<1>6. \A q \in Reconcilers : Mine(q)' \subseteq Mine(q)
  BY <1>3, <1>5, WitherMine, Zenon
<1>7. PICK a : /\ ans' = [ans EXCEPT ![m] = a] /\ a.id \in Nat
               /\ a.code = "ok" => a.id = v
               /\ a.code \in {"ok", "notfound"}
               /\ a.code = "notfound" => vms[v] = NoVm /\ UNCHANGED vms
  <2>1. CASE vms[v] = NoVm
    <3>1. Answer(m, "notfound", 0, "gone") /\ UNCHANGED vms
      BY <2>1, Zenon DEF CreateRuns
    <3>2. PICK a : a = [code |-> "notfound", id |-> 0, st |-> "gone"]
      BY Zenon
    <3>3. a.id \in Nat /\ a.code = "notfound"
      BY <3>2, Zenon
    <3>. QED  BY <2>1, <3>1, <3>2, <3>3, Zenon DEF Answer
  <2>2. CASE vms[v] # NoVm
    <3>1. Answer(m, "ok", v, vms'[v].st)
      BY <2>2, Zenon DEF CreateRuns
    <3>2. PICK a : a = [code |-> "ok", id |-> v, st |-> vms'[v].st]
      BY Zenon
    <3>3. a.id = v /\ a.code = "ok"
      BY <3>2, Zenon
    <3>. QED  BY <1>1, <3>1, <3>2, <3>3, Zenon DEF Answer
  <2>. QED  BY <2>1, <2>2, Zenon
<1>8. a.code = "notfound" => Mine(m)' = {}
  BY <1>1, <1>2, <1>6, <1>7 DEF Mine, LiveVms, Alive
<1>9. Moves(m, obj[m], "wait", loc[m], a)
  BY <1>1, <1>2, <1>3, <1>7, Stays, Zenon DEF Moves
<1>10. Call(m)' = 0
  BY <1>4, Zenon DEF Call
<1>11. Accounts(m, obj[m], "wait", loc[m], a, Call(m)', Mine(m)')
  BY <1>1, <1>2, <1>6, <1>7, <1>8, <1>10, Zenon
     DEF Accounts, Created, Observed, Removed, Holding, Early, Reading
<1>12. Tables /\ OneRow' /\ "wait" \in Steps
  BY <1>1, <1>3, <1>4, <1>5, Zenon DEF Tables, CapiType, OneRow, Withers, Steps
<1>. QED  BY <1>1, <1>3, <1>4, <1>6, <1>7, <1>9, <1>11, <1>12, TableOwns, Zenon

\* The agent failed or refuses for now: the VM is given up before the answer.
LEMMA CreateFailsOwns ==
    ASSUME Accounted, NEW m \in Machines, CreateFails(m), UNCHANGED provVars
    PROVE  Accounted'
<1>. DEFINE v == calls[m]
<1>1. /\ CapiType /\ OneRow /\ m \in Reconcilers /\ m # Cluster /\ Own(m)
      /\ v # 0 /\ v \in Vids
  BY Facts, Zenon DEF Accounted, CreateFails, CapiType
<1>2. /\ pc[m] = "wait" /\ obj[m].fin /\ ~loc[m].del /\ loc[m].id = 0
      /\ obj[m].id = 0 /\ Mine(m) \subseteq {v}
  BY <1>1, Zenon DEF Own, Accounts, Call, Reading
<1>3. /\ UNCHANGED <<rows, asked, nextCid, nextVid, seen, cid, obj, loc, pc>>
      /\ calls' = [calls EXCEPT ![m] = 0]
  BY Zenon DEF CreateFails, provVars
<1>4. /\ calls' \in [Machines -> {0} \cup Vids] /\ calls'[m] = 0
      /\ \A q \in Machines \ {m} : calls'[q] = calls[q]
  BY <1>1, <1>3, Zenon DEF CapiType
<1>5. Withers /\ v \notin LiveVms(m)'
  <2>1. CASE vms[v] = NoVm /\ UNCHANGED vms
    BY <1>1, <2>1, Zenon DEF CapiType, Withers, LiveVms, Alive
  <2>2. CASE vms[v] # NoVm /\ vms' = [vms EXCEPT ![v].st = "teardown"]
    <3>1. "teardown" \in VmStates
      BY Zenon DEF VmStates
    <3>. QED  BY <1>1, <2>2, <3>1, NewState, Zenon
  <2>. QED  BY <2>1, <2>2, Zenon DEF CreateFails, GiveUp
<1>6. \A q \in Reconcilers : Mine(q)' \subseteq Mine(q)
  BY <1>3, <1>5, WitherMine, Zenon
<1>7. PICK c \in {"error", "unavailable"} : Answer(m, c, 0, "gone")
  BY Zenon DEF CreateFails
<1>8. PICK a : a = [code |-> c, id |-> 0, st |-> "gone"]
  BY Zenon
<1>9. a.id \in Nat /\ a.code \in {"error", "unavailable"}
  BY <1>7, <1>8, Zenon
<1>10. Moves(m, obj[m], "wait", loc[m], a)
  BY <1>1, <1>2, <1>3, <1>7, <1>8, Stays, Zenon DEF Moves, Answer
<1>11. Call(m)' = 0 /\ Mine(m)' = {}
  BY <1>1, <1>2, <1>4, <1>5, <1>6, Zenon DEF Call, Mine
<1>12. Accounts(m, obj[m], "wait", loc[m], a, Call(m)', Mine(m)')
  BY <1>1, <1>2, <1>9, <1>11, Zenon
     DEF Accounts, Created, Observed, Removed, Holding, Early, Reading
<1>13. Tables /\ OneRow' /\ "wait" \in Steps
  BY <1>1, <1>3, <1>4, <1>5, Zenon DEF Tables, CapiType, OneRow, Withers, Steps
<1>. QED  BY <1>1, <1>3, <1>4, <1>6, <1>9, <1>10, <1>12, <1>13, TableOwns, Zenon

\* What happens without a client only takes VMs and rows away.
LEMMA WorldOwns ==
    ASSUME Accounted, UNCHANGED <<obj, seen, loc, pc, ans, cid, calls, nextCid, nextVid, asked>>,
           Withers, rows' \subseteq rows
    PROVE  Accounted'
<1>1. CapiType' /\ OneRow'
  BY Zenon DEF Accounted, CapiType, OneRow, Withers
<1>2. ASSUME NEW r \in Reconcilers PROVE Own(r)'
  <2>1. Mine(r)' \subseteq Mine(r)
    BY WitherMine, Zenon
  <2>2. Apart(r)
    BY <2>1, Zenon DEF Apart, Call
  <2>. QED  BY <2>2, ApartOwns, Zenon DEF Accounted
<1>. QED  BY <1>1, <1>2, Zenon DEF Accounted

\* Reports, dying guests and acknowledgements.
LEMMA ByItselfOwns ==
    ASSUME Accounted, Clean', ByItself \/ Acks, UNCHANGED provVars PROVE Accounted'
<1>1. CapiType
  BY Zenon DEF Accounted
<1>2. ASSUME NEW v \in Vids, VmReportedRunning(v) \/ VmDies(v) PROVE Accounted'
  <2>1. PICK s \in {"running", "failed"} :
           /\ vms[v].st \in {"creating", "failed", "running"}
           /\ vms' = [vms EXCEPT ![v].st = s]
    BY <1>2, Zenon DEF VmReportedRunning, VmDies
  <2>2. vms[v] # NoVm /\ vms[v].st # "teardown" /\ s \in VmStates
    BY <2>1 DEF NoVm, VmStates
  <2>3. Withers
    BY <1>1, <2>1, <2>2, NewState, Zenon
  <2>4. /\ UNCHANGED <<obj, seen, loc, pc, ans, cid, calls, nextCid, nextVid, asked>>
        /\ rows' \subseteq rows
    BY <1>2, Zenon DEF VmReportedRunning, VmDies, provVars
  <2>. QED  BY <2>3, <2>4, WorldOwns, Zenon
<1>3. ASSUME NEW v \in Vids, VmAcked(v) PROVE Accounted'
  <2>1. /\ UNCHANGED <<obj, seen, loc, pc, ans, cid, calls, nextCid, nextVid, asked>>
        /\ rows' \subseteq rows /\ vms' = [vms EXCEPT ![v] = NoVm]
    BY <1>3, Zenon DEF VmAcked, provVars
  <2>2. Withers
    BY <1>1, <2>1, Zenon DEF CapiType, Withers, Alive
  <2>. QED  BY <2>1, <2>2, WorldOwns, Zenon
<1>4. ASSUME NEW c \in Cids, ClusterAcked(c) PROVE Accounted'
  <2>1. /\ UNCHANGED <<obj, seen, loc, pc, ans, cid, calls, nextCid, nextVid, asked, vms>>
        /\ rows' \subseteq rows
    BY <1>4, Zenon DEF ClusterAcked, provVars
  <2>2. Withers
    BY <1>1, <2>1, Zenon DEF CapiType, Withers
  <2>. QED  BY <2>1, <2>2, WorldOwns, Zenon
<1>5. CASE OtherCluster
  <2>1. /\ UNCHANGED <<obj, seen, loc, pc, ans, cid, calls, nextCid, nextVid, asked, vms>>
        /\ rows' \subseteq rows
    BY <1>5, Zenon DEF OtherCluster, provVars
  <2>2. Withers
    BY <1>1, <2>1, Zenon DEF CapiType, Withers
  <2>. QED  BY <2>1, <2>2, WorldOwns, Zenon
<1>6. ASSUME NEW S, HostGivenUp(S) PROVE FALSE
  BY <1>6, Zenon DEF HostGivenUp, Fault, Clean
<1>. QED  BY <1>2, <1>3, <1>4, <1>5, <1>6, Zenon DEF ByItself, Acks

-----------------------------------------------------------------------------
\* DeleteCluster was called for the row the status names, the only one.
LEMMA DeleteClusterOwns ==
    ASSUME Accounted, Reaches(Cluster), loc[Cluster].del,
           DeleteCluster(Cluster, loc[Cluster].id)
    PROVE  Accounted'
<1>. DEFINE c == loc[Cluster].id
<1>1. /\ CapiType /\ OneRow /\ Cluster \in Reconcilers /\ Own(Cluster) /\ pc[Cluster] = "rpc"
      /\ loc[Cluster] \in Objects
  BY Facts, Stays, Zenon DEF Accounted, Reaches
<1>2. /\ Call(Cluster) = 0 /\ Mine(Cluster) \subseteq {c} /\ obj[Cluster].fin
      /\ c = obj[Cluster].id /\ c \in Nat
  BY <1>1, InStatus, Zenon DEF Reading, Objects
<1>3. PICK a : a = [code |-> "ok", id |-> c, st |-> "gone"]
  BY Zenon
<1>4. a.id \in Nat /\ a.code = "ok" /\ a # NoAnswer
  BY <1>2, <1>3, Zenon DEF NoAnswer
<1>5. Moves(Cluster, obj[Cluster], "wait", loc[Cluster], a) /\ UNCHANGED <<seen, cid>>
  BY <1>1, <1>3, Stays, Zenon DEF Moves, Go, Reaches, DeleteCluster, Answer, kubeVars
<1>6. UNCHANGED <<rows, calls, nextCid, nextVid>>
  BY Zenon DEF DeleteCluster
<1>7. Withers
  <2>1. CASE UNCHANGED vms
    BY <1>1, <2>1, Zenon DEF CapiType, Withers
  <2>2. CASE /\ c \in rows
             /\ vms' = [v \in Vids |-> IF vms[v].c = c THEN [vms[v] EXCEPT !.st = "teardown"]
                                                       ELSE vms[v]]
    <3>1. ASSUME NEW v \in Vids
          PROVE  /\ vms'[v] \in VmRows \cup {NoVm}
                 /\ \A m : Alive(vms'[v], m) => Alive(vms[v], m)
      <4>1. CASE vms[v].c # c
        BY <1>1, <2>2, <4>1, Zenon DEF CapiType
      <4>2. CASE vms[v].c = c
        <5>1. vms[v] # NoVm
          BY <1>1, <2>2, <4>2, Facts DEF CapiType, NoVm
        <5>2. vms[v] \in VmRows /\ "teardown" \in VmStates
          BY <1>1, <5>1, Zenon DEF CapiType, VmStates
        <5>3. PICK x : x = [vms[v] EXCEPT !.st = "teardown"]
          BY Zenon
        <5>4. x \in VmRows /\ x.st = "teardown"
          BY <5>2, <5>3, Zenon DEF VmRows
        <5>5. vms'[v] = x
          BY <2>2, <4>2, <5>3, Zenon
        <5>. QED  BY <5>4, <5>5, Zenon DEF Alive
      <4>. QED  BY <4>1, <4>2, Zenon
    <3>. QED  BY <2>2, <3>1, Zenon DEF Withers
  <2>. QED  BY <2>1, <2>2, Zenon DEF DeleteCluster
<1>8. rows' \ asked' \subseteq rows \ asked /\ rows' \ asked' = {}
  BY <1>2, <1>6, Zenon DEF DeleteCluster, Mine
<1>9. \A q \in Reconcilers : Mine(q)' \subseteq Mine(q)
  BY <1>7, <1>8, WitherMine, Zenon
<1>10. Mine(Cluster)' = {} /\ Call(Cluster)' = 0
  BY <1>2, <1>6, <1>8, Zenon DEF Mine, Call
<1>11. Accounts(Cluster, obj[Cluster], "wait", loc[Cluster], a, Call(Cluster)', Mine(Cluster)')
  BY <1>2, <1>4, <1>10, Zenon
     DEF Accounts, Created, Observed, Removed, Holding, Early, Reading
<1>12. Tables /\ OneRow' /\ "wait" \in Steps
  BY <1>1, <1>6, <1>7, Zenon DEF Tables, CapiType, OneRow, Withers, Steps
<1>. QED  BY <1>1, <1>4, <1>5, <1>6, <1>9, <1>11, <1>12, TableOwns, Zenon

\* CreateCluster answers with the row of the name, which it may have made.
LEMMA CreateClusterOwns ==
    ASSUME Accounted, Reaches(Cluster), ~loc[Cluster].del, CreateCluster(Cluster)
    PROVE  Accounted'
<1>1. /\ CapiType /\ OneRow /\ Cluster \in Reconcilers /\ Own(Cluster) /\ pc[Cluster] = "rpc"
  BY Facts, Zenon DEF Accounted, Reaches
<1>2. /\ Call(Cluster) = 0 /\ obj[Cluster].fin /\ loc[Cluster].id = obj[Cluster].id
  BY <1>1, InStatus, Zenon DEF Reading
<1>3. /\ UNCHANGED <<asked, vms, calls, nextVid, seen, cid, obj, loc>>
  BY Zenon DEF CreateCluster, Reaches, kubeVars
<1>4. PICK k \in {"ok", "error"}, c \in Nat :
         /\ Answer(Cluster, k, c, "gone")
         /\ k = "ok" => rows' \subseteq {c}
         /\ k = "error" => rows' = {}
         /\ rows' \subseteq Cids /\ nextCid' \in Nat \ {0} /\ OneRow'
  <2>1. CASE \E c \in rows : Answer(Cluster, "ok", c, "gone") /\ UNCHANGED <<rows, nextCid>>
    <3>1. PICK c \in rows : Answer(Cluster, "ok", c, "gone") /\ UNCHANGED <<rows, nextCid>>
      BY <2>1, Zenon
    <3>2. rows' \subseteq {c} /\ c \in Nat
      BY <1>1, <3>1, Facts, Zenon DEF OneRow, CapiType
    <3>. QED  BY <1>1, <3>1, <3>2, Zenon DEF CapiType, OneRow
  <2>2. CASE /\ nextCid <= MaxClusters /\ rows' = {nextCid} /\ nextCid' = nextCid + 1
             /\ Answer(Cluster, "ok", nextCid, "gone")
    <3>1. nextCid \in Cids /\ nextCid \in Nat /\ nextCid' \in Nat \ {0}
      BY <1>1, <2>2, ApiAssumption DEF CapiType, Cids
    <3>. QED  BY <2>2, <3>1, Zenon DEF OneRow
  <2>3. CASE rows = {} /\ Answer(Cluster, "error", 0, "gone") /\ UNCHANGED <<rows, nextCid>>
    BY <1>1, <2>3, Zenon DEF CapiType, OneRow
  <2>. QED  BY <2>1, <2>2, <2>3, Zenon DEF CreateCluster
<1>5. PICK a : a = [code |-> k, id |-> c, st |-> "gone"]
  BY Zenon
<1>6. a.id = c /\ a.code = k
  BY <1>5, Zenon
<1>7. Moves(Cluster, obj[Cluster], "wait", loc[Cluster], a)
  BY <1>1, <1>3, <1>4, <1>5, Stays, Zenon DEF Moves, Go, Reaches, Answer
<1>8. Call(Cluster)' = 0
  BY <1>2, <1>3, Zenon DEF Call
<1>9. \A q \in Reconcilers \ {Cluster} : Mine(q)' \subseteq Mine(q)
  BY <1>3, Zenon DEF Mine, LiveVms
<1>10. (k = "ok" => Mine(Cluster)' \subseteq {c}) /\ (k = "error" => Mine(Cluster)' = {})
  BY <1>4, Zenon DEF Mine
<1>11. Accounts(Cluster, obj[Cluster], "wait", loc[Cluster], a, Call(Cluster)', Mine(Cluster)')
  BY <1>2, <1>4, <1>6, <1>8, <1>10, Zenon
     DEF Accounts, Created, Observed, Removed, Holding, Early, Reading
<1>12. Tables /\ "wait" \in Steps
  BY <1>1, <1>3, <1>4, Zenon DEF Tables, CapiType, Steps
<1>. QED  BY <1>1, <1>3, <1>4, <1>6, <1>7, <1>9, <1>11, <1>12, TableOwns, Zenon

\* The answer of a cluster call is taken up.
LEMMA ClusterAnsweredOwns == ASSUME Accounted, ClusterAnswered PROVE Accounted'
<1>1. /\ CapiType /\ Cluster \in Reconcilers /\ Own(Cluster) /\ pc[Cluster] = "wait"
      /\ ans[Cluster].code \in {"ok", "notfound"}
  BY Facts, Zenon DEF Accounted, ClusterAnswered
<1>2. /\ UNCHANGED <<rows, asked, vms, calls, nextCid, nextVid, seen, obj, loc, ans, cid>>
  BY Zenon DEF ClusterAnswered, apiVars, kubeVars
<1>3. PICK p \in {"lift", "spec"} : Go(Cluster, p) /\ (p = "lift" <=> loc[Cluster].del)
  <2>1. Go(Cluster, IF loc[Cluster].del THEN "lift" ELSE "spec")
    BY Zenon DEF ClusterAnswered
  <2>2. CASE loc[Cluster].del
    BY <2>1, <2>2, Zenon
  <2>3. CASE ~loc[Cluster].del
    BY <2>1, <2>3, Zenon
  <2>. QED  BY <2>2, <2>3, Zenon
<1>4. Call(Cluster) = 0 /\ obj[Cluster].fin
  BY <1>1, Facts, Zenon DEF Own, Accounts
<1>5. p = "lift" => Mine(Cluster) = {}
  BY <1>1, <1>3, Zenon DEF Own, Accounts, Removed
<1>6. p = "spec" => Mine(Cluster) \subseteq {ans[Cluster].id}
  BY <1>1, <1>3, Zenon DEF Own, Accounts, Created
<1>7. Accounts(Cluster, obj[Cluster], p, loc[Cluster], ans[Cluster], Call(Cluster), Mine(Cluster))
  BY <1>3, <1>4, <1>5, <1>6, Zenon
     DEF Accounts, Created, Observed, Removed, Holding, Early, Reading
<1>8. p \in Steps /\ cid' \in [Reconcilers -> Nat]
  BY <1>1, <1>2, Zenon DEF Steps, CapiType
<1>. QED  BY <1>1, <1>2, <1>3, <1>7, <1>8, GoOwns, Zenon

\* The endpoint, then the id are written to the object.
LEMMA ClusterPatches ==
    ASSUME Accounted, Clean', WriteEndpoint \/ WriteStatus PROVE Accounted'
<1>1. /\ CapiType /\ Cluster \in Reconcilers /\ cid \in [Reconcilers -> Nat]
      /\ Own(Cluster) /\ obj[Cluster] \in Objects /\ ans[Cluster].id \in Nat
      /\ loc[Cluster] \in Objects /\ seen \in [Reconcilers -> Objects]
  BY Facts, Stays, Zenon DEF Accounted, CapiType
<1>2. pc[Cluster] \in {"status", "spec"}
  BY Zenon DEF WriteEndpoint, WriteStatus
<1>3. /\ obj[Cluster].fin /\ Call(Cluster) = 0 /\ ~Gone(Cluster)
      /\ Mine(Cluster) \subseteq {ans[Cluster].id}
  BY <1>1, <1>2, Facts, Zenon DEF Own, Accounts, Created, Holding, Gone
<1>4. ~PatchRefused(Cluster) /\ ~PatchLost(Cluster)
  BY <1>3, Zenon DEF PatchRefused, PatchLost, Fault, Clean
<1>5. PICK o \in Objects, p \in {"status", "crds"} :
         /\ o.fin /\ (p = "crds" => o.id = ans[Cluster].id)
         /\ obj' = [obj EXCEPT ![Cluster] = o] /\ Go(Cluster, p)
  <2>1. CASE WriteEndpoint
    <3>0. PICK n \in Vips : /\ Patched(Cluster, [obj[Cluster] EXCEPT !.spec = n])
                            /\ Go(Cluster, "status")
      BY <1>4, <2>1, Zenon DEF WriteEndpoint
    <3>1. PICK o : o = [obj[Cluster] EXCEPT !.spec = n]
      BY Zenon
    <3>2. o \in Objects /\ o.fin = obj[Cluster].fin
      BY <1>1, <3>1, Facts, Zenon DEF Objects
    <3>3. obj' = [obj EXCEPT ![Cluster] = o] /\ Go(Cluster, "status")
      BY <3>0, <3>1, Zenon DEF Patched
    <3>. QED  BY <1>3, <3>2, <3>3, Zenon
  <2>2. CASE WriteStatus
    <3>1. PICK o : o = [obj[Cluster] EXCEPT !.id = ans[Cluster].id, !.ready = TRUE, !.msg = FALSE]
      BY Zenon
    <3>2. o \in Objects /\ o.fin = obj[Cluster].fin /\ o.id = ans[Cluster].id
      BY <1>1, <3>1, Zenon DEF Objects
    <3>3. obj' = [obj EXCEPT ![Cluster] = o] /\ Go(Cluster, "crds")
      BY <1>4, <2>2, <3>1, Zenon DEF WriteStatus, Patched
    <3>. QED  BY <1>3, <3>2, <3>3, Zenon
  <2>. QED  BY <2>1, <2>2, Zenon
<1>6. UNCHANGED <<rows, asked, vms, calls, nextCid, nextVid, seen, cid, loc, ans>>
  BY Zenon DEF WriteEndpoint, WriteStatus
<1>7. Moves(Cluster, o, p, loc[Cluster], ans[Cluster])
  BY <1>1, <1>5, <1>6, Stays, Zenon DEF Moves, Go
<1>8. Accounts(Cluster, o, p, loc[Cluster], ans[Cluster], Call(Cluster), Mine(Cluster))
  BY <1>3, <1>5, Zenon DEF Accounts, Created, Observed, Removed, Holding, Early, Reading
<1>9. p \in Steps /\ seen' \in [Reconcilers -> Objects] /\ cid' \in [Reconcilers -> Nat]
  BY <1>1, <1>6, Zenon DEF Steps
<1>. QED  BY <1>1, <1>5, <1>6, <1>7, <1>8, <1>9, MoveOwns, Zenon

\* The cluster's reconciler in any of its steps.
LEMMA ClusterOwns == ASSUME Accounted, Clean', ClusterStep PROVE Accounted'
<1>1. CapiType /\ Cluster \in Reconcilers
  BY Facts, Zenon DEF Accounted
<1>2. CASE ApplyCrds
  <2>1. ASSUME Fault("kube") PROVE FALSE
    BY <2>1, Zenon DEF Fault, Clean
  <2>2. /\ pc[Cluster] = "crds" /\ Done(Cluster, TRUE)
        /\ UNCHANGED <<obj, rows, asked, vms, calls, nextCid, nextVid, seen>>
    BY <1>2, <2>1, Zenon DEF ApplyCrds
  <2>3. obj[Cluster] \in Objects /\ obj' = [obj EXCEPT ![Cluster] = obj[Cluster]]
    BY <1>1, <2>2, Stays, Zenon
  <2>. QED  BY <1>1, <2>2, <2>3, EndOwns, Zenon
<1>3. CASE ClusterFailed
  <2>1. /\ pc[Cluster] = "failed" /\ Done(Cluster, TRUE) /\ RecordFailure(Cluster)
        /\ UNCHANGED <<rows, asked, vms, calls, nextCid, nextVid, seen>>
    BY <1>3, Zenon DEF ClusterFailed
  <2>. QED  BY <1>1, <2>1, FailurePatch, EndOwns, Zenon
<1>. QED  BY <1>2, <1>3, ClusterPatches, ClusterAnsweredOwns, CreateClusterOwns,
             DeleteClusterOwns, Zenon DEF ClusterStep, CallCluster

-----------------------------------------------------------------------------
\* Users change no status and no finalizer, and the watch changes no object.
LEMMA UserOwns ==
    ASSUME Accounted, NEW r \in Reconcilers, UserDeletes(r) \/ UserRecreates(r) \/ Deliver(r)
    PROVE  Accounted'
<1>1. /\ CapiType /\ Own(r) /\ obj[r] \in Objects /\ loc[r] \in Objects /\ pc[r] \in Steps
      /\ ans[r].id \in Nat
  BY Stays, Zenon DEF Accounted
<1>2. /\ UNCHANGED <<rows, asked, vms, calls, nextCid, nextVid, cid, loc, pc, ans>>
  BY Zenon DEF UserDeletes, UserRecreates, Deliver, apiVars, runVars
<1>3. ~obj[r].fin => obj[r].id = 0
  BY <1>1, Zenon DEF Own, Accounts
<1>4. PICK o \in Objects : /\ obj' = [obj EXCEPT ![r] = o]
                           /\ o.fin = obj[r].fin /\ o.id = obj[r].id
  <2>1. CASE Deliver(r)
    BY <1>1, <2>1, Stays, Zenon DEF Deliver
  <2>2. CASE UserRecreates(r)
    <3>1. obj[r] = NoObj /\ obj' = [obj EXCEPT ![r] = NewObj]
      BY <2>2, Zenon DEF UserRecreates, Gone
    <3>2. NewObj \in Objects /\ NewObj.fin = obj[r].fin /\ NewObj.id = obj[r].id
      BY <3>1, Facts, Zenon DEF NoObj, NewObj
    <3>. QED  BY <3>1, <3>2, Zenon
  <2>3. CASE UserDeletes(r) /\ obj[r].fin
    <3>1. PICK o : o = [obj[r] EXCEPT !.del = TRUE]
      BY Zenon
    <3>2. o \in Objects /\ o.fin = obj[r].fin /\ o.id = obj[r].id
      BY <1>1, <3>1, Zenon DEF Objects
    <3>3. obj' = [obj EXCEPT ![r] = o]
      BY <2>3, <3>1, Zenon DEF UserDeletes
    <3>. QED  BY <3>2, <3>3, Zenon
  <2>4. CASE UserDeletes(r) /\ ~obj[r].fin
    <3>1. obj' = [obj EXCEPT ![r] = NoObj]
      BY <2>4, Zenon DEF UserDeletes
    <3>2. NoObj \in Objects /\ NoObj.fin = obj[r].fin /\ NoObj.id = obj[r].id
      BY <1>1, <1>3, <2>4, Facts, Zenon DEF Objects, NoObj
    <3>. QED  BY <3>1, <3>2, Zenon
  <2>. QED  BY <2>1, <2>2, <2>3, <2>4, Zenon
<1>5. Moves(r, o, pc[r], loc[r], ans[r])
  BY <1>1, <1>2, <1>4, Stays, Zenon DEF Moves
<1>6. Accounts(r, o, pc[r], loc[r], ans[r], Call(r), Mine(r))
  BY <1>1, <1>4, Zenon DEF Own, Accounts
<1>7. seen' = seen \/ seen' = [seen EXCEPT ![r] = obj[r]]
  BY Zenon DEF UserDeletes, UserRecreates, Deliver
<1>8. seen' \in [Reconcilers -> Objects] /\ cid' \in [Reconcilers -> Nat]
  BY <1>1, <1>2, <1>7, Zenon DEF CapiType
<1>. QED  BY <1>1, <1>2, <1>4, <1>5, <1>6, <1>8, MoveOwns, Zenon

\* Steps that concern none of this: start-up, the credentials, the kubeconfig.
LEMMA IdleOwns ==
    ASSUME Accounted, UNCHANGED <<obj, seen, loc, pc, ans, cid, calls, nextCid, nextVid,
                                  asked, vms, rows>>
    PROVE  Accounted'
<1>1. Withers
  BY Zenon DEF Accounted, CapiType, Withers
<1>. QED  BY <1>1, WorldOwns, Zenon

\* Before anything happened every reconciler answers for nothing.
LEMMA InitOwns == Init => Accounted
<1>. SUFFICES ASSUME Init PROVE Accounted
  OBVIOUS
<1>1. /\ obj = [r \in Reconcilers |-> NewObj] /\ seen = [r \in Reconcilers |-> NoObj]
      /\ loc = seen /\ pc = [r \in Reconcilers |-> "idle"] /\ cid = [r \in Reconcilers |-> 0]
      /\ rows = {} /\ vms = [v \in Vids |-> NoVm] /\ calls = [m \in Machines |-> 0]
      /\ ans = [r \in Reconcilers |-> NoAnswer] /\ nextCid = 1 /\ nextVid = 1
  BY Zenon DEF Init, ApiInit, ProvInit
<1>2. CapiType
  <2>1. ans = [r \in Reconcilers |-> ans[r]] /\ \A r \in Reconcilers : ans[r].id \in Nat
    BY <1>1, Facts, Zenon
  <2>2. "idle" \in Steps
    BY Zenon DEF Steps
  <2>3. /\ cid \in [Reconcilers -> Nat] /\ nextCid \in Nat \ {0} /\ nextVid \in Nat \ {0}
    BY <1>1
  <2>. QED  BY <1>1, <2>1, <2>2, <2>3, Facts, Zenon DEF CapiType
<1>3. ASSUME NEW r \in Reconcilers PROVE Own(r)
  <2>1. Mine(r) = {} /\ Call(r) = 0
    BY <1>1, Zenon DEF Mine, LiveVms, Alive, Call
  <2>2. Accounts(r, NewObj, "idle", NoObj, NoAnswer, 0, {})
    BY Facts, Zenon DEF Accounts, Created, Observed, Removed, Holding, Early, Reading
  <2>. QED  BY <1>1, <2>1, <2>2, Zenon DEF Own
<1>4. OneRow
  BY <1>1, Zenon DEF OneRow
<1>. QED  BY <1>2, <1>3, <1>4, Zenon DEF Accounted

\* What happened is remembered.
LEMMA Remembers == Next => happened \subseteq happened'
<1>. DEFINE Told == happened' = happened \/ \E k : Fault(k)
<1>1. ASSUME NEW r, SharedStep(r) \/ Deliver(r) \/ AnswerLost(r) PROVE Told
  <2>1. CASE Reconcile(r) \/ AddFinalizer(r) \/ LiftFinalizer(r) \/ CacheError(r) \/ AnswerLost(r)
    BY <2>1, Zenon DEF Reconcile, AddFinalizer, LiftFinalizer, CacheError, AnswerLost
  <2>2. CASE CacheGet(r) \/ CacheInsert(r) \/ Retry(r) \/ CallFailed(r) \/ Deliver(r)
    BY <2>2, Zenon DEF CacheGet, CacheInsert, Retry, CallFailed, Deliver, apiVars
  <2>3. CASE Refused(r) \/ Unreached(r)
    BY <2>3, Zenon DEF Refused, Unreached, Outage
  <2>. QED  BY <1>1, <2>1, <2>2, <2>3, Zenon DEF SharedStep
<1>2. ASSUME NEW r, RecordFailure(r) \/ PatchRefused(r) \/ PatchLost(r) PROVE Told
  BY <1>2, Zenon DEF RecordFailure, PatchRefused, PatchLost
<1>3. ASSUME NEW m, MachineStep(m) PROVE Told
  <2>1. CASE ResolveCluster(m) \/ Bootstrap(m) \/ MachineAnswered(m)
    BY <2>1, Zenon DEF ResolveCluster, Bootstrap, MachineAnswered, apiVars
  <2>2. CASE CallMachine(m)
    BY <2>2, Zenon DEF CallMachine, DeleteMachine, GetMachine, BeginCreate
  <2>3. CASE CommitStatus(m) \/ CommitSpec(m) \/ RecordTerminal(m) \/ MachineFailed(m)
    BY <1>2, <2>3, Zenon DEF CommitStatus, CommitSpec, RecordTerminal, MachineFailed, Unresolved
  <2>. QED  BY <1>3, <2>1, <2>2, <2>3, Zenon DEF MachineStep
<1>4. ASSUME ClusterStep PROVE Told
  <2>1. CASE CallCluster \/ ClusterAnswered
    BY <2>1, Zenon DEF CallCluster, DeleteCluster, CreateCluster, ClusterAnswered, apiVars
  <2>2. CASE WriteEndpoint \/ WriteStatus \/ ClusterFailed
    BY <1>2, <2>2, Zenon DEF WriteEndpoint, WriteStatus, ClusterFailed
  <2>3. CASE ApplyCrds
    BY <2>3, Zenon DEF ApplyCrds
  <2>. QED  BY <1>4, <2>1, <2>2, <2>3, Zenon DEF ClusterStep
<1>5. ASSUME NEW m, EndCall(m) PROVE Told
  BY <1>5, Zenon DEF EndCall, CreateRuns, CreateFails, CreateTimesOut, CreateCut
<1>6. ASSUME ByItself \/ Acks PROVE Told
  BY <1>6, Zenon DEF ByItself, Acks, VmReportedRunning, VmDies, HostGivenUp, OtherCluster,
                     VmAcked, ClusterAcked
<1>7. ASSUME Others \/ KubeconfigWritten \/ Finished PROVE Told
  BY <1>7, Zenon DEF Others, StartUp, WaitForCrds, ReadTrustDomain, User, UserDeletes,
     UserRecreates, Rotate, UpdateSecret, Restart, KubeconfigWritten, Finished, vars, apiVars
<1>8. Next => Told
  BY <1>1, <1>3, <1>4, <1>5, <1>6, <1>7, Zenon DEF Next
<1>. QED  BY <1>8, Zenon DEF Fault

\* Every step keeps the account, until one of the exceptions happens.
LEMMA NextOwns == Safe /\ [Next]_vars => Safe'
<1>. SUFFICES ASSUME Safe, [Next]_vars, Clean' PROVE Accounted'
  BY Zenon DEF Safe
<1>1. happened \subseteq happened'
  BY Remembers, Zenon DEF vars, apiVars
<1>2. Accounted
  BY <1>1, Zenon DEF Clean, Safe
<1>3. ASSUME NEW k \in {"lost", "kube", "restart", "stale"}, Fault(k) PROVE FALSE
  BY <1>3, Zenon DEF Fault, Clean
<1>4. ASSUME NEW r \in Reconcilers, AnswerLost(r) PROVE FALSE
  BY <1>3, <1>4, Zenon DEF AnswerLost
<1>5. ASSUME NEW m \in Machines, EndCall(m), UNCHANGED provVars PROVE Accounted'
  BY <1>2, <1>3, <1>5, CreateRunsOwns, CreateFailsOwns, Zenon
     DEF EndCall, CreateTimesOut, CreateCut
<1>6. ASSUME Others PROVE Accounted'
  <2>1. CASE StartUp \/ Rotate \/ UpdateSecret
    BY <1>2, <2>1, IdleOwns, Zenon DEF StartUp, WaitForCrds, ReadTrustDomain, Rotate,
       UpdateSecret, apiVars, kubeVars, runVars
  <2>2. CASE User
    BY <1>2, <2>2, UserOwns, Zenon DEF User
  <2>3. ~Restart
    BY <1>3, Zenon DEF Restart
  <2>. QED  BY <1>6, <2>1, <2>2, <2>3, Zenon DEF Others
<1>7. CASE UNCHANGED vars \/ KubeconfigWritten \/ Finished
  BY <1>2, <1>7, IdleOwns, Zenon DEF KubeconfigWritten, Finished, vars, apiVars, provVars
<1>. QED  BY <1>2, <1>4, <1>5, <1>6, <1>7, SharedOwns, UserOwns, MachineOwns, ClusterOwns,
             ByItselfOwns, Zenon DEF Next

-----------------------------------------------------------------------------
(* A cluster that a host carries has a live VM there. *)

\* Every row has an id below the next one.
Numbered == \A v \in Vids : vms[v] # NoVm => v < nextVid

Hostings == [Cids -> {"none", "active", "pending"}]
Pinned == /\ hosted \in Hostings /\ Numbered
          /\ \A c \in Cids : hosted[c] = "active" => LiveIn(vms, c) # {}

\* Row v is as live as it was, in the cluster it was in.
Stands(v) == vms[v].st # "teardown" => vms'[v].c = vms[v].c /\ vms'[v].st # "teardown"

\* No row is new.
NoNew == nextVid' = nextVid /\ \A v \in Vids : vms'[v] # NoVm => vms[v] # NoVm

\* The live VMs of a cluster that stays on its hosts stay.
LEMMA StandsPin ==
    ASSUME Pinned, NoNew, hosted' \in Hostings,
           \A c \in Cids : hosted'[c] = "active" => hosted[c] = "active",
           \A c \in Cids, v \in Vids : hosted'[c] = "active" /\ vms[v].c = c => Stands(v)
    PROVE  Pinned'
<1>1. ASSUME NEW c \in Cids, hosted'[c] = "active" PROVE LiveIn(vms', c) # {}
  <2>1. PICK v \in Vids : vms[v].c = c /\ vms[v].st # "teardown"
    BY <1>1, Zenon DEF Pinned, LiveIn
  <2>2. vms'[v].c = c /\ vms'[v].st # "teardown"
    BY <1>1, <2>1, Zenon DEF Stands
  <2>. QED  BY <2>2, Zenon DEF LiveIn
<1>2. Numbered'
  BY Zenon DEF Pinned, Numbered, NoNew
<1>. QED  BY <1>1, <1>2, Zenon DEF Pinned

\* Nothing changes on the hosts, and no live VM goes.
LEMMA SteadyPins ==
    ASSUME Pinned, NoNew, UNCHANGED hosted, \A v \in Vids : Stands(v) PROVE Pinned'
<1>1. hosted' \in Hostings
  BY Zenon DEF Pinned
<1>. QED  BY <1>1, StandsPin, Zenon

\* A step that is about neither VMs nor hosts.
LEMMA IdlePins == ASSUME Pinned, UNCHANGED <<hosted, vms, nextVid>> PROVE Pinned'
BY SteadyPins, Zenon DEF Stands, NoNew

\* A row that is written anew stands unless it is torn down; the others stand.
LEMMA RewrittenStands ==
    ASSUME CapiType, NEW v, vms[v] # NoVm, NEW s \in VmStates, vms' = [vms EXCEPT ![v].st = s]
    PROVE  /\ \A w \in Vids : w # v \/ s # "teardown" => Stands(w)
           /\ nextVid' = nextVid => NoNew
<1>1. vms \in [Vids -> VmRows \cup {NoVm}]
  BY Zenon DEF CapiType
<1>2. CASE v \notin Vids
  <2>1. vms' = vms
    BY <1>1, <1>2, Zenon
  <2>. QED  BY <2>1, Zenon DEF Stands, NoNew
<1>3. CASE v \in Vids
  <2>1. PICK x : x = [vms[v] EXCEPT !.st = s]
    BY Zenon
  <2>2. x.c = vms[v].c /\ x.st = s
    BY <1>1, <1>3, <2>1, Zenon DEF VmRows
  <2>3. vms'[v] = x /\ \A w \in Vids : w # v => vms'[w] = vms[w]
    BY <1>1, <1>3, <2>1, Zenon
  <2>. QED  BY <2>2, <2>3, Zenon DEF Stands, NoNew
<1>. QED  BY <1>2, <1>3, Zenon

\* A VM is torn down, and its cluster leaves the host with the last one.
LEMMA LeavePins ==
    ASSUME CapiType, Pinned, NEW v, vms[v] # NoVm, UNCHANGED nextVid,
           vms' = [vms EXCEPT ![v].st = "teardown"], hosted' = Leave(vms', vms[v].c)
    PROVE  Pinned'
<1>1. PICK k : k = vms[v].c
  BY Zenon
<1>2. "teardown" \in VmStates
  BY Zenon DEF VmStates
<1>3. NoNew /\ \A w \in Vids : w # v => Stands(w)
  BY <1>2, RewrittenStands, Zenon
<1>4. ASSUME NEW c \in Cids, hosted[c] = "active", c # k PROVE LiveIn(vms', c) # {}
  <2>1. PICK w \in Vids : vms[w].c = c /\ vms[w].st # "teardown"
    BY <1>4, Zenon DEF Pinned, LiveIn
  <2>2. vms'[w].c = c /\ vms'[w].st # "teardown"
    BY <1>1, <1>3, <1>4, <2>1, Zenon DEF Stands
  <2>. QED  BY <2>2, Zenon DEF LiveIn
<1>5. hosted' = IF hosted[k] = "active" /\ LiveIn(vms', k) = {}
                THEN [hosted EXCEPT ![k] = "pending"] ELSE hosted
  BY <1>1, Zenon DEF Leave
<1>6. /\ hosted' \in Hostings
      /\ \A c \in Cids : hosted'[c] = "active" => hosted[c] = "active"
      /\ k \in Cids /\ hosted'[k] = "active" => LiveIn(vms', k) # {}
  BY <1>5, Zenon DEF Pinned, Hostings
<1>7. Numbered'
  BY <1>3, Zenon DEF Pinned, Numbered, NoNew
<1>. QED  BY <1>4, <1>6, <1>7, Zenon DEF Pinned

\* CreateMachine pins the cluster of the new VM.
LEMMA BeginCreatePins ==
    ASSUME CapiType, Pinned, NEW m \in Machines, NEW c, BeginCreate(m, c) PROVE Pinned'
<1>1. CASE UNCHANGED <<hosted, vms, nextVid>>
  BY <1>1, IdlePins, Zenon
<1>2. CASE /\ c \in rows /\ nextVid <= MaxVms
           /\ vms' = [vms EXCEPT ![nextVid] = [name |-> m, c |-> c, st |-> "creating"]]
           /\ hosted' = [hosted EXCEPT ![c] = "active"] /\ nextVid' = nextVid + 1
  <2>1. /\ nextVid \in Vids /\ c \in Cids /\ nextVid \in Nat
        /\ ~(nextVid < nextVid) /\ nextVid < nextVid' /\ \A v \in Vids : v < nextVid => v < nextVid'
    BY <1>2, ApiAssumption DEF CapiType, Vids, Cids
  <2>2. vms[nextVid] = NoVm
    BY <2>1, Zenon DEF Pinned, Numbered
  <2>3. PICK x : x = [name |-> m, c |-> c, st |-> "creating"]
    BY Zenon
  <2>4. x.c = c /\ x.st = "creating"
    BY <2>3, Zenon
  <2>5. vms'[nextVid] = x /\ \A v \in Vids : v # nextVid => vms'[v] = vms[v]
    BY <1>2, <2>1, <2>3, Zenon DEF CapiType
  <2>6. Numbered'
    BY <2>1, <2>5, Zenon DEF Pinned, Numbered
  <2>7. LiveIn(vms', c) # {}
    BY <2>1, <2>4, <2>5, Zenon DEF LiveIn
  <2>8. hosted' \in Hostings /\ \A d \in Cids : d # c => hosted'[d] = hosted[d]
    BY <1>2, <2>1, Zenon DEF Pinned, Hostings
  <2>9. ASSUME NEW d \in Cids, d # c, hosted[d] = "active" PROVE LiveIn(vms', d) # {}
    <3>1. PICK w \in Vids : vms[w].c = d /\ vms[w].st # "teardown"
      BY <2>9, Zenon DEF Pinned, LiveIn
    <3>2. d # 0 /\ NoVm.c = 0
      BY <2>9, Facts, Zenon DEF NoVm
    <3>3. vms'[w] = vms[w]
      BY <2>2, <2>5, <3>1, <3>2, Zenon
    <3>. QED  BY <3>1, <3>3, Zenon DEF LiveIn
  <2>. QED  BY <2>6, <2>7, <2>8, <2>9, Zenon DEF Pinned
<1>. QED  BY <1>1, <1>2, Zenon DEF BeginCreate

\* DeleteCluster takes the cluster off its hosts with its VMs.
LEMMA DeleteClusterPins ==
    ASSUME CapiType, Pinned, NEW r, NEW c, DeleteCluster(r, c) PROVE Pinned'
<1>1. CASE UNCHANGED <<hosted, vms>>
  BY <1>1, IdlePins, Zenon DEF DeleteCluster
<1>2. CASE /\ c \in rows
           /\ vms' = [v \in Vids |-> IF vms[v].c = c THEN [vms[v] EXCEPT !.st = "teardown"]
                                                     ELSE vms[v]]
           /\ hosted' = [hosted EXCEPT ![c] = IF @ = "active" THEN "pending" ELSE @]
  <2>1. c \in Cids /\ c # 0 /\ NoVm.c = 0
    BY <1>2, Facts, Zenon DEF CapiType, NoVm
  <2>2. /\ hosted' \in Hostings /\ hosted'[c] # "active"
        /\ \A d \in Cids : d # c => hosted'[d] = hosted[d]
    BY <1>2, <2>1, Zenon DEF Pinned, Hostings
  <2>3. \A v \in Vids : vms[v].c # c => Stands(v)
    BY <1>2, Zenon DEF Stands
  <2>4. NoNew
    BY <1>2, <2>1, Zenon DEF NoNew, DeleteCluster
  <2>. QED  BY <2>2, <2>3, <2>4, StandsPin, Zenon
<1>. QED  BY <1>1, <1>2, Zenon DEF DeleteCluster

\* A call that waited ends.
LEMMA EndCallPins ==
    ASSUME CapiType, Pinned, NEW m \in Machines, CreateRuns(m) \/ CreateFails(m) PROVE Pinned'
<1>. DEFINE v == calls[m]
<1>1. CASE CreateRuns(m)
  <2>1. CASE UNCHANGED vms
    BY <1>1, <2>1, IdlePins, Zenon DEF CreateRuns
  <2>2. CASE /\ vms[v] # NoVm
             /\ vms' = [vms EXCEPT ![v].st = IF @ = "teardown" THEN @ ELSE "running"]
    <3>1. PICK s : s = IF vms[v].st = "teardown" THEN "teardown" ELSE "running"
      BY Zenon
    <3>2. s \in VmStates /\ vms' = [vms EXCEPT ![v].st = s]
      BY <2>2, <3>1, Zenon DEF VmStates
    <3>3. NoNew /\ \A w \in Vids : w # v \/ s # "teardown" => Stands(w)
      BY <1>1, <2>2, <3>2, RewrittenStands, Zenon DEF CreateRuns
    <3>4. s = "teardown" => Stands(v)
      BY <3>1, Zenon DEF Stands
    <3>. QED  BY <1>1, <3>3, <3>4, SteadyPins, Zenon DEF CreateRuns
  <2>. QED  BY <1>1, <2>1, <2>2, Zenon DEF CreateRuns
<1>2. CASE CreateFails(m)
  BY <1>2, IdlePins, LeavePins, Zenon DEF CreateFails, GiveUp
<1>. QED  BY <1>1, <1>2, Zenon

\* Reports and acknowledgements.
LEMMA ByItselfPins ==
    ASSUME CapiType, Pinned, Clean', ByItself \/ Acks PROVE Pinned'
<1>1. ASSUME NEW v \in Vids, VmReportedRunning(v) \/ VmDies(v) PROVE Pinned'
  <2>1. PICK s \in {"running", "failed"} :
           /\ vms[v].st \in {"creating", "failed", "running"}
           /\ vms' = [vms EXCEPT ![v].st = s]
    BY <1>1, Zenon DEF VmReportedRunning, VmDies
  <2>2. vms[v] # NoVm /\ s # "teardown" /\ s \in VmStates
    BY <2>1 DEF NoVm, VmStates
  <2>3. UNCHANGED <<hosted, nextVid>>
    BY <1>1, Zenon DEF VmReportedRunning, VmDies
  <2>. QED  BY <2>1, <2>2, <2>3, RewrittenStands, SteadyPins, Zenon
<1>2. ASSUME NEW v \in Vids, VmAcked(v) PROVE Pinned'
  <2>1. \A w \in Vids : w # v => vms'[w] = vms[w]
    BY <1>2, Zenon DEF VmAcked, CapiType
  <2>2. vms'[v] = NoVm /\ vms[v].st = "teardown" /\ UNCHANGED <<hosted, nextVid>>
    BY <1>2, Zenon DEF VmAcked, CapiType
  <2>3. NoNew /\ \A w \in Vids : Stands(w)
    BY <2>1, <2>2, Zenon DEF NoNew, Stands
  <2>. QED  BY <2>2, <2>3, SteadyPins, Zenon
<1>3. ASSUME NEW c \in Cids, ClusterAcked(c) PROVE Pinned'
  <2>1. UNCHANGED <<vms, nextVid>> /\ hosted' = [hosted EXCEPT ![c] = "none"]
    BY <1>3, Zenon DEF ClusterAcked
  <2>2. hosted' \in Hostings /\ \A d \in Cids : hosted'[d] = "active" => hosted[d] = "active"
    BY <2>1, Zenon DEF Pinned, Hostings
  <2>3. NoNew /\ \A v \in Vids : Stands(v)
    BY <2>1, Zenon DEF NoNew, Stands
  <2>. QED  BY <2>2, <2>3, StandsPin, Zenon
<1>4. ASSUME OtherCluster PROVE Pinned'
  BY <1>4, IdlePins, Zenon DEF OtherCluster
<1>5. ASSUME NEW S, HostGivenUp(S) PROVE FALSE
  BY <1>5, Zenon DEF HostGivenUp, Fault, Clean
<1>. QED  BY <1>1, <1>2, <1>3, <1>4, <1>5, Zenon DEF ByItself, Acks

\* Every step keeps a cluster on its hosts with its VMs.
LEMMA NextPins == ASSUME CapiType, Pinned, Clean', [Next]_vars PROVE Pinned'
<1>. DEFINE Same == UNCHANGED <<hosted, vms, nextVid>>
<1>1. ASSUME NEW r, SharedStep(r) \/ Deliver(r) \/ AnswerLost(r) PROVE Same
  <2>1. CASE Reconcile(r) \/ AddFinalizer(r) \/ LiftFinalizer(r) \/ CacheError(r) \/ AnswerLost(r)
    BY <2>1, Zenon DEF Reconcile, AddFinalizer, LiftFinalizer, CacheError, AnswerLost
  <2>2. CASE CacheGet(r) \/ CacheInsert(r) \/ Retry(r) \/ CallFailed(r) \/ Deliver(r)
    BY <2>2, Zenon DEF CacheGet, CacheInsert, Retry, CallFailed, Deliver, apiVars
  <2>3. CASE Refused(r) \/ Unreached(r)
    BY <2>3, Zenon DEF Refused, Unreached
  <2>. QED  BY <1>1, <2>1, <2>2, <2>3, Zenon DEF SharedStep
<1>2. ASSUME NEW m \in Machines, MachineStep(m) PROVE Pinned'
  <2>1. CASE ResolveCluster(m) \/ Bootstrap(m) \/ MachineAnswered(m) \/ CommitStatus(m)
             \/ CommitSpec(m) \/ RecordTerminal(m) \/ MachineFailed(m)
    <3>1. Same
      BY <2>1, Zenon DEF ResolveCluster, Bootstrap, MachineAnswered, CommitStatus, CommitSpec,
                         RecordTerminal, MachineFailed, apiVars
    <3>. QED  BY <3>1, IdlePins, Zenon
  <2>2. ASSUME NEW v, DeleteMachine(m, v) \/ GetMachine(m, v) PROVE Pinned'
    BY <2>2, IdlePins, LeavePins, Zenon DEF DeleteMachine, GetMachine
  <2>. QED  BY <1>2, <2>1, <2>2, BeginCreatePins, Zenon DEF MachineStep, CallMachine
<1>3. ASSUME ClusterStep PROVE Pinned'
  <2>1. CASE ClusterAnswered \/ WriteEndpoint \/ WriteStatus \/ ApplyCrds \/ ClusterFailed
             \/ CreateCluster(Cluster)
    <3>1. Same
      BY <2>1, Zenon DEF ClusterAnswered, WriteEndpoint, WriteStatus, ApplyCrds, ClusterFailed,
                         CreateCluster, apiVars
    <3>. QED  BY <3>1, IdlePins, Zenon
  <2>. QED  BY <1>3, <2>1, DeleteClusterPins, Zenon DEF ClusterStep, CallCluster
<1>4. ASSUME NEW m \in Machines, EndCall(m) PROVE Pinned'
  <2>1. ~CreateTimesOut(m) /\ ~CreateCut(m)
    BY Zenon DEF CreateTimesOut, CreateCut, Fault, Clean
  <2>. QED  BY <1>4, <2>1, EndCallPins, Zenon DEF EndCall
<1>5. ASSUME Others \/ KubeconfigWritten \/ Finished \/ UNCHANGED vars PROVE Same
  BY <1>5, Zenon DEF Others, StartUp, WaitForCrds, ReadTrustDomain, User, UserDeletes,
     UserRecreates, Rotate, UpdateSecret, Restart, KubeconfigWritten, Finished, vars, apiVars
<1>. QED  BY <1>1, <1>2, <1>3, <1>4, <1>5, ByItselfPins, IdlePins, Zenon DEF Next

SafelyPinned == Clean => Pinned

\* No orphans: once an object is gone and no reconcile of it is under way, its
\* VM is torn down, and for its clusters DeleteCluster was called and a host
\* still has to acknowledge the tombstone or a machine lives on, for any number
\* of machines, VMs and faults.  Not so for a cluster no host carries, and unless
\* an answer, a patch or a reconcile was lost, cleanup ran on an old copy or a
\* host was given up.
THEOREM NothingOrphaned == Spec => []NoOrphans
<1>1. Init => Safe /\ SafelyPinned
  <2>1. ASSUME Init PROVE Pinned
    BY <2>1, Zenon DEF Init, ApiInit, Pinned, Hostings, Numbered
  <2>. QED  BY <2>1, InitOwns, Zenon DEF Safe, SafelyPinned
<1>2. ASSUME Safe, SafelyPinned, [Next]_vars PROVE Safe' /\ SafelyPinned'
  <2>1. ASSUME Clean' PROVE Clean
    BY <1>2, <2>1, Remembers, Zenon DEF Clean, vars, apiVars
  <2>2. Clean => CapiType
    BY <1>2, Zenon DEF Safe, Accounted
  <2>3. SafelyPinned'
    BY <1>2, <2>1, <2>2, NextPins, Zenon DEF SafelyPinned
  <2>. QED  BY <1>2, <2>3, NextOwns
<1>3. ASSUME Safe, SafelyPinned PROVE NoOrphans
  <2>. SUFFICES ASSUME Clean PROVE NoOrphans
    BY Zenon DEF Clean, NoOrphans
  <2>1. Accounted /\ CapiType /\ Pinned
    BY <1>3, Zenon DEF Safe, Accounted, SafelyPinned
  <2>2. ASSUME NEW v \in Vids, vms[v] # NoVm, Gone(vms[v].name), pc[vms[v].name] = "idle",
               vms[v].st # "teardown"
        PROVE  FALSE
    <3>. DEFINE m == vms[v].name
    <3>1. m \in Machines
      BY <2>1, <2>2, Zenon DEF CapiType, VmRows
    <3>2. m \in Reconcilers /\ m # Cluster /\ Own(m)
      BY <2>1, <3>1, Facts, Zenon DEF Accounted
    <3>3. v \in Mine(m)
      BY <2>2, <3>2, Zenon DEF Mine, LiveVms, Alive
    <3>4. Mine(m) \subseteq {0}
      BY <2>2, <3>2, InStatus, Facts, Zenon DEF Gone
    <3>. QED  BY <3>3, <3>4, <2>1, NotZero, Zenon
  <2>3. ASSUME Gone(Cluster), pc[Cluster] = "idle" PROVE rows \subseteq asked
    <3>1. Mine(Cluster) \subseteq {0}
      BY <2>1, <2>3, InStatus, Facts, Zenon DEF Gone, Accounted
    <3>. QED  BY <2>1, <3>1, NotZero, Zenon DEF Mine
  <2>4. ASSUME NEW c \in rows PROVE Releasing(c) \/ hosted[c] = "none"
    <3>1. c \in Cids /\ hosted[c] \in {"none", "active", "pending"}
      BY <2>1, Zenon DEF CapiType, Pinned, Hostings
    <3>. QED  BY <2>1, <3>1, Zenon DEF Pinned, Releasing
  <2>. QED  BY <2>2, <2>3, <2>4, Zenon DEF NoOrphans
<1>. QED  BY <1>1, <1>2, <1>3, PTL DEF Spec

-----------------------------------------------------------------------------
(***************************************************************************)
(* CreateMachine answers with a VM that runs, for any number of machines,  *)
(* also when calls to the API server fail and reconciles run on stale      *)
(* copies.                                                                 *)
(*                                                                         *)
(* Serving is the inductive invariant: every row of a machine runs, is the *)
(* one its CreateMachine call waits for, or is torn down for a reason that *)
(* the claim excepts or that keeps the machine from ever being applied     *)
(* again.  The reason is the deletion of its object, which is for good     *)
(* (Finality); that the row is its own follows from where ids come from    *)
(* (OwnIds).                                                               *)
(***************************************************************************)

\* What the claim excepts: a call without an answer or told to come back, a dead
\* guest, a host that is given up, a restart of the provider, a name that is used again.
Excused == happened \cap {"lost", "busy", "died", "host", "restart", "remade"} # {}

\* The deletion of m's object is known everywhere; no apply of it is under way.
Over(m) == obj[m].del /\ seen[m].del /\ loc[m].del

\* What the watch's copy says of the deletion holds of the object, what a
\* reconcile's copy says holds of both, and a reconcile that deletes has an id.
Finality(m) ==
    /\ seen[m] # NoObj /\ seen[m].del => obj[m].del
    /\ pc[m] # "idle" /\ loc[m].del => seen[m].del /\ obj[m].del
    /\ pc[m] \in Reading /\ loc[m].del => loc[m].id # 0

\* A call waits only while the reconcile that made it does.
Waiting(m) ==
    /\ pc[m] \in Early => ans[m] = NoAnswer
    /\ calls[m] # 0 => pc[m] = "wait" /\ ans[m] = NoAnswer /\ ~loc[m].del

\* An id that was given to m, if to anyone.
IsOf(m, i) == i < nextVid /\ (i \in Vids /\ vms[i] # NoVm => vms[i].name = m)

OwnIds(m) ==
    /\ IsOf(m, obj[m].id) /\ IsOf(m, seen[m].id) /\ IsOf(m, loc[m].id)
    /\ IsOf(m, ans[m].id) /\ IsOf(m, calls[m])

RowServes(m, v) ==
    \/ vms[v].st = "running"
    \/ vms[v].st = "creating" /\ calls[m] = v
    \/ vms[v].st = "teardown" /\ (vms[v].c \in asked \/ Over(m))

RowsServe(m) == \A v \in Vids : vms[v] # NoVm /\ vms[v].name = m => RowServes(m, v)

Serves(m) == Finality(m) /\ Waiting(m) /\ OwnIds(m) /\ RowsServe(m)

Serving == CapiType /\ Numbered /\ \A m \in Machines : Serves(m)

ServingOrExcused == Excused \/ Serving

-----------------------------------------------------------------------------
\* A step of reconciler r that only moves on, as far as deletion and waiting go:
\* it ends, begins on the watch's copy, or goes on with its own.
Turn(r, o, p, l, a) ==
    /\ obj[r].del => o.del
    /\ pc[r] = "wait" => ans[r] # NoAnswer
    /\ \/ p = "idle" /\ l = NoObj /\ a = NoAnswer
       \/ /\ pc[r] = "idle" /\ seen[r] # NoObj /\ l = seen[r] /\ a = ans[r]
          /\ p \in Reading /\ l.del => l.id # 0
       \/ /\ pc[r] # "idle" /\ l = loc[r]
          /\ p \in Reading => pc[r] \in Reading
          /\ p \in Early => a = NoAnswer \/ (pc[r] \in Early /\ a = ans[r])

\* Such a step keeps what is claimed of r.
LEMMA TurnServes ==
    ASSUME CapiType, NEW m \in Machines, Serves(m), NEW o, NEW p, NEW l, NEW a,
           Turn(m, o, p, l, a), obj'[m] = o, pc'[m] = p, loc'[m] = l, ans'[m] = a,
           IsOf(m, o.id), IsOf(m, l.id), IsOf(m, a.id),
           UNCHANGED <<asked, vms, calls, nextVid, seen>>
    PROVE  Serves(m)'
<1>1. calls[m] = 0
  BY Zenon DEF Serves, Waiting, Turn
<1>2. NoObj.del
  BY Zenon DEF NoObj
<1>3. Finality(m)'
  <2>1. "idle" \notin Reading
    BY Zenon DEF Reading
  <2>. QED  BY <2>1, Zenon DEF Serves, Finality, Turn
<1>4. Waiting(m)'
  <2>1. "idle" \in Early
    BY Zenon DEF Early
  <2>. QED  BY <1>1, <2>1, Zenon DEF Serves, Waiting, Turn
<1>5. \A i : IsOf(m, i)' = IsOf(m, i)
  BY Zenon DEF IsOf
<1>6. OwnIds(m)'
  BY <1>5, Zenon DEF Serves, OwnIds
<1>7. Over(m) => Over(m)'
  BY <1>2, Zenon DEF Over, Turn
<1>8. RowsServe(m)'
  BY <1>7, Zenon DEF Serves, RowsServe, RowServes
<1>. QED  BY <1>3, <1>4, <1>6, <1>8, Zenon DEF Serves

\* What a row may become while machine m stands by: it runs, it is torn down with
\* its cluster or is another machine's, it goes, or it is a new one of another.
Ages(m, v) ==
    \/ vms'[v] = vms[v]
    \/ vms'[v] = NoVm
    \/ /\ vms[v] # NoVm /\ vms'[v].name = vms[v].name /\ vms'[v].c = vms[v].c
       /\ \/ vms'[v].st = "running"
          \/ vms'[v].st = "teardown" /\ (vms[v].name # m \/ vms[v].c \in asked')
    \/ vms[v] = NoVm /\ v = nextVid /\ vms'[v].name # m

\* A machine that a step leaves alone is served as before.
LEMMA SteadyServes ==
    ASSUME CapiType, NEW m \in Machines, Serves(m),
           obj'[m] = obj[m], seen'[m] = seen[m], loc'[m] = loc[m], pc'[m] = pc[m],
           ans'[m] = ans[m], calls'[m] = calls[m],
           asked \subseteq asked', nextVid' \in Nat, nextVid <= nextVid',
           \A v \in Vids : Ages(m, v)
    PROVE  Serves(m)'
<1>1. Finality(m)' /\ Waiting(m)' /\ (Over(m) => Over(m)')
  BY Zenon DEF Serves, Finality, Waiting, Over
<1>2. ASSUME NEW i \in Nat, IsOf(m, i) PROVE IsOf(m, i)'
  <2>1. i < nextVid' /\ i # nextVid
    BY <1>2 DEF IsOf, CapiType
  <2>2. i \in Vids /\ vms'[i] # NoVm => vms'[i].name = m
    BY <1>2, <2>1, Zenon DEF IsOf, Ages
  <2>. QED  BY <2>1, <2>2, Zenon DEF IsOf
<1>3. /\ obj[m].id \in Nat /\ seen[m].id \in Nat /\ loc[m].id \in Nat /\ ans[m].id \in Nat
      /\ calls[m] \in Nat
  <2>1. m \in Reconcilers /\ 0 \in Nat /\ Vids \subseteq Nat
    BY Facts DEF Vids
  <2>. QED  BY <2>1, Zenon DEF CapiType, Objects
<1>4. OwnIds(m)'
  BY <1>2, <1>3, Zenon DEF Serves, OwnIds
<1>5. ASSUME NEW v \in Vids, vms'[v] # NoVm, vms'[v].name = m PROVE RowServes(m, v)'
  <2>1. CASE vms'[v] = vms[v]
    <3>1. RowServes(m, v)
      BY <1>5, <2>1, Zenon DEF Serves, RowsServe
    <3>. QED  BY <1>1, <2>1, <3>1, Zenon DEF RowServes
  <2>2. CASE vms'[v] # vms[v]
    BY <1>5, <2>2, Zenon DEF Ages, RowServes
  <2>. QED  BY <2>1, <2>2, Zenon
<1>6. RowsServe(m)'
  BY <1>5, Zenon DEF RowsServe
<1>. QED  BY <1>1, <1>4, <1>6, Zenon DEF Serves

\* A step of a reconciler that leaves the tables alone.
LEMMA MoveServes ==
    ASSUME Serving, NEW r \in Reconcilers, NEW o \in Objects, NEW p \in Steps,
           NEW l \in Objects, NEW a, a.id \in Nat, Moves(r, o, p, l, a),
           rows' \subseteq Cids, nextCid' \in Nat \ {0},
           UNCHANGED <<asked, vms, calls, nextVid, seen>>, cid' \in [Reconcilers -> Nat],
           r \in Machines => /\ Turn(r, o, p, l, a)
                             /\ IsOf(r, o.id) /\ IsOf(r, l.id) /\ IsOf(r, a.id)
    PROVE  Serving'
<1>0. CapiType /\ \A m \in Machines : Serves(m)
  BY Zenon DEF Serving
<1>1. CapiType'
  BY <1>0, Zenon DEF CapiType, Moves
<1>2. /\ obj'[r] = o /\ pc'[r] = p /\ loc'[r] = l /\ ans'[r] = a
      /\ \A q \in Reconcilers \ {r} : /\ obj'[q] = obj[q] /\ pc'[q] = pc[q]
                                      /\ loc'[q] = loc[q] /\ ans'[q] = ans[q]
  BY <1>0, Zenon DEF CapiType, Moves
<1>3. ASSUME NEW m \in Machines PROVE Serves(m)'
  <2>1. CASE m = r
    BY <1>0, <1>2, <1>3, <2>1, TurnServes, Zenon
  <2>2. CASE m # r
    <3>1. m \in Reconcilers \ {r}
      BY <2>2, Facts, Zenon
    <3>2. nextVid' \in Nat /\ nextVid <= nextVid'
      BY <1>0 DEF CapiType
    <3>3. \A v \in Vids : Ages(m, v)
      BY Zenon DEF Ages
    <3>. QED  BY <1>0, <1>2, <3>1, <3>2, <3>3, SteadyServes, Zenon
  <2>. QED  BY <2>1, <2>2, Zenon
<1>4. Numbered'
  BY Zenon DEF Serving, Numbered
<1>. QED  BY <1>1, <1>3, <1>4, Zenon DEF Serving

\* The ids a machine's reconciler has at hand are its own, 0 among them.
LEMMA IdsAtHand ==
    ASSUME Serving, NEW m \in Machines
    PROVE  /\ IsOf(m, obj[m].id) /\ IsOf(m, seen[m].id) /\ IsOf(m, loc[m].id)
           /\ IsOf(m, ans[m].id) /\ IsOf(m, NoObj.id) /\ IsOf(m, NoAnswer.id) /\ IsOf(m, 0)
<1>1. 0 < nextVid /\ 0 \notin Vids
  BY DEF Serving, CapiType, Vids
<1>2. IsOf(m, 0)
  BY <1>1, Zenon DEF IsOf
<1>3. NoObj.id = 0 /\ NoAnswer.id = 0
  BY Zenon DEF NoObj, NoAnswer
<1>. QED  BY <1>2, <1>3, Zenon DEF Serving, Serves, OwnIds

\* A reconcile that goes on to another step.
LEMMA GoServes ==
    ASSUME Serving, NEW r \in Reconcilers, NEW p \in Steps, Go(r, p),
           UNCHANGED <<obj, loc, ans, rows, asked, vms, calls, nextCid, nextVid, seen>>,
           cid' \in [Reconcilers -> Nat],
           r \in Machines => /\ pc[r] # "idle" /\ (pc[r] = "wait" => ans[r] # NoAnswer)
                             /\ p \in Reading => pc[r] \in Reading
                             /\ p \in Early => pc[r] \in Early
    PROVE  Serving'
<1>1. CapiType
  BY Zenon DEF Serving
<1>2. Moves(r, obj[r], p, loc[r], ans[r])
  BY <1>1, Stays, Zenon DEF Go, Moves
<1>3. rows' \subseteq Cids /\ nextCid' \in Nat \ {0}
  BY <1>1, Zenon DEF CapiType
<1>4. r \in Machines => Turn(r, obj[r], p, loc[r], ans[r])
  BY Zenon DEF Turn
<1>. QED  BY <1>1, <1>2, <1>3, <1>4, Stays, IdsAtHand, MoveServes, Zenon

\* A reconcile that ends, its object now o.
LEMMA DoneServes ==
    ASSUME Serving, NEW r \in Reconcilers, NEW again, Done(r, again),
           NEW o \in Objects, obj' = [obj EXCEPT ![r] = o],
           UNCHANGED <<rows, asked, vms, calls, nextCid, nextVid, seen>>,
           r \in Machines => /\ pc[r] = "wait" => ans[r] # NoAnswer
                             /\ obj[r].del => o.del
                             /\ o.id \in {0, obj[r].id}
    PROVE  Serving'
<1>1. CapiType
  BY Zenon DEF Serving
<1>2. Moves(r, o, "idle", NoObj, NoAnswer)
  BY Zenon DEF Done, Moves
<1>3. cid' = [cid EXCEPT ![r] = 0]
  BY Zenon DEF Done
<1>4. rows' \subseteq Cids /\ nextCid' \in Nat \ {0} /\ cid' \in [Reconcilers -> Nat]
  BY <1>1, <1>3, Zenon DEF CapiType
<1>5. r \in Machines => Turn(r, o, "idle", NoObj, NoAnswer)
  BY Zenon DEF Turn
<1>6. "idle" \in Steps
  BY Zenon DEF Steps
<1>7. r \in Machines => IsOf(r, o.id)
  BY IdsAtHand, Zenon
<1>. QED  BY <1>2, <1>4, <1>5, <1>6, <1>7, Facts, IdsAtHand, MoveServes, Zenon

\* An answer is none that is missing.
LEMMA Answered == ASSUME NEW a, a.code # "none" PROVE a # NoAnswer
<1>1. NoAnswer.code = "none"
  BY Zenon DEF NoAnswer
<1>. QED  BY <1>1, Zenon

\* A reconcile begins, on a copy that may be stale.
LEMMA ReconcileServes ==
    ASSUME Serving, NEW r \in Reconcilers, Reconcile(r) PROVE Serving'
<1>1. CapiType /\ pc[r] = "idle" /\ seen[r] # NoObj /\ seen[r] \in Objects
  BY Zenon DEF Serving, CapiType, Reconcile
<1>2. PICK p \in {"finalize", "client", "resolve", "lift"} :
         /\ pc' = [pc EXCEPT ![r] = p]
         /\ p = "resolve" => ~seen[r].del
         /\ p = "client" => ~seen[r].del \/ seen[r].id # 0
  BY Zenon DEF Reconcile, Go
<1>3. p \in Steps
  BY Zenon DEF Steps
<1>4. Moves(r, obj[r], p, seen[r], ans[r])
  BY <1>1, <1>2, Stays, Zenon DEF Reconcile, Moves
<1>5. p \in Reading /\ seen[r].del => seen[r].id # 0
  BY <1>2, Zenon DEF Reading
<1>6. Turn(r, obj[r], p, seen[r], ans[r])
  BY <1>1, <1>5, Zenon DEF Turn
<1>7. UNCHANGED <<rows, asked, vms, calls, nextCid, nextVid, seen, cid>>
  BY Zenon DEF Reconcile
<1>8. rows' \subseteq Cids /\ nextCid' \in Nat \ {0} /\ cid' \in [Reconcilers -> Nat]
  BY <1>1, <1>7, Zenon DEF CapiType
<1>. QED  BY <1>1, <1>3, <1>4, <1>6, <1>7, <1>8, Stays, IdsAtHand, MoveServes, Zenon

\* The finalizer is added or lifted.
LEMMA FinalizerServes ==
    ASSUME Serving, NEW r \in Reconcilers, AddFinalizer(r) \/ LiftFinalizer(r) PROVE Serving'
<1>1. CapiType /\ pc[r] \in {"finalize", "lift"} /\ obj[r] \in Objects
  BY Stays, Zenon DEF Serving, AddFinalizer, LiftFinalizer
<1>2. UNCHANGED <<rows, asked, vms, calls, nextCid, nextVid, seen>>
  BY Zenon DEF AddFinalizer, LiftFinalizer
<1>3. Done(r, TRUE) \/ Done(r, FALSE)
  BY Zenon DEF AddFinalizer, LiftFinalizer
<1>4. \E o \in Objects : /\ obj' = [obj EXCEPT ![r] = o]
                         /\ (obj[r].del => o.del) /\ o.id \in {0, obj[r].id}
  <2>1. CASE UNCHANGED obj
    BY <1>1, <2>1, Stays, Zenon
  <2>2. CASE obj' = [obj EXCEPT ![r].fin = TRUE]
    <3>1. PICK o : o = [obj[r] EXCEPT !.fin = TRUE]
      BY Zenon
    <3>2. o \in Objects /\ o.del = obj[r].del /\ o.id = obj[r].id
      BY <1>1, <3>1, Zenon DEF Objects
    <3>3. obj' = [obj EXCEPT ![r] = o]
      BY <2>2, <3>1, Zenon
    <3>. QED  BY <3>2, <3>3, Zenon
  <2>3. CASE obj' = [obj EXCEPT ![r] = NoObj]
    <3>1. NoObj.del
      BY Zenon DEF NoObj
    <3>. QED  BY <2>3, <3>1, Facts, Zenon
  <2>. QED  BY <2>1, <2>2, <2>3, Zenon DEF AddFinalizer, LiftFinalizer
<1>5. pc[r] # "wait"
  BY <1>1, Zenon
<1>. QED  BY <1>2, <1>3, <1>4, <1>5, DoneServes, Zenon

\* The client is looked up, and the call is refused or has no credentials.
LEMMA ClientServes ==
    ASSUME Serving, NEW r \in Reconcilers,
           CacheGet(r) \/ CacheError(r) \/ CacheInsert(r) \/ Refused(r)
    PROVE  Serving'
<1>1. cid \in [Reconcilers -> Nat] /\ CallStep(r) \in {"boot", "rpc"}
  BY Zenon DEF Serving, CapiType, CallStep
<1>2. /\ pc[r] \in {"client", "insert", "rpc"}
      /\ UNCHANGED <<obj, loc, ans, rows, asked, vms, calls, nextCid, nextVid, seen, cid>>
  BY Zenon DEF CacheGet, CacheError, CacheInsert, Refused, apiVars, kubeVars
<1>3. PICK p \in {"boot", "rpc", "insert", "failed"} : Go(r, p)
  BY <1>1, Zenon DEF CacheGet, CacheError, CacheInsert, Refused, Fail
<1>4. p \in Steps /\ pc[r] \in Reading /\ pc[r] \in Early /\ pc[r] \notin {"idle", "wait"}
  BY <1>2, Zenon DEF Steps, Reading, Early
<1>. QED  BY <1>1, <1>2, <1>3, <1>4, GoServes, Zenon

\* A call that failed: it is repeated, or the reconcile fails.
LEMMA CallEndServes ==
    ASSUME Serving, NEW r \in Reconcilers, Retry(r) \/ CallFailed(r) PROVE Serving'
<1>1. /\ CapiType /\ pc[r] = "wait" /\ ans[r].code \in {"unavailable", "deadline", "error"}
  BY Zenon DEF Serving, Retry, CallFailed
<1>2. PICK p \in {"rpc", "failed"}, a \in {ans[r], NoAnswer} :
         /\ Go(r, p) /\ ans' = [ans EXCEPT ![r] = a]
         /\ p = "rpc" => a = NoAnswer
  BY <1>1, Stays, Zenon DEF Retry, CallFailed, Fail, apiVars
<1>3. UNCHANGED <<obj, loc, rows, asked, vms, calls, nextCid, nextVid, seen, cid>>
  BY Zenon DEF Retry, CallFailed, kubeVars, apiVars
<1>4. Moves(r, obj[r], p, loc[r], a) /\ a.id \in Nat
  BY <1>1, <1>2, <1>3, Stays, Facts, Zenon DEF Moves, Go
<1>5. ans[r] # NoAnswer /\ p \in Steps /\ pc[r] \in Reading /\ "failed" \notin Early
  BY <1>1, Answered, Zenon DEF Steps, Reading, Early
<1>6. Turn(r, obj[r], p, loc[r], a)
  BY <1>1, <1>2, <1>5, Zenon DEF Turn
<1>7. rows' \subseteq Cids /\ nextCid' \in Nat \ {0} /\ cid' \in [Reconcilers -> Nat]
  BY <1>1, <1>3, Zenon DEF CapiType
<1>8. r \in Machines => IsOf(r, a.id)
  BY <1>2, IdsAtHand, Zenon
<1>. QED  BY <1>1, <1>3, <1>4, <1>5, <1>6, <1>7, <1>8, Stays, IdsAtHand, MoveServes, Zenon

\* A call is answered without a change of the machines' tables.
LEMMA AnswerServes ==
    ASSUME Serving, NEW r \in Reconcilers, pc[r] = "rpc", Go(r, "wait"),
           NEW a, a.id \in Nat, ans' = [ans EXCEPT ![r] = a],
           UNCHANGED <<obj, loc, seen, cid, asked, vms, calls, nextVid>>,
           rows' \subseteq Cids, nextCid' \in Nat \ {0}, r \in Machines => IsOf(r, a.id)
    PROVE  Serving'
<1>1. CapiType /\ "wait" \in Steps
  BY Zenon DEF Serving, Steps
<1>2. Moves(r, obj[r], "wait", loc[r], a)
  BY <1>1, Stays, Zenon DEF Moves, Go
<1>3. pc[r] \in Reading /\ "wait" \notin Early
  BY Zenon DEF Reading, Early
<1>4. Turn(r, obj[r], "wait", loc[r], a)
  BY <1>3, Zenon DEF Turn
<1>5. cid' \in [Reconcilers -> Nat]
  BY <1>1, Zenon DEF CapiType
<1>. QED  BY <1>1, <1>2, <1>4, <1>5, Stays, IdsAtHand, MoveServes, Zenon

\* The connection fails a call that was not carried out.
LEMMA UnreachedServes ==
    ASSUME Serving, NEW r \in Reconcilers, Unreached(r) PROVE Serving'
<1>1. PICK a : a = [code |-> "unavailable", id |-> 0, st |-> "gone"]
  BY Zenon
<1>2. a.id = 0 /\ a.id \in Nat
  BY <1>1, Zenon
<1>3. /\ pc[r] = "rpc" /\ Go(r, "wait") /\ ans' = [ans EXCEPT ![r] = a]
      /\ UNCHANGED <<obj, loc, seen, cid, asked, vms, calls, nextVid, rows, nextCid>>
  BY <1>1, Zenon DEF Unreached, Answer, kubeVars
<1>4. rows' \subseteq Cids /\ nextCid' \in Nat \ {0}
  BY <1>3, Zenon DEF Serving, CapiType
<1>. QED  BY <1>2, <1>3, <1>4, IdsAtHand, AnswerServes, Zenon

\* Any step of the protocol the reconcilers share.
LEMMA SharedServes ==
    ASSUME Serving, NEW r \in Reconcilers, SharedStep(r) PROVE Serving'
BY ReconcileServes, FinalizerServes, ClientServes, CallEndServes, UnreachedServes, Zenon
   DEF SharedStep

-----------------------------------------------------------------------------
(* The machine's reconciler *)

\* A patch of the failure path leaves the id and the deletion alone.
LEMMA RecordServes ==
    ASSUME CapiType, NEW r \in Reconcilers,
           RecordFailure(r) \/ Patched(r, Failure(r)) \/ UNCHANGED obj
    PROVE  \E o \in Objects : /\ obj' = [obj EXCEPT ![r] = o]
                              /\ o.del = obj[r].del /\ o.id = obj[r].id
<1>1. obj[r] \in Objects /\ obj[r].id \in Nat
  BY Stays, Zenon DEF Objects
<1>2. PICK o : o = Failure(r)
  BY Zenon
<1>3. o \in Objects /\ o.del = obj[r].del /\ o.id = obj[r].id
  BY <1>1, <1>2, Zenon DEF Objects, Failure
<1>4. obj' = [obj EXCEPT ![r] = o] \/ obj' = [obj EXCEPT ![r] = obj[r]]
  BY <1>2, Stays, Zenon DEF RecordFailure, Patched, PatchRefused, PatchLost
<1>. QED  BY <1>1, <1>3, <1>4, Zenon

\* The steps before the call, and the failure path.
LEMMA MachineGoesServes ==
    ASSUME Serving, NEW m \in Machines, ResolveCluster(m) \/ Bootstrap(m) \/ MachineFailed(m)
    PROVE  Serving'
<1>1. CapiType /\ m \in Reconcilers /\ cid \in [Reconcilers -> Nat]
  BY Facts, Zenon DEF Serving, CapiType
<1>2. CASE ResolveCluster(m) \/ Bootstrap(m)
  <2>1. /\ pc[m] \in {"resolve", "boot"}
        /\ UNCHANGED <<obj, loc, ans, rows, asked, vms, calls, nextCid, nextVid, seen>>
    BY <1>2, Zenon DEF ResolveCluster, Bootstrap, apiVars, kubeVars
  <2>2. PICK p \in {"client", "rpc", "failed"} : Go(m, p)
    BY <1>2, Zenon DEF ResolveCluster, Bootstrap, BootstrapData, Fail
  <2>3. cid' = cid \/ cid' = [cid EXCEPT ![m] = obj[Cluster].id]
    BY <1>2, Zenon DEF ResolveCluster, Bootstrap
  <2>4. obj[Cluster].id \in Nat
    BY <1>1, Facts, Stays, Zenon DEF Objects
  <2>5. cid' \in [Reconcilers -> Nat]
    BY <1>1, <2>3, <2>4, Zenon
  <2>6. p \in Steps /\ pc[m] \in Reading /\ pc[m] \in Early /\ pc[m] \notin {"idle", "wait"}
    BY <2>1, Zenon DEF Steps, Reading, Early
  <2>. QED  BY <1>1, <2>1, <2>2, <2>5, <2>6, GoServes, Zenon
<1>3. CASE MachineFailed(m)
  <2>1. /\ UNCHANGED obj \/ RecordFailure(m) \/ Patched(m, Failure(m))
        /\ pc[m] = "failed" /\ Done(m, TRUE)
        /\ UNCHANGED <<rows, asked, vms, calls, nextCid, nextVid, seen>>
    BY <1>3, Zenon DEF MachineFailed, Unresolved
  <2>2. PICK o \in Objects : /\ obj' = [obj EXCEPT ![m] = o]
                             /\ o.del = obj[m].del /\ o.id = obj[m].id
    BY <1>1, <2>1, RecordServes, Zenon
  <2>3. pc[m] # "wait"
    BY <2>1, Zenon
  <2>. QED  BY <1>1, <2>1, <2>2, <2>3, DoneServes, Zenon
<1>. QED  BY <1>2, <1>3, Zenon

\* What becomes of an answer.
LEMMA MachineAnsweredServes ==
    ASSUME Serving, NEW m \in Machines, MachineAnswered(m) PROVE Serving'
<1>1. /\ CapiType /\ m \in Reconcilers /\ cid \in [Reconcilers -> Nat]
      /\ pc[m] = "wait" /\ ans[m].code \in {"ok", "notfound"}
  BY Facts, Zenon DEF Serving, CapiType, MachineAnswered
<1>2. ans[m] # NoAnswer /\ UNCHANGED <<rows, asked, vms, calls, nextCid, nextVid, seen, obj>>
  BY <1>1, Answered, Zenon DEF MachineAnswered
<1>3. CASE Done(m, TRUE)
  <2>1. obj[m] \in Objects /\ obj' = [obj EXCEPT ![m] = obj[m]]
    BY <1>1, <1>2, Stays, Zenon
  <2>. QED  BY <1>1, <1>2, <1>3, <2>1, DoneServes, Zenon
<1>4. CASE \E p \in {"terminal", "status", "failed", "lift"} :
              Go(m, p) /\ UNCHANGED <<loc, cid, ans>>
  <2>1. PICK p \in {"terminal", "status", "failed", "lift"} :
              Go(m, p) /\ UNCHANGED <<loc, cid, ans>>
    BY <1>4, Zenon
  <2>2. p \in Steps /\ p \notin Reading /\ p \notin Early
    BY <2>1, Zenon DEF Steps, Reading, Early
  <2>. QED  BY <1>1, <1>2, <2>1, <2>2, GoServes, Zenon
<1>. QED  BY <1>3, <1>4, Zenon
          DEF MachineAnswered, Deletion_End, Observation, Creation_End, Fail

\* The id, the spec and a terminal failure are patched, or the patch fails.
LEMMA MachinePatchesServe ==
    ASSUME Serving, NEW m \in Machines, CommitStatus(m) \/ CommitSpec(m) \/ RecordTerminal(m)
    PROVE  Serving'
<1>1. /\ CapiType /\ m \in Reconcilers /\ cid \in [Reconcilers -> Nat]
      /\ obj[m] \in Objects /\ ans[m].id \in Nat /\ loc[m] \in Objects
  BY Facts, Stays, Zenon DEF Serving, CapiType
<1>2. /\ pc[m] \in {"status", "spec", "terminal"}
      /\ UNCHANGED <<rows, asked, vms, calls, nextCid, nextVid, seen>>
  BY Zenon DEF CommitStatus, CommitSpec, RecordTerminal
<1>3. /\ pc[m] # "idle" /\ pc[m] # "wait" /\ "failed" \in Steps /\ "spec" \in Steps
      /\ "failed" \notin Reading \cup Early /\ "spec" \notin Reading \cup Early
  BY <1>2, Zenon DEF Steps, Reading, Early
<1>4. CASE Go(m, "failed") /\ UNCHANGED <<obj, loc, ans, cid>>
  BY <1>1, <1>2, <1>3, <1>4, GoServes, Zenon
<1>5. CASE \E again : Done(m, again) /\ UNCHANGED obj
  <2>1. obj' = [obj EXCEPT ![m] = obj[m]]
    BY <1>1, <1>5, Stays, Zenon
  <2>. QED  BY <1>1, <1>2, <1>3, <1>5, <2>1, DoneServes, Zenon
<1>6. CASE CommitSpec(m) /\ Patched(m, [obj[m] EXCEPT !.spec = ans[m].id]) /\ Done(m, TRUE)
  <2>1. PICK o : o = [obj[m] EXCEPT !.spec = ans[m].id]
    BY Zenon
  <2>2. o \in Objects /\ o.del = obj[m].del /\ o.id = obj[m].id
    BY <1>1, <2>1, Zenon DEF Objects
  <2>3. obj' = [obj EXCEPT ![m] = o]
    BY <1>6, <2>1, Zenon DEF Patched
  <2>. QED  BY <1>1, <1>2, <1>3, <1>6, <2>2, <2>3, DoneServes, Zenon
<1>7. CASE /\ Patched(m, [obj[m] EXCEPT !.ready = FALSE, !.msg = TRUE, !.reason = TRUE])
           /\ Done(m, FALSE)
  <2>1. PICK o : o = [obj[m] EXCEPT !.ready = FALSE, !.msg = TRUE, !.reason = TRUE]
    BY Zenon
  <2>2. o \in Objects /\ o.del = obj[m].del /\ o.id = obj[m].id
    BY <1>1, <2>1, Zenon DEF Objects
  <2>3. obj' = [obj EXCEPT ![m] = o]
    BY <1>7, <2>1, Zenon DEF Patched
  <2>. QED  BY <1>1, <1>2, <1>3, <1>7, <2>2, <2>3, DoneServes, Zenon
<1>8. CASE /\ Patched(m, [obj[m] EXCEPT !.id = ans[m].id, !.ready = TRUE, !.msg = FALSE, !.reason = FALSE])
           /\ Go(m, "spec") /\ UNCHANGED <<loc, ans, cid>>
  <2>1. PICK o : o = [obj[m] EXCEPT !.id = ans[m].id, !.ready = TRUE, !.msg = FALSE, !.reason = FALSE]
    BY Zenon
  <2>2. o \in Objects /\ o.del = obj[m].del /\ o.id = ans[m].id
    BY <1>1, <2>1, Zenon DEF Objects
  <2>3. obj' = [obj EXCEPT ![m] = o]
    BY <1>8, <2>1, Zenon DEF Patched
  <2>4. Moves(m, o, "spec", loc[m], ans[m])
    BY <1>1, <1>8, <2>3, Stays, Zenon DEF Moves, Go
  <2>5. Turn(m, o, "spec", loc[m], ans[m])
    BY <1>3, <2>2, Zenon DEF Turn
  <2>6. rows' \subseteq Cids /\ nextCid' \in Nat \ {0} /\ cid' \in [Reconcilers -> Nat]
    BY <1>1, <1>2, <1>8, Zenon DEF CapiType
  <2>. QED  BY <1>1, <1>2, <1>3, <2>2, <2>4, <2>5, <2>6, IdsAtHand, MoveServes, Zenon
<1>9. CASE CommitStatus(m)
  BY <1>4, <1>8, <1>9, Zenon DEF CommitStatus, PatchRefused, PatchLost, Fail
<1>10. CASE CommitSpec(m)
  BY <1>4, <1>6, <1>10, Zenon DEF CommitSpec, PatchRefused, PatchLost, Fail
<1>11. CASE RecordTerminal(m)
  BY <1>5, <1>7, <1>11, Zenon DEF RecordTerminal, PatchRefused, PatchLost
<1>. QED  BY <1>9, <1>10, <1>11, Zenon

-----------------------------------------------------------------------------
(* The tables *)

\* What becomes of a row that changes its state.
LEMMA RowRewritten ==
    ASSUME CapiType, NEW v, vms[v] # NoVm, NEW s \in VmStates, vms' = [vms EXCEPT ![v].st = s]
    PROVE  /\ vms' \in [Vids -> VmRows \cup {NoVm}]
           /\ \A w \in Vids : w # v => vms'[w] = vms[w]
           /\ v \in Vids => /\ vms'[v] # NoVm /\ vms'[v].name = vms[v].name
                            /\ vms'[v].c = vms[v].c /\ vms'[v].st = s
<1>1. CASE v \notin Vids
  <2>1. vms' = vms
    BY <1>1, Zenon DEF CapiType
  <2>. QED  BY <1>1, <2>1, Zenon DEF CapiType
<1>2. CASE v \in Vids
  <2>1. PICK x : x = [vms[v] EXCEPT !.st = s]
    BY Zenon
  <2>2. vms[v] \in VmRows
    BY <1>2, Zenon DEF CapiType
  <2>3. x \in VmRows /\ x.st = s /\ x.name = vms[v].name /\ x.c = vms[v].c
    BY <2>1, <2>2, Zenon DEF VmRows
  <2>4. vms' = [vms EXCEPT ![v] = x]
    BY <2>1, Zenon
  <2>5. /\ vms' \in [Vids -> VmRows \cup {NoVm}] /\ vms'[v] = x
        /\ \A w \in Vids : w # v => vms'[w] = vms[w]
    BY <1>2, <2>3, <2>4 DEF CapiType
  <2>6. x # NoVm
    <3>1. NoVm.st \notin VmStates
      BY Zenon DEF NoVm, VmStates
    <3>. QED  BY <2>3, <3>1, Zenon
  <2>. QED  BY <2>3, <2>5, <2>6, Zenon
<1>. QED  BY <1>1, <1>2, Zenon

\* A call of r is carried out or ends: r is at step p with the answer a.
LEMMA TableServes ==
    ASSUME Serving, NEW r \in Reconcilers, NEW p \in Steps, NEW a, a.id \in Nat,
           Moves(r, obj[r], p, loc[r], a), UNCHANGED <<seen, cid>>, Tables, Numbered',
           asked \subseteq asked', nextVid <= nextVid',
           \A m \in Machines \ {r} : calls'[m] = calls[m] /\ \A v \in Vids : Ages(m, v),
           r \in Machines => Serves(r)'
    PROVE  Serving'
<1>1. CapiType /\ obj[r] \in Objects /\ loc[r] \in Objects /\ \A m \in Machines : Serves(m)
  BY Stays, Zenon DEF Serving
<1>2. CapiType'
  <2>1. /\ obj' \in [Reconcilers -> Objects] /\ loc' \in [Reconcilers -> Objects]
        /\ pc' \in [Reconcilers -> Steps]
    BY <1>1, Zenon DEF CapiType, Moves
  <2>2. ans' = [q \in Reconcilers |-> ans'[q]] /\ \A q \in Reconcilers : ans'[q].id \in Nat
    BY <1>1, Zenon DEF CapiType, Moves
  <2>. QED  BY <1>1, <2>1, <2>2, Zenon DEF CapiType, Tables
<1>3. \A q \in Reconcilers \ {r} : /\ obj'[q] = obj[q] /\ pc'[q] = pc[q]
                                   /\ loc'[q] = loc[q] /\ ans'[q] = ans[q]
  BY <1>1, Zenon DEF CapiType, Moves
<1>4. nextVid' \in Nat
  BY DEF Tables
<1>5. ASSUME NEW m \in Machines PROVE Serves(m)'
  <2>1. CASE m # r
    <3>1. m \in Reconcilers \ {r} /\ m \in Machines \ {r}
      BY <2>1, Facts, Zenon
    <3>. QED  BY <1>1, <1>3, <1>4, <3>1, SteadyServes, Zenon
  <2>. QED  BY <1>5, <2>1, Zenon
<1>. QED  BY <1>2, <1>5, Zenon DEF Serving, Numbered

\* A step of no reconciler, on the tables.
LEMMA QuietServes ==
    ASSUME Serving, UNCHANGED <<obj, seen, loc, pc, ans, cid, calls, asked, nextVid, nextCid>>,
           rows' \subseteq Cids, vms' \in [Vids -> VmRows \cup {NoVm}], Numbered',
           \A m \in Machines, v \in Vids : Ages(m, v)
    PROVE  Serving'
<1>1. CapiType /\ \A m \in Machines : Serves(m)
  BY Zenon DEF Serving
<1>2. CapiType'
  BY <1>1, Zenon DEF CapiType
<1>3. nextVid' \in Nat /\ nextVid <= nextVid'
  BY <1>1 DEF CapiType
<1>4. \A m \in Machines : Serves(m)'
  BY <1>1, <1>3, SteadyServes, Zenon
<1>. QED  BY <1>2, <1>4, Zenon DEF Serving, Numbered

\* DeleteMachine tears down a row of its own machine, whose deletion is known
\* everywhere.
LEMMA DeleteMachineServes ==
    ASSUME Serving, NEW m \in Machines, Reaches(m), DeleteMachine(m, loc[m].id), loc[m].del
    PROVE  Serving'
<1>1. /\ CapiType /\ Serves(m) /\ Numbered /\ m \in Reconcilers /\ pc[m] = "rpc"
      /\ loc[m] \in Objects
  BY Facts, Stays, Zenon DEF Serving, Reaches, Numbered
<1>2. pc[m] \in Reading /\ pc[m] \notin {"wait", "idle"} /\ "wait" \notin Early /\ "wait" \in Steps
  BY <1>1, Zenon DEF Reading, Early, Steps
<1>3. Over(m) /\ calls[m] = 0 /\ IsOf(m, loc[m].id)
  BY <1>1, <1>2, Zenon DEF Serves, Finality, Waiting, OwnIds, Over
<1>4. PICK a : a = [code |-> "ok", id |-> loc[m].id, st |-> "gone"]
  BY Zenon
<1>5. a.id = loc[m].id /\ a.id \in Nat
  BY <1>1, <1>4, Zenon DEF Objects
<1>6. Moves(m, obj[m], "wait", loc[m], a) /\ UNCHANGED <<seen, cid>>
  BY <1>1, <1>4, Stays, Zenon DEF Moves, Go, Reaches, DeleteMachine, Answer, kubeVars
<1>7. UNCHANGED <<rows, asked, calls, nextCid, nextVid>>
  BY Zenon DEF DeleteMachine
<1>8. /\ vms' \in [Vids -> VmRows \cup {NoVm}]
      /\ \A v \in Vids :
            \/ vms'[v] = vms[v]
            \/ /\ v = loc[m].id /\ vms[v] # NoVm /\ vms'[v] # NoVm
               /\ vms'[v].name = vms[v].name /\ vms'[v].c = vms[v].c /\ vms'[v].st = "teardown"
  <2>1. CASE UNCHANGED vms
    BY <1>1, <2>1, Zenon DEF CapiType
  <2>2. CASE vms[loc[m].id] # NoVm /\ vms' = [vms EXCEPT ![loc[m].id].st = "teardown"]
    <3>1. "teardown" \in VmStates
      BY Zenon DEF VmStates
    <3>. QED  BY <1>1, <2>2, <3>1, RowRewritten, ZenonT(60)
  <2>. QED  BY <2>1, <2>2, Zenon DEF DeleteMachine
<1>9. Tables /\ Numbered'
  BY <1>1, <1>7, <1>8, Zenon DEF Tables, CapiType, Numbered
<1>10. ASSUME NEW q \in Machines \ {m} PROVE calls'[q] = calls[q] /\ \A v \in Vids : Ages(q, v)
  BY <1>3, <1>7, <1>8, <1>10, Zenon DEF Ages, IsOf
<1>11. Serves(m)'
  <2>1. obj'[m] = obj[m] /\ pc'[m] = "wait" /\ loc'[m] = loc[m] /\ ans'[m] = a /\ calls'[m] = 0
    BY <1>1, <1>3, <1>6, <1>7, Zenon DEF CapiType, Moves
  <2>2. Finality(m)' /\ Waiting(m)' /\ Over(m)'
    BY <1>1, <1>2, <1>3, <1>6, <2>1, Zenon DEF Serves, Finality, Waiting, Over
  <2>3. ASSUME NEW i, IsOf(m, i) PROVE IsOf(m, i)'
    BY <1>7, <1>8, <2>3, Zenon DEF IsOf
  <2>4. OwnIds(m)'
    BY <1>1, <1>3, <1>5, <1>6, <2>1, <2>3, Zenon DEF Serves, OwnIds
  <2>5. RowsServe(m)'
    BY <1>1, <1>3, <1>7, <1>8, <2>1, <2>2, Zenon DEF Serves, RowsServe, RowServes
  <2>. QED  BY <2>2, <2>4, <2>5, Zenon DEF Serves
<1>12. asked \subseteq asked' /\ nextVid <= nextVid'
  BY <1>1, <1>7 DEF CapiType
<1>. QED  BY <1>1, <1>2, <1>5, <1>6, <1>9, <1>10, <1>11, <1>12, TableServes, Zenon

\* GetMachine answers with the VM the copy names, if at all.
LEMMA GetMachineServes ==
    ASSUME Serving, NEW m \in Machines, Reaches(m), GetMachine(m, loc[m].id)
    PROVE  Serving'
<1>1. /\ CapiType /\ m \in Reconcilers /\ pc[m] = "rpc" /\ loc[m].id \in Nat
  BY Facts, Stays, Zenon DEF Serving, Reaches, Objects
<1>2. PICK a : /\ ans' = [ans EXCEPT ![m] = a]
               /\ \/ a = [code |-> "notfound", id |-> 0, st |-> "gone"]
                  \/ a = [code |-> "ok", id |-> loc[m].id, st |-> vms[loc[m].id].st]
  BY Zenon DEF GetMachine, Answer
<1>3. a.id \in {0, loc[m].id} /\ 0 \in Nat
  BY <1>2
<1>4. /\ Go(m, "wait")
      /\ UNCHANGED <<obj, loc, seen, cid, asked, vms, calls, nextVid, rows, nextCid>>
  BY Zenon DEF GetMachine, Reaches, kubeVars
<1>5. rows' \subseteq Cids /\ nextCid' \in Nat \ {0}
  BY <1>1, <1>4, Zenon DEF CapiType
<1>. QED  BY <1>1, <1>2, <1>3, <1>4, <1>5, IdsAtHand, AnswerServes, Zenon

\* CreateMachine is called: its row is the machine's, or a new one is, which the
\* call waits for.
LEMMA BeginCreateServes ==
    ASSUME Serving, NEW m \in Machines, Reaches(m), BeginCreate(m, cid[m]), ~loc[m].del
    PROVE  Serving'
<1>1. /\ CapiType /\ Serves(m) /\ Numbered /\ m \in Reconcilers /\ pc[m] = "rpc"
  BY Facts, Zenon DEF Serving, Reaches, Numbered
<1>2. UNCHANGED <<rows, asked, nextCid, seen, cid, obj, loc>> /\ Go(m, "wait")
  BY Zenon DEF BeginCreate, Reaches, kubeVars
<1>3. /\ "wait" \in Steps /\ pc[m] \in Reading /\ pc[m] \in Early /\ pc[m] \notin {"wait", "idle"}
      /\ "wait" \notin Early
  BY <1>1, Zenon DEF Steps, Reading, Early
<1>4. ans[m] = NoAnswer /\ calls[m] = 0
  BY <1>1, <1>3, Zenon DEF Serves, Waiting
<1>5. CASE \E a : /\ a.id \in Nat /\ IsOf(m, a.id) /\ ans' = [ans EXCEPT ![m] = a]
                  /\ UNCHANGED <<vms, calls, nextVid>>
  <2>1. rows' \subseteq Cids /\ nextCid' \in Nat \ {0}
    BY <1>1, <1>2, Zenon DEF CapiType
  <2>. QED  BY <1>1, <1>2, <1>5, <2>1, AnswerServes, Zenon
<1>6. CASE /\ cid[m] \in rows /\ nextVid <= MaxVms
           /\ vms' = [vms EXCEPT ![nextVid] = [name |-> m, c |-> cid[m], st |-> "creating"]]
           /\ calls' = [calls EXCEPT ![m] = nextVid]
           /\ nextVid' = nextVid + 1
           /\ UNCHANGED ans
  <2>1. PICK x : x = [name |-> m, c |-> cid[m], st |-> "creating"]
    BY Zenon
  <2>2. cid[m] \in Cids /\ "creating" \in VmStates
    BY <1>1, <1>6, Zenon DEF CapiType, VmStates
  <2>3. x \in VmRows /\ x.name = m /\ x.st = "creating"
    BY <2>1, <2>2, Zenon DEF VmRows
  <2>4. /\ nextVid \in Vids /\ nextVid' \in Nat \ {0} /\ nextVid # 0 /\ nextVid <= nextVid'
        /\ ~(nextVid < nextVid) /\ nextVid < nextVid' /\ \A i \in Nat : i < nextVid => i < nextVid'
    BY <1>1, <1>6, ApiAssumption DEF CapiType, Vids
  <2>5. /\ vms' \in [Vids -> VmRows \cup {NoVm}] /\ vms'[nextVid] = x /\ vms[nextVid] = NoVm
        /\ \A v \in Vids : v # nextVid => vms'[v] = vms[v]
    BY <1>1, <1>6, <2>1, <2>3, <2>4, Zenon DEF CapiType, Numbered
  <2>6. /\ calls' \in [Machines -> {0} \cup Vids] /\ calls'[m] = nextVid
        /\ \A q \in Machines \ {m} : calls'[q] = calls[q]
    BY <1>1, <1>6, <2>4, Zenon DEF CapiType
  <2>7. Vids \subseteq Nat
    BY DEF Vids
  <2>8. Tables /\ Numbered'
    BY <1>1, <1>2, <2>4, <2>5, <2>6, <2>7, Zenon DEF Tables, CapiType, Numbered
  <2>9. Moves(m, obj[m], "wait", loc[m], ans[m]) /\ ans[m].id \in Nat
    BY <1>1, <1>2, <1>6, Stays, Zenon DEF Moves, Go
  <2>10. \A q \in Machines \ {m}, v \in Vids : Ages(q, v)
    BY <2>3, <2>5, Zenon DEF Ages
  <2>11. Serves(m)'
    <3>1. obj'[m] = obj[m] /\ pc'[m] = "wait" /\ loc'[m] = loc[m] /\ ans'[m] = NoAnswer
      BY <1>1, <1>2, <1>4, <1>6, Zenon DEF CapiType, Go
    <3>2. Finality(m)' /\ Waiting(m)' /\ (Over(m) => Over(m)')
      BY <1>1, <1>2, <1>3, <3>1, Zenon DEF Serves, Finality, Waiting, Over
    <3>3. ASSUME NEW i \in Nat, IsOf(m, i) PROVE IsOf(m, i)'
      BY <2>4, <2>5, <3>3, Zenon DEF IsOf
    <3>4. IsOf(m, calls[m])'
      BY <2>3, <2>4, <2>5, <2>6, Zenon DEF IsOf
    <3>5. obj[m].id \in Nat /\ seen[m].id \in Nat /\ loc[m].id \in Nat /\ NoAnswer.id \in Nat
      BY <1>1, Facts, Zenon DEF CapiType, Objects
    <3>6. OwnIds(m)'
      BY <1>1, <1>2, <1>4, <3>1, <3>3, <3>4, <3>5, Zenon DEF Serves, OwnIds
    <3>7. ASSUME NEW v \in Vids, vms'[v] # NoVm, vms'[v].name = m PROVE RowServes(m, v)'
      <4>1. CASE v = nextVid
        BY <2>3, <2>5, <2>6, <4>1, Zenon DEF RowServes
      <4>2. CASE v # nextVid
        <5>1. vms'[v] = vms[v] /\ RowServes(m, v)
          BY <1>1, <2>5, <3>7, <4>2, Zenon DEF Serves, RowsServe
        <5>2. v # 0
          BY Facts, Zenon
        <5>. QED  BY <1>2, <1>4, <3>2, <5>1, <5>2, Zenon DEF RowServes
      <4>. QED  BY <4>1, <4>2, Zenon
    <3>8. RowsServe(m)'
      BY <3>7, Zenon DEF RowsServe
    <3>. QED  BY <3>2, <3>6, <3>8, Zenon DEF Serves
  <2>12. asked \subseteq asked'
    BY <1>2, Zenon
  <2>. QED  BY <1>1, <1>2, <1>3, <2>4, <2>6, <2>8, <2>9, <2>10, <2>11, <2>12, TableServes, Zenon
<1>7. CASE Answer(m, "notfound", 0, "gone") /\ UNCHANGED <<vms, calls, nextVid>>
  <2>1. PICK a : a = [code |-> "notfound", id |-> 0, st |-> "gone"]
    BY Zenon
  <2>2. a.id \in Nat /\ a.id = 0
    BY <2>1, Zenon
  <2>. QED  BY <1>5, <1>7, <2>1, <2>2, IdsAtHand, Zenon DEF Answer
<1>8. CASE Answer(m, "error", 0, "gone") /\ UNCHANGED <<vms, calls, nextVid>>
  <2>1. PICK a : a = [code |-> "error", id |-> 0, st |-> "gone"]
    BY Zenon
  <2>2. a.id \in Nat /\ a.id = 0
    BY <2>1, Zenon
  <2>. QED  BY <1>5, <1>8, <2>1, <2>2, IdsAtHand, Zenon DEF Answer
<1>9. ASSUME NEW v \in Named(m, cid[m]), cid[m] \in rows, Answer(m, "ok", v, vms[v].st),
             UNCHANGED <<vms, calls, nextVid>>
      PROVE  Serving'
  <2>1. PICK a : a = [code |-> "ok", id |-> v, st |-> vms[v].st]
    BY Zenon
  <2>2. v \in Vids /\ vms[v].name = m /\ vms[v].c \in Cids
    BY <1>1, <1>9, Zenon DEF Named, CapiType
  <2>3. NoVm.c \notin Cids
    BY DEF NoVm, Cids
  <2>4. v < nextVid
    BY <1>1, <2>2, <2>3, Zenon DEF Numbered
  <2>5. a.id \in Nat /\ IsOf(m, a.id)
    BY <2>1, <2>2, <2>4, Facts, Zenon DEF IsOf
  <2>. QED  BY <1>5, <1>9, <2>1, <2>5, Zenon DEF Answer
<1>. QED  BY <1>6, <1>7, <1>8, <1>9, Zenon DEF BeginCreate

\* A call to a machine's VM reaches the controller.
LEMMA CallMachineServes ==
    ASSUME Serving, NEW m \in Machines, CallMachine(m) PROVE Serving'
BY DeleteMachineServes, GetMachineServes, BeginCreateServes, Zenon DEF CallMachine

\* Any step of a machine's reconciler.
LEMMA MachineStepServes ==
    ASSUME Serving, NEW m \in Machines, MachineStep(m) PROVE Serving'
BY MachineGoesServes, CallMachineServes, MachineAnsweredServes, MachinePatchesServe, Zenon
   DEF MachineStep

-----------------------------------------------------------------------------
(* The cluster's reconciler, and what happens without one *)

\* The cluster's reconciler moves on; the machines do not.
LEMMA ClusterMovesServe ==
    ASSUME Serving, NEW p \in Steps, Go(Cluster, p), NEW o \in Objects,
           obj' = [obj EXCEPT ![Cluster] = o],
           UNCHANGED <<loc, ans, cid, rows, asked, vms, calls, nextCid, nextVid, seen>>
    PROVE  Serving'
<1>1. CapiType /\ Cluster \in Reconcilers /\ Cluster \notin Machines
  BY Facts, ApiAssumption, Zenon DEF Serving
<1>2. Moves(Cluster, o, p, loc[Cluster], ans[Cluster])
  BY <1>1, Stays, Zenon DEF Moves, Go
<1>3. rows' \subseteq Cids /\ nextCid' \in Nat \ {0} /\ cid' \in [Reconcilers -> Nat]
  BY <1>1, Zenon DEF CapiType
<1>. QED  BY <1>1, <1>2, <1>3, Stays, MoveServes, Zenon

\* The steps of the cluster's reconciler between and after its calls.
LEMMA ClusterGoesServe ==
    ASSUME Serving, ClusterAnswered \/ WriteEndpoint \/ WriteStatus PROVE Serving'
<1>1. /\ CapiType /\ Cluster \in Reconcilers /\ obj[Cluster] \in Objects /\ ans[Cluster].id \in Nat
  BY Facts, Stays, Zenon DEF Serving
<1>2. UNCHANGED <<loc, ans, cid, rows, asked, vms, calls, nextCid, nextVid, seen>>
  BY Zenon DEF ClusterAnswered, WriteEndpoint, WriteStatus, apiVars, kubeVars
<1>3. PICK p \in {"lift", "spec", "status", "crds", "failed"} : Go(Cluster, p)
  BY Zenon DEF ClusterAnswered, WriteEndpoint, WriteStatus, Fail
<1>4. p \in Steps
  BY Zenon DEF Steps
<1>5. ASSUME NEW n \in Vips PROVE [obj[Cluster] EXCEPT !.spec = n] \in Objects
  <2>1. PICK o : o = [obj[Cluster] EXCEPT !.spec = n]
    BY Zenon
  <2>. QED  BY <1>1, <2>1, Facts, Zenon DEF Objects
<1>6. PICK q : q = [obj[Cluster] EXCEPT !.id = ans[Cluster].id, !.ready = TRUE, !.msg = FALSE]
  BY Zenon
<1>7. q \in Objects
  BY <1>1, <1>6, Zenon DEF Objects
<1>8. \E o \in Objects : obj' = [obj EXCEPT ![Cluster] = o]
  <2>1. CASE WriteEndpoint
    BY <1>1, <1>5, <2>1, Stays, Zenon DEF WriteEndpoint, Patched, PatchRefused, PatchLost
  <2>2. CASE WriteStatus
    BY <1>1, <1>6, <1>7, <2>2, Stays, Zenon DEF WriteStatus, Patched, PatchRefused, PatchLost
  <2>3. CASE ClusterAnswered
    BY <1>1, <2>3, Stays, Zenon DEF ClusterAnswered, kubeVars
  <2>. QED  BY <2>1, <2>2, <2>3, Zenon
<1>. QED  BY <1>1, <1>2, <1>3, <1>4, <1>8, ClusterMovesServe, Zenon

\* The BGP objects are applied, or a failure is recorded.
LEMMA ClusterEndsServe ==
    ASSUME Serving, ApplyCrds \/ ClusterFailed PROVE Serving'
<1>1. /\ CapiType /\ Cluster \in Reconcilers /\ Cluster \notin Machines /\ obj[Cluster] \in Objects
  BY Facts, ApiAssumption, Stays, Zenon DEF Serving
<1>2. UNCHANGED <<rows, asked, vms, calls, nextCid, nextVid, seen>>
  BY Zenon DEF ApplyCrds, ClusterFailed
<1>3. PICK o \in Objects : obj' = [obj EXCEPT ![Cluster] = o]
  BY <1>1, RecordServes, Zenon DEF ApplyCrds, ClusterFailed
<1>4. CASE \E again : Done(Cluster, again)
  BY <1>1, <1>2, <1>3, <1>4, DoneServes, Zenon
<1>5. CASE Go(Cluster, "failed") /\ UNCHANGED <<ans, loc, cid>>
  <2>1. "failed" \in Steps
    BY Zenon DEF Steps
  <2>. QED  BY <1>2, <1>3, <1>5, <2>1, ClusterMovesServe, Zenon
<1>. QED  BY <1>4, <1>5, Zenon DEF ApplyCrds, ClusterFailed, Fail

\* CreateCluster, or DeleteCluster of a row that is not there.
LEMMA ClusterAsksServe ==
    ASSUME Serving, Reaches(Cluster), NEW a, a.id \in Nat, ans' = [ans EXCEPT ![Cluster] = a],
           UNCHANGED <<asked, vms, calls, nextVid>>, rows' \subseteq Cids, nextCid' \in Nat \ {0}
    PROVE  Serving'
<1>1. Cluster \in Reconcilers /\ Cluster \notin Machines
  BY Facts, ApiAssumption, Zenon
<1>2. pc[Cluster] = "rpc" /\ Go(Cluster, "wait") /\ UNCHANGED <<obj, loc, seen, cid>>
  BY Zenon DEF Reaches, kubeVars
<1>. QED  BY <1>1, <1>2, AnswerServes, Zenon

\* CreateCluster finds the row of the name or makes it.
LEMMA CreateClusterServes ==
    ASSUME Serving, Reaches(Cluster), CreateCluster(Cluster) PROVE Serving'
<1>1. CapiType /\ UNCHANGED <<asked, vms, calls, nextVid>>
  BY Zenon DEF Serving, CreateCluster
<1>2. CASE \E c \in rows : Answer(Cluster, "ok", c, "gone") /\ UNCHANGED <<rows, nextCid>>
  <2>1. PICK c \in rows : Answer(Cluster, "ok", c, "gone") /\ UNCHANGED <<rows, nextCid>>
    BY <1>2, Zenon
  <2>2. PICK a : a = [code |-> "ok", id |-> c, st |-> "gone"]
    BY Zenon
  <2>3. c \in Nat /\ rows' \subseteq Cids /\ nextCid' \in Nat \ {0}
    BY <1>1, <2>1, Facts, Zenon DEF CapiType
  <2>4. a.id \in Nat
    BY <2>2, <2>3, Zenon
  <2>. QED  BY <1>1, <2>1, <2>2, <2>3, <2>4, ClusterAsksServe, Zenon DEF Answer
<1>3. CASE /\ nextCid <= MaxClusters /\ rows' = {nextCid} /\ nextCid' = nextCid + 1
           /\ Answer(Cluster, "ok", nextCid, "gone")
  <2>1. PICK a : a = [code |-> "ok", id |-> nextCid, st |-> "gone"]
    BY Zenon
  <2>2. nextCid \in Nat /\ rows' \subseteq Cids /\ nextCid' \in Nat \ {0}
    BY <1>1, <1>3, ApiAssumption DEF CapiType, Cids
  <2>3. a.id \in Nat
    BY <2>1, <2>2, Zenon
  <2>. QED  BY <1>1, <1>3, <2>1, <2>2, <2>3, ClusterAsksServe, Zenon DEF Answer
<1>4. CASE Answer(Cluster, "error", 0, "gone") /\ UNCHANGED <<rows, nextCid>>
  <2>1. PICK a : a = [code |-> "error", id |-> 0, st |-> "gone"]
    BY Zenon
  <2>2. a.id \in Nat /\ rows' \subseteq Cids /\ nextCid' \in Nat \ {0}
    BY <1>1, <1>4, <2>1, Zenon DEF CapiType
  <2>. QED  BY <1>1, <1>4, <2>1, <2>2, ClusterAsksServe, Zenon DEF Answer
<1>. QED  BY <1>2, <1>3, <1>4, Zenon DEF CreateCluster

\* DeleteCluster tears down the rows of a cluster it was asked for.
LEMMA DeleteClusterServes ==
    ASSUME Serving, Reaches(Cluster), DeleteCluster(Cluster, loc[Cluster].id) PROVE Serving'
<1>1. /\ CapiType /\ Numbered /\ Cluster \in Reconcilers /\ Cluster \notin Machines
      /\ loc[Cluster].id \in Nat
  BY Facts, ApiAssumption, Stays, Zenon DEF Serving, Numbered, Objects
<1>2. PICK a : a = [code |-> "ok", id |-> loc[Cluster].id, st |-> "gone"]
  BY Zenon
<1>3. a.id \in Nat /\ ans' = [ans EXCEPT ![Cluster] = a] /\ UNCHANGED <<rows, calls, nextCid, nextVid>>
  BY <1>1, <1>2, Zenon DEF DeleteCluster, Answer
<1>4. rows' \subseteq Cids /\ nextCid' \in Nat \ {0}
  BY <1>1, <1>3, Zenon DEF CapiType
<1>5. CASE UNCHANGED <<vms, asked>>
  BY <1>3, <1>4, <1>5, ClusterAsksServe, Zenon
<1>6. ASSUME NEW c \in rows, asked' = asked \cup {c},
             vms' = [v \in Vids |-> IF vms[v].c = c THEN [vms[v] EXCEPT !.st = "teardown"] ELSE vms[v]]
      PROVE  Serving'
  <2>1. ASSUME NEW v \in Vids
        PROVE  \/ vms'[v] = vms[v]
               \/ /\ vms[v] # NoVm /\ vms'[v] \in VmRows /\ vms'[v].name = vms[v].name
                  /\ vms'[v].c = vms[v].c /\ vms[v].c = c /\ vms'[v].st = "teardown"
    <3>1. CASE vms[v].c # c
      BY <1>6, <2>1, <3>1, Zenon
    <3>2. CASE vms[v].c = c
      <4>1. PICK x : x = [vms[v] EXCEPT !.st = "teardown"]
        BY Zenon
      <4>2. c \in Cids /\ NoVm.c \notin Cids /\ "teardown" \in VmStates
        BY <1>1, <1>6 DEF CapiType, NoVm, Cids, VmStates
      <4>3. vms[v] # NoVm /\ vms[v] \in VmRows
        BY <1>1, <2>1, <3>2, <4>2, Zenon DEF CapiType
      <4>4. x \in VmRows /\ x.name = vms[v].name /\ x.c = vms[v].c /\ x.st = "teardown"
        BY <4>1, <4>2, <4>3, Zenon DEF VmRows
      <4>5. vms'[v] = x
        BY <1>6, <2>1, <3>2, <4>1, Zenon
      <4>. QED  BY <3>2, <4>3, <4>4, <4>5, Zenon
    <3>. QED  BY <3>1, <3>2, Zenon
  <2>2. vms' \in [Vids -> VmRows \cup {NoVm}]
    <3>1. vms' = [v \in Vids |-> vms'[v]]
      BY <1>6, Zenon
    <3>2. \A v \in Vids : vms'[v] \in VmRows \cup {NoVm}
      BY <1>1, <2>1, Zenon DEF CapiType
    <3>. QED  BY <3>1, <3>2, Zenon
  <2>3. Tables /\ Numbered'
    BY <1>1, <1>3, <1>4, <2>1, <2>2, Zenon DEF Tables, CapiType, Numbered
  <2>4. c \in asked' /\ asked \subseteq asked'
    BY <1>6, Zenon
  <2>5. \A m \in Machines, v \in Vids : Ages(m, v)
    BY <2>1, <2>4, Zenon DEF Ages
  <2>6. Moves(Cluster, obj[Cluster], "wait", loc[Cluster], a) /\ UNCHANGED <<seen, cid>>
    BY <1>1, <1>3, Stays, Zenon DEF Moves, Go, Reaches, kubeVars
  <2>7. "wait" \in Steps /\ nextVid <= nextVid'
    BY <1>1, <1>3 DEF Steps, CapiType
  <2>. QED  BY <1>1, <1>3, <2>3, <2>4, <2>5, <2>6, <2>7, TableServes, Zenon
<1>. QED  BY <1>5, <1>6, Zenon DEF DeleteCluster

\* Any step of the cluster's reconciler.
LEMMA ClusterStepServes == ASSUME Serving, ClusterStep PROVE Serving'
BY ClusterGoesServe, ClusterEndsServe, CreateClusterServes, DeleteClusterServes, Zenon
   DEF ClusterStep, CallCluster

\* The object of r or the watch's copy of it changes: the deletion of either stays.
LEMMA LookServes ==
    ASSUME Serving, NEW r \in Reconcilers, NEW o \in Objects, NEW s \in Objects,
           obj' = [obj EXCEPT ![r] = o], seen' = [seen EXCEPT ![r] = s],
           UNCHANGED <<rows, vms, calls, ans, nextCid, nextVid, asked, pc, loc, cid>>,
           obj[r].del => o.del, obj[r].del /\ seen[r].del => s.del,
           s # NoObj /\ s.del => o.del,
           o.id \in {0, obj[r].id}, s.id \in {seen[r].id, obj[r].id}
    PROVE  Serving'
<1>1. CapiType /\ Numbered /\ \A m \in Machines : Serves(m)
  BY Zenon DEF Serving, Numbered
<1>2. CapiType' /\ Numbered'
  BY <1>1, Zenon DEF CapiType, Numbered
<1>3. /\ obj'[r] = o /\ seen'[r] = s
      /\ \A q \in Reconcilers \ {r} : obj'[q] = obj[q] /\ seen'[q] = seen[q]
  BY <1>1, Zenon DEF CapiType
<1>4. \A m \in Machines, v \in Vids : Ages(m, v)
  BY Zenon DEF Ages
<1>5. nextVid' \in Nat /\ nextVid <= nextVid'
  BY <1>1 DEF CapiType
<1>6. ASSUME NEW m \in Machines PROVE Serves(m)'
  <2>1. CASE m # r
    <3>1. m \in Reconcilers \ {r}
      BY <2>1, Facts, Zenon
    <3>. QED  BY <1>1, <1>3, <1>4, <1>5, <3>1, SteadyServes, Zenon
  <2>2. CASE m = r
    <3>1. Serves(m)
      BY <1>1, Zenon
    <3>2. Finality(m)' /\ Waiting(m)' /\ (Over(m) => Over(m)')
      BY <1>3, <2>2, <3>1, Zenon DEF Serves, Finality, Waiting, Over
    <3>3. \A i : IsOf(m, i)' = IsOf(m, i)
      BY Zenon DEF IsOf
    <3>4. IsOf(m, o.id) /\ IsOf(m, s.id)
      BY <2>2, IdsAtHand, Zenon
    <3>5. OwnIds(m)'
      <4>1. obj'[m] = o /\ seen'[m] = s /\ loc'[m] = loc[m] /\ ans'[m] = ans[m] /\ calls'[m] = calls[m]
        BY <1>3, <2>2, Zenon
      <4>. QED  BY <3>1, <3>3, <3>4, <4>1, Zenon DEF Serves, OwnIds
    <3>6. RowsServe(m)'
      BY <3>1, <3>2, Zenon DEF Serves, RowsServe, RowServes
    <3>. QED  BY <3>2, <3>5, <3>6, Zenon DEF Serves
  <2>. QED  BY <2>1, <2>2, Zenon
<1>. QED  BY <1>2, <1>6, Zenon DEF Serving, Numbered

\* The watch delivers the object.
LEMMA DeliverServes == ASSUME Serving, NEW r \in Reconcilers, Deliver(r) PROVE Serving'
<1>1. CapiType
  BY Zenon DEF Serving
<1>2. obj[r] \in Objects /\ obj' = [obj EXCEPT ![r] = obj[r]] /\ seen' = [seen EXCEPT ![r] = obj[r]]
  BY <1>1, Stays, Zenon DEF Deliver
<1>3. UNCHANGED <<rows, vms, calls, ans, nextCid, nextVid, asked, pc, loc, cid>>
  BY Zenon DEF Deliver, apiVars, runVars
<1>. QED  BY <1>2, <1>3, LookServes, Zenon

\* A user deletes an object.
LEMMA UserDeletesServes == ASSUME Serving, NEW r \in Reconcilers, UserDeletes(r) PROVE Serving'
<1>1. CapiType /\ obj[r] \in Objects /\ seen[r] \in Objects
  BY Stays, Zenon DEF Serving, CapiType
<1>2. PICK x : x = [obj[r] EXCEPT !.del = TRUE]
  BY Zenon
<1>3. x \in Objects /\ x.del /\ x.id = obj[r].id
  BY <1>1, <1>2, Zenon DEF Objects
<1>4. NoObj \in Objects /\ NoObj.del /\ NoObj.id = 0
  BY Facts, Zenon DEF NoObj
<1>5. PICK o \in Objects : obj' = [obj EXCEPT ![r] = o] /\ o.del /\ o.id \in {0, obj[r].id}
  <2>1. CASE obj[r].fin
    <3>1. obj' = [obj EXCEPT ![r] = x]
      BY <1>1, <1>2, <2>1, Zenon DEF UserDeletes, CapiType
    <3>. QED  BY <1>3, <3>1, Zenon
  <2>2. CASE ~obj[r].fin
    <3>1. obj' = [obj EXCEPT ![r] = NoObj]
      BY <1>1, <2>2, Zenon DEF UserDeletes, CapiType
    <3>. QED  BY <1>4, <3>1, Zenon
  <2>. QED  BY <2>1, <2>2, Zenon
<1>6. seen' = [seen EXCEPT ![r] = seen[r]]
  BY <1>1, Zenon DEF UserDeletes, CapiType
<1>7. UNCHANGED <<rows, vms, calls, ans, nextCid, nextVid, asked, pc, loc, cid>>
  BY Zenon DEF UserDeletes, apiVars, runVars
<1>. QED  BY <1>1, <1>5, <1>6, <1>7, LookServes, Zenon

\* The agent reports running what a call waits for.
LEMMA CreateRunsServes ==
    ASSUME Serving, NEW m \in Machines, CreateRuns(m), UNCHANGED provVars PROVE Serving'
<1>1. /\ CapiType /\ Serves(m) /\ Numbered /\ m \in Reconcilers
      /\ calls[m] # 0 /\ calls[m] \in Vids
  BY Facts, Zenon DEF Serving, CreateRuns, Numbered, CapiType
<1>2. /\ pc[m] = "wait" /\ ans[m] = NoAnswer /\ "wait" \notin Early /\ IsOf(m, calls[m])
      /\ calls[m] \in Nat
  BY <1>1, Facts, Zenon DEF Serves, Waiting, Early, OwnIds
<1>3. UNCHANGED <<obj, seen, pc, loc, cid, rows, asked, nextCid, nextVid>>
  BY Zenon DEF CreateRuns, provVars
<1>4. /\ calls' \in [Machines -> {0} \cup Vids] /\ calls'[m] = 0
      /\ \A q \in Machines \ {m} : calls'[q] = calls[q]
  BY <1>1, Zenon DEF CreateRuns, CapiType
<1>5. PICK s : s = IF vms[calls[m]].st = "teardown" THEN vms[calls[m]].st ELSE "running"
  BY Zenon
<1>6. /\ vms' \in [Vids -> VmRows \cup {NoVm}]
      /\ \A v \in Vids :
            \/ vms'[v] = vms[v] /\ (v = calls[m] => vms[v] = NoVm \/ vms[v].st = "teardown")
            \/ /\ v = calls[m] /\ vms[v] # NoVm /\ vms'[v] # NoVm
               /\ vms'[v].name = vms[v].name /\ vms'[v].c = vms[v].c /\ vms'[v].st = "running"
  <2>1. CASE vms[calls[m]] = NoVm
    BY <1>1, <2>1, Zenon DEF CreateRuns, CapiType
  <2>2. CASE vms[calls[m]] # NoVm
    <3>1. s \in VmStates
      BY <1>5, Zenon DEF VmStates
    <3>2. vms' = [vms EXCEPT ![calls[m]].st = s]
      <4>1. vms' = [vms EXCEPT ![calls[m]].st = IF @ = "teardown" THEN @ ELSE "running"]
        BY <2>2, Zenon DEF CreateRuns
      <4>. QED  BY <1>1, <1>5, <4>1, Zenon DEF CapiType
    <3>3. CASE vms[calls[m]].st # "teardown"
      BY <1>1, <1>5, <2>2, <3>1, <3>2, <3>3, RowRewritten, Zenon
    <3>4. CASE vms[calls[m]].st = "teardown"
      <4>1. vms[calls[m]] \in VmRows
        BY <1>1, <2>2, Zenon DEF CapiType
      <4>2. [vms[calls[m]] EXCEPT !.st = "teardown"] = vms[calls[m]]
        BY <3>4, <4>1 DEF VmRows
      <4>3. vms' = vms
        BY <1>1, <1>5, <3>2, <3>4, <4>2, Zenon DEF CapiType
      <4>. QED  BY <1>1, <3>4, <4>3, Zenon DEF CapiType
    <3>. QED  BY <3>3, <3>4, Zenon
  <2>. QED  BY <2>1, <2>2, Zenon
<1>7. PICK a : /\ ans' = [ans EXCEPT ![m] = a]
               /\ \/ a = [code |-> "notfound", id |-> 0, st |-> "gone"]
                  \/ a = [code |-> "ok", id |-> calls[m], st |-> vms'[calls[m]].st]
  BY Zenon DEF CreateRuns, Answer
<1>8. a.id \in {0, calls[m]} /\ a.id \in Nat
  BY <1>2, <1>7
<1>9. Moves(m, obj[m], "wait", loc[m], a)
  BY <1>1, <1>2, <1>3, <1>7, Stays, Zenon DEF Moves
<1>10. Tables /\ Numbered'
  BY <1>1, <1>3, <1>4, <1>6, Zenon DEF Tables, CapiType, Numbered
<1>11. \A q \in Machines \ {m}, v \in Vids : Ages(q, v)
  BY <1>6, Zenon DEF Ages
<1>12. Serves(m)'
  <2>1. ans'[m] = a
    BY <1>1, <1>7, Zenon DEF CapiType
  <2>2. Finality(m)' /\ Waiting(m)' /\ (Over(m) => Over(m)')
    BY <1>1, <1>2, <1>3, <1>4, Zenon DEF Serves, Finality, Waiting, Over
  <2>3. ASSUME NEW i, IsOf(m, i) PROVE IsOf(m, i)'
    BY <1>3, <1>6, <2>3, Zenon DEF IsOf
  <2>4. IsOf(m, 0) /\ IsOf(m, a.id)
    BY <1>2, <1>8, IdsAtHand, Zenon
  <2>5. OwnIds(m)'
    BY <1>1, <1>3, <1>4, <2>1, <2>3, <2>4, Zenon DEF Serves, OwnIds
  <2>6. RowsServe(m)'
    BY <1>1, <1>3, <1>6, <2>2, Zenon DEF Serves, RowsServe, RowServes
  <2>. QED  BY <2>2, <2>5, <2>6, Zenon DEF Serves
<1>13. asked \subseteq asked' /\ nextVid <= nextVid' /\ "wait" \in Steps
  BY <1>1, <1>3 DEF CapiType, Steps
<1>. QED  BY <1>1, <1>3, <1>4, <1>8, <1>9, <1>10, <1>11, <1>12, <1>13, TableServes, Zenon

\* Reports and acknowledgements of the agents.
LEMMA AgentsServe ==
    ASSUME Serving, UNCHANGED provVars,
           \/ \E v \in Vids : VmReportedRunning(v) \/ VmAcked(v)
           \/ \E c \in Cids : ClusterAcked(c)
    PROVE  Serving'
<1>1. CapiType /\ Numbered
  BY Zenon DEF Serving, Numbered
<1>2. UNCHANGED <<obj, seen, loc, pc, ans, cid, calls, asked, nextVid, nextCid>>
  BY Zenon DEF provVars, VmReportedRunning, VmAcked, ClusterAcked
<1>3. rows' \subseteq Cids
  BY <1>1, Zenon DEF VmReportedRunning, VmAcked, ClusterAcked, CapiType
<1>4. CASE UNCHANGED vms
  <2>1. vms' \in [Vids -> VmRows \cup {NoVm}] /\ Numbered' /\ \A m \in Machines, v \in Vids : Ages(m, v)
    BY <1>1, <1>2, <1>4, Zenon DEF CapiType, Numbered, Ages
  <2>. QED  BY <1>2, <1>3, <2>1, QuietServes, Zenon
<1>5. ASSUME NEW v \in Vids, VmReportedRunning(v) PROVE Serving'
  <2>0. NoVm.st \notin VmStates /\ {"creating", "failed", "running"} \subseteq VmStates
    BY Zenon DEF NoVm, VmStates
  <2>1. vms[v] # NoVm /\ "running" \in VmStates /\ vms' = [vms EXCEPT ![v].st = "running"]
    BY <1>5, <2>0, Zenon DEF VmReportedRunning
  <2>2. /\ vms' \in [Vids -> VmRows \cup {NoVm}] /\ \A w \in Vids : w # v => vms'[w] = vms[w]
        /\ vms'[v] # NoVm /\ vms'[v].name = vms[v].name
        /\ vms'[v].c = vms[v].c /\ vms'[v].st = "running"
    BY <1>1, <2>1, RowRewritten, Zenon
  <2>3. Numbered' /\ \A m \in Machines, w \in Vids : Ages(m, w)
    BY <1>1, <1>2, <2>1, <2>2, Zenon DEF Numbered, Ages
  <2>. QED  BY <1>2, <1>3, <2>2, <2>3, QuietServes, Zenon
<1>6. ASSUME NEW v \in Vids, VmAcked(v) PROVE Serving'
  <2>1. /\ vms' \in [Vids -> VmRows \cup {NoVm}]
        /\ \A w \in Vids : vms'[w] = vms[w] \/ vms'[w] = NoVm
    BY <1>1, <1>6, Zenon DEF VmAcked, CapiType
  <2>2. Numbered' /\ \A m \in Machines, w \in Vids : Ages(m, w)
    BY <1>1, <1>2, <2>1, Zenon DEF Numbered, Ages
  <2>. QED  BY <1>2, <1>3, <2>1, <2>2, QuietServes, Zenon
<1>. QED  BY <1>4, <1>5, <1>6, Zenon DEF ClusterAcked

\* The variables the argument is about.
servingVars == <<obj, seen, loc, pc, ans, cid, calls, asked, nextVid, nextCid, rows, vms>>

\* A step that concerns none of them.
LEMMA IdleServes == ASSUME Serving, UNCHANGED servingVars PROVE Serving'
<1>1. UNCHANGED <<obj, seen, loc, pc, ans, cid, calls, asked, nextVid, nextCid, rows, vms>>
  BY Zenon DEF servingVars
<1>2. /\ rows' \subseteq Cids /\ vms' \in [Vids -> VmRows \cup {NoVm}] /\ Numbered'
      /\ \A m \in Machines, v \in Vids : Ages(m, v)
  BY <1>1, Zenon DEF Serving, CapiType, Numbered, Ages
<1>. QED  BY <1>1, <1>2, QuietServes, Zenon

\* What a step that the claim excepts leaves behind.
LEMMA Excuses ==
    ASSUME \/ Restart
           \/ \E m \in Machines : CreateFails(m) \/ CreateTimesOut(m) \/ CreateCut(m)
           \/ \E r \in Reconcilers : AnswerLost(r) \/ UserRecreates(r)
           \/ \E v \in Vids : VmDies(v)
           \/ \E S : HostGivenUp(S)
    PROVE  Excused'
<1>1. \E k \in {"lost", "busy", "died", "host", "restart", "remade"} : Fault(k)
  BY Zenon DEF Restart, CreateFails, CreateTimesOut, CreateCut, AnswerLost, UserRecreates, VmDies,
               HostGivenUp
<1>. QED  BY <1>1, Zenon DEF Fault, Excused

\* Every step keeps the claim, unless it is one that is excepted.
LEMMA ServingNext == ASSUME Serving, [Next]_vars, ~Excused' PROVE Serving'
<1>1. CASE \E r \in Reconcilers : SharedStep(r) \/ Deliver(r) \/ AnswerLost(r)
  BY <1>1, SharedServes, DeliverServes, Excuses, Zenon
<1>2. CASE \E m \in Machines : MachineStep(m)
  BY <1>2, MachineStepServes, Zenon
<1>3. CASE ClusterStep
  BY <1>3, ClusterStepServes, Zenon
<1>4. CASE \E m \in Machines : EndCall(m) /\ UNCHANGED provVars
  BY <1>4, CreateRunsServes, Excuses, Zenon DEF EndCall
<1>5. CASE (ByItself \/ Acks) /\ UNCHANGED provVars
  <2>1. CASE OtherCluster
    <3>1. UNCHANGED servingVars
      BY <1>5, <2>1, Zenon DEF OtherCluster, servingVars, provVars
    <3>. QED  BY <3>1, IdleServes, Zenon
  <2>. QED  BY <1>5, <2>1, AgentsServe, Excuses, Zenon DEF ByItself, Acks
<1>6. CASE Others
  <2>1. CASE User
    BY <2>1, UserDeletesServes, Excuses, Zenon DEF User
  <2>2. CASE StartUp \/ Rotate \/ UpdateSecret
    <3>1. UNCHANGED servingVars
      BY <2>2, Zenon DEF StartUp, WaitForCrds, ReadTrustDomain, Rotate, UpdateSecret, servingVars,
                         apiVars, kubeVars, runVars
    <3>. QED  BY <3>1, IdleServes, Zenon
  <2>. QED  BY <1>6, <2>1, <2>2, Excuses, Zenon DEF Others
<1>7. CASE KubeconfigWritten
  <2>1. UNCHANGED servingVars
    BY <1>7, Zenon DEF KubeconfigWritten, servingVars, apiVars, provVars
  <2>. QED  BY <2>1, IdleServes, Zenon
<1>8. CASE Finished \/ UNCHANGED vars
  <2>1. UNCHANGED servingVars
    BY <1>8, Zenon DEF Finished, vars, servingVars, apiVars, provVars
  <2>. QED  BY <2>1, IdleServes, Zenon
<1>. QED  BY <1>1, <1>2, <1>3, <1>4, <1>5, <1>6, <1>7, <1>8, Zenon DEF Next

\* What was excepted once is so for good.
LEMMA ExcusedNext == ASSUME Excused, [Next]_vars PROVE Excused'
<1>1. happened \subseteq happened'
  BY Remembers, Zenon DEF vars, apiVars
<1>. QED  BY <1>1, Zenon DEF Excused

\* Nothing is created at first.
LEMMA ServingInit == ASSUME Init PROVE Serving
<1>. USE DEF Init, ApiInit, ProvInit
<1>1. CapiType
  <2>1. "idle" \in Steps /\ 0 \in Nat
    BY DEF Steps
  <2>2. /\ obj \in [Reconcilers -> Objects] /\ seen \in [Reconcilers -> Objects]
        /\ loc \in [Reconcilers -> Objects] /\ pc \in [Reconcilers -> Steps]
        /\ cid \in [Reconcilers -> Nat]
    BY <2>1, Facts, Zenon
  <2>3. ans = [r \in Reconcilers |-> ans[r]] /\ \A r \in Reconcilers : ans[r].id \in Nat
    BY Facts, Zenon
  <2>4. /\ vms \in [Vids -> VmRows \cup {NoVm}] /\ calls \in [Machines -> {0} \cup Vids]
        /\ rows \subseteq Cids
    BY Zenon
  <2>5. nextCid \in Nat \ {0} /\ nextVid \in Nat \ {0}
    OBVIOUS
  <2>. QED  BY <2>2, <2>3, <2>4, <2>5, Zenon DEF CapiType
<1>2. \A v \in Vids : vms[v] = NoVm
  BY Zenon
<1>3. ASSUME NEW m \in Machines PROVE Serves(m)
  <2>1. m \in Reconcilers /\ NoObj.id = 0 /\ NewObj.id = 0 /\ NoAnswer.id = 0 /\ 0 < nextVid
    BY Facts DEF NoAnswer
  <2>2. /\ seen[m] = NoObj /\ pc[m] = "idle" /\ ans[m] = NoAnswer /\ calls[m] = 0
        /\ obj[m] = NewObj /\ loc[m] = NoObj
    BY <2>1, Zenon
  <2>3. Finality(m) /\ Waiting(m)
    BY <2>2, Zenon DEF Finality, Waiting, Reading
  <2>4. IsOf(m, 0)
    BY <1>2, <2>1, Zenon DEF IsOf
  <2>5. OwnIds(m)
    BY <2>1, <2>2, <2>4, Zenon DEF OwnIds
  <2>. QED  BY <1>2, <2>3, <2>5, Zenon DEF Serves, RowsServe
<1>. QED  BY <1>1, <1>2, <1>3, Zenon DEF Serving, Numbered

-----------------------------------------------------------------------------
(* The answer *)

\* Machine m does not learn of a success in this step.
Mute(m) == ans'[m] = ans[m] \/ ans'[m].code # "ok"

\* It is another reconciler that is answered, or it is a failure.
LEMMA OtherAnswer ==
    ASSUME CapiType, NEW m \in Machines, NEW r, NEW a, ans' = [ans EXCEPT ![r] = a],
           r # m \/ a.code # "ok"
    PROVE  Mute(m)
<1>1. m \in Reconcilers
  BY Facts, Zenon
<1>2. ans'[m] = ans[m] \/ (ans'[m] = a /\ r = m)
  BY <1>1, Zenon DEF CapiType
<1>. QED  BY <1>2, Zenon DEF Mute

\* An RPC answers its caller.
LEMMA AnswerTo ==
    ASSUME CapiType, NEW m \in Machines, NEW r, NEW c, NEW i, NEW s, Answer(r, c, i, s),
           r # m \/ c # "ok"
    PROVE  Mute(m)
<1>1. PICK a : a = [code |-> c, id |-> i, st |-> s]
  BY Zenon
<1>2. a.code = c
  BY <1>1, Zenon
<1>. QED  BY <1>1, <1>2, OtherAnswer, Zenon DEF Answer

\* The end of a reconcile answers nobody.
LEMMA DoneMute == ASSUME CapiType, NEW m \in Machines, NEW r, NEW again, Done(r, again) PROVE Mute(m)
<1>1. NoAnswer.code # "ok"
  BY Zenon DEF NoAnswer
<1>. QED  BY <1>1, OtherAnswer, Zenon DEF Done

\* Only its own calls tell a machine of a success.
LEMMA WhoAnswers ==
    ASSUME CapiType, [Next]_vars, NEW m \in Machines, ~Mute(m) PROVE CallMachine(m) \/ CreateRuns(m)
<1>. DEFINE Same == ans' = ans
<1>1. Same => Mute(m)
  BY Zenon DEF Mute
<1>2. ASSUME NEW r \in Reconcilers, SharedStep(r) \/ Deliver(r) \/ AnswerLost(r) PROVE Mute(m)
  <2>1. CASE Reconcile(r) \/ CacheGet(r) \/ CacheError(r) \/ CacheInsert(r) \/ Refused(r)
             \/ CallFailed(r) \/ Deliver(r)
    <3>1. Same
      BY <2>1, Zenon DEF Reconcile, CacheGet, CacheError, CacheInsert, Refused, CallFailed, Deliver, apiVars
    <3>. QED  BY <1>1, <3>1
  <2>2. CASE AddFinalizer(r) \/ LiftFinalizer(r)
    BY <2>2, DoneMute, Zenon DEF AddFinalizer, LiftFinalizer
  <2>3. CASE Unreached(r) \/ AnswerLost(r)
    <3>1. Answer(r, "unavailable", 0, "gone")
      BY <2>3, Zenon DEF Unreached, AnswerLost
    <3>. QED  BY <3>1, AnswerTo, Zenon
  <2>4. CASE Retry(r)
    <3>1. NoAnswer.code # "ok"
      BY Zenon DEF NoAnswer
    <3>. QED  BY <2>4, <3>1, OtherAnswer, Zenon DEF Retry
  <2>. QED  BY <1>2, <2>1, <2>2, <2>3, <2>4, Zenon DEF SharedStep
<1>3. ASSUME NEW q \in Machines, MachineStep(q) PROVE Mute(m) \/ CallMachine(m)
  <2>1. CASE ResolveCluster(q) \/ Bootstrap(q) \/ CommitStatus(q)
    <3>1. Same
      BY <2>1, Zenon DEF ResolveCluster, Bootstrap, CommitStatus, apiVars
    <3>. QED  BY <1>1, <3>1
  <2>2. CASE RecordTerminal(q) \/ MachineFailed(q)
    BY <2>2, DoneMute, Zenon DEF RecordTerminal, MachineFailed
  <2>3. CASE CommitSpec(q) \/ MachineAnswered(q)
    <3>1. Same \/ Done(q, TRUE)
      BY <2>3, Zenon DEF CommitSpec, MachineAnswered, Deletion_End, Observation, Creation_End
    <3>. QED  BY <1>1, <3>1, DoneMute, Zenon
  <2>4. CASE CallMachine(q) /\ q # m
    <3>1. Same \/ \E c, i, s : Answer(q, c, i, s)
      BY <2>4, Zenon DEF CallMachine, DeleteMachine, GetMachine, BeginCreate
    <3>. QED  BY <1>1, <2>4, <3>1, AnswerTo, Zenon
  <2>. QED  BY <1>3, <2>1, <2>2, <2>3, <2>4, Zenon DEF MachineStep
<1>4. ASSUME ClusterStep PROVE Mute(m)
  <2>1. Cluster # m
    BY Facts, Zenon
  <2>2. CASE ClusterAnswered \/ WriteEndpoint \/ WriteStatus
    <3>1. Same
      BY <2>2, Zenon DEF ClusterAnswered, WriteEndpoint, WriteStatus, apiVars
    <3>. QED  BY <1>1, <3>1
  <2>3. CASE ApplyCrds \/ ClusterFailed
    <3>1. Same \/ Done(Cluster, TRUE)
      BY <2>3, Zenon DEF ApplyCrds, ClusterFailed
    <3>. QED  BY <1>1, <3>1, DoneMute, Zenon
  <2>4. CASE CallCluster
    <3>1. \E c, i, s : Answer(Cluster, c, i, s)
      BY <2>4, Zenon DEF CallCluster, DeleteCluster, CreateCluster
    <3>. QED  BY <2>1, <3>1, AnswerTo, Zenon
  <2>. QED  BY <1>4, <2>2, <2>3, <2>4, Zenon DEF ClusterStep
<1>5. ASSUME NEW q \in Machines, EndCall(q) PROVE Mute(m) \/ CreateRuns(m)
  <2>1. CASE CreateRuns(q) /\ q # m
    <3>1. \E c, i, s : Answer(q, c, i, s)
      BY <2>1, Zenon DEF CreateRuns
    <3>. QED  BY <2>1, <3>1, AnswerTo, Zenon
  <2>2. CASE CreateFails(q) \/ CreateTimesOut(q) \/ CreateCut(q)
    <3>1. \E c \in {"error", "unavailable", "deadline"} : Answer(q, c, 0, "gone")
      BY <2>2, Zenon DEF CreateFails, CreateTimesOut, CreateCut
    <3>. QED  BY <3>1, AnswerTo, Zenon
  <2>. QED  BY <1>5, <2>1, <2>2, Zenon DEF EndCall
<1>6. ASSUME ByItself \/ Acks PROVE Mute(m)
  <2>1. Same
    BY <1>6, Zenon DEF ByItself, Acks, VmReportedRunning, VmDies, HostGivenUp, OtherCluster,
                       VmAcked, ClusterAcked
  <2>. QED  BY <1>1, <2>1
<1>7. ASSUME Others PROVE Mute(m)
  <2>1. CASE Restart
    <3>1. m \in Reconcilers /\ NoAnswer.code # "ok"
      BY Facts, Zenon DEF NoAnswer
    <3>2. ans'[m] = NoAnswer
      BY <2>1, <3>1, Zenon DEF Restart
    <3>. QED  BY <3>1, <3>2, Zenon DEF Mute
  <2>2. CASE StartUp \/ User \/ Rotate \/ UpdateSecret
    <3>1. Same
      BY <2>2, Zenon DEF StartUp, WaitForCrds, ReadTrustDomain, User, UserDeletes, UserRecreates,
                         Rotate, UpdateSecret, apiVars
    <3>. QED  BY <1>1, <3>1
  <2>. QED  BY <1>7, <2>1, <2>2, Zenon DEF Others
<1>8. ASSUME KubeconfigWritten \/ Finished \/ UNCHANGED vars PROVE Mute(m)
  <2>1. Same
    BY <1>8, Zenon DEF KubeconfigWritten, Finished, vars, apiVars
  <2>. QED  BY <1>1, <2>1
<1>. QED  BY <1>2, <1>3, <1>4, <1>5, <1>6, <1>7, <1>8, Zenon DEF Next

\* CreateMachine answers success with the row as it is, and that runs or was torn
\* down with its cluster.
LEMMA AnswersRun ==
    ASSUME Serving, [Next]_vars, NEW m \in Machines,
           ans[m] = NoAnswer, ans'[m].code = "ok", Creates(m)
    PROVE  ans'[m].st = "running" \/ vms'[ans'[m].id].c \in asked
<1>1. CapiType /\ Serves(m) /\ m \in Reconcilers /\ loc[m].id = 0
  BY Facts, Zenon DEF Serving, Creates
<1>2. CallMachine(m) \/ CreateRuns(m)
  <2>1. NoAnswer.code # "ok"
    BY Zenon DEF NoAnswer
  <2>2. ~Mute(m)
    BY <2>1, Zenon DEF Mute
  <2>. QED  BY <1>1, <2>2, WhoAnswers, Zenon
<1>3. ASSUME NEW v \in Vids, vms[v] # NoVm, vms[v].name = m, ~loc[m].del
      PROVE  RowServes(m, v) /\ ~Over(m)
  BY <1>1, <1>3, Zenon DEF Serves, RowsServe, Over
<1>4. CASE CallMachine(m)
  <2>1. pc[m] \in Reading /\ pc[m] \in Early /\ pc[m] # "wait"
    BY <1>4, Zenon DEF CallMachine, Reaches, Reading, Early
  <2>2. ~loc[m].del /\ calls[m] = 0
    BY <1>1, <2>1, Zenon DEF Serves, Finality, Waiting
  <2>3. BeginCreate(m, cid[m])
    BY <1>4, <2>2, Zenon DEF CallMachine
  <2>4. PICK c, i, s : /\ Answer(m, c, i, s)
                       /\ c = "ok" => /\ i \in Named(m, cid[m]) /\ s = vms[i].st
                                      /\ cid[m] \in rows /\ UNCHANGED vms
    <3>1. ~UNCHANGED ans
      BY Facts, Zenon
    <3>2. \/ Answer(m, "notfound", 0, "gone") \/ Answer(m, "error", 0, "gone")
          \/ \E v \in Named(m, cid[m]) :
                Answer(m, "ok", v, vms[v].st) /\ cid[m] \in rows /\ UNCHANGED vms
      BY <2>3, <3>1, Zenon DEF BeginCreate
    <3>3. "notfound" # "ok" /\ "error" # "ok"
      BY Zenon
    <3>. QED  BY <3>2, <3>3, Zenon
  <2>5. PICK a : a = [code |-> c, id |-> i, st |-> s]
    BY Zenon
  <2>6. ans'[m] = a /\ a.code = c /\ a.id = i /\ a.st = s
    BY <1>1, <2>4, <2>5, Zenon DEF Answer, CapiType
  <2>7. /\ i \in Vids /\ vms[i].name = m /\ vms[i].c \in Cids /\ s = vms[i].st /\ vms' = vms
    BY <1>1, <2>4, <2>6, Zenon DEF Named, CapiType
  <2>8. NoVm.c \notin Cids
    BY DEF NoVm, Cids
  <2>9. RowServes(m, i) /\ ~Over(m) /\ i # 0
    BY <1>3, <2>2, <2>7, <2>8, Facts, Zenon
  <2>. QED  BY <2>2, <2>6, <2>7, <2>9, Zenon DEF RowServes
<1>5. CASE CreateRuns(m)
  <2>1. calls[m] # 0 /\ calls[m] \in Vids
    BY <1>1, <1>5, Zenon DEF CreateRuns, CapiType
  <2>2. ~loc[m].del /\ IsOf(m, calls[m])
    BY <1>1, <2>1, Zenon DEF Serves, Waiting, OwnIds
  <2>3. vms[calls[m]] # NoVm
    <3>1. PICK a : a = [code |-> "notfound", id |-> 0, st |-> "gone"]
      BY Zenon
    <3>2. a.code # "ok"
      BY <3>1, Zenon
    <3>. QED  BY <1>1, <1>5, <3>1, <3>2, Zenon DEF CreateRuns, Answer, CapiType
  <2>4. PICK a : a = [code |-> "ok", id |-> calls[m], st |-> vms'[calls[m]].st]
    BY Zenon
  <2>5. ans'[m] = a /\ a.id = calls[m] /\ a.st = vms'[calls[m]].st
    BY <1>1, <1>5, <2>3, <2>4, Zenon DEF CreateRuns, Answer, CapiType
  <2>6. PICK s : s = IF vms[calls[m]].st = "teardown" THEN "teardown" ELSE "running"
    BY Zenon
  <2>7. s \in VmStates
    BY <2>6, Zenon DEF VmStates
  <2>8. vms' = [vms EXCEPT ![calls[m]].st = s]
    <3>1. vms' = [vms EXCEPT ![calls[m]].st = IF @ = "teardown" THEN @ ELSE "running"]
      BY <1>5, <2>3, Zenon DEF CreateRuns
    <3>. QED  BY <1>1, <2>1, <2>6, <3>1, Zenon DEF CapiType
  <2>9. vms'[calls[m]].c = vms[calls[m]].c /\ vms'[calls[m]].st = s
    BY <1>1, <2>1, <2>3, <2>7, <2>8, RowRewritten, Zenon
  <2>10. RowServes(m, calls[m]) /\ ~Over(m)
    BY <1>3, <2>1, <2>2, <2>3, Zenon DEF IsOf
  <2>. QED  BY <2>5, <2>6, <2>9, <2>10, Zenon DEF RowServes
<1>. QED  BY <1>2, <1>4, <1>5, Zenon

\* CreateMachine answers with a VM that runs, whatever calls to the API server
\* fail, copies are stale and credentials rotate: every row the call can find or
\* wait for runs, unless its name or its cluster is on the way out.
THEOREM AnswersAreRunning == Spec => AnswerMeansRunning
<1>. DEFINE Run(m) == pc'[m] = "wait" /\ ans[m] = NoAnswer /\ ans'[m].code = "ok" /\ Creates(m)
                         => \/ ans'[m].st = "running"
                            \/ happened \cap {"lost", "busy", "died", "host", "restart", "remade"} # {}
                            \/ vms'[ans'[m].id].c \in asked
<1>1. Init => ServingOrExcused
  BY ServingInit, Zenon DEF ServingOrExcused
<1>2. ServingOrExcused /\ [Next]_vars => ServingOrExcused'
  BY ServingNext, ExcusedNext, Zenon DEF ServingOrExcused
<1>3. ServingOrExcused /\ [Next]_vars => [\A m \in Machines : Run(m)]_vars
  BY AnswersRun, Zenon DEF ServingOrExcused, Excused
<1>. QED  BY <1>1, <1>2, <1>3, PTL DEF Spec, AnswerMeansRunning
===============================================================================
