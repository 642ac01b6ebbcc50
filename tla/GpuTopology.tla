----------------------------- MODULE GpuTopology -----------------------------
(***************************************************************************)
(* The NVLink groups an agent reports with its GPUs.  A host's GPUs are    *)
(* numbered from 0; its wiring is the set of pairs that `nvidia-smi topo`  *)
(* marks with a link, a symmetric matrix.                                  *)
(***************************************************************************)
EXTENDS Integers, SequencesExt

\* The upper triangle of the matrix, row by row.
Edges(wiring, n) ==
    LET pairs == {e \in (0 .. n - 1) \X (0 .. n - 1) : e[1] < e[2] /\ e \in wiring}
    IN SetToSortSeq(pairs, LAMBDA d, e : d[1] < e[1] \/ (d[1] = e[1] /\ d[2] < e[2]))

\* find: the root of x.  Path halving leaves the roots alone.
Root(parent, x) ==
    LET climb[y \in DOMAIN parent] == IF parent[y] = y THEN y ELSE climb[parent[y]]
    IN climb[x]

\* Mutant: the parent of one end of a link is overwritten, not that of its root.
Union_NoRoot(parent, e) == [parent EXCEPT ![e[1]] = Root(parent, e[2])]

Union(parent, e) ==
    LET ra == Root(parent, e[1])
        rb == Root(parent, e[2])
    IN IF ra = rb THEN parent ELSE [parent EXCEPT ![ra] = rb]

\* assign_nvlink_groups: dense numbers from 1 in the order of the GPUs; a GPU
\* without a link has group 0.
NvlinkGroups(wiring, n) ==
    LET edges == Edges(wiring, n)
        linked == {i \in 0 .. n - 1 : \E e \in ToSet(edges) : i \in {e[1], e[2]}}
        parent == FoldLeft(Union, [i \in 0 .. n - 1 |-> i], edges)
        roots(i) == {Root(parent, j) : j \in {k \in linked : k <= i}}
        first(r) == CHOOSE i \in linked : Root(parent, i) = r
                        /\ \A j \in linked : Root(parent, j) = r => i <= j
    IN [i \in 0 .. n - 1 |->
            IF i \in linked THEN Cardinality(roots(first(Root(parent, i)))) ELSE 0]

\* Two GPUs are joined by a path of links, which is what a group means: every
\* set of GPUs that has the one and is closed under links has the other.
Joined(wiring, n, i, j) ==
    \A S \in SUBSET (0 .. n - 1) :
        i \in S /\ (\A e \in wiring : e[1] \in S <=> e[2] \in S) => j \in S
===============================================================================
