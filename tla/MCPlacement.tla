------------------------------ MODULE MCPlacement ------------------------------
EXTENDS Placement

CONSTANTS h1, h2, a, b, c, v1, v2, v3

Anywhere == [requires |-> {}, prefers |-> {}]
Fast == [requires |-> {[key |-> "tier", values |-> {"fast"}]}, prefers |-> {}]
Ssd == [requires |-> {[key |-> "disk", values |-> {"ssd"}]}, prefers |-> {}]
LikesSsd == [requires |-> {}, prefers |-> {[key |-> "disk", value |-> "ssd", weight |-> 1]}]

\* h1 has three GPUs and two pools of a device each, h2 one device and a label.
MCHostSpec ==
    (h1 :> [cpu |-> 3, mem |-> 4, rootfs |-> 5, labels |-> {}, rank |-> 0, ngpus |-> 3,
            pools |-> <<[labels |-> {}, lvm |-> TRUE, devices |-> <<a>>],
                       [labels |-> {<<"disk", "ssd">>}, lvm |-> TRUE, devices |-> <<b>>]>>])
    @@ (h2 :> [cpu |-> 3, mem |-> 4, rootfs |-> 5, labels |-> {<<"tier", "fast">>}, rank |-> 1,
               ngpus |-> 0,
               pools |-> <<[labels |-> {}, lvm |-> FALSE, devices |-> <<c>>]>>])
MCSize == (a :> 3) @@ (b :> 2) @@ (c :> 3)

Disk(n, rep, s) == [size |-> n, replicated |-> rep, sel |-> s]

\* v1 must be on h2; v2 wants linked GPUs, which h1 has; v3 has the name of v1,
\* wants a GPU, and two disks: one on b, the other preferably too, though both
\* do not fit there.  The best device for v2 is b, too.
MCReq ==
    (v1 :> [cluster |-> "k", name |-> "n1", cpu |-> 2, mem |-> 1, rootfs |-> 1, gpus |-> 0,
            group |-> 0, sel |-> Fast, disks |-> <<Disk(2, TRUE, LikesSsd)>>])
    @@ (v2 :> [cluster |-> "k", name |-> "n2", cpu |-> 2, mem |-> 1, rootfs |-> 1, gpus |-> 2,
               group |-> 2, sel |-> Anywhere, disks |-> <<Disk(1, TRUE, Anywhere)>>])
    @@ (v3 :> [cluster |-> "k", name |-> "n1", cpu |-> 2, mem |-> 1, rootfs |-> 1, gpus |-> 1,
               group |-> 0, sel |-> Anywhere, disks |-> <<Disk(2, FALSE, Ssd), Disk(2, FALSE, LikesSsd)>>])

MCWirings == (h1 :> {{<<0, 1>>, <<0, 2>>}, {<<1, 2>>}}) @@ (h2 :> {{}})
===============================================================================
