------------------------------- MODULE MCVmDisks -------------------------------
EXTENDS VmDisks

CONSTANTS v1, v2, d1, d2

\* v1 has a disk on each device, v2 one on the first, which holds only one.
MCDisks == {<<v1, 0>>, <<v1, 1>>, <<v2, 0>>}
MCDeviceOf == [x \in MCDisks |-> IF x[2] = 0 THEN d1 ELSE d2]
MCSizeOf == [x \in MCDisks |-> 2]
MCMaxCreates == [v \in {v1, v2} |-> 1]
MCMaxDeletes == [v \in {v1, v2} |-> IF v = v1 THEN 1 ELSE 0]
MCVgSize == [d \in {d1, d2} |-> 3]
===============================================================================
