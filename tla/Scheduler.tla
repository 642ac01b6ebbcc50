------------------------------ MODULE Scheduler ------------------------------
(***************************************************************************)
(* The scheduler: a function from what pick_host has read to a host with   *)
(* GPUs on it and a device for every data disk.  Where the code depends on *)
(* the order of a hash map, of rows without an ORDER BY, or on which of    *)
(* two equal candidates comes first, the operators here give the set of    *)
(* all possible answers.                                                   *)
(*                                                                         *)
(* Capacities are in GiB but for the rootfs pool, which is in units of     *)
(* 1/Gib GiB.  Labels are sets of pairs <<key, value>>.                    *)
(***************************************************************************)
EXTENDS Integers, FiniteSetsExt, SequencesExt

CONSTANTS
    RatioNum, RatioDen,   \* cpu_overcommit_ratio
    Gib                   \* bytes of a GiB

\* Placement::satisfies and Placement::score.
Satisfies(sel, labels) ==
    \A r \in sel.requires : \E v \in r.values : <<r.key, v>> \in labels
PreferScore(sel, labels) ==
    MapThenSumSet(LAMBDA p : p.weight,
                  {p \in sel.prefers : <<p.key, p.value>> \in labels})

\* Lexicographic comparison, which the score types derive.
Worse(a, b) ==
    \E i \in DOMAIN a : a[i] < b[i] /\ \A j \in 1 .. i - 1 : a[j] = b[j]

EffectiveCpu(cpu) == (cpu * RatioNum) \div RatioDen

\* ScheduleRequest::from: the data disks of a request together.
DataGib(req) == FoldLeft(LAMBDA sum, d : sum + d.size, 0, req.disks)

AtLeastZero(n) == IF n < 0 THEN 0 ELSE n

\* Available::from
Available(host, used) ==
    [cpu    |-> AtLeastZero(EffectiveCpu(host.cpu) - used.cpu),
     mem    |-> AtLeastZero(host.mem - used.mem),
     rootfs |-> AtLeastZero((host.rootfs \div Gib) - used.rootfs),
     data   |-> AtLeastZero(host.data - used.data)]

Fits(avail, req) ==
    /\ avail.cpu >= req.cpu /\ avail.mem >= req.mem
    /\ avail.rootfs >= req.rootfs /\ avail.data >= DataGib(req)

RemainingAfter(avail, req) == (avail.cpu - req.cpu) + (avail.mem - req.mem)

-----------------------------------------------------------------------------
(* GPUs: gpus is a sequence of [pci, group]. *)

FreeGpus(host, used) == SelectSeq(host.gpus, LAMBDA g : g.pci \notin used.pcis)

FirstOf(gpus, n) == {gpus[i].pci : i \in 1 .. n}

\* Mutant: group 0 counts as an NVLink domain.
GpuPicks_Zero(free, req) ==
    LET group(g) == SelectSeq(free, LAMBDA x : x.group = g)
        inOne == {g \in {x.group : x \in ToSet(free)} :
                     Len(group(g)) >= req.gpus /\ Len(group(g)) >= req.group}
    IN IF req.gpus = 0 THEN {[score |-> 0, pcis |-> {}]}
       ELSE IF inOne # {} THEN {[score |-> 3, pcis |-> FirstOf(group(g), req.gpus)] : g \in inOne}
       ELSE IF req.group = 0 /\ Len(free) >= req.gpus
            THEN {[score |-> 1, pcis |-> FirstOf(free, req.gpus)]}
       ELSE {}

\* gpu_topology_score: the possible [score, pcis]; empty when the host cannot
\* serve the request.
GpuPicks(free, req) ==
    LET group(g) == SelectSeq(free, LAMBDA x : x.group = g)
        inOne == {g \in {x.group : x \in ToSet(free)} \ {0} :
                     Len(group(g)) >= req.gpus /\ Len(group(g)) >= req.group}
    IN IF req.gpus = 0 THEN {[score |-> 0, pcis |-> {}]}
       ELSE IF inOne # {} THEN {[score |-> 3, pcis |-> FirstOf(group(g), req.gpus)] : g \in inOne}
       ELSE IF req.group = 0 /\ Len(free) >= req.gpus
            THEN {[score |-> 1, pcis |-> FirstOf(free, req.gpus)]}
       ELSE {}

-----------------------------------------------------------------------------
(* Data disks: view is a sequence of pools [labels, lvm, devices], devices a
   sequence of [id, free, schedulable, mates]. *)

\* DiskScore, with backend_tie_breaker: of an lvm-linear pool the device with
\* the least left over, by the free space that was reported.
DiskScore(disk, pool, dev, placed) ==
    << PreferScore(disk.sel, pool.labels),
       IF dev.mates THEN -1 ELSE 0,
       IF dev.id \in ToSet(placed) THEN -1 ELSE 0,
       IF pool.lvm THEN -(dev.free - disk.size) ELSE 0 >>

\* What the disks of this VM before this one took of a device.
Taken(disks, placed, d) ==
    MapThenSumSet(LAMBDA i : disks[i].size, {i \in DOMAIN placed : placed[i] = d})

\* Mutant: disks of one request do not see each other.
Eligible_Alone(view, disks, placed) ==
    LET disk == disks[Len(placed) + 1]
    IN {c \in UNION {{p} \X DOMAIN view[p].devices : p \in DOMAIN view} :
            LET dev == view[c[1]].devices[c[2]]
            IN /\ Satisfies(disk.sel, view[c[1]].labels)
               /\ dev.schedulable
               /\ dev.free >= disk.size}

Eligible(view, disks, placed) ==
    LET disk == disks[Len(placed) + 1]
    IN {c \in UNION {{p} \X DOMAIN view[p].devices : p \in DOMAIN view} :
            LET dev == view[c[1]].devices[c[2]]
            IN /\ Satisfies(disk.sel, view[c[1]].labels)
               /\ dev.schedulable
               /\ dev.free - Taken(disks, placed, dev.id) >= disk.size}

\* The next disk goes to the best device; among equals of a pool, the first.
BestDevices(view, disks, placed) ==
    LET disk == disks[Len(placed) + 1]
        cands == Eligible(view, disks, placed)
        score(c) == DiskScore(disk, view[c[1]], view[c[1]].devices[c[2]], placed)
        best == {c \in cands : \A d \in cands : ~Worse(score(c), score(d))}
    IN {c \in best : \A d \in best : d[1] = c[1] => c[2] <= d[2]}

Failed == <<"failed">>

\* pick_disk_placements: the possible placements, a device per disk; Failed
\* when some disk found none.
DiskPicks(view, disks) ==
    LET next(placed) ==
            LET best == BestDevices(view, disks, placed)
            IN IF best = {} THEN {Failed}
               ELSE {Append(placed, view[c[1]].devices[c[2]].id) : c \in best}
        place(all, disk) ==
            UNION {IF p = Failed THEN {Failed} ELSE next(p) : p \in all}
    IN FoldLeft(place, {<<>>}, disks)

-----------------------------------------------------------------------------
(* schedule.  s is what pick_host read: s.hosts is a set of host rows,
   s.used, s.view and s.replicas are functions of the host's id. *)

CandidateScore(s, host, req, gpuScore, avail) ==
    << IF \E d \in ToSet(req.disks) : d.replicated THEN -s.replicas[host.id] ELSE 0,
       gpuScore,
       PreferScore(req.sel, host.labels),
       -s.used[host.id].mates,
       -host.rank,
       -RemainingAfter(avail, req) >>

\* The candidates of one pass over the hosts: at most one per host.
CandidatesOf(s, host, req) ==
    LET avail == Available(host, s.used[host.id])
        free == FreeGpus(host, s.used[host.id])
    IN IF ~Satisfies(req.sel, host.labels) \/ ~Fits(avail, req) THEN {}
       ELSE {[host |-> host.id, gpus |-> g.pcis, disks |-> d,
              score |-> CandidateScore(s, host, req, g.score, avail)] :
                 g \in GpuPicks(free, req), d \in DiskPicks(s.view[host.id], req.disks)}

Rejected == [host |-> "none"]

\* One candidate or a rejection for each host, in every possible way.
Passes(s, req) ==
    LET options(h) == LET cs == CandidatesOf(s, h, req)
                      IN IF cs = {} THEN {Rejected}
                         ELSE {IF c.disks = Failed THEN Rejected ELSE c : c \in cs}
    IN {f \in [s.hosts -> UNION {options(h) : h \in s.hosts}] :
            \A h \in s.hosts : f[h] \in options(h)}

NoCapacity == [host |-> "no capacity"]
Unmet == [host |-> "unmet"]

\* The possible decisions: a best candidate of a pass, whichever is last, or
\* why there is none.
Schedule(s, req) ==
    UNION {LET cands == {pass[h] : h \in s.hosts} \ {Rejected}
               passed == \E h \in s.hosts : Satisfies(req.sel, h.labels)
           IN IF cands = {}
              THEN {IF ~passed /\ req.sel.requires # {} THEN Unmet ELSE NoCapacity}
              ELSE {c \in cands : \A d \in cands : ~Worse(c.score, d.score)} :
           pass \in Passes(s, req)}
===============================================================================
