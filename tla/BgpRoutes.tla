----------------------------- MODULE BgpRoutes ------------------------------
(***************************************************************************)
(* The cell's BGP as an agent uses it: the VIPs a host originates through  *)
(* its gobgpd (Speaker::update_routes, at the end of every command), and   *)
(* the routes to LoadBalancer addresses it installs from gobgpd's stream   *)
(* of best paths (the route watcher).                                      *)
(*                                                                         *)
(* gobgpd is external.  The reflector passes what one host originates to   *)
(* every other host, so a host's RIB holds the paths of all; it keeps no   *)
(* path of its own across its restart.  One LoadBalancer address, announced*)
(* by one of the cluster's nodes, is followed.                             *)
(***************************************************************************)
EXTENDS ClusterNet

VARIABLES
    speaker,   \* speaker[h]: the agent's speaker: none before its handshake,
               \* then up, or failed until the next one
    origin,    \* hosts whose gobgpd originates the cluster's VIPs
    path,      \* the LoadBalancer address is announced
    watch,     \* watch[h]: the watcher's stream, the events in it and the
               \* batch of them it has in hand
    missed     \* hosts whose route an event of the address passed by

bgpVars == <<speaker, origin, path, watch, missed>>

NoStream == [on |-> FALSE, events |-> <<>>, batch |-> <<>>, mixed |-> FALSE]
Stream(s) == [NoStream EXCEPT !.on = TRUE, !.events = s]

BgpInit ==
    /\ speaker = [h \in Hosts |-> "up"] /\ origin = {} /\ path = FALSE
    /\ watch = [h \in Hosts |-> Stream(<<>>)]
    /\ missed = {}

-----------------------------------------------------------------------------
\* Speaker.

\* The VIPs of the LAN pool that the command names.
Wanted(c) == pool = "lan" /\ c.has

\* Mutant: prefixes are added and never withdrawn.
ReconcilePaths_AddOnly(h, c) == IF Wanted(c) /\ origin = {} THEN {h} ELSE origin

\* reconcile_ipv4_paths: what is listed is the whole RIB, so a prefix that
\* another host originates is not added, and a delete only reaches the
\* host's own path.
ReconcilePaths(h, c) ==
    CASE Wanted(c) /\ origin = {} -> {h}
      [] Wanted(c)                -> origin
      [] OTHER                    -> origin \ {h}

\* The end of apply_reconcile.  An agent without a speaker has none to tell.
\* An update_routes that fails, with something to change, is logged, and
\* comes again with the next command.
UpdateRoutes(h, c) ==
    \/ NoFault /\ origin' = IF speaker[h] = "up" THEN ReconcilePaths(h, c) ELSE origin
    \/ /\ Fault("bgp") /\ speaker[h] = "up" /\ ReconcilePaths(h, c) # origin
       /\ UNCHANGED origin

\* The speaker is started at the end of a handshake, after the handshake's
\* command was applied.  A failure is logged and the handshake goes on; no
\* later command tries again.
StartSpeaker(h) ==
    \/ NoFault /\ speaker' = [speaker EXCEPT ![h] = "up"]
    \/ Fault("bgp") /\ speaker' = [speaker EXCEPT ![h] = "failed"]

Advertise(h, i) ==
    /\ Finish(h, i, "advertise")
    /\ IF speaker[h] = "none"
       THEN StartSpeaker(h) /\ UNCHANGED origin
       ELSE UpdateRoutes(h, job[h][i].cmd) /\ UNCHANGED speaker
    /\ UNCHANGED <<net, vrfs, live, attach, path, watch, missed>>

-----------------------------------------------------------------------------
\* The route watcher.

\* gobgpd tells every watcher; a withdrawal while a host's stream is broken
\* is told to nobody.
Tell(e) == watch' = [h \in Hosts |->
    IF watch[h].on THEN [watch[h] EXCEPT !.events = Append(@, e)] ELSE watch[h]]

Deaf == {h \in Hosts : ~watch[h].on}

Announce ==
    /\ ~path /\ placed # {} /\ path' = TRUE
    /\ Tell("add") /\ UNCHANGED <<speaker, origin, missed>>

Withdraw ==
    /\ path /\ path' = FALSE
    /\ Tell("del") /\ missed' = missed \union Deaf
    /\ UNCHANGED <<speaker, origin>>

\* gobgpd puts one or more events into a message.
Received(w) ==
    IF w.batch # <<>> THEN {w}
    ELSE {[w EXCEPT !.batch = SubSeq(w.events, 1, k), !.mixed = k > 1,
                    !.events = SubSeq(w.events, k + 1, Len(w.events))] : k \in 1..Len(w.events)}

\* install_learned_route and withdraw_learned_route do nothing when no
\* remembered cluster holds the next hop; what they cannot change is logged.
\* An event that was told before one that is applied already passes it by,
\* too: it brings back what is no more.
Learn(h, e, mixed) ==
    \/ /\ live[h].cidr /\ NoFault
       /\ net' = [net EXCEPT ![h].via = e = "add"]
       /\ missed' = IF mixed THEN missed \union {h} ELSE missed \ {h}
    \/ /\ IF live[h].cidr THEN Fault("route") ELSE NoFault
       /\ missed' = missed \union {h} /\ UNCHANGED net

\* Mutant: a withdrawal is taken for an announcement.
WatchNext_AddOnly(h) ==
    \E w \in Received(watch[h]) :
        /\ Learn(h, "add", w.mixed)
        /\ watch' = [watch EXCEPT ![h] = [w EXCEPT !.batch = SubSeq(@, 1, Len(@) - 1)]]
        /\ UNCHANGED <<vrfs, live, attach, job, speaker, origin, path>>

\* The next event is the last of the batch.
WatchNext(h) ==
    \E w \in Received(watch[h]) :
        /\ Learn(h, w.batch[Len(w.batch)], w.mixed)
        /\ watch' = [watch EXCEPT ![h] = [w EXCEPT !.batch = SubSeq(@, 1, Len(@) - 1)]]
        /\ UNCHANGED <<vrfs, live, attach, job, speaker, origin, path>>

\* The stream ends with what it still held.
WatchEnds(h) ==
    /\ watch[h].on
    /\ watch' = [watch EXCEPT ![h] = NoStream]
    /\ missed' = IF watch[h].events \o watch[h].batch # <<>> THEN missed \union {h} ELSE missed

\* watch_once connects again, and gobgpd replays what it has.
Subscribe(h) ==
    /\ ~watch[h].on
    /\ watch' = [watch EXCEPT ![h] = Stream(IF path THEN <<"add">> ELSE <<>>)]
    /\ NoFault
    /\ UNCHANGED <<net, vrfs, live, attach, job, speaker, origin, path, missed>>

\* gobgpd restarts: its own paths are gone and its streams end.
RestartGobgpd(h) ==
    /\ Fault("gobgpd") /\ WatchEnds(h) /\ origin' = origin \ {h}
    /\ UNCHANGED <<net, vrfs, live, attach, job, speaker, path>>

\* A stream that is lost brings another handshake.
NextHandshake(h) == speaker' = [speaker EXCEPT ![h] = IF @ = "failed" THEN "none" ELSE @]

\* A host that loses the route with its bridge, or gets a bridge after the
\* event, waits for an event that may never come.
RouteLost(h) == (net[h].via /\ ~net'[h].via) \/ (live'[h].cidr /\ ~live[h].cidr /\ path)

KeepBgp ==
    /\ missed' = missed \union {h \in Hosts : RouteLost(h)}
    /\ UNCHANGED <<speaker, origin, path, watch>>
=============================================================================
