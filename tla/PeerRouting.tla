---------------------------- MODULE PeerRouting ----------------------------
(***************************************************************************)
(* How traffic to a discovered peer is steered: over the discovery radios,  *)
(* fanned out, or over a unicast bulk face (NAN NDP, Wi-Fi Direct, or the    *)
(* same-AP infra tunnel). crates/ndn-mobile/src/engine.rs keeps the routes,  *)
(* strategies and pins. crates/ndn-boltffi/src/engine.rs calls it from the   *)
(* platform's threads under the `inner` mutex, and raises infra tunnels on   *)
(* beacons from cells that other threads set under locks of their own.      *)
(*                                                                         *)
(* A bulk face is numbered in the order of attachment; 0 is no face, and no  *)
(* file descriptor.                                                         *)
(***************************************************************************)
EXTENDS Naturals, Sequences, FiniteSets

CONSTANTS
    Peers,     \* discovered peers, each with its own prefix
    Root,      \* the prefix "/"; also the peer of a thread that has none
    Radios,    \* discovery radios (Wi-Fi Aware, BLE)
    Beacons,   \* platform threads that report beacons (note_peer)
    Hosts,     \* platform threads that report network changes
    Nets,      \* /24 networks; an address matters only by its network
    NoNet,     \* no address
    MaxAttach, \* bound on the bulk faces the app attaches itself
    MaxFds     \* bound on the sockets handed over for the tunnel

ASSUME NameAssumption  == Root \notin Peers /\ NoNet \notin Nets
ASSUME BoundAssumption == MaxAttach \in Nat /\ MaxFds \in Nat

VARIABLES
    radios,    \* radios with a face
    radioHops, \* radioHops[p]: FIB nexthops of prefix p to radio faces
    bulkHops,  \* bulkHops[p]: FIB nexthops of prefix p to bulk faces
    strategy,  \* strategy[p]: the strategy installed on prefix p
    pin,       \* bulk_pinned
    bulk,      \* the bulk faces attached so far
    beacon,    \* beacon[t]: where note_peer stands in thread t
    localNet,  \* local_infra_addr
    reserved,  \* infra_peers: the network peer p was reserved on, NoNet if it is not
    fd,        \* infra_socket_fd
    given,     \* sockets handed over so far
    closed,    \* sockets closed without a face, in order
    host       \* host[h]: where a setter of the tunnel's cells stands

routeVars  == <<radioHops, bulkHops, strategy, pin>>
fdVars     == <<fd, given, closed>>
tunnelVars == <<localNet, reserved>>
vars == <<radios, routeVars, bulk, beacon, tunnelVars, fdVars, host>>

Fd       == 0 .. MaxFds
Prefixes == Peers \cup {Root}
Net      == Nets \cup {NoNet}
Face     == [peer: Peers, fd: Fd, state: {"live", "cancelled", "detached"}]
Beacon   == [pc: {"idle", "read", "reserve", "take", "attach", "undo"},
             peer: Prefixes, net: Net, fd: Fd]

TypeOK ==
    /\ radios \subseteq Radios
    /\ radioHops \in [Prefixes -> SUBSET Radios]
    /\ bulkHops \in [Prefixes -> SUBSET Nat]
    /\ strategy \in [Prefixes -> {"default", "fan", "measured"}]
    /\ pin \in [Peers -> Nat]
    /\ bulk \in Seq(Face)
    /\ beacon \in [Beacons -> Beacon]
    /\ \A t, u \in Beacons: t # u => "idle" \in {beacon[t].pc, beacon[u].pc}
    /\ localNet \in Net /\ reserved \in [Peers -> Net]
    /\ fd \in Fd /\ given \in Fd /\ closed \in Seq(Fd)
    /\ host \in [Hosts -> {"idle", "addr", "socket"}]

Idle == [pc |-> "idle", peer |-> Root, net |-> NoNet, fd |-> 0]

Init ==
    /\ radios = {}
    /\ radioHops = [p \in Prefixes |-> {}] /\ bulkHops = [p \in Prefixes |-> {}]
    /\ strategy = [p \in Prefixes |-> "default"] /\ pin = [p \in Peers |-> 0]
    /\ bulk = <<>>
    /\ beacon = [t \in Beacons |-> Idle]
    /\ localNet = NoNet /\ reserved = [p \in Peers |-> NoNet]
    /\ fd = 0 /\ given = 0 /\ closed = <<>>
    /\ host = [h \in Hosts |-> "idle"]

\* note_peer keeps the inner mutex from the route to the end of the tunnel's
\* attach. Every other call on the engine is one step while it is free.
InnerFree == \A t \in Beacons: beacon[t].pc = "idle"

----------------------------------------------------------------------------
(* Routes and strategies                                                   *)

\* A radio attached at run time takes the default route, and / fans out.
AttachRadio(k) ==
    /\ InnerFree
    /\ radios' = radios \cup {k}
    /\ radioHops' = [radioHops EXCEPT ![Root] = @ \cup {k}]
    /\ strategy' = [strategy EXCEPT ![Root] = "fan"]
    /\ UNCHANGED <<bulkHops, pin, bulk, beacon, tunnelVars, fdVars, host>>

AnyRadio(k) == k \in Radios
HasFace(k) == k \in radios

NeverPinned(p) == FALSE
Pinned(p) == pin[p] # 0

\* note_peer for a beacon of p heard on radio k: install the nexthop, fan out
\* unless a bulk face is pinned; with an address in the beacon go on, still
\* under the mutex, to the infra tunnel.
NotePeer(t, p, k, n) ==
    /\ InnerFree
    /\ radioHops' = IF HasFace(k) THEN [radioHops EXCEPT ![p] = @ \cup {k}] ELSE radioHops
    /\ strategy' = IF HasFace(k) /\ ~Pinned(p) THEN [strategy EXCEPT ![p] = "fan"] ELSE strategy
    /\ beacon' = [beacon EXCEPT ![t] =
                     IF n = NoNet THEN Idle
                     ELSE [pc |-> "read", peer |-> p, net |-> n, fd |-> 0]]
    /\ UNCHANGED <<radios, bulkHops, pin, bulk, tunnelVars, fdVars, host>>

\* attach_udp_bulk_face: a new face over socket d, its nexthop, the measured
\* strategy and the pin.
NewFace(p, d) ==
    LET f == Len(bulk) + 1 IN
    /\ bulk' = Append(bulk, [peer |-> p, fd |-> d, state |-> "live"])
    /\ bulkHops' = [bulkHops EXCEPT ![p] = @ \cup {f}]
    /\ strategy' = [strategy EXCEPT ![p] = "measured"]
    /\ pin' = [pin EXCEPT ![p] = f]

\* The faces the app attached itself: it knows their ids.
ByApp(f) == bulk[f].fd = 0

\* attach_ndp_face, attach_wifi_direct_face.
AttachBulk(p) ==
    /\ InnerFree
    /\ Cardinality({f \in 1 .. Len(bulk): ByApp(f)}) < MaxAttach
    /\ NewFace(p, 0)
    /\ UNCHANGED <<radios, radioHops, beacon, tunnelVars, fdVars, host>>

\* detach_ndp_face: the engine removes the face and its nexthops; the prefixes
\* pinned to it lose the pin and fan out again.
Reverted(f) == {p \in Peers: pin[p] = f}

Detach(f) ==
    /\ InnerFree /\ f \in 1 .. Len(bulk) /\ ByApp(f)
    /\ bulk' = [bulk EXCEPT ![f].state = "detached"]
    /\ bulkHops' = [p \in Prefixes |-> bulkHops[p] \ {f}]
    /\ pin' = [p \in Peers |-> IF pin[p] = f THEN 0 ELSE pin[p]]
    /\ strategy' = [p \in Prefixes |-> IF p \in Reverted(f) THEN "fan" ELSE strategy[p]]
    /\ UNCHANGED <<radios, radioHops, beacon, tunnelVars, fdVars, host>>

\* suspend_network_faces cancels the token every bulk face hangs on. Whether
\* the engine then drops their nexthops is its own affair. (The radios' faces
\* are rebuilt under the same ids on resume.)
Cancelled == {f \in 1 .. Len(bulk): bulk[f].state = "live"}

Suspend ==
    /\ InnerFree
    /\ bulk' = [f \in 1 .. Len(bulk) |->
                   IF f \in Cancelled THEN [bulk[f] EXCEPT !.state = "cancelled"] ELSE bulk[f]]
    /\ \E dropped \in {Cancelled, {}}:
           bulkHops' = [p \in Prefixes |-> bulkHops[p] \ dropped]
    /\ UNCHANGED <<radios, radioHops, strategy, pin, beacon, tunnelVars, fdVars, host>>

----------------------------------------------------------------------------
(* maybe_attach_infra_tunnel, under the inner mutex                        *)

Goto(t, pc) == beacon' = [beacon EXCEPT ![t].pc = pc]
Done(t)     == beacon' = [beacon EXCEPT ![t] = Idle]

\* set_infra_addr keeps local_infra_addr locked while it clears infra_peers.
AddrFree == \A h \in Hosts: host[h] # "addr"

\* Our own network, compared with the beacon's.
ReadNet(t) ==
    /\ beacon[t].pc = "read" /\ AddrFree
    /\ IF beacon[t].net = localNet THEN Goto(t, "reserve") ELSE Done(t)
    /\ UNCHANGED <<radios, routeVars, bulk, tunnelVars, fdVars, host>>

Reserve(t) ==
    /\ beacon[t].pc = "reserve"
    /\ \/ /\ reserved[beacon[t].peer] # NoNet
          /\ Done(t)
          /\ UNCHANGED reserved
       \/ /\ reserved[beacon[t].peer] = NoNet
          /\ Goto(t, "take")
          /\ reserved' = [reserved EXCEPT ![beacon[t].peer] = beacon[t].net]
    /\ UNCHANGED <<radios, routeVars, bulk, localNet, fdVars, host>>

LeftInCell == fd
Taken == 0

TakeFd(t) ==
    /\ beacon[t].pc = "take"
    /\ \/ /\ fd = 0
          /\ Goto(t, "undo")
          /\ UNCHANGED fd
       \/ /\ fd # 0
          /\ beacon' = [beacon EXCEPT ![t].pc = "attach", ![t].fd = fd]
          /\ fd' = Taken
    /\ UNCHANGED <<radios, routeVars, bulk, tunnelVars, given, closed, host>>

AttachTunnel(t) ==
    /\ beacon[t].pc = "attach"
    /\ NewFace(beacon[t].peer, beacon[t].fd)
    /\ Done(t)
    /\ UNCHANGED <<radios, radioHops, tunnelVars, fdVars, host>>

\* The attach failed and closed the socket it had adopted.
AttachFails(t) ==
    /\ beacon[t].pc = "attach"
    /\ closed' = Append(closed, beacon[t].fd)
    /\ beacon' = [beacon EXCEPT ![t].pc = "undo", ![t].fd = 0]
    /\ UNCHANGED <<radios, routeVars, bulk, tunnelVars, fd, given, host>>

\* Leave the peer unreserved, so that a later beacon tries again.
Undo(t) ==
    /\ beacon[t].pc = "undo"
    /\ reserved' = [reserved EXCEPT ![beacon[t].peer] = NoNet]
    /\ Done(t)
    /\ UNCHANGED <<radios, routeVars, bulk, localNet, fdVars, host>>

----------------------------------------------------------------------------
(* The platform's network callbacks                                        *)

\* set_infra_addr, when the address changes: to another network, to none, or
\* within its network, which clears the reservations too.
SetAddr(h, n) ==
    /\ host[h] = "idle" /\ AddrFree
    /\ n # localNet \/ n # NoNet
    /\ localNet' = n
    /\ host' = [host EXCEPT ![h] = "addr"]
    /\ UNCHANGED <<radios, routeVars, bulk, beacon, reserved, fdVars>>

\* set_infra_socket: replace the socket, and close one that was not adopted.
Unused == IF fd = 0 THEN closed ELSE Append(closed, fd)

SetSocket(h) ==
    /\ host[h] = "idle" /\ given < MaxFds
    /\ fd' = given + 1 /\ given' = given + 1
    /\ closed' = Unused
    /\ host' = [host EXCEPT ![h] = "socket"]
    /\ UNCHANGED <<radios, routeVars, bulk, beacon, tunnelVars>>

\* Both then clear infra_peers.
StillReserved == reserved
Rearmed == [p \in Peers |-> NoNet]

Rearm(h) ==
    /\ host[h] # "idle"
    /\ reserved' = Rearmed
    /\ host' = [host EXCEPT ![h] = "idle"]
    /\ UNCHANGED <<radios, routeVars, bulk, beacon, localNet, fdVars>>

----------------------------------------------------------------------------
Radio == \E k \in Radios: AttachRadio(k)
Heard(p, n) == \E t \in Beacons, k \in Radios: NotePeer(t, p, k, n)
App == Suspend \/ (\E p \in Peers: AttachBulk(p)) \/ (\E f \in 1 .. Len(bulk): Detach(f))
Tunnel(t) ==
    \/ ReadNet(t) \/ Reserve(t) \/ TakeFd(t)
    \/ AttachTunnel(t) \/ AttachFails(t) \/ Undo(t)
Platform(h) == (\E n \in Net: SetAddr(h, n)) \/ SetSocket(h) \/ Rearm(h)

Next ==
    \/ Radio \/ App
    \/ \E p \in Peers, n \in Net: Heard(p, n)
    \/ \E t \in Beacons: Tunnel(t)
    \/ \E h \in Hosts: Platform(h)

Spec == Init /\ [][Next]_vars

\* Calls that were entered run to their end, and a peer in range is heard
\* again and again.
Fairness ==
    /\ \A t \in Beacons: WF_vars(Tunnel(t))
    /\ \A h \in Hosts: WF_vars(Rearm(h))
    /\ \A p \in Peers, n \in Nets: SF_vars(Heard(p, n))

FairSpec == Spec /\ Fairness

----------------------------------------------------------------------------
(* Properties                                                              *)

\* The newest bulk face of a peer decides how its prefix is steered, whatever
\* beacons and detaches of older faces come after it: the measured strategy from
\* the moment it is attached until it is detached, and the fan-out after that.
\* After it, not even an older face that is still live keeps the prefix from
\* being fanned: bulk_pinned forgot that face when the newer one was attached.
Newest(f, p) == bulk[f].peer = p /\ \A g \in f + 1 .. Len(bulk): bulk[g].peer # p

StrategyFollowsNewest ==
    \A p \in Peers:
        strategy[p] = "measured" <=>
            \E f \in 1 .. Len(bulk): Newest(f, p) /\ bulk[f].state # "detached"

\* No nexthop leads to a radio without a face or to a detached bulk face,
\* which would black-hole the peer's traffic.
RoutesAlive ==
    \A p \in Prefixes:
        /\ radioHops[p] \subseteq radios
        /\ \A f \in bulkHops[p]: f \in 1 .. Len(bulk) /\ bulk[f].state # "detached"

\* A socket handed over has exactly one owner at any time: the cell, the thread
\* that took it, the face that adopted it, or it was closed, once.
Holds(t, d)   == beacon[t].pc = "attach" /\ beacon[t].fd = d
Adopted(f, d) == bulk[f].fd = d
Closed(i, d)  == closed[i] = d

FdOwnedOnce ==
    \A d \in 1 .. given:
        (IF fd = d THEN 1 ELSE 0)
        + Cardinality({t \in Beacons: Holds(t, d)})
        + Cardinality({f \in 1 .. Len(bulk): Adopted(f, d)})
        + Cardinality({i \in 1 .. Len(closed): Closed(i, d)}) = 1

\* A socket is not left lying in the cell while a peer on our network is heard.
\* (A platform that reports new addresses of one network without end may keep a
\* beacon from the mutex of the address for ever.)
TunnelRaised ==
    <>[]AddrFree => \A n \in Nets: (fd # 0 /\ localNet = n) ~> (fd = 0 \/ localNet # n)

\* engine.rs (ndn-boltffi) l.466: "a change re-arms the per-peer attach", so no
\* peer stays reserved on a network we have left.
ChangeRearms ==
    (InnerFree /\ \A h \in Hosts: host[h] = "idle") =>
        \A p \in Peers: reserved[p] \in {NoNet, localNet}

=============================================================================
