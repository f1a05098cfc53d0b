------------------------- MODULE MobileEngineProofs -------------------------
(***************************************************************************)
(* Proofs about the two parts of crates/ndn-mobile/src/engine.rs.          *)
(*                                                                         *)
(* PeerRouting, for any number of peers, radios, threads and faces: types, *)
(* the newest bulk face that decides a prefix's strategy, the nexthops,    *)
(* and the single owner of each socket.                                    *)
(*                                                                         *)
(* NetworkFaces, for any number of peers, supervisors and suspends: types, *)
(* no live face while suspended, and a supervisor that stands by for every *)
(* peer while the network faces are up.                                    *)
(***************************************************************************)
EXTENDS PeerRouting, NetworkFaces, FiniteSetTheorems, TLAPS

\* A thread inside the tunnel's attach works for a discovered peer.
PeerKnown == \A t \in Beacons: beacon[t].pc # "idle" => beacon[t].peer \in Peers

\* A pin names the newest face of its prefix, and that face is not detached;
\* a prefix whose newest face is not detached has the pin.
PinInv ==
    \A p \in Peers:
        /\ strategy[p] = "measured" <=> pin[p] # 0
        /\ pin[p] # 0 => /\ pin[p] \in 1 .. Len(bulk) /\ Newest(pin[p], p)
                         /\ bulk[pin[p]].state # "detached"
        /\ \A f \in 1 .. Len(bulk): Newest(f, p) /\ bulk[f].state # "detached" => pin[p] = f

RInv == TypeOK /\ PeerKnown /\ PinInv /\ RoutesAlive

\* The part of the type invariant that the tunnel's cells and threads have.
CellTypes ==
    /\ beacon \in [Beacons -> Beacon]
    /\ \A t, u \in Beacons: t # u => "idle" \in {beacon[t].pc, beacon[u].pc}
    /\ localNet \in Net /\ reserved \in [Peers -> Net]
    /\ fd \in Fd /\ given \in Fd /\ closed \in Seq(Fd)
    /\ host \in [Hosts -> {"idle", "addr", "socket"}]

\* The part that the routes and faces have.
RouteTypes ==
    /\ radios \subseteq Radios
    /\ radioHops \in [Prefixes -> SUBSET Radios]
    /\ bulkHops \in [Prefixes -> SUBSET Nat]
    /\ strategy \in [Prefixes -> {"default", "fan", "measured"}]
    /\ pin \in [Peers -> Nat]
    /\ bulk \in Seq(Face)

LEMMA TypeParts == TypeOK <=> RouteTypes /\ CellTypes
  BY DEF TypeOK, RouteTypes, CellTypes

\* What Append leaves alone.
LEMMA FaceAppended ==
    ASSUME bulk \in Seq(Face), NEW x \in Face
    PROVE  /\ Append(bulk, x) \in Seq(Face)
           /\ Len(bulk) \in Nat /\ Len(Append(bulk, x)) = Len(bulk) + 1
           /\ \A i \in 1 .. Len(bulk): Append(bulk, x)[i] = bulk[i]
           /\ Append(bulk, x)[Len(bulk) + 1] = x
  OBVIOUS

\* The invariant of the routes and faces does not depend on the rest.
RouteInv == RouteTypes /\ PinInv /\ RoutesAlive

LEMMA RouteUnmoved ==
    ASSUME RouteInv, UNCHANGED <<radios, routeVars, bulk>>
    PROVE  RouteInv'
  BY DEF RouteInv, RouteTypes, PinInv, Newest, RoutesAlive, routeVars

\* A new face for p: its number is free, the prefix is pinned to it, and it is
\* not detached.
LEMMA NewFaceRoutes ==
    ASSUME RouteInv, NEW p \in Peers, NEW d \in Fd, NewFace(p, d),
           UNCHANGED <<radios, radioHops>>
    PROVE  RouteInv'
  <1>0. PICK f: f = Len(bulk) + 1
    OBVIOUS
  <1> DEFINE x == [peer |-> p, fd |-> d, state |-> "live"]
  <1>1. x \in Face /\ x.peer = p /\ x.state = "live"
    BY DEF Face
  <1>2. bulk' = Append(bulk, x)
    BY DEF NewFace
  <1> HIDE DEF x
  <1>3. /\ bulk' \in Seq(Face) /\ Len(bulk) \in Nat /\ Len(bulk') = f /\ f = Len(bulk) + 1
        /\ (\A i \in 1 .. Len(bulk): bulk'[i] = bulk[i]) /\ bulk'[f] = x
    BY <1>0, <1>1, <1>2, FaceAppended DEF RouteInv, RouteTypes
  <1>4. /\ bulkHops' = [bulkHops EXCEPT ![p] = @ \cup {f}]
        /\ strategy' = [strategy EXCEPT ![p] = "measured"]
        /\ pin' = [pin EXCEPT ![p] = f]
    BY <1>0 DEF NewFace
  <1>5. p \in Prefixes /\ Peers \subseteq Prefixes
    BY DEF Prefixes
  <1>6. RouteTypes'
    BY <1>3, <1>4, <1>5 DEF RouteInv, RouteTypes
  <1>7. PinInv'
    <2> SUFFICES ASSUME NEW q \in Peers
                 PROVE  /\ strategy'[q] = "measured" <=> pin'[q] # 0
                        /\ pin'[q] # 0 => /\ pin'[q] \in 1 .. Len(bulk')
                                          /\ Newest(pin[q], q)'
                                          /\ bulk'[pin'[q]].state # "detached"
                        /\ \A g \in 1 .. Len(bulk'):
                               Newest(g, q)' /\ bulk'[g].state # "detached" => pin'[q] = g
      BY DEF PinInv, Newest
    <2>1. CASE q = p
      <3>1. strategy'[q] = "measured" /\ pin'[q] = f /\ f # 0 /\ f \in 1 .. Len(bulk')
        BY <2>1, <1>3, <1>4, <1>5 DEF RouteInv, RouteTypes
      <3>2. Newest(f, q)' /\ bulk'[f].state # "detached"
        BY <2>1, <1>1, <1>3 DEF Newest
      <3>3. ASSUME NEW g \in 1 .. Len(bulk'), Newest(g, q)' PROVE g = f
        <4>1. g # f => f \in g + 1 .. Len(bulk')
          BY <1>3
        <4> QED BY <2>1, <3>3, <4>1, <1>1, <1>3 DEF Newest
      <3> QED BY <3>1, <3>2, <3>3 DEF Newest
    <2>2. CASE q # p
      <3>1. strategy'[q] = strategy[q] /\ pin'[q] = pin[q] /\ pin[q] \in Nat
        BY <2>2, <1>4, <1>5 DEF RouteInv, RouteTypes
      <3>2. /\ strategy[q] = "measured" <=> pin[q] # 0
            /\ pin[q] # 0 => /\ pin[q] \in 1 .. Len(bulk) /\ Newest(pin[q], q)
                             /\ bulk[pin[q]].state # "detached"
            /\ \A g \in 1 .. Len(bulk): Newest(g, q) /\ bulk[g].state # "detached" => pin[q] = g
        BY DEF RouteInv, PinInv
      <3>3. bulk'[f].peer # q
        BY <2>2, <1>1, <1>3
      <3>4. ASSUME NEW g \in 1 .. Len(bulk)
            PROVE  /\ Newest(g, q)' <=> Newest(g, q)
                   /\ bulk'[g] = bulk[g] /\ g \in 1 .. Len(bulk')
        <4>1. g + 1 .. Len(bulk') = (g + 1 .. Len(bulk)) \cup {f}
          BY <1>3
        <4>2. \A h \in g + 1 .. Len(bulk): bulk'[h] = bulk[h]
          BY <1>3
        <4> QED BY <3>3, <4>1, <4>2, <1>3 DEF Newest
      <3>5. \A g \in 1 .. Len(bulk'): g \in 1 .. Len(bulk) \/ g = f
        BY <1>3
      <3>6. ~Newest(f, q)'
        BY <3>3 DEF Newest
      <3>7. pin'[q] # 0 => /\ pin'[q] \in 1 .. Len(bulk') /\ Newest(pin[q], q)'
                           /\ bulk'[pin'[q]].state # "detached"
        BY <3>1, <3>2, <3>4 DEF Newest
      <3> QED BY <3>1, <3>2, <3>4, <3>5, <3>6, <3>7 DEF Newest
    <2> QED BY <2>1, <2>2
  <1>8. RoutesAlive'
    <2> SUFFICES ASSUME NEW q \in Prefixes
                 PROVE  /\ radioHops'[q] \subseteq radios'
                        /\ \A g \in bulkHops'[q]: g \in 1 .. Len(bulk') /\ bulk'[g].state # "detached"
      BY DEF RoutesAlive
    <2>1. radioHops'[q] \subseteq radios'
      BY DEF RouteInv, RoutesAlive
    <2>2. ASSUME NEW g \in bulkHops'[q]
          PROVE  g \in 1 .. Len(bulk') /\ bulk'[g].state # "detached"
      <3>1. g \in bulkHops[q] \/ g = f
        BY <2>2, <1>4, <1>5 DEF RouteInv, RouteTypes
      <3>2. CASE g = f
        BY <3>2, <1>1, <1>3
      <3>3. CASE g \in bulkHops[q]
        BY <3>3, <1>3 DEF RouteInv, RoutesAlive
      <3> QED BY <3>1, <3>2, <3>3
    <2> QED BY <2>1, <2>2
  <1> QED BY <1>6, <1>7, <1>8 DEF RouteInv

\* A new default route touches no peer's prefix.
LEMMA AttachRadioRoutes ==
    ASSUME RouteInv, NEW k \in Radios, AttachRadio(k)
    PROVE  RouteInv'
  <1> USE NameAssumption DEF RouteInv, RouteTypes, AttachRadio, Prefixes
  <1>1. RouteTypes'
    OBVIOUS
  <1>2. PinInv'
    BY DEF PinInv, Newest
  <1>3. RoutesAlive'
    BY DEF RoutesAlive
  <1> QED BY <1>1, <1>2, <1>3

\* A beacon adds a nexthop to a radio that has a face, and fans an unpinned
\* prefix out.
LEMMA NotePeerRoutes ==
    ASSUME RouteInv, NEW t \in Beacons, NEW p \in Peers, NEW k \in Radios, NEW n \in Net,
           NotePeer(t, p, k, n)
    PROVE  RouteInv'
  <1> USE DEF RouteInv, RouteTypes, NotePeer, Prefixes
  <1>1. RouteTypes'
    OBVIOUS
  <1>2. PinInv'
    <2> SUFFICES ASSUME NEW q \in Peers PROVE strategy'[q] = "measured" <=> strategy[q] = "measured"
      BY DEF PinInv, Newest
    <2>1. CASE strategy' = strategy
      BY <2>1
    <2>2. CASE strategy' = [strategy EXCEPT ![p] = "fan"] /\ ~Pinned(p)
      BY <2>2 DEF Pinned, PinInv
    <2> QED BY <2>1, <2>2
  <1>3. RoutesAlive'
    BY DEF RoutesAlive, HasFace
  <1> QED BY <1>1, <1>2, <1>3

\* A step that adds no face leaves the newest ones.
LEMMA PeersKept ==
    ASSUME bulk \in Seq(Face), Len(bulk') = Len(bulk),
           \A g \in 1 .. Len(bulk): bulk'[g].peer = bulk[g].peer,
           NEW q, NEW g \in 1 .. Len(bulk)
    PROVE  Newest(g, q)' <=> Newest(g, q)
  <1>1. Len(bulk) \in Nat
    OBVIOUS
  <1>2. \A h \in g + 1 .. Len(bulk): h \in 1 .. Len(bulk)
    BY <1>1
  <1> QED BY <1>2 DEF Newest

\* A detached face loses every pin and nexthop it had.
LEMMA DetachRoutes ==
    ASSUME RouteInv, NEW f \in 1 .. Len(bulk), Detach(f)
    PROVE  RouteInv'
  <1> USE DEF RouteInv
  <1>1. /\ bulk' = [bulk EXCEPT ![f].state = "detached"]
        /\ bulkHops' = [q \in Prefixes |-> bulkHops[q] \ {f}]
        /\ pin' = [q \in Peers |-> IF pin[q] = f THEN 0 ELSE pin[q]]
        /\ strategy' = [q \in Prefixes |-> IF q \in Reverted(f) THEN "fan" ELSE strategy[q]]
        /\ UNCHANGED <<radios, radioHops>>
    BY DEF Detach
  <1>2. /\ bulk' \in Seq(Face) /\ Len(bulk') = Len(bulk)
        /\ \A g \in 1 .. Len(bulk): /\ bulk'[g].peer = bulk[g].peer
                                    /\ g # f => bulk'[g] = bulk[g]
    <2>1. bulk \in Seq(Face) /\ bulk[f] \in Face
      BY DEF RouteTypes
    <2> DEFINE y == [bulk[f] EXCEPT !.state = "detached"]
    <2>2. bulk' = [bulk EXCEPT ![f] = y]
      BY <1>1
    <2>3. y \in Face /\ y.peer = bulk[f].peer
      BY <2>1 DEF Face
    <2> HIDE DEF y
    <2> QED BY <2>1, <2>2, <2>3
  <1>3. RouteTypes'
    BY <1>1, <1>2 DEF RouteTypes
  <1>4. PinInv'
    <2> SUFFICES ASSUME NEW q \in Peers
                 PROVE  /\ strategy'[q] = "measured" <=> pin'[q] # 0
                        /\ pin'[q] # 0 => /\ pin'[q] \in 1 .. Len(bulk')
                                          /\ Newest(pin[q], q)'
                                          /\ bulk'[pin'[q]].state # "detached"
                        /\ \A g \in 1 .. Len(bulk'):
                               Newest(g, q)' /\ bulk'[g].state # "detached" => pin'[q] = g
      BY DEF PinInv, Newest
    <2>1. q \in Prefixes
      BY DEF Prefixes
    <2>2. \A g \in 1 .. Len(bulk): Newest(g, q)' <=> Newest(g, q)
      BY <1>2, PeersKept DEF RouteTypes
    <2>3. bulk'[f].state = "detached" /\ pin[q] \in Nat
      BY <1>1 DEF RouteTypes
    <2>4. /\ strategy[q] = "measured" <=> pin[q] # 0
          /\ pin[q] # 0 => /\ pin[q] \in 1 .. Len(bulk) /\ Newest(pin[q], q)
                           /\ bulk[pin[q]].state # "detached"
          /\ \A g \in 1 .. Len(bulk): Newest(g, q) /\ bulk[g].state # "detached" => pin[q] = g
      BY DEF PinInv
    <2>5. CASE pin[q] = f
      <3>1. strategy'[q] = "fan" /\ pin'[q] = 0
        BY <1>1, <2>1, <2>5 DEF Reverted
      <3>2. ASSUME NEW g \in 1 .. Len(bulk), Newest(g, q), g # f PROVE FALSE
        <4>1. Newest(f, q)
          BY <2>4, <2>5
        <4>2. g \in f + 1 .. Len(bulk) \/ f \in g + 1 .. Len(bulk)
          BY <3>2 DEF RouteTypes
        <4> QED BY <3>2, <4>1, <4>2 DEF Newest
      <3> QED BY <1>2, <2>2, <2>3, <3>1, <3>2
    <2>6. CASE pin[q] # f
      <3>1. strategy'[q] = strategy[q] /\ pin'[q] = pin[q]
        BY <1>1, <2>1, <2>6 DEF Reverted
      <3>2. pin'[q] # 0 => /\ pin'[q] \in 1 .. Len(bulk') /\ Newest(pin[q], q)'
                           /\ bulk'[pin'[q]].state # "detached"
        BY <1>2, <2>2, <2>4, <2>6, <3>1 DEF Newest
      <3> QED BY <1>2, <2>2, <2>3, <2>4, <3>1, <3>2
    <2> QED BY <2>5, <2>6
  <1>5. RoutesAlive'
    BY <1>1, <1>2 DEF RoutesAlive
  <1> QED BY <1>3, <1>4, <1>5

\* Suspending detaches nothing.
LEMMA SuspendRoutes ==
    ASSUME RouteInv, Suspend
    PROVE  RouteInv'
  <1> USE DEF RouteInv
  <1>1. /\ bulk' = [g \in 1 .. Len(bulk) |->
                      IF g \in Cancelled THEN [bulk[g] EXCEPT !.state = "cancelled"] ELSE bulk[g]]
        /\ UNCHANGED <<radios, radioHops, strategy, pin>>
    BY DEF Suspend
  <1>2. /\ bulk' \in Seq(Face) /\ Len(bulk') = Len(bulk)
        /\ \A g \in 1 .. Len(bulk): /\ bulk'[g].peer = bulk[g].peer
                                    /\ bulk[g].state # "detached" => bulk'[g].state # "detached"
    <2> DEFINE y(g) == IF g \in Cancelled THEN [bulk[g] EXCEPT !.state = "cancelled"] ELSE bulk[g]
    <2>1. bulk \in Seq(Face) /\ Len(bulk) \in Nat
      BY DEF RouteTypes
    <2>2. bulk' = [g \in 1 .. Len(bulk) |-> y(g)]
      BY <1>1
    <2>3. \A g \in 1 .. Len(bulk): /\ y(g) \in Face /\ y(g).peer = bulk[g].peer
                                   /\ bulk[g].state # "detached" => y(g).state # "detached"
      <3> SUFFICES ASSUME NEW g \in 1 .. Len(bulk)
                   PROVE  /\ y(g) \in Face /\ y(g).peer = bulk[g].peer
                          /\ bulk[g].state # "detached" => y(g).state # "detached"
        OBVIOUS
      <3>1. bulk[g] \in Face
        BY <2>1
      <3> QED BY <3>1 DEF Face
    <2> HIDE DEF y
    <2>4. bulk' \in Seq(Face) /\ Len(bulk') = Len(bulk)
      BY <2>1, <2>2, <2>3
    <2> QED BY <2>2, <2>3, <2>4
  <1>3. /\ bulkHops' \in [Prefixes -> SUBSET Nat]
        /\ \A q \in Prefixes: bulkHops'[q] \subseteq bulkHops[q]
    BY DEF Suspend, RouteTypes
  <1>4. RouteTypes'
    BY <1>1, <1>2, <1>3 DEF RouteTypes
  <1>5. PinInv'
    <2>1. \A q \in Peers, g \in 1 .. Len(bulk): Newest(g, q)' <=> Newest(g, q)
      BY <1>2, PeersKept DEF RouteTypes
    <2>2. \A g \in 1 .. Len(bulk): bulk'[g].state = "detached" => bulk[g].state = "detached"
      BY <1>2
    <2>3. \A g \in 1 .. Len(bulk): bulk[g].state = "detached" => bulk'[g].state = "detached"
      BY <1>1 DEF Cancelled
    <2> SUFFICES ASSUME NEW q \in Peers
                 PROVE  /\ strategy'[q] = "measured" <=> pin'[q] # 0
                        /\ pin'[q] # 0 => /\ pin'[q] \in 1 .. Len(bulk')
                                          /\ Newest(pin[q], q)'
                                          /\ bulk'[pin'[q]].state # "detached"
                        /\ \A g \in 1 .. Len(bulk'):
                               Newest(g, q)' /\ bulk'[g].state # "detached" => pin'[q] = g
      BY DEF PinInv, Newest
    <2>4. pin'[q] # 0 => /\ pin'[q] \in 1 .. Len(bulk') /\ Newest(pin[q], q)'
                         /\ bulk'[pin'[q]].state # "detached"
      BY <1>1, <1>2, <2>1, <2>2 DEF PinInv, Newest
    <2> QED BY <1>1, <1>2, <2>1, <2>3, <2>4 DEF PinInv
  <1>6. RoutesAlive'
    BY <1>1, <1>2, <1>3 DEF RoutesAlive
  <1> QED BY <1>4, <1>5, <1>6

----------------------------------------------------------------------------
(* The tunnel's cells and threads                                          *)

CellInv == CellTypes /\ PeerKnown

\* Only one thread is inside note_peer, so its place may change freely.
LEMMA BeaconMoves ==
    ASSUME CellInv, NEW t \in Beacons,
           NEW b \in Beacon, beacon' = [beacon EXCEPT ![t] = b],
           \A u \in Beacons \ {t}: beacon[u].pc = "idle",
           b.pc # "idle" => b.peer \in Peers
    PROVE  /\ beacon' \in [Beacons -> Beacon] /\ PeerKnown'
           /\ \A v, u \in Beacons: v # u => "idle" \in {beacon'[v].pc, beacon'[u].pc}
  <1> USE DEF CellInv, CellTypes
  <1>1. \A u \in Beacons: beacon'[u] = IF u = t THEN b ELSE beacon[u]
    OBVIOUS
  <1>2. PeerKnown'
    BY <1>1 DEF PeerKnown
  <1> QED BY <1>1, <1>2

LEMMA NotePeerCells ==
    ASSUME CellInv, NEW t \in Beacons, NEW p \in Peers, NEW k \in Radios, NEW n \in Net,
           NotePeer(t, p, k, n)
    PROVE  CellInv'
  <1> DEFINE b == IF n = NoNet THEN Idle ELSE [pc |-> "read", peer |-> p, net |-> n, fd |-> 0]
  <1>1. 0 \in Fd /\ NoNet \in Net /\ p \in Prefixes /\ Root \in Prefixes
    BY BoundAssumption DEF Fd, Net, Prefixes
  <1>2. b \in Beacon /\ (b.pc # "idle" => b.peer \in Peers)
    BY <1>1 DEF Beacon, Idle
  <1>3. beacon' = [beacon EXCEPT ![t] = b]
    BY DEF NotePeer
  <1>4. \A u \in Beacons \ {t}: beacon[u].pc = "idle"
    BY DEF NotePeer, InnerFree
  <1>5. UNCHANGED <<localNet, reserved, fd, given, closed, host>>
    BY DEF NotePeer, tunnelVars, fdVars
  <1> HIDE DEF b
  <1>6. /\ beacon' \in [Beacons -> Beacon] /\ PeerKnown'
        /\ \A v, u \in Beacons: v # u => "idle" \in {beacon'[v].pc, beacon'[u].pc}
    BY <1>2, <1>3, <1>4, BeaconMoves
  <1> QED BY <1>5, <1>6 DEF CellInv, CellTypes

\* A thread inside the attach is the only one, and every step moves it on.
LEMMA TunnelMoves ==
    ASSUME CellInv, NEW t \in Beacons, Tunnel(t)
    PROVE  /\ beacon[t].pc # "idle" /\ beacon[t] \in Beacon /\ beacon[t].peer \in Peers
           /\ \A u \in Beacons \ {t}: beacon[u].pc = "idle"
           /\ \E b \in Beacon: /\ beacon' = [beacon EXCEPT ![t] = b]
                               /\ b.pc # "idle" => b.peer \in Peers
  <1>1. beacon[t].pc # "idle"
    BY DEF Tunnel, ReadNet, Reserve, TakeFd, AttachTunnel, AttachFails, Undo
  <1>2. beacon[t] \in Beacon /\ beacon[t].peer \in Peers
    BY <1>1 DEF CellInv, CellTypes, PeerKnown
  <1>3. \A u \in Beacons \ {t}: beacon[u].pc = "idle"
    BY <1>1 DEF CellInv, CellTypes
  <1>4. \E b \in Beacon: beacon' = [beacon EXCEPT ![t] = b] /\ (b.pc # "idle" => b.peer \in Peers)
    <2>1. 0 \in Fd /\ fd \in Fd /\ beacon \in [Beacons -> Beacon]
      BY BoundAssumption DEF CellInv, CellTypes, Fd
    <2>2. CASE beacon' = [beacon EXCEPT ![t] = Idle]
      <3>1. Idle \in Beacon /\ Idle.pc = "idle"
        BY <2>1 DEF Idle, Beacon, Net, Prefixes
      <3> QED BY <2>2, <3>1
    <2>3. ASSUME NEW s \in {"reserve", "take", "undo"}, beacon' = [beacon EXCEPT ![t].pc = s]
          PROVE  \E b \in Beacon: beacon' = [beacon EXCEPT ![t] = b] /\ b.peer \in Peers
      <3> DEFINE b == [beacon[t] EXCEPT !.pc = s]
      <3>1. b \in Beacon /\ b.peer \in Peers
        BY <1>2 DEF Beacon
      <3> QED BY <2>3, <3>1
    <2>4. ASSUME NEW s \in {"undo", "attach"}, NEW d \in Fd,
                 beacon' = [beacon EXCEPT ![t].pc = s, ![t].fd = d]
          PROVE  \E b \in Beacon: beacon' = [beacon EXCEPT ![t] = b] /\ b.peer \in Peers
      <3> DEFINE b == [beacon[t] EXCEPT !.pc = s, !.fd = d]
      <3>1. b \in Beacon /\ b.peer \in Peers
        BY <1>2 DEF Beacon
      <3>2. beacon' = [beacon EXCEPT ![t] = b]
        BY <2>1, <2>4
      <3> HIDE DEF b
      <3> QED BY <3>1, <3>2
    <2>5. \/ beacon' = [beacon EXCEPT ![t] = Idle]
          \/ \E s \in {"reserve", "take", "undo"}: beacon' = [beacon EXCEPT ![t].pc = s]
          \/ beacon' = [beacon EXCEPT ![t].pc = "attach", ![t].fd = fd]
          \/ beacon' = [beacon EXCEPT ![t].pc = "undo", ![t].fd = 0]
      BY DEF Tunnel, ReadNet, Reserve, TakeFd, AttachTunnel, AttachFails, Undo, Goto, Done
    <2> QED BY <2>1, <2>2, <2>3, <2>4, <2>5
  <1> QED BY <1>1, <1>2, <1>3, <1>4

LEMMA TunnelCells ==
    ASSUME CellInv, NEW t \in Beacons, Tunnel(t)
    PROVE  CellInv'
  <1>1. PICK b \in Beacon: /\ beacon' = [beacon EXCEPT ![t] = b]
                           /\ b.pc # "idle" => b.peer \in Peers
    BY TunnelMoves
  <1>2. /\ beacon' \in [Beacons -> Beacon] /\ PeerKnown'
        /\ \A v, u \in Beacons: v # u => "idle" \in {beacon'[v].pc, beacon'[u].pc}
    BY <1>1, TunnelMoves, BeaconMoves
  <1>3. beacon[t].net \in Net /\ beacon[t].fd \in Fd /\ NoNet \in Net /\ Taken \in Fd
    BY TunnelMoves, BoundAssumption DEF Beacon, Net, Taken, Fd
  <1>4. UNCHANGED <<localNet, given, host>>
    BY DEF Tunnel, ReadNet, Reserve, TakeFd, AttachTunnel, AttachFails, Undo, tunnelVars, fdVars
  <1>5. reserved' \in [Peers -> Net]
    <2>1. \/ reserved' = reserved
          \/ \E n \in {NoNet, beacon[t].net}: reserved' = [reserved EXCEPT ![beacon[t].peer] = n]
      BY DEF Tunnel, ReadNet, Reserve, TakeFd, AttachTunnel, AttachFails, Undo, tunnelVars
    <2> QED BY <1>3, <2>1 DEF CellInv, CellTypes
  <1>6. fd' \in Fd
    <2>1. fd' \in {fd, Taken}
      BY DEF Tunnel, ReadNet, Reserve, TakeFd, AttachTunnel, AttachFails, Undo, fdVars
    <2> QED BY <1>3, <2>1 DEF CellInv, CellTypes
  <1>7. closed' \in Seq(Fd)
    <2>1. closed' = closed \/ closed' = Append(closed, beacon[t].fd)
      BY DEF Tunnel, ReadNet, Reserve, TakeFd, AttachTunnel, AttachFails, Undo, fdVars
    <2> QED BY <1>3, <2>1 DEF CellInv, CellTypes
  <1> QED BY <1>2, <1>4, <1>5, <1>6, <1>7 DEF CellInv, CellTypes

LEMMA PlatformCells ==
    ASSUME CellInv, NEW h \in Hosts, Platform(h)
    PROVE  CellInv'
  <1> USE DEF CellInv, CellTypes
  <1>1. beacon' = beacon
    BY DEF Platform, SetAddr, SetSocket, Rearm
  <1>2. PeerKnown'
    BY <1>1 DEF PeerKnown
  <1>3. localNet' \in Net /\ host' \in [Hosts -> {"idle", "addr", "socket"}]
    BY DEF Platform, SetAddr, SetSocket, Rearm, tunnelVars
  <1>4. reserved' \in [Peers -> Net]
    BY DEF Platform, SetAddr, SetSocket, Rearm, Rearmed, Net, tunnelVars
  <1>5. fd' \in Fd /\ given' \in Fd
    BY BoundAssumption DEF Platform, SetAddr, SetSocket, Rearm, Fd, fdVars
  <1>6. closed' \in Seq(Fd)
    BY DEF Platform, SetAddr, SetSocket, Rearm, Unused, fdVars
  <1> QED BY <1>1, <1>2, <1>3, <1>4, <1>5, <1>6

LEMMA CellsUnmoved ==
    ASSUME CellInv, UNCHANGED <<beacon, tunnelVars, fdVars, host>>
    PROVE  CellInv'
  BY DEF CellInv, CellTypes, PeerKnown, tunnelVars, fdVars

----------------------------------------------------------------------------
(* The two parts together                                                  *)

LEMMA Parts == RInv <=> RouteInv /\ CellInv
  BY TypeParts DEF RInv, RouteInv, CellInv

LEMMA InitRInv == Init => RInv
  <1> SUFFICES ASSUME Init PROVE RouteInv /\ CellInv
    BY Parts
  <1> USE DEF Init
  <1>1. RouteInv
    BY DEF RouteInv, RouteTypes, PinInv, Newest, RoutesAlive, Prefixes
  <1>2. 0 \in Fd /\ NoNet \in Net /\ Idle \in Beacon /\ Idle.pc = "idle"
    BY BoundAssumption DEF Fd, Net, Idle, Beacon, Prefixes
  <1>3. CellInv
    BY <1>2 DEF CellInv, CellTypes, PeerKnown
  <1> QED BY <1>1, <1>3

\* Every step of a thread inside the tunnel's attach.
LEMMA TunnelRInv ==
    ASSUME RInv, NEW t \in Beacons, Tunnel(t)
    PROVE  RInv'
  <1>1. CellInv'
    BY TunnelCells, Parts
  <1>2. RouteInv'
    <2>1. beacon[t].peer \in Peers /\ beacon[t].fd \in Fd
      BY TunnelMoves, Parts DEF Beacon
    <2>2. CASE AttachTunnel(t)
      BY <2>1, <2>2, NewFaceRoutes, Parts DEF AttachTunnel
    <2>3. CASE ~AttachTunnel(t)
      <3>1. UNCHANGED <<radios, routeVars, bulk>>
        BY <2>3 DEF Tunnel, ReadNet, Reserve, TakeFd, AttachFails, Undo
      <3> QED BY <3>1, RouteUnmoved, Parts
    <2> QED BY <2>2, <2>3
  <1>3. TypeOK' /\ PeerKnown' /\ PinInv' /\ RoutesAlive'
    BY <1>1, <1>2 DEF CellInv, CellTypes, RouteInv, RouteTypes, TypeOK
  <1> QED BY <1>3 DEF RInv

LEMMA NextRInv ==
    ASSUME RInv, [Next]_vars
    PROVE  RInv'
  <1>1. RouteInv /\ CellInv
    BY Parts
  <1> SUFFICES RouteInv' /\ CellInv'
    BY DEF RInv, RouteInv, RouteTypes, CellInv, CellTypes, TypeOK
  <1>2. CASE UNCHANGED vars
    <2>1. UNCHANGED <<radios, routeVars, bulk>> /\ UNCHANGED <<beacon, tunnelVars, fdVars, host>>
      BY <1>2 DEF vars
    <2> QED BY <1>1, <2>1, RouteUnmoved, CellsUnmoved
  <1>3. CASE Radio
    <2> PICK k \in Radios: AttachRadio(k)
      BY <1>3 DEF Radio
    <2>1. CellInv'
      BY <1>1, CellsUnmoved DEF AttachRadio
    <2> QED BY <1>1, <2>1, AttachRadioRoutes
  <1>4. CASE Suspend
    BY <1>1, <1>4, SuspendRoutes, CellsUnmoved DEF Suspend
  <1>5. ASSUME NEW p \in Peers, AttachBulk(p)
        PROVE  RouteInv' /\ CellInv'
    <2>1. 0 \in Fd
      BY BoundAssumption DEF Fd
    <2>2. NewFace(p, 0) /\ UNCHANGED <<radios, radioHops>>
      BY <1>5 DEF AttachBulk
    <2>3. CellInv'
      BY <1>1, <1>5, CellsUnmoved DEF AttachBulk
    <2> QED BY <1>1, <2>1, <2>2, <2>3, NewFaceRoutes
  <1>6. ASSUME NEW f \in 1 .. Len(bulk), Detach(f)
        PROVE  RouteInv' /\ CellInv'
    BY <1>1, <1>6, DetachRoutes, CellsUnmoved DEF Detach
  <1>7. ASSUME NEW p \in Peers, NEW n \in Net, Heard(p, n)
        PROVE  RouteInv' /\ CellInv'
    BY <1>1, <1>7, NotePeerRoutes, NotePeerCells DEF Heard
  <1>8. ASSUME NEW t \in Beacons, Tunnel(t)
        PROVE  RouteInv' /\ CellInv'
    BY <1>8, TunnelRInv DEF RInv, RouteInv, RouteTypes, CellInv, CellTypes, TypeOK
  <1>9. ASSUME NEW h \in Hosts, Platform(h)
        PROVE  RouteInv' /\ CellInv'
    <2>1. UNCHANGED <<radios, routeVars, bulk>>
      BY <1>9 DEF Platform, SetAddr, SetSocket, Rearm
    <2> QED BY <1>1, <1>9, <2>1, RouteUnmoved, PlatformCells
  <1> QED BY <1>2, <1>3, <1>4, <1>5, <1>6, <1>7, <1>8, <1>9 DEF Next, App

----------------------------------------------------------------------------
(* The owner of a socket                                                   *)

NoThread(d) == \A t \in Beacons: ~Holds(t, d)
NoFace(d)   == \A f \in 1 .. Len(bulk): ~Adopted(f, d)
NotClosed(d) == \A i \in 1 .. Len(closed): ~Closed(i, d)

InThread(d) == \E t \in Beacons: \A u \in Beacons: Holds(u, d) <=> u = t
InFace(d)   == \E f \in 1 .. Len(bulk): \A g \in 1 .. Len(bulk): Adopted(g, d) <=> g = f
ClosedOnce(d) == \E i \in 1 .. Len(closed): \A j \in 1 .. Len(closed): Closed(j, d) <=> j = i

OneOwner(d) ==
    \/ fd = d /\ NoThread(d) /\ NoFace(d) /\ NotClosed(d)
    \/ fd # d /\ InThread(d) /\ NoFace(d) /\ NotClosed(d)
    \/ fd # d /\ NoThread(d) /\ InFace(d) /\ NotClosed(d)
    \/ fd # d /\ NoThread(d) /\ NoFace(d) /\ ClosedOnce(d)

\* A socket that was not handed over yet is nowhere.
NoneAhead ==
    /\ fd <= given
    /\ \A t \in Beacons: beacon[t].fd <= given
    /\ \A f \in 1 .. Len(bulk): bulk[f].fd <= given
    /\ \A i \in 1 .. Len(closed): closed[i] <= given

OwnInv == NoneAhead /\ \A d \in 1 .. given: OneOwner(d)

\* One owner in the sense of the four counts.
LEMMA OwnersCounted == OwnInv => FdOwnedOnce
  <1> SUFFICES ASSUME OwnInv, NEW d \in 1 .. given
               PROVE  (IF fd = d THEN 1 ELSE 0)
                      + Cardinality({t \in Beacons: Holds(t, d)})
                      + Cardinality({f \in 1 .. Len(bulk): Adopted(f, d)})
                      + Cardinality({i \in 1 .. Len(closed): Closed(i, d)}) = 1
    BY DEF FdOwnedOnce
  <1> DEFINE T == {t \in Beacons: Holds(t, d)}
             F == {f \in 1 .. Len(bulk): Adopted(f, d)}
             C == {i \in 1 .. Len(closed): Closed(i, d)}
  <1>1. NoThread(d) => Cardinality(T) = 0
    <2>1. NoThread(d) => T = {}
      BY DEF NoThread
    <2> QED BY <2>1, FS_EmptySet
  <1>2. NoFace(d) => Cardinality(F) = 0
    <2>1. NoFace(d) => F = {}
      BY DEF NoFace
    <2> QED BY <2>1, FS_EmptySet
  <1>3. NotClosed(d) => Cardinality(C) = 0
    <2>1. NotClosed(d) => C = {}
      BY DEF NotClosed
    <2> QED BY <2>1, FS_EmptySet
  <1>4. InThread(d) => Cardinality(T) = 1
    <2> SUFFICES ASSUME NEW t \in Beacons, \A u \in Beacons: Holds(u, d) <=> u = t
                 PROVE  Cardinality(T) = 1
      BY DEF InThread
    <2>1. T = {t}
      OBVIOUS
    <2> QED BY <2>1, FS_Singleton
  <1>5. InFace(d) => Cardinality(F) = 1
    <2> SUFFICES ASSUME NEW f \in 1 .. Len(bulk),
                        \A g \in 1 .. Len(bulk): Adopted(g, d) <=> g = f
                 PROVE  Cardinality(F) = 1
      BY DEF InFace
    <2>1. F = {f}
      OBVIOUS
    <2> QED BY <2>1, FS_Singleton
  <1>6. ClosedOnce(d) => Cardinality(C) = 1
    <2> SUFFICES ASSUME NEW i \in 1 .. Len(closed),
                        \A j \in 1 .. Len(closed): Closed(j, d) <=> j = i
                 PROVE  Cardinality(C) = 1
      BY DEF ClosedOnce
    <2>1. C = {i}
      OBVIOUS
    <2> QED BY <2>1, FS_Singleton
  <1>7. OneOwner(d)
    BY DEF OwnInv
  <1> HIDE DEF T, F, C
  <1>8. (IF fd = d THEN 1 ELSE 0) + Cardinality(T) + Cardinality(F) + Cardinality(C) = 1
    BY <1>1, <1>2, <1>3, <1>4, <1>5, <1>6, <1>7 DEF OneOwner
  <1> QED BY <1>8 DEF T, F, C

\* Steps that move no socket: new faces have none.
LEMMA OwnersKept ==
    ASSUME RInv, OwnInv, UNCHANGED fdVars,
           \A t \in Beacons: /\ beacon'[t].fd <= given
                             /\ \A d \in 1 .. given: Holds(t, d)' <=> Holds(t, d),
           Len(bulk') \in Nat, Len(bulk) <= Len(bulk'),
           \A f \in 1 .. Len(bulk'): bulk'[f].fd = IF f <= Len(bulk) THEN bulk[f].fd ELSE 0
    PROVE  OwnInv'
  <1>1. given \in Nat /\ Len(bulk) \in Nat
    BY BoundAssumption DEF RInv, TypeOK, Fd
  <1>2. UNCHANGED <<fd, given, closed>>
    BY DEF fdVars
  <1>3. NoneAhead'
    BY <1>1, <1>2 DEF OwnInv, NoneAhead
  <1>4. ASSUME NEW d \in 1 .. given
        PROVE  OneOwner(d)'
    <2>1. (NoThread(d) => NoThread(d)') /\ (InThread(d) => InThread(d)')
      BY DEF NoThread, InThread
    <2>2. (NotClosed(d) => NotClosed(d)') /\ (ClosedOnce(d) => ClosedOnce(d)')
      BY <1>2 DEF NotClosed, ClosedOnce, Closed
    <2>3. /\ \A f \in 1 .. Len(bulk): f \in 1 .. Len(bulk') /\ (Adopted(f, d)' <=> Adopted(f, d))
          /\ \A f \in 1 .. Len(bulk'): f \notin 1 .. Len(bulk) => ~Adopted(f, d)'
      BY <1>1 DEF Adopted
    <2>4. NoFace(d) => NoFace(d)'
      BY <2>3 DEF NoFace
    <2>5. InFace(d) => InFace(d)'
      BY <2>3 DEF InFace
    <2>6. OneOwner(d)
      BY DEF OwnInv
    <2> QED BY <1>2, <2>1, <2>2, <2>4, <2>5, <2>6 DEF OneOwner
  <1> QED BY <1>2, <1>3, <1>4 DEF OwnInv

\* The thread takes the socket out of the cell.
LEMMA OwnerTakes ==
    ASSUME RInv, OwnInv, NEW t \in Beacons, TakeFd(t)
    PROVE  OwnInv'
  <1>1. /\ given \in Nat /\ fd \in Nat /\ beacon \in [Beacons -> Beacon]
        /\ UNCHANGED <<bulk, given, closed>> /\ beacon[t].pc = "take"
        /\ \A u \in Beacons: u # t => beacon'[u] = beacon[u]
    BY DEF RInv, TypeOK, Fd, TakeFd, Goto
  <1>2. CASE fd = 0 /\ fd' = fd
    <2>1. beacon'[t].pc = "undo" /\ beacon'[t].fd = beacon[t].fd
      BY <1>1, <1>2 DEF TakeFd, Goto, Beacon
    <2>2. \A u \in Beacons: beacon'[u].fd <= given /\ \A d \in 1 .. given: Holds(u, d)' <=> Holds(u, d)
      BY <1>1, <2>1 DEF Holds, OwnInv, NoneAhead
    <2>3. \A f \in 1 .. Len(bulk): bulk'[f].fd = bulk[f].fd
      BY <1>1
    <2>4. Len(bulk) \in Nat
      BY DEF RInv, TypeOK
    <2> QED BY <1>1, <1>2, <2>2, <2>3, <2>4, OwnersKept DEF fdVars
  <1>3. CASE fd # 0 /\ fd' = 0
    <2>1. beacon' = [beacon EXCEPT ![t].pc = "attach", ![t].fd = fd]
      BY <1>3 DEF TakeFd
    <2>2. beacon'[t].pc = "attach" /\ beacon'[t].fd = fd
      BY <1>1, <2>1 DEF Beacon
    <2>3. NoneAhead'
      BY <1>1, <1>3, <2>2 DEF OwnInv, NoneAhead
    <2>4. ASSUME NEW d \in 1 .. given
          PROVE  OneOwner(d)'
      <3>1. OneOwner(d) /\ fd' # d
        BY <1>3 DEF OwnInv
      <3>2. /\ (NoFace(d)' <=> NoFace(d)) /\ (InFace(d)' <=> InFace(d))
            /\ (NotClosed(d)' <=> NotClosed(d)) /\ (ClosedOnce(d)' <=> ClosedOnce(d))
        BY <1>1 DEF NoFace, InFace, NotClosed, ClosedOnce, Adopted, Closed
      <3>3. \A u \in Beacons: Holds(u, d)' <=> (Holds(u, d) \/ (u = t /\ fd = d))
        <4> SUFFICES ASSUME NEW u \in Beacons
                     PROVE  Holds(u, d)' <=> (Holds(u, d) \/ (u = t /\ fd = d))
          OBVIOUS
        <4>1. CASE u = t
          BY <1>1, <2>2, <4>1 DEF Holds
        <4>2. CASE u # t
          BY <1>1, <4>2 DEF Holds
        <4> QED BY <4>1, <4>2
      <3>4. CASE fd = d
        <4>1. NoThread(d) /\ NoFace(d) /\ NotClosed(d)
          BY <3>1, <3>4 DEF OneOwner
        <4>2. InThread(d)'
          BY <3>3, <3>4, <4>1 DEF InThread, NoThread
        <4> QED BY <3>1, <3>2, <4>1, <4>2 DEF OneOwner
      <3>5. CASE fd # d
        <4>1. (NoThread(d)' <=> NoThread(d)) /\ (InThread(d)' <=> InThread(d))
          BY <3>3, <3>5 DEF NoThread, InThread
        <4> QED BY <3>1, <3>2, <3>5, <4>1 DEF OneOwner
      <3> QED BY <3>4, <3>5
    <2> QED BY <1>1, <2>3, <2>4 DEF OwnInv
  <1> QED BY <1>2, <1>3 DEF TakeFd, Taken

\* The new face adopts the thread's socket.
LEMMA OwnerAdopts ==
    ASSUME RInv, OwnInv, NEW t \in Beacons, AttachTunnel(t)
    PROVE  OwnInv'
  <1> DEFINE n == Len(bulk) + 1
             x == [peer |-> beacon[t].peer, fd |-> beacon[t].fd, state |-> "live"]
  <1>1. /\ given \in Nat /\ beacon \in [Beacons -> Beacon] /\ bulk \in Seq(Face)
        /\ UNCHANGED <<fd, given, closed>> /\ beacon[t].pc = "attach"
    BY DEF RInv, TypeOK, Fd, AttachTunnel, fdVars
  <1>2. beacon[t].fd \in Fd /\ beacon[t].peer \in Peers /\ x \in Face /\ x.fd = beacon[t].fd
    BY <1>1 DEF Beacon, Face, RInv, PeerKnown
  <1>3. bulk' = Append(bulk, x)
    BY DEF AttachTunnel, NewFace
  <1> HIDE DEF x
  <1>4. /\ Len(bulk) \in Nat /\ Len(bulk') = n /\ bulk'[n].fd = beacon[t].fd
        /\ \A f \in 1 .. Len(bulk): bulk'[f] = bulk[f]
    BY <1>1, <1>2, <1>3, FaceAppended
  <1>5. /\ beacon'[t].pc = "idle" /\ beacon'[t].fd = 0
        /\ \A u \in Beacons: u # t => beacon'[u] = beacon[u]
    BY <1>1 DEF AttachTunnel, Done, Idle
  <1>6. NoneAhead'
    <2>1. beacon[t].fd <= given
      BY DEF OwnInv, NoneAhead
    <2>2. \A f \in 1 .. Len(bulk'): bulk'[f].fd <= given
      BY <1>4, <2>1 DEF OwnInv, NoneAhead
    <2> QED BY <1>1, <1>5, <2>2 DEF OwnInv, NoneAhead
  <1>7. ASSUME NEW d \in 1 .. given
        PROVE  OneOwner(d)'
    <2>1. OneOwner(d)
      BY DEF OwnInv
    <2>2. (NotClosed(d)' <=> NotClosed(d)) /\ (ClosedOnce(d)' <=> ClosedOnce(d))
      BY <1>1 DEF NotClosed, ClosedOnce, Closed
    <2>3. /\ \A u \in Beacons: Holds(u, d)' <=> Holds(u, d) /\ u # t
          /\ Holds(t, d) <=> beacon[t].fd = d
      BY <1>1, <1>5 DEF Holds
    <2>4. /\ \A f \in 1 .. Len(bulk): Adopted(f, d)' <=> Adopted(f, d)
          /\ \A f \in 1 .. Len(bulk'): f = n => (Adopted(f, d)' <=> beacon[t].fd = d)
          /\ 1 .. Len(bulk') = 1 .. Len(bulk) \cup {n} /\ n \notin 1 .. Len(bulk)
      BY <1>4 DEF Adopted
    <2> HIDE DEF n
    <2>5. CASE beacon[t].fd = d
      <3>1. fd # d /\ InThread(d) /\ NoFace(d) /\ NotClosed(d)
        BY <2>1, <2>3, <2>5 DEF OneOwner, NoThread
      <3>2. NoThread(d)'
        BY <2>3, <2>5, <3>1 DEF NoThread, InThread
      <3>3. InFace(d)'
        <4>1. \A g \in 1 .. Len(bulk'): Adopted(g, d)' <=> g = n
          BY <2>4, <2>5, <3>1 DEF NoFace
        <4> QED BY <2>4, <4>1 DEF InFace
      <3> QED BY <1>1, <2>2, <3>1, <3>2, <3>3 DEF OneOwner
    <2>6. CASE beacon[t].fd # d
      <3>1. (NoThread(d)' <=> NoThread(d)) /\ (InThread(d) => InThread(d)')
        BY <2>3, <2>6 DEF NoThread, InThread
      <3>2. NoFace(d) => NoFace(d)'
        BY <2>4, <2>6 DEF NoFace
      <3>3. InFace(d) => InFace(d)'
        BY <2>4, <2>6 DEF InFace
      <3> QED BY <1>1, <2>1, <2>2, <3>1, <3>2, <3>3 DEF OneOwner
    <2> QED BY <2>5, <2>6
  <1> QED BY <1>1, <1>6, <1>7 DEF OwnInv

\* A failed attach closes the thread's socket.
LEMMA OwnerCloses ==
    ASSUME RInv, OwnInv, NEW t \in Beacons, AttachFails(t)
    PROVE  OwnInv'
  <1>1. /\ given \in Nat /\ beacon \in [Beacons -> Beacon] /\ closed \in Seq(Fd)
        /\ UNCHANGED <<fd, given, bulk>> /\ beacon[t].pc = "attach"
    BY DEF RInv, TypeOK, Fd, AttachFails
  <1>2. beacon[t].fd \in Fd /\ 0 \in Fd
    BY <1>1, BoundAssumption DEF Beacon, Fd
  <1>3. /\ Len(closed) \in Nat /\ Len(closed') = Len(closed) + 1
        /\ closed'[Len(closed) + 1] = beacon[t].fd
        /\ \A i \in 1 .. Len(closed): closed'[i] = closed[i]
    BY <1>1, <1>2 DEF AttachFails
  <1>4. /\ beacon'[t].pc = "undo" /\ beacon'[t].fd = 0
        /\ \A u \in Beacons: u # t => beacon'[u] = beacon[u]
    BY <1>1 DEF AttachFails, Beacon
  <1>5. NoneAhead'
    <2>1. beacon[t].fd <= given
      BY DEF OwnInv, NoneAhead
    <2>2. \A i \in 1 .. Len(closed'): closed'[i] <= given
      BY <1>3, <2>1 DEF OwnInv, NoneAhead
    <2> QED BY <1>1, <1>4, <2>2 DEF OwnInv, NoneAhead
  <1>6. ASSUME NEW d \in 1 .. given
        PROVE  OneOwner(d)'
    <2>1. OneOwner(d)
      BY DEF OwnInv
    <2>2. (NoFace(d)' <=> NoFace(d)) /\ (InFace(d)' <=> InFace(d))
      BY <1>1 DEF NoFace, InFace, Adopted
    <2>3. /\ \A u \in Beacons: Holds(u, d)' <=> (Holds(u, d) /\ u # t)
          /\ Holds(t, d) <=> beacon[t].fd = d
      BY <1>1, <1>4 DEF Holds
    <2> PICK n \in Nat: n = Len(closed) + 1
      BY <1>3
    <2>4. /\ \A i \in 1 .. Len(closed): Closed(i, d)' <=> Closed(i, d)
          /\ Closed(n, d)' <=> beacon[t].fd = d
          /\ 1 .. Len(closed') = 1 .. Len(closed) \cup {n} /\ n \notin 1 .. Len(closed)
      BY <1>3 DEF Closed
    <2>5. CASE beacon[t].fd = d
      <3>1. fd # d /\ InThread(d) /\ NoFace(d) /\ NotClosed(d)
        BY <2>1, <2>3, <2>5 DEF OneOwner, NoThread
      <3>2. NoThread(d)'
        BY <2>3, <2>5, <3>1 DEF NoThread, InThread
      <3>3. ClosedOnce(d)'
        <4>1. \A j \in 1 .. Len(closed'): Closed(j, d)' <=> j = n
          BY <2>4, <2>5, <3>1 DEF NotClosed
        <4> QED BY <2>4, <4>1 DEF ClosedOnce
      <3> QED BY <1>1, <2>2, <3>1, <3>2, <3>3 DEF OneOwner
    <2>6. CASE beacon[t].fd # d
      <3>1. (NoThread(d)' <=> NoThread(d)) /\ (InThread(d) => InThread(d)')
        BY <2>3, <2>6 DEF NoThread, InThread
      <3>2. NotClosed(d) => NotClosed(d)'
        BY <2>4, <2>6 DEF NotClosed
      <3>3. ClosedOnce(d) => ClosedOnce(d)'
        BY <2>4, <2>6 DEF ClosedOnce
      <3> QED BY <1>1, <2>1, <2>2, <3>1, <3>2, <3>3 DEF OneOwner
    <2> QED BY <2>5, <2>6
  <1> QED BY <1>1, <1>5, <1>6 DEF OwnInv

\* A new socket enters the cell; one still there is closed.
LEMMA OwnerReplaced ==
    ASSUME RInv, OwnInv, NEW h \in Hosts, SetSocket(h)
    PROVE  OwnInv'
  <1>1. /\ given \in Nat /\ fd \in Fd /\ fd \in Nat /\ closed \in Seq(Fd) /\ Len(closed) \in Nat
        /\ beacon \in [Beacons -> Beacon] /\ bulk \in Seq(Face)
        /\ UNCHANGED <<beacon, bulk>> /\ fd' = given + 1 /\ given' = given + 1
    BY DEF RInv, TypeOK, Fd, SetSocket
  <1>2. /\ fd <= given /\ \A t \in Beacons: beacon[t].fd <= given /\ beacon[t].fd \in Nat
        /\ \A f \in 1 .. Len(bulk): bulk[f].fd <= given /\ bulk[f].fd \in Nat
        /\ \A i \in 1 .. Len(closed): closed[i] <= given /\ closed[i] \in Nat
    <2>1. NoneAhead
      BY DEF OwnInv
    <2>2. \A t \in Beacons: beacon[t].fd \in Nat
      <3>1. \A b \in Beacon: b.fd \in Nat
        BY DEF Beacon, Fd
      <3> QED BY <1>1, <3>1
    <2>3. \A f \in 1 .. Len(bulk): bulk[f].fd \in Nat
      <3>1. \A x \in Face: x.fd \in Nat
        BY DEF Face, Fd
      <3>2. \A f \in 1 .. Len(bulk): bulk[f] \in Face
        BY <1>1
      <3> QED BY <3>1, <3>2
    <2>4. \A i \in 1 .. Len(closed): closed[i] \in Nat
      <3>1. \A i \in 1 .. Len(closed): closed[i] \in Fd
        BY <1>1
      <3> QED BY <3>1 DEF Fd
    <2> QED BY <2>1, <2>2, <2>3, <2>4 DEF NoneAhead
  <1>3. \/ fd = 0 /\ closed' = closed
        \/ /\ fd # 0 /\ Len(closed') = Len(closed) + 1 /\ closed'[Len(closed) + 1] = fd
           /\ \A i \in 1 .. Len(closed): closed'[i] = closed[i]
    BY <1>1 DEF SetSocket, Unused
  <1>4. \A i \in 1 .. Len(closed'): closed'[i] <= given /\ closed'[i] \in Nat
    BY <1>1, <1>2, <1>3
  <1>5. NoneAhead'
    BY <1>1, <1>2, <1>4 DEF NoneAhead
  <1>6. ASSUME NEW d \in 1 .. given
        PROVE  OneOwner(d)'
    <2>1. OneOwner(d) /\ fd' # d /\ d # 0
      BY <1>1 DEF OwnInv
    <2>2. /\ (NoThread(d)' <=> NoThread(d)) /\ (InThread(d)' <=> InThread(d))
          /\ (NoFace(d)' <=> NoFace(d)) /\ (InFace(d)' <=> InFace(d))
      BY <1>1 DEF NoThread, InThread, NoFace, InFace, Holds, Adopted
    <2>3. CASE fd = 0 /\ closed' = closed
      <3>1. (NotClosed(d)' <=> NotClosed(d)) /\ (ClosedOnce(d)' <=> ClosedOnce(d))
        BY <2>3 DEF NotClosed, ClosedOnce, Closed
      <3> QED BY <2>1, <2>2, <2>3, <3>1 DEF OneOwner
    <2>4. CASE /\ fd # 0 /\ Len(closed') = Len(closed) + 1 /\ closed'[Len(closed) + 1] = fd
               /\ \A i \in 1 .. Len(closed): closed'[i] = closed[i]
      <3> PICK n \in Nat: n = Len(closed) + 1
        BY <1>1
      <3>1. /\ \A i \in 1 .. Len(closed): Closed(i, d)' <=> Closed(i, d)
            /\ Closed(n, d)' <=> fd = d
            /\ 1 .. Len(closed') = 1 .. Len(closed) \cup {n} /\ n \notin 1 .. Len(closed)
        BY <1>1, <2>4 DEF Closed
      <3>2. CASE fd = d
        <4>1. NoThread(d) /\ NoFace(d) /\ NotClosed(d)
          BY <2>1, <3>2 DEF OneOwner
        <4>2. \A j \in 1 .. Len(closed'): Closed(j, d)' <=> j = n
          BY <3>1, <3>2, <4>1 DEF NotClosed
        <4>3. ClosedOnce(d)'
          BY <3>1, <4>2 DEF ClosedOnce
        <4> QED BY <2>1, <2>2, <4>1, <4>3 DEF OneOwner
      <3>3. CASE fd # d
        <4>1. NotClosed(d) => NotClosed(d)'
          BY <3>1, <3>3 DEF NotClosed
        <4>2. ClosedOnce(d) => ClosedOnce(d)'
          BY <3>1, <3>3 DEF ClosedOnce
        <4> QED BY <2>1, <2>2, <3>3, <4>1, <4>2 DEF OneOwner
      <3> QED BY <3>2, <3>3
    <2> QED BY <1>3, <2>3, <2>4
  <1>7. ASSUME NEW d \in Nat, d = given + 1
        PROVE  OneOwner(d)'
    <2>1. fd' = d
      BY <1>1, <1>7
    <2>2. NoThread(d)'
      BY <1>1, <1>2, <1>7 DEF NoThread, Holds
    <2>3. NoFace(d)'
      BY <1>1, <1>2, <1>7 DEF NoFace, Adopted
    <2>4. NotClosed(d)'
      BY <1>1, <1>4, <1>7 DEF NotClosed, Closed
    <2> QED BY <2>1, <2>2, <2>3, <2>4 DEF OneOwner
  <1> QED BY <1>1, <1>5, <1>6, <1>7 DEF OwnInv

LEMMA InitOwnInv == Init => OwnInv
  BY DEF Init, OwnInv, NoneAhead, Idle

LEMMA NextOwnInv ==
    ASSUME RInv, OwnInv, [Next]_vars
    PROVE  OwnInv'
  <1>1. Len(bulk) \in Nat /\ bulk \in Seq(Face) /\ beacon \in [Beacons -> Beacon]
    BY DEF RInv, TypeOK
  <1>2. \A t \in Beacons: beacon[t].fd <= given
    BY DEF OwnInv, NoneAhead
  <1>3. ASSUME UNCHANGED <<beacon, bulk, fdVars>>
        PROVE  OwnInv'
    <2>1. beacon' = beacon /\ bulk' = bulk
      BY <1>3
    <2>2. \A t \in Beacons: \A d \in 1 .. given: Holds(t, d)' <=> Holds(t, d)
      BY <2>1 DEF Holds
    <2> HIDE DEF fdVars
    <2> QED BY <1>1, <1>2, <1>3, <2>1, <2>2, OwnersKept
  <1>4. CASE UNCHANGED vars
    BY <1>3, <1>4 DEF vars
  <1>5. CASE Radio
    BY <1>3, <1>5 DEF Radio, AttachRadio
  <1>6. ASSUME UNCHANGED <<beacon, fdVars>>, Len(bulk') = Len(bulk),
               \A f \in 1 .. Len(bulk): bulk'[f].fd = bulk[f].fd
        PROVE  OwnInv'
    <2>1. beacon' = beacon
      BY <1>6
    <2>2. \A t \in Beacons: \A d \in 1 .. given: Holds(t, d)' <=> Holds(t, d)
      BY <2>1 DEF Holds
    <2> QED BY <1>1, <1>2, <1>6, <2>1, <2>2, OwnersKept
  <1>7. CASE Suspend
    <2>1. \A f \in 1 .. Len(bulk): bulk[f] \in Face
      BY <1>1
    <2>2. \A x \in Face: [x EXCEPT !.state = "cancelled"].fd = x.fd
      BY DEF Face
    <2>3. Len(bulk') = Len(bulk) /\ \A f \in 1 .. Len(bulk): bulk'[f].fd = bulk[f].fd
      BY <1>1, <1>7, <2>1, <2>2 DEF Suspend
    <2> QED BY <1>6, <1>7, <2>3 DEF Suspend
  <1>8. ASSUME NEW f \in 1 .. Len(bulk), Detach(f)
        PROVE  OwnInv'
    <2>1. bulk[f] \in Face /\ bulk' = [bulk EXCEPT ![f].state = "detached"]
      BY <1>1, <1>8 DEF Detach
    <2>2. Len(bulk') = Len(bulk) /\ \A g \in 1 .. Len(bulk): bulk'[g].fd = bulk[g].fd
      BY <1>1, <2>1 DEF Face
    <2> QED BY <1>6, <1>8, <2>2 DEF Detach
  <1>9. ASSUME NEW p \in Peers, AttachBulk(p)
        PROVE  OwnInv'
    <2> DEFINE x == [peer |-> p, fd |-> 0, state |-> "live"]
    <2>1. x \in Face /\ x.fd = 0
      BY BoundAssumption DEF Face, Fd
    <2>2. bulk' = Append(bulk, x) /\ UNCHANGED <<beacon, fdVars>>
      BY <1>9 DEF AttachBulk, NewFace
    <2> HIDE DEF x
    <2>3. /\ Len(bulk') = Len(bulk) + 1 /\ bulk'[Len(bulk) + 1].fd = 0
          /\ \A f \in 1 .. Len(bulk): bulk'[f] = bulk[f]
      BY <1>1, <2>1, <2>2, FaceAppended
    <2>4. \A f \in 1 .. Len(bulk'): bulk'[f].fd = IF f <= Len(bulk) THEN bulk[f].fd ELSE 0
      BY <1>1, <2>3
    <2>5. \A t \in Beacons: \A d \in 1 .. given: Holds(t, d)' <=> Holds(t, d)
      BY <2>2 DEF Holds
    <2> QED BY <1>1, <1>2, <2>2, <2>3, <2>4, <2>5, OwnersKept
  <1>10. ASSUME NEW p \in Peers, NEW n \in Net, Heard(p, n)
         PROVE  OwnInv'
    <2> PICK t \in Beacons, k \in Radios: NotePeer(t, p, k, n)
      BY <1>10 DEF Heard
    <2>1. /\ beacon[t].pc = "idle" /\ beacon'[t].pc \in {"idle", "read"} /\ beacon'[t].fd = 0
          /\ \A u \in Beacons: u # t => beacon'[u] = beacon[u]
      BY <1>1 DEF NotePeer, InnerFree, Idle
    <2>2. UNCHANGED <<bulk, fdVars>> /\ given \in Nat
      BY DEF NotePeer, RInv, TypeOK, Fd
    <2>3. \A u \in Beacons: /\ beacon'[u].fd <= given
                            /\ \A d \in 1 .. given: Holds(u, d)' <=> Holds(u, d)
      BY <1>2, <2>1, <2>2 DEF Holds
    <2> QED BY <1>1, <2>2, <2>3, OwnersKept
  <1>11. ASSUME NEW t \in Beacons, Tunnel(t)
         PROVE  OwnInv'
    <2>1. CASE TakeFd(t)
      BY <2>1, OwnerTakes
    <2>2. CASE AttachTunnel(t)
      BY <2>2, OwnerAdopts
    <2>3. CASE AttachFails(t)
      BY <2>3, OwnerCloses
    <2>4. CASE ReadNet(t) \/ Reserve(t) \/ Undo(t)
      <3>1. /\ beacon[t].pc # "attach" /\ beacon'[t].pc # "attach"
            /\ beacon'[t].fd \in {0, beacon[t].fd}
            /\ \A u \in Beacons: u # t => beacon'[u] = beacon[u]
        <4>1. beacon[t] \in Beacon /\ beacon[t].pc \in {"read", "reserve", "undo"}
          BY <1>1, <2>4 DEF ReadNet, Reserve, Undo
        <4>2. \/ beacon' = [beacon EXCEPT ![t] = Idle]
              \/ \E s \in {"reserve", "take"}: beacon' = [beacon EXCEPT ![t].pc = s]
          BY <2>4 DEF ReadNet, Reserve, Undo, Goto, Done
        <4>3. CASE beacon' = [beacon EXCEPT ![t] = Idle]
          BY <1>1, <4>1, <4>3 DEF Idle
        <4>4. ASSUME NEW s \in {"reserve", "take"}, beacon' = [beacon EXCEPT ![t].pc = s]
              PROVE  beacon'[t].pc = s /\ beacon'[t].fd = beacon[t].fd
          BY <1>1, <4>1, <4>4 DEF Beacon
        <4> QED BY <1>1, <4>1, <4>2, <4>3, <4>4
      <3>2. UNCHANGED <<bulk, fdVars>> /\ given \in Nat
        BY <2>4 DEF ReadNet, Reserve, Undo, fdVars, RInv, TypeOK, Fd
      <3>3. \A u \in Beacons: /\ beacon'[u].fd <= given
                              /\ \A d \in 1 .. given: Holds(u, d)' <=> Holds(u, d)
        BY <1>2, <3>1, <3>2 DEF Holds
      <3> QED BY <1>1, <3>2, <3>3, OwnersKept
    <2> QED BY <1>11, <2>1, <2>2, <2>3, <2>4 DEF Tunnel
  <1>12. ASSUME NEW h \in Hosts, Platform(h)
         PROVE  OwnInv'
    <2>1. CASE SetSocket(h)
      BY <2>1, OwnerReplaced
    <2>2. CASE ~SetSocket(h)
      BY <1>3, <1>12, <2>2 DEF Platform, SetAddr, Rearm
    <2> QED BY <2>1, <2>2
  <1> QED BY <1>4, <1>5, <1>7, <1>8, <1>9, <1>10, <1>11, <1>12 DEF Next, App

----------------------------------------------------------------------------
\* note_peer, the attaches, detach_ndp_face, suspend and the tunnel's cells
\* keep every variable in its type, whatever threads call them.
THEOREM TypeCorrect == Spec => []TypeOK
  <1>1. RInv => TypeOK
    BY DEF RInv
  <1> QED BY InitRInv, NextRInv, <1>1, PTL DEF Spec

\* Whatever order beacons, attaches, detaches and suspends come in, a prefix is
\* on the measured strategy exactly while its newest bulk face is not detached.
THEOREM StrategyAgrees == Spec => []StrategyFollowsNewest
  <1>1. RInv => StrategyFollowsNewest
    BY DEF RInv, PinInv, StrategyFollowsNewest
  <1> QED BY InitRInv, NextRInv, <1>1, PTL DEF Spec

\* No nexthop leads to a radio that has no face, or to a detached bulk face.
THEOREM NoDeadRoutes == Spec => []RoutesAlive
  <1>1. RInv => RoutesAlive
    BY DEF RInv
  <1> QED BY InitRInv, NextRInv, <1>1, PTL DEF Spec

\* A socket that was handed over is in the cell, with the one thread that took
\* it, adopted by one face, or closed once: never leaked, closed twice or shared.
THEOREM SocketOwnedOnce == Spec => []FdOwnedOnce
  <1>1. Init => RInv /\ OwnInv
    BY InitRInv, InitOwnInv
  <1>2. RInv /\ OwnInv /\ [Next]_vars => (RInv /\ OwnInv)'
    BY NextRInv, NextOwnInv
  <1>3. OwnInv => FdOwnedOnce
    BY OwnersCounted
  <1> QED BY <1>1, <1>2, <1>3, PTL DEF Spec

----------------------------------------------------------------------------
(* The network faces                                                       *)

\* Faces and supervisors are of tokens made so far. While suspended no call is
\* dialling, and all of them are of tokens made before the current one.
TokensMade ==
    \A p \in NetPeers: /\ table[p] <= token
                    /\ \A i \in Tasks: task[p][i].token <= token

AllOld ==
    ~up => /\ todo = {}
           /\ \A p \in NetPeers: /\ table[p] < token
                              /\ \A i \in Tasks: task[p][i].token < token

NInv == FacesTypeOK /\ TokensMade /\ AllOld /\ SomeoneRedials

LEMMA InitNInv == FacesInit => NInv
  <1> SUFFICES ASSUME FacesInit PROVE NInv
    OBVIOUS
  <1> USE TokenAssumption DEF FacesInit
  <1>1. 0 \in Token /\ 1 \in Token
    BY DEF Token
  <1>2. FacesTypeOK
    <2>1. [pc |-> "none", token |-> 0] \in Task
      BY <1>1 DEF Task
    <2>2. ASSUME NEW x \in Task
          PROVE  [p \in NetPeers |-> [i \in Tasks |-> x]] \in [NetPeers -> [Tasks -> Task]]
      OBVIOUS
    <2>3. task \in [NetPeers -> [Tasks -> Task]]
      <3>1. task = [p \in NetPeers |-> [i \in Tasks |-> [pc |-> "none", token |-> 0]]]
        OBVIOUS
      <3> HIDE DEF FacesInit
      <3> QED BY <2>1, <2>2, <3>1
    <2>4. table \in [NetPeers -> Token]
      BY <1>1
    <2>5. token \in Token \ {0} /\ todo \subseteq NetPeers /\ reach \subseteq NetPeers
      BY <1>1
    <2>6. ended \in BOOLEAN /\ up \in BOOLEAN
      OBVIOUS
    <2> HIDE DEF FacesInit
    <2> QED BY <2>3, <2>4, <2>5, <2>6 DEF FacesTypeOK
  <1> QED BY <1>2 DEF NInv, TokensMade, AllOld, SomeoneRedials

\* What a supervisor's step leaves of the other supervisors, and of itself.
LEMMA GotoLeaves ==
    ASSUME FacesTypeOK, NEW p \in NetPeers, NEW i \in Tasks,
           NEW pc \in {"test", "dial", "backoff", "watch", "done"}, MoveTo(p, i, pc)
    PROVE  /\ task' \in [NetPeers -> [Tasks -> Task]]
           /\ \A q \in NetPeers, j \in Tasks:
                  /\ task'[q][j].token = task[q][j].token
                  /\ task'[q][j].pc = IF q = p /\ j = i THEN pc ELSE task[q][j].pc
  <1>1. task \in [NetPeers -> [Tasks -> Task]] /\ task[p] \in [Tasks -> Task] /\ task[p][i] \in Task
    BY DEF FacesTypeOK
  <1> DEFINE x == [task[p][i] EXCEPT !.pc = pc]
             row == [task[p] EXCEPT ![i] = x]
  <1>2. x \in Task /\ x.pc = pc /\ x.token = task[p][i].token
    BY <1>1 DEF Task
  <1>3. task' = [task EXCEPT ![p] = row]
    BY <1>1 DEF MoveTo
  <1> HIDE DEF x
  <1>4. row \in [Tasks -> Task] /\ \A j \in Tasks: row[j] = IF j = i THEN x ELSE task[p][j]
    BY <1>1, <1>2
  <1> HIDE DEF row
  <1>5. /\ task' \in [NetPeers -> [Tasks -> Task]]
        /\ \A q \in NetPeers: task'[q] = IF q = p THEN row ELSE task[q]
    BY <1>1, <1>3, <1>4
  <1> QED BY <1>2, <1>4, <1>5

LEMMA SuperviseNInv ==
    ASSUME NInv, NEW p \in NetPeers, NEW i \in Tasks, Supervise(p, i)
    PROVE  NInv'
  <1>1. UNCHANGED <<token, ended, todo, up, reach>>
    BY DEF Supervise, Test, DialDone, DialFails, Tick, Stop, callVars
  <1>2. task[p][i] \in Task /\ task[p][i].pc # "none"
    BY DEF NInv, FacesTypeOK, Supervise, Test, DialDone, DialFails, Tick, Stop
  <1>3. \E pc \in {"test", "dial", "backoff", "watch", "done"}:
            MoveTo(p, i, pc) /\ (pc = "done" => TokenCancelled(task[p][i].token))
    <2>1. CASE Test(p, i)
      BY <2>1 DEF Test, SeesCancel, LooksAgain
    <2>2. CASE DialDone(p, i) \/ DialFails(p, i)
      BY <2>2 DEF DialDone, DialFails, SeesCancel, LooksAgain
    <2>3. CASE Tick(p, i)
      BY <2>3 DEF Tick, SeesCancel, LooksAgain
    <2>4. CASE Stop(p, i)
      BY <2>4 DEF Stop, SeesCancel, LooksAgain
    <2> QED BY <2>1, <2>2, <2>3, <2>4 DEF Supervise
  <1>4. PICK pc \in {"test", "dial", "backoff", "watch", "done"}:
            MoveTo(p, i, pc) /\ (pc = "done" => TokenCancelled(task[p][i].token))
    BY <1>3
  <1>5. /\ task' \in [NetPeers -> [Tasks -> Task]]
        /\ \A q \in NetPeers, j \in Tasks:
               /\ task'[q][j].token = task[q][j].token
               /\ task'[q][j].pc = IF q = p /\ j = i THEN pc ELSE task[q][j].pc
    BY <1>4, GotoLeaves DEF NInv
  <1>6. table' = table \/ table' = [table EXCEPT ![p] = task[p][i].token]
    BY DEF Supervise, Test, DialDone, DialFails, Tick, Stop, Mounted, Own
  <1>7. FacesTypeOK'
    BY <1>1, <1>2, <1>5, <1>6 DEF NInv, FacesTypeOK, Task
  <1>8. \A q \in NetPeers: table'[q] = table[q] \/ table'[q] = task[p][i].token
    BY <1>6 DEF NInv, FacesTypeOK
  <1>10. TokensMade'
    BY <1>1, <1>5, <1>8 DEF NInv, TokensMade
  <1>11. AllOld'
    BY <1>1, <1>5, <1>8 DEF NInv, AllOld
  <1>9. SomeoneRedials'
    <2> SUFFICES ASSUME up, ~ended, NEW q \in NetPeers \ todo
                 PROVE  \E j \in Tasks: task'[q][j].token = token /\ task'[q][j].pc \notin {"none", "done"}
      BY <1>1 DEF SomeoneRedials
    <2> PICK j \in Tasks: task[q][j].token = token /\ task[q][j].pc \notin {"none", "done"}
      BY DEF NInv, SomeoneRedials
    <2>1. task'[q][j].token = token
      BY <1>5
    <2>2. token \in Nat
      BY DEF NInv, FacesTypeOK, Token
    <2>3. task'[q][j].pc \notin {"none", "done"}
      BY <1>4, <1>5, <2>2 DEF TokenCancelled
    <2> QED BY <2>1, <2>3
  <1> QED BY <1>7, <1>9, <1>10, <1>11 DEF NInv

\* A dial of build or resume: its face and supervisor are of the current token.
LEMMA BuildNInv ==
    ASSUME NInv, NEW p \in NetPeers, NEW i \in Tasks, Build(p, i)
    PROVE  NInv'
  <1> DEFINE x == [pc |-> "test", token |-> token]
             row == [task[p] EXCEPT ![i] = x]
  <1>1. UNCHANGED <<token, ended, up, reach>> /\ todo' = todo \ {p} /\ p \in todo
    BY DEF Build
  <1>2. up /\ token \in Token /\ token \in Nat
    BY <1>1 DEF NInv, AllOld, FacesTypeOK, Token
  <1>3. x \in Task /\ x.token = token /\ x.pc = "test"
    BY <1>2 DEF Task
  <1>4. task \in [NetPeers -> [Tasks -> Task]] /\ task[p] \in [Tasks -> Task]
    BY DEF NInv, FacesTypeOK
  <1>5. task' = [task EXCEPT ![p] = row]
    BY <1>4 DEF Build, Supervised
  <1> HIDE DEF x
  <1>6. row \in [Tasks -> Task] /\ \A j \in Tasks: row[j] = IF j = i THEN x ELSE task[p][j]
    BY <1>3, <1>4
  <1> HIDE DEF row
  <1>7. /\ task' \in [NetPeers -> [Tasks -> Task]]
        /\ \A q \in NetPeers: task'[q] = IF q = p THEN row ELSE task[q]
    BY <1>4, <1>5, <1>6
  <1>8. table' = table \/ table' = [table EXCEPT ![p] = token]
    BY DEF Build, Mounted
  <1>9. FacesTypeOK'
    BY <1>1, <1>2, <1>7, <1>8 DEF NInv, FacesTypeOK
  <1>10. TokensMade'
    BY <1>1, <1>2, <1>3, <1>6, <1>7, <1>8 DEF NInv, TokensMade, FacesTypeOK
  <1>11. AllOld'
    BY <1>1, <1>2 DEF AllOld
  <1>12. SomeoneRedials'
    <2> SUFFICES ASSUME ~ended, NEW q \in NetPeers, q \notin todo \/ q = p
                 PROVE  \E j \in Tasks: task'[q][j].token = token /\ task'[q][j].pc \notin {"none", "done"}
      BY <1>1 DEF SomeoneRedials
    <2>1. CASE q = p
      BY <1>3, <1>6, <1>7, <2>1
    <2>2. CASE q # p
      BY <1>2, <1>7, <2>2 DEF NInv, SomeoneRedials
    <2> QED BY <2>1, <2>2
  <1> QED BY <1>9, <1>10, <1>11, <1>12 DEF NInv

LEMMA NextNInv ==
    ASSUME NInv, [FacesNext]_facesVars
    PROVE  NInv'
  <1> USE DEF NInv
  <1>1. token \in Nat \ {0} /\ \A p \in NetPeers: table[p] \in Nat
    BY DEF FacesTypeOK, Token
  <1>2. CASE UNCHANGED facesVars
    BY <1>2 DEF facesVars, callVars, FacesTypeOK, TokensMade, AllOld, SomeoneRedials
  <1>3. CASE SuspendFaces
    <2>1. token' = token + 1 /\ ~up' /\ UNCHANGED <<ended, todo, table, task, reach>> /\ todo = {}
      BY <1>3 DEF SuspendFaces, Returned
    <2>2. token' \in Token \ {0}
      BY <1>1, <1>3, <2>1, TokenAssumption DEF SuspendFaces, Token
    <2>3. up' \in BOOLEAN
      BY <1>3 DEF SuspendFaces
    <2>4. FacesTypeOK'
      BY <2>1, <2>2, <2>3 DEF FacesTypeOK
    <2>5. \A p \in NetPeers, i \in Tasks: task[p][i].token \in Nat
      BY DEF FacesTypeOK, Task, Token
    <2>6. TokensMade' /\ AllOld'
      BY <1>1, <2>1, <2>5 DEF TokensMade, AllOld
    <2>7. SomeoneRedials'
      BY <2>1 DEF SomeoneRedials
    <2> QED BY <2>4, <2>6, <2>7
  <1>4. CASE Resume
    BY <1>4 DEF Resume, FacesTypeOK, TokensMade, AllOld, SomeoneRedials
  <1>5. CASE Shutdown
    BY <1>5 DEF Shutdown, FacesTypeOK, TokensMade, AllOld, SomeoneRedials
  <1>6. ASSUME NEW p \in NetPeers, Drop(p)
        PROVE  NInv'
    <2>1. table' = [table EXCEPT ![p] = 0] /\ UNCHANGED <<token, ended, todo, up, task, reach>>
      BY <1>6 DEF Drop, callVars
    <2>2. FacesTypeOK'
      BY <2>1, TokenAssumption DEF FacesTypeOK, Token
    <2>3. TokensMade' /\ AllOld' /\ SomeoneRedials'
      BY <1>1, <2>1 DEF TokensMade, AllOld, SomeoneRedials, FacesTypeOK
    <2> QED BY <2>2, <2>3
  <1>7. ASSUME NEW p \in NetPeers, Link(p)
        PROVE  NInv'
    BY <1>7 DEF Link, callVars, FacesTypeOK, TokensMade, AllOld, SomeoneRedials
  <1>8. ASSUME NEW p \in NetPeers, NEW i \in Tasks, Build(p, i)
        PROVE  NInv'
    BY <1>8, BuildNInv
  <1>9. ASSUME NEW p \in NetPeers, NEW i \in Tasks, Supervise(p, i)
        PROVE  NInv'
    BY <1>9, SuperviseNInv
  <1> QED BY <1>2, <1>3, <1>4, <1>5, <1>6, <1>7, <1>8, <1>9 DEF FacesNext, Call

\* The calls and the supervisors keep every variable in its type.
THEOREM FaceTypesCorrect == FacesSpec => []FacesTypeOK
  <1>1. NInv => FacesTypeOK
    BY DEF NInv
  <1> QED BY InitNInv, NextNInv, <1>1, PTL DEF FacesSpec

\* While the network faces are suspended no peer has a live face, however late
\* the dials that were under way end.
THEOREM NoFaceWhileSuspended == FacesSpec => []SuspendedStaysDown
  <1>1. NInv => SuspendedStaysDown
    BY DEF NInv, AllOld, SuspendedStaysDown, Live, TokenCancelled
  <1> QED BY InitNInv, NextNInv, <1>1, PTL DEF FacesSpec

\* While the faces are up, every peer that resume is done with has a supervisor
\* of the current token that is not done.
THEOREM SupervisorStandsBy == FacesSpec => []SomeoneRedials
  <1>1. NInv => SomeoneRedials
    BY DEF NInv
  <1> QED BY InitNInv, NextNInv, <1>1, PTL DEF FacesSpec

=============================================================================
