------------------------- MODULE ObjectRelayProofs -------------------------
(***************************************************************************)
(* Theorems about ObjectRelay for every object size, lookahead, credit,     *)
(* window and every set of failures, with an inductive invariant that says  *)
(* how the stream, the relay's hand and the produced front stay in order.   *)
(***************************************************************************)
EXTENDS ObjectRelay, SequenceTheorems, TLAPS

USE ObjectAssumption, PacingAssumption, WindowAssumption, FaultAssumption

InHand == pc \in {"sign", "publish", "store"}

\* The stream is increasing and lies between the produced front and the
\* streamer's next segment.
StreamOrdered ==
    /\ produced <= leafNext
    /\ \A i \in 1 .. Len(stream) : produced <= stream[i] /\ stream[i] < leafNext
    /\ \A i, j \in 1 .. Len(stream) : i < j => stream[i] < stream[j]

\* The segment in hand comes after what was produced and before the stream.
HandOrdered ==
    InHand =>
        /\ produced <= cur /\ cur < leafNext
        /\ \A i \in 1 .. Len(stream) : cur < stream[i]

\* Past the pacing test the test keeps holding: the front only rises.
PacePassed ==
    pc = "recv" \/ InHand => produced <= front + Lookahead \/ produced > LastSeg

\* What the relay inserted lies below the produced front, but for its hand.
RelayedBehind ==
    \A s \in relayed : s < produced \/ (pc \in {"publish", "store"} /\ s = cur)

\* The source prefix is known from the first segment received on.
SourceLearned == InHand \/ produced > 0 => srcKnown

IInv ==
    /\ TypeOK /\ StreamOrdered /\ HandOrdered /\ PacePassed /\ RelayedBehind
    /\ SourceLearned /\ LeadBounded /\ RefetchBehindRelay

\* A step is charged as one failure of some kind, or as none.
LEMMA FaultStep ==
    ASSUME TypeOK, [Next]_vars
    PROVE  faults' \in 0 .. MaxFaults /\ broken' \subseteq FaultKinds
<1> DEFINE Charged == NoFault \/ \E kind \in Faults : Fault(kind)
<1> SUFFICES Charged
  BY FaultAssumption DEF TypeOK, Fault, NoFault, faultVars
<1>1. ASSUME NEW s \in Seg, Express(s) PROVE Charged
  BY <1>1 DEF Express, Deliver, Fault
<1>2. ASSUME NEW s \in Seg, PitInsert(s) PROVE Charged
  BY <1>2 DEF PitInsert
<1>3. ASSUME NEW s \in Seg, PitExpire(s) PROVE Charged
  BY <1>3 DEF PitExpire, Fault
<1>4. ASSUME NEW s \in Seg, Evict(s) PROVE Charged
  BY <1>4 DEF Evict, Fault
<1>5. ASSUME NEW s \in Seg, Handle(s) PROVE Charged
  BY <1>5 DEF Handle
<1>6. ASSUME NEW s \in Seg, RefetchStart(s) PROVE Charged
  BY <1>6 DEF RefetchStart
<1>7. ASSUME NEW s \in Seg, RefetchFetch(s) PROVE Charged
  BY <1>7 DEF RefetchFetch, Fault
<1>8. ASSUME NEW s \in Seg, RefetchCache(s) PROVE Charged
  BY <1>8 DEF RefetchCache, Fault
<1>9. ASSUME NEW s \in Seg, RefetchRespond(s) PROVE Charged
  BY <1>9 DEF RefetchRespond, Satisfy, Deliver, Fault
<1>10. CASE Subscribe
  BY <1>10 DEF Subscribe
<1>11. CASE PaceTest
  BY <1>11 DEF PaceTest
<1>12. CASE PacePause
  BY <1>12 DEF PacePause
<1>13. CASE PaceWake
  BY <1>13 DEF PaceWake
<1>14. CASE RecvData
  BY <1>14 DEF RecvData
<1>15. CASE RecvErr
  BY <1>15 DEF RecvErr
<1>16. CASE SignInsert
  BY <1>16 DEF SignInsert, Fault
<1>17. CASE Publish
  BY <1>17 DEF Publish, Satisfy, Deliver, Fault
<1>18. CASE StoreProduced
  BY <1>18 DEF StoreProduced
<1>19. CASE RelayStop
  BY <1>19 DEF RelayStop
<1>20. CASE LeafSend
  BY <1>20 DEF LeafSend, Fault
<1>21. CASE SubscriptionEnds
  BY <1>21 DEF SubscriptionEnds, Fault
<1>22. CASE RemoveOffer
  BY <1>22 DEF RemoveOffer, Fault
<1>23. CASE Shutdown
  BY <1>23 DEF Shutdown, Fault
<1>24. CASE UNCHANGED vars
  BY <1>24 DEF vars, NoFault, faultVars
<1> HIDE DEF Charged
<1>. QED
  BY <1>1, <1>2, <1>3, <1>4, <1>5, <1>6, <1>7, <1>8, <1>9, <1>10, <1>11, <1>12, <1>13, <1>14, <1>15, <1>16, <1>17, <1>18, <1>19, <1>20, <1>21, <1>22, <1>23, <1>24
     DEF Next, Forwarder, Refetcher, Relay, Environment

\* Every step keeps the types.
LEMMA TypeStep == TypeOK /\ [Next]_vars => TypeOK'
<1> SUFFICES ASSUME TypeOK, [Next]_vars PROVE TypeOK'
  OBVIOUS
<1> USE DEF TypeOK, vars, taskVars, relayVars, cellVars, sourceVars, leafVars, seamVars, netVars, faultVars
<1>0. faults' \in 0 .. MaxFaults /\ broken' \subseteq FaultKinds
  BY FaultStep
<1> HIDE DEF faultVars
<1>1. ASSUME NEW s \in Seg, Express(s) PROVE TypeOK'
  BY <1>0, <1>1 DEF Express, Deliver
<1>2. ASSUME NEW s \in Seg, PitInsert(s) PROVE TypeOK'
  BY <1>0, <1>2 DEF PitInsert
<1>3. ASSUME NEW s \in Seg, PitExpire(s) PROVE TypeOK'
  BY <1>0, <1>3 DEF PitExpire
<1>4. ASSUME NEW s \in Seg, Evict(s) PROVE TypeOK'
  BY <1>0, <1>4 DEF Evict
<1>5. ASSUME NEW s \in Seg, Handle(s) PROVE TypeOK'
  BY <1>0, <1>5 DEF Handle, NotifyOne, Passed, RelayPc, RefetchPc
<1>6. ASSUME NEW s \in Seg, RefetchStart(s) PROVE TypeOK'
  BY <1>0, <1>6 DEF RefetchStart, RefetchPc
<1>7. ASSUME NEW s \in Seg, RefetchFetch(s) PROVE TypeOK'
  BY <1>0, <1>7 DEF RefetchFetch, RefetchPc
<1>8. ASSUME NEW s \in Seg, RefetchCache(s) PROVE TypeOK'
  BY <1>0, <1>8 DEF RefetchCache, RefetchPc
<1>9. ASSUME NEW s \in Seg, RefetchRespond(s) PROVE TypeOK'
  BY <1>0, <1>9 DEF RefetchRespond, Satisfy, Deliver, RefetchPc
<1>10. CASE Subscribe
  <2>1. pc' \in RelayPc
    BY <1>0, <1>10 DEF Subscribe, RelayPc
  <2>2. stream' \in Seq(Seg)
    BY <1>10, EmptySeq DEF Subscribe
  <2>3. budget' \in Nat /\ owed' \in 0 .. Credit /\ sub' \in {"none", "live", "dead"}
    BY <1>0, <1>10 DEF Subscribe
  <2>. QED
    BY <1>0, <1>10, <2>1, <2>2, <2>3 DEF Subscribe
<1>11. CASE PaceTest
  BY <1>0, <1>11 DEF PaceTest, RelayPc
<1>12. CASE PacePause
  BY <1>0, <1>12 DEF PacePause, RelayPc
<1>13. CASE PaceWake
  BY <1>0, <1>13 DEF PaceWake, RelayPc
<1>14. CASE RecvData
  BY <1>0, <1>14 DEF RecvData, RelayPc, LearnSource
<1>15. CASE RecvErr
  BY <1>0, <1>15 DEF RecvErr, RelayPc
<1>16. CASE SignInsert
  BY <1>0, <1>16 DEF SignInsert, RelayPc
<1>17. CASE Publish
  BY <1>0, <1>17 DEF Publish, Satisfy, Deliver, RelayPc
<1>18. CASE StoreProduced
  <2>1. produced' \in 0 .. LastSeg + 1
    BY <1>18 DEF StoreProduced, Seg
  <2>2. pc' \in RelayPc
    BY <1>18 DEF StoreProduced, AfterStore, RelayPc
  <2>. QED
    BY <1>0, <1>18, <2>1, <2>2 DEF StoreProduced
<1>19. CASE RelayStop
  BY <1>0, <1>19 DEF RelayStop, RelayPc
<1>20. CASE LeafSend
  <2>1. budget' \in Nat
    BY <1>0, <1>20 DEF LeafSend
    <2>3. leafNext \in 0 .. LastSeg + 1
    BY DEF TypeOK
  <2>4. leafNext \in Seg
    <3>1. leafNext <= LastSeg
      BY <1>0, <1>20 DEF LeafSend, MoreToStream
    <3> HIDE DEF TypeOK
    <3>. QED
      BY <2>3, <3>1 DEF Seg
  <2>5. Append(stream, leafNext) \in Seq(Seg)
    BY <2>4, AppendProperties
  <2>6. leafNext' \in 0 .. LastSeg + 1
    <3>1. leafNext' = leafNext \/ leafNext' = leafNext + 1
      BY <1>0, <1>20 DEF LeafSend
    <3> HIDE DEF TypeOK
    <3>. QED
      BY <2>4, <3>1 DEF Seg
  <2>7. stream' \in Seq(Seg)
    BY <1>20, <2>5 DEF LeafSend
  <2>8. streaming' \in BOOLEAN
    BY <1>0, <1>20 DEF LeafSend
  <2>. QED
    BY <1>0, <1>20, <2>1, <2>6, <2>7, <2>8 DEF LeafSend
<1>21. CASE SubscriptionEnds
  BY <1>0, <1>21 DEF SubscriptionEnds
<1>22. CASE RemoveOffer
  <2>1. offered' \in BOOLEAN
    BY <1>22, Zenon DEF RemoveOffer
  <2>. QED
    BY <1>0, <1>22, <2>1 DEF RemoveOffer
<1>23. CASE Shutdown
  BY <1>0, <1>23 DEF Shutdown
<1>24. CASE UNCHANGED vars
  BY <1>0, <1>24
<1> HIDE DEF TypeOK, vars, taskVars, relayVars, cellVars, sourceVars, leafVars, seamVars, netVars
<1>. QED
  BY <1>1, <1>2, <1>3, <1>4, <1>5, <1>6, <1>7, <1>8, <1>9, <1>10, <1>11, <1>12, <1>13, <1>14, <1>15, <1>16, <1>17, <1>18, <1>19, <1>20, <1>21, <1>22, <1>23, <1>24
     DEF Next, Forwarder, Refetcher, Relay, Environment

\* All cells of the relay, the leaf and the forwarder keep their types, for
\* every object size, lookahead, credit, window and set of failures.
THEOREM TypeCorrect == Spec => []TypeOK
<1>1. Init => TypeOK
  <2>1. stream = <<>> => stream \in Seq(Seg)
    BY EmptySeq
  <2>2. Init => broken \subseteq FaultKinds
    BY DEF Init
  <2>3. Init => refetch \in [Seg -> RefetchPc] /\ pc \in RelayPc
    BY DEF Init, RefetchPc, RelayPc
  <2>4. Init => faults \in 0 .. MaxFaults /\ cur \in Seg /\ produced \in 0 .. LastSeg + 1
    BY FaultAssumption, ObjectAssumption DEF Init, Seg
  <2>5. Init => leafNext \in 0 .. LastSeg + 1 /\ owed \in 0 .. Credit /\ front \in Seg
    BY PacingAssumption, ObjectAssumption DEF Init, Seg
  <2>. QED
    BY <2>1, <2>2, <2>3, <2>4, <2>5 DEF Init, TypeOK
<1>. QED
  BY <1>1, TypeStep, PTL DEF Spec

----------------------------------------------------------------------------
(* The order of the stream, the hand and the produced front.               *)

orderVars == <<pc, cur, front, produced, srcKnown, leafNext, stream, relayed>>

\* The steps that touch neither the relay task, its cells nor the stream.
Quiet ==
    \/ \E s \in Seg : \/ Express(s) \/ PitInsert(s) \/ PitExpire(s) \/ Evict(s)
                      \/ Refetcher(s)
    \/ SubscriptionEnds \/ RemoveOffer \/ Shutdown

\* They leave everything the order is about alone.
LEMMA QuietFrame == Quiet => UNCHANGED orderVars
BY DEF Quiet, orderVars, taskVars, relayVars, cellVars, sourceVars, leafVars, seamVars, Refetcher,
       Express, PitInsert, PitExpire, Evict, RefetchStart, RefetchFetch,
       RefetchCache, RefetchRespond, SubscriptionEnds, RemoveOffer, Shutdown

\* The steps of the relay task that move it without a segment in hand.
Turn == PaceTest \/ PacePause \/ PaceWake \/ RecvErr \/ RelayStop

\* They keep the order and end without a segment in hand.
LEMMA TurnFrame ==
    Turn => /\ UNCHANGED <<cur, front, produced, srcKnown, leafNext, stream, relayed>>
            /\ pc' \in {"pausing", "recv", "waiting", "pace", "subscribe", "stopped"}
BY DEF Turn, taskVars, cellVars, sourceVars, leafVars, seamVars, PaceTest, PacePause, PaceWake, RecvErr,
       RelayStop

\* A handler only raises the demand front and may start the relay.
LEMMA HandleFrame ==
    ASSUME TypeOK, NEW s \in Seg, Handle(s)
    PROVE  /\ UNCHANGED <<cur, produced, srcKnown, leafNext, stream, relayed, cs>>
           /\ front' \in Seg /\ front <= front'
           /\ (pc' = pc) \/ (pc = "idle" /\ pc' = "subscribe")
<1>1. front' \in Seg /\ front <= front'
  BY DEF Handle, TypeOK, Seg
<1>2. UNCHANGED <<cur, produced, srcKnown, leafNext, stream, relayed, cs>>
  BY DEF Handle, sourceVars, leafVars, seamVars
<1>3. (pc' = pc) \/ (pc = "idle" /\ pc' = "subscribe")
  BY DEF Handle
<1>. QED
  BY <1>1, <1>2, <1>3

\* Every step is quiet, a turn, a handler or one of six others.
LEMMA NextCases ==
    ASSUME [Next]_vars
    PROVE  \/ Quiet \/ Turn \/ UNCHANGED vars
           \/ \E s \in Seg : Handle(s)
           \/ Subscribe \/ RecvData \/ SignInsert \/ Publish \/ StoreProduced
           \/ LeafSend
BY DEF Next, Forwarder, Relay, Environment, Quiet, Turn

\* Every step keeps the stream and the hand in order.
LEMMA OrderStep ==
    TypeOK /\ StreamOrdered /\ HandOrdered /\ [Next]_vars
        => StreamOrdered' /\ HandOrdered'
<1> SUFFICES ASSUME TypeOK, StreamOrdered, HandOrdered, [Next]_vars
             PROVE  StreamOrdered' /\ HandOrdered'
  OBVIOUS
<1>0. /\ produced \in Nat /\ leafNext \in Nat /\ cur \in Nat /\ LastSeg \in Nat
      /\ stream \in Seq(Seg) /\ Seg \subseteq Nat /\ Len(stream) \in Nat
      /\ \A i \in 1 .. Len(stream) : stream[i] \in Nat
  BY LenProperties, ElementOfSeq DEF TypeOK, Seg
<1>1. CASE Quiet
  BY <1>1, QuietFrame DEF orderVars, StreamOrdered, HandOrdered, InHand
<1>2. CASE Turn
  BY <1>2, TurnFrame DEF StreamOrdered, HandOrdered, InHand
<1>3. CASE UNCHANGED vars
  BY <1>3 DEF vars, taskVars, relayVars, cellVars, sourceVars, leafVars, seamVars, StreamOrdered,
              HandOrdered, InHand
<1>4. ASSUME NEW s \in Seg, Handle(s) PROVE StreamOrdered' /\ HandOrdered'
  BY <1>4, HandleFrame DEF StreamOrdered, HandOrdered, InHand
<1>5. CASE Subscribe
  <2>1. pc' \in {"stopped", "pace"} /\ UNCHANGED <<cur, produced, leafNext>>
    BY <1>5 DEF Subscribe, taskVars, cellVars
  <2>2. stream' = stream \/ Len(stream') = 0
    BY <1>5, EmptySeq DEF Subscribe, sourceVars, seamVars
  <2>. QED
    BY <1>0, <2>1, <2>2 DEF StreamOrdered, HandOrdered, InHand
<1>6. CASE RecvData
  <2>1. /\ stream # <<>> /\ cur' = Head(stream) /\ stream' = Tail(stream)
        /\ UNCHANGED <<produced, leafNext>>
    BY <1>6 DEF RecvData
  <2>2. /\ Len(stream) > 0 /\ cur' = stream[1] /\ Len(stream') = Len(stream) - 1
        /\ \A i \in 1 .. Len(stream') : stream'[i] = stream[i + 1]
    BY <1>0, <2>1, EmptySeq, HeadTailProperties
  <2>. QED
    BY <1>0, <2>1, <2>2 DEF StreamOrdered, HandOrdered
<1>7. CASE SignInsert \/ Publish
  <2>1. InHand /\ UNCHANGED <<cur, produced, leafNext, stream>>
    BY <1>7 DEF SignInsert, Publish, InHand, taskVars, cellVars, sourceVars, leafVars, seamVars
  <2>. QED
    BY <2>1 DEF StreamOrdered, HandOrdered
<1>8. CASE StoreProduced
  <2>1. /\ InHand /\ pc' = "pace" /\ UNCHANGED <<leafNext, stream>>
        /\ produced' = IF cur + 1 > produced THEN cur + 1 ELSE produced
    BY <1>8 DEF StoreProduced, AfterStore, InHand, sourceVars, leafVars, seamVars
  <2>. QED
    BY <1>0, <2>1 DEF StreamOrdered, HandOrdered, InHand
<1>9. CASE LeafSend
  <2>1. UNCHANGED <<pc, cur, produced>>
    BY <1>9 DEF LeafSend, taskVars, relayVars, cellVars
  <2>2. CASE UNCHANGED <<leafNext, stream>>
    BY <2>1, <2>2 DEF StreamOrdered, HandOrdered, InHand
  <2>3. CASE leafNext' = leafNext + 1 /\ stream' = stream
    BY <1>0, <2>1, <2>3 DEF StreamOrdered, HandOrdered, InHand
  <2>4. CASE leafNext' = leafNext + 1 /\ stream' = Append(stream, leafNext)
    <3>1. /\ Len(stream') = Len(stream) + 1
          /\ \A i \in 1 .. Len(stream) : stream'[i] = stream[i]
          /\ stream'[Len(stream) + 1] = leafNext
      BY <1>0, <2>4
    <3>2. StreamOrdered'
      BY <1>0, <2>1, <2>4, <3>1 DEF StreamOrdered
    <3>3. HandOrdered'
      BY <1>0, <2>1, <2>4, <3>1 DEF HandOrdered, InHand
    <3>. QED
      BY <3>2, <3>3
  <2>. QED
    BY <1>9, <2>2, <2>3, <2>4 DEF LeafSend
<1>. QED
  BY <1>1, <1>2, <1>3, <1>4, <1>5, <1>6, <1>7, <1>8, <1>9, NextCases

----------------------------------------------------------------------------
(* The pacing test, the relay's footprint and the learned prefix.          *)

\* A relay past the pacing test still satisfies it: only a handler moves the
\* front, and it moves it up.
LEMMA PaceStep ==
    TypeOK /\ PacePassed /\ [Next]_vars => PacePassed'
<1> SUFFICES ASSUME TypeOK, PacePassed, [Next]_vars PROVE PacePassed'
  OBVIOUS
<1>0. /\ produced \in Nat /\ front \in Nat /\ LastSeg \in Nat /\ Lookahead \in Nat
      /\ cur \in Nat
  BY DEF TypeOK, Seg, Lookahead
<1>1. CASE Quiet
  BY <1>1, QuietFrame DEF orderVars, PacePassed, InHand
<1>2. CASE Turn
  <2>1. CASE PaceTest
    <3>1. pc' = IF Ahead THEN "pausing" ELSE "recv"
      BY <2>1 DEF PaceTest
    <3>2. UNCHANGED <<front, produced>>
      BY <1>2, TurnFrame
    <3>. QED
      BY <1>0, <3>1, <3>2 DEF PacePassed, InHand, Ahead
  <2>2. CASE PacePause \/ PaceWake \/ RecvErr \/ RelayStop
    <3>1. pc' \in {"waiting", "pace", "subscribe", "stopped"}
      BY <2>2 DEF PacePause, PaceWake, RecvErr, RelayStop
    <3>. QED
      BY <3>1 DEF PacePassed, InHand
  <2>. QED
    BY <1>2, <2>1, <2>2 DEF Turn
<1>3. CASE UNCHANGED vars
  BY <1>3 DEF vars, taskVars, relayVars, cellVars, PacePassed, InHand
<1>4. ASSUME NEW s \in Seg, Handle(s) PROVE PacePassed'
  <2>1. front' \in Nat
    BY <1>4, HandleFrame DEF Seg
  <2>. QED
    BY <1>0, <1>4, <2>1, HandleFrame DEF PacePassed, InHand
<1>5. CASE Subscribe \/ StoreProduced
  <2>1. pc' \in {"stopped", "pace"}
    BY <1>5 DEF Subscribe, StoreProduced, AfterStore
  <2>. QED
    BY <2>1 DEF PacePassed, InHand
<1>6. CASE RecvData \/ SignInsert \/ Publish \/ LeafSend
  <2>1. /\ UNCHANGED <<front, produced>>
        /\ pc' = pc \/ pc \in {"recv", "sign", "publish"}
    BY <1>6 DEF RecvData, SignInsert, Publish, LeafSend, taskVars, relayVars, cellVars
  <2>. QED
    BY <2>1 DEF PacePassed, InHand
<1>. QED
  BY <1>1, <1>2, <1>3, <1>4, <1>5, <1>6, NextCases

\* A bound on a lead holds of every later front.
LEMMA AddMonotone ==
    \A a, b, c, d \in Nat : a < b + d /\ b <= c => a < c + d
OBVIOUS

\* Every step keeps the relay's footprint bounded.
LEMMA RelayedStep ==
    TypeOK /\ HandOrdered /\ PacePassed /\ RelayedBehind /\ LeadBounded /\ [Next]_vars
        => RelayedBehind' /\ LeadBounded'
<1> SUFFICES ASSUME TypeOK, HandOrdered, PacePassed, RelayedBehind, LeadBounded,
                    [Next]_vars
             PROVE  RelayedBehind' /\ LeadBounded'
  OBVIOUS
<1>0. /\ produced \in Nat /\ front \in Nat /\ LastSeg \in Nat /\ Lookahead \in Nat
      /\ cur \in Nat /\ cur <= LastSeg
      /\ relayed \subseteq Nat
  BY DEF TypeOK, Seg, Lookahead
<1>1. CASE Quiet
  BY <1>1, QuietFrame DEF orderVars, RelayedBehind, LeadBounded
<1>2. CASE Turn
  <2>1. pc \notin {"publish", "store"}
    BY <1>2 DEF Turn, PaceTest, PacePause, PaceWake, RecvErr, RelayStop, CancelPoints
  <2>. QED
    BY <1>2, <2>1, TurnFrame DEF RelayedBehind, LeadBounded
<1>3. CASE UNCHANGED vars
  BY <1>3 DEF vars, taskVars, relayVars, cellVars, RelayedBehind, LeadBounded
<1>4. ASSUME NEW s \in Seg, Handle(s) PROVE RelayedBehind' /\ LeadBounded'
  <2>1. RelayedBehind'
    BY <1>4, HandleFrame DEF RelayedBehind
  <2>2. front' \in Nat
    BY <1>4, HandleFrame DEF Seg
  <2>3. LeadBounded'
    <3> SUFFICES ASSUME NEW a \in relayed, NEW b \in relayed, a < b
                 PROVE  a < front' + Lookahead
      BY <1>4, HandleFrame DEF LeadBounded
    <3>1. a < front + Lookahead
      BY DEF LeadBounded
    <3>2. front <= front'
      BY <1>4, HandleFrame
    <3>3. a \in Nat /\ front \in Nat /\ Lookahead \in Nat
      BY <1>0
    <3>. QED
      BY <2>2, <3>1, <3>2, <3>3, AddMonotone
  <2>. QED
    BY <2>1, <2>3
<1>5. CASE Subscribe \/ RecvData
  <2>1. UNCHANGED <<front, produced, relayed>> /\ pc \notin {"publish", "store"}
    BY <1>5 DEF Subscribe, RecvData, taskVars, cellVars
  <2>. QED
    BY <2>1 DEF RelayedBehind, LeadBounded
<1>6. CASE SignInsert
  <2>1. pc = "sign" /\ UNCHANGED <<cur, front, produced>>
    BY <1>6 DEF SignInsert, taskVars, cellVars
  <2>2. CASE relayed' = relayed
    BY <2>1, <2>2 DEF RelayedBehind, LeadBounded
  <2>3. CASE relayed' = relayed \cup {cur} /\ pc' = "publish"
    <3>1. \A s \in relayed : s < produced
      BY <2>1 DEF RelayedBehind
    <3>2. produced <= front + Lookahead /\ produced <= cur
      BY <1>0, <2>1 DEF PacePassed, HandOrdered, InHand
    <3>3. RelayedBehind'
      BY <2>1, <2>3, <3>1 DEF RelayedBehind
    <3>4. LeadBounded'
      BY <1>0, <2>1, <2>3, <3>1, <3>2 DEF LeadBounded
    <3>. QED
      BY <3>3, <3>4
  <2>. QED
    BY <1>6, <2>2, <2>3 DEF SignInsert
<1>7. CASE Publish
  <2>1. /\ pc = "publish" /\ pc' = "store"
        /\ UNCHANGED <<cur, front, produced, relayed>>
    BY <1>7 DEF Publish, taskVars, cellVars
  <2>. QED
    BY <2>1 DEF RelayedBehind, LeadBounded
<1>8. CASE StoreProduced
  <2>1. /\ UNCHANGED <<front, relayed>>
        /\ produced' = IF cur + 1 > produced THEN cur + 1 ELSE produced
    BY <1>8 DEF StoreProduced
  <2>. QED
    BY <1>0, <2>1 DEF RelayedBehind, LeadBounded
<1>9. CASE LeafSend
  <2>1. UNCHANGED <<pc, cur, front, produced, relayed>>
    BY <1>9 DEF LeafSend, taskVars, relayVars, cellVars
  <2>. QED
    BY <2>1 DEF RelayedBehind, LeadBounded
<1>. QED
  BY <1>1, <1>2, <1>3, <1>4, <1>5, <1>6, <1>7, <1>8, <1>9, NextCases

\* Every step keeps the source prefix known once a segment was received.
LEMMA SourceStep ==
    SourceLearned /\ [Next]_vars => SourceLearned'
<1> SUFFICES ASSUME SourceLearned, [Next]_vars PROVE SourceLearned'
  OBVIOUS
<1>1. CASE Quiet
  BY <1>1, QuietFrame DEF orderVars, SourceLearned, InHand
<1>2. CASE Turn
  BY <1>2, TurnFrame DEF SourceLearned, InHand
<1>3. CASE UNCHANGED vars
  BY <1>3 DEF vars, taskVars, relayVars, cellVars, SourceLearned, InHand
<1>4. ASSUME NEW s \in Seg, Handle(s) PROVE SourceLearned'
  BY <1>4 DEF Handle, SourceLearned, InHand
<1>5. CASE Subscribe
  BY <1>5 DEF Subscribe, taskVars, cellVars, SourceLearned, InHand
<1>6. CASE RecvData
  BY <1>6 DEF RecvData, LearnSource, SourceLearned
<1>7. CASE SignInsert \/ Publish \/ StoreProduced
  <2>1. srcKnown /\ UNCHANGED srcKnown
    BY <1>7 DEF SignInsert, Publish, StoreProduced, taskVars, cellVars, SourceLearned, InHand
  <2>. QED
    BY <2>1 DEF SourceLearned
<1>8. CASE LeafSend
  BY <1>8 DEF LeafSend, taskVars, relayVars, cellVars, SourceLearned, InHand
<1>. QED
  BY <1>1, <1>2, <1>3, <1>4, <1>5, <1>6, <1>7, <1>8, NextCases

----------------------------------------------------------------------------
(* Backward re-fetches stay behind the relay.                              *)

\* Every step keeps the re-fetches behind the produced front.
LEMMA BehindStep ==
    TypeOK /\ RefetchBehindRelay /\ [Next]_vars => RefetchBehindRelay'
<1> SUFFICES ASSUME TypeOK, RefetchBehindRelay, [Next]_vars PROVE RefetchBehindRelay'
  OBVIOUS
<1>0. /\ produced \in Nat /\ cur \in Nat /\ refetch \in [Seg -> RefetchPc]
      /\ cs \subseteq Nat
  BY DEF TypeOK, Seg
<1>1. CASE UNCHANGED <<pc, cur, produced, refetch>> /\ cs' \subseteq cs
  BY <1>1 DEF RefetchBehindRelay
<1>2. CASE Quiet
  <2>1. UNCHANGED <<pc, cur, produced>>
    BY <1>2, QuietFrame DEF orderVars
  <2>2. ASSUME NEW s \in Seg, Refetcher(s) PROVE RefetchBehindRelay'
    <3>1. \A t \in Seg : refetch'[t] # "idle" => refetch[t] # "idle"
      BY <1>0, <2>2 DEF Refetcher, RefetchStart, RefetchFetch, RefetchCache,
                        RefetchRespond
    <3>2. refetch[s] # "idle" /\ cs' \subseteq cs \cup {s}
      BY <2>2 DEF Refetcher, RefetchStart, RefetchFetch, RefetchCache, RefetchRespond
    <3>3. s < produced
      BY <3>2 DEF RefetchBehindRelay
    <3>4. \A t \in cs' : t >= produced => t \in cs
      BY <1>0, <3>2, <3>3 DEF Seg
    <3>. QED
      BY <2>1, <3>1, <3>4 DEF RefetchBehindRelay
  <2>3. CASE \/ \E s \in Seg : Express(s) \/ PitInsert(s) \/ PitExpire(s) \/ Evict(s)
             \/ SubscriptionEnds \/ RemoveOffer \/ Shutdown
    <3>1. UNCHANGED refetch /\ cs' \subseteq cs
      BY <2>3 DEF Express, PitInsert, PitExpire, Evict, SubscriptionEnds,
                  RemoveOffer, Shutdown
    <3>. QED
      BY <1>1, <2>1, <3>1
  <2>. QED
    BY <1>2, <2>2, <2>3 DEF Quiet
<1>3. CASE Turn
  <2>1. UNCHANGED <<refetch, cs>> /\ pc \notin {"publish", "store"}
    BY <1>3 DEF Turn, PaceTest, PacePause, PaceWake, RecvErr, RelayStop, CancelPoints
  <2>. QED
    BY <1>3, <2>1, TurnFrame DEF RefetchBehindRelay
<1>4. CASE UNCHANGED vars
  BY <1>1, <1>4 DEF vars, taskVars, relayVars, cellVars
<1>5. ASSUME NEW s \in Seg, Handle(s) PROVE RefetchBehindRelay'
  <2>1. /\ UNCHANGED <<cur, produced, cs>>
        /\ (pc' = pc) \/ (pc = "idle" /\ pc' = "subscribe")
    BY <1>5, HandleFrame
  <2>2. \A t \in Seg : refetch'[t] # "idle" => refetch[t] # "idle" \/ t < produced
    BY <1>0, <1>5 DEF Handle, Passed
  <2>. QED
    BY <2>1, <2>2 DEF RefetchBehindRelay
<1>6. CASE Subscribe \/ RecvData
  <2>1. /\ UNCHANGED <<produced, refetch, cs>>
        /\ pc \notin {"publish", "store"}
    BY <1>6 DEF Subscribe, RecvData, taskVars, cellVars
  <2>. QED
    BY <2>1 DEF RefetchBehindRelay
<1>7. CASE SignInsert
  <2>1. /\ UNCHANGED <<cur, produced, refetch>> /\ pc = "sign"
        /\ (cs' = cs) \/ (cs' = cs \cup {cur} /\ pc' = "publish")
    BY <1>7 DEF SignInsert, taskVars, cellVars
  <2>. QED
    BY <2>1 DEF RefetchBehindRelay
<1>8. CASE Publish
  <2>1. UNCHANGED <<cur, produced, refetch, cs>> /\ pc' = "store"
    BY <1>8 DEF Publish, taskVars, cellVars
  <2>. QED
    BY <2>1 DEF RefetchBehindRelay
<1>9. CASE StoreProduced
  <2>1. /\ UNCHANGED <<refetch, cs>>
        /\ produced' = IF cur + 1 > produced THEN cur + 1 ELSE produced
    BY <1>9 DEF StoreProduced
  <2>2. \A s \in Seg : refetch[s] # "idle" => s < produced'
    BY <1>0, <2>1 DEF RefetchBehindRelay, Seg
  <2>3. \A s \in cs : ~(s >= produced')
    BY <1>0, <2>1 DEF RefetchBehindRelay
  <2>. QED
    BY <2>1, <2>2, <2>3 DEF RefetchBehindRelay
<1>10. CASE LeafSend
  <2>1. UNCHANGED <<pc, cur, produced, refetch, cs>>
    BY <1>10 DEF LeafSend, taskVars, relayVars, cellVars
  <2>. QED
    BY <1>1, <2>1
<1>. QED
  BY <1>2, <1>3, <1>4, <1>5, <1>6, <1>7, <1>8, <1>9, <1>10, NextCases

----------------------------------------------------------------------------
(* The invariant and the theorems it yields.                               *)

\* The invariant holds initially.
LEMMA InitInv == Init => IInv
<1> SUFFICES ASSUME Init PROVE IInv
  OBVIOUS
<1>1. TypeOK
  <2>1. stream \in Seq(Seg)
    BY EmptySeq DEF Init
  <2>2. Init => broken \subseteq FaultKinds
    BY DEF Init
  <2>3. Init => refetch \in [Seg -> RefetchPc] /\ pc \in RelayPc
    BY DEF Init, RefetchPc, RelayPc
  <2>4. Init => faults \in 0 .. MaxFaults /\ cur \in Seg /\ produced \in 0 .. LastSeg + 1
    BY FaultAssumption, ObjectAssumption DEF Init, Seg
  <2>5. Init => leafNext \in 0 .. LastSeg + 1 /\ owed \in 0 .. Credit /\ front \in Seg
    BY PacingAssumption, ObjectAssumption DEF Init, Seg
  <2>. QED
    BY <2>1, <2>2, <2>3, <2>4, <2>5 DEF Init, TypeOK
<1>2. Len(stream) = 0
  BY EmptySeq DEF Init
<1>3. StreamOrdered /\ HandOrdered
  BY <1>2 DEF Init, StreamOrdered, HandOrdered, InHand
<1>4. PacePassed /\ RelayedBehind /\ SourceLearned /\ LeadBounded
  BY DEF Init, PacePassed, RelayedBehind, SourceLearned, LeadBounded, InHand
<1>5. RefetchBehindRelay
  BY DEF Init, RefetchBehindRelay
<1>. QED
  BY <1>1, <1>3, <1>4, <1>5 DEF IInv

\* The invariant holds of every reachable state.
THEOREM Inductive == Spec => []IInv
<1>1. IInv /\ [Next]_vars => IInv'
  BY TypeStep, OrderStep, PaceStep, RelayedStep, SourceStep, BehindStep DEF IInv
<1>. QED
  BY InitInv, <1>1, PTL DEF Spec

\* The relay's footprint past the demand front is bounded whatever is lost.
THEOREM FootprintBounded == Spec => []LeadBounded
BY Inductive, PTL DEF IInv

\* The handler never decides on a re-fetch without a source to pull from.
THEOREM RefetchSourceKnown == Spec => []RefetchHasSource
<1>1. IInv => RefetchHasSource
  BY DEF IInv, SourceLearned, RefetchHasSource
<1>. QED
  BY Inductive, <1>1, PTL

\* Re-fetches serve only what the relay has passed, and nothing above the
\* produced front is cached but what the relay is publishing.
THEOREM RefetchStaysBehind == Spec => []RefetchBehindRelay
BY Inductive, PTL DEF IInv

\* The relay, with all its interleavings and failures, implements the paced
\* producer.
THEOREM ImplementsPaced == Spec => PacedSpec
<1>1. Init => Paced!Init
  BY DEF Init, Paced!Init
<1>2. IInv /\ [Next]_vars => [Paced!Next]_(Paced!vars)
  <2> SUFFICES ASSUME IInv, [Next]_vars PROVE [Paced!Next]_(Paced!vars)
    OBVIOUS
  <2>0. /\ produced \in Nat /\ front \in Nat /\ cur \in Seg /\ Lookahead \in Nat
        /\ LastSeg \in Nat
    BY DEF IInv, TypeOK, Seg, Lookahead
  <2>1. CASE UNCHANGED <<front, produced>>
    BY <2>1 DEF Paced!vars
  <2>2. ASSUME NEW s \in Seg, Handle(s) PROVE [Paced!Next]_(Paced!vars)
    <3>1. UNCHANGED produced /\ front' \in Seg /\ front <= front'
      BY <2>2, HandleFrame DEF IInv
    <3>2. CASE front' = front
      BY <2>1, <3>1, <3>2
    <3>3. CASE front' # front
      <4>1. front' \in front + 1 .. LastSeg
        BY <2>0, <3>1, <3>3 DEF Seg
      <4>. QED
        BY <3>1, <4>1 DEF Paced!Next, Paced!Demand
    <3>. QED
      BY <3>2, <3>3
  <2>3. CASE StoreProduced
    <3>1. /\ UNCHANGED front /\ InHand
          /\ produced' = IF cur + 1 > produced THEN cur + 1 ELSE produced
      BY <2>3 DEF StoreProduced, AfterStore, InHand
    <3>2. produced <= front + Lookahead /\ produced <= cur
      BY <2>0, <3>1 DEF IInv, PacePassed, HandOrdered, Seg
    <3>3. produced' \in produced + 1 .. LastSeg + 1
      BY <2>0, <3>1, <3>2 DEF Seg
    <3>. QED
      BY <3>1, <3>2, <3>3 DEF Paced!Next, Paced!Produce
  <2>4. CASE Quiet \/ Turn \/ UNCHANGED vars
    BY <2>1, <2>4, QuietFrame, TurnFrame DEF orderVars, vars, taskVars, cellVars
  <2>5. CASE Subscribe \/ RecvData \/ SignInsert \/ Publish \/ LeafSend
    <3>1. UNCHANGED <<front, produced>>
      BY <2>5 DEF Subscribe, RecvData, SignInsert, Publish, LeafSend, taskVars, cellVars
    <3>. QED
      BY <2>1, <3>1
  <2>. QED
    BY <2>2, <2>3, <2>4, <2>5, NextCases
<1>. QED
  BY <1>1, <1>2, Inductive, PTL DEF Spec, PacedSpec, Paced!Spec
=============================================================================
