-------------------------- MODULE TunTunnelProofs --------------------------
(***************************************************************************)
(* The credit of TunTunnel as a window, for every credit, queue and number  *)
(* of failures.                                                            *)
(***************************************************************************)
EXTENDS TunTunnel, TLAPS

----------------------------------------------------------------------------
(* Interests and what they are worth.                                      *)

LEMMA WorthFacts ==
    /\ Worth(0) = 0
    /\ \A k \in Nat : /\ Worth(k) \in Nat
                      /\ Worth(k + 1) = Worth(k) + Credit
                      /\ k > 0 => Worth(k - 1) = Worth(k) - Credit /\ Worth(k) >= Credit
  <1> USE CreditAssumption
  <1>1. Worth(0) = 0
    BY DEF Worth
  <1>2. ASSUME NEW k \in Nat
        PROVE  Worth(k) \in Nat /\ Worth(k + 1) = Worth(k) + Credit
    BY DEF Worth
  <1>3. ASSUME NEW k \in Nat, k > 0
        PROVE  Worth(k - 1) = Worth(k) - Credit /\ Worth(k) >= Credit
    <2>1. k - 1 \in Nat /\ (k - 1) + 1 = k
      BY <1>3
    <2>2. Worth((k - 1) + 1) = Worth(k - 1) + Credit /\ Worth(k - 1) \in Nat
      BY <2>1, <1>2
    <2> QED
      BY <2>1, <2>2
  <1> QED
    BY <1>1, <1>2, <1>3

----------------------------------------------------------------------------
(* The inductive invariant.                                                *)

\* Between two subscriptions the task holds none.
DownInv == down \in {"subscribe", "sleep"} => sub = "none"

\* Until a lifetime ends, a consumer without a subscription has nothing coming.
WindowInv ==
    ~lapsed => (sub # "live" => Permits + link + Worth(asking) = 0)

IInv == TypeOK /\ DownInv /\ SlotsHavePermits /\ FlowControl /\ WindowInv

LEMMA InitIInv == Init => IInv
  <1> SUFFICES ASSUME Init PROVE IInv
    OBVIOUS
  <1> USE DEF Init
  <1>1. TypeOK
    <2>1. InHand = 0
      BY DEF InHand
    <2>2. Queued = 0
      BY <2>1 DEF Queued
    <2>3. /\ injected \in 0 .. MaxPackets /\ seq \in Nat /\ Queued \in 0 .. QueueCap
          /\ entry \in 0 .. Credit /\ owed \in 0 .. Credit /\ queue \in 0 .. QueueCap
          /\ faults \in [Kinds -> Nat]
      BY <2>2, CreditAssumption, QueueAssumption, FaultAssumption, BoundAssumption
    <2> QED
      BY <2>3 DEF TypeOK
  <1>2. Permits = 0
    BY WorthFacts DEF Permits, Publishing
  <1>3. DownInv /\ SlotsHavePermits /\ FlowControl /\ WindowInv
    BY <1>2, WorthFacts DEF DownInv, SlotsHavePermits, FlowControl, WindowInv
  <1> QED
    BY <1>1, <1>3 DEF IInv

LEMMA StepTyped == TypeOK /\ [Next]_vars => TypeOK'
  <1> SUFFICES ASSUME TypeOK, [Next]_vars PROVE TypeOK'
    OBVIOUS
  <1> USE CreditAssumption, QueueAssumption, BoundAssumption
      DEF TypeOK, Queued, InHand, upVars, grantVars, netVars, downVars, endVars
  <1>0. ASSUME NEW k \in Kinds, Fault(k) PROVE faults' \in [Kinds -> Nat]
    BY <1>0 DEF Fault
  <1>k. "data" \in Kinds /\ "interest" \in Kinds
    BY DEF Kinds
  <1>1. CASE Inject
    BY <1>1 DEF Inject
  <1>2. CASE Serve
    BY <1>2 DEF Serve, Granted
  <1>3. CASE TakePacket
    BY <1>3 DEF TakePacket
  <1>4. CASE TakePermit
    BY <1>4 DEF TakePermit, HasPermit, Forgotten
  <1>5. CASE Publish
    <2> USE DEF Publish
    <2>1. faults' \in [Kinds -> Nat]
      BY <1>5, <1>0, <1>k
    <2>2. up' \in {"recv", "stopped"} /\ seq' = seq + 1 /\ Queued' \in 0 .. QueueCap
      BY <1>5
    <2>3. entry' \in 0 .. Credit /\ link' \in Nat
      BY <1>5
    <2> QED
      BY <1>5, <2>1, <2>2, <2>3
  <1>6. CASE StopUplink
    BY <1>6 DEF StopUplink
  <1>7. CASE Arrive
    BY <1>7 DEF Arrive
  <1>8. CASE LoseInterest
    BY <1>8, <1>0, <1>k DEF LoseInterest
  <1>9. CASE EntryLapses
    BY <1>9 DEF EntryLapses
  <1>10. CASE SubLapses
    BY <1>10 DEF SubLapses
  <1>11. CASE Subscribe
    BY <1>11, <1>0, <1>k DEF Subscribe
  <1>12. CASE RecvData
    BY <1>12 DEF RecvData
  <1>13. CASE Deliver
    BY <1>13 DEF Deliver
  <1>14. CASE RecvErr
    BY <1>14 DEF RecvErr, AfterErr
  <1>15. CASE Sleep
    BY <1>15 DEF Sleep
  <1>16. CASE StopDownlink
    BY <1>16 DEF StopDownlink
  <1>17. CASE OsNext
    BY <1>17 DEF OsNext
  <1>18. ASSUME NEW e \in Ends, Cancel(e) \/ Release(e) PROVE TypeOK'
    BY <1>18 DEF Cancel, Release
  <1>19. CASE UNCHANGED vars
    BY <1>19 DEF vars
  <1> QED
    BY <1>1, <1>2, <1>3, <1>4, <1>5, <1>6, <1>7, <1>8, <1>9, <1>10, <1>11, <1>12,
       <1>13, <1>14, <1>15, <1>16, <1>17, <1>18, <1>19
       DEF Next, Uplink, Downlink, Network, Platform

----------------------------------------------------------------------------
(* The window.                                                             *)

CreditInv == SlotsHavePermits /\ FlowControl /\ WindowInv

LEMMA Sums ==
    ASSUME TypeOK
    PROVE  /\ Permits \in Nat /\ Publishing \in {0, 1}
           /\ Worth(asking) \in Nat /\ Worth(pending) \in Nat
           /\ budget \in Nat /\ pending \in Nat /\ asking \in Nat /\ link \in Nat
           /\ entry \in Nat /\ entry <= Credit /\ owed \in Nat /\ owed <= Credit
           /\ Credit \in Nat /\ Credit > 0
  <1>1. /\ budget \in Nat /\ pending \in Nat /\ asking \in Nat /\ link \in Nat
        /\ entry \in Nat /\ entry <= Credit /\ owed \in Nat /\ owed <= Credit
        /\ Credit \in Nat /\ Credit > 0
    BY CreditAssumption DEF TypeOK
  <1>2. Worth(asking) \in Nat /\ Worth(pending) \in Nat /\ Publishing \in {0, 1}
    BY <1>1, WorthFacts DEF Publishing
  <1> QED
    BY <1>1, <1>2 DEF Permits

\* Steps that touch neither permits nor what the network and the subscription
\* hold keep the window.
LEMMA CreditUntouched ==
    ASSUME TypeOK, CreditInv, Publishing' = Publishing,
           UNCHANGED <<pending, budget, asking, entry, link, sub, owed, lapsed>>,
           cancelled \subseteq cancelled'
    PROVE  CreditInv'
  <1>1. Permits' = Permits /\ Worth(asking)' = Worth(asking)
    BY DEF Permits, Worth
  <1> QED
    BY <1>1 DEF CreditInv, SlotsHavePermits, FlowControl, WindowInv

LEMMA ProducerSteps ==
    ASSUME TypeOK, CreditInv, Serve \/ TakePermit \/ Publish
    PROVE  CreditInv'
  <1> USE Sums DEF upVars, netVars, downVars, endVars
  <1>1. Worth(asking)' = Worth(asking) /\ sub' = sub /\ owed' = owed /\ lapsed' = lapsed
        /\ cancelled' = cancelled
    BY DEF Serve, TakePermit, Publish, Worth
  <1>2. CASE Serve
    <2>1. Permits' = Permits
      <3>1. pending > 0 /\ pending' = pending - 1 /\ budget' = budget + Credit /\ Publishing' = Publishing
        BY <1>2 DEF Serve, Granted, Publishing
      <3>2. Worth(pending)' = Worth(pending) - Credit
        BY <3>1, WorthFacts DEF Worth
      <3> QED
        BY <3>1, <3>2 DEF Permits
    <2>2. entry' = entry /\ link' = link
      BY <1>2 DEF Serve
    <2> QED
      BY <1>1, <2>1, <2>2 DEF CreditInv, SlotsHavePermits, FlowControl, WindowInv
  <1>3. CASE TakePermit
    <2>1. Permits' = Permits
      BY <1>3 DEF TakePermit, Forgotten, Permits, Publishing, Worth
    <2>2. entry' = entry /\ link' = link
      BY <1>3 DEF TakePermit
    <2> QED
      BY <1>1, <2>1, <2>2 DEF CreditInv, SlotsHavePermits, FlowControl, WindowInv
  <1>4. CASE Publish
    <2>1. Permits' = Permits - 1 /\ Permits >= 1
      <3>1. Publishing = 1 /\ Publishing' = 0
        BY <1>4 DEF Publish, Publishing
      <3>2. budget' = budget /\ Worth(pending)' = Worth(pending)
        BY <1>4 DEF Publish, grantVars, Worth
      <3> QED
        BY <3>1, <3>2 DEF Permits
    <2>2. \/ entry > 0 /\ entry' = entry - 1 /\ link' \in {link, link + 1}
          \/ entry = 0 /\ entry' = entry /\ link' = link
          \/ "producer" \in cancelled /\ entry' = entry /\ link' = link
      BY <1>4 DEF Publish
    <2> QED
      BY <1>1, <2>1, <2>2 DEF CreditInv, SlotsHavePermits, FlowControl, WindowInv
  <1> QED
    BY <1>2, <1>3, <1>4

LEMMA NetworkSteps ==
    ASSUME TypeOK, CreditInv, Network
    PROVE  CreditInv'
  <1> USE Sums DEF upVars, grantVars, downVars, endVars
  <1>1. CASE Arrive
    <2>1. asking > 0 /\ Worth(asking)' = Worth(asking) - Credit /\ Worth(asking) >= Credit
      BY <1>1, WorthFacts DEF Arrive, Worth
    <2>2. \/ "producer" \in cancelled /\ Permits' = Permits /\ entry' = entry
          \/ Permits' = Permits + Credit /\ entry' = Credit
      <3>1. Publishing' = Publishing /\ budget' = budget
        BY <1>1 DEF Arrive, Publishing
      <3>2. CASE "producer" \in cancelled
        BY <1>1, <3>1, <3>2 DEF Arrive, Permits, Worth
      <3>3. CASE "producer" \notin cancelled
        <4>1. entry' = Credit /\ pending' = pending + 1
          BY <1>1, <3>3 DEF Arrive
        <4>2. Worth(pending)' = Worth(pending) + Credit
          BY <4>1, WorthFacts DEF Worth
        <4> QED
          BY <3>1, <4>1, <4>2 DEF Permits
      <3> QED
        BY <3>2, <3>3
    <2>3. sub' = sub /\ owed' = owed /\ lapsed' = lapsed /\ cancelled' = cancelled /\ link' = link
      BY <1>1 DEF Arrive
    <2> QED
      BY <2>1, <2>2, <2>3 DEF CreditInv, SlotsHavePermits, FlowControl, WindowInv
  <1>2. CASE LoseInterest
    <2>1. asking > 0 /\ Worth(asking)' = Worth(asking) - Credit /\ Worth(asking) >= Credit
      BY <1>2, WorthFacts DEF LoseInterest, Worth
    <2>2. Permits' = Permits /\ entry' = entry /\ link' = link /\ owed' = owed
          /\ lapsed' = lapsed /\ cancelled' = cancelled
      BY <1>2 DEF LoseInterest, Permits, Publishing, Worth
    <2>3. sub' = sub \/ (sub = "live" /\ sub' = "dead")
      BY <1>2 DEF LoseInterest
    <2> QED
      BY <2>1, <2>2, <2>3 DEF CreditInv, SlotsHavePermits, FlowControl, WindowInv
  <1>3. CASE EntryLapses \/ SubLapses
    <2>1. lapsed' /\ cancelled' = cancelled /\ entry' \in {0, entry} /\ Permits' = Permits
      BY <1>3 DEF EntryLapses, SubLapses, netVars, Permits, Publishing, Worth
    <2> QED
      BY <2>1 DEF CreditInv, SlotsHavePermits, FlowControl, WindowInv
  <1> QED
    BY <1>1, <1>2, <1>3 DEF Network

LEMMA ConsumerSteps ==
    ASSUME TypeOK, DownInv, CreditInv, Subscribe \/ RecvData \/ RecvErr
    PROVE  CreditInv'
  <1> USE Sums DEF upVars, grantVars, endVars
  <1>1. Permits' = Permits /\ entry' = entry /\ lapsed' = lapsed /\ cancelled' = cancelled
    BY DEF Subscribe, RecvData, RecvErr, Permits, Publishing, Worth
  <1>2. CASE Subscribe
    <2>1. sub # "live"
      BY <1>2 DEF Subscribe, DownInv
    <2>2. link' = link
      BY <1>2 DEF Subscribe
    <2>3. \/ asking' = asking /\ sub' = sub /\ owed' = owed
          \/ asking' = asking + 1 /\ sub' = "live" /\ owed' = Credit
      BY <1>2 DEF Subscribe
    <2>4. \/ Worth(asking)' = Worth(asking) /\ sub' = sub /\ owed' = owed
          \/ Worth(asking)' = Worth(asking) + Credit /\ sub' = "live" /\ owed' = Credit
      BY <2>3, WorthFacts DEF Worth
    <2> QED
      BY <1>1, <2>1, <2>2, <2>4 DEF CreditInv, SlotsHavePermits, FlowControl, WindowInv
  <1>3. CASE RecvData
    <2>1. link > 0 /\ link' = link - 1 /\ sub' = sub
      BY <1>3 DEF RecvData
    <2>2. \/ sub = "live" /\ owed = 1 /\ owed' = Credit /\ asking' = asking + 1
          \/ owed' >= owed - 1 /\ asking' = asking
      BY <1>3 DEF RecvData
    <2>3. \/ sub = "live" /\ owed = 1 /\ owed' = Credit /\ Worth(asking)' = Worth(asking) + Credit
          \/ owed' >= owed - 1 /\ Worth(asking)' = Worth(asking)
      BY <2>2, WorthFacts DEF Worth
    <2>4. owed' \in Nat
      BY <1>3 DEF RecvData
    <2> QED
      BY <1>1, <2>1, <2>3, <2>4 DEF CreditInv, SlotsHavePermits, FlowControl, WindowInv
  <1>4. CASE RecvErr
    <2>1. sub = "dead" /\ sub' = "none" /\ Worth(asking)' = Worth(asking)
      BY <1>4 DEF RecvErr, Worth
    <2>2. link' \in Nat /\ link' <= link
      BY <1>4 DEF RecvErr
    <2>3. SlotsHavePermits' /\ FlowControl'
      BY <1>1, <2>1 DEF CreditInv, SlotsHavePermits, FlowControl
    <2>4. ~lapsed => Permits = 0 /\ link = 0 /\ Worth(asking) = 0
      BY <2>1 DEF CreditInv, WindowInv
    <2>5. ~lapsed' => Permits' = 0 /\ link' = 0 /\ Worth(asking)' = 0
      BY <1>1, <2>1, <2>2, <2>4
    <2>6. WindowInv'
      BY <2>5 DEF WindowInv
    <2> QED
      BY <2>3, <2>6 DEF CreditInv
  <1> QED
    BY <1>2, <1>3, <1>4

LEMMA StepDown == TypeOK /\ DownInv /\ [Next]_vars => DownInv'
  BY DEF TypeOK, DownInv, Next, Uplink, Downlink, Network, Platform, vars, upVars, grantVars,
         netVars, downVars, endVars, Inject, Serve, TakePacket, TakePermit, Publish,
         StopUplink, Arrive, LoseInterest, EntryLapses, SubLapses, Subscribe, RecvData,
         Deliver, RecvErr, AfterErr, Sleep, StopDownlink, OsNext, Cancel, Release

LEMMA StepIInv == IInv /\ [Next]_vars => IInv'
  <1> SUFFICES ASSUME IInv, [Next]_vars PROVE IInv'
    OBVIOUS
  <1>1. TypeOK /\ DownInv /\ CreditInv
    BY DEF IInv, CreditInv
  <1>2. TypeOK' /\ DownInv'
    BY <1>1, StepTyped, StepDown
  <1>3. CreditInv'
    <2>1. CASE Serve \/ TakePermit \/ Publish
      BY <1>1, <2>1, ProducerSteps
    <2>2. CASE Network
      BY <1>1, <2>2, NetworkSteps
    <2>3. CASE Subscribe \/ RecvData \/ RecvErr
      BY <1>1, <2>3, ConsumerSteps
    <2>4. CASE TakePacket \/ StopUplink \/ Deliver \/ Sleep \/ StopDownlink \/ Platform \/ UNCHANGED vars
      <3>1. Publishing' = Publishing
        BY <2>4 DEF TakePacket, StopUplink, Watched, Deliver, Sleep, StopDownlink, Platform, Inject,
                    OsNext, Cancel, Release, vars, upVars, Publishing
      <3>2. /\ UNCHANGED <<pending, budget, asking, entry, link, sub, owed, lapsed>>
            /\ cancelled \subseteq cancelled'
        BY <2>4 DEF TakePacket, StopUplink, Deliver, Sleep, StopDownlink, Platform, Inject,
                    OsNext, Cancel, Release, vars, grantVars, netVars, downVars, endVars
      <3> QED
        BY <1>1, <3>1, <3>2, CreditUntouched
    <2> QED
      BY <2>1, <2>2, <2>3, <2>4 DEF Next, Uplink, Downlink
  <1> QED
    BY <1>2, <1>3 DEF IInv, CreditInv

----------------------------------------------------------------------------
(* The theorems.                                                           *)

LEMMA Invariance == Spec => []IInv
  BY InitIInv, StepIInv, PTL DEF Spec

\* The tunnel's counters stay in their ranges: no permit is taken that was not
\* granted, and the queues keep their capacity.
THEOREM TunnelTyped == Spec => []TypeOK
  <1>1. IInv => TypeOK
    BY DEF IInv
  <1> QED
    BY <1>1, Invariance, PTL

\* Whatever is lost or lapses, the uplink streamer has a permit for each Data
\* the peer's persistent entry may still carry.
THEOREM AlwaysSlotsHavePermits == Spec => []SlotsHavePermits
  <1>1. IInv => SlotsHavePermits
    BY DEF IInv
  <1> QED
    BY <1>1, Invariance, PTL

\* Until a lifetime ends the credit of a subscription bounds what is on its way
\* and every permit has an entry to publish into, whatever the network loses.
THEOREM AlwaysFlowControl == Spec => []FlowControl
  <1>1. IInv => FlowControl
    BY DEF IInv
  <1> QED
    BY <1>1, Invariance, PTL
=============================================================================
