----------------------------- MODULE TunTunnel -----------------------------
(***************************************************************************)
(* The tunnel of crates/ndn-mobile/src/tun.rs in one direction: IP packets  *)
(* injected at the producing end are streamed as Data into the persistent   *)
(* PIT entry of the consuming end's subscription. spawn_tunnel starts both  *)
(* roles at each end; the two directions share nothing but the token.       *)
(*                                                                         *)
(* Which packet is where does not matter to the credit, so queues and the   *)
(* link are counts: the link may lose and reorder. The forwarders' entry    *)
(* and the subscription are external: one Interest carries Credit Data   *)
(* (tun.rs l.44-48, tests/tun_datapath.rs l.160-166).                       *)
(***************************************************************************)
EXTENDS Naturals

CONSTANTS
    Credit,     \* TunConfig.credit of the consuming end
    QueueCap,   \* TUN_QUEUE_CAP
    Faults,     \* how often each kind of failure may happen
    MaxPackets, \* bound on the packets injected
    MaxPermits  \* bound on the permits that lapsed subscriptions may leave

Kinds == {"data", "interest"}
Ends  == {"producer", "consumer"}

ASSUME CreditAssumption == Credit \in Nat \ {0}
ASSUME QueueAssumption  == QueueCap \in Nat \ {0}
ASSUME FaultAssumption  == Faults \in [Kinds -> Nat]
ASSUME BoundAssumption  == MaxPackets \in Nat /\ MaxPermits \in Nat

VARIABLES
    \* the producing end
    injected, \* packets its OS side injected
    up,       \* where the uplink streamer stands
    seq,      \* the next sequence number: packets published so far
    pending,  \* subscription Interests the serve loop has not seen yet
    budget,   \* permits of the semaphore
    \* the network
    asking,   \* subscription Interests on their way
    entry,    \* Data the persistent entry at the producing end may still carry
    link,     \* Data on its way or buffered in the subscription
    \* the consuming end
    down,     \* where the downlink task stands
    sub,      \* its subscription
    owed,     \* Data the subscription may still take before it re-expresses
    queue,    \* packets its OS side has not taken yet
    \* both
    cancelled, \* ends whose token has fired
    held,      \* ends whose TunHandle still exists
    lapsed,    \* history: some entry or subscription reached its lifetime
    faults     \* faults left of each kind

upVars   == <<injected, up, seq>>
grantVars == <<pending, budget>>
netVars  == <<asking, entry, link>>
downVars == <<down, sub, owed, queue>>
endVars  == <<cancelled, held>>
vars == <<upVars, grantVars, netVars, downVars, endVars, lapsed, faults>>

\* The packet the streamer has taken off the queue and not published;
\* what is queued ends with the streamer.
InHand == IF up \in {"permit", "publish"} THEN 1 ELSE 0
Queued == IF up = "stopped" THEN 0 ELSE injected - seq - InHand

TypeOK ==
    /\ injected \in 0 .. MaxPackets /\ seq \in Nat /\ Queued \in 0 .. QueueCap
    /\ up \in {"recv", "permit", "publish", "stopped"}
    /\ pending \in Nat /\ budget \in Nat
    /\ asking \in Nat /\ entry \in 0 .. Credit /\ link \in Nat
    /\ down \in {"subscribe", "recv", "deliver", "sleep", "stopped"}
    /\ sub \in {"none", "live", "dead"}
    /\ owed \in 0 .. Credit /\ (sub = "live" => owed > 0)
    /\ queue \in 0 .. QueueCap
    /\ cancelled \subseteq Ends /\ held \subseteq Ends
    /\ lapsed \in BOOLEAN
    /\ faults \in [Kinds -> Nat]

Init ==
    /\ injected = 0 /\ up = "recv" /\ seq = 0
    /\ pending = 0 /\ budget = 0
    /\ asking = 0 /\ entry = 0 /\ link = 0
    /\ down = "subscribe" /\ sub = "none" /\ owed = 0 /\ queue = 0
    /\ cancelled = {} /\ held = Ends
    /\ lapsed = FALSE
    /\ faults = Faults

Fault(kind) == faults[kind] > 0 /\ faults' = [faults EXCEPT ![kind] = @ - 1]

----------------------------------------------------------------------------
(* The producing end.                                                      *)

\* TunHandle::inject: waits while the queue is full, fails once the streamer
\* has ended.
Inject ==
    /\ "producer" \in held /\ up # "stopped"
    /\ injected < MaxPackets /\ Queued < QueueCap
    /\ injected' = injected + 1
    /\ UNCHANGED <<up, seq, grantVars, netVars, downVars, endVars, lapsed, faults>>

\* serve: every subscription Interest adds max_data_count permits. Mutant: the
\* count is not found and the Interest is worth one.
GrantedOne(b) == b + 1
Granted(b) == b + Credit

Serve ==
    /\ pending > 0
    /\ pending' = pending - 1
    /\ budget' = Granted(budget)
    /\ UNCHANGED <<upVars, netVars, downVars, endVars, lapsed, faults>>

TakePacket ==
    /\ up = "recv" /\ Queued > 0
    /\ up' = "permit"
    /\ UNCHANGED <<injected, seq, grantVars, netVars, downVars, endVars, lapsed, faults>>

\* acquire and forget. Mutant: it is only dropped, and returns.
HasPermit == budget > 0
PermitReturned(b) == b
Forgotten(b) == b - 1

TakePermit ==
    /\ up = "permit" /\ HasPermit
    /\ budget' = Forgotten(budget)
    /\ up' = "publish"
    /\ UNCHANGED <<injected, seq, pending, netVars, downVars, endVars, lapsed, faults>>

\* publish: Data that finds no entry is dropped by the forwarder, the permit is
\* spent either way. It fails only once the producer's face has gone.
Publish ==
    /\ up = "publish"
    /\ seq' = seq + 1
    /\ \/ /\ entry > 0
          /\ entry' = entry - 1
          /\ up' = "recv"
          /\ \/ link' = link + 1 /\ UNCHANGED faults
             \/ Fault("data") /\ UNCHANGED link
       \/ /\ entry = 0
          /\ up' = "recv"
          /\ UNCHANGED <<entry, link, faults>>
       \/ /\ "producer" \in cancelled
          /\ up' = "stopped"
          /\ UNCHANGED <<entry, link, faults>>
    /\ UNCHANGED <<injected, grantVars, asking, downVars, endVars, lapsed>>

\* Both waits of the streamer watch the token. Mutant: the one for a permit
\* does not.
PermitUnwatched == {"recv"}
Watched == {"recv", "permit"}

\* recv returns None when the handle is gone and the queue is empty.
StopUplink ==
    /\ \/ up \in Watched /\ "producer" \in cancelled
       \/ up = "recv" /\ Queued = 0 /\ "producer" \notin held
    /\ up' = "stopped"
    /\ UNCHANGED <<injected, seq, grantVars, netVars, downVars, endVars, lapsed, faults>>

----------------------------------------------------------------------------
(* The forwarders.                                                         *)

\* The Interest renews the entry and is handed to the producer's serve loop.
\* Without a producer nobody has a route for it.
Arrive ==
    /\ asking > 0
    /\ asking' = asking - 1
    /\ IF "producer" \in cancelled
       THEN UNCHANGED <<entry, pending>>
       ELSE entry' = Credit /\ pending' = pending + 1
    /\ UNCHANGED <<upVars, budget, link, downVars, endVars, lapsed, faults>>

\* It is lost on the way, or a Nack ends the subscription.
LoseInterest ==
    /\ asking > 0
    /\ Fault("interest")
    /\ asking' = asking - 1
    /\ \/ UNCHANGED sub
       \/ sub = "live" /\ sub' = "dead"
    /\ UNCHANGED <<upVars, grantVars, entry, link, down, owed, queue, endVars, lapsed>>

EntryLapses ==
    /\ entry > 0
    /\ entry' = 0
    /\ lapsed' = TRUE
    /\ UNCHANGED <<upVars, grantVars, asking, link, downVars, endVars, faults>>

\* The permits of a subscription that lapsed stay in the semaphore and add up:
\* the bound keeps their number finite.
SubLapses ==
    /\ sub = "live"
    /\ budget + Credit * (pending + asking + 1) <= MaxPermits
    /\ sub' = "dead"
    /\ lapsed' = TRUE
    /\ UNCHANGED <<upVars, grantVars, netVars, down, owed, queue, endVars, faults>>

----------------------------------------------------------------------------
(* The consuming end.                                                      *)

\* Top of 'resubscribe: the token first, then one Interest worth Credit Data.
Subscribe ==
    /\ down = "subscribe"
    /\ \/ /\ "consumer" \in cancelled
          /\ down' = "stopped"
          /\ UNCHANGED <<asking, sub, owed, faults>>
       \/ /\ "consumer" \notin cancelled
          /\ down' = "recv"
          /\ sub' = "live" /\ owed' = Credit /\ asking' = asking + 1
          /\ UNCHANGED faults
       \/ /\ "consumer" \notin cancelled
          /\ Fault("interest")
          /\ down' = "sleep"
          /\ UNCHANGED <<asking, sub, owed>>
    /\ UNCHANGED <<upVars, grantVars, entry, link, queue, endVars, lapsed>>

\* Taking the last Data of a grant re-expresses the subscription.
RecvData ==
    /\ down = "recv" /\ link > 0
    /\ link' = link - 1
    /\ down' = "deliver"
    /\ IF sub = "live" /\ owed = 1
       THEN owed' = Credit /\ asking' = asking + 1
       ELSE owed' = (IF owed = 0 THEN 0 ELSE owed - 1) /\ UNCHANGED asking
    /\ UNCHANGED <<upVars, grantVars, entry, sub, queue, endVars, lapsed, faults>>

\* deliver_tx.send waits for room in the queue and watches no token; it fails
\* once the OS side is gone.
Deliver ==
    /\ down = "deliver"
    /\ \/ /\ "consumer" \in held /\ queue < QueueCap
          /\ queue' = queue + 1
          /\ down' = "recv"
       \/ /\ "consumer" \notin held
          /\ down' = "stopped"
          /\ UNCHANGED queue
    /\ UNCHANGED <<upVars, grantVars, netVars, sub, owed, endVars, lapsed, faults>>

\* A subscription that ended returns Err. Data that comes while there is none
\* finds no entry at this end. Mutant: the loop keeps the dead subscription.
KeepsReceiving == "recv"
AfterErr == "sleep"

RecvErr ==
    /\ down = "recv" /\ sub = "dead"
    /\ down' = AfterErr
    /\ sub' = "none"
    /\ link' \in 0 .. link
    /\ UNCHANGED <<upVars, grantVars, asking, entry, owed, queue, endVars, lapsed, faults>>

Sleep ==
    /\ down = "sleep"
    /\ down' = "subscribe"
    /\ UNCHANGED <<upVars, grantVars, netVars, sub, owed, queue, endVars, lapsed, faults>>

StopDownlink ==
    /\ down \in {"recv", "sleep"} /\ "consumer" \in cancelled
    /\ down' = "stopped"
    /\ UNCHANGED <<upVars, grantVars, netVars, sub, owed, queue, endVars, lapsed, faults>>

\* TunHandle::next
OsNext ==
    /\ "consumer" \in held /\ queue > 0
    /\ queue' = queue - 1
    /\ UNCHANGED <<upVars, grantVars, netVars, down, sub, owed, endVars, lapsed, faults>>

----------------------------------------------------------------------------
Cancel(e) ==
    /\ e \notin cancelled
    /\ cancelled' = cancelled \cup {e}
    /\ UNCHANGED <<upVars, grantVars, netVars, downVars, held, lapsed, faults>>

\* The last reference to a TunHandle is dropped.
Release(e) ==
    /\ e \in held
    /\ held' = held \ {e}
    /\ UNCHANGED <<upVars, grantVars, netVars, downVars, cancelled, lapsed, faults>>

Uplink   == TakePacket \/ TakePermit \/ Publish \/ StopUplink
Downlink == Subscribe \/ RecvData \/ Deliver \/ RecvErr \/ Sleep \/ StopDownlink
Network  == Arrive \/ LoseInterest \/ EntryLapses \/ SubLapses
Platform == Inject \/ OsNext \/ \E e \in Ends : Cancel(e) \/ Release(e)

Next == Uplink \/ Serve \/ Downlink \/ Network \/ Platform

Spec == Init /\ [][Next]_vars

(* The tasks run, Interests that are not lost arrive, lifetimes end, and the *)
(* platform's pump keeps calling next. Nothing is assumed of injections,     *)
(* failures, cancellations and handles.                                      *)
Fairness ==
    /\ WF_vars(Uplink) /\ WF_vars(Downlink)
    /\ WF_vars("producer" \notin cancelled /\ Serve)
    /\ WF_vars(Arrive) /\ WF_vars(SubLapses)
    /\ WF_vars(OsNext)

FairSpec == Spec /\ Fairness

----------------------------------------------------------------------------
(* Properties.                                                             *)

\* What k Interests are worth in Data, and the permits the producing end has,
\* will get from Interests it was handed, or holds for the packet it publishes.
Publishing == IF up = "publish" THEN 1 ELSE 0
Worth(k) == Credit * k
Permits == budget + Worth(pending) + Publishing

\* The streamer never waits for credit while the peer's entry has room (l.13-16):
\* each Data the entry may still carry has its permit.
SlotsHavePermits == "producer" \notin cancelled => entry <= Permits

\* Until some lifetime ends the credit is a window (l.44-46): permits, Data and
\* Interests on the way add up to at most what the consumer still waits for, so
\* a consumer whose OS side is slow holds the producer back; and no packet is
\* published into a missing entry. Later neither holds: what a lapsed
\* subscription granted stays in the semaphore.
FlowControl ==
    ~lapsed =>
        /\ sub = "live" => Permits + link + Worth(asking) <= owed
        /\ Permits <= entry

\* Lost Data or a lost Interest leaves the streamer without permits and the
\* consumer waiting for the rest of its grant: the lifetime must free them. A
\* packet injected while both ends stay up is published, even if its handle goes.
EveryPacketLeaves ==
    \A n \in 1 .. MaxPackets :
        injected >= n ~> seq >= n \/ cancelled # {} \/ "consumer" \notin held

\* All tasks stop when the token fires (l.115), provided the platform goes on
\* taking packets: a delivery into a full queue does not see the token.
TasksStop ==
    /\ "producer" \in cancelled ~> up = "stopped"
    /\ "consumer" \in cancelled ~> down = "stopped"

=============================================================================
