---------------------------- MODULE ObjectRelay ----------------------------
(***************************************************************************)
(* The engine-side producer of record for a streamed object                *)
(* (crates/ndn-mobile/src/object_relay.rs) together with the keyless leaf   *)
(* that streams the raw segments to it (crates/ndn-boltffi/src/offer.rs,    *)
(* serve_content_stream).                                                   *)
(*                                                                         *)
(* Three kinds of task run concurrently and share a few cells:             *)
(*   - the serve handler, one instance per Interest that misses the CS;    *)
(*   - the relay loop, at most one, started by the first such Interest;    *)
(*   - backward re-fetches, any number, one of them on the seam at a time.  *)
(* The forwarder (CS and PIT), the seam's subscription and the consumer    *)
(* are external: they are modelled from how this code uses them.           *)
(***************************************************************************)
EXTENDS Naturals, Sequences

CONSTANTS
    LastSeg,      \* last_seg of the object: its segments are 0 .. LastSeg
    LookaheadArg, \* the lookahead passed to spawn_object_relay
    Credit,       \* RELAY_CREDIT, the max_data_count of one subscription
    Window,       \* the consumer's window of outstanding segments
    Faults,       \* kinds of failure that may happen in this instance
    MaxFaults     \* bound on how many of them happen

FaultKinds ==
    {"evict", "expire", "radio", "sign", "subscription", "refetch", "read", "remove", "cancel"}

\* Failures of the network and the CS, which the consumer's retries make good.
NetworkFaults == {"evict", "expire", "radio", "refetch"}

ASSUME ObjectAssumption == LastSeg \in Nat
ASSUME PacingAssumption == LookaheadArg \in Nat /\ Credit \in Nat \ {0}
ASSUME WindowAssumption == Window \in Nat \ {0}
ASSUME FaultAssumption  == Faults \subseteq FaultKinds /\ MaxFaults \in Nat

VARIABLES
    \* relay loop
    pc,        \* where the relay task stands; "idle" while its inputs are not taken
    cur,       \* the segment the relay has in hand
    \* cells shared by the handler and the relay
    front,     \* demand.front
    wake,      \* demand.wake: Notify holds a permit
    produced,  \* one past the highest segment the relay has published
    srcKnown,  \* source_versioned is Some
    \* backward re-fetches
    refetch,   \* refetch[s]: where the task pulling segment s stands
    \* the leaf and the seam
    offered,   \* the leaf still holds the offer's ServeGuard
    streaming, \* the leaf's in-order streamer task has met no failure
    budget,    \* permits of the streamer's semaphore
    leafNext,  \* the next segment the streamer will publish
    sub,       \* the relay's subscription: "none", "live" or "dead"
    stream,    \* Data queued in the subscription, oldest first
    owed,      \* Data the subscription may still take before it re-expresses
    \* forwarder and consumer
    cs,        \* segments in the engine's Content Store
    pit,       \* segments with a pending radio Interest
    missed,    \* Interests past the CS lookup, not yet in the PIT
    handling,  \* Interests handed to the serve handler
    want,      \* segments the consumer is still missing
    \* bookkeeping
    faults,    \* failures so far
    broken,    \* history: the kinds of those that were not of the network
    cancelled, \* the engine's shutdown token fired
    relayed    \* history: segments the relay inserted into the CS

relayVars == <<pc, cur>>
cellVars  == <<front, wake, produced, srcKnown>>
leafVars  == <<offered, streaming, budget, leafNext>>
seamVars  == <<sub, stream, owed>>
netVars   == <<pit, missed, handling, want>>
taskVars   == <<relayVars, cellVars>>
sourceVars == <<leafVars, seamVars>>
faultVars  == <<faults, broken>>
vars == <<taskVars, refetch, sourceVars, cs, netVars, faultVars, cancelled, relayed>>

Seg == 0 .. LastSeg
RelayPc == {"idle", "subscribe", "pace", "pausing", "waiting", "recv",
            "sign", "publish", "store", "stopped"}
RefetchPc == {"idle", "queued", "fetching", "fetched", "cached"}

\* spawn_object_relay clamps the argument: a lookahead of zero is one.
Lookahead == IF LookaheadArg = 0 THEN 1 ELSE LookaheadArg

TypeOK ==
    /\ pc \in RelayPc /\ cur \in Seg
    /\ front \in Seg /\ wake \in BOOLEAN
    /\ produced \in 0 .. LastSeg + 1 /\ srcKnown \in BOOLEAN
    /\ refetch \in [Seg -> RefetchPc]
    /\ offered \in BOOLEAN /\ streaming \in BOOLEAN
    /\ budget \in Nat /\ leafNext \in 0 .. LastSeg + 1
    /\ sub \in {"none", "live", "dead"} /\ stream \in Seq(Seg)
    /\ owed \in 0 .. Credit
    /\ cs \subseteq Seg /\ pit \subseteq Seg /\ missed \subseteq Seg
    /\ handling \subseteq Seg /\ want \subseteq Seg
    /\ faults \in 0 .. MaxFaults /\ broken \subseteq FaultKinds /\ cancelled \in BOOLEAN
    /\ relayed \subseteq Seg

Init ==
    /\ pc = "idle" /\ cur = 0
    /\ front = 0 /\ wake = FALSE /\ produced = 0 /\ srcKnown = FALSE
    /\ refetch = [s \in Seg |-> "idle"]
    /\ offered = TRUE /\ streaming = TRUE /\ budget = 0 /\ leafNext = 0
    /\ sub = "none" /\ stream = <<>> /\ owed = 0
    /\ cs = {} /\ pit = {} /\ missed = {} /\ handling = {} /\ want = Seg
    /\ faults = 0 /\ broken = {} /\ cancelled = FALSE /\ relayed = {}

----------------------------------------------------------------------------
(* Failures are charged against one budget, whatever their kind.           *)

Fault(kind) ==
    /\ kind \in Faults /\ faults < MaxFaults
    /\ faults' = faults + 1
    /\ broken' = broken \cup ({kind} \ NetworkFaults)
NoFault == UNCHANGED faultVars

\* Data for s leaves towards the consumer, which gets it unless the radio
\* loses it. Data nobody asked for is dropped.
Deliver(s, asked) ==
    \/ /\ want' = IF asked THEN want \ {s} ELSE want
       /\ NoFault
    \/ /\ asked
       /\ Fault("radio")
       /\ UNCHANGED want

\* Data for s enters the forwarder and consumes the PIT entry.
Satisfy(s) ==
    /\ Deliver(s, s \in pit)
    /\ pit' = pit \ {s}

----------------------------------------------------------------------------
(* The consumer and the forwarder (external).                              *)

\* The consumer (re)expresses an Interest for a missing segment of its window:
\* a CS hit is answered at once, a miss goes on towards the PIT. It asks again
\* for a segment only when nothing is under way for it.
Express(s) ==
    /\ s \in want /\ s \notin missed \cup handling
    /\ \A t \in want : s < t + Window
    /\ refetch[s] = "idle" /\ ~cancelled
    /\ \/ /\ s \in cs
          /\ Deliver(s, TRUE)
          /\ UNCHANGED missed
       \/ /\ s \notin cs
          /\ missed' = missed \cup {s}
          /\ UNCHANGED want /\ NoFault
    /\ UNCHANGED <<taskVars, refetch, sourceVars, cs, pit, handling, cancelled,
                   relayed>>

\* The forwarder records the Interest and hands it to the producer. Between
\* the CS lookup and this step the relay may have inserted the segment.
PitInsert(s) ==
    /\ s \in missed
    /\ missed' = missed \ {s}
    /\ pit' = pit \cup {s}
    /\ handling' = IF cancelled THEN handling ELSE handling \cup {s}
    /\ NoFault
    /\ UNCHANGED <<taskVars, refetch, sourceVars, cs, want, cancelled, relayed>>

PitExpire(s) ==
    /\ s \in pit
    /\ Fault("expire")
    /\ pit' = pit \ {s}
    /\ UNCHANGED <<taskVars, refetch, sourceVars, cs, missed, handling, want,
                   cancelled, relayed>>

Evict(s) ==
    /\ s \in cs
    /\ Fault("evict")
    /\ cs' = cs \ {s}
    /\ UNCHANGED <<taskVars, refetch, sourceVars, netVars, cancelled, relayed>>

----------------------------------------------------------------------------
(* The serve handler.                                                      *)

\* Notify::notify_one stores a permit when nobody waits yet. Mutant: the
\* handler only moves the front.
NotifyForgotten == UNCHANGED wake
NotifyOne == wake' = TRUE

\* The relay has passed s, so only a re-fetch can serve it again. Mutant:
\* the comparison off by one.
PassedButLast(s) == s + 1 < produced
Passed(s) == s < produced

\* Raise the demand front, leave a wake-up, start the relay on the first call,
\* and hand a segment below the produced front to a backward re-fetch.

Handle(s) ==
    /\ s \in handling
    /\ handling' = handling \ {s}
    /\ front' = IF s > front THEN s ELSE front
    /\ NotifyOne
    /\ pc' = IF pc = "idle" THEN "subscribe" ELSE pc
    /\ refetch' = IF Passed(s) /\ srcKnown /\ refetch[s] = "idle"
                  THEN [refetch EXCEPT ![s] = "queued"]
                  ELSE refetch
    /\ NoFault
    /\ UNCHANGED <<cur, produced, srcKnown, sourceVars, cs, pit, missed, want,
                   cancelled, relayed>>

----------------------------------------------------------------------------
(* backward_refetch.                                                       *)

\* The shared Consumer is behind an async mutex: one fetch at a time.
RefetchStart(s) ==
    /\ refetch[s] = "queued"
    /\ \A t \in Seg : refetch[t] # "fetching"
    /\ refetch' = [refetch EXCEPT ![s] = "fetching"]
    /\ NoFault
    /\ UNCHANGED <<taskVars, sourceVars, cs, netVars, cancelled, relayed>>

\* The leaf answers the one-shot Interest; without an answer the fetch times
\* out. Either way the mutex is released.
RefetchFetch(s) ==
    /\ refetch[s] = "fetching"
    /\ \/ /\ offered
          /\ refetch' = [refetch EXCEPT ![s] = "fetched"]
          /\ NoFault
       \/ /\ IF offered THEN Fault("refetch") ELSE NoFault
          /\ refetch' = [refetch EXCEPT ![s] = "idle"]
    /\ UNCHANGED <<taskVars, sourceVars, cs, netVars, cancelled, relayed>>

\* Re-sign and re-cache; a failed signature drops the segment.
RefetchCache(s) ==
    /\ refetch[s] = "fetched"
    /\ \/ /\ refetch' = [refetch EXCEPT ![s] = "cached"]
          /\ cs' = cs \cup {s}
          /\ NoFault
       \/ /\ refetch' = [refetch EXCEPT ![s] = "idle"]
          /\ Fault("sign")
          /\ UNCHANGED cs
    /\ UNCHANGED <<taskVars, sourceVars, netVars, cancelled, relayed>>

RefetchRespond(s) ==
    /\ refetch[s] = "cached"
    /\ refetch' = [refetch EXCEPT ![s] = "idle"]
    /\ Satisfy(s)
    /\ UNCHANGED <<taskVars, sourceVars, cs, missed, handling, cancelled,
                   relayed>>

----------------------------------------------------------------------------
(* run_relay.                                                              *)

\* Top of the resubscribe loop. The subscription Interest grants the leaf's
\* streamer Credit more segments while the leaf still serves the prefix. An error
\* of subscribe is tried again 200 ms later and changes nothing: a stutter.
Subscribe ==
    /\ pc = "subscribe"
    /\ \/ /\ cancelled
          /\ pc' = "stopped"
          /\ UNCHANGED <<seamVars, budget>>
       \/ /\ ~cancelled
          /\ pc' = "pace"
          /\ sub' = "live" /\ stream' = <<>> /\ owed' = Credit
          /\ budget' = IF offered THEN budget + Credit ELSE budget
    /\ NoFault
    /\ UNCHANGED <<cur, cellVars, refetch, offered, streaming, leafNext, cs,
                   netVars, cancelled, relayed>>

\* Mutant: the comparison turned around.
FrontAhead == front > produced + Lookahead /\ produced <= LastSeg
Ahead == produced > front + Lookahead /\ produced <= LastSeg

\* The pacing test. A paused relay first leaves the test and only then waits
\* for a notification: a wake-up may come in between.
PaceTest ==
    /\ pc = "pace"
    /\ pc' = IF Ahead THEN "pausing" ELSE "recv"
    /\ NoFault
    /\ UNCHANGED <<cur, cellVars, refetch, sourceVars, cs, netVars, cancelled,
                   relayed>>

PacePause ==
    /\ pc = "pausing"
    /\ pc' = "waiting"
    /\ NoFault
    /\ UNCHANGED <<cur, cellVars, refetch, sourceVars, cs, netVars, cancelled,
                   relayed>>

PaceWake ==
    /\ pc = "waiting" /\ wake
    /\ wake' = FALSE
    /\ pc' = "pace"
    /\ NoFault
    /\ UNCHANGED <<cur, front, produced, srcKnown, refetch, sourceVars, cs,
                   netVars, cancelled, relayed>>

\* Mutant: the prefix is learned from the second segment on.
LearnSourceLate == srcKnown' = (produced > 0)
LearnSource == srcKnown' = TRUE

\* Take the next segment off the stream and learn the leaf's versioned prefix
\* from it. Taking the last Data of a grant re-expresses the subscription.
RecvData ==
    /\ pc = "recv" /\ stream # <<>>
    /\ cur' = Head(stream)
    /\ stream' = Tail(stream)
    /\ LearnSource
    /\ pc' = "sign"
    /\ IF owed = 1 /\ sub = "live"
       THEN /\ owed' = Credit
            /\ budget' = IF offered THEN budget + Credit ELSE budget
       ELSE /\ owed' = IF owed = 0 THEN 0 ELSE owed - 1
            /\ UNCHANGED budget
    /\ NoFault
    /\ UNCHANGED <<front, wake, produced, refetch, offered, streaming, leafNext,
                   sub, cs, netVars, cancelled, relayed>>

\* A drained subscription that ended returns Err: subscribe again.
RecvErr ==
    /\ pc = "recv" /\ stream = <<>> /\ sub = "dead"
    /\ pc' = "subscribe"
    /\ sub' = "none"
    /\ NoFault
    /\ UNCHANGED <<cur, cellVars, refetch, leafVars, stream, owed, cs, netVars,
                   cancelled, relayed>>

\* Re-sign under the public name and insert into the CS; a signature that
\* fails skips the segment and goes back to the pacing test.
SignInsert ==
    /\ pc = "sign"
    /\ \/ /\ pc' = "publish"
          /\ cs' = cs \cup {cur}
          /\ relayed' = relayed \cup {cur}
          /\ NoFault
       \/ /\ pc' = "pace"
          /\ Fault("sign")
          /\ UNCHANGED <<cs, relayed>>
    /\ UNCHANGED <<cur, cellVars, refetch, sourceVars, netVars, cancelled>>

Publish ==
    /\ pc = "publish"
    /\ pc' = "store"
    /\ Satisfy(cur)
    /\ UNCHANGED <<cur, cellVars, refetch, sourceVars, cs, missed, handling,
                   cancelled, relayed>>

\* The produced front moves only after the segment was published. Mutant: the
\* loop goes straight back to the receive.
AfterStoreMutant == "recv"
AfterStore == "pace"

StoreProduced ==
    /\ pc = "store"
    /\ produced' = IF cur + 1 > produced THEN cur + 1 ELSE produced
    /\ pc' = AfterStore
    /\ NoFault
    /\ UNCHANGED <<cur, front, wake, srcKnown, refetch, sourceVars, cs, netVars,
                   cancelled, relayed>>

\* The select! of the pacing wait and of the receive also watches the token.
\* Mutant: the pacing wait does not.
CancelPointsMutant == {"recv"}
CancelPoints == {"waiting", "recv"}

RelayStop ==
    /\ pc \in CancelPoints /\ cancelled
    /\ pc' = "stopped"
    /\ NoFault
    /\ UNCHANGED <<cur, cellVars, refetch, sourceVars, cs, netVars, cancelled,
                   relayed>>

----------------------------------------------------------------------------
(* The leaf's streamer and the seam.                                       *)

\* The streamer's loop condition.
MoreToStream == leafNext <= LastSeg

\* One segment per permit, in order. Without a live subscription the Data
\* meets no PIT entry at the engine and is dropped. A segment that cannot be
\* read ends the streamer.
LeafSend ==
    /\ streaming /\ MoreToStream /\ budget > 0
    /\ budget' = budget - 1
    /\ \/ /\ leafNext' = leafNext + 1
          /\ UNCHANGED streaming
          /\ stream' = IF sub = "live" THEN Append(stream, leafNext) ELSE stream
          /\ NoFault
       \/ /\ Fault("read")
          /\ streaming' = FALSE
          /\ UNCHANGED <<leafNext, stream>>
    /\ UNCHANGED <<taskVars, refetch, offered, sub, owed, cs, netVars,
                   cancelled, relayed>>

\* The persistent PIT entry of the subscription ends (its lifetime, the seam).
SubscriptionEnds ==
    /\ sub = "live"
    /\ Fault("subscription")
    /\ sub' = "dead"
    /\ UNCHANGED <<taskVars, refetch, leafVars, stream, owed, cs, netVars,
                   cancelled, relayed>>

\* remove_offer drops the ServeGuard: no grant and no one-shot answer any more.
\* The streamer task holds its own references and is not told.
RemoveOffer ==
    /\ offered
    /\ Fault("remove")
    /\ offered' = FALSE
    /\ UNCHANGED <<taskVars, refetch, streaming, budget, leafNext, seamVars, cs,
                   netVars, cancelled, relayed>>

Shutdown ==
    /\ ~cancelled
    /\ Fault("cancel")
    /\ cancelled' = TRUE
    /\ UNCHANGED <<taskVars, refetch, sourceVars, cs, netVars, relayed>>

----------------------------------------------------------------------------
Forwarder(s) == Express(s) \/ PitInsert(s)
Refetcher(s) == RefetchStart(s) \/ RefetchFetch(s) \/ RefetchCache(s) \/ RefetchRespond(s)
Relay == \/ Subscribe \/ PaceTest \/ PacePause \/ PaceWake \/ RecvData \/ RecvErr
         \/ SignInsert \/ Publish \/ StoreProduced \/ RelayStop
Environment == \/ \E s \in Seg : PitExpire(s) \/ Evict(s)
               \/ SubscriptionEnds \/ RemoveOffer \/ Shutdown

Next ==
    \/ \E s \in Seg : Forwarder(s) \/ Handle(s) \/ Refetcher(s)
    \/ Relay
    \/ LeafSend
    \/ Environment

Spec == Init /\ [][Next]_vars

(* Every task of the runtime keeps running and the consumer keeps asking    *)
(* for what it misses; nothing is assumed of the environment's failures.    *)
Fairness ==
    /\ WF_vars(Relay)
    /\ WF_vars(LeafSend)
    /\ \A s \in Seg :
          /\ WF_vars(Express(s)) /\ WF_vars(PitInsert(s)) /\ WF_vars(Handle(s))
          /\ WF_vars(Refetcher(s))

FairSpec == Spec /\ Fairness

----------------------------------------------------------------------------
(* Properties.                                                             *)

Paced == INSTANCE PacedProducer WITH Lead <- Lookahead

\* The relay implements the paced producer the module comment promises
\* (l.10-16): the produced front only moves while it is within Lookahead of the
\* demand front at that very moment, although the code tested it steps before.
PacedSpec == Paced!Spec

\* The CS footprint of the relay (object_relay.rs l.13-16): whatever is lost
\* on the way, of the segments it inserted at most the newest one lies
\* Lookahead or more past the demand front. Needs the pacing test, the order
\* of the stream and the produced front to agree across several steps.
LeadBounded ==
    \A s, t \in relayed : s < t => s < front + Lookahead

\* The serve handler only ever takes the re-fetch branch with a source to pull
\* from (l.195-197): the prefix is learned before the produced front moves.
RefetchHasSource == produced > 0 => srcKnown

\* A backward re-fetch is only ever made for a segment the relay has passed,
\* and a segment at or above the produced front that is in the CS is the one
\* the relay has in hand (l.190-195): the two producers never overlap.
RefetchBehindRelay ==
    /\ \A s \in Seg : refetch[s] # "idle" => s < produced
    /\ \A s \in cs : s >= produced => s = cur /\ pc \in {"publish", "store"}

\* A segment behind the produced front that is still missing is eventually
\* received (l.190-200), whatever was evicted, lost or refused on the way,
\* unless the engine shuts down or the leaf removes its offer first.
PassedServed ==
    \A s \in Seg :
        (s \in want /\ s < produced) ~> (s \notin want \/ cancelled \/ ~offered)

\* A consumer that keeps asking gets the whole object, whatever the network
\* loses and the CS evicts, if leaf, relay and their subscription do not fail.
FetchCompletes == <>(want = {} \/ broken # {})

\* "Serving stops when `cancel` fires" (l.103): the relay task ends.
CancelStopsRelay == cancelled ~> pc \in {"idle", "stopped"}

=============================================================================
