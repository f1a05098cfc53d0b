----------------------------- MODULE HandleCalls -----------------------------
(***************************************************************************)
(* The calls the platform makes on the FFI handles: NdnEngine              *)
(* (crates/ndn-boltffi/src/engine.rs), NdnClient (client.rs) and           *)
(* NdnDashboard (dashboard.rs), with the radio seams (wifi_aware.rs,       *)
(* ble.rs) and the nearby-peer dataset (discovery.rs) they feed. Every     *)
(* handle is a struct of std mutexes that any platform thread may call.    *)
(*                                                                         *)
(* A call is a sequence of steps: it locks and unlocks, branches, waits    *)
(* for the network or for a person, and changes what the locks guard. A    *)
(* mutex is not reentrant, and an early return drops every guard of the    *)
(* call. Each kind of step is taken by one of the actions below.           *)
(*                                                                         *)
(* What a call does to the engine behind `inner` is in PeerRouting and     *)
(* NetworkFaces, to a board in OfferBoard, to the identity cells in        *)
(* IdentityCore; here such a step is Use, and Use needs the engine.        *)
(***************************************************************************)
EXTENDS Naturals, Sequences, FiniteSets

CONSTANTS
    Threads,   \* platform threads
    MayCall,   \* MayCall[t]: the calls thread t makes
    Ids,       \* discovery ids of nearby peers
    MaxCalls   \* bound on the number of calls

Locks == {"consumer", "handle", "inner", "nan", "ble", "matches", "addr", "infra",
          "socket", "discovery", "peers", "board",    \* NdnEngine
          "strategy", "slot", "clientBoard",          \* NdnClient
          "console"}                                  \* NdnDashboard
Radios  == {"nan", "ble"}
Handles == {"engine", "client"}
ConsumerLock == [engine |-> "consumer", client |-> "slot"]
Nobody  == "nobody"
Self    == "self"  \* the node's own discovery id
Idle    == "idle"

\* The names of the calls. A call of note_peer has the name of the peer it is for.
Calls == {"suspend", "resume", "shutdown", "fetch", "fetch_hinted", "fetch_to_fd",
          "attach_nan", "attach_ble", "nan_match", "nan_deliver", "ble_deliver",
          "discover", "infra_addr", "infra_socket", "open_board", "relay", "offers",
          "serve", "bulk_face", "detach", "subscribe", "enroll", "set_strategy",
          "client_fetch", "client_hinted", "client_to_fd", "client_serve",
          "client_offers", "console"}

ASSUME ThreadAssumption == Nobody \notin Threads
ASSUME NameAssumption   == Ids \cap (Calls \cup {Self}) = {}
ASSUME CallAssumption   ==
    MaxCalls \in Nat /\ MayCall \in [Threads -> SUBSET (Calls \cup Ids \cup {Self})]

VARIABLES
    owner,   \* owner[l]: the thread that holds mutex l
    rest,    \* rest[t]: the steps that remain of the call thread t is in
    call,    \* call[t]: its kind
    calls,   \* how many calls were made
    mine,    \* mine[t]: the face or dataset server it has made and not stored: for
             \* what, and its number (0: none)
    up,      \* inner holds the engine
    spare,   \* default_handle holds the primary in-process handle
    conn,    \* consumer_conn holds a connection
    radio,   \* radio[r]: the newest face of the radio and the face its seam feeds,
             \* the faces whose task runs, those with a frame in their queue
    tables,  \* tables[g]: the g-th DiscoveryState, its own id and the ids it lists
    cell,    \* which of them is in the discovery cell, 0 if none
    served,  \* those whose ServeGuard is alive
    counts   \* counts[h]: the thread whose segments the progress counters of h count

vars == <<owner, rest, call, calls, mine, up, spare, conn, radio, tables, cell,
          served, counts>>
engineVars  == <<up, spare, conn>>
datasetVars == <<tables, cell, served>>

----------------------------------------------------------------------------
(* Steps                                                                   *)

Step(op, on) == [op |-> op, on |-> on]

\* A block that runs with the guard of mutex l alive.
Under(l, body) == <<Step("lock", l)>> \o body \o <<Step("unlock", l)>>

If(cond, yes, no) == <<[op |-> "if", on |-> cond, yes |-> yes, no |-> no]>>
When(cond, body)  == If(cond, body, <<>>)
Perhaps(body)     == If("chance", body, <<>>)

Need  == Step("need", "up")    \* ok_or_else: the call fails without the engine
Use   == Step("use", "up")     \* work on the engine borrowed from the guard
Net   == Step("net", "")       \* a wait on the network that a timeout bounds
Try   == Step("try", "")       \* a `?`: the call may return an error here
Ask   == Step("ask", "")       \* a callback that waits for a person
Serve == Step("serve", "")     \* a loop that ends when the connection closes

----------------------------------------------------------------------------
(* The engine's consumer: fetches are serialised by consumer_conn          *)

\* First the primary handle, later fresh ones.
take_consumer_handle ==
    Under("handle", If("spare", <<Step("take_spare", "")>>,
                       Under("inner", <<Need, Use>>)))

SharedHandle == take_consumer_handle
alloc_app_handle == Under("inner", <<Need, Use>>)

with_consumer(run) ==
    Under("consumer",
          When("no_conn", take_consumer_handle \o <<Step("connect", "")>>) \o run)

\* fetch, get, fetch_object and fetch_object_verified.
fetch == with_consumer(<<Net>>) \o <<Try>>

fetch_object_verified_hinted == with_consumer(<<Net>>) \o <<Try>>

\* The counters are zeroed, then stored for each segment, the total first.
Zero(h)   == <<Step("zero_received", h), Step("zero_total", h)>>
Report(h) == <<Step("count_total", h), Step("count_received", h)>>

ZeroBeforeLock == Zero("engine")
    \o with_consumer(<<Net>> \o Perhaps(Report("engine") \o <<Net>>)) \o <<Try>>
fetch_object_to_fd ==
    with_consumer(Zero("engine") \o <<Net>> \o Perhaps(Report("engine") \o <<Net>>))
        \o <<Try>>

----------------------------------------------------------------------------
(* The engine's life                                                       *)

suspend_network_faces == Under("inner", When("up", <<Use>>))

\* Each peer's first attempt is waited for, under the lock.
resume_network_faces == Under("inner", When("up", <<Use, Net, Use>>))

\* The guard in the scrutinee outlives the shutdown of the engine taken from it.
shutdown == Under("inner", When("up", <<Step("take_engine", ""), Net>>))

----------------------------------------------------------------------------
(* Radio seams                                                             *)

nan_on_match == Under("nan", When("nan_seam", Under("matches", <<>>)))

nan_deliver_followup == Under("nan", When("nan_seam", <<Step("deliver", "nan")>>))

ble_deliver_frame == Under("ble", When("ble_seam", <<Step("deliver", "ble")>>))

SeamAfterUnlock ==
    Under("inner", <<Need, Step("add_face", "nan")>>)
    \o Under("nan", <<Step("store_seam", "nan")>>)

\* The platform's radio is called with `inner` locked, to publish and to
\* subscribe, and may report a match from inside that call.
attach_wifi_aware ==
    Under("inner", <<Need, Step("add_face", "nan")>> \o Perhaps(nan_on_match)
                   \o Under("nan", <<Step("store_seam", "nan")>>))

attach_ble ==
    Under("inner", <<Need, Step("add_face", "ble")>>
                   \o Under("ble", <<Step("store_seam", "ble")>>))

----------------------------------------------------------------------------
(* Nearby peers                                                            *)

\* The dataset's prefix is registered with the forwarder, then served.
serve_peers_dataset(id) == <<Net, Step("serve_dataset", id)>>

start_discovery(id) ==
    Under("inner", When("up", <<Use>>)) \o serve_peers_dataset(id)
        \o Under("discovery", <<Step("store_dataset", "")>>)

AddressUnderReservation ==
    Under("infra", Under("addr", <<>>) \o Perhaps(Under("socket", <<>>) \o <<Use>>))

\* Reserve the peer, adopt the socket, attach; undo the reservation on failure.
\* Addresses that match, a first reservation and a socket are matters of chance.
maybe_attach_infra_tunnel ==
    Under("addr", <<>>)
    \o Perhaps(Under("infra", <<>>)
               \o Perhaps(Under("socket", <<>>)
                          \o If("chance", <<Use>> \o Perhaps(Under("infra", <<>>)),
                                          Under("infra", <<>>))))

RouteAfterUnlock(id) == Under("inner", <<Need>>) \o <<Use>>

note_peer(id) ==
    Under("discovery", When("discovering", Under("peers", <<Step("note", id)>>)))
    \o Under("inner", When("up", <<Use>> \o Perhaps(maybe_attach_infra_tunnel)))

set_infra_addr == Under("addr", Perhaps(Under("infra", <<>>)))

set_infra_socket == Under("socket", <<>>) \o Under("infra", <<>>)

----------------------------------------------------------------------------
(* Offers, producers, faces and enrollment                                 *)

\* Without a stored certificate the identity signs one of its own: an enclave
\* waits for the person to confirm.
start_offer_board ==
    Under("inner", When("up", <<Use>>)) \o Perhaps(<<Ask>>) \o <<Try>>
        \o Under("board", <<>>)

register_object_relay == <<Try>> \o Under("inner", <<Need, Use>>)

\* The forwarder's answer to a registration is read by a worker thread of the
\* runtime. The board's serve tasks hold such a thread, it may be the only one,
\* while an enclave waits for the person to confirm the signature of an answer.
Registration == <<Net>> \o Perhaps(<<Ask>>)

\* add_offer, remove_offer and list_offers clone the board inside an expression
\* whose guard lives until the board's own call is over.
offers == Under("board", Perhaps(Registration)) \o <<Try>>

register_producer_internal == Under("inner", <<Need, Use>>)

ServeUnderLock == Under("inner", <<Need, Use, Serve>>)

serve == register_producer_internal \o <<Serve>>

\* mount_app_fd and the calls that attach a face; detach_ndp_face, which is a
\* no-op after a shutdown, does not fail.
bulk_faces == Under("inner", <<Need, Net, Use>>) \o <<Try>>

detach_ndp_face == Under("inner", When("up", <<Use>>))

subscribe == alloc_app_handle \o <<Try, Serve>>

\* `inner` stays locked over the exchange with the CA, the PIN prompt included.
enroll ==
    Under("inner", <<Need, Use, Net, Try>> \o Perhaps(<<Ask, Net, Try>>) \o <<Use>>)
        \o <<Try>>

----------------------------------------------------------------------------
(* The client across the socketpair, and the operator console              *)

set_congestion_strategy == Under("strategy", <<>>)

\* fetch, get, fetch_object and fetch_object_verified.
client_fetch == Under("slot", <<Net>>) \o <<Try>>

client_fetch_hinted ==
    Under("strategy", <<>>)
    \o Under("slot", Zero("client") \o <<Net>> \o Perhaps(Report("client") \o <<Net>>))
    \o <<Try>>

client_fetch_to_fd == client_fetch_hinted

client_serve == <<Serve>>

client_offers == Under("clientBoard", Perhaps(Registration)) \o <<Try>>

\* Every management command; poll and poll_identity do not fail.
console_command == Under("console", <<Net>>) \o <<Try>>

----------------------------------------------------------------------------
Script(c) ==
    CASE c = "suspend" -> suspend_network_faces
      [] c = "resume" -> resume_network_faces
      [] c = "shutdown" -> shutdown
      [] c = "fetch" -> fetch
      [] c = "fetch_hinted" -> fetch_object_verified_hinted
      [] c = "fetch_to_fd" -> fetch_object_to_fd
      [] c = "attach_nan" -> attach_wifi_aware
      [] c = "attach_ble" -> attach_ble
      [] c = "nan_match" -> nan_on_match
      [] c = "nan_deliver" -> nan_deliver_followup
      [] c = "ble_deliver" -> ble_deliver_frame
      [] c = "discover" -> start_discovery(Self)
      [] c \in Ids \cup {Self} -> note_peer(c)
      [] c = "infra_addr" -> set_infra_addr
      [] c = "infra_socket" -> set_infra_socket
      [] c = "open_board" -> start_offer_board
      [] c = "relay" -> register_object_relay
      [] c = "offers" -> offers
      [] c = "serve" -> serve
      [] c = "bulk_face" -> bulk_faces
      [] c = "detach" -> detach_ndp_face
      [] c = "subscribe" -> subscribe
      [] c = "enroll" -> enroll
      [] c = "set_strategy" -> set_congestion_strategy
      [] c = "client_fetch" -> client_fetch
      [] c = "client_hinted" -> client_fetch_hinted
      [] c = "client_to_fd" -> client_fetch_to_fd
      [] c = "client_serve" -> client_serve
      [] c = "client_offers" -> client_offers
      [] c = "console" -> console_command

\* Calls that take no lock a person can keep: they return while a prompt is open.
\* The ones that count report their progress.
Counting   == {"fetch_to_fd", "client_hinted", "client_to_fd"}
QuickCalls == Counting \cup
    {"fetch", "fetch_hinted", "nan_match", "nan_deliver", "ble_deliver", "infra_addr",
     "infra_socket", "set_strategy", "client_fetch", "console"}

\* What is kept of a call's name: threads with the same steps to take and calls
\* of the same kind are in the same state.
Kind(c) == CASE c \in Counting              -> "counting"
             [] c \in QuickCalls \ Counting -> "quick"
             [] c \notin QuickCalls         -> "slow"

TypeOK ==
    /\ owner \in [Locks -> Threads \cup {Nobody}]
    /\ DOMAIN rest = Threads /\ DOMAIN call = Threads
    /\ \A t \in Threads: call[t] = Idle <=> rest[t] = <<>>
    /\ calls \in 0 .. MaxCalls
    /\ mine \in [Threads -> [of: Radios \cup {"dataset", ""}, id: Nat]]
    /\ call \in [Threads -> {Idle, "counting", "quick", "slow"}]
    /\ {up, spare, conn} \subseteq BOOLEAN
    /\ radio \in [Radios -> [newest: Nat, seam: Nat, live: SUBSET Nat, queued: SUBSET Nat]]
    /\ tables \in Seq([self: {Self}, listed: SUBSET (Ids \cup {Self})])
    /\ cell \in 0 .. Len(tables)
    /\ served \subseteq 1 .. Len(tables)
    /\ counts \in [Handles -> [received: Threads \cup {Nobody},
                               total: Threads \cup {Nobody}]]

Nothing == [of |-> "", id |-> 0]

Init ==
    /\ owner = [l \in Locks |-> Nobody]
    /\ rest = [t \in Threads |-> <<>>] /\ call = [t \in Threads |-> Idle]
    /\ calls = 0 /\ mine = [t \in Threads |-> Nothing]
    /\ up = TRUE /\ spare = TRUE /\ conn = FALSE
    /\ radio = [r \in Radios |-> [newest |-> 0, seam |-> 0, live |-> {}, queued |-> {}]]
    /\ tables = <<>> /\ cell = 0 /\ served = {}
    /\ counts = [h \in Handles |-> [received |-> Nobody, total |-> Nobody]]

----------------------------------------------------------------------------
(* Taking a step                                                           *)

At(t, op) == rest[t] # <<>> /\ Head(rest[t]).op = op
On(t) == Head(rest[t]).on

GoOn(t, steps) ==
    /\ rest' = [rest EXCEPT ![t] = steps]
    /\ call' = [call EXCEPT ![t] = IF steps = <<>> THEN Idle ELSE @]
Continue(t) == GoOn(t, Tail(rest[t])) /\ UNCHANGED calls

\* An early return: the guards of the call are dropped.
Return(t) ==
    /\ GoOn(t, <<>>) /\ UNCHANGED calls
    /\ owner' = [l \in Locks |-> IF owner[l] = t THEN Nobody ELSE owner[l]]

Unaffected == UNCHANGED <<mine, engineVars, radio, datasetVars, counts>>

Call(t, c) ==
    /\ rest[t] = <<>> /\ calls < MaxCalls
    /\ calls' = calls + 1
    /\ rest' = [rest EXCEPT ![t] = Script(c)]
    /\ call' = [call EXCEPT ![t] = Kind(c)]
    /\ UNCHANGED owner /\ Unaffected

Acquire(t) ==
    /\ At(t, "lock") /\ owner[On(t)] = Nobody
    /\ owner' = [owner EXCEPT ![On(t)] = t]
    /\ Continue(t) /\ Unaffected

Release(t) ==
    /\ At(t, "unlock")
    /\ owner' = [owner EXCEPT ![On(t)] = Nobody]
    /\ Continue(t) /\ Unaffected

Holds(cond) ==
    CASE cond = "up"          -> up
      [] cond = "spare"       -> spare
      [] cond = "no_conn"     -> ~conn
      [] cond = "nan_seam"    -> radio["nan"].seam # 0
      [] cond = "ble_seam"    -> radio["ble"].seam # 0
      [] cond = "discovering" -> cell # 0

Branch(t) ==
    /\ At(t, "if")
    /\ \E yes \in IF On(t) = "chance" THEN BOOLEAN ELSE {Holds(On(t))}:
           GoOn(t, (IF yes THEN Head(rest[t]).yes ELSE Head(rest[t]).no) \o Tail(rest[t]))
    /\ UNCHANGED <<calls, owner>> /\ Unaffected

NeedEngine(t) ==
    /\ At(t, "need")
    /\ \/ up /\ Continue(t) /\ UNCHANGED owner
       \/ ~up /\ Return(t)
    /\ Unaffected

UseEngine(t) == At(t, "use") /\ Continue(t) /\ UNCHANGED owner /\ Unaffected

NetworkDone(t) == At(t, "net") /\ Continue(t) /\ UNCHANGED owner /\ Unaffected

TryStep(t) ==
    /\ At(t, "try")
    /\ \/ Continue(t) /\ UNCHANGED owner
       \/ Return(t)
    /\ Unaffected

\* The person answers the prompt.
Answer(t) == At(t, "ask") /\ Continue(t) /\ UNCHANGED owner /\ Unaffected

\* Serving ends with the engine, whose shutdown closes the connections.
ServeEnds(t) == At(t, "serve") /\ ~up /\ Continue(t) /\ UNCHANGED owner /\ Unaffected

TakeEngine(t) ==
    /\ At(t, "take_engine") /\ up' = FALSE
    /\ Continue(t)
    /\ UNCHANGED <<owner, mine, spare, conn, radio, datasetVars, counts>>

TakeSpare(t) ==
    /\ At(t, "take_spare") /\ spare' = FALSE
    /\ Continue(t)
    /\ UNCHANGED <<owner, mine, up, conn, radio, datasetVars, counts>>

Connect(t) ==
    /\ At(t, "connect") /\ conn' = TRUE
    /\ Continue(t)
    /\ UNCHANGED <<owner, mine, up, spare, radio, datasetVars, counts>>

CountStep(t) ==
    /\ \/ At(t, "zero_received")  /\ counts' = [counts EXCEPT ![On(t)].received = Nobody]
       \/ At(t, "zero_total")     /\ counts' = [counts EXCEPT ![On(t)].total = Nobody]
       \/ At(t, "count_total")    /\ counts' = [counts EXCEPT ![On(t)].total = t]
       \/ At(t, "count_received") /\ counts' = [counts EXCEPT ![On(t)].received = t]
    /\ Continue(t)
    /\ UNCHANGED <<owner, mine, engineVars, radio, datasetVars>>

----------------------------------------------------------------------------
(* Radio faces: make_seam gives each face a queue of its own, and the seam *)
(* holds the only sender                                                   *)

AddFace(t) ==
    /\ At(t, "add_face")
    /\ LET new == radio[On(t)].newest + 1 IN
       /\ mine' = [mine EXCEPT ![t] = [of |-> On(t), id |-> new]]
       /\ radio' = [radio EXCEPT ![On(t)].newest = new, ![On(t)].live = @ \cup {new}]
    /\ Continue(t)
    /\ UNCHANGED <<owner, engineVars, datasetVars, counts>>

StoreSeam(t) ==
    /\ At(t, "store_seam")
    /\ radio' = [radio EXCEPT ![On(t)].seam = mine[t].id]
    /\ mine' = [mine EXCEPT ![t] = Nothing]
    /\ Continue(t)
    /\ UNCHANGED <<owner, engineVars, datasetVars, counts>>

\* try_send: a full queue and a face that has ended drop the frame.
Deliver(t) ==
    /\ At(t, "deliver")
    /\ radio' = [radio EXCEPT ![On(t)].queued = @ \cup ({radio[On(t)].seam}
                                                          \cap radio[On(t)].live)]
    /\ Continue(t)
    /\ UNCHANGED <<owner, mine, engineVars, datasetVars, counts>>

\* next_followup, next_scanned.
FaceReads(r, f) ==
    /\ f \in radio[r].queued
    /\ radio' = [radio EXCEPT ![r].queued = @ \ {f}]
    /\ UNCHANGED <<owner, rest, call, calls, mine, engineVars, datasetVars, counts>>

SenderCloned(r, f) == f <= radio[r].newest

\* The sender of face f is alive: in the cell, or in a call that attaches.
Sender(r, f) ==
    radio[r].seam = f \/ \E t \in Threads: mine[t] = [of |-> r, id |-> f]

\* The sender is gone and the queue drained (FaceError::Closed), or the engine
\* was shut down.
FaceEnds(r, f) ==
    /\ f \in radio[r].live
    /\ ~up \/ (~Sender(r, f) /\ f \notin radio[r].queued)
    /\ radio' = [radio EXCEPT ![r].live = @ \ {f}, ![r].queued = @ \ {f}]
    /\ UNCHANGED <<owner, rest, call, calls, mine, engineVars, datasetVars, counts>>

----------------------------------------------------------------------------
(* The dataset at /localhost/discovery/peers                               *)

ServeDataset(t) ==
    /\ At(t, "serve_dataset")
    /\ tables' = Append(tables, [self |-> On(t), listed |-> {}])
    /\ served' = served \cup {Len(tables) + 1}
    /\ mine' = [mine EXCEPT ![t] = [of |-> "dataset", id |-> Len(tables) + 1]]
    /\ Continue(t)
    /\ UNCHANGED <<owner, engineVars, radio, cell, counts>>

GuardKept(t) ==
    /\ At(t, "store_dataset")
    /\ cell' = mine[t].id
    /\ mine' = [mine EXCEPT ![t] = Nothing]
    /\ Continue(t)
    /\ UNCHANGED <<owner, engineVars, radio, tables, served, counts>>

\* The pair that was in the cell is dropped, and its ServeGuard with it.
StoreDataset(t) ==
    /\ At(t, "store_dataset")
    /\ served' = served \ {cell}
    /\ cell' = mine[t].id
    /\ mine' = [mine EXCEPT ![t] = Nothing]
    /\ Continue(t)
    /\ UNCHANGED <<owner, engineVars, radio, tables, counts>>

\* DiscoveryState::note_peer never lists the node itself.
Note(t) ==
    /\ At(t, "note")
    /\ tables' = [tables EXCEPT ![cell].listed = @ \cup ({On(t)} \ {tables[cell].self})]
    /\ Continue(t)
    /\ UNCHANGED <<owner, mine, engineVars, radio, cell, served, counts>>

\* snapshot_json, for a reader of the dataset, forgets peers not heard of for
\* PEER_TTL; it waits for the peers mutex and holds no other.
Snapshot(g) ==
    /\ g \in served /\ owner["peers"] = Nobody
    /\ \E stale \in SUBSET tables[g].listed:
           tables' = [tables EXCEPT ![g].listed = @ \ stale]
    /\ UNCHANGED <<owner, rest, call, calls, mine, engineVars, radio, cell, served, counts>>

----------------------------------------------------------------------------
\* The steps a thread takes without the person.
Run(t) ==
    \/ Acquire(t) \/ Release(t) \/ Branch(t)
    \/ NeedEngine(t) \/ UseEngine(t) \/ NetworkDone(t) \/ TryStep(t) \/ ServeEnds(t)
    \/ TakeEngine(t) \/ TakeSpare(t) \/ Connect(t) \/ CountStep(t)
    \/ AddFace(t) \/ StoreSeam(t) \/ Deliver(t)
    \/ ServeDataset(t) \/ StoreDataset(t) \/ Note(t)

FaceTask(r) == \E f \in 1 .. radio[r].newest: FaceReads(r, f) \/ FaceEnds(r, f)

Next ==
    \/ \E t \in Threads: (\E c \in MayCall[t]: Call(t, c)) \/ Run(t) \/ Answer(t)
    \/ \E r \in Radios: FaceTask(r)
    \/ \E g \in 1 .. Len(tables): Snapshot(g)

\* A thread that can run does, the network answers or times out, and the face
\* tasks are polled. Nothing makes the platform call or a person answer. The
\* mutexes are not fair; the bound on the calls keeps a waiter from starving.
Fairness ==
    /\ \A t \in Threads: WF_vars(Run(t))
    /\ \A r \in Radios: WF_vars(FaceTask(r))

Spec == Init /\ [][Next]_vars /\ Fairness

----------------------------------------------------------------------------
(* Properties                                                              *)

WaitsFor(t) == IF At(t, "lock") THEN owner[On(t)] ELSE Nobody

\* No threads wait for each other in a circle, and none for itself: whatever
\* call, callback and early return they are in, the locks are taken in one order.
NoCircularWait ==
    \A ring \in (SUBSET Threads) \ {{}}: \E t \in ring: WaitsFor(t) \notin ring

\* A call never works on an engine that a shutdown has taken: the check and
\* the work are under one lock, in every call and on every path.
EngineAliveWhileUsed == \A t \in Threads: At(t, "use") => up

\* Frames and matches go to the newest face of a radio: outside an attach call
\* the seam feeds it, however two attaches and a delivery interleave.
SeamOfNewestFace ==
    \A r \in Radios:
        radio[r].seam = radio[r].newest
        \/ \E t \in Threads: /\ owner["inner"] = t
                              /\ mine[t] = [of |-> r, id |-> radio[r].newest]

\* From the first start_discovery on the table that beacons are noted in is
\* served, with no gap when a second call replaces it, and every other server
\* belongs to a call that is about to install it.
DatasetServed ==
    /\ cell # 0 => cell \in served /\ tables[cell].self \notin tables[cell].listed
    /\ \A g \in served \ {cell}: \E t \in Threads: mine[t] = [of |-> "dataset", id |-> g]

\* A fetch that has zeroed the progress counters is not overtaken by another:
\* until it returns the consumer's lock they count nothing or its own segments.
Zeroed(t) ==
    /\ call[t] = "counting"
    /\ \A i \in DOMAIN rest[t]: rest[t][i].op \notin {"zero_received", "zero_total"}
ProgressOfHolder ==
    \A t \in Threads, h \in Handles:
        owner[ConsumerLock[h]] = t /\ Zeroed(t)
            => {counts[h].received, counts[h].total} \subseteq {t, Nobody}

\* The calls are finitely many, and each one returns, except those that serve
\* while the engine lives and, while a person leaves a prompt open, those that
\* wait for it: no lock is lost and none is kept over a wait for another call.
CallsReturn ==
    <>[](\/ \E t \in Threads: At(t, "ask")
         \/ \A t \in Threads: call[t] = Idle \/ (At(t, "serve") /\ up))

\* Even if a prompt stays open for ever the radio callbacks, the fetches and the
\* console return, as long as their own runtime has a worker thread free. A fetch
\* does because it finds a connection or the primary handle, which no other call
\* takes, and so never needs `inner`, which an enrollment keeps over its prompt.
QuickCallsReturn == <>[](\A t \in Threads: call[t] \in {Idle, "slow"})

\* A face that was replaced by a second attach ends once its queue is read.
RetiredFacesEnd == <>[](\A r \in Radios: radio[r].live \subseteq {radio[r].seam})

=============================================================================
