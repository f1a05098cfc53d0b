----------------------------- MODULE OfferBoard -----------------------------
(***************************************************************************)
(* The tap-to-share board of crates/ndn-boltffi/src/offer.rs behind the     *)
(* calls of NdnClient and NdnEngine. A call on the board keeps the mutex    *)
(* `offer_board` from its look at the cell until it returns; only           *)
(* start_offer_board builds its board first and takes the mutex to store it.*)
(* The serve handlers and the streamer tasks take part in none of this: a   *)
(* consumer may ask between any two steps of a call.                        *)
(*                                                                         *)
(* Boards, registrations (ServeGuards) and the manifest versions of a board *)
(* are numbered in the order they are made; 0 stands for none.              *)
(***************************************************************************)
EXTENDS Naturals, Sequences

CONSTANTS
    Callers,    \* threads of the platform
    Files,      \* file ids
    NoFile,     \* none of them
    Readers,    \* consumers that fetch the manifest
    History,    \* MANIFEST_HISTORY
    Credit,     \* max_data_count of one SubscriptionRequest
    LastSeg,    \* last segment of a streamed file
    MaxBoards,  \* bound on the boards started
    MaxRegs,    \* bound on the files offered
    MaxBudget   \* bound on the permits a streamer may hold

ASSUME FileAssumption    == NoFile \notin Files
ASSUME HistoryAssumption == History \in Nat \ {0}
ASSUME StreamAssumption  == Credit \in Nat \ {0} /\ LastSeg \in Nat
ASSUME BoundAssumption   == MaxBoards \in Nat /\ MaxRegs \in Nat /\ MaxBudget \in Nat

VARIABLES
    \* the board
    boards,   \* boards built so far
    board,    \* the cell offer_board
    offers,   \* offers[f]: the registration of the entry for f
    ring,     \* the manifests, newest first
    \* the callers
    call,     \* call[c]: where the call of c stands
    \* the seam
    made,     \* registrations made so far
    live,     \* those whose guard is held: their handler is called
    file,     \* file[n]: the file of registration n
    \* streamers
    running,  \* registrations whose streamer task has not ended
    budget,   \* budget[n]: permits of its semaphore
    sent,     \* segments it published
    granted,  \* history: permits the subscriptions gave it
    \* consumers
    reader    \* reader[r]: the manifest whose segments r is fetching

boardVars == <<boards, board, offers, ring>>
seamVars  == <<made, live, file>>
streamVars == <<running, budget, sent, granted>>
vars == <<boardVars, call, seamVars, streamVars, reader>>

Reg    == 1 .. MaxRegs
Lists  == [Files -> 0 .. MaxRegs]
Call   == [pc: {"idle", "install", "lock", "register", "insert", "drop", "rebuild"},
           op: {"none", "start", "add", "stream", "remove"}, file: Files \cup {NoFile}, id: Nat]
Reader == [board: Nat, ver: Nat, list: Lists, age: Nat]

Idle == [pc |-> "idle", op |-> "none", file |-> NoFile, id |-> 0]
NoOffers == [f \in Files |-> 0]
NoReader == [board |-> 0, ver |-> 0, list |-> NoOffers, age |-> 0]

TypeOK ==
    /\ boards \in 0 .. MaxBoards /\ board \in 0 .. boards
    /\ offers \in Lists
    /\ ring \in Seq([ver: Nat, list: Lists])
    /\ call \in [Callers -> Call]
    /\ made \in 0 .. MaxRegs /\ live \subseteq 1 .. made /\ file \in [Reg -> Files \cup {NoFile}]
    /\ running \subseteq 1 .. made
    /\ budget \in [Reg -> Nat] /\ sent \in [Reg -> Nat] /\ granted \in [Reg -> Nat]
    /\ reader \in [Readers -> Reader]

Init ==
    /\ boards = 0 /\ board = 0 /\ offers = NoOffers /\ ring = <<>>
    /\ call = [c \in Callers |-> Idle]
    /\ made = 0 /\ live = {} /\ file = [n \in Reg |-> NoFile]
    /\ running = {} /\ budget = [n \in Reg |-> 0]
    /\ sent = [n \in Reg |-> 0] /\ granted = [n \in Reg |-> 0]
    /\ reader = [r \in Readers |-> NoReader]

----------------------------------------------------------------------------
(* The calls.                                                              *)

\* The mutex is held from the look at the cell to the return.
Inside(c) == call[c].pc \in {"register", "insert", "drop", "rebuild"}
LockFree  == \A c \in Callers : ~Inside(c)

Goto(c, pc) == call' = [call EXCEPT ![c].pc = pc]
Return(c)   == call' = [call EXCEPT ![c] = Idle]

\* start_offer_board before the lock: OfferBoard::new serves the certificate
\* and an empty manifest of its own beside those of the board in the cell.
Start(c) ==
    /\ call[c].pc = "idle" /\ boards < MaxBoards
    /\ boards' = boards + 1
    /\ call' = [call EXCEPT ![c] = [pc |-> "install", op |-> "start", file |-> NoFile, id |-> boards + 1]]
    /\ UNCHANGED <<board, offers, ring, seamVars, streamVars, reader>>

\* A manifest lists every entry: file id, size and object name stand for its
\* registration.
Manifest(ver, list) == [ver |-> ver, list |-> list]

\* Storing the new board drops the old one with all its guards. Mutant: the
\* new board takes over the entries of the old.
EntriesKept == offers
EntriesOfNew == NoOffers

Install(c) ==
    /\ call[c].pc = "install" /\ LockFree
    /\ board' = call[c].id
    /\ offers' = EntriesOfNew
    /\ ring' = <<Manifest(1, NoOffers)>>
    /\ live' = {}
    /\ Return(c)
    /\ UNCHANGED <<boards, made, file, streamVars, reader>>

Enter(c, op, f) ==
    /\ call[c].pc = "idle"
    /\ call' = [call EXCEPT ![c] = [pc |-> "lock", op |-> op, file |-> f, id |-> 0]]
    /\ UNCHANGED <<boardVars, seamVars, streamVars, reader>>

\* Without a board add is refused and remove finds nothing.
Lock(c) ==
    /\ call[c].pc = "lock" /\ LockFree
    /\ \/ /\ call[c].op # "remove" /\ board # 0 /\ made < MaxRegs
          /\ Goto(c, "register")
       \/ /\ call[c].op # "remove" /\ board = 0
          /\ Return(c)
       \/ /\ call[c].op = "remove" /\ offers[call[c].file] # 0
          /\ Goto(c, "drop")
       \/ /\ call[c].op = "remove" /\ offers[call[c].file] = 0
          /\ Return(c)
    /\ UNCHANGED <<boardVars, seamVars, streamVars, reader>>

\* serve_prepared, serve_content_stream: the file is served before it is an
\* entry; a streamed one has its streamer spawned with an empty budget.
Register(c) ==
    /\ call[c].pc = "register"
    /\ made' = made + 1
    /\ live' = live \cup {made + 1}
    /\ file' = [file EXCEPT ![made + 1] = call[c].file]
    /\ running' = IF call[c].op = "stream" THEN running \cup {made + 1} ELSE running
    /\ call' = [call EXCEPT ![c].pc = "insert", ![c].id = made + 1]
    /\ UNCHANGED <<boardVars, budget, sent, granted, reader>>

\* Inserting over an entry drops its guard. Mutant: the handler is torn down
\* by name, the new one with it.
DropsByName(f, n) == {m \in live : file[m] # f}
Without(f, n) == live \ {n}

Insert(c) ==
    LET f == call[c].file IN
    /\ call[c].pc = "insert"
    /\ live' = Without(f, offers[f])
    /\ offers' = [offers EXCEPT ![f] = call[c].id]
    /\ Goto(c, "rebuild")
    /\ UNCHANGED <<boards, board, ring, made, file, streamVars, reader>>

\* remove_offer
Drop(c) ==
    LET f == call[c].file IN
    /\ call[c].pc = "drop"
    /\ live' = Without(f, offers[f])
    /\ offers' = [offers EXCEPT ![f] = 0]
    /\ Goto(c, "rebuild")
    /\ UNCHANGED <<boards, board, ring, made, file, streamVars, reader>>

\* push_front and truncate. Mutant: one version too few is kept.
Kept == IF Len(ring) < History THEN Len(ring) + 1 ELSE History
PushShort(m) ==
    IF Len(ring) < History - 1 THEN <<m>> \o ring ELSE SubSeq(<<m>> \o ring, 1, History - 1)
Push(m) == [i \in 1 .. Kept |-> IF i = 1 THEN m ELSE ring[i - 1]]

\* rebuild_manifest, and the return of the call. `age` counts the versions
\* that came after the one a consumer is fetching.
Rebuild(c) ==
    /\ call[c].pc = "rebuild"
    /\ ring' = Push(Manifest(ring[1].ver + 1, offers))
    /\ reader' = [r \in Readers |->
                     IF reader[r].board = board
                     THEN [reader[r] EXCEPT !.age = @ + 1]
                     ELSE reader[r]]
    /\ Return(c)
    /\ UNCHANGED <<boards, board, offers, seamVars, streamVars>>

----------------------------------------------------------------------------
(* The streamer of a streamed file (serve_content_stream).                  *)

\* A SubscriptionRequest reaches the handler only while its guard is held. Once
\* the streamer has ended nobody takes the permits any more.
Grant(n) ==
    /\ n \in live \cap running /\ budget[n] + Credit <= MaxBudget
    /\ budget' = [budget EXCEPT ![n] = @ + Credit]
    /\ granted' = [granted EXCEPT ![n] = @ + Credit]
    /\ UNCHANGED <<boardVars, call, seamVars, running, sent, reader>>

\* acquire, forget, publish. Mutant: the permit is returned when it drops.
PermitKept(b) == b
PermitForgotten(b) == b - 1

\* The task ends after the last segment, or when a segment cannot be read or
\* sent. The guard's end does not reach it.
Send(n) ==
    /\ n \in running /\ budget[n] > 0
    /\ budget' = [budget EXCEPT ![n] = PermitForgotten(@)]
    /\ \/ /\ sent' = [sent EXCEPT ![n] = @ + 1]
          /\ running' = IF sent[n] = LastSeg THEN running \ {n} ELSE running
       \/ /\ running' = running \ {n}
          /\ UNCHANGED sent
    /\ UNCHANGED <<boardVars, call, seamVars, granted, reader>>

----------------------------------------------------------------------------
(* A consumer fetches the manifest: the metadata names the newest version,  *)
(* the segments are asked for by that version.                              *)

\* The board in the cell answers, and so does one that is not stored yet.
Answering == {b \in {board} \cup {call[c].id : c \in {d \in Callers : call[d].pc = "install"}} : b # 0}

AskManifest(r) ==
    /\ reader[r].board = 0
    /\ \E b \in Answering :
          reader' = [reader EXCEPT ![r] =
              IF b = board
              THEN [board |-> b, ver |-> ring[1].ver, list |-> ring[1].list, age |-> 0]
              ELSE [board |-> b, ver |-> 1, list |-> NoOffers, age |-> 0]]
    /\ UNCHANGED <<boardVars, call, seamVars, streamVars>>

\* The fetch ends with the segments of the version, or the consumer gives up.
EndFetch(r) ==
    /\ reader[r].board # 0
    /\ reader' = [reader EXCEPT ![r] = NoReader]
    /\ UNCHANGED <<boardVars, call, seamVars, streamVars>>

----------------------------------------------------------------------------
Caller(c) ==
    \/ Start(c) \/ Install(c) \/ Lock(c) \/ Register(c) \/ Insert(c) \/ Drop(c) \/ Rebuild(c)
    \/ \E op \in {"add", "stream", "remove"}, f \in Files : Enter(c, op, f)

Next ==
    \/ \E c \in Callers : Caller(c)
    \/ \E n \in Reg : Grant(n) \/ Send(n)
    \/ \E r \in Readers : AskManifest(r) \/ EndFetch(r)

Spec == Init /\ [][Next]_vars

----------------------------------------------------------------------------
(* Properties.                                                             *)

Serves(f) == \E n \in live : file[n] = f
Removing(f) == \E c \in Callers : call[c].pc = "rebuild" /\ call[c].op = "remove" /\ call[c].file = f

\* A file the newest manifest lists is served (offer.rs l.6-21), also in the
\* middle of a replacement: there is no moment without a handler between the
\* old content and the new. Only remove takes the file away before the manifest.
ListedIsServed ==
    board # 0 => \A f \in Files : ring[1].list[f] # 0 => Serves(f) \/ Removing(f)

\* Between calls the newest manifest, the entries and the handlers agree:
\* nothing stale is listed, and no handler is left of a file that was replaced,
\* removed or offered on an earlier board (l.55-56, l.444).
BoardConsistent ==
    LockFree /\ board # 0 =>
        /\ ring[1].list = offers
        /\ live = {offers[f] : f \in Files} \ {0}
        /\ \A f \in Files : offers[f] # 0 => file[offers[f]] = f

\* A fetch that began before a rebuild still completes from the kept history
\* (l.49-53): while fewer than History versions came after the one it was
\* told of, the board answers for that version, with that version's list.
FetchSurvives ==
    \A r \in Readers : reader[r].board # 0 /\ reader[r].board = board /\ reader[r].age < History =>
        \E i \in 1 .. Len(ring) : ring[i] = [ver |-> reader[r].ver, list |-> reader[r].list]

\* A streamer publishes one segment per permit, whenever its offer was removed
\* or replaced: never more than the subscriptions asked for (l.349-351).
SentWithinCredit ==
    \A n \in Reg : sent[n] + budget[n] <= granted[n]

=============================================================================
