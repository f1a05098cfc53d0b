-------------------------- MODULE OfferBoardProofs --------------------------
(***************************************************************************)
(* Proofs about OfferBoard, for all callers, files, consumers and any       *)
(* length of the manifest history.                                          *)
(***************************************************************************)
EXTENDS OfferBoard, TLAPS

Installing(c) == call[c].pc = "install"

\* At most one call is inside the mutex; one that is has a board and a file.
\* Boards under way are numbered apart from each other and from the cell's.
CallInv ==
    /\ \A c, d \in Callers : Inside(c) /\ Inside(d) => c = d
    /\ \A c \in Callers : Inside(c) => board # 0 /\ call[c].file \in Files
    /\ \A c \in Callers : call[c].pc = "lock" => call[c].file \in Files
    /\ \A c \in Callers : call[c].pc = "register" => made < MaxRegs
    /\ \A c \in Callers : call[c].pc = "drop" =>
          call[c].op = "remove" /\ offers[call[c].file] # 0
    /\ \A c \in Callers : Installing(c) => call[c].id \in 1 .. boards /\ call[c].id # board
    /\ \A c, d \in Callers : Installing(c) /\ Installing(d) /\ call[c].id = call[d].id => c = d

\* An entry's guard is held and belongs to its file; besides the entries' only
\* the registration of the call about to insert it is live.
EntryInv ==
    /\ \A f \in Files : offers[f] # 0 =>
          board # 0 /\ offers[f] \in live /\ file[offers[f]] = f
    /\ \A n \in live :
          \/ \E f \in Files : offers[f] = n
          \/ \E c \in Callers : call[c].pc = "insert" /\ call[c].id = n
    /\ \A c \in Callers : call[c].pc = "insert" =>
          /\ call[c].id \in live /\ file[call[c].id] = call[c].file
          /\ \A f \in Files : offers[f] # call[c].id

\* The newest manifest differs from the entries at most in the file whose call
\* is about to rebuild it, and a file that is no longer an entry is being removed.
ListInv ==
    /\ board # 0 => Len(ring) >= 1
    /\ \A f \in Files : board # 0 /\ ring[1].list[f] # offers[f] =>
          \E c \in Callers : call[c].pc = "rebuild" /\ call[c].file = f
    /\ \A c \in Callers : call[c].pc = "rebuild" /\ call[c].op # "remove" =>
          offers[call[c].file] # 0

\* What a consumer was told stands in the ring, as far back as its age; of a
\* board that is not stored yet it knows the empty manifest.
FetchInv ==
    \A r \in Readers :
        /\ reader[r].board <= boards
        /\ reader[r].board # 0 /\ reader[r].board = board /\ reader[r].age < History =>
              /\ reader[r].age + 1 <= Len(ring)
              /\ ring[reader[r].age + 1] = [ver |-> reader[r].ver, list |-> reader[r].list]
        /\ \A c \in Callers : Installing(c) /\ reader[r].board = call[c].id =>
              /\ reader[r].ver = 1 /\ reader[r].age = 0
              /\ reader[r].list = NoOffers

BInv == TypeOK /\ CallInv /\ EntryInv /\ ListInv /\ FetchInv

LEMMA InitBInv == Init => BInv
  <1> SUFFICES ASSUME Init PROVE BInv
    OBVIOUS
  <1> USE BoundAssumption DEF Init
  <1>1. NoOffers \in Lists /\ \A f \in Files : NoOffers[f] = 0
    BY DEF NoOffers, Lists
  <1>2. Idle \in Call /\ Idle.pc = "idle"
    BY DEF Idle, Call
  <1>4. NoReader \in Reader /\ NoReader.board = 0
    BY <1>1 DEF NoReader, Reader
  <1>5. TypeOK
    BY <1>1, <1>2, <1>4 DEF TypeOK
  <1>6. CallInv
    BY <1>2 DEF CallInv, Inside, Installing
  <1>7. EntryInv /\ ListInv
    BY <1>1, <1>2 DEF EntryInv, ListInv
  <1>8. FetchInv
    BY <1>2, <1>4 DEF FetchInv, Installing
  <1> QED BY <1>5, <1>6, <1>7, <1>8 DEF BInv

----------------------------------------------------------------------------
(* What a step leaves of the calls.                                        *)

LEMMA SetCall ==
    ASSUME TypeOK, NEW c \in Callers, NEW x \in Call, call' = [call EXCEPT ![c] = x]
    PROVE  /\ call' \in [Callers -> Call]
           /\ call'[c] = x
           /\ \A d \in Callers : d # c => call'[d] = call[d]
  BY DEF TypeOK

LEMMA ReturnCall ==
    ASSUME TypeOK, NEW c \in Callers, Return(c)
    PROVE  /\ call' \in [Callers -> Call]
           /\ call'[c].pc = "idle"
           /\ \A d \in Callers : d # c => call'[d] = call[d]
  <1>1. Idle \in Call /\ Idle.pc = "idle"
    BY DEF Idle, Call
  <1> QED BY <1>1, SetCall DEF Return

LEMMA GotoCall ==
    ASSUME TypeOK, NEW c \in Callers,
           NEW pc \in {"register", "insert", "drop", "rebuild"}, Goto(c, pc)
    PROVE  /\ call' \in [Callers -> Call]
           /\ call'[c].pc = pc /\ call'[c].op = call[c].op
           /\ call'[c].file = call[c].file /\ call'[c].id = call[c].id
           /\ \A d \in Callers : d # c => call'[d] = call[d]
  <1> DEFINE x == [call[c] EXCEPT !.pc = pc]
  <1>1. call[c] \in Call
    BY DEF TypeOK
  <1>2. /\ x \in Call /\ x.pc = pc /\ x.op = call[c].op
        /\ x.file = call[c].file /\ x.id = call[c].id
    BY <1>1 DEF Call
  <1>3. call' = [call EXCEPT ![c] = x]
    BY DEF Goto, TypeOK
  <1> HIDE DEF x
  <1> QED BY <1>2, <1>3, SetCall

----------------------------------------------------------------------------
(* One lemma per kind of step.                                             *)

LEMMA StartBInv ==
    ASSUME BInv, NEW c \in Callers, Start(c)
    PROVE  BInv'
  <1> DEFINE x == [pc |-> "install", op |-> "start", file |-> NoFile, id |-> boards + 1]
  <1>1. boards \in Nat /\ boards + 1 \in 1 .. MaxBoards /\ board \in 0 .. boards
    BY BoundAssumption DEF BInv, TypeOK, Start
  <1>2. x \in Call /\ x.pc = "install" /\ x.id = boards + 1
    BY <1>1 DEF Call
  <1>3. /\ call' \in [Callers -> Call] /\ call'[c] = x
        /\ \A d \in Callers : d # c => call'[d] = call[d]
    <2> HIDE DEF x
    <2>1. call' = [call EXCEPT ![c] = x]
      BY DEF Start, x
    <2> QED BY <1>2, <2>1, SetCall DEF BInv
  <1> HIDE DEF x
  <1>4. call[c].pc = "idle" /\ boards' = boards + 1
    BY DEF Start
  <1>5. UNCHANGED <<board, offers, ring, made, live, file, streamVars, reader>>
    BY DEF Start, seamVars
  <1>6. TypeOK'
    BY <1>1, <1>3, <1>4, <1>5 DEF BInv, TypeOK, streamVars
  <1>7. CallInv'
    BY <1>1, <1>2, <1>3, <1>4, <1>5 DEF BInv, CallInv, Inside, Installing
  <1>8. EntryInv' /\ ListInv'
    BY <1>2, <1>3, <1>4, <1>5 DEF BInv, EntryInv, ListInv
  <1>9. FetchInv'
    <2>1. \A r \in Readers : reader[r].board \in Nat /\ reader[r].board <= boards
      BY DEF BInv, TypeOK, Reader, FetchInv
    <2> QED BY <1>1, <1>2, <1>3, <1>4, <1>5, <2>1 DEF BInv, FetchInv, Installing
  <1> QED BY <1>6, <1>7, <1>8, <1>9 DEF BInv

LEMMA EnterBInv ==
    ASSUME BInv, NEW c \in Callers, NEW op \in {"add", "stream", "remove"}, NEW f \in Files,
           Enter(c, op, f)
    PROVE  BInv'
  <1> DEFINE x == [pc |-> "lock", op |-> op, file |-> f, id |-> 0]
  <1>1. x \in Call /\ x.pc = "lock" /\ x.file = f
    BY DEF Call
  <1>2. call' = [call EXCEPT ![c] = x]
    BY DEF Enter
  <1> HIDE DEF x
  <1>3. /\ call' \in [Callers -> Call] /\ call'[c] = x
        /\ \A d \in Callers : d # c => call'[d] = call[d]
    BY <1>1, <1>2, SetCall DEF BInv
  <1>4. call[c].pc = "idle"
    BY DEF Enter
  <1>5. UNCHANGED <<boards, board, offers, ring, made, live, file, streamVars, reader>>
    BY DEF Enter, boardVars, seamVars
  <1>6. TypeOK'
    BY <1>3, <1>5 DEF BInv, TypeOK, streamVars
  <1>7. CallInv'
    BY <1>1, <1>3, <1>4, <1>5 DEF BInv, CallInv, Inside, Installing
  <1>8. EntryInv' /\ ListInv'
    BY <1>1, <1>3, <1>4, <1>5 DEF BInv, EntryInv, ListInv
  <1>9. FetchInv'
    BY <1>1, <1>3, <1>4, <1>5 DEF BInv, FetchInv, Installing
  <1> QED BY <1>6, <1>7, <1>8, <1>9 DEF BInv

LEMMA InstallBInv ==
    ASSUME BInv, NEW c \in Callers, Install(c)
    PROVE  BInv'
  <1>1. /\ call' \in [Callers -> Call] /\ call'[c].pc = "idle"
        /\ \A d \in Callers : d # c => call'[d] = call[d]
    BY ReturnCall DEF BInv, Install
  <1>2. Installing(c) /\ call[c].id \in 1 .. boards /\ \A d \in Callers : ~Inside(d)
    BY DEF BInv, CallInv, Install, Installing, LockFree
  <1>3. /\ board' = call[c].id /\ live' = {} /\ offers' = NoOffers
        /\ ring' = <<[ver |-> 1, list |-> NoOffers]>>
    BY DEF Install, EntriesOfNew, Manifest
  <1>4. UNCHANGED <<boards, made, file, streamVars, reader>>
    BY DEF Install
  <1>5. NoOffers \in Lists /\ \A f \in Files : NoOffers[f] = 0
    BY BoundAssumption DEF NoOffers, Lists
  <1>6. /\ ring' \in Seq([ver: Nat, list: Lists]) /\ Len(ring') = 1
        /\ ring'[1] = [ver |-> 1, list |-> NoOffers]
    BY <1>3, <1>5
  <1>7. TypeOK'
    BY <1>1, <1>2, <1>3, <1>4, <1>5, <1>6 DEF BInv, TypeOK, streamVars
  <1>8. CallInv'
    BY <1>1, <1>2, <1>3, <1>4 DEF BInv, CallInv, Inside, Installing
  <1>9. EntryInv' /\ ListInv'
    <2>1. \A d \in Callers : call'[d].pc \notin {"insert", "rebuild"}
      BY <1>1, <1>2 DEF Inside
    <2>2. EntryInv'
      BY <1>3, <1>5, <2>1 DEF EntryInv
    <2>3. ring'[1].list = NoOffers /\ Len(ring') >= 1
      BY <1>6
    <2>4. ListInv'
      BY <1>3, <2>1, <2>3 DEF ListInv
    <2> QED BY <2>2, <2>4
  <1>10. FetchInv'
    <2> SUFFICES ASSUME NEW r \in Readers
                 PROVE  /\ reader'[r].board <= boards'
                        /\ reader'[r].board = board' =>
                              /\ reader'[r].age + 1 <= Len(ring')
                              /\ ring'[reader'[r].age + 1] =
                                    [ver |-> reader'[r].ver, list |-> reader'[r].list]
                        /\ \A d \in Callers : Installing(d)' /\ reader'[r].board = call'[d].id =>
                              /\ reader'[r].ver = 1 /\ reader'[r].age = 0
                              /\ reader'[r].list = NoOffers
      BY DEF FetchInv
    <2>1. reader'[r] = reader[r] /\ reader[r].board <= boards
      BY <1>4 DEF BInv, FetchInv
    <2>2. ASSUME reader[r].board = call[c].id
          PROVE  reader[r].ver = 1 /\ reader[r].age = 0 /\ reader[r].list = NoOffers
      BY <1>2, <2>2 DEF BInv, FetchInv
    <2>3. ASSUME NEW d \in Callers, Installing(d)', reader[r].board = call'[d].id
          PROVE  reader[r].ver = 1 /\ reader[r].age = 0 /\ reader[r].list = NoOffers
      <3>1. d # c /\ Installing(d) /\ call'[d] = call[d]
        BY <1>1, <2>3 DEF Installing
      <3> QED BY <2>3, <3>1 DEF BInv, FetchInv
    <2> QED BY <1>3, <1>4, <1>6, <2>1, <2>2, <2>3
  <1> QED BY <1>7, <1>8, <1>9, <1>10 DEF BInv

LEMMA LockBInv ==
    ASSUME BInv, NEW c \in Callers, Lock(c)
    PROVE  BInv'
  <1>1. UNCHANGED <<boards, board, offers, ring, made, live, file, streamVars, reader>>
    BY DEF Lock, boardVars, seamVars
  <1>2. call[c].pc = "lock" /\ call[c].file \in Files /\ \A d \in Callers : ~Inside(d)
    BY DEF BInv, CallInv, Lock, LockFree
  <1>3. /\ call' \in [Callers -> Call]
        /\ \/ call'[c].pc = "idle"
           \/ /\ board # 0 /\ call'[c].file = call[c].file
              /\ \/ call'[c].pc = "register" /\ made < MaxRegs
                 \/ /\ call'[c].pc = "drop" /\ call'[c].op = "remove"
                    /\ offers[call[c].file] # 0
        /\ \A d \in Callers : d # c => call'[d] = call[d]
    <2>1. CASE Return(c)
      BY <2>1, ReturnCall DEF BInv
    <2>2. CASE Goto(c, "register") /\ board # 0 /\ made < MaxRegs
      BY <2>2, GotoCall DEF BInv
    <2>3. CASE Goto(c, "drop") /\ call[c].op = "remove" /\ offers[call[c].file] # 0
      <3>1. board # 0
        BY <1>2, <2>3 DEF BInv, EntryInv
      <3> QED BY <2>3, <3>1, GotoCall DEF BInv
    <2> QED BY <2>1, <2>2, <2>3 DEF Lock
  <1>4. TypeOK'
    BY <1>1, <1>3 DEF BInv, TypeOK, streamVars
  <1>5. CallInv'
    BY <1>1, <1>2, <1>3 DEF BInv, CallInv, Inside, Installing
  <1>6. EntryInv' /\ ListInv'
    <2>1. \A d \in Callers : call[d].pc \notin {"insert", "rebuild"} /\ call'[d].pc \notin {"insert", "rebuild"}
      BY <1>2, <1>3 DEF Inside
    <2> QED BY <1>1, <2>1 DEF BInv, EntryInv, ListInv
  <1>7. FetchInv'
    BY <1>1, <1>2, <1>3 DEF BInv, FetchInv, Installing
  <1> QED BY <1>4, <1>5, <1>6, <1>7 DEF BInv

\* The registration a call makes is new, and no entry's.
LEMMA RegisterBInv ==
    ASSUME BInv, NEW c \in Callers, Register(c)
    PROVE  BInv'
  <1> DEFINE n == made + 1
             x == [call[c] EXCEPT !.pc = "insert", !.id = n]
  <1>1. /\ made \in Nat /\ n \in Reg /\ n \in 0 .. MaxRegs /\ n \in Nat
        /\ n \notin 0 .. made /\ live \subseteq 1 .. made
        /\ 1 .. made \subseteq Reg /\ 1 .. made \subseteq 0 .. made
    BY BoundAssumption DEF BInv, TypeOK, CallInv, Register, Reg
  <1>2. /\ call[c] \in Call /\ call[c].pc = "register" /\ Inside(c)
        /\ board # 0 /\ call[c].file \in Files
    BY DEF BInv, TypeOK, CallInv, Register, Inside
  <1>3. x \in Call /\ x.pc = "insert" /\ x.id = n /\ x.file = call[c].file
    BY <1>1, <1>2 DEF Call
  <1>4. call' = [call EXCEPT ![c] = x]
    BY DEF Register, BInv, TypeOK
  <1>5. /\ made' = n /\ live' = live \cup {n}
        /\ file' = [file EXCEPT ![n] = call[c].file]
    BY DEF Register
  <1>6. UNCHANGED <<boards, board, offers, ring, reader>>
    BY DEF Register, boardVars
  <1>7. /\ running' = running \/ running' = running \cup {n}
        /\ UNCHANGED <<budget, sent, granted>>
    BY DEF Register
  <1> HIDE DEF n, x
  <1>8. /\ call' \in [Callers -> Call] /\ call'[c] = x
        /\ \A d \in Callers : d # c => call'[d] = call[d]
    BY <1>3, <1>4, SetCall DEF BInv
  <1>9. \A d \in Callers : d # c => ~Inside(d)
    BY <1>2 DEF BInv, CallInv
  <1>10. /\ file' \in [Reg -> Files \cup {NoFile}] /\ file'[n] = call[c].file
         /\ \A m \in 0 .. made : m \in Reg => file'[m] = file[m]
    BY <1>1, <1>2, <1>5 DEF BInv, TypeOK
  <1>11. TypeOK'
    <2>1. running' \subseteq 1 .. made'
      <3>1. running \subseteq 1 .. made
        BY DEF BInv, TypeOK
      <3>2. 1 .. made \subseteq 1 .. n /\ n \in 1 .. n
        BY <1>1 DEF n
      <3> QED BY <1>5, <1>7, <3>1, <3>2
    <2>2. live' \subseteq 1 .. made'
      BY <1>1, <1>5 DEF n
    <2> QED BY <1>1, <1>5, <1>6, <1>7, <1>8, <1>10, <2>1, <2>2 DEF BInv, TypeOK
  <1>12. CallInv'
    BY <1>2, <1>3, <1>6, <1>8, <1>9 DEF BInv, CallInv, Inside, Installing
  <1>13. EntryInv'
    <2>1. \A f \in Files : offers[f] # n
      <3>1. \A f \in Files : offers[f] \in live \/ offers[f] = 0
        BY DEF BInv, EntryInv
      <3> QED BY <1>1, <3>1
    <2>2. \A f \in Files : offers[f] # 0 =>
             board # 0 /\ offers[f] \in live' /\ file'[offers[f]] = f
      <3> SUFFICES ASSUME NEW f \in Files, offers[f] # 0
                   PROVE  board # 0 /\ offers[f] \in live' /\ file'[offers[f]] = f
        OBVIOUS
      <3>1. board # 0 /\ offers[f] \in live /\ file[offers[f]] = f
        BY DEF BInv, EntryInv
      <3>2. offers[f] \in 0 .. made /\ offers[f] \in Reg
        BY <1>1, <3>1
      <3> QED BY <1>5, <1>10, <3>1, <3>2
    <2>3. \A m \in live' :
             \/ \E f \in Files : offers[f] = m
             \/ \E d \in Callers : call'[d].pc = "insert" /\ call'[d].id = m
      <3>1. \A m \in live : \E f \in Files : offers[f] = m
        BY <1>2, <1>9 DEF BInv, EntryInv, Inside
      <3> QED BY <1>3, <1>5, <1>8, <3>1
    <2>4. \A d \in Callers : call'[d].pc = "insert" => d = c
      BY <1>8, <1>9 DEF Inside
    <2>5. EntryInv'
      BY <1>3, <1>5, <1>6, <1>8, <1>10, <2>1, <2>2, <2>3, <2>4 DEF EntryInv
    <2> QED BY <2>5
  <1>14. ListInv'
    BY <1>2, <1>3, <1>6, <1>8 DEF BInv, ListInv
  <1>15. FetchInv'
    BY <1>2, <1>3, <1>6, <1>8 DEF BInv, FetchInv, Installing
  <1> QED BY <1>11, <1>12, <1>13, <1>14, <1>15 DEF BInv

\* What Insert and Drop have in common: the entry of the call's file changes to
\* x, the guard of the old entry is dropped, and the call goes on to rebuild.
LEMMA EntryStep ==
    ASSUME BInv, NEW c \in Callers, NEW x \in 0 .. MaxRegs,
           \/ call[c].pc = "insert" /\ x = call[c].id
           \/ call[c].pc = "drop" /\ x = 0,
           live' = live \ {offers[call[c].file]},
           offers' = [offers EXCEPT ![call[c].file] = x],
           Goto(c, "rebuild"),
           UNCHANGED <<boards, board, ring, made, file, streamVars, reader>>
    PROVE  BInv'
  <1> DEFINE g == call[c].file
  <1>1. Inside(c) /\ board # 0 /\ g \in Files
    BY DEF BInv, CallInv, Inside
  <1>2. /\ call' \in [Callers -> Call]
        /\ call'[c].pc = "rebuild" /\ call'[c].op = call[c].op /\ call'[c].file = g
        /\ \A d \in Callers : d # c => call'[d] = call[d]
    BY GotoCall DEF BInv
  <1>3. \A d \in Callers : d # c => ~Inside(d)
    BY <1>1 DEF BInv, CallInv
  <1>4. /\ offers' \in Lists /\ offers'[g] = x
        /\ \A f \in Files : f # g => offers'[f] = offers[f]
    BY <1>1 DEF BInv, TypeOK, Lists
  <1>5. 0 \notin live /\ live' = live \ {offers[g]}
    BY DEF BInv, TypeOK
  <1> HIDE DEF g
  <1>6. TypeOK'
    BY <1>2, <1>4, <1>5 DEF BInv, TypeOK, streamVars
  <1>7. CallInv'
    BY <1>1, <1>2, <1>3 DEF BInv, CallInv, Inside, Installing
  <1>8. x # 0 => x \in live' /\ file[x] = g /\ \A f \in Files : offers[f] # x
    BY <1>1, <1>5 DEF BInv, EntryInv, g
  <1>9. \A f \in Files : offers'[f] # 0 => board # 0 /\ offers'[f] \in live' /\ file[offers'[f]] = f
    <2> SUFFICES ASSUME NEW f \in Files, offers'[f] # 0
                 PROVE  offers'[f] \in live' /\ file[offers'[f]] = f
      BY <1>1
    <2>1. CASE f = g
      BY <1>4, <1>8, <2>1
    <2>2. CASE f # g
      <3>1. offers'[f] = offers[f] /\ offers[f] \in live /\ file[offers[f]] = f
        BY <1>4, <2>2 DEF BInv, EntryInv
      <3>2. offers[f] # offers[g]
        <4>1. offers[g] = 0 \/ file[offers[g]] = g
          BY <1>1 DEF BInv, EntryInv
        <4> QED BY <2>2, <3>1, <4>1, <1>5
      <3> QED BY <1>5, <3>1, <3>2
    <2> QED BY <2>1, <2>2
  <1>10. \A n \in live' : \E f \in Files : offers'[f] = n
    <2> SUFFICES ASSUME NEW n \in live' PROVE \E f \in Files : offers'[f] = n
      OBVIOUS
    <2>1. n \in live /\ n # offers[g] /\ n # 0
      BY <1>5
    <2>2. CASE \E f \in Files : offers[f] = n
      <3>1. PICK f \in Files : offers[f] = n
        BY <2>2
      <3>2. f # g /\ offers'[f] = n
        BY <1>4, <2>1, <3>1
      <3> QED BY <3>2
    <2>3. CASE \E d \in Callers : call[d].pc = "insert" /\ call[d].id = n
      <3>1. call[c].pc = "insert" /\ call[c].id = n
        BY <1>3, <2>3 DEF Inside
      <3>2. offers'[g] = n
        BY <1>4, <3>1
      <3> QED BY <1>1, <3>2
    <2> QED BY <2>1, <2>2, <2>3 DEF BInv, EntryInv
  <1>11. EntryInv'
    <2>1. \A d \in Callers : call'[d].pc # "insert"
      BY <1>2, <1>3 DEF Inside
    <2> QED BY <1>9, <1>10, <2>1 DEF EntryInv
  <1>12. ListInv'
    <2>1. \A f \in Files : f # g => ring[1].list[f] = offers[f]
      BY <1>1, <1>3 DEF BInv, ListInv, Inside, g
    <2>2. \A d \in Callers : call'[d].pc = "rebuild" => d = c
      BY <1>2, <1>3 DEF Inside
    <2>3. call[c].op # "remove" => x # 0
      <3>1. CASE call[c].pc = "drop"
        BY <3>1 DEF BInv, CallInv
      <3>2. CASE call[c].pc = "insert" /\ x = call[c].id
        BY <3>2, <1>5 DEF BInv, EntryInv
      <3> QED BY <3>1, <3>2
    <2>4. \A f \in Files : ring[1].list[f] # offers'[f] =>
             \E d \in Callers : call'[d].pc = "rebuild" /\ call'[d].file = f
      BY <1>2, <1>4, <2>1
    <2> QED BY <1>1, <1>2, <1>4, <2>2, <2>3, <2>4 DEF BInv, ListInv
  <1>13. FetchInv'
    BY <1>1, <1>2 DEF BInv, FetchInv, Installing, Inside
  <1> QED BY <1>6, <1>7, <1>11, <1>12, <1>13 DEF BInv

LEMMA InsertBInv ==
    ASSUME BInv, NEW c \in Callers, Insert(c) \/ Drop(c)
    PROVE  BInv'
  <1>1. /\ live' = live \ {offers[call[c].file]} /\ Goto(c, "rebuild")
        /\ UNCHANGED <<boards, board, ring, made, file, streamVars, reader>>
    BY DEF Insert, Drop, Without
  <1>2. CASE Insert(c)
    <2>0. live \subseteq 0 .. MaxRegs
      BY BoundAssumption DEF BInv, TypeOK
    <2>1. call[c].pc = "insert" /\ call[c].id \in 0 .. MaxRegs
      BY <1>2, <2>0 DEF BInv, EntryInv, Insert
    <2>2. offers' = [offers EXCEPT ![call[c].file] = call[c].id]
      BY <1>2 DEF Insert
    <2> QED BY <1>1, <2>1, <2>2, EntryStep
  <1>3. CASE Drop(c)
    <2>1. PICK x \in 0 .. MaxRegs : x = 0
      BY BoundAssumption
    <2>2. call[c].pc = "drop" /\ offers' = [offers EXCEPT ![call[c].file] = x]
      BY <1>3, <2>1 DEF Drop
    <2> QED BY <1>1, <2>1, <2>2, EntryStep
  <1> QED BY <1>2, <1>3

LEMMA ElementOf ==
    ASSUME NEW S, NEW s \in Seq(S), NEW i \in 1 .. Len(s)
    PROVE  s[i] \in S
  OBVIOUS

\* The manifest pushed stands first; every other one moves back by one place,
\* and stays while it is among the History newest.
LEMMA PushMoves ==
    ASSUME TypeOK, NEW m \in [ver: Nat, list: Lists], Len(ring) >= 1
    PROVE  /\ Push(m) \in Seq([ver: Nat, list: Lists])
           /\ Len(Push(m)) >= 1 /\ Push(m)[1] = m
           /\ \A i \in Nat : 1 <= i /\ i <= Len(ring) /\ i < History =>
                 i + 1 <= Len(Push(m)) /\ Push(m)[i + 1] = ring[i]
  <1> DEFINE M == [ver: Nat, list: Lists]
  <1>1. ring \in Seq(M) /\ Len(ring) \in Nat /\ \A i \in 1 .. Len(ring) : ring[i] \in M
    <2>1. ring \in Seq(M)
      BY DEF TypeOK
    <2> HIDE DEF M
    <2>2. \A i \in 1 .. Len(ring) : ring[i] \in M
      BY <2>1, ElementOf
    <2> QED BY <2>1, <2>2
  <1>2. Kept \in Nat /\ Kept >= 1 /\ Kept <= Len(ring) + 1
    BY <1>1, HistoryAssumption DEF Kept
  <1>3. \A i \in Nat : i <= Len(ring) /\ i < History => i + 1 <= Kept
    BY <1>1, HistoryAssumption DEF Kept
  <1> DEFINE s == [i \in 1 .. Kept |-> IF i = 1 THEN m ELSE ring[i - 1]]
  <1>4. Push(m) = s
    BY DEF Push
  <1> HIDE DEF M
  <1>5. \A i \in 1 .. Kept : s[i] \in M
    <2> SUFFICES ASSUME NEW i \in 1 .. Kept PROVE s[i] \in M
      OBVIOUS
    <2>1. CASE i = 1
      BY <2>1 DEF M
    <2>2. CASE i # 1
      <3>1. i - 1 \in 1 .. Len(ring)
        BY <1>1, <1>2, <2>2
      <3> QED BY <1>1, <2>2, <3>1
    <2> QED BY <2>1, <2>2
  <1>6. s \in Seq(M) /\ Len(s) = Kept
    BY <1>2, <1>5
  <1>7. s[1] = m
    BY <1>2
  <1>8. \A i \in Nat : 1 <= i /\ i <= Len(ring) /\ i < History => s[i + 1] = ring[i]
    <2> SUFFICES ASSUME NEW i \in Nat, 1 <= i, i <= Len(ring), i < History
                 PROVE  s[i + 1] = ring[i]
      OBVIOUS
    <2>1. i + 1 \in 1 .. Kept /\ i + 1 # 1 /\ (i + 1) - 1 = i
      BY <1>2, <1>3
    <2> QED BY <2>1
  <1> HIDE DEF s
  <1> QED BY <1>2, <1>3, <1>4, <1>6, <1>7, <1>8 DEF M

LEMMA RebuildBInv ==
    ASSUME BInv, NEW c \in Callers, Rebuild(c)
    PROVE  BInv'
  <1> DEFINE m == [ver |-> ring[1].ver + 1, list |-> offers]
  <1>1. call[c].pc = "rebuild" /\ Inside(c) /\ board # 0 /\ Len(ring) >= 1
    BY DEF BInv, CallInv, ListInv, Rebuild, Inside
  <1>2. m \in [ver: Nat, list: Lists] /\ m.list = offers
    <2>1. 1 \in 1 .. Len(ring) /\ ring \in Seq([ver: Nat, list: Lists]) /\ offers \in Lists
      BY <1>1 DEF BInv, TypeOK
    <2>2. ring[1] \in [ver: Nat, list: Lists]
      BY <2>1, ElementOf
    <2> QED BY <2>1, <2>2
  <1>3. ring' = Push(m)
    BY DEF Rebuild, Manifest
  <1> HIDE DEF m
  <1>4. /\ ring' \in Seq([ver: Nat, list: Lists]) /\ Len(ring') >= 1 /\ ring'[1] = m
        /\ \A i \in Nat : 1 <= i /\ i <= Len(ring) /\ i < History =>
              i + 1 <= Len(ring') /\ ring'[i + 1] = ring[i]
    BY <1>1, <1>2, <1>3, PushMoves DEF BInv
  <1>5. /\ call' \in [Callers -> Call] /\ call'[c].pc = "idle"
        /\ \A d \in Callers : d # c => call'[d] = call[d]
    BY ReturnCall DEF BInv, Rebuild
  <1>6. \A d \in Callers : ~Inside(d)'
    BY <1>1, <1>5 DEF BInv, CallInv, Inside
  <1>7. UNCHANGED <<boards, board, offers, made, live, file, streamVars>>
    BY DEF Rebuild, seamVars
  <1>8. reader \in [Readers -> Reader]
    BY DEF BInv, TypeOK
  <1>9. /\ reader' \in [Readers -> Reader]
        /\ \A r \in Readers :
              /\ reader'[r].board = reader[r].board
              /\ reader'[r].ver = reader[r].ver /\ reader'[r].list = reader[r].list
              /\ reader'[r].age = IF reader[r].board = board THEN reader[r].age + 1
                                  ELSE reader[r].age
    <2>1. reader' = [r \in Readers |->
                       IF reader[r].board = board THEN [reader[r] EXCEPT !.age = @ + 1]
                       ELSE reader[r]]
      BY DEF Rebuild
    <2>2. \A r \in Readers : [reader[r] EXCEPT !.age = @ + 1] \in Reader
      BY <1>8 DEF Reader
    <2>3. reader' \in [Readers -> Reader]
      BY <1>8, <2>1, <2>2
    <2> QED BY <1>8, <2>1, <2>3 DEF Reader
  <1>10. TypeOK'
    BY <1>4, <1>5, <1>7, <1>9 DEF BInv, TypeOK, streamVars
  <1>11. CallInv'
    BY <1>1, <1>5, <1>6, <1>7 DEF BInv, CallInv, Inside, Installing
  <1>12. EntryInv'
    BY <1>1, <1>5, <1>7 DEF BInv, EntryInv
  <1>13. ListInv'
    BY <1>2, <1>4, <1>6, <1>7 DEF ListInv, Inside
  <1>14. FetchInv'
    <2> SUFFICES ASSUME NEW r \in Readers
                 PROVE  /\ reader'[r].board <= boards'
                        /\ reader'[r].board = board' /\ reader'[r].age < History =>
                              /\ reader'[r].age + 1 <= Len(ring')
                              /\ ring'[reader'[r].age + 1] =
                                    [ver |-> reader'[r].ver, list |-> reader'[r].list]
                        /\ \A d \in Callers : Installing(d)' /\ reader'[r].board = call'[d].id =>
                              /\ reader'[r].ver = 1 /\ reader'[r].age = 0
                              /\ reader'[r].list = NoOffers
      BY DEF FetchInv
    <2>1. reader'[r].board <= boards'
      BY <1>7, <1>9 DEF BInv, FetchInv
    <2>2. ASSUME reader'[r].board = board', reader'[r].age < History
          PROVE  /\ reader'[r].age + 1 <= Len(ring')
                 /\ ring'[reader'[r].age + 1] = [ver |-> reader'[r].ver, list |-> reader'[r].list]
      <3>1. reader[r].board = board /\ reader[r].age \in Nat
            /\ reader'[r].age = reader[r].age + 1
        BY <1>7, <1>8, <1>9, <2>2 DEF Reader
      <3>2. reader[r].age < History /\ reader[r].age + 1 < History
        BY <2>2, <3>1, HistoryAssumption
      <3>3. /\ reader[r].age + 1 <= Len(ring)
            /\ ring[reader[r].age + 1] = [ver |-> reader[r].ver, list |-> reader[r].list]
        BY <1>1, <3>1, <3>2 DEF BInv, FetchInv
      <3>4. (reader[r].age + 1) + 1 <= Len(ring') /\ ring'[(reader[r].age + 1) + 1] = ring[reader[r].age + 1]
        BY <1>4, <3>1, <3>2, <3>3
      <3> QED BY <1>9, <3>1, <3>3, <3>4
    <2>3. ASSUME NEW d \in Callers, Installing(d)', reader'[r].board = call'[d].id
          PROVE  /\ reader'[r].ver = 1 /\ reader'[r].age = 0
                 /\ reader'[r].list = NoOffers
      <3>1. d # c /\ Installing(d) /\ call'[d] = call[d]
        BY <1>5, <2>3 DEF Installing
      <3>2. call[d].id # board
        BY <3>1 DEF BInv, CallInv
      <3> QED BY <1>9, <2>3, <3>1, <3>2 DEF BInv, FetchInv
    <2> QED BY <2>1, <2>2, <2>3
  <1> QED BY <1>10, <1>11, <1>12, <1>13, <1>14 DEF BInv

LEMMA StreamBInv ==
    ASSUME BInv, NEW n \in Reg, Grant(n) \/ Send(n)
    PROVE  BInv'
  <1>1. UNCHANGED <<boards, board, offers, ring, call, made, live, file, reader>>
    BY DEF Grant, Send, boardVars, seamVars
  <1>2. /\ budget \in [Reg -> Nat] /\ sent \in [Reg -> Nat] /\ granted \in [Reg -> Nat]
        /\ running \subseteq 1 .. made
    BY DEF BInv, TypeOK
  <1>3. /\ budget' \in [Reg -> Nat] /\ sent' \in [Reg -> Nat] /\ granted' \in [Reg -> Nat]
        /\ running' \subseteq 1 .. made
    <2>1. CASE Grant(n)
      BY <1>2, <2>1, StreamAssumption DEF Grant
    <2>2. CASE Send(n)
      <3>1. budget[n] - 1 \in Nat /\ sent[n] + 1 \in Nat
        BY <1>2, <2>2 DEF Send
      <3> QED BY <1>2, <2>2, <3>1 DEF Send, PermitForgotten
    <2> QED BY <2>1, <2>2
  <1>4. TypeOK'
    BY <1>1, <1>3 DEF BInv, TypeOK
  <1> QED BY <1>1, <1>4 DEF BInv, CallInv, EntryInv, ListInv, FetchInv, Inside, Installing

LEMMA ReadBInv ==
    ASSUME BInv, NEW q \in Readers, AskManifest(q) \/ EndFetch(q)
    PROVE  BInv'
  <1>1. UNCHANGED <<boards, board, offers, ring, call, made, live, file, streamVars>>
    BY DEF AskManifest, EndFetch, boardVars, seamVars
  <1>2. NoOffers \in Lists
    BY BoundAssumption DEF NoOffers, Lists
  <1> DEFINE Told == [board |-> board, ver |-> ring[1].ver, list |-> ring[1].list, age |-> 0]
             Fresh(c) == [board |-> call[c].id, ver |-> 1, list |-> NoOffers, age |-> 0]
  <1>3. PICK x : /\ reader' = [reader EXCEPT ![q] = x]
                 /\ \/ x = NoReader
                    \/ board # 0 /\ x = Told
                    \/ \E c \in Callers : Installing(c) /\ x = Fresh(c)
    <2>1. CASE EndFetch(q)
      BY <2>1 DEF EndFetch
    <2>2. CASE AskManifest(q)
      <3>1. PICK b \in Answering :
               reader' = [reader EXCEPT ![q] =
                  IF b = board THEN Told
                  ELSE [board |-> b, ver |-> 1, list |-> NoOffers, age |-> 0]]
        <4>1. \E b \in Answering :
                 reader' = [reader EXCEPT ![q] =
                    IF b = board
                    THEN [board |-> b, ver |-> ring[1].ver, list |-> ring[1].list, age |-> 0]
                    ELSE [board |-> b, ver |-> 1, list |-> NoOffers, age |-> 0]]
          BY <2>2 DEF AskManifest
        <4> QED BY <4>1
      <3>2. CASE b = board
        <4>1. reader' = [reader EXCEPT ![q] = Told] /\ board # 0
          BY <3>1, <3>2 DEF Answering
        <4> HIDE DEF Told
        <4> QED BY <4>1
      <3>3. CASE b # board
        <4>1. PICK c \in Callers : Installing(c) /\ b = call[c].id
          BY <3>3 DEF Answering, Installing
        <4>2. reader' = [reader EXCEPT ![q] = Fresh(c)]
          BY <3>1, <3>3, <4>1
        <4> HIDE DEF Fresh, Told
        <4> QED BY <4>1, <4>2
      <3> QED BY <3>2, <3>3
    <2> QED BY <2>1, <2>2
  <1>4. x \in Reader /\ x.board <= boards
    <2>1. CASE x = NoReader
      BY <1>2, <2>1, BoundAssumption DEF NoReader, Reader, BInv, TypeOK
    <2>2. CASE board # 0 /\ x = Told
      <3>1. 1 \in 1 .. Len(ring) /\ ring \in Seq([ver: Nat, list: Lists])
        BY <2>2 DEF BInv, TypeOK, ListInv
      <3>2. ring[1] \in [ver: Nat, list: Lists]
        BY <3>1, ElementOf
      <3>3. board \in Nat /\ board <= boards
        BY BoundAssumption DEF BInv, TypeOK
      <3> QED BY <2>2, <3>2, <3>3 DEF Reader
    <2>3. CASE \E c \in Callers : Installing(c) /\ x = Fresh(c)
      BY <1>2, <2>3, BoundAssumption DEF BInv, TypeOK, CallInv, Reader
    <2> QED BY <1>3, <2>1, <2>2, <2>3
  <1>5. /\ reader' \in [Readers -> Reader] /\ reader'[q] = x
        /\ \A r \in Readers : r # q => reader'[r] = reader[r]
    BY <1>3, <1>4 DEF BInv, TypeOK
  <1>6. TypeOK'
    BY <1>1, <1>5 DEF BInv, TypeOK, streamVars
  <1>7. CallInv' /\ EntryInv' /\ ListInv'
    BY <1>1 DEF BInv, CallInv, EntryInv, ListInv, Inside, Installing
  <1>8. /\ x.board # 0 /\ x.board = board =>
              x.age + 1 <= Len(ring) /\ ring[x.age + 1] = [ver |-> x.ver, list |-> x.list]
        /\ \A c \in Callers : Installing(c) /\ x.board = call[c].id =>
              x.ver = 1 /\ x.age = 0 /\ x.list = NoOffers
    <2>0. \A c \in Callers : Installing(c) => call[c].id # board /\ call[c].id # 0
      BY DEF BInv, CallInv
    <2>1. CASE x = NoReader
      BY <2>0, <2>1 DEF NoReader
    <2>2. CASE board # 0 /\ x = Told
      <3>1. 1 \in 1 .. Len(ring) /\ ring \in Seq([ver: Nat, list: Lists])
        BY <2>2 DEF BInv, TypeOK, ListInv
      <3>2. Len(ring) >= 1 /\ ring[1] \in [ver: Nat, list: Lists]
        <4>1. ring[1] \in [ver: Nat, list: Lists]
          BY <3>1, ElementOf
        <4> QED BY <2>2, <4>1 DEF BInv, ListInv
      <3>3. ring[1] = [ver |-> ring[1].ver, list |-> ring[1].list]
        BY <3>2
      <3> QED BY <2>0, <2>2, <3>2, <3>3
    <2>3. CASE \E c \in Callers : Installing(c) /\ x = Fresh(c)
      BY <2>0, <2>3
    <2> QED BY <1>3, <2>1, <2>2, <2>3
  <1>9. FetchInv'
    BY <1>1, <1>4, <1>5, <1>8 DEF BInv, FetchInv, Installing
  <1> QED BY <1>6, <1>7, <1>9 DEF BInv

LEMMA StepBInv == BInv /\ [Next]_vars => BInv'
  <1> SUFFICES ASSUME BInv, [Next]_vars PROVE BInv'
    OBVIOUS
  <1>1. ASSUME NEW c \in Callers, Caller(c)
        PROVE  BInv'
    <2>1. CASE Start(c)
      BY <2>1, StartBInv
    <2>2. CASE Install(c)
      BY <2>2, InstallBInv
    <2>3. CASE Lock(c)
      BY <2>3, LockBInv
    <2>4. CASE Register(c)
      BY <2>4, RegisterBInv
    <2>5. CASE Insert(c) \/ Drop(c)
      BY <2>5, InsertBInv
    <2>6. CASE Rebuild(c)
      BY <2>6, RebuildBInv
    <2>7. CASE \E op \in {"add", "stream", "remove"}, f \in Files : Enter(c, op, f)
      BY <2>7, EnterBInv
    <2> QED BY <1>1, <2>1, <2>2, <2>3, <2>4, <2>5, <2>6, <2>7 DEF Caller
  <1>2. CASE UNCHANGED vars
    <2>1. UNCHANGED <<boards, board, offers, ring, call, made, live, file, streamVars, reader>>
      BY <1>2 DEF vars, boardVars, seamVars
    <2>2. TypeOK'
      BY <2>1 DEF BInv, TypeOK, streamVars
    <2> QED BY <2>1, <2>2 DEF BInv, CallInv, EntryInv, ListInv, FetchInv, Inside, Installing
  <1> QED BY <1>1, <1>2, StreamBInv, ReadBInv DEF Next

THEOREM AlwaysBInv == Spec => []BInv
  <1> QED BY InitBInv, StepBInv, PTL DEF Spec

\* Type correctness of the board, its calls, streamers and consumers.
THEOREM BoardTyped == Spec => []TypeOK
  <1>1. BInv => TypeOK
    BY DEF BInv
  <1> QED BY <1>1, AlwaysBInv, PTL

\* For any number of callers and files, a listed file is served at every moment
\* of a replacement.
THEOREM AlwaysListedIsServed == Spec => []ListedIsServed
  <1>1. BInv => ListedIsServed
    <2> SUFFICES ASSUME BInv, board # 0, NEW f \in Files, ring[1].list[f] # 0
                 PROVE  Serves(f) \/ Removing(f)
      BY DEF ListedIsServed
    <2>1. offers[f] # 0 => Serves(f)
      BY DEF BInv, EntryInv, Serves
    <2>2. CASE ring[1].list[f] = offers[f]
      BY <2>1, <2>2
    <2>3. CASE ring[1].list[f] # offers[f]
      <3>1. PICK c \in Callers : call[c].pc = "rebuild" /\ call[c].file = f
        BY <2>3 DEF BInv, ListInv
      <3>2. CASE call[c].op = "remove"
        BY <3>1, <3>2 DEF Removing
      <3>3. CASE call[c].op # "remove"
        BY <2>1, <3>1, <3>3 DEF BInv, ListInv
      <3> QED BY <3>2, <3>3
    <2> QED BY <2>2, <2>3
  <1> QED BY <1>1, AlwaysBInv, PTL

\* Between calls the newest manifest, the entries and the handlers agree.
THEOREM AlwaysBoardConsistent == Spec => []BoardConsistent
  <1>1. BInv => BoardConsistent
    <2> SUFFICES ASSUME BInv, LockFree, board # 0
                 PROVE  /\ ring[1].list = offers
                        /\ live = {offers[f] : f \in Files} \ {0}
                        /\ \A f \in Files : offers[f] # 0 => file[offers[f]] = f
      BY DEF BoardConsistent
    <2>1. \A c \in Callers : call[c].pc \notin {"insert", "rebuild"}
      BY DEF LockFree, Inside
    <2>2. \A f \in Files : ring[1].list[f] = offers[f]
      BY <2>1 DEF BInv, ListInv
    <2>3. offers \in Lists /\ ring[1].list \in Lists
      <3>1. ring \in Seq([ver: Nat, list: Lists]) /\ 1 \in 1 .. Len(ring)
        BY DEF BInv, TypeOK, ListInv
      <3>2. ring[1] \in [ver: Nat, list: Lists]
        BY <3>1, ElementOf
      <3> QED BY <3>2 DEF BInv, TypeOK
    <2>4. ring[1].list = offers
      <3>1. ASSUME NEW k \in Lists, NEW l \in Lists, \A f \in Files : k[f] = l[f]
            PROVE  k = l
        BY <3>1 DEF Lists
      <3> DEFINE l == ring[1].list
      <3>2. l \in Lists /\ offers \in Lists /\ \A f \in Files : l[f] = offers[f]
        BY <2>2, <2>3
      <3> HIDE DEF l
      <3>3. l = offers
        BY <3>1, <3>2
      <3> QED BY <3>3 DEF l
    <2>5. \A n \in live : n # 0 /\ \E f \in Files : offers[f] = n
      <3>1. 0 \notin live
        BY DEF BInv, TypeOK
      <3> QED BY <2>1, <3>1 DEF BInv, EntryInv
    <2>6. \A f \in Files : offers[f] # 0 => offers[f] \in live /\ file[offers[f]] = f
      BY DEF BInv, EntryInv
    <2> QED BY <2>4, <2>5, <2>6
  <1> QED BY <1>1, AlwaysBInv, PTL

\* Whatever the length of the history, a fetch is answered while fewer than
\* that many versions came after its own.
THEOREM AlwaysFetchSurvives == Spec => []FetchSurvives
  <1>1. BInv => FetchSurvives
    <2> SUFFICES ASSUME BInv, NEW r \in Readers, reader[r].board # 0,
                        reader[r].board = board, reader[r].age < History
                 PROVE  \E i \in 1 .. Len(ring) :
                           ring[i] = [ver |-> reader[r].ver, list |-> reader[r].list]
      BY DEF FetchSurvives
    <2>1. reader[r].age \in Nat /\ Len(ring) \in Nat
      BY DEF BInv, TypeOK, Reader
    <2>2. /\ reader[r].age + 1 <= Len(ring)
          /\ ring[reader[r].age + 1] = [ver |-> reader[r].ver, list |-> reader[r].list]
      BY DEF BInv, FetchInv
    <2> QED BY <2>1, <2>2
  <1> QED BY <1>1, AlwaysBInv, PTL

\* No streamer publishes more than its subscriptions asked for.
THEOREM AlwaysSentWithinCredit == Spec => []SentWithinCredit
  <1>1. Init => SentWithinCredit
    BY DEF Init, SentWithinCredit
  <1>2. TypeOK /\ SentWithinCredit /\ [Next]_vars => SentWithinCredit'
    <2> SUFFICES ASSUME TypeOK, SentWithinCredit, [Next]_vars PROVE SentWithinCredit'
      OBVIOUS
    <2>1. budget \in [Reg -> Nat] /\ sent \in [Reg -> Nat] /\ granted \in [Reg -> Nat]
      BY DEF TypeOK
    <2>2. ASSUME NEW n \in Reg, Grant(n) PROVE SentWithinCredit'
      BY <2>1, <2>2, StreamAssumption DEF Grant, SentWithinCredit
    <2>3. ASSUME NEW n \in Reg, Send(n) PROVE SentWithinCredit'
      <3>1. budget' = [budget EXCEPT ![n] = budget[n] - 1] /\ budget[n] > 0 /\ granted' = granted
        BY <2>3 DEF Send, PermitForgotten
      <3>2. sent' = [sent EXCEPT ![n] = sent[n] + 1] \/ sent' = sent
        BY <2>3 DEF Send
      <3> SUFFICES ASSUME NEW m \in Reg PROVE sent'[m] + budget'[m] <= granted'[m]
        BY DEF SentWithinCredit
      <3>3. sent[m] + budget[m] <= granted[m]
        BY DEF SentWithinCredit
      <3>4. sent[m] \in Nat /\ budget[m] \in Nat /\ granted[m] \in Nat
        BY <2>1
      <3>5. budget'[m] = IF m = n THEN budget[m] - 1 ELSE budget[m]
        BY <2>1, <3>1
      <3>6. sent'[m] = sent[m] \/ (m = n /\ sent'[m] = sent[m] + 1)
        BY <2>1, <3>2
      <3> QED BY <3>1, <3>3, <3>4, <3>5, <3>6
    <2>4. CASE UNCHANGED <<budget, sent, granted>>
      BY <2>4 DEF SentWithinCredit
    <2>5. ASSUME NEW c \in Callers, Caller(c) PROVE UNCHANGED <<budget, sent, granted>>
      BY <2>5 DEF Caller, Start, Install, Lock, Register, Insert, Drop, Rebuild, Enter, streamVars
    <2>6. ASSUME NEW r \in Readers, AskManifest(r) \/ EndFetch(r)
          PROVE  UNCHANGED <<budget, sent, granted>>
      BY <2>6 DEF AskManifest, EndFetch, streamVars
    <2>7. CASE UNCHANGED vars
      BY <2>4, <2>7 DEF vars, streamVars
    <2> QED BY <2>2, <2>3, <2>4, <2>5, <2>6, <2>7 DEF Next
  <1> QED BY <1>1, <1>2, BoardTyped, PTL DEF Spec

=============================================================================
