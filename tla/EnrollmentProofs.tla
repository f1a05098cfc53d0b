-------------------------- MODULE EnrollmentProofs --------------------------
(***************************************************************************)
(* Enrollment for any number of callers, keys, loads and restarts: what is  *)
(* loaded or kept is certified, the person is asked only while the request  *)
(* is open, and the calls implement IdentityCore.                           *)
(***************************************************************************)
EXTENDS Enrollment, FiniteSetTheorems, FunctionTheorems, TLAPS

----------------------------------------------------------------------------
(* The inductive invariant                                                 *)

Verdicts == {"pending", "complete", "error", "none"}

\* What may be on its way in each round.
RoundInv == \A w \in Callers:
    /\ pc[w] = "new" => wire[w] \in {"NEW", "opened", "none"}
    /\ pc[w] = "trigger" => wire[w] \in Verdicts \cup {"TRIGGER"}
    /\ pc[w] = "submit" => wire[w] \in Verdicts \cup {"CODE"}
    /\ pc[w] = "token" => wire[w] \in Verdicts \cup {"TOKEN"}
    /\ pc[w] = "cert" => wire[w] \in {"CERT", "cert", "none"}
    /\ pc[w] \notin Waiting \cup {"cert"} => wire[w] = "none"

\* Callers enroll different keys, and the authority has granted a request from
\* the moment it says so, not before.
GrantInv ==
    /\ issued \subseteq 1 .. born
    /\ \A w \in Callers:
          /\ pc[w] \in Exchange => key[w] \in 1 .. born /\ how[w] \in Enrolls
          /\ wire[w] = "complete" \/ pc[w] = "cert" => key[w] \in issued
          /\ \/ pc[w] \in {"sign_new", "new", "prompt"}
             \/ pc[w] = "trigger" /\ wire[w] \in {"TRIGGER", "pending"}
             => key[w] \notin issued
    /\ \A u, w \in Callers:
          pc[u] \in Exchange /\ pc[w] \in Exchange /\ u # w => key[u] # key[w]

\* A call past its install stands at an entry of its own kind, and only one that
\* could be bagged gets past the stores.
CallInv == \A w \in Callers:
    /\ pc[w] \in {"made", "half", "refused", "returned"} =>
           /\ at[w] \in 1 .. Len(made)
           /\ made[at[w]].how = how[w] /\ keys[at[w]] = key[w]
    /\ pc[w] = "refused" => BagFails(w)
    /\ pc[w] = "half" => StoresCert(w) /\ ~BagFails(w)
    /\ pc[w] = "returned" => ~BagFails(w)

HistoryInv ==
    /\ \A i \in 1 .. Len(made):
          /\ Certified(keys[i]) /\ keys[i] \in 1 .. born
          /\ made[i].cert \/ made[i].how \in Enrolls
    /\ ownSigned \subseteq 1 .. born
    /\ disk.key # 0 => Certified(disk.key)
    /\ disk.form = "bag" => disk.cert

\* Installs that are not loads have keys of their own.
Own   == {i \in 1 .. Len(made): made[i].how \notin Loads}
Loaded == {i \in 1 .. Len(made): made[i].how \in Loads}
CountInv ==
    /\ \A i, j \in Own: i # j => keys[i] # keys[j]
    /\ \A i \in Own, w \in Callers: pc[w] \in Exchange => keys[i] # key[w]
    /\ Cardinality(Loaded) <= MaxLoads

IInv == TypeOK /\ RoundInv /\ GrantInv /\ CallInv /\ HistoryInv /\ CountInv

----------------------------------------------------------------------------
(* Steps by what they touch                                                *)

\* Where an enrollment starts, and what it sends then.
FirstOf(h)   == IF h = "token_enclave" THEN "sign_new" ELSE "new"
FirstSent(h) == IF h = "token_enclave" THEN "none" ELSE "NEW"

\* The steps of an exchange that only move a caller and its messages.
Turn(w) ==
    \/ Opened(w) \/ Triggered(w) \/ Answer(w) \/ Confirm(w) \/ Dismiss(w)
    \/ Judged(w) \/ Fail(w) \/ Return(w)

LEMMA NextCases ==
    ASSUME [Next]_vars
    PROVE  \/ \E w \in Callers, h \in Enrolls: Begin(w, h)
           \/ \E w \in Callers: Turn(w)
           \/ \E w \in Callers: World(w)
           \/ \E w \in Callers: CertDone(w) \/ Generate(w) \/ Load(w)
           \/ \E w \in Callers: Refuse(w) \/ StoreCert(w) \/ StoreIdentity(w)
           \/ \E w \in Callers: Persist(w)
           \/ Crash
           \/ UNCHANGED vars
<1>1. ASSUME NEW w \in Callers, Call(w)
      PROVE  (\E h \in Enrolls: Begin(w, h)) \/ Generate(w) \/ Load(w)
  BY <1>1 DEF Call, BeginPin, BeginToken, BeginEnclave, Enrolls
<1>2. ASSUME NEW w \in Callers, Proceed(w)
      PROVE  Turn(w) \/ CertDone(w) \/ Refuse(w) \/ StoreCert(w) \/ StoreIdentity(w)
  BY <1>2 DEF Proceed, Turn
<1>3. ASSUME NEW w \in Callers, Person(w) PROVE Turn(w)
  BY <1>3 DEF Person, Turn
<1>. QED
  BY <1>1, <1>2, <1>3 DEF Next

\* What an exchange's turn does to the caller.
LEMMA TurnFrame ==
    ASSUME NEW w \in Callers, Turn(w), TypeOK
    PROVE  /\ UNCHANGED <<how, key, at, cells, history, born, issued, ownSigned, disk, crashes>>
           /\ \E p \in Pc, m \in Message:
                 /\ pc' = [pc EXCEPT ![w] = p] /\ p \in Exchange \cup {"failed", "idle"}
                 /\ p \in Exchange => pc[w] \in Exchange
                 /\ pc[w] \in Exchange \cup {"failed", "refused"}
                 /\ wire' = [wire EXCEPT ![w] = m]
<1>1. CASE Return(w)
  <2>1. wire' = [wire EXCEPT ![w] = wire[w]] /\ wire[w] \in Message
    BY <1>1 DEF Return, TypeOK
  <2>. QED
    BY <1>1, <2>1 DEF Return, Goto, Exchange, Waiting, Signing, Pc, cells, history
<1>2. CASE Opened(w)
  BY <1>2 DEF Opened, Sends, Goto, Put, Exchange, Waiting, Signing, Pc, Message
<1>3. CASE Triggered(w)
  BY <1>3 DEF Triggered, Goto, Put, Exchange, Waiting, Signing, Pc, Message
<1>4. CASE Answer(w) \/ Confirm(w) \/ Dismiss(w) \/ Fail(w)
  BY <1>4 DEF Answer, Confirm, Dismiss, Fail, Goto, Put, Exchange, Waiting, Signing, Pc, Message
<1>5. CASE Judged(w)
  BY <1>5 DEF Judged, Goto, Put, Exchange, Waiting, Signing, Pc, Message
<1>. QED
  BY <1>1, <1>2, <1>3, <1>4, <1>5 DEF Turn

LEMMA WorldFrame ==
    ASSUME NEW w \in Callers, World(w), TypeOK
    PROVE  /\ UNCHANGED <<process, born, ownSigned, disk, crashes>>
           /\ issued \subseteq issued'
           /\ \E m \in Message: wire' = [wire EXCEPT ![w] = m]
           /\ issued' = issued \/ (issued' = issued \cup {key[w]} /\ wire[w] # "none")
  BY DEF World, AuthorityOpens, AuthorityJudges, RepoServes, Lose, Says, Certifies,
         Elsewhere, Put, Message

----------------------------------------------------------------------------
(* Types                                                                   *)

LEMMA TypeInit == Init => TypeOK
<1> SUFFICES ASSUME Init PROVE TypeOK
  OBVIOUS
<1>1. /\ pc \in [Callers -> Pc] /\ how \in [Callers -> Hows]
      /\ wire \in [Callers -> Message]
  BY DEF Init, Started, Pc, Hows, Loads, Message
<1>2. /\ made = <<>> /\ keys = <<>> /\ Len(made) = 0 /\ Len(keys) = 0
      /\ made \in Seq(Entry) /\ keys \in Seq(Key)
  BY DEF Init, Started
<1>3. /\ key \in [Callers -> 0 .. MaxKeys] /\ at \in [Callers -> 0 .. Len(made)]
      /\ born \in 0 .. MaxKeys /\ crashes \in 0 .. MaxCrashes
  BY <1>2, BoundsAssumption DEF Init, Started
<1>4. disk \in [key: 0 .. MaxKeys, form: {"none", "bag", "enclave"}, cert: BOOLEAN]
  BY BoundsAssumption DEF Init, NoDisk
<1>. QED
  BY <1>1, <1>2, <1>3, <1>4 DEF Init, Started, TypeOK

\* An install: the history grows by one entry.
LEMMA Installed ==
    ASSUME TypeOK, NEW w \in Callers, NEW h \in Hows, NEW k \in Key, NEW c \in BOOLEAN,
           Install(w, h, k, c)
    PROVE  /\ made' \in Seq(Entry) /\ keys' \in Seq(Key)
           /\ Len(made') = Len(made) + 1 /\ Len(keys') = Len(made')
           /\ made'[Len(made')] = [how |-> h, cert |-> c] /\ keys'[Len(made')] = k
           /\ \A i \in 1 .. Len(made): made'[i] = made[i] /\ keys'[i] = keys[i]
           /\ at' \in [Callers -> 0 .. Len(made')]
           /\ at'[w] = Len(made') /\ \A u \in Callers \ {w}: at'[u] = at[u]
           /\ pc' \in [Callers -> Pc]
           /\ pc'[w] = "made" /\ \A u \in Callers \ {w}: pc'[u] = pc[u]
           /\ UNCHANGED <<identity, certWire, issued, disk, crashes>>
<1>1. [how |-> h, cert |-> c] \in Entry
  BY DEF Entry
<1>2. made \in Seq(Entry) /\ keys \in Seq(Key) /\ Len(keys) = Len(made) /\ Len(made) \in Nat
  BY DEF TypeOK
<1>3. made' = Append(made, [how |-> h, cert |-> c]) /\ keys' = Append(keys, k)
  BY DEF Install
<1>4. /\ made' \in Seq(Entry) /\ keys' \in Seq(Key)
      /\ Len(made') = Len(made) + 1 /\ Len(keys') = Len(made')
      /\ made'[Len(made')] = [how |-> h, cert |-> c] /\ keys'[Len(made')] = k
      /\ \A i \in 1 .. Len(made): made'[i] = made[i] /\ keys'[i] = keys[i]
  BY <1>1, <1>2, <1>3
<1>5. /\ at' \in [Callers -> 0 .. Len(made')]
      /\ at'[w] = Len(made') /\ \A u \in Callers \ {w}: at'[u] = at[u]
  BY <1>2, <1>4 DEF Install, TypeOK
<1>6. /\ pc' \in [Callers -> Pc]
      /\ pc'[w] = "made" /\ \A u \in Callers \ {w}: pc'[u] = pc[u]
  BY DEF Install, Goto, TypeOK, Pc
<1>. QED
  BY <1>4, <1>5, <1>6 DEF Install, cells

\* Each of the three ways to install, as an install.
LEMMA InstallCases ==
    ASSUME TypeOK, RoundInv, GrantInv, HistoryInv, NEW w \in Callers,
           CertDone(w) \/ Generate(w) \/ Load(w)
    PROVE  \E h \in Hows, k \in Key, c \in BOOLEAN:
              /\ Install(w, h, k, c)
              /\ how' = [how EXCEPT ![w] = h] /\ key' = [key EXCEPT ![w] = k]
              /\ wire' = [wire EXCEPT ![w] = "none"]
              /\ born \in 0 .. MaxKeys /\ born' \in 0 .. MaxKeys /\ born <= born'
              /\ k \in 1 .. born' /\ (c \/ h \in Enrolls)
              /\ ownSigned \subseteq ownSigned' /\ ownSigned' \subseteq ownSigned \cup {born'}
              /\ ownSigned' # ownSigned => born' = born + 1
              /\ k \in issued \cup ownSigned'
              /\ \/ /\ h \in Enrolls /\ pc[w] = "cert" /\ k = key[w] /\ born' = born
                 \/ /\ h = "generate" /\ pc[w] = "idle" /\ k = born + 1
                 \/ /\ h \in Loads /\ pc[w] = "idle" /\ Cardinality(Loaded) < MaxLoads
                    /\ born' = born
<1>0. /\ born \in 0 .. MaxKeys /\ MaxKeys \in Nat /\ Key = 1 .. MaxKeys
      /\ issued \subseteq 1 .. born /\ ownSigned \subseteq 1 .. born
  BY BoundsAssumption DEF TypeOK, Key, GrantInv, HistoryInv
<1>1. CASE CertDone(w)
  <2>1. /\ how[w] \in Enrolls /\ key[w] \in 1 .. born /\ key[w] \in issued /\ pc[w] = "cert"
    BY <1>1 DEF CertDone, GrantInv, Exchange
  <2>2. /\ how' = [how EXCEPT ![w] = how[w]] /\ key' = [key EXCEPT ![w] = key[w]]
        /\ wire' = [wire EXCEPT ![w] = "none"] /\ born' = born /\ ownSigned' = ownSigned
    BY <1>1 DEF CertDone, Put, TypeOK
  <2> DEFINE c == wire[w] = "cert"
  <2>3. Install(w, how[w], key[w], c)
    BY <1>1 DEF CertDone
  <2>4. how[w] \in Hows /\ key[w] \in Key /\ c \in BOOLEAN
    BY <1>0, <2>1 DEF Hows
  <2>5. /\ born \in 0 .. MaxKeys /\ born' \in 0 .. MaxKeys /\ born <= born'
        /\ key[w] \in 1 .. born' /\ key[w] \in issued \cup ownSigned'
        /\ ownSigned \subseteq ownSigned' /\ ownSigned' \subseteq ownSigned \cup {born'}
        /\ ~(ownSigned' # ownSigned)
    BY <1>0, <2>1, <2>2
  <2> HIDE DEF c
  <2>. QED
    BY <2>1, <2>2, <2>3, <2>4, <2>5
<1>2. CASE Generate(w)
  <2>1. /\ pc[w] = "idle" /\ born < MaxKeys /\ born' = born + 1
        /\ how' = [how EXCEPT ![w] = "generate"] /\ key' = [key EXCEPT ![w] = born + 1]
        /\ ownSigned' = ownSigned \cup {born + 1}
        /\ Install(w, "generate", born + 1, TRUE) /\ wire' = wire
    BY <1>2 DEF Generate, Generates
  <2>2. wire' = [wire EXCEPT ![w] = "none"]
    <3>1. wire[w] = "none"
      BY <2>1 DEF RoundInv, Waiting
    <3>. QED
      BY <2>1, <3>1 DEF TypeOK
  <2>3. /\ "generate" \in Hows /\ born + 1 \in Key /\ born' \in 0 .. MaxKeys
        /\ born + 1 \in 1 .. born' /\ born <= born'
    BY <1>0, <2>1 DEF Hows
  <2>4. /\ ownSigned \subseteq ownSigned' /\ ownSigned' \subseteq ownSigned \cup {born'}
        /\ born + 1 \in issued \cup ownSigned'
    BY <2>1
  <2>. QED
    BY <1>0, <2>1, <2>2, <2>3, <2>4
<1>3. CASE Load(w)
  <2> DEFINE h == IF disk.form = "bag" THEN "load" ELSE "load_enclave"
             c == h = "load" => disk.cert
  <2>1. /\ pc[w] = "idle" /\ disk.key # 0 /\ Cardinality(Loaded) < MaxLoads
        /\ how' = [how EXCEPT ![w] = h] /\ key' = [key EXCEPT ![w] = disk.key]
        /\ Install(w, h, disk.key, c)
        /\ wire' = wire /\ born' = born /\ ownSigned' = ownSigned
    BY <1>3 DEF Load, Loaded
  <2>2. wire' = [wire EXCEPT ![w] = "none"]
    <3>1. wire[w] = "none"
      BY <2>1 DEF RoundInv, Waiting
    <3>. QED
      BY <2>1, <3>1 DEF TypeOK
  <2>3. Certified(disk.key) /\ c /\ c \in BOOLEAN /\ h \in Loads /\ h \in Hows
    BY <2>1 DEF HistoryInv, TypeOK, Loads, Hows
  <2> HIDE DEF h, c
  <2>4. disk.key \in 1 .. born /\ disk.key \in Key /\ disk.key \in issued \cup ownSigned'
    <3>1. disk.key \in issued \cup ownSigned
      BY <2>3 DEF Certified
    <3>2. disk.key \in 1 .. born
      BY <1>0, <3>1
    <3>3. 1 .. born \subseteq Key
      BY <1>0
    <3>. QED
      BY <2>1, <3>1, <3>2, <3>3
  <2>5. /\ born \in 0 .. MaxKeys /\ born' \in 0 .. MaxKeys /\ born <= born'
        /\ disk.key \in 1 .. born' /\ ownSigned \subseteq ownSigned'
        /\ ownSigned' \subseteq ownSigned \cup {born'}
    BY <1>0, <2>1, <2>4
  <2>. QED
    BY <2>1, <2>2, <2>3, <2>4, <2>5
<1>. QED
  BY <1>1, <1>2, <1>3

\* The store of a cell and the host's copy stay within the history.
LEMMA TypeStep ==
    ASSUME TypeOK, RoundInv, GrantInv, CallInv, HistoryInv, [Next]_vars PROVE TypeOK'
<1>0. /\ pc \in [Callers -> Pc] /\ how \in [Callers -> Hows]
      /\ key \in [Callers -> 0 .. MaxKeys] /\ at \in [Callers -> 0 .. Len(made)]
      /\ wire \in [Callers -> Message] /\ born \in 0 .. MaxKeys
      /\ issued \subseteq Key /\ MaxKeys \in Nat /\ Len(made) \in Nat
  BY BoundsAssumption DEF TypeOK
<1>1. ASSUME NEW w \in Callers, NEW h \in Enrolls, Begin(w, h) PROVE TypeOK'
  <2>1. /\ pc' = [pc EXCEPT ![w] = FirstOf(h)] /\ wire' = [wire EXCEPT ![w] = FirstSent(h)]
        /\ how' = [how EXCEPT ![w] = h] /\ key' = [key EXCEPT ![w] = born + 1]
        /\ born' = born + 1 /\ born < MaxKeys
        /\ UNCHANGED <<at, identity, certWire, made, keys, issued, ownSigned, disk, crashes>>
    BY <1>1 DEF Begin, Generates, Sends, FirstOf, FirstSent, Goto, Put, cells, history
  <2>2. /\ FirstOf(h) \in Pc /\ FirstSent(h) \in Message /\ h \in Hows
        /\ born + 1 \in 0 .. MaxKeys /\ born' \in 0 .. MaxKeys
    BY <1>0, <2>1 DEF FirstOf, FirstSent, Pc, Exchange, Waiting, Signing, Message, Hows
  <2>3. /\ pc' \in [Callers -> Pc] /\ how' \in [Callers -> Hows]
        /\ key' \in [Callers -> 0 .. MaxKeys] /\ wire' \in [Callers -> Message]
    BY <1>0, <2>1, <2>2
  <2>. QED
    BY <2>1, <2>2, <2>3 DEF TypeOK
<1>2. ASSUME NEW w \in Callers, Turn(w) PROVE TypeOK'
  <2>1. pc' \in [Callers -> Pc] /\ wire' \in [Callers -> Message]
    BY <1>0, <1>2, TurnFrame
  <2>2. UNCHANGED <<how, key, at, cells, history, born, issued, ownSigned, disk, crashes>>
    BY <1>2, TurnFrame
  <2>. QED
    BY <2>1, <2>2 DEF TypeOK, cells, history
<1>3. ASSUME NEW w \in Callers, World(w) PROVE TypeOK'
  <2>1. wire' \in [Callers -> Message] /\ UNCHANGED <<process, born, ownSigned, disk, crashes>>
    BY <1>0, <1>3, WorldFrame
  <2>2. issued' \subseteq Key
    <3>1. CASE issued' = issued
      BY <1>0, <3>1
    <3>2. CASE issued' = issued \cup {key[w]} /\ wire[w] # "none"
      <4>1. pc[w] \in Exchange
        BY <3>2 DEF RoundInv, Exchange
      <4>2. key[w] \in 1 .. born
        BY <4>1 DEF GrantInv
      <4>3. key[w] \in Key
        BY <1>0, <4>2 DEF Key
      <4>. QED
        BY <1>0, <3>2, <4>3
    <3>. QED
      BY <1>3, <3>1, <3>2, WorldFrame
  <2>. QED
    BY <2>1, <2>2 DEF TypeOK, process
<1>4. ASSUME NEW w \in Callers, CertDone(w) \/ Generate(w) \/ Load(w) PROVE TypeOK'
  <2>1. PICK h \in Hows, k \in Key, c \in BOOLEAN:
           /\ Install(w, h, k, c)
           /\ how' = [how EXCEPT ![w] = h] /\ key' = [key EXCEPT ![w] = k]
           /\ wire' = [wire EXCEPT ![w] = "none"]
           /\ born' \in 0 .. MaxKeys /\ ownSigned' \subseteq ownSigned \cup {born'}
           /\ ownSigned' # ownSigned => born' = born + 1
    BY <1>4, InstallCases
  <2>2. /\ made' \in Seq(Entry) /\ keys' \in Seq(Key) /\ Len(keys') = Len(made')
        /\ Len(made') = Len(made) + 1
        /\ at' \in [Callers -> 0 .. Len(made')] /\ pc' \in [Callers -> Pc]
        /\ UNCHANGED <<identity, certWire, issued, disk, crashes>>
    BY <2>1, Installed
  <2>3. /\ how' \in [Callers -> Hows] /\ key' \in [Callers -> 0 .. MaxKeys]
        /\ wire' \in [Callers -> Message]
    BY <1>0, <2>1 DEF Key, Message
  <2>4. ownSigned' \subseteq Key
    <3>1. ownSigned' # ownSigned => born' \in Key
      BY <1>0, <2>1 DEF Key
    <3>. QED
      BY <2>1, <3>1 DEF TypeOK
  <2>5. identity' \in 0 .. Len(made') /\ certWire' \in 0 .. Len(made')
    BY <1>0, <2>2 DEF TypeOK
  <2>. QED
    BY <2>1, <2>2, <2>3, <2>4, <2>5 DEF TypeOK
<1>5. ASSUME NEW w \in Callers, Refuse(w) \/ StoreCert(w) \/ StoreIdentity(w) PROVE TypeOK'
  <2>1. /\ UNCHANGED <<how, key, wire, at, history, born, issued, ownSigned, disk, crashes>>
        /\ identity' \in {identity, at[w]} /\ certWire' \in {certWire, at[w], 0}
        /\ \E p \in Pc: pc' = [pc EXCEPT ![w] = p]
    BY <1>5 DEF Refuse, StoreCert, StoreIdentity, Goto, Pc, cells
  <2>2. identity' \in 0 .. Len(made) /\ certWire' \in 0 .. Len(made)
    BY <1>0, <2>1 DEF TypeOK
  <2>3. pc' \in [Callers -> Pc]
    BY <1>0, <2>1
  <2>. QED
    BY <2>1, <2>2, <2>3 DEF TypeOK, history
<1>6. ASSUME NEW w \in Callers, Persist(w) PROVE TypeOK'
  <2>1. /\ UNCHANGED <<how, key, wire, at, cells, history, born, issued, ownSigned, crashes>>
        /\ pc' = [pc EXCEPT ![w] = "idle"]
    BY <1>6 DEF Persist, Goto
  <2>2. made[at[w]].cert \in BOOLEAN
    <3>1. at[w] \in 1 .. Len(made) /\ made \in Seq(Entry)
      BY <1>6 DEF Persist, CallInv, TypeOK
    <3>2. made[at[w]] \in Entry
      BY <3>1
    <3>. QED
      BY <3>2 DEF Entry
  <2>3. disk' \in [key: 0 .. MaxKeys, form: {"none", "bag", "enclave"}, cert: BOOLEAN]
    BY <1>0, <1>6, <2>2 DEF Persist, TypeOK
  <2>4. pc' \in [Callers -> Pc]
    BY <1>0, <2>1 DEF Pc
  <2>. QED
    BY <2>1, <2>3, <2>4 DEF TypeOK, cells, history
<1>7. CASE Crash
  <2>1. /\ pc' \in [Callers -> Pc] /\ how' \in [Callers -> Hows]
        /\ wire' \in [Callers -> Message]
    BY <1>7 DEF Crash, Pc, Hows, Loads, Message
  <2>2. made' = <<>> /\ keys' = <<>> /\ Len(made') = 0 /\ made' \in Seq(Entry) /\ keys' \in Seq(Key)
    BY <1>7 DEF Crash
  <2>3. key' \in [Callers -> 0 .. MaxKeys] /\ at' \in [Callers -> 0 .. Len(made')]
    BY <1>0, <1>7, <2>2 DEF Crash
  <2>4. /\ crashes' \in 0 .. MaxCrashes /\ identity' = 0 /\ certWire' = 0
        /\ UNCHANGED <<born, issued, ownSigned, disk>>
    BY <1>7, BoundsAssumption DEF Crash, TypeOK
  <2>. QED
    BY <2>1, <2>2, <2>3, <2>4 DEF TypeOK
<1>8. CASE UNCHANGED vars
  BY <1>8 DEF TypeOK, vars, cells, history
<1>. QED
  BY <1>1, <1>2, <1>3, <1>4, <1>5, <1>6, <1>7, <1>8, NextCases

----------------------------------------------------------------------------
(* Rounds and grants                                                       *)

\* RoundInv for one caller.
RoundOf(w, p, m) ==
    /\ p = "new" => m \in {"NEW", "opened", "none"}
    /\ p = "trigger" => m \in Verdicts \cup {"TRIGGER"}
    /\ p = "submit" => m \in Verdicts \cup {"CODE"}
    /\ p = "token" => m \in Verdicts \cup {"TOKEN"}
    /\ p = "cert" => m \in {"CERT", "cert", "none"}
    /\ p \notin Waiting \cup {"cert"} => m = "none"

LEMMA RoundForm == RoundInv <=> \A w \in Callers: RoundOf(w, pc[w], wire[w])
  BY DEF RoundInv, RoundOf

\* Only the caller w has moved.
LEMMA RoundOthers ==
    ASSUME TypeOK, RoundInv, NEW w \in Callers, NEW p \in Pc, NEW m \in Message,
           pc' = [pc EXCEPT ![w] = p], wire' = [wire EXCEPT ![w] = m], RoundOf(w, p, m)
    PROVE  RoundInv'
<1>1. ASSUME NEW u \in Callers PROVE RoundOf(u, pc'[u], wire'[u])
  <2>1. CASE u = w
    BY <2>1 DEF TypeOK
  <2>2. CASE u # w
    <3>1. pc'[u] = pc[u] /\ wire'[u] = wire[u]
      BY <2>2 DEF TypeOK
    <3>. QED
      BY <3>1, RoundForm
  <2>. QED
    BY <2>1, <2>2
<1>. QED
  BY <1>1 DEF RoundInv, RoundOf

LEMMA RoundStep ==
    ASSUME TypeOK, RoundInv, GrantInv, HistoryInv, [Next]_vars PROVE RoundInv'
<1>0. /\ pc \in [Callers -> Pc] /\ wire \in [Callers -> Message]
  BY DEF TypeOK
<1> USE DEF Waiting, Signing, Exchange
<1>1. ASSUME NEW w \in Callers, NEW h \in Enrolls, Begin(w, h) PROVE RoundInv'
  <2>1. pc' = [pc EXCEPT ![w] = FirstOf(h)] /\ wire' = [wire EXCEPT ![w] = FirstSent(h)]
    BY <1>1 DEF Begin, Sends, FirstOf, FirstSent, Goto, Put
  <2>2. /\ RoundOf(w, FirstOf(h), FirstSent(h))
        /\ FirstOf(h) \in Pc /\ FirstSent(h) \in Message
    BY DEF FirstOf, FirstSent, RoundOf, Pc, Message
  <2>. QED
    BY <2>1, <2>2, RoundOthers
<1>2. ASSUME NEW w \in Callers, Turn(w) PROVE RoundInv'
  <2>1. CASE Return(w)
    <3>1. pc' = [pc EXCEPT ![w] = "idle"] /\ wire' = [wire EXCEPT ![w] = wire[w]]
      BY <1>0, <2>1 DEF Return, Goto
    <3>2. wire[w] = "none" /\ RoundOf(w, "idle", wire[w]) /\ wire[w] \in Message /\ "idle" \in Pc
      BY <1>0, <2>1 DEF Return, RoundInv, RoundOf, Pc, Message
    <3>. QED
      BY <3>1, <3>2, RoundOthers
  <2>2. ASSUME NEW p \in Pc, NEW m \in Message, pc' = [pc EXCEPT ![w] = p],
               wire' = [wire EXCEPT ![w] = m], <<p, m>> \in
                   {<<"new", "NEW">>, <<"sign_token", "none">>,
                    <<"trigger", "TRIGGER">>, <<"token", "TOKEN">>, <<"cert", "CERT">>,
                    <<"prompt", "none">>, <<"submit", "CODE">>, <<"failed", "none">>}
        PROVE  RoundInv'
    <3>1. RoundOf(w, p, m)
      BY <2>2 DEF RoundOf
    <3>. QED
      BY <2>2, <3>1, RoundOthers
  <2>3. /\ {"new", "sign_token", "trigger", "token", "cert", "prompt", "submit", "failed"}
              \subseteq Pc
        /\ {"NEW", "TRIGGER", "TOKEN", "CERT", "none", "CODE"} \subseteq Message
    BY DEF Pc, Message
  <2>4. CASE Opened(w)
    BY <2>2, <2>3, <2>4 DEF Opened, Sends, Goto, Put
  <2>5. CASE Triggered(w)
    BY <2>2, <2>3, <2>5 DEF Triggered, Goto, Put
  <2>6. CASE Answer(w) \/ Confirm(w) \/ Dismiss(w) \/ Fail(w)
    BY <2>2, <2>3, <2>6 DEF Answer, Confirm, Dismiss, Fail, Goto, Put
  <2>7. CASE Judged(w)
    BY <2>2, <2>3, <2>7 DEF Judged, Goto, Put
  <2>. QED
    BY <1>2, <2>1, <2>4, <2>5, <2>6, <2>7 DEF Turn
<1>3. ASSUME NEW w \in Callers, World(w) PROVE RoundInv'
  <2>1. pc' = [pc EXCEPT ![w] = pc[w]] /\ pc[w] \in Pc
    BY <1>0, <1>3, WorldFrame DEF process
  <2>2. RoundOf(w, pc[w], wire[w])
    BY RoundForm
  <2>3. \E m \in Message: wire' = [wire EXCEPT ![w] = m] /\ RoundOf(w, pc[w], m)
    <3>1. CASE AuthorityOpens(w)
      BY <2>2, <3>1 DEF AuthorityOpens, Says, Put, RoundOf, Message, Verdicts
    <3>2. CASE AuthorityJudges(w)
      BY <2>2, <3>2 DEF AuthorityJudges, Certifies, Says, Put, RoundOf, Message, Verdicts
    <3>3. CASE RepoServes(w)
      BY <2>2, <3>3 DEF RepoServes, Says, Put, RoundOf, Message, Verdicts
    <3>4. CASE Lose(w)
      BY <2>2, <3>4 DEF Lose, Says, Put, RoundOf, Message, Verdicts
    <3>. QED
      BY <1>3, <3>1, <3>2, <3>3, <3>4 DEF World
  <2>. QED
    BY <2>1, <2>3, RoundOthers
<1>4. ASSUME NEW w \in Callers, CertDone(w) \/ Generate(w) \/ Load(w) PROVE RoundInv'
  <2>1. pc' = [pc EXCEPT ![w] = "made"] /\ wire' = [wire EXCEPT ![w] = "none"]
    BY <1>4, InstallCases DEF Install, Goto
  <2>2. RoundOf(w, "made", "none") /\ "made" \in Pc /\ "none" \in Message
    BY DEF RoundOf, Pc, Message
  <2>. QED
    BY <2>1, <2>2, RoundOthers
<1>5. ASSUME NEW w \in Callers,
             Refuse(w) \/ StoreCert(w) \/ StoreIdentity(w) \/ Persist(w)
      PROVE  RoundInv'
  <2>1. /\ wire' = [wire EXCEPT ![w] = wire[w]] /\ pc[w] \in {"made", "half", "returned"}
        /\ \E p \in Pc \ Exchange: pc' = [pc EXCEPT ![w] = p]
    BY <1>0, <1>5 DEF Refuse, StoreCert, StoreIdentity, Persist, Goto, Pc
  <2>2. wire[w] = "none" /\ wire[w] \in Message
    BY <1>0, <2>1 DEF RoundInv
  <2>3. \A p \in Pc \ Exchange: RoundOf(w, p, wire[w])
    BY <2>2 DEF RoundOf
  <2>. QED
    BY <2>1, <2>2, <2>3, RoundOthers
<1>6. CASE Crash
  BY <1>6 DEF Crash, RoundInv
<1>7. CASE UNCHANGED vars
  BY <1>7 DEF RoundInv, vars
<1>. QED
  BY <1>1, <1>2, <1>3, <1>4, <1>5, <1>6, <1>7, NextCases
\* GrantInv for one caller.
GrantOf(p, m, k, h, iss, b) ==
    /\ p \in Exchange => k \in 1 .. b /\ h \in Enrolls
    /\ m = "complete" \/ p = "cert" => k \in iss
    /\ \/ p \in {"sign_new", "new", "prompt"}
       \/ p = "trigger" /\ m \in {"TRIGGER", "pending"}
       => k \notin iss

LEMMA GrantForm ==
    GrantInv <=>
       /\ issued \subseteq 1 .. born
       /\ \A w \in Callers: GrantOf(pc[w], wire[w], key[w], how[w], issued, born)
       /\ \A u, w \in Callers:
             pc[u] \in Exchange /\ pc[w] \in Exchange /\ u # w => key[u] # key[w]
  BY DEF GrantInv, GrantOf

\* Only caller w has moved, and not to a request of its own.
LEMMA GrantOthers ==
    ASSUME TypeOK, GrantInv, NEW w \in Callers, NEW p \in Pc, NEW m \in Message,
           pc' = [pc EXCEPT ![w] = p], wire' = [wire EXCEPT ![w] = m],
           p \in Exchange => pc[w] \in Exchange,
           UNCHANGED issued, born' \in Nat, born <= born',
           \A u \in Callers \ {w}: key'[u] = key[u] /\ how'[u] = how[u],
           pc[w] \in Exchange /\ p \in Exchange => key'[w] = key[w],
           GrantOf(p, m, key'[w], how'[w], issued, born)
    PROVE  GrantInv'
<1>0. /\ pc \in [Callers -> Pc] /\ wire \in [Callers -> Message] /\ born \in Nat
      /\ 1 .. born \subseteq 1 .. born'
  BY BoundsAssumption DEF TypeOK
<1>1. ASSUME NEW u \in Callers
      PROVE  GrantOf(pc'[u], wire'[u], key'[u], how'[u], issued', born')
  <2>1. CASE u = w
    <3>1. pc'[u] = p /\ wire'[u] = m
      BY <1>0, <2>1
    <3>. QED
      BY <1>0, <2>1, <3>1 DEF GrantOf
  <2>2. CASE u # w
    <3>1. pc'[u] = pc[u] /\ wire'[u] = wire[u] /\ key'[u] = key[u] /\ how'[u] = how[u]
      BY <1>0, <2>2
    <3>2. GrantOf(pc[u], wire[u], key[u], how[u], issued, born)
      BY GrantForm
    <3>. QED
      BY <1>0, <3>1, <3>2 DEF GrantOf
  <2>. QED
    BY <2>1, <2>2
<1>2. ASSUME NEW u \in Callers, NEW v \in Callers,
             pc'[u] \in Exchange, pc'[v] \in Exchange, u # v
      PROVE  key'[u] # key'[v]
  <2>1. \A x \in {u, v}: pc[x] \in Exchange /\ key'[x] = key[x]
    BY <1>0, <1>2
  <2>. QED
    BY <1>2, <2>1 DEF GrantInv
<1>3. issued' \subseteq 1 .. born'
  BY <1>0 DEF GrantInv
<1>. QED
  BY <1>1, <1>2, <1>3 DEF GrantInv, GrantOf

LEMMA GrantStays ==
    ASSUME TypeOK, GrantInv, NEW w \in Callers, NEW p \in Pc, NEW m \in Message,
           pc' = [pc EXCEPT ![w] = p], wire' = [wire EXCEPT ![w] = m],
           p \in Exchange => pc[w] \in Exchange,
           UNCHANGED <<how, key, issued, born>>,
           GrantOf(p, m, key[w], how[w], issued, born)
    PROVE  GrantInv'
<1>1. UNCHANGED issued /\ born' \in Nat /\ born <= born'
  BY BoundsAssumption DEF TypeOK
<1>2. \A u \in Callers \ {w}: key'[u] = key[u] /\ how'[u] = how[u]
  OBVIOUS
<1>3. pc[w] \in Exchange /\ p \in Exchange => key'[w] = key[w]
  OBVIOUS
<1>4. GrantOf(p, m, key'[w], how'[w], issued, born)
  BY DEF GrantOf
<1>. QED
  BY <1>1, <1>2, <1>3, <1>4, GrantOthers

LEMMA GrantStep ==
    ASSUME TypeOK, RoundInv, GrantInv, HistoryInv, [Next]_vars PROVE GrantInv'
<1>0. /\ pc \in [Callers -> Pc] /\ wire \in [Callers -> Message] /\ born \in Nat
      /\ key \in [Callers -> 0 .. MaxKeys] /\ how \in [Callers -> Hows]
      /\ issued \subseteq 1 .. born
      /\ \A u \in Callers: GrantOf(pc[u], wire[u], key[u], how[u], issued, born)
      /\ \A u, v \in Callers: pc[u] \in Exchange /\ pc[v] \in Exchange /\ u # v => key[u] # key[v]
      /\ \A u \in Callers: RoundOf(u, pc[u], wire[u])
  BY BoundsAssumption, GrantForm, RoundForm DEF TypeOK
<1>1. ASSUME NEW w \in Callers, NEW h \in Enrolls, Begin(w, h) PROVE GrantInv'
  <2>1. /\ pc' = [pc EXCEPT ![w] = FirstOf(h)] /\ wire' = [wire EXCEPT ![w] = FirstSent(h)]
        /\ how' = [how EXCEPT ![w] = h] /\ key' = [key EXCEPT ![w] = born + 1]
        /\ born' = born + 1 /\ issued' = issued
    BY <1>1 DEF Begin, Generates, Sends, FirstOf, FirstSent, Goto, Put
  <2>2. /\ pc'[w] = FirstOf(h) /\ wire'[w] = FirstSent(h) /\ how'[w] = h /\ key'[w] = born + 1
        /\ \A u \in Callers \ {w}: /\ pc'[u] = pc[u] /\ wire'[u] = wire[u]
                                   /\ how'[u] = how[u] /\ key'[u] = key[u]
    BY <1>0, <2>1
  <2>3. 1 .. born \subseteq 1 .. born' /\ born + 1 \in 1 .. born' /\ born + 1 \notin 1 .. born
    BY <1>0, <2>1
  <2>4. ASSUME NEW u \in Callers
        PROVE  GrantOf(pc'[u], wire'[u], key'[u], how'[u], issued', born')
    <3>1. CASE u = w
      <4>1. GrantOf(FirstOf(h), FirstSent(h), born + 1, h, issued, born')
        <5>1. born + 1 \notin issued
          BY <1>0, <2>3
        <5>. QED
          BY <2>3, <5>1 DEF FirstOf, FirstSent, GrantOf
      <4>. QED
        BY <2>1, <2>2, <3>1, <4>1 DEF GrantOf
    <3>2. CASE u # w
      <4>1. GrantOf(pc[u], wire[u], key[u], how[u], issued, born)
        BY <1>0
      <4>. QED
        BY <2>1, <2>2, <2>3, <3>2, <4>1 DEF GrantOf
    <3>. QED
      BY <3>1, <3>2
  <2>5. ASSUME NEW u \in Callers, NEW v \in Callers,
               pc'[u] \in Exchange, pc'[v] \in Exchange, u # v
        PROVE  key'[u] # key'[v]
    <3>1. \A x \in Callers \ {w}: pc'[x] \in Exchange => key'[x] \in 1 .. born
      BY <1>0, <2>2 DEF GrantOf
    <3>2. CASE w \in {u, v}
      BY <2>2, <2>3, <2>5, <3>1, <3>2
    <3>3. CASE w \notin {u, v}
      <4>1. pc[u] \in Exchange /\ pc[v] \in Exchange /\ key'[u] = key[u] /\ key'[v] = key[v]
        BY <2>2, <2>5, <3>3
      <4>. QED
        BY <1>0, <2>5, <4>1
    <3>. QED
      BY <3>2, <3>3
  <2>. QED
    BY <1>0, <2>1, <2>3, <2>4, <2>5 DEF GrantInv, GrantOf
<1>2. ASSUME NEW w \in Callers, Turn(w) PROVE GrantInv'
  <2>0. /\ UNCHANGED <<how, key, issued, born>> /\ GrantOf(pc[w], wire[w], key[w], how[w], issued, born)
        /\ RoundOf(w, pc[w], wire[w]) /\ pc[w] \in Pc
    BY <1>0, <1>2, TurnFrame
  <2>1. ASSUME NEW p \in Pc, NEW m \in Message, pc' = [pc EXCEPT ![w] = p],
               wire' = [wire EXCEPT ![w] = m], p \in Exchange => pc[w] \in Exchange,
               GrantOf(p, m, key[w], how[w], issued, born)
        PROVE  GrantInv'
    BY <2>0, <2>1, GrantStays
  <2>2. CASE Return(w)
    <3>1. pc' = [pc EXCEPT ![w] = "idle"] /\ wire' = [wire EXCEPT ![w] = wire[w]] /\ wire[w] \in Message
      BY <1>0, <2>2 DEF Return, Goto
    <3>2. "idle" \notin Exchange /\ "idle" \in Pc /\ GrantOf("idle", wire[w], key[w], how[w], issued, born)
      BY <2>0, <2>2 DEF Return, Exchange, Waiting, Signing, Pc, GrantOf
    <3>. QED
      BY <2>1, <3>1, <3>2
  <2>3. ASSUME NEW p \in {"new", "sign_token", "cert", "prompt", "failed", "trigger", "token",
                          "submit"},
               NEW m \in {"NEW", "CERT", "none", "TRIGGER", "TOKEN", "CODE"},
               pc' = [pc EXCEPT ![w] = p], wire' = [wire EXCEPT ![w] = m],
               pc[w] \in Exchange, p = "cert" => wire[w] = "complete",
               p = "prompt" => pc[w] = "trigger" /\ wire[w] = "pending",
               p = "trigger" => pc[w] = "new", p = "new" => pc[w] = "sign_new"
        PROVE  GrantInv'
    <3>1. p \in Pc /\ m \in Message
      BY DEF Pc, Exchange, Waiting, Signing, Message
    <3>2. GrantOf(p, m, key[w], how[w], issued, born)
      BY <2>0, <2>3 DEF GrantOf
    <3>. QED
      BY <2>1, <2>3, <3>1, <3>2
  <2>4. CASE Opened(w)
    BY <2>3, <2>4 DEF Opened, Sends, Goto, Put, Exchange, Waiting, Signing
  <2>5. CASE Triggered(w)
    BY <2>3, <2>5 DEF Triggered, Goto, Put, Exchange, Waiting, Signing
  <2>6. CASE Answer(w) \/ Confirm(w) \/ Dismiss(w) \/ Fail(w)
    BY <2>3, <2>6 DEF Answer, Confirm, Dismiss, Fail, Goto, Put, Exchange, Waiting, Signing
  <2>7. CASE Judged(w)
    BY <2>3, <2>7 DEF Judged, Goto, Put, Exchange, Waiting, Signing
  <2>. QED
    BY <1>2, <2>2, <2>4, <2>5, <2>6, <2>7 DEF Turn
<1>3. ASSUME NEW w \in Callers, World(w) PROVE GrantInv'
  <2>0. /\ UNCHANGED <<pc, how, key, born>> /\ GrantOf(pc[w], wire[w], key[w], how[w], issued, born)
        /\ RoundOf(w, pc[w], wire[w])
    BY <1>0, <1>3, WorldFrame DEF process
  <2>1. ASSUME NEW m \in {"opened", "pending", "error", "cert", "none"},
               wire' = [wire EXCEPT ![w] = m], issued' = issued,
               m = "pending" => wire[w] \in {"TRIGGER", "CODE", "TOKEN"}
        PROVE  GrantInv'
    <3>1. m \in Message /\ pc[w] \in Pc /\ pc' = [pc EXCEPT ![w] = pc[w]]
      BY <1>0, <2>0 DEF Message
    <3>2. GrantOf(pc[w], m, key[w], how[w], issued, born)
      BY <2>0, <2>1 DEF GrantOf, RoundOf, Verdicts
    <3>. QED
      BY <2>0, <2>1, <3>1, <3>2, GrantStays
  <2>2. CASE AuthorityOpens(w)
    BY <2>1, <2>2 DEF AuthorityOpens, Says, Put
  <2>3. CASE AuthorityJudges(w)
    <3>1. CASE Certifies(w)
      <4>1. /\ issued' = issued \cup {key[w]} /\ wire' = [wire EXCEPT ![w] = "complete"]
            /\ pc[w] \in {"trigger", "submit", "token"}
        BY <2>0, <2>3, <3>1 DEF AuthorityJudges, Certifies, Put, RoundOf, Verdicts, Waiting
      <4>2. pc[w] \in Exchange /\ key[w] \in 1 .. born
        BY <2>0, <4>1 DEF GrantOf, Exchange, Waiting, Signing
      <4>3. ASSUME NEW u \in Callers
            PROVE  GrantOf(pc[u], wire'[u], key[u], how[u], issued', born)
        <5>1. CASE u = w
          BY <1>0, <2>0, <4>1, <5>1 DEF GrantOf
        <5>2. CASE u # w
          <6>1. wire'[u] = wire[u] /\ GrantOf(pc[u], wire[u], key[u], how[u], issued, born)
            BY <1>0, <4>1, <5>2
          <6>2. pc[u] \in {"sign_new", "new", "prompt", "trigger"} => key[u] # key[w]
            BY <1>0, <4>2, <5>2 DEF Exchange, Waiting, Signing
          <6>. QED
            BY <4>1, <6>1, <6>2 DEF GrantOf
        <5>. QED
          BY <5>1, <5>2
      <4>4. issued' \subseteq 1 .. born
        BY <1>0, <4>1, <4>2
      <4>. QED
        BY <1>0, <2>0, <4>3, <4>4 DEF GrantInv, GrantOf
    <3>2. CASE Says(w, "pending") \/ Says(w, "error")
      BY <2>1, <2>3, <3>2 DEF AuthorityJudges, Says, Put
    <3>. QED
      BY <2>3, <3>1, <3>2 DEF AuthorityJudges
  <2>4. CASE RepoServes(w)
    BY <2>1, <2>4 DEF RepoServes, Says, Put
  <2>5. CASE Lose(w)
    BY <2>1, <2>5 DEF Lose, Says, Put
  <2>. QED
    BY <1>3, <2>2, <2>3, <2>4, <2>5 DEF World
<1>4. ASSUME NEW w \in Callers, CertDone(w) \/ Generate(w) \/ Load(w) PROVE GrantInv'
  <2>0. PICK h \in Hows, k \in Key, c \in BOOLEAN:
           /\ Install(w, h, k, c)
           /\ how' = [how EXCEPT ![w] = h] /\ key' = [key EXCEPT ![w] = k]
           /\ wire' = [wire EXCEPT ![w] = "none"]
           /\ born' \in 0 .. MaxKeys /\ born <= born'
    BY <1>4, InstallCases
  <2>1. /\ pc' = [pc EXCEPT ![w] = "made"] /\ wire' = [wire EXCEPT ![w] = "none"]
        /\ UNCHANGED issued /\ born' \in Nat /\ born <= born'
        /\ \A u \in Callers \ {w}: key'[u] = key[u] /\ how'[u] = how[u]
    BY <1>0, <2>0, BoundsAssumption DEF Install, Goto
  <2>2. /\ "made" \in Pc /\ "none" \in Message /\ "made" \notin Exchange
        /\ GrantOf("made", "none", key'[w], how'[w], issued, born)
    BY DEF Pc, Message, Exchange, Waiting, Signing, GrantOf
  <2>3. "made" \in Exchange => pc[w] \in Exchange
    BY <2>2
  <2>4. pc[w] \in Exchange /\ "made" \in Exchange => key'[w] = key[w]
    BY <2>2
  <2>. QED
    BY <2>1, <2>2, <2>3, <2>4, GrantOthers
<1>5. ASSUME NEW w \in Callers,
             Refuse(w) \/ StoreCert(w) \/ StoreIdentity(w) \/ Persist(w)
      PROVE  GrantInv'
  <2>1. PICK p \in Pc \ Exchange: pc' = [pc EXCEPT ![w] = p]
    BY <1>0, <1>5 DEF Refuse, StoreCert, StoreIdentity, Persist, Goto, Pc, Exchange, Waiting, Signing
  <2>2. /\ wire' = [wire EXCEPT ![w] = wire[w]] /\ pc[w] \in {"made", "half", "returned"}
        /\ UNCHANGED <<how, key, issued, born>> /\ wire[w] \in Message
    BY <1>0, <1>5 DEF Refuse, StoreCert, StoreIdentity, Persist
  <2>3. wire[w] = "none"
    BY <1>0, <2>2 DEF RoundOf, Waiting
  <2>4. GrantOf(p, wire[w], key[w], how[w], issued, born)
    BY <2>3, <2>1 DEF GrantOf, Exchange, Waiting, Signing
  <2>. QED
    BY <2>1, <2>2, <2>4, GrantStays
<1>6. CASE Crash
  BY <1>0, <1>6 DEF Crash, GrantInv, Exchange, Waiting, Signing
<1>7. CASE UNCHANGED vars
  BY <1>7 DEF GrantInv, vars
<1>. QED
  BY <1>1, <1>2, <1>3, <1>4, <1>5, <1>6, <1>7, NextCases
----------------------------------------------------------------------------
(* Calls and what they install                                             *)

CallOf(p, a, h, k) ==
    /\ p \in {"made", "half", "refused", "returned"} =>
           a \in 1 .. Len(made) /\ made[a].how = h /\ keys[a] = k
    /\ p = "refused" => h \in Bagged /\ ~made[a].cert
    /\ p = "half" => h \in CertBearing /\ ~(h \in Bagged /\ ~made[a].cert)
    /\ p = "returned" => ~(h \in Bagged /\ ~made[a].cert)

LEMMA CallForm == CallInv <=> \A w \in Callers: CallOf(pc[w], at[w], how[w], key[w])
  BY DEF CallInv, CallOf, BagFails, StoresCert

\* What the history said of a call, it says of it when it has grown.
LEMMA CallKept ==
    ASSUME TypeOK, NEW p, NEW a, NEW h, NEW k, CallOf(p, a, h, k),
           Len(made) <= Len(made'), Len(made') \in Nat,
           \A i \in 1 .. Len(made): made'[i] = made[i] /\ keys'[i] = keys[i]
    PROVE  CallOf(p, a, h, k)'
<1>1. Len(made) \in Nat
  BY DEF TypeOK
<1>2. CASE p \in {"made", "half", "refused", "returned"}
  <2>1. a \in 1 .. Len(made) /\ a \in 1 .. Len(made')
    BY <1>1, <1>2 DEF CallOf
  <2>. QED
    BY <1>2, <2>1 DEF CallOf
<1>3. CASE p \notin {"made", "half", "refused", "returned"}
  BY <1>3 DEF CallOf
<1>. QED
  BY <1>2, <1>3

LEMMA CallStep ==
    ASSUME TypeOK, RoundInv, GrantInv, CallInv, HistoryInv, [Next]_vars PROVE CallInv'
<1>0. /\ pc \in [Callers -> Pc] /\ how \in [Callers -> Hows] /\ at \in [Callers -> 0 .. Len(made)]
      /\ key \in [Callers -> 0 .. MaxKeys] /\ Len(made) \in Nat
      /\ \A u \in Callers: CallOf(pc[u], at[u], how[u], key[u])
  BY CallForm DEF TypeOK
<1>1. ASSUME NEW w \in Callers, UNCHANGED history,
             \A u \in Callers \ {w}: /\ pc'[u] = pc[u] /\ at'[u] = at[u]
                                     /\ how'[u] = how[u] /\ key'[u] = key[u],
             CallOf(pc'[w], at'[w], how'[w], key'[w])
      PROVE  CallInv'
  <2>1. ASSUME NEW u \in Callers PROVE CallOf(pc[u], at[u], how[u], key[u])'
    <3>1. CASE u = w
      BY <1>1, <3>1 DEF CallOf, history
    <3>2. CASE u # w
      <4>1. CallOf(pc[u], at[u], how[u], key[u])
        BY <1>0
      <4>. QED
        BY <1>1, <3>2, <4>1 DEF CallOf, history
    <3>. QED
      BY <3>1, <3>2
  <2>. QED
    BY <2>1 DEF CallInv, CallOf, BagFails, StoresCert
<1>2. ASSUME NEW w \in Callers, NEW h \in Enrolls, Begin(w, h) PROVE CallInv'
  <2>1. /\ pc'[w] = FirstOf(h) /\ UNCHANGED history
        /\ \A u \in Callers \ {w}: /\ pc'[u] = pc[u] /\ at'[u] = at[u]
                                   /\ how'[u] = how[u] /\ key'[u] = key[u]
    BY <1>0, <1>2 DEF Begin, Generates, Sends, FirstOf, FirstSent, Goto
  <2>2. CallOf(pc'[w], at'[w], how'[w], key'[w])
    BY <2>1 DEF FirstOf, CallOf
  <2>. QED
    BY <1>1, <2>1, <2>2
<1>3. ASSUME NEW w \in Callers, Turn(w) PROVE CallInv'
  <2>1. PICK p \in Pc: pc' = [pc EXCEPT ![w] = p] /\ p \in Exchange \cup {"failed", "idle"}
    BY <1>3, TurnFrame
  <2>2. UNCHANGED <<how, key, at, history>>
    BY <1>3, TurnFrame
  <2>3. /\ pc'[w] = p
        /\ \A u \in Callers \ {w}: /\ pc'[u] = pc[u] /\ at'[u] = at[u]
                                   /\ how'[u] = how[u] /\ key'[u] = key[u]
    BY <1>0, <2>1, <2>2
  <2>4. CallOf(pc'[w], at'[w], how'[w], key'[w])
    BY <2>1, <2>3 DEF CallOf, Exchange, Waiting, Signing
  <2>. QED
    BY <1>1, <2>2, <2>3, <2>4
<1>4. ASSUME NEW w \in Callers, World(w) PROVE CallInv'
  <2>1. UNCHANGED <<pc, how, key, at, made, keys>>
    BY <1>4, WorldFrame DEF process
  <2>. QED
    BY <1>0, <2>1 DEF CallInv, BagFails, StoresCert
<1>5. ASSUME NEW w \in Callers, CertDone(w) \/ Generate(w) \/ Load(w) PROVE CallInv'
  <2>1. PICK h \in Hows, k \in Key, c \in BOOLEAN:
           /\ Install(w, h, k, c)
           /\ how' = [how EXCEPT ![w] = h] /\ key' = [key EXCEPT ![w] = k]
    BY <1>5, InstallCases
  <2>2. /\ Len(made') = Len(made) + 1 /\ made'[Len(made')] = [how |-> h, cert |-> c]
        /\ keys'[Len(made')] = k
        /\ \A i \in 1 .. Len(made): made'[i] = made[i] /\ keys'[i] = keys[i]
        /\ at'[w] = Len(made') /\ \A u \in Callers \ {w}: at'[u] = at[u]
        /\ pc'[w] = "made" /\ \A u \in Callers \ {w}: pc'[u] = pc[u]
    BY <2>1, Installed
  <2>3. /\ how'[w] = h /\ key'[w] = k
        /\ \A u \in Callers \ {w}: how'[u] = how[u] /\ key'[u] = key[u]
    BY <1>0, <2>1
  <2>4. CallOf(pc[w], at[w], how[w], key[w])'
    <3>1. at'[w] \in 1 .. Len(made') /\ made'[at'[w]].how = h
      BY <1>0, <2>2
    <3>. QED
      BY <2>2, <2>3, <3>1 DEF CallOf
  <2>5. ASSUME NEW u \in Callers \ {w} PROVE CallOf(pc[u], at[u], how[u], key[u])'
    <3>1. CallOf(pc[u], at[u], how[u], key[u])
      BY <1>0
    <3>2. Len(made) <= Len(made') /\ Len(made') \in Nat
      BY <1>0, <2>2
    <3>. QED
      BY <2>2, <2>3, <3>1, <3>2, CallKept DEF CallOf
  <2>. QED
    BY <2>4, <2>5 DEF CallInv, CallOf, BagFails, StoresCert
<1>6. ASSUME NEW w \in Callers,
             Refuse(w) \/ StoreCert(w) \/ StoreIdentity(w) \/ Persist(w)
      PROVE  CallInv'
  <2>1. UNCHANGED <<how, key, at, history>> /\ CallOf(pc[w], at[w], how[w], key[w])
    BY <1>0, <1>6 DEF Refuse, StoreCert, StoreIdentity, Persist
  <2>2. PICK p \in {"refused", "half", "idle", "returned"}: pc' = [pc EXCEPT ![w] = p]
    BY <1>6 DEF Refuse, StoreCert, StoreIdentity, Persist, Goto
  <2>3. /\ pc'[w] = p
        /\ \A u \in Callers \ {w}: /\ pc'[u] = pc[u] /\ at'[u] = at[u]
                                   /\ how'[u] = how[u] /\ key'[u] = key[u]
    BY <1>0, <2>1, <2>2
  <2>4. CallOf(pc'[w], at'[w], how'[w], key'[w])
    <3>1. CASE Refuse(w)
      BY <2>1, <2>3, <3>1 DEF Refuse, Goto, CallOf, BagFails
    <3>2. CASE StoreCert(w)
      BY <2>1, <2>3, <3>2 DEF StoreCert, Goto, CallOf, BagFails, StoresCert
    <3>3. CASE StoreIdentity(w)
      BY <2>1, <2>3, <3>3 DEF StoreIdentity, Goto, CallOf, BagFails, StoresCert
    <3>4. CASE Persist(w)
      BY <2>3, <2>1, <1>0, <3>4 DEF Persist, Goto, CallOf
    <3>. QED
      BY <1>6, <3>1, <3>2, <3>3, <3>4
  <2>. QED
    BY <1>1, <2>1, <2>3, <2>4
<1>7. CASE Crash
  BY <1>7 DEF Crash, CallInv
<1>8. CASE UNCHANGED vars
  BY <1>8 DEF CallInv, BagFails, StoresCert, vars, history
<1>. QED
  BY <1>2, <1>3, <1>4, <1>5, <1>6, <1>7, <1>8, NextCases
LEMMA HistoryStep ==
    ASSUME TypeOK, RoundInv, GrantInv, CallInv, HistoryInv, [Next]_vars PROVE HistoryInv'
<1>0. /\ Len(made) \in Nat /\ born \in Nat /\ made \in Seq(Entry) /\ issued \subseteq 1 .. born
      /\ ownSigned \subseteq 1 .. born
  BY BoundsAssumption DEF TypeOK, GrantInv, HistoryInv
\* The history stays, and certificates stay.
<1>1. ASSUME UNCHANGED history, born' \in Nat, born <= born',
             issued \subseteq issued', UNCHANGED ownSigned,
             disk'.key # 0 => Certified(disk'.key), disk'.form = "bag" => disk'.cert
      PROVE  HistoryInv'
  <2>1. 1 .. born \subseteq 1 .. born'
    BY <1>0, <1>1
  <2>2. \A k: Certified(k) => Certified(k)'
    BY <1>1 DEF Certified
  <2>3. \A i \in 1 .. Len(made'):
           /\ Certified(keys[i])' /\ keys'[i] \in 1 .. born'
           /\ made'[i].cert \/ made'[i].how \in Enrolls
    <3>1. made' = made /\ keys' = keys
      BY <1>1 DEF history
    <3>. QED
      BY <1>1, <2>1, <3>1 DEF HistoryInv, Certified
  <2>4. ownSigned' \subseteq 1 .. born'
    BY <1>0, <1>1, <2>1
  <2>5. disk'.key # 0 => Certified(disk.key)'
    BY <1>1 DEF Certified
  <2>. QED
    BY <1>1, <2>3, <2>4, <2>5 DEF HistoryInv
<1>2. (disk.key # 0 => Certified(disk.key)) /\ (disk.form = "bag" => disk.cert)
  BY DEF HistoryInv
<1>3. ASSUME NEW w \in Callers, NEW h \in Enrolls, Begin(w, h) PROVE HistoryInv'
  <2>1. /\ UNCHANGED <<history, issued, ownSigned, disk>> /\ born' \in Nat /\ born <= born'
    BY <1>0, <1>3 DEF Begin, Generates
  <2>. QED
    BY <1>1, <1>2, <2>1
<1>4. ASSUME NEW w \in Callers, Turn(w) PROVE HistoryInv'
  <2>1. UNCHANGED <<history, born, issued, ownSigned, disk>>
    BY <1>4, TurnFrame
  <2>. QED
    BY <1>0, <1>1, <1>2, <2>1
<1>5. ASSUME NEW w \in Callers, World(w) PROVE HistoryInv'
  <2>1. UNCHANGED <<history, born, ownSigned, disk>> /\ issued \subseteq issued'
    BY <1>5, WorldFrame DEF process, history
  <2>. QED
    BY <1>0, <1>1, <1>2, <2>1
<1>6. ASSUME NEW w \in Callers, CertDone(w) \/ Generate(w) \/ Load(w) PROVE HistoryInv'
  <2>1. PICK h \in Hows, k \in Key, c \in BOOLEAN:
           /\ Install(w, h, k, c)
           /\ born' \in 0 .. MaxKeys /\ born <= born'
           /\ k \in 1 .. born' /\ (c \/ h \in Enrolls)
           /\ ownSigned \subseteq ownSigned' /\ ownSigned' \subseteq ownSigned \cup {born'}
           /\ ownSigned' # ownSigned => born' = born + 1
           /\ k \in issued \cup ownSigned'
    BY <1>6, InstallCases
  <2>2. /\ Len(made') = Len(made) + 1 /\ made'[Len(made')] = [how |-> h, cert |-> c]
        /\ keys'[Len(made')] = k /\ UNCHANGED <<issued, disk>>
        /\ \A i \in 1 .. Len(made): made'[i] = made[i] /\ keys'[i] = keys[i]
    BY <2>1, Installed
  <2>3. born' \in Nat /\ 1 .. born \subseteq 1 .. born'
    BY <1>0, <2>1, BoundsAssumption
  <2>4. \A x: Certified(x) => Certified(x)'
    BY <2>1, <2>2 DEF Certified
  <2>5. ASSUME NEW i \in 1 .. Len(made')
        PROVE  /\ Certified(keys[i])' /\ keys'[i] \in 1 .. born'
               /\ made'[i].cert \/ made'[i].how \in Enrolls
    <3>1. CASE i \in 1 .. Len(made)
      <4>1. /\ Certified(keys[i]) /\ keys[i] \in 1 .. born
            /\ made[i].cert \/ made[i].how \in Enrolls
        BY <3>1 DEF HistoryInv
      <4>. QED
        BY <2>1, <2>2, <2>3, <3>1, <4>1 DEF Certified
    <3>2. CASE i = Len(made')
      BY <2>1, <2>2, <3>2 DEF Certified
    <3>. QED
      BY <1>0, <2>2, <3>1, <3>2
  <2>6. ownSigned' \subseteq 1 .. born'
    <3>1. CASE ownSigned' = ownSigned
      BY <1>0, <2>3, <3>1
    <3>2. CASE ownSigned' # ownSigned
      BY <1>0, <2>1, <2>3, <3>2
    <3>. QED
      BY <3>1, <3>2
  <2>7. (disk'.key # 0 => Certified(disk.key)') /\ (disk'.form = "bag" => disk'.cert)
    BY <1>2, <2>2, <2>4 DEF Certified
  <2>. QED
    BY <2>5, <2>6, <2>7 DEF HistoryInv
<1>7. ASSUME NEW w \in Callers, Refuse(w) \/ StoreCert(w) \/ StoreIdentity(w) PROVE HistoryInv'
  <2>1. UNCHANGED <<history, born, issued, ownSigned, disk>>
    BY <1>7 DEF Refuse, StoreCert, StoreIdentity, history
  <2>. QED
    BY <1>0, <1>1, <1>2, <2>1
<1>8. ASSUME NEW w \in Callers, Persist(w) PROVE HistoryInv'
  <2>1. /\ UNCHANGED <<history, born, issued, ownSigned>> /\ pc[w] = "returned"
    BY <1>8 DEF Persist
  <2>2. (disk'.key # 0 => Certified(disk'.key)) /\ (disk'.form = "bag" => disk'.cert)
    <3>1. CASE UNCHANGED disk
      BY <1>2, <3>1 DEF Certified
    <3>2. CASE disk' = [key |-> key[w], cert |-> made[at[w]].cert,
                        form |-> IF how[w] \in Bagged THEN "bag" ELSE "enclave"]
      <4>1. /\ at[w] \in 1 .. Len(made) /\ keys[at[w]] = key[w] /\ ~BagFails(w)
        BY <2>1 DEF CallInv
      <4>2. Certified(key[w])
        BY <4>1 DEF HistoryInv
      <4>3. how[w] \in Bagged => made[at[w]].cert
        BY <4>1 DEF BagFails
      <4>4. /\ disk'.key = key[w] /\ disk'.cert = made[at[w]].cert
            /\ disk'.form = IF how[w] \in Bagged THEN "bag" ELSE "enclave"
        BY <3>2
      <4>. QED
        BY <4>2, <4>3, <4>4 DEF Certified
    <3>. QED
      BY <1>8, <3>1, <3>2 DEF Persist
  <2>. QED
    BY <1>0, <1>1, <2>1, <2>2
<1>9. CASE Crash
  <2>1. /\ made' = <<>> /\ Len(made') = 0 /\ UNCHANGED <<born, issued, ownSigned, disk>>
    BY <1>9 DEF Crash
  <2>. QED
    BY <1>0, <1>2, <2>1 DEF HistoryInv, Certified
<1>10. CASE UNCHANGED vars
  <2>1. UNCHANGED <<history, born, issued, ownSigned, disk>>
    BY <1>10 DEF vars, history
  <2>. QED
    BY <1>0, <1>1, <1>2, <2>1
<1>. QED
  BY <1>3, <1>4, <1>5, <1>6, <1>7, <1>8, <1>9, <1>10, NextCases

\* An install adds itself to one of the two sets.
LEMMA CountInstall ==
    ASSUME TypeOK, NEW w \in Callers, NEW h \in Hows, NEW k \in Key, NEW c \in BOOLEAN,
           Install(w, h, k, c)
    PROVE  /\ h \in Loads => Own' = Own /\ Loaded' = Loaded \cup {Len(made) + 1}
           /\ h \notin Loads => Own' = Own \cup {Len(made) + 1} /\ Loaded' = Loaded
<1>1. /\ Len(made') = Len(made) + 1 /\ made'[Len(made')].how = h
      /\ \A i \in 1 .. Len(made): made'[i] = made[i]
      /\ Len(made) \in Nat
  <2>1. /\ Len(made') = Len(made) + 1 /\ made'[Len(made')] = [how |-> h, cert |-> c]
        /\ \A i \in 1 .. Len(made): made'[i] = made[i]
    BY Installed
  <2>. QED
    BY <2>1 DEF TypeOK
<1>2. 1 .. Len(made') = 1 .. Len(made) \cup {Len(made) + 1} /\ Len(made) + 1 \notin 1 .. Len(made)
  BY <1>1
<1>. QED
  BY <1>1, <1>2 DEF Own, Loaded

LEMMA CountStep ==
    ASSUME TypeOK, RoundInv, GrantInv, CallInv, HistoryInv, CountInv, [Next]_vars
    PROVE  CountInv'
<1>0. /\ pc \in [Callers -> Pc] /\ key \in [Callers -> 0 .. MaxKeys] /\ born \in Nat
      /\ Len(made) \in Nat /\ MaxLoads \in Nat
      /\ \A i \in 1 .. Len(made): keys[i] \in 1 .. born
      /\ Own \subseteq 1 .. Len(made) /\ Loaded \subseteq 1 .. Len(made)
  BY BoundsAssumption DEF TypeOK, HistoryInv, Own, Loaded
\* The history stays, and no call joins an exchange.
<1>1. ASSUME UNCHANGED <<made, keys, key>>,
             \A u \in Callers: pc'[u] \in Exchange => pc[u] \in Exchange
      PROVE  CountInv'
  BY <1>1 DEF CountInv, Own, Loaded
<1>2. ASSUME NEW w \in Callers, NEW h \in Enrolls, Begin(w, h) PROVE CountInv'
  <2>1. /\ UNCHANGED <<made, keys>>
        /\ pc' = [pc EXCEPT ![w] = FirstOf(h)] /\ key' = [key EXCEPT ![w] = born + 1]
    BY <1>2 DEF Begin, Generates, Sends, FirstOf, FirstSent, Goto, history
  <2>2. Own' = Own /\ Loaded' = Loaded
    BY <2>1 DEF Own, Loaded
  <2>3. ASSUME NEW i \in Own, NEW u \in Callers, pc'[u] \in Exchange PROVE keys[i] # key'[u]
    <3>1. CASE u = w
      <4>1. key'[u] = born + 1 /\ keys[i] \in 1 .. born
        BY <1>0, <2>1, <3>1
      <4>. QED
        BY <1>0, <4>1
    <3>2. CASE u # w
      BY <1>0, <2>1, <2>3, <3>2 DEF CountInv
    <3>. QED
      BY <3>1, <3>2
  <2>. QED
    BY <2>1, <2>2, <2>3 DEF CountInv
<1>3. ASSUME NEW w \in Callers, Turn(w) PROVE CountInv'
  <2>1. PICK p \in Pc: pc' = [pc EXCEPT ![w] = p] /\ (p \in Exchange => pc[w] \in Exchange)
    BY <1>3, TurnFrame
  <2>2. UNCHANGED <<made, keys, key>>
    BY <1>3, TurnFrame DEF history
  <2>. QED
    BY <1>0, <1>1, <2>1, <2>2
<1>4. ASSUME NEW w \in Callers, World(w) PROVE CountInv'
  BY <1>1, <1>4, WorldFrame DEF process
<1>5. ASSUME NEW w \in Callers, CertDone(w) \/ Generate(w) \/ Load(w) PROVE CountInv'
  <2>1. PICK h \in Hows, k \in Key, c \in BOOLEAN:
           /\ Install(w, h, k, c)
           /\ key' = [key EXCEPT ![w] = k]
           /\ \/ /\ h \in Enrolls /\ pc[w] = "cert" /\ k = key[w]
              \/ h = "generate" /\ k = born + 1
              \/ h \in Loads /\ Cardinality(Loaded) < MaxLoads
    BY <1>5, InstallCases
  <2>2. /\ keys'[Len(made) + 1] = k
        /\ \A i \in 1 .. Len(made): keys'[i] = keys[i]
        /\ pc'[w] = "made" /\ \A u \in Callers \ {w}: pc'[u] = pc[u] /\ key'[u] = key[u]
    <3>0. Install(w, h, k, c)
      BY <2>1
    <3>1. /\ Len(made') = Len(made) + 1 /\ made'[Len(made')] = [how |-> h, cert |-> c]
          /\ keys'[Len(made')] = k
          /\ \A i \in 1 .. Len(made): made'[i] = made[i] /\ keys'[i] = keys[i]
          /\ pc'[w] = "made" /\ \A u \in Callers \ {w}: pc'[u] = pc[u]
      BY <3>0, Installed
    <3>. QED
      BY <1>0, <2>1, <3>1
  <2>3. "made" \notin Exchange
    BY DEF Exchange, Waiting, Signing
  <2>4. CASE h \in Loads
    <3>1. Own' = Own /\ Loaded' = Loaded \cup {Len(made) + 1} /\ Cardinality(Loaded) < MaxLoads
      BY <2>1, <2>4, CountInstall DEF Loads, Enrolls
    <3>2. Cardinality(Loaded') <= MaxLoads
      <4>1. IsFiniteSet(1 .. Len(made))
        BY <1>0, FS_Interval
      <4>2. IsFiniteSet(Loaded) /\ Len(made) + 1 \notin Loaded
        <5>1. IsFiniteSet(Loaded)
          BY <1>0, <4>1, FS_Subset
        <5>2. Len(made) + 1 \notin 1 .. Len(made)
          BY <1>0
        <5>. QED
          BY <1>0, <5>1, <5>2
      <4>3. Cardinality(Loaded') = Cardinality(Loaded) + 1 /\ Cardinality(Loaded) \in Nat
        BY <3>1, <4>2, FS_AddElement, FS_CardinalityType
      <4>. QED
        BY <1>0, <3>1, <4>3
    <3>3. \A i \in Own: keys'[i] = keys[i]
      BY <1>0, <2>2
    <3>4. \A u \in Callers: pc'[u] \in Exchange => pc[u] \in Exchange /\ key'[u] = key[u]
      BY <2>2, <2>3
    <3>. QED
      BY <3>1, <3>2, <3>3, <3>4 DEF CountInv
  <2>5. CASE h \notin Loads
    <3>1. Own' = Own \cup {Len(made) + 1} /\ Loaded' = Loaded
      BY <2>1, <2>5, CountInstall
    <3>2. \A i \in Own: keys'[i] = keys[i] /\ keys[i] # k
      BY <1>0, <2>1, <2>2, <2>5 DEF CountInv, Exchange
    <3>3. ASSUME NEW u \in Callers, pc'[u] \in Exchange
          PROVE  u # w /\ pc[u] \in Exchange /\ key'[u] = key[u] /\ key[u] # k
      <4>1. u # w /\ pc[u] \in Exchange /\ key'[u] = key[u]
        BY <2>2, <2>3, <3>3
      <4>2. key[u] \in 1 .. born
        BY <4>1 DEF GrantInv
      <4>3. h \in Enrolls => key[u] # k
        <5>1. h \in Enrolls => pc[w] \in Exchange /\ k = key[w]
          BY <2>1 DEF Exchange, Enrolls, Loads
        <5>. QED
          BY <4>1, <5>1 DEF GrantInv
      <4>. QED
        BY <1>0, <2>1, <2>5, <4>1, <4>2, <4>3
    <3>4. \A i, j \in Own': i # j => keys'[i] # keys'[j]
      BY <2>2, <3>1, <3>2 DEF CountInv
    <3>5. \A i \in Own', u \in Callers: pc'[u] \in Exchange => keys'[i] # key'[u]
      BY <2>2, <3>1, <3>2, <3>3 DEF CountInv
    <3>6. Cardinality(Loaded') <= MaxLoads
      BY <3>1 DEF CountInv
    <3>. QED
      BY <3>4, <3>5, <3>6 DEF CountInv
  <2>. QED
    BY <2>4, <2>5
<1>6. ASSUME NEW w \in Callers,
             Refuse(w) \/ StoreCert(w) \/ StoreIdentity(w) \/ Persist(w)
      PROVE  CountInv'
  <2>1. /\ UNCHANGED <<made, keys, key>>
        /\ \E p \in Pc \ Exchange: pc' = [pc EXCEPT ![w] = p]
    BY <1>6 DEF Refuse, StoreCert, StoreIdentity, Persist, Goto, Pc, Exchange, Waiting, Signing, history
  <2>. QED
    BY <1>0, <1>1, <2>1
<1>7. CASE Crash
  <2>1. made' = <<>> /\ Len(made') = 0
    BY <1>7 DEF Crash
  <2>2. Own' = {} /\ Loaded' = {}
    BY <2>1 DEF Own, Loaded
  <2>. QED
    BY <1>0, <2>2, FS_EmptySet DEF CountInv
<1>8. CASE UNCHANGED vars
  BY <1>1, <1>8 DEF vars, history
<1>. QED
  BY <1>2, <1>3, <1>4, <1>5, <1>6, <1>7, <1>8, NextCases
----------------------------------------------------------------------------
(* Theorems                                                                *)

LEMMA InitInv == Init => IInv
<1> SUFFICES ASSUME Init PROVE IInv
  OBVIOUS
<1>1. TypeOK
  BY TypeInit
<1>2. made = <<>> /\ Len(made) = 0 /\ disk.key = 0 /\ disk.form = "none"
  BY DEF Init, Started, NoDisk
<1>3. \A w \in Callers: pc[w] = "idle" /\ wire[w] = "none"
  BY DEF Init, Started
<1>4. RoundInv /\ GrantInv /\ CallInv
  BY <1>3 DEF RoundInv, GrantInv, CallInv, Init, Waiting, Signing, Exchange
<1>5. HistoryInv
  BY <1>2 DEF HistoryInv, Init
<1>6. Own = {} /\ Loaded = {}
  BY <1>2 DEF Own, Loaded
<1>7. CountInv
  BY <1>6, FS_EmptySet, BoundsAssumption DEF CountInv
<1>. QED
  BY <1>1, <1>4, <1>5, <1>7 DEF IInv

\* The invariant holds of every reachable state.
THEOREM Inductive == Spec => []IInv
<1>1. IInv /\ [Next]_vars => IInv'
  BY TypeStep, RoundStep, GrantStep, CallStep, HistoryStep, CountStep DEF IInv
<1>. QED
  BY InitInv, <1>1, PTL DEF Spec

\* Every variable has its type.
THEOREM TypeCorrect == Spec => []TypeOK
BY Inductive, PTL DEF IInv

\* No sequence of lost answers, open challenges, refused bags and restarts loads,
\* serves or keeps a key that nobody has certified, however many callers enroll.
THEOREM KeysCertified == Spec => []LoadedKeyIsCertified
<1>1. IInv => LoadedKeyIsCertified
  <2> SUFFICES ASSUME IInv PROVE LoadedKeyIsCertified
    OBVIOUS
  <2>1. identity \in 0 .. Len(made) /\ certWire \in 0 .. Len(made) /\ Len(made) \in Nat
    BY DEF IInv, TypeOK
  <2>2. identity # 0 => identity \in 1 .. Len(made)
    BY <2>1
  <2>3. certWire # 0 => certWire \in 1 .. Len(made)
    BY <2>1
  <2>. QED
    BY <2>2, <2>3 DEF IInv, HistoryInv, LoadedKeyIsCertified
<1>. QED
  BY Inductive, <1>1, PTL

\* Nobody is asked for the PIN of a request the authority has already granted.
THEOREM PromptsOnlyIfOpen == Spec => []PromptOnlyIfOpen
<1>1. IInv => PromptOnlyIfOpen
  BY DEF IInv, GrantInv, PromptOnlyIfOpen
<1>. QED
  BY Inductive, <1>1, PTL

----------------------------------------------------------------------------
(* The calls implement the cells                                           *)

\* Installs of one's own are as few as their keys, the rest as few as the loads.
LEMMA HistoryBound ==
    ASSUME TypeOK, CountInv, NEW K \in SUBSET Key, \A i \in Own: keys[i] \in K
    PROVE  /\ IsFiniteSet(Own) /\ IsFiniteSet(Loaded)
           /\ Cardinality(Own) \in Nat /\ Cardinality(Loaded) \in Nat /\ Cardinality(K) \in Nat
           /\ Cardinality(Own) <= Cardinality(K)
           /\ Len(made) = Cardinality(Own) + Cardinality(Loaded)
<1>0. Len(made) \in Nat /\ 1 \in Int /\ Len(made) \in Int /\ MaxKeys \in Int /\ MaxKeys \in Nat
  BY BoundsAssumption DEF TypeOK
<1>1. IsFiniteSet(1 .. Len(made)) /\ Cardinality(1 .. Len(made)) = Len(made)
  <2>1. /\ IsFiniteSet(1 .. Len(made))
        /\ Cardinality(1 .. Len(made)) = IF 1 > Len(made) THEN 0 ELSE Len(made) - 1 + 1
    BY <1>0, FS_Interval
  <2>. QED
    BY <1>0, <2>1
<1>2. Own \in SUBSET (1 .. Len(made)) /\ Loaded \in SUBSET (1 .. Len(made))
  BY DEF Own, Loaded
<1>3. IsFiniteSet(Own) /\ IsFiniteSet(Loaded)
  BY <1>1, <1>2, FS_Subset
<1>4. IsFiniteSet(K)
  <2>1. IsFiniteSet(Key)
    BY <1>0, FS_Interval DEF Key
  <2>. QED
    BY <2>1, FS_Subset
<1>5. Cardinality(Own) \in Nat /\ Cardinality(Loaded) \in Nat /\ Cardinality(K) \in Nat
  BY <1>3, <1>4, FS_CardinalityType
<1>6. Cardinality(Own) <= Cardinality(K)
  <2> DEFINE f == [i \in Own |-> keys[i]]
  <2>1. f \in [Own -> K]
    OBVIOUS
  <2>2. \A i, j \in Own: f[i] = f[j] => i = j
    BY DEF CountInv
  <2> HIDE DEF f
  <2>3. f \in Injection(Own, K)
    BY <2>1, <2>2, Fun_IsInj
  <2>. QED
    BY <2>3, <1>4, FS_Injection
<1>7. Own \cup Loaded = 1 .. Len(made) /\ Own \cap Loaded = {}
  BY DEF Own, Loaded
<1>8. Cardinality(1 .. Len(made)) = Cardinality(Own) + Cardinality(Loaded)
  <2>1. Cardinality(Own \cup Loaded) =
           Cardinality(Own) + Cardinality(Loaded) - Cardinality(Own \cap Loaded)
    BY <1>3, FS_Union
  <2>2. Cardinality(Own \cap Loaded) = 0
    BY <1>7, FS_EmptySet
  <2>3. Cardinality(Own \cup Loaded) = Cardinality(Own) + Cardinality(Loaded)
    BY <1>5, <2>1, <2>2
  <2>. QED
    BY <1>7, <2>3
<1>. QED
  BY <1>1, <1>3, <1>5, <1>6, <1>8

LEMMA RoomToInstall ==
    ASSUME IInv, NEW w \in Callers, CertDone(w) \/ Generate(w) \/ Load(w)
    PROVE  Len(made) < MaxKeys + MaxLoads
<1>0. /\ TypeOK /\ CountInv /\ MaxKeys \in Nat /\ MaxLoads \in Nat /\ born \in 0 .. MaxKeys
      /\ \A i \in 1 .. Len(made): keys[i] \in 1 .. born
      /\ Cardinality(Loaded) <= MaxLoads
  BY BoundsAssumption DEF IInv, TypeOK, HistoryInv, CountInv
<1>1. ASSUME NEW K \in SUBSET Key, \A i \in Own: keys[i] \in K,
             Cardinality(K) < MaxKeys \/ Cardinality(Loaded) < MaxLoads,
             Cardinality(K) <= MaxKeys
      PROVE  Len(made) < MaxKeys + MaxLoads
  <2>1. /\ Cardinality(Own) \in Nat /\ Cardinality(Loaded) \in Nat /\ Cardinality(K) \in Nat
        /\ Cardinality(Own) <= Cardinality(K)
        /\ Len(made) = Cardinality(Own) + Cardinality(Loaded)
    BY <1>0, <1>1, HistoryBound
  <2>. QED
    BY <1>0, <1>1, <2>1
<1>2. /\ 1 .. born \in SUBSET Key /\ IsFiniteSet(Key)
      /\ Cardinality(1 .. born) = born /\ Cardinality(Key) = MaxKeys
  <2>1. 1 \in Int /\ born \in Int /\ MaxKeys \in Int
    BY <1>0
  <2>2. IsFiniteSet(1 .. MaxKeys) /\ Cardinality(1 .. MaxKeys) = MaxKeys /\ Cardinality(1 .. born) = born
    BY <1>0, <2>1, FS_Interval
  <2>. QED
    BY <1>0, <2>2 DEF Key
<1>3. \A i \in Own: keys[i] \in 1 .. born
  BY <1>0 DEF Own
<1>4. CASE CertDone(w)
  <2>1. pc[w] \in Exchange
    BY <1>4 DEF CertDone, Exchange
  <2>2. key[w] \in 1 .. born
    BY <2>1 DEF IInv, GrantInv
  <2>3. key[w] \in Key
    BY <1>2, <2>2
  <2> DEFINE K == Key \ {key[w]}
  <2>4. K \in SUBSET Key /\ \A i \in Own: keys[i] \in K
    BY <1>0, <1>2, <1>3, <2>1 DEF CountInv
  <2>5. Cardinality(K) = MaxKeys - 1
    BY <1>2, <2>3, FS_RemoveElement
  <2> HIDE DEF K
  <2>. QED
    BY <1>0, <1>1, <2>4, <2>5
<1>5. CASE Generate(w)
  <2>1. born < MaxKeys
    BY <1>5 DEF Generate, Generates
  <2>. QED
    BY <1>0, <1>1, <1>2, <1>3, <2>1
<1>6. CASE Load(w)
  <2>1. Cardinality(Loaded) < MaxLoads /\ born <= MaxKeys
    BY <1>0, <1>6 DEF Load, Loaded
  <2>. QED
    BY <1>1, <1>2, <1>3, <2>1
<1>. QED
  BY <1>4, <1>5, <1>6
\* A call's state as IdentityCore sees it, all callers together.
Setting == [w \in Callers |-> SetterOf(w)]
Entered(w) == pc[w] \in {"made", "half", "refused"}

\* One caller moves: it shows the cells what p and a say, or nothing.
Shown(p, a) == IF p \in {"made", "half", "refused"} THEN [pc |-> p, key |-> a]
                                                  ELSE [pc |-> "idle", key |-> 0]

LEMMA SettingMoves ==
    ASSUME TypeOK, NEW w \in Callers, NEW p, NEW a, pc' = [pc EXCEPT ![w] = p],
           at'[w] = a, \A u \in Callers \ {w}: at'[u] = at[u]
    PROVE  Setting' = [Setting EXCEPT ![w] = Shown(p, a)]
<1>1. pc'[w] = p /\ \A u \in Callers \ {w}: pc'[u] = pc[u]
  BY DEF TypeOK
<1>2. SetterOf(w)' = Shown(p, a)
  BY <1>1 DEF SetterOf, Shown
<1>3. \A u \in Callers \ {w}: SetterOf(u)' = SetterOf(u)
  BY <1>1 DEF SetterOf
<1>. QED
  BY <1>2, <1>3 DEF Setting

LEMMA SettingStays ==
    ASSUME TypeOK, NEW w \in Callers, NEW p, pc' = [pc EXCEPT ![w] = p],
           UNCHANGED at, ~Entered(w), p \notin {"made", "half", "refused"}
    PROVE  UNCHANGED Setting
<1>1. pc'[w] = p /\ \A u \in Callers \ {w}: pc'[u] = pc[u]
  BY DEF TypeOK
<1>2. \A u \in Callers: SetterOf(u)' = SetterOf(u)
  BY <1>1 DEF SetterOf, Entered
<1>. QED
  BY <1>2 DEF Setting

\* A process that starts, or starts again, shows empty cells.
LEMMA CellsInit == Init => Cells!Init
<1> SUFFICES ASSUME Init PROVE Cells!Init
  OBVIOUS
<1>1. identity = 0 /\ certWire = 0 /\ made = <<>> /\ \A w \in Callers: pc[w] = "idle"
  BY DEF Init, Started
<1>2. [w \in Callers |-> SetterOf(w)] = [w \in Callers |-> Cells!Idle]
  BY <1>1 DEF SetterOf, Cells!Idle
<1>3. [r \in {} |-> 0] = [r \in {} |-> Cells!Reading]
  OBVIOUS
<1>. QED
  BY <1>1, <1>2, <1>3 DEF Cells!Init

LEMMA CellsRestart == Crash => (Cells!Init)'
<1> SUFFICES ASSUME Crash PROVE (Cells!Init)'
  OBVIOUS
<1>1. identity' = 0 /\ certWire' = 0 /\ made' = <<>> /\ \A w \in Callers: pc'[w] = "idle"
  BY DEF Crash
<1>2. [w \in Callers |-> SetterOf(w)]' = [w \in Callers |-> Cells!Idle]
  BY <1>1 DEF SetterOf, Cells!Idle
<1>3. [r \in {} |-> 0] = [r \in {} |-> Cells!Reading]
  OBVIOUS
<1>. QED
  BY <1>1, <1>2, <1>3 DEF Cells!Init
\* An install is a Make of IdentityCore.
LEMMA CellsMake ==
    ASSUME IInv, NEW w \in Callers, CertDone(w) \/ Generate(w) \/ Load(w)
    PROVE  Cells!Next
<1>0. TypeOK /\ RoundInv /\ GrantInv /\ HistoryInv
  BY DEF IInv
<1>1. PICK h \in Hows, k \in Key, c \in BOOLEAN:
         /\ Install(w, h, k, c)
         /\ c \/ h \in Enrolls
         /\ pc[w] \in {"cert", "idle"}
  BY <1>0, InstallCases
<1>2. /\ pc' = [pc EXCEPT ![w] = "made"] /\ UNCHANGED <<identity, certWire>>
      /\ made' = Append(made, [how |-> h, cert |-> c])
  BY <1>1 DEF Install, Goto, cells
<1>3. at'[w] = Len(made) + 1 /\ \A u \in Callers \ {w}: at'[u] = at[u]
  BY <1>0, <1>1 DEF Install, TypeOK
<1>4. Setting' = [Setting EXCEPT ![w] = [pc |-> "made", key |-> Len(made) + 1]]
  <2>1. Setting' = [Setting EXCEPT ![w] = Shown("made", Len(made) + 1)]
    BY <1>0, <1>2, <1>3, SettingMoves
  <2>. QED
    BY <2>1 DEF Shown
<1>5. Setting[w].pc = "idle"
  BY <1>1 DEF Setting, SetterOf
<1>6. Len(made) < MaxKeys + MaxLoads
  BY RoomToInstall
<1>7. c \/ h \in Cells!Fetched
  BY <1>1 DEF Enrolls, Cells!Fetched
<1>8. Cells!Make(w, h, c)
  BY <1>2, <1>4, <1>5, <1>6, <1>7 DEF Cells!Make, Setting
<1>. QED
  BY <1>8 DEF Cells!Next, Cells!Setting

\* The two stores and the refusal, with the same tests.
LEMMA CellsStores ==
    ASSUME IInv, NEW w \in Callers, Refuse(w) \/ StoreCert(w) \/ StoreIdentity(w)
    PROVE  Cells!Next
<1>0. /\ TypeOK /\ pc[w] \in {"made", "half"} /\ UNCHANGED <<at, made>>
      /\ at[w] \in 1 .. Len(made) /\ made[at[w]].how = how[w] /\ how[w] \in Hows
  BY DEF IInv, CallInv, TypeOK, Refuse, StoreCert, StoreIdentity, history
<1>1. Setting[w] = [pc |-> pc[w], key |-> at[w]]
  BY <1>0 DEF Setting, SetterOf
<1>2. ASSUME NEW p, pc' = [pc EXCEPT ![w] = p]
      PROVE  Setting' = [Setting EXCEPT ![w] = Shown(p, at[w])]
  BY <1>0, <1>2, SettingMoves
<1>3. /\ BagFails(w) <=> Cells!BagFails(at[w])
      /\ StoresCert(w) <=> Cells!HasCertStore(at[w])
      /\ Cells!CertFirst(at[w])
  BY <1>0 DEF BagFails, StoresCert, Bagged, CertBearing, Hows, Loads, Enrolls,
              Cells!BagFails, Cells!Refused, Cells!Bagged, Cells!HasCertStore,
              Cells!CertBearing, Cells!CertFirst
<1>4. CASE Refuse(w)
  <2>1. Setting' = [Setting EXCEPT ![w].pc = "refused"]
    <3>1. pc' = [pc EXCEPT ![w] = "refused"]
      BY <1>4 DEF Refuse, Goto
    <3>2. Setting' = [Setting EXCEPT ![w] = [pc |-> "refused", key |-> at[w]]]
      BY <1>2, <3>1 DEF Shown
    <3>3. [Setting[w] EXCEPT !.pc = "refused"] = [pc |-> "refused", key |-> at[w]]
      BY <1>1
    <3>. QED
      BY <3>2, <3>3
  <2>2. Setting[w].pc = "made" /\ Setting[w].key = at[w] /\ UNCHANGED <<identity, certWire>>
    BY <1>1, <1>4 DEF Refuse, cells
  <2>3. Cells!Refuse(w)
    BY <1>0, <1>3, <1>4, <2>1, <2>2 DEF Cells!Refuse, Refuse, Setting
  <2>. QED
    BY <2>3 DEF Cells!Next, Cells!Setting
<1>5. CASE StoreCert(w)
  <2>1. Setting' = [Setting EXCEPT ![w] = [@ EXCEPT !.pc = "half"]]
    <3>1. pc' = [pc EXCEPT ![w] = "half"]
      BY <1>5 DEF StoreCert, Goto
    <3>2. Setting' = [Setting EXCEPT ![w] = [pc |-> "half", key |-> at[w]]]
      BY <1>2, <3>1 DEF Shown
    <3>3. [Setting[w] EXCEPT !.pc = "half"] = [pc |-> "half", key |-> at[w]]
      BY <1>1
    <3>. QED
      BY <3>2, <3>3
  <2>2. /\ Setting[w].pc = "made" /\ Setting[w].key = at[w] /\ UNCHANGED identity
        /\ certWire' = Cells!StoredCert(at[w])
    BY <1>1, <1>5 DEF StoreCert, Cells!StoredCert, Cells!CertOf
  <2>3. ~BagFails(w) /\ StoresCert(w)
    BY <1>5 DEF StoreCert
  <2>4. Cells!StoreCert(w)
    BY <1>0, <1>3, <2>1, <2>2, <2>3 DEF Cells!StoreCert, Setting
  <2>. QED
    BY <2>4 DEF Cells!Next, Cells!Setting
<1>6. CASE StoreIdentity(w)
  <2>1. Setting' = [Setting EXCEPT ![w] = Cells!Idle]
    <3>1. PICK p \in {"idle", "returned"}: pc' = [pc EXCEPT ![w] = p]
      BY <1>6 DEF StoreIdentity, Goto
    <3>. QED
      BY <1>2, <3>1 DEF Shown, Cells!Idle
  <2>2. /\ Setting[w].pc = IF StoresCert(w) THEN "half" ELSE "made"
        /\ Setting[w].key = at[w] /\ UNCHANGED certWire /\ identity' = at[w]
    BY <1>1, <1>6 DEF StoreIdentity
  <2>3. ~BagFails(w)
    BY <1>6 DEF StoreIdentity
  <2>4. Cells!StoreIdentity(w)
    BY <1>0, <1>3, <2>1, <2>2, <2>3 DEF Cells!StoreIdentity, Setting
  <2>. QED
    BY <2>4 DEF Cells!Next, Cells!Setting
<1>. QED
  BY <1>4, <1>5, <1>6

\* Every other step of a caller or of the world leaves the cells as they are,
\* but for the return of a refused call.
LEMMA CellsElsewhere ==
    ASSUME IInv, NEW w \in Callers,
           (\E h \in Enrolls: Begin(w, h)) \/ Turn(w) \/ World(w) \/ Persist(w)
    PROVE  Cells!Next \/ UNCHANGED Cells!vars
<1>0. TypeOK
  BY DEF IInv
<1>1. ASSUME UNCHANGED <<identity, certWire, made, Setting>> PROVE UNCHANGED Cells!vars
  BY <1>1 DEF Cells!vars, Setting
<1>2. ASSUME NEW h \in Enrolls, Begin(w, h) PROVE UNCHANGED Cells!vars
  <2>1. /\ pc' = [pc EXCEPT ![w] = FirstOf(h)] /\ ~Entered(w)
        /\ UNCHANGED <<at, identity, certWire, made>>
    BY <1>2 DEF Begin, Generates, Sends, FirstOf, FirstSent, Goto, Entered, cells, history
  <2>2. UNCHANGED Setting
    <3>1. FirstOf(h) \notin {"made", "half", "refused"}
      BY DEF FirstOf
    <3>. QED
      BY <1>0, <2>1, <3>1, SettingStays
  <2>. QED
    BY <1>1, <2>1, <2>2
<1>3. CASE Turn(w)
  <2>1. UNCHANGED <<at, identity, certWire, made>>
    BY <1>0, <1>3, TurnFrame DEF cells, history
  <2>2. PICK p \in Pc: /\ pc' = [pc EXCEPT ![w] = p] /\ p \in Exchange \cup {"failed", "idle"}
                       /\ pc[w] \in Exchange \cup {"failed", "refused"}
    BY <1>0, <1>3, TurnFrame
  <2>3. p \notin {"made", "half", "refused"}
    BY <2>2 DEF Exchange, Waiting, Signing
  <2>4. CASE ~Entered(w)
    BY <1>0, <1>1, <2>1, <2>2, <2>3, <2>4, SettingStays
  <2>5. CASE Entered(w)
    <3>1. pc[w] = "refused" /\ Setting[w].pc = "refused"
      BY <2>2, <2>5 DEF Entered, Exchange, Waiting, Signing, Setting, SetterOf
    <3>2. Setting' = [Setting EXCEPT ![w] = Shown(p, at[w])]
      <4>1. at'[w] = at[w] /\ \A u \in Callers \ {w}: at'[u] = at[u]
        BY <2>1
      <4>. QED
        BY <1>0, <2>2, <4>1, SettingMoves
    <3>3. Setting' = [Setting EXCEPT ![w] = Cells!Idle]
      BY <2>3, <3>2 DEF Shown, Cells!Idle
    <3>4. Cells!Return(w)
      BY <2>1, <3>1, <3>3 DEF Cells!Return, Setting
    <3>. QED
      BY <3>4 DEF Cells!Next, Cells!Setting
  <2>. QED
    BY <2>4, <2>5
<1>4. CASE World(w)
  <2>1. UNCHANGED <<pc, at, identity, certWire, made>>
    BY <1>0, <1>4, WorldFrame DEF process
  <2>2. UNCHANGED Setting
    BY <2>1 DEF Setting, SetterOf
  <2>. QED
    BY <1>1, <2>1, <2>2
<1>5. CASE Persist(w)
  <2>1. /\ pc' = [pc EXCEPT ![w] = "idle"] /\ ~Entered(w)
        /\ UNCHANGED <<at, identity, certWire, made>>
    BY <1>5 DEF Persist, Goto, Entered, cells, history
  <2>2. UNCHANGED Setting
    BY <1>0, <2>1, SettingStays
  <2>. QED
    BY <1>1, <2>1, <2>2
<1>. QED
  BY <1>2, <1>3, <1>4, <1>5

\* Whatever the network, the authority and the restarts do, the calls install
\* identities as IdentityCore says.
THEOREM ImplementsCells == Spec => CellsSpec
<1>1. IInv /\ [Next]_vars => [Cells!Next \/ (Cells!Init)']_(Cells!vars)
  <2> SUFFICES ASSUME IInv, [Next]_vars
               PROVE  Cells!Next \/ (Cells!Init)' \/ UNCHANGED Cells!vars
    OBVIOUS
  <2>1. CASE UNCHANGED vars
    <3>1. UNCHANGED <<pc, at, identity, certWire, made>>
      BY <2>1 DEF vars, cells, history
    <3>2. UNCHANGED Setting
      BY <3>1 DEF Setting, SetterOf
    <3>. QED
      BY <3>1, <3>2 DEF Cells!vars, Setting
  <2>2. CASE Crash
    BY <2>2, CellsRestart
  <2>3. ASSUME NEW w \in Callers, CertDone(w) \/ Generate(w) \/ Load(w) PROVE Cells!Next
    BY <2>3, CellsMake
  <2>4. ASSUME NEW w \in Callers, Refuse(w) \/ StoreCert(w) \/ StoreIdentity(w)
        PROVE  Cells!Next
    BY <2>4, CellsStores
  <2>5. ASSUME NEW w \in Callers,
               (\E h \in Enrolls: Begin(w, h)) \/ Turn(w) \/ World(w) \/ Persist(w)
        PROVE  Cells!Next \/ UNCHANGED Cells!vars
    BY <2>5, CellsElsewhere
  <2>. QED
    BY <2>1, <2>2, <2>3, <2>4, <2>5, NextCases
<1>. QED
  BY <1>1, CellsInit, Inductive, PTL DEF Spec, CellsSpec
=============================================================================
