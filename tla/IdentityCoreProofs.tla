------------------------- MODULE IdentityCoreProofs -------------------------
(***************************************************************************)
(* Proofs about IdentityCore: its type invariant for any number of         *)
(* threads, and for one installing thread the agreement of the two cells   *)
(* while they hold a certified identity, and the order of key and           *)
(* certificate in what announcements and boards show. The last theorems say *)
(* for which install calls the code's own comments hold.                   *)
(***************************************************************************)
EXTENDS IdentityCore, TLAPS

\* A thread inside an install holds the key of an install that was made.
KeysMade ==
    \A w \in Setters: /\ setter[w].key <= Len(made)
                      /\ setter[w].pc # "idle" => setter[w].key >= 1

TInv == TypeOK /\ KeysMade

\* What Append leaves alone.
LEMMA MadeGrows ==
    ASSUME NEW s \in Seq(Install), NEW x \in Install
    PROVE  /\ Append(s, x) \in Seq(Install)
           /\ Len(Append(s, x)) = Len(s) + 1
           /\ \A i \in 1 .. Len(s): Append(s, x)[i] = s[i]
           /\ Append(s, x)[Len(s) + 1] = x
  OBVIOUS

LEMMA InitTInv == Init => TInv
  <1> SUFFICES ASSUME Init PROVE TInv OBVIOUS
  <1> USE BoundAssumption
  <1>1. made \in Seq(Install) /\ Len(made) = 0
    BY DEF Init
  <1>2. 0 \in Key /\ identity = 0 /\ certWire = 0
    BY DEF Init, Key
  <1>3. setter \in [Setters -> SetterState]
    BY <1>2 DEF Init, Idle, SetterState
  <1>4. reader \in [Readers -> ReaderState]
    BY <1>2 DEF Init, Reading, ReaderState
  <1>5. TypeOK
    BY <1>1, <1>2, <1>3, <1>4 DEF TypeOK
  <1>6. KeysMade
    <2> SUFFICES ASSUME NEW w \in Setters
                 PROVE  setter[w].key <= Len(made) /\ setter[w].pc = "idle"
      BY DEF KeysMade
    <2>1. setter[w] = [pc |-> "idle", key |-> 0]
      BY DEF Init, Idle
    <2> QED BY <1>1, <2>1
  <1> QED BY <1>5, <1>6 DEF TInv

\* Within an install, a thread keeps its key or becomes idle.
LEMMA SetterMoves ==
    ASSUME TInv, NEW w \in Setters, setter[w].pc # "idle",
           NEW p \in {"half", "refused"}, UNCHANGED made,
           \/ setter' = [setter EXCEPT ![w] = [@ EXCEPT !.pc = p]]
           \/ setter' = [setter EXCEPT ![w] = Idle]
    PROVE  setter' \in [Setters -> SetterState] /\ KeysMade'
  <1>1. setter \in [Setters -> SetterState] /\ 0 \in Key /\ Len(made) \in Nat
    BY BoundAssumption DEF TInv, TypeOK, Key
  <1> DEFINE st == IF setter' = [setter EXCEPT ![w] = Idle]
                   THEN [pc |-> "idle", key |-> 0]
                   ELSE [pc |-> p, key |-> setter[w].key]
  <1>2. setter' = [setter EXCEPT ![w] = st]
    BY <1>1 DEF Idle, SetterState
  <1>3. st \in SetterState
    BY <1>1 DEF SetterState
  <1>4. setter' \in [Setters -> SetterState]
    BY <1>1, <1>2, <1>3
  <1>5. st.key <= Len(made) /\ (st.pc # "idle" => st.key >= 1)
    BY <1>1 DEF TInv, KeysMade, Key
  <1>6. ASSUME NEW v \in Setters
        PROVE  setter'[v].key <= Len(made) /\ (setter'[v].pc # "idle" => setter'[v].key >= 1)
    <2>1. setter'[v] = IF v = w THEN st ELSE setter[v]
      BY <1>1, <1>2
    <2> HIDE DEF st
    <2> QED BY <1>5, <2>1 DEF TInv, KeysMade
  <1> QED BY <1>4, <1>6 DEF KeysMade

\* Every step of an installing thread keeps TInv.
LEMMA SettingTInv ==
    ASSUME TInv, NEW w \in Setters, Setting(w)
    PROVE  TInv'
  <1> USE DEF TInv
  <1> DEFINE k == setter[w].key
  <1>0. setter[w] \in SetterState /\ k \in Key /\ k <= Len(made) /\ Len(made) \in Nat
    BY DEF TypeOK, KeysMade, SetterState
  <1>1. ASSUME NEW how \in Hows, NEW cert \in BOOLEAN, Make(w, how, cert)
        PROVE  TInv'
    <2> DEFINE x == [how |-> how, cert |-> cert]
    <2>1. x \in Install /\ made' = Append(made, x) /\ made \in Seq(Install)
      BY <1>1 DEF Install, Make, TypeOK
    <2>2. /\ made' \in Seq(Install)
          /\ Len(made') = Len(made) + 1
          /\ \A i \in 1 .. Len(made): made'[i] = made[i]
      BY <2>1, MadeGrows
    <2>3. Len(made') \in Key /\ Len(made') >= 1 /\ Len(made') <= MaxInstalls
      BY <1>0, <1>1, <2>2, BoundAssumption DEF Make, Key
    <2>4. setter' = [setter EXCEPT ![w] = [pc |-> "made", key |-> Len(made')]]
      BY <1>1, <2>2 DEF Make
    <2>5. UNCHANGED <<identity, certWire, reader>>
      BY <1>1 DEF Make
    <2>6. identity \in Nat /\ certWire \in Nat
      BY BoundAssumption DEF TypeOK, Key
    <2>7. certWire # 0 => made'[certWire] = made[certWire]
      BY <1>0, <2>2, <2>6 DEF TypeOK
    <2> DEFINE st == [pc |-> "made", key |-> Len(made')]
    <2>8. st \in SetterState
      BY <2>3 DEF SetterState
    <2>9. setter' \in [Setters -> SetterState]
      BY <2>4, <2>8 DEF TypeOK
    <2>10. TypeOK'
      BY <1>0, <2>2, <2>3, <2>5, <2>6, <2>7, <2>9 DEF TypeOK
    <2>11. ASSUME NEW v \in Setters
           PROVE  setter'[v].key <= Len(made') /\ (setter'[v].pc # "idle" => setter'[v].key >= 1)
      <3>1. setter'[v] = IF v = w THEN st ELSE setter[v]
        BY <2>4 DEF TypeOK
      <3>2. setter[v].key \in Nat
        BY BoundAssumption DEF TypeOK, SetterState, Key
      <3> QED BY <1>0, <2>2, <2>3, <3>1, <3>2 DEF KeysMade
    <2>12. KeysMade'
      BY <2>11 DEF KeysMade
    <2> QED BY <2>10, <2>12
  <1>2. CASE Refuse(w)
    <2>1. setter' = [setter EXCEPT ![w] = [@ EXCEPT !.pc = "refused"]] /\ setter[w].pc # "idle"
      BY <1>2 DEF Refuse
    <2>2. UNCHANGED <<identity, certWire, made, reader>>
      BY <1>2 DEF Refuse
    <2>3. setter' \in [Setters -> SetterState] /\ KeysMade'
      BY <2>1, <2>2, SetterMoves
    <2> QED BY <2>2, <2>3 DEF TypeOK
  <1>3. CASE StoreCert(w)
    <2>1. UNCHANGED <<identity, made, reader>> /\ certWire' = CertOf(k)
      BY <1>3 DEF StoreCert, StoredCert
    <2>2. made[k].how \in CertBearing
      BY <1>3 DEF StoreCert, HasCertStore, CertFirst, CertBearing
    <2>3. /\ certWire' \in Key /\ certWire' <= Len(made)
          /\ certWire' # 0 => made[certWire'].how \in CertBearing /\ made[certWire'].cert
      BY <1>0, <2>1, <2>2, BoundAssumption DEF CertOf, Key
    <2>4. \/ setter' = [setter EXCEPT ![w] = [@ EXCEPT !.pc = "half"]]
          \/ setter' = [setter EXCEPT ![w] = Idle]
      BY <1>3 DEF StoreCert
    <2>5. setter[w].pc # "idle"
      BY <1>3 DEF StoreCert
    <2>6. setter' \in [Setters -> SetterState] /\ KeysMade'
      BY <1>0, <2>1, <2>4, <2>5, SetterMoves
    <2> QED BY <2>1, <2>3, <2>6 DEF TypeOK
  <1>4. CASE StoreIdentity(w)
    <2>1. UNCHANGED <<certWire, made, reader>> /\ identity' = k
      BY <1>4 DEF StoreIdentity
    <2>4. \/ setter' = [setter EXCEPT ![w] = [@ EXCEPT !.pc = "half"]]
          \/ setter' = [setter EXCEPT ![w] = Idle]
      BY <1>4 DEF StoreIdentity
    <2>5. setter[w].pc # "idle"
      BY <1>4 DEF StoreIdentity
    <2>6. setter' \in [Setters -> SetterState] /\ KeysMade'
      BY <1>0, <2>1, <2>4, <2>5, SetterMoves
    <2> QED BY <1>0, <2>1, <2>6 DEF TypeOK
  <1>5. CASE Return(w)
    <2>1. setter' = [setter EXCEPT ![w] = Idle] /\ setter[w].pc # "idle"
      BY <1>5 DEF Return
    <2>2. UNCHANGED <<identity, certWire, made, reader>>
      BY <1>5 DEF Return
    <2>3. setter' \in [Setters -> SetterState] /\ KeysMade'
      BY <2>1, <2>2, SetterMoves
    <2> QED BY <2>2, <2>3 DEF TypeOK
  <1> QED BY <1>1, <1>2, <1>3, <1>4, <1>5 DEF Setting

\* Readers only touch their own record, and read typed values into it.
LEMMA UsingTInv ==
    ASSUME TInv, NEW r \in Readers, Using(r)
    PROVE  TInv'
  <1> USE DEF TInv
  <1>0. 0 \in Key /\ identity \in Key /\ certWire \in Key
    BY BoundAssumption DEF TypeOK, Key
  <1>1. UNCHANGED <<identity, certWire, made, setter>>
    BY DEF Using, AnnounceSigner, AnnounceCert, BoardSigner, BoardName, PrincipalCert, SelfCert, Finish
  <1>2. PICK st \in ReaderState: reader' = [reader EXCEPT ![r] = st]
    <2>0. reader[r] \in ReaderState
      BY DEF TypeOK
    <2>1. CASE AnnounceSigner(r) \/ BoardSigner(r)
      BY <2>1, <1>0 DEF AnnounceSigner, BoardSigner, ReaderState
    <2>2. CASE AnnounceCert(r)
      <3>1. reader' = [reader EXCEPT ![r] = [@ EXCEPT !.pc = "announced", !.cert = certWire]]
        BY <2>2 DEF AnnounceCert
      <3> QED BY <3>1, <2>0, <1>0 DEF ReaderState
    <2>3. CASE BoardName(r)
      <3>1. reader' = [reader EXCEPT ![r] = [@ EXCEPT !.pc = "named", !.name = identity]]
        BY <2>3 DEF BoardName
      <3> QED BY <3>1, <2>0, <1>0 DEF ReaderState
    <2>4. CASE PrincipalCert(r)
      <3> DEFINE p == IF certWire # 0 THEN "open" ELSE "bare"
      <3>1. reader' = [reader EXCEPT ![r] = [@ EXCEPT !.pc = p, !.cert = certWire]]
        BY <2>4 DEF PrincipalCert
      <3> QED BY <3>1, <2>0, <1>0 DEF ReaderState
    <2>6. CASE SelfCert(r)
      <3>1. reader' = [reader EXCEPT ![r] = [@ EXCEPT !.pc = "open", !.cert = identity]]
        BY <2>6 DEF SelfCert
      <3> QED BY <3>1, <2>0, <1>0 DEF ReaderState
    <2>5. CASE Finish(r)
      BY <2>5, <1>0 DEF Finish, Reading, ReaderState
    <2> QED BY <2>1, <2>2, <2>3, <2>4, <2>5, <2>6 DEF Using
  <1>3. reader' \in [Readers -> ReaderState]
    BY <1>2 DEF TypeOK
  <1> QED BY <1>1, <1>3 DEF TypeOK, KeysMade

LEMMA StepTInv == TInv /\ [Next]_vars => TInv'
  <1> SUFFICES ASSUME TInv, [Next]_vars PROVE TInv'
    OBVIOUS
  <1>1. CASE UNCHANGED vars
    BY <1>1 DEF vars, TInv, TypeOK, KeysMade
  <1> QED BY <1>1, SettingTInv, UsingTInv DEF Next

\* The type invariant of the two cells, their writers and their readers, for
\* any number of threads.
THEOREM TypeCorrect == Spec => []TypeOK
  <1>1. TInv => TypeOK
    BY DEF TInv
  <1> QED BY <1>1, InitTInv, StepTInv, PTL DEF Spec

----------------------------------------------------------------------------
(* One installing thread                                                   *)

OneSetter == \E w \in Setters: Setters = {w}

\* The cells hold what CellsAgree says.
Agree ==
    /\ identity = 0 => certWire = 0
    /\ identity # 0 /\ made[identity].how \in CertBearing => certWire = CertOf(identity)

\* What CellsAgree needs at every point of an install: outside the two stores
\* the cells agree, between them exactly one of them is new. The key of an
\* install under way is the newest.
CellInvAt(w) ==
    LET k == setter[w].key IN
    /\ setter[w].pc # "half" => Agree
    /\ setter[w].pc = "made" => k = Len(made) /\ identity < k
    /\ setter[w].pc = "half" => k = Len(made) /\ Stored(k)
    /\ setter[w].pc = "half" /\ CertFirst(k) => identity < k /\ certWire = CertOf(k)
    /\ setter[w].pc = "half" /\ ~CertFirst(k) => identity = k

CellInv == \A w \in Setters: CellInvAt(w)

LoadedInv == identity # 0 => ~Refused(identity)

IInv == TInv /\ CellInv /\ LoadedInv

\* Appending an install changes nothing about the earlier ones.
LEMMA OldInstalls ==
    ASSUME TInv, NEW x \in Install, made' = Append(made, x)
    PROVE  /\ Len(made') = Len(made) + 1
           /\ \A i \in 1 .. Len(made):
                  /\ made'[i] = made[i]
                  /\ Stored(i)' = Stored(i) /\ CertOf(i)' = CertOf(i)
                  /\ Refused(i)' = Refused(i)
  <1>1. /\ Len(made') = Len(made) + 1
        /\ \A i \in 1 .. Len(made): made'[i] = made[i]
    BY MadeGrows DEF TInv, TypeOK
  <1> QED BY <1>1 DEF Stored, CertOf, Refused

LEMMA InitCells == ASSUME OneSetter, Init PROVE CellInv /\ LoadedInv
  <1>1. identity = 0 /\ certWire = 0
    BY DEF Init
  <1>2. \A w \in Setters: setter[w].pc = "idle"
    BY DEF Init, Idle
  <1>3. CellInv
    BY <1>1, <1>2 DEF CellInv, CellInvAt, Agree
  <1> QED BY <1>1, <1>3 DEF LoadedInv

\* The installing thread takes a step.
LEMMA SettingCells ==
    ASSUME IInv, NEW w \in Setters, Setting(w)
    PROVE  CellInvAt(w)' /\ LoadedInv'
  <1> DEFINE k == setter[w].key
  <1> DEFINE n == Len(made)
  <1>0. /\ n \in Nat /\ identity \in 0 .. n /\ k \in 0 .. n /\ made \in Seq(Install)
        /\ setter \in [Setters -> SetterState] /\ setter[w] \in SetterState
        /\ (setter[w].pc # "idle" => k >= 1)
    BY BoundAssumption DEF IInv, TInv, TypeOK, KeysMade, Key, SetterState
  <1>c. /\ setter[w].pc # "half" => Agree
        /\ setter[w].pc = "made" => k = n /\ identity < k
        /\ setter[w].pc = "half" => k = n /\ Stored(k)
        /\ setter[w].pc = "half" /\ CertFirst(k) => identity < k /\ certWire = CertOf(k)
        /\ setter[w].pc = "half" /\ ~CertFirst(k) => identity = k
    BY DEF IInv, CellInv, CellInvAt
  <1>u. \A i: BagFails(i) <=> Refused(i)
    BY DEF BagFails
  <1>1. ASSUME NEW how \in Hows, NEW cert \in BOOLEAN, Make(w, how, cert)
        PROVE  CellInvAt(w)' /\ LoadedInv'
    <2> DEFINE x == [how |-> how, cert |-> cert]
    <2>1. x \in Install /\ made' = Append(made, x)
      BY <1>1 DEF Install, Make
    <2>2. /\ Len(made') = n + 1
          /\ \A i \in 1 .. n: /\ made'[i] = made[i] /\ CertOf(i)' = CertOf(i)
                              /\ Refused(i)' = Refused(i)
      BY <2>1, OldInstalls DEF IInv
    <2>3. setter'[w].pc = "made" /\ setter'[w].key = n + 1
      <3>1. setter' = [setter EXCEPT ![w] = [pc |-> "made", key |-> n + 1]]
        BY <1>1 DEF Make
      <3> QED BY <1>0, <3>1
    <2>4. UNCHANGED <<identity, certWire>> /\ Agree
      BY <1>1, <1>c DEF Make
    <2>5. identity # 0 => identity \in 1 .. n
      BY <1>0
    <2>6. Agree'
      BY <2>2, <2>4, <2>5 DEF Agree, CertOf
    <2>7. CellInvAt(w)'
      BY <1>0, <2>2, <2>3, <2>4, <2>6 DEF CellInvAt
    <2>8. LoadedInv'
      BY <2>2, <2>4, <2>5 DEF IInv, LoadedInv, Refused
    <2> QED BY <2>7, <2>8
  <1>2. CASE Refuse(w)
    <2>1. UNCHANGED <<identity, certWire, made>> /\ setter[w].pc = "made"
      BY <1>2 DEF Refuse
    <2>2. setter'[w].pc = "refused"
      <3>1. setter' = [setter EXCEPT ![w] = [@ EXCEPT !.pc = "refused"]]
        BY <1>2 DEF Refuse
      <3> QED BY <1>0, <3>1 DEF SetterState
    <2> QED BY <1>c, <2>1, <2>2 DEF CellInvAt, Agree, CertOf, Refused, IInv, LoadedInv
  <1>3. CASE StoreCert(w)
    <2>1. UNCHANGED <<identity, made>> /\ certWire' = CertOf(k)
      BY <1>3 DEF StoreCert, StoredCert
    <2>2. LoadedInv'
      BY <2>1 DEF IInv, LoadedInv, Refused
    <2>3. CASE setter[w].pc = "made"
      <3>1. CertFirst(k) /\ Stored(k)
        BY <1>3, <1>u, <2>3 DEF StoreCert, HasCertStore, Stored
      <3>2. setter'[w].pc = "half" /\ setter'[w].key = k
        <4>1. setter' = [setter EXCEPT ![w] = [@ EXCEPT !.pc = "half"]]
          BY <1>3, <3>1 DEF StoreCert
        <4> QED BY <1>0, <4>1 DEF SetterState
      <3> QED BY <1>c, <2>1, <2>2, <2>3, <3>1, <3>2
              DEF CellInvAt, CertFirst, Stored, Refused, CertOf
    <2>4. CASE setter[w].pc = "half"
      <3>1. ~CertFirst(k) /\ identity = k /\ k # 0
        BY <1>0, <1>3, <1>c, <2>4 DEF StoreCert
      <3>2. setter'[w].pc = "idle"
        <4>1. setter' = [setter EXCEPT ![w] = Idle]
          BY <1>3, <3>1 DEF StoreCert
        <4> QED BY <1>0, <4>1 DEF Idle
      <3>3. Agree'
        BY <2>1, <3>1 DEF Agree, CertOf
      <3> QED BY <2>2, <3>2, <3>3 DEF CellInvAt
    <2> QED BY <1>3, <2>3, <2>4 DEF StoreCert
  <1>4. CASE StoreIdentity(w)
    <2>1. UNCHANGED <<certWire, made>> /\ identity' = k
      BY <1>4 DEF StoreIdentity
    <2>2. setter[w].pc \in {"made", "half"} /\ k = n /\ k \in Nat \ {0} /\ identity < k
      BY <1>0, <1>4, <1>c DEF StoreIdentity
    <2>3. ~Refused(k)
      BY <1>4, <1>c, <1>u DEF StoreIdentity, Stored
    <2>4. LoadedInv'
      BY <2>1, <2>3 DEF LoadedInv, Refused
    <2>5. CASE ~CertFirst(k)
      <3>1. setter'[w].pc = "half" /\ setter'[w].key = k
        <4>1. setter' = [setter EXCEPT ![w] = [@ EXCEPT !.pc = "half"]]
          BY <1>4, <2>5 DEF StoreIdentity
        <4> QED BY <1>0, <4>1 DEF SetterState
      <3>2. Stored(k)
        BY <2>3, <2>5 DEF Stored, CertFirst, CertBearing
      <3> QED BY <2>1, <2>2, <2>4, <2>5, <3>1, <3>2
              DEF CellInvAt, CertFirst, Stored, Refused
    <2>6. CASE CertFirst(k)
      <3>1. setter'[w].pc = "idle"
        <4>1. setter' = [setter EXCEPT ![w] = Idle]
          BY <1>4, <2>6 DEF StoreIdentity
        <4> QED BY <1>0, <4>1 DEF Idle
      <3>2. made[k].how \in CertBearing => certWire = CertOf(k)
        BY <1>4, <1>c, <2>6 DEF StoreIdentity, HasCertStore
      <3>3. Agree'
        BY <2>1, <2>2, <3>2 DEF Agree, CertOf
      <3> QED BY <2>4, <3>1, <3>3 DEF CellInvAt
    <2> QED BY <2>5, <2>6
  <1>5. CASE Return(w)
    <2>1. UNCHANGED <<identity, certWire, made>> /\ setter[w].pc = "refused"
      BY <1>5 DEF Return
    <2>2. setter'[w].pc = "idle"
      <3>1. setter' = [setter EXCEPT ![w] = Idle]
        BY <1>5 DEF Return
      <3> QED BY <1>0, <3>1 DEF Idle
    <2> QED BY <1>c, <2>1, <2>2 DEF CellInvAt, Agree, CertOf, Refused, IInv, LoadedInv
  <1> QED BY <1>1, <1>2, <1>3, <1>4, <1>5 DEF Setting

\* A step that leaves the cells, the installs and the setters alone.
LEMMA UnchangedCells ==
    ASSUME CellInv, LoadedInv, UNCHANGED <<identity, certWire, made, setter>>
    PROVE  CellInv' /\ LoadedInv'
  BY DEF CellInv, CellInvAt, LoadedInv, Agree, Stored, CertOf, CertFirst, Refused

LEMMA UsingReadsOnly ==
    ASSUME NEW r \in Readers, Using(r)
    PROVE  UNCHANGED <<identity, certWire, made, setter>>
  BY DEF Using, AnnounceSigner, AnnounceCert, BoardSigner, BoardName, PrincipalCert,
         SelfCert, Finish

LEMMA StepIInv == ASSUME OneSetter PROVE IInv /\ [Next]_vars => IInv'
  <1> SUFFICES ASSUME IInv, [Next]_vars PROVE CellInv' /\ LoadedInv'
    BY StepTInv DEF IInv
  <1>1. CASE UNCHANGED vars
    BY <1>1, UnchangedCells DEF vars, IInv
  <1>2. ASSUME NEW r \in Readers, Using(r) PROVE CellInv' /\ LoadedInv'
    BY <1>2, UsingReadsOnly, UnchangedCells DEF IInv
  <1>3. ASSUME NEW w \in Setters, Setting(w) PROVE CellInv' /\ LoadedInv'
    <2>1. CellInvAt(w)' /\ LoadedInv'
      BY <1>3, SettingCells
    <2>2. Setters = {w}
      BY DEF OneSetter
    <2> QED BY <2>1, <2>2 DEF CellInv
  <1> QED BY <1>1, <1>2, <1>3 DEF Next

LEMMA IInvAlways == ASSUME OneSetter PROVE Spec => []IInv
  <1>1. Init => IInv
    BY InitTInv, InitCells DEF IInv
  <1>2. IInv /\ [Next]_vars => IInv'
    BY StepIInv
  <1> QED BY <1>1, <1>2, PTL DEF Spec

\* With one installing thread, whenever no install is between its stores: an
\* identity that came with its certificate is served with that one, whatever
\* calls came before it, and no identity means no certificate.
THEOREM CellsStayInAgreement == ASSUME OneSetter PROVE Spec => []CellsAgree
  <1>1. IInv => CellsAgree
    <2> SUFFICES ASSUME IInv, Settled PROVE Agree
      BY DEF CellsAgree, Agree
    <2>1. PICK w \in Setters: setter[w].pc # "half"
      BY DEF Settled, OneSetter
    <2> QED BY <2>1 DEF IInv, CellInv, CellInvAt
  <1> QED BY <1>1, IInvAlways, PTL

\* The field comment of cert_wire holds of a program that installs identities by
\* the calls that store a certificate: the cell then has the loaded identity's or
\* none. The four other calls leave the certificate of the identity before.
THEOREM CertificateIsLoadedOnes ==
    ASSUME OneSetter, Hows \subseteq CertBearing
    PROVE  Spec => []CertOfLoaded
  <1>1. IInv => CertOfLoaded
    <2> SUFFICES ASSUME IInv, Settled PROVE certWire \in {0, identity}
      BY DEF CertOfLoaded
    <2>1. PICK w \in Setters: setter[w].pc # "half"
      BY DEF Settled, OneSetter
    <2>2. Agree
      BY <2>1 DEF IInv, CellInv, CellInvAt
    <2>3. identity # 0 => made[identity].how \in CertBearing
      <3>1. identity # 0 => identity \in 1 .. Len(made)
        BY BoundAssumption DEF IInv, TInv, TypeOK, Key
      <3>2. made \in Seq(Install)
        BY DEF IInv, TInv, TypeOK
      <3>3. identity # 0 => made[identity] \in Install
        BY <3>1, <3>2
      <3> QED BY <3>3 DEF Install
    <2> QED BY <2>2, <2>3 DEF Agree, CertOf
  <1> QED BY <1>1, IInvAlways, PTL

\* A key whose enrollment ended in an error is never the loaded identity.
THEOREM RefusedStaysOut == ASSUME OneSetter PROVE Spec => []RefusedNeverLoaded
  <1>1. IInv => RefusedNeverLoaded
    BY DEF IInv, LoadedInv, RefusedNeverLoaded
  <1> QED BY <1>1, IInvAlways, PTL

----------------------------------------------------------------------------
(* What the readers see                                                    *)

\* The certificate c is that of an install no older than key k, or the nothing
\* such an install stored.
Since(k, c) == \E j \in k .. Len(made): Stored(j) /\ c = CertOf(j)

\* A reader that has taken key k and will read the certificate cell next.
Pending(k) == k \in 1 .. identity /\ (CertBefore(k) => Since(k, certWire))

\* A reader that shows certificate c with key k.
Shown(k, c) == k \in 1 .. identity /\ (CertBefore(k) => NotBehind(k, c))

\* Where a reader with record v stands: between its reads the certificate cell
\* is no older than the key it took, after them what it shows is not.
ReaderInv(v) ==
    /\ v.pc = "signing" => Pending(v.signer)
    /\ v.pc = "opening" => identity # 0
    /\ v.pc = "named" => Pending(v.name)
    /\ v.pc = "bare" => v.name \in 1 .. identity
    /\ v.pc = "announced" => Shown(v.signer, v.cert)
    /\ v.pc = "open" => Shown(v.name, v.cert)

FreshInv ==
    /\ identity # 0 => Pending(identity)
    /\ \A r \in Readers: ReaderInv(reader[r])

\* What a step may do to the cells: identities and installs only move forward,
\* a new certificate is the newest install's, and an identity whose install
\* stores its certificate first finds it in place.
LEMMA CellSteps ==
    ASSUME IInv, [Next]_vars
    PROVE  /\ identity \in Nat /\ identity' \in Nat /\ identity <= identity'
           /\ identity' <= Len(made')
           /\ Len(made) \in Nat /\ Len(made') \in Nat /\ Len(made) <= Len(made')
           /\ \A i \in 1 .. Len(made): /\ made'[i] = made[i]
                                       /\ Stored(i)' = Stored(i)
                                       /\ CertOf(i)' = CertOf(i)
                                       /\ CertBefore(i)' = CertBefore(i)
           /\ \/ certWire' = certWire
              \/ /\ Len(made') = Len(made) /\ Len(made) >= 1
                 /\ Stored(Len(made)) /\ certWire' = CertOf(Len(made))
           /\ \/ identity' = identity
              \/ /\ certWire' = certWire /\ identity' = Len(made) /\ Len(made) >= 1
                 /\ Len(made') = Len(made)
                 /\ CertBefore(Len(made)) =>
                        Stored(Len(made)) /\ certWire = CertOf(Len(made))
  <1> DEFINE n == Len(made)
  <1>0. /\ n \in Nat /\ identity \in 0 .. n /\ made \in Seq(Install)
    BY BoundAssumption DEF IInv, TInv, TypeOK, Key
  <1>1. ASSUME made' = made
        PROVE  \A i \in 1 .. n: /\ made'[i] = made[i] /\ Stored(i)' = Stored(i)
                                /\ CertOf(i)' = CertOf(i) /\ CertBefore(i)' = CertBefore(i)
    BY <1>1 DEF Stored, CertOf, CertBefore, Refused
  <1>2. CASE UNCHANGED vars
    BY <1>0, <1>1, <1>2 DEF vars
  <1>3. ASSUME NEW r \in Readers, Using(r) PROVE UNCHANGED <<identity, certWire, made>>
    BY <1>3, UsingReadsOnly
  <1>4. ASSUME NEW w \in Setters, Setting(w),
               ~(\E how \in Hows, cert \in BOOLEAN: Make(w, how, cert))
        PROVE  /\ made' = made
               /\ \/ UNCHANGED <<identity, certWire>>
                  \/ /\ identity' = identity /\ n >= 1
                     /\ Stored(n) /\ certWire' = CertOf(n)
                  \/ /\ certWire' = certWire /\ identity' = n /\ identity < n
                     /\ CertBefore(n) => Stored(n) /\ certWire = CertOf(n)
    <2> DEFINE k == setter[w].key
    <2>1. CellInvAt(w) /\ (setter[w].pc # "idle" => k >= 1)
      BY DEF IInv, CellInv, TInv, KeysMade
    <2>2. CASE Refuse(w) \/ Return(w)
      BY <2>2 DEF Refuse, Return
    <2>3. CASE StoreCert(w)
      <3>1. made' = made /\ identity' = identity /\ certWire' = CertOf(k)
        BY <2>3 DEF StoreCert, StoredCert
      <3>2. k = n /\ n >= 1 /\ Stored(n)
        BY <2>1, <2>3 DEF StoreCert, CellInvAt, BagFails, HasCertStore, Stored
      <3> QED BY <3>1, <3>2
    <2>4. CASE StoreIdentity(w)
      <3>1. made' = made /\ certWire' = certWire /\ identity' = k
        BY <2>4 DEF StoreIdentity
      <3>2. k = n /\ identity < n
        BY <2>1, <2>4 DEF StoreIdentity, CellInvAt
      <3>3. CertBefore(k) => Stored(k) /\ certWire = CertOf(k)
        BY <2>1, <2>4 DEF StoreIdentity, CellInvAt, CertBefore, CertFirst, HasCertStore
      <3> QED BY <3>1, <3>2, <3>3
    <2> QED BY <1>4, <2>2, <2>3, <2>4 DEF Setting
  <1>5. ASSUME NEW w \in Setters, NEW how \in Hows, NEW cert \in BOOLEAN, Make(w, how, cert)
        PROVE  /\ UNCHANGED <<identity, certWire>>
               /\ Len(made') = n + 1
               /\ \A i \in 1 .. n: /\ made'[i] = made[i] /\ Stored(i)' = Stored(i)
                                   /\ CertOf(i)' = CertOf(i)
                                   /\ CertBefore(i)' = CertBefore(i)
    <2> DEFINE x == [how |-> how, cert |-> cert]
    <2>1. x \in Install /\ made' = Append(made, x) /\ UNCHANGED <<identity, certWire>>
      BY <1>5 DEF Install, Make
    <2>2. /\ Len(made') = n + 1
          /\ \A i \in 1 .. n: /\ made'[i] = made[i] /\ Stored(i)' = Stored(i)
                              /\ CertOf(i)' = CertOf(i)
      BY <2>1, OldInstalls DEF IInv
    <2> QED BY <2>1, <2>2 DEF CertBefore
  <1> QED BY <1>0, <1>1, <1>2, <1>3, <1>4, <1>5 DEF Next

\* A step keeps what a certificate, the cell or a shown pair stands for.
LEMMA PairsKept ==
    ASSUME IInv, [Next]_vars, NEW k, NEW c
    PROVE  /\ Pending(k) => Pending(k)'
           /\ Shown(k, c) => Shown(k, c)'
  <1>0. /\ identity \in Nat /\ identity <= identity' /\ identity' \in Nat
        /\ identity <= Len(made) /\ Len(made) \in Nat
        /\ Len(made') \in Nat /\ Len(made) <= Len(made')
    BY CellSteps DEF IInv, TInv, TypeOK
  <1>1. \A i \in 1 .. Len(made): /\ made'[i] = made[i] /\ Stored(i)' = Stored(i)
                                 /\ CertOf(i)' = CertOf(i)
                                 /\ CertBefore(i)' = CertBefore(i)
    BY CellSteps
  <1>2. ASSUME k \in 1 .. identity PROVE k \in 1 .. identity' /\ CertBefore(k)' = CertBefore(k)
    BY <1>0, <1>1, <1>2
  <1>3. ASSUME k \in 1 .. identity, Since(k, certWire) PROVE Since(k, certWire)'
    <2>1. PICK j \in k .. Len(made): Stored(j) /\ certWire = CertOf(j)
      BY <1>3 DEF Since
    <2>2. /\ j \in k .. Len(made') /\ j \in 1 .. Len(made)
          /\ Len(made) \in k .. Len(made')
      BY <1>0, <1>3, <2>1
    <2>3. Stored(j)' /\ certWire = CertOf(j)'
      BY <1>1, <2>1, <2>2
    <2>4. CASE certWire' = certWire
      BY <2>2, <2>3, <2>4 DEF Since
    <2>5. CASE certWire' # certWire
      <3>1. /\ Len(made) >= 1 /\ Stored(Len(made)) /\ certWire' = CertOf(Len(made))
            /\ Len(made') = Len(made)
        BY <2>5, CellSteps
      <3>2. PICK l \in 1 .. Len(made): l = Len(made)
        BY <1>0, <3>1
      <3>3. Stored(l) /\ certWire' = CertOf(l) /\ l \in k .. Len(made')
        BY <2>2, <3>1, <3>2
      <3>4. Stored(l)' /\ certWire' = CertOf(l)'
        BY <1>1, <3>3
      <3> QED BY <3>3, <3>4 DEF Since
    <2> QED BY <2>4, <2>5
  <1>4. ASSUME k \in 1 .. identity, NotBehind(k, c) PROVE NotBehind(k, c)'
    <2>1. CASE c >= k
      BY <2>1 DEF NotBehind
    <2>2. CASE c = 0 /\ \E j \in k .. Len(made): Stored(j) /\ ~made[j].cert
      <3>1. PICK j \in k .. Len(made): Stored(j) /\ ~made[j].cert
        BY <2>2
      <3>2. j \in 1 .. Len(made) /\ j \in k .. Len(made')
        BY <1>0, <1>4
      <3>3. Stored(j)' /\ ~made'[j].cert
        BY <1>1, <3>1, <3>2
      <3> QED BY <2>2, <3>2, <3>3 DEF NotBehind
    <2> QED BY <1>4, <2>1, <2>2 DEF NotBehind
  <1> QED BY <1>2, <1>3, <1>4 DEF Pending, Shown

\* What the cell holds for a pending key may be shown with it.
LEMMA PendingShown ==
    ASSUME NEW k, Pending(k), identity \in Nat PROVE Shown(k, certWire)
  <1>1. ASSUME CertBefore(k) PROVE NotBehind(k, certWire)
    <2>1. PICK j \in k .. Len(made): Stored(j) /\ certWire = CertOf(j)
      BY <1>1 DEF Pending, Since
    <2>2. k \in Nat
      BY DEF Pending
    <2> QED BY <2>1, <2>2 DEF NotBehind, CertOf
  <1> QED BY <1>1 DEF Pending, Shown

\* A step keeps what it says of a reader's record that it does not change.
LEMMA RecordKept ==
    ASSUME IInv, [Next]_vars, NEW v, ReaderInv(v) PROVE ReaderInv(v)'
  <1>1. /\ Pending(v.signer) => Pending(v.signer)'
        /\ Pending(v.name) => Pending(v.name)'
        /\ Shown(v.signer, v.cert) => Shown(v.signer, v.cert)'
        /\ Shown(v.name, v.cert) => Shown(v.name, v.cert)'
    BY PairsKept
  <1>2. identity \in Nat /\ identity' \in Nat /\ identity <= identity'
    BY CellSteps
  <1> QED BY <1>1, <1>2 DEF ReaderInv


\* A reader reads a cell into its record, the certificate last.
LEMMA ReaderReads ==
    ASSUME IInv, FreshInv, NEW r \in Readers, Using(r)
    PROVE  \E v \in ReaderState: reader' = [reader EXCEPT ![r] = v] /\ ReaderInv(v)
  <1>0. /\ identity \in Key /\ identity \in Nat /\ certWire \in Key /\ 0 \in Key
        /\ reader[r] \in ReaderState
    BY BoundAssumption DEF IInv, TInv, TypeOK, Key
  <1>1. (identity # 0 => Pending(identity)) /\ ReaderInv(reader[r])
    BY DEF FreshInv
  <1>2. CASE AnnounceSigner(r)
    <2> DEFINE v == [pc |-> "signing", signer |-> identity, name |-> identity, cert |-> 0]
    <2>1. reader' = [reader EXCEPT ![r] = v] /\ identity # 0
      BY <1>2 DEF AnnounceSigner
    <2>2. v \in ReaderState
      BY <1>0 DEF ReaderState
    <2>3. ReaderInv(v)
      BY <1>1, <2>1 DEF ReaderInv
    <2> QED BY <2>1, <2>2, <2>3
  <1>3. CASE AnnounceCert(r)
    <2> DEFINE v == [reader[r] EXCEPT !.pc = "announced", !.cert = certWire]
    <2>1. reader' = [reader EXCEPT ![r] = v] /\ reader[r].pc = "signing"
      BY <1>3 DEF AnnounceCert
    <2>2. /\ v \in ReaderState /\ v.pc = "announced" /\ v.cert = certWire
          /\ v.signer = reader[r].signer
      BY <1>0 DEF ReaderState
    <2>3. Shown(v.signer, certWire)
      BY <1>0, <1>1, <2>1, <2>2, PendingShown DEF ReaderInv
    <2>4. ReaderInv(v)
      BY <2>2, <2>3 DEF ReaderInv
    <2> QED BY <2>1, <2>2, <2>4
  <1>4. CASE BoardSigner(r)
    <2> DEFINE v == [pc |-> "opening", signer |-> identity, name |-> 0, cert |-> 0]
    <2>1. reader' = [reader EXCEPT ![r] = v] /\ identity # 0
      BY <1>4 DEF BoardSigner
    <2>2. v \in ReaderState
      BY <1>0 DEF ReaderState
    <2>3. ReaderInv(v)
      BY <2>1 DEF ReaderInv
    <2> QED BY <2>1, <2>2, <2>3
  <1>5. CASE BoardName(r)
    <2> DEFINE v == [reader[r] EXCEPT !.pc = "named", !.name = identity]
    <2>1. reader' = [reader EXCEPT ![r] = v] /\ reader[r].pc = "opening"
      BY <1>5 DEF BoardName
    <2>2. v \in ReaderState /\ v.pc = "named" /\ v.name = identity
      BY <1>0 DEF ReaderState
    <2>3. ReaderInv(v)
      BY <1>1, <2>1, <2>2 DEF ReaderInv
    <2> QED BY <2>1, <2>2, <2>3
  <1>6. CASE PrincipalCert(r)
    <2> DEFINE p == IF certWire # 0 THEN "open" ELSE "bare"
    <2> DEFINE v == [reader[r] EXCEPT !.pc = p, !.cert = certWire]
    <2>1. reader' = [reader EXCEPT ![r] = v] /\ reader[r].pc = "named"
      BY <1>6 DEF PrincipalCert
    <2>2. /\ v \in ReaderState /\ v.pc \in {"open", "bare"} /\ v.cert = certWire
          /\ v.name = reader[r].name
      BY <1>0 DEF ReaderState
    <2>3. Shown(v.name, certWire) /\ v.name \in 1 .. identity
      BY <1>0, <1>1, <2>1, <2>2, PendingShown DEF ReaderInv, Pending
    <2>4. ReaderInv(v)
      BY <2>2, <2>3 DEF ReaderInv
    <2> QED BY <2>1, <2>2, <2>4
  <1>7. CASE SelfCert(r)
    <2> DEFINE v == [reader[r] EXCEPT !.pc = "open", !.cert = identity]
    <2>1. reader' = [reader EXCEPT ![r] = v] /\ reader[r].pc = "bare"
      BY <1>7 DEF SelfCert
    <2>2. /\ v \in ReaderState /\ v.pc = "open" /\ v.cert = identity
          /\ v.name = reader[r].name
      BY <1>0 DEF ReaderState
    <2>3. Shown(v.name, identity)
      BY <1>0, <1>1, <2>1, <2>2 DEF ReaderInv, Shown, NotBehind
    <2>4. ReaderInv(v)
      BY <2>2, <2>3 DEF ReaderInv
    <2> QED BY <2>1, <2>2, <2>4
  <1>8. CASE Finish(r)
    <2>1. reader' = [reader EXCEPT ![r] = Reading] /\ Reading.pc = "idle"
      BY <1>8 DEF Finish, Reading
    <2>2. Reading \in ReaderState
      BY <1>0 DEF Reading, ReaderState
    <2> QED BY <2>1, <2>2 DEF ReaderInv
  <1> QED BY <1>2, <1>3, <1>4, <1>5, <1>6, <1>7, <1>8 DEF Using

LEMMA StepFresh ==
    ASSUME IInv, FreshInv, [Next]_vars PROVE FreshInv'
  <1>1. identity # 0 => Pending(identity)
    BY DEF FreshInv
  <1>2. identity' # 0 => Pending(identity)'
    <2>1. CASE identity' = identity
      <3>1. ASSUME NEW i, i = identity, i # 0 PROVE Pending(i)'
        BY <1>1, <3>1, PairsKept
      <3> QED BY <2>1, <3>1 DEF Pending, Since, CertBefore
    <2>2. CASE identity' # identity
      <3>1. PICK n: n = Len(made)
        OBVIOUS
      <3>2. /\ certWire' = certWire /\ identity' = n /\ Len(made') = n /\ n \in Nat /\ n >= 1
            /\ CertBefore(n) => Stored(n) /\ certWire = CertOf(n)
        BY <2>2, <3>1, CellSteps
      <3>3. /\ CertBefore(n)' = CertBefore(n) /\ Stored(n)' = Stored(n)
            /\ CertOf(n)' = CertOf(n)
        BY <3>1, <3>2, CellSteps
      <3>4. CertBefore(n)' => Since(n, certWire)'
        BY <3>2, <3>3 DEF Since
      <3>5. Pending(n)'
        BY <3>2, <3>4 DEF Pending
      <3> QED BY <3>2, <3>5 DEF Pending, Since, CertBefore
    <2> QED BY <2>1, <2>2
  <1>3. ASSUME NEW q \in Readers PROVE ReaderInv(reader[q])'
    <2>1. PICK v: ReaderInv(v) /\ reader'[q] = v
      <3>1. CASE reader' = reader
        BY <3>1 DEF FreshInv
      <3>2. ASSUME NEW r \in Readers, Using(r) PROVE \E v: ReaderInv(v) /\ reader'[q] = v
        <4>1. PICK v \in ReaderState: reader' = [reader EXCEPT ![r] = v] /\ ReaderInv(v)
          BY <3>2, ReaderReads
        <4>2. reader'[q] = IF q = r THEN v ELSE reader[q]
          BY <4>1 DEF IInv, TInv, TypeOK
        <4> QED BY <4>1, <4>2 DEF FreshInv
      <3>3. ASSUME NEW w \in Setters, Setting(w) PROVE reader' = reader
        BY <3>3 DEF Setting, Make, Refuse, StoreCert, StoreIdentity, Return
      <3> QED BY <3>1, <3>2, <3>3 DEF Next, vars
    <2>2. ReaderInv(v)'
      BY <2>1, RecordKept
    <2> QED BY <2>1, <2>2 DEF ReaderInv
  <1> QED BY <1>2, <1>3 DEF FreshInv

LEMMA FreshAlways == ASSUME OneSetter PROVE Spec => []FreshInv
  <1>1. Init => FreshInv
    <2> SUFFICES ASSUME Init PROVE FreshInv
      OBVIOUS
    <2>1. identity = 0 /\ \A r \in Readers: reader[r].pc = "idle"
      BY DEF Init, Reading
    <2> QED BY <2>1 DEF FreshInv, ReaderInv
  <1>2. IInv /\ FreshInv /\ [Next]_vars => FreshInv'
    BY StepFresh
  <1> QED BY <1>1, <1>2, IInvAlways, PTL DEF Spec

\* With one installing thread, and all nine install calls around it: a key that
\* was stored after its certificate is shown by no announcement and no board
\* with a certificate older than it.
THEOREM CertificatesStayFresh ==
    ASSUME OneSetter
    PROVE  Spec => []CertNeverBehindSigner
  <1>1. FreshInv => CertNeverBehindSigner
    BY DEF FreshInv, ReaderInv, Shown, CertNeverBehindSigner
  <1> QED BY <1>1, FreshAlways, PTL

\* The comments of announce_prefix and use_remote_signer hold of a program that
\* installs identities only by calls that store the certificate first: no key at
\* all is shown with an older certificate. TLC refutes NeverBehind for the others.
THEOREM NoKeyIsShownBehind ==
    ASSUME OneSetter, Hows \subseteq CertBearing \ {"remote"}
    PROVE  Spec => []NeverBehind
  <1>1. IInv /\ FreshInv => NeverBehind
    <2> SUFFICES ASSUME IInv, FreshInv, NEW r \in Readers
                 PROVE  /\ reader[r].pc = "announced" =>
                               reader[r].cert \notin 1 .. reader[r].signer - 1
                        /\ reader[r].pc = "open" =>
                               reader[r].cert \notin 1 .. reader[r].name - 1
      BY DEF NeverBehind
    <2>1. \A k \in 1 .. identity: CertBefore(k)
      <3> SUFFICES ASSUME NEW k \in 1 .. identity PROVE CertBefore(k)
        OBVIOUS
      <3>1. made \in Seq(Install) /\ k \in 1 .. Len(made)
        BY BoundAssumption DEF IInv, TInv, TypeOK, Key
      <3>2. made[k] \in Install
        BY <3>1
      <3> QED BY <3>2 DEF Install, CertBefore
    <2>2. ASSUME NEW k, NEW c, Shown(k, c) PROVE c \notin 1 .. k - 1
      <3>1. NotBehind(k, c) /\ k \in Nat
        BY <2>1, <2>2 DEF Shown
      <3> QED BY <3>1 DEF NotBehind
    <2>3. /\ reader[r].pc = "announced" => Shown(reader[r].signer, reader[r].cert)
          /\ reader[r].pc = "open" => Shown(reader[r].name, reader[r].cert)
      BY DEF FreshInv, ReaderInv
    <2> QED BY <2>2, <2>3
  <1> QED BY <1>1, IInvAlways, FreshAlways, PTL

=============================================================================
