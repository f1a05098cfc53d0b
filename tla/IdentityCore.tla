---------------------------- MODULE IdentityCore ----------------------------
(***************************************************************************)
(* The signing identity of a node (crates/ndn-boltffi/src/identity_core.rs).*)
(* It lives in two cells, `identity` (the signer) and `cert_wire` (the      *)
(* certificate served for it), each behind a mutex of its own. Nine calls   *)
(* install an identity; each locks the cells one after the other, so other  *)
(* callers can run between the two stores. The calls that need both cells   *)
(* read them one after the other too.                                       *)
(*                                                                         *)
(* A key is the number of the install that made it. Key 0 is None.         *)
(***************************************************************************)
EXTENDS Naturals, Sequences

CONSTANTS
    Setters,    \* threads that install identities
    Readers,    \* threads that announce a prefix or open an offer board
    Hows,       \* the install calls used in this instance
    MaxInstalls \* bound on the number of installs

\* The install calls. The first five store the certificate as well.
CertBearing  == {"load", "token", "token_enclave", "generate", "remote"}
IdentityOnly == {"pin", "generate_enclave", "load_enclave", "restore"}
\* The CA's certificate is fetched on a best-effort basis: it may be missing.
Fetched == {"token", "token_enclave", "pin"}
\* These wrap key and certificate in a SafeBag before they store anything.
Bagged  == {"token", "generate", "pin"}

ASSUME HowsAssumption   == Hows \subseteq CertBearing \cup IdentityOnly
ASSUME BoundAssumption  == MaxInstalls \in Nat

VARIABLES
    identity, \* the signer in the identity cell
    certWire, \* whose certificate is in the cert_wire cell
    made,     \* made[k]: the call that made key k, and whether k has a certificate
    setter,   \* setter[w]: where thread w stands in an install, and its key
    reader    \* reader[r]: where thread r stands, and what it has read

vars == <<identity, certWire, made, setter, reader>>

Key == 0 .. MaxInstalls
Install == [how: Hows, cert: BOOLEAN]
SetterState == [pc: {"idle", "made", "half", "refused"}, key: Key]
ReaderState ==
    [pc: {"idle", "signing", "opening", "named", "bare", "announced", "open"},
     signer: Key, name: Key, cert: Key]

TypeOK ==
    /\ identity \in Key /\ certWire \in Key
    /\ made \in Seq(Install) /\ Len(made) <= MaxInstalls
    /\ identity <= Len(made) /\ certWire <= Len(made)
    /\ certWire # 0 => made[certWire].how \in CertBearing /\ made[certWire].cert
    /\ setter \in [Setters -> SetterState]
    /\ reader \in [Readers -> ReaderState]

Idle    == [pc |-> "idle", key |-> 0]
Reading == [pc |-> "idle", signer |-> 0, name |-> 0, cert |-> 0]

Init ==
    /\ identity = 0 /\ certWire = 0 /\ made = <<>>
    /\ setter = [w \in Setters |-> Idle]
    /\ reader = [r \in Readers |-> Reading]

----------------------------------------------------------------------------
(* Installing an identity                                                  *)

\* to_safebag: an enrollment without a certificate cannot be bagged, so the
\* call fails after the CA has issued, before the cells are touched.
Refused(k) == made[k].how \in Bagged /\ ~made[k].cert
BagFails(k) == Refused(k)

CertOf(k) == IF made[k].cert THEN k ELSE 0
KeepOldCert(k) == IF made[k].cert THEN k ELSE certWire
StoredCert(k) == CertOf(k)
HasCertStore(k) == made[k].how \in CertBearing
IdentityFirst(k) == made[k].how = "load"
CertFirst(k) == made[k].how # "remote"

\* load_identity then reads the identity back for its DID, which changes
\* nothing. All the work before the stores: parse, decrypt, generate, enroll, bag.
Make(w, how, cert) ==
    /\ setter[w].pc = "idle"
    /\ Len(made) < MaxInstalls
    /\ cert \/ how \in Fetched
    /\ made' = Append(made, [how |-> how, cert |-> cert])
    /\ setter' = [setter EXCEPT ![w] = [pc |-> "made", key |-> Len(made) + 1]]
    /\ UNCHANGED <<identity, certWire, reader>>

Refuse(w) ==
    /\ setter[w].pc = "made" /\ BagFails(setter[w].key)
    /\ setter' = [setter EXCEPT ![w].pc = "refused"]
    /\ UNCHANGED <<identity, certWire, made, reader>>

\* The cert_wire store: before the identity store, except in use_remote_signer.
StoreCert(w) ==
    LET k == setter[w].key IN
    /\ \/ setter[w].pc = "made" /\ ~BagFails(k) /\ HasCertStore(k) /\ CertFirst(k)
       \/ setter[w].pc = "half" /\ ~CertFirst(k)
    /\ certWire' = StoredCert(k)
    /\ setter' = [setter EXCEPT ![w] =
                     IF CertFirst(k) THEN [@ EXCEPT !.pc = "half"] ELSE Idle]
    /\ UNCHANGED <<identity, made, reader>>

StoreIdentity(w) ==
    LET k == setter[w].key IN
    /\ \/ setter[w].pc = "made" /\ ~BagFails(k) /\ ~(HasCertStore(k) /\ CertFirst(k))
       \/ setter[w].pc = "half" /\ CertFirst(k)
    /\ identity' = k
    /\ setter' = [setter EXCEPT ![w] =
                     IF CertFirst(k) THEN Idle ELSE [@ EXCEPT !.pc = "half"]]
    /\ UNCHANGED <<certWire, made, reader>>

\* A refused call returns its error; the caller may try again.
Return(w) ==
    /\ setter[w].pc = "refused"
    /\ setter' = [setter EXCEPT ![w] = Idle]
    /\ UNCHANGED <<identity, certWire, made, reader>>

----------------------------------------------------------------------------
(* Using it                                                                *)

\* announce_prefix snapshots the signer first, and fails without one.
AnnounceSigner(r) ==
    /\ reader[r].pc = "idle" /\ identity # 0
    /\ reader' = [reader EXCEPT ![r] =
                     [pc |-> "signing", signer |-> identity, name |-> identity, cert |-> 0]]
    /\ UNCHANGED <<identity, certWire, made, setter>>

\* The certificate the gateway will pull over the reflexive path.
AnnounceCert(r) ==
    /\ reader[r].pc = "signing"
    /\ reader' = [reader EXCEPT ![r].pc = "announced", ![r].cert = certWire]
    /\ UNCHANGED <<identity, certWire, made, setter>>

\* start_offer_board: the signer, then the identity's name, then the certificate.
BoardSigner(r) ==
    /\ reader[r].pc = "idle" /\ identity # 0
    /\ reader' = [reader EXCEPT ![r] =
                     [pc |-> "opening", signer |-> identity, name |-> 0, cert |-> 0]]
    /\ UNCHANGED <<identity, certWire, made, setter>>

BoardName(r) ==
    /\ reader[r].pc = "opening"
    /\ reader' = [reader EXCEPT ![r].pc = "named", ![r].name = identity]
    /\ UNCHANGED <<identity, certWire, made, setter>>

\* principal_cert_wire prefers the cert_wire cell; when that is empty it locks
\* the identity cell and encodes a certificate for the signer loaded by then.
PrincipalCert(r) ==
    /\ reader[r].pc = "named"
    /\ reader' = [reader EXCEPT ![r].pc = IF certWire # 0 THEN "open" ELSE "bare",
                                ![r].cert = certWire]
    /\ UNCHANGED <<identity, certWire, made, setter>>

SelfCert(r) ==
    /\ reader[r].pc = "bare"
    /\ reader' = [reader EXCEPT ![r].pc = "open", ![r].cert = identity]
    /\ UNCHANGED <<identity, certWire, made, setter>>

\* The announcement returns, the board is shut down.
Finish(r) ==
    /\ reader[r].pc \in {"announced", "open"}
    /\ reader' = [reader EXCEPT ![r] = Reading]
    /\ UNCHANGED <<identity, certWire, made, setter>>

Setting(w) ==
    \/ \E how \in Hows, cert \in BOOLEAN: Make(w, how, cert)
    \/ Refuse(w) \/ StoreCert(w) \/ StoreIdentity(w) \/ Return(w)

Using(r) ==
    \/ AnnounceSigner(r) \/ AnnounceCert(r)
    \/ BoardSigner(r) \/ BoardName(r) \/ PrincipalCert(r) \/ SelfCert(r)
    \/ Finish(r)

Next == (\E w \in Setters: Setting(w)) \/ (\E r \in Readers: Using(r))

Spec == Init /\ [][Next]_vars

----------------------------------------------------------------------------
(* Properties                                                              *)

\* No thread is between the two stores of an install.
Settled == \A w \in Setters: setter[w].pc # "half"

\* Between installs the two cells agree: without an identity there is no
\* certificate, and while the identity is one that its install stored with a
\* certificate, cert_wire holds that certificate, or nothing if the CA's could
\* not be fetched (field comment l.44-48). It says nothing of the identities
\* that are installed without one: see CertOfLoaded.
CellsAgree ==
    Settled => /\ identity = 0 => certWire = 0
               /\ identity # 0 /\ made[identity].how \in CertBearing =>
                      certWire = CertOf(identity)

\* What the field comment says (l.44-48, and l.766-769 of its reader): the
\* retained certificate is the loaded identity's, and there is none for an
\* identity that came without one. The four calls that store the identity alone
\* leave the previous identity's certificate in the cell.
CertOfLoaded == Settled => certWire \in {0, identity}

\* The certificate shown was made after key k, is its own, or is none because
\* an install after k had none.
Stored(j) == made[j].how \in CertBearing /\ ~Refused(j)
NotBehind(k, c) ==
    \/ c >= k
    \/ c = 0 /\ \E j \in k .. Len(made): Stored(j) /\ ~made[j].cert

\* An announcement signed with a key, or a board named for it, never shows an
\* older certificate, however installs go by between the reads, if the install
\* of that key stores the certificate before the signer (load_identity, the
\* token enrollments, generate_identity): the readers take the certificate last.
\* The calls that store the signer first or alone are not promised this:
\* NeverBehind is refuted for them.
CertBefore(k) == made[k].how \in CertBearing \ {"remote"}
CertNeverBehindSigner ==
    \A r \in Readers:
        LET shown == reader[r] IN
        /\ shown.pc = "announced" /\ CertBefore(shown.signer) =>
               NotBehind(shown.signer, shown.cert)
        /\ shown.pc = "open" /\ CertBefore(shown.name) => NotBehind(shown.name, shown.cert)

\* The same of every key: what announce_prefix says (l.768-769) of the one it
\* serves, "None for a self-signed/recovered identity", and use_remote_signer
\* (l.180-182) of its own, "so peers verify what it produces".
NeverBehind ==
    \A r \in Readers:
        /\ reader[r].pc = "announced" => reader[r].cert \notin 1 .. reader[r].signer - 1
        /\ reader[r].pc = "open" => reader[r].cert \notin 1 .. reader[r].name - 1

\* A key whose enrollment ended in an error is never the loaded identity.
RefusedNeverLoaded == identity # 0 => ~Refused(identity)

=============================================================================
