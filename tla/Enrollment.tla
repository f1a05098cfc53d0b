----------------------------- MODULE Enrollment ------------------------------
(***************************************************************************)
(* How a device gets its key certified (crates/ndn-mobile/src/enroll.rs):  *)
(* NEW, then CHALLENGE with a PIN or a token, against an NDNCERT authority *)
(* across a network that loses messages; then the two identity cells, and  *)
(* the SafeBag the host keeps so that the key survives a restart.          *)
(*                                                                         *)
(* A key is the number of its generation. Between restarts the calls do    *)
(* what IdentityCore says of them: CellsSpec.                              *)
(***************************************************************************)
EXTENDS Naturals, Sequences, FiniteSets

CONSTANTS
    Callers,     \* threads that enroll, generate or load an identity
    MaxKeys,     \* bound on the keys generated
    MaxLoads,    \* bound on the identities loaded from disk by one process
    MaxCrashes   \* bound on the restarts of the app's process

Enrolls == {"pin", "token", "token_enclave"}
Loads   == {"load", "load_enclave"}
Hows    == Enrolls \cup Loads \cup {"generate"}

ASSUME BoundsAssumption ==
    MaxKeys \in Nat /\ MaxLoads \in Nat /\ MaxCrashes \in Nat

VARIABLES
    pc,        \* pc[w]: where caller w stands
    how,       \* how[w]: the call it makes
    key,       \* key[w]: the key of that call
    wire,      \* wire[w]: what is on its way between it and the authority
    at,        \* at[w]: which install of this process its call is, 0 before that
    identity,  \* the install whose signer is in the identity cell, 0 if none
    certWire,  \* the install whose certificate is in the cert_wire cell, 0 if none
    made,      \* made[i]: the call of the i-th install and whether it has a certificate
    keys,      \* keys[i]: its key
    born,      \* the keys generated so far are 1 .. born
    issued,    \* keys the authority has certified
    ownSigned, \* keys generate_identity has certified itself
    disk,      \* what the host keeps: a key, in a bag or in the enclave, and whether
               \* a certificate is with it
    crashes

\* Of the device's process, of the world around it.
process == <<pc, how, key, at, identity, certWire, made, keys>>
cells   == <<identity, certWire>>
history == <<made, keys>>
vars == <<pc, how, key, wire, at, identity, certWire, made, keys, born, issued,
          ownSigned, disk, crashes>>

Key      == 1 .. MaxKeys
Waiting  == {"new", "trigger", "submit", "token"}
Signing  == {"sign_new", "sign_token"}  \* the enclave signs the request of that round
Exchange == Waiting \cup Signing \cup {"prompt", "cert"}
Pc       == Exchange \cup {"idle", "made", "half", "refused", "failed", "returned"}
Message  == {"none", "NEW", "TRIGGER", "CODE", "TOKEN", "CERT",
             "opened", "pending", "complete", "error", "cert"}
Entry    == [how: Hows, cert: BOOLEAN]
NoDisk   == [key |-> 0, form |-> "none", cert |-> FALSE]

TypeOK ==
    /\ pc \in [Callers -> Pc] /\ how \in [Callers -> Hows]
    /\ key \in [Callers -> 0 .. MaxKeys] /\ at \in [Callers -> 0 .. Len(made)]
    /\ wire \in [Callers -> Message]
    /\ made \in Seq(Entry) /\ keys \in Seq(Key)
    /\ Len(keys) = Len(made)
    /\ identity \in 0 .. Len(made) /\ certWire \in 0 .. Len(made)
    /\ born \in 0 .. MaxKeys
    /\ issued \subseteq Key /\ ownSigned \subseteq Key
    /\ disk \in [key: 0 .. MaxKeys, form: {"none", "bag", "enclave"}, cert: BOOLEAN]
    /\ crashes \in 0 .. MaxCrashes

\* A process starts with no identity and no call under way.
Started ==
    /\ pc = [w \in Callers |-> "idle"] /\ how = [w \in Callers |-> "load"]
    /\ key = [w \in Callers |-> 0] /\ at = [w \in Callers |-> 0]
    /\ identity = 0 /\ certWire = 0 /\ made = <<>> /\ keys = <<>>

Init ==
    /\ Started /\ wire = [w \in Callers |-> "none"]
    /\ born = 0 /\ issued = {} /\ ownSigned = {} /\ disk = NoDisk /\ crashes = 0

----------------------------------------------------------------------------
(* The exchange with the authority, from the device's side                 *)

Goto(w, p)  == pc' = [pc EXCEPT ![w] = p]
Put(w, m)   == wire' = [wire EXCEPT ![w] = m]

\* The caller of an enrollment generates a key and asks for a request id.
Generates(w, h) ==
    /\ pc[w] = "idle" /\ born < MaxKeys
    /\ how' = [how EXCEPT ![w] = h] /\ key' = [key EXCEPT ![w] = born + 1]
    /\ born' = born + 1

\* Each request is signed before it is sent: by the enclave when a person confirms
\* its biometric prompt, by a software key at once.
Sends(w, h, p, m, asking) ==
    IF h = "token_enclave" THEN Goto(w, asking) /\ Put(w, "none")
                           ELSE Goto(w, p) /\ Put(w, m)

Begin(w, h) ==
    /\ Generates(w, h)
    /\ Sends(w, h, "new", "NEW", "sign_new")
    /\ UNCHANGED <<at, cells, history, issued, ownSigned, disk, crashes>>

\* enroll keeps `inner` locked over the exchange; the other two need no lock.
BeginPin(w) ==
    /\ \A u \in Callers: ~(how[u] = "pin" /\ pc[u] \in Exchange)
    /\ Begin(w, "pin")
BeginToken(w)   == Begin(w, "token")
BeginEnclave(w) == Begin(w, "token_enclave")

\* NdnEnclaveBackend::sign returns a signature, and the request goes out.
Confirm(w) ==
    /\ \/ pc[w] = "sign_new" /\ Goto(w, "new") /\ Put(w, "NEW")
       \/ pc[w] = "sign_token" /\ Goto(w, "token") /\ Put(w, "TOKEN")
    /\ UNCHANGED <<how, key, at, cells, history, born, issued, ownSigned, disk, crashes>>

\* It returns nothing: the person refuses, or the key cannot be used.
Dismiss(w) ==
    /\ pc[w] \in Signing
    /\ Goto(w, "failed") /\ Put(w, "none")
    /\ UNCHANGED <<how, key, at, cells, history, born, issued, ownSigned, disk, crashes>>

\* The answer to NEW; the challenge follows.
Opened(w) ==
    /\ pc[w] = "new" /\ wire[w] = "opened"
    /\ IF how[w] = "pin" THEN Goto(w, "trigger") /\ Put(w, "TRIGGER")
                         ELSE Sends(w, how[w], "token", "TOKEN", "sign_token")
    /\ UNCHANGED <<how, key, at, cells, history, born, issued, ownSigned, disk, crashes>>

\* Some authorities complete at once; otherwise the host is asked for the PIN.
AlwaysPrompts(w) ==
    /\ pc[w] = "trigger" /\ wire[w] \in {"pending", "complete"}
    /\ Goto(w, "prompt") /\ Put(w, "none")
    /\ UNCHANGED <<how, key, at, cells, history, born, issued, ownSigned, disk, crashes>>

Triggered(w) ==
    /\ pc[w] = "trigger" /\ wire[w] \in {"pending", "complete"}
    /\ IF wire[w] = "complete" THEN Goto(w, "cert") /\ Put(w, "CERT")
                               ELSE Goto(w, "prompt") /\ Put(w, "none")
    /\ UNCHANGED <<how, key, at, cells, history, born, issued, ownSigned, disk, crashes>>

\* provide_pin returns.
Answer(w) ==
    /\ pc[w] = "prompt"
    /\ Goto(w, "submit") /\ Put(w, "CODE")
    /\ UNCHANGED <<how, key, at, cells, history, born, issued, ownSigned, disk, crashes>>

\* is_complete is tested after the last round: a wrong code or a token that
\* leaves the challenge open is Incomplete.
NotTested(w) ==
    /\ pc[w] \in {"submit", "token"} /\ wire[w] \in {"pending", "complete"}
    /\ Goto(w, "cert") /\ Put(w, "CERT")
    /\ UNCHANGED <<how, key, at, cells, history, born, issued, ownSigned, disk, crashes>>

Judged(w) ==
    /\ pc[w] \in {"submit", "token"} /\ wire[w] \in {"pending", "complete"}
    /\ IF wire[w] = "complete" THEN Goto(w, "cert") /\ Put(w, "CERT")
                               ELSE Goto(w, "failed") /\ Put(w, "none")
    /\ UNCHANGED <<how, key, at, cells, history, born, issued, ownSigned, disk, crashes>>

\* Every fetch_wire gives up after INTEREST_LIFETIME and half a second; an
\* answer may be an error. A signature has no time limit.
WaitsForEver(w) == FALSE
Fail(w) ==
    /\ pc[w] \in Waiting
    /\ Goto(w, "failed") /\ Put(w, "none")
    /\ UNCHANGED <<how, key, at, cells, history, born, issued, ownSigned, disk, crashes>>

----------------------------------------------------------------------------
(* The authority and the network                                           *)

Certifies(w) == issued' = issued \cup {key[w]} /\ Put(w, "complete")
Says(w, m)   == issued' = issued /\ Put(w, m)
Elsewhere    == UNCHANGED <<process, born, ownSigned, disk, crashes>>

AuthorityOpens(w) == wire[w] = "NEW" /\ Says(w, "opened") /\ Elsewhere

AuthorityJudges(w) ==
    /\ wire[w] \in {"TRIGGER", "CODE", "TOKEN"}
    /\ Certifies(w) \/ Says(w, "pending") \/ Says(w, "error")
    /\ Elsewhere

\* A repository may serve the issued certificate.
RepoServes(w) ==
    wire[w] = "CERT" /\ key[w] \in issued /\ Says(w, "cert") /\ Elsewhere

Lose(w) == wire[w] # "none" /\ Says(w, "none") /\ Elsewhere

----------------------------------------------------------------------------
(* Installing the key                                                      *)

\* An install of key k by call h enters the history; its stores follow.
Install(w, h, k, c) ==
    /\ made' = Append(made, [how |-> h, cert |-> c]) /\ keys' = Append(keys, k)
    /\ at' = [at EXCEPT ![w] = Len(made) + 1]
    /\ Goto(w, "made")
    /\ UNCHANGED <<cells, issued, disk, crashes>>

\* The issued certificate is fetched on a best-effort basis.
CertDone(w) ==
    /\ pc[w] = "cert"
    /\ Install(w, how[w], key[w], wire[w] = "cert") /\ Put(w, "none")
    /\ UNCHANGED <<how, key, born, ownSigned>>

\* generate_identity: a key that certifies itself.
Generate(w) ==
    /\ Generates(w, "generate")
    /\ ownSigned' = ownSigned \cup {born + 1}
    /\ Install(w, "generate", born + 1, TRUE) /\ UNCHANGED wire

\* load_identity and load_identity_enclave: what the host kept.
Load(w) ==
    LET h == IF disk.form = "bag" THEN "load" ELSE "load_enclave" IN
    /\ pc[w] = "idle" /\ disk.key # 0
    /\ Cardinality({i \in 1 .. Len(made): made[i].how \in Loads}) < MaxLoads
    /\ how' = [how EXCEPT ![w] = h] /\ key' = [key EXCEPT ![w] = disk.key]
    /\ Install(w, h, disk.key, h = "load" => disk.cert)
    /\ UNCHANGED <<wire, born, ownSigned>>

\* The calls that wrap the key in a SafeBag, which needs the certificate; the
\* calls that store the certificate too.
Bagged      == {"token", "generate", "pin"}
CertBearing == {"load", "token", "token_enclave", "generate"}

NeverFails(w) == FALSE
BagFails(w) == how[w] \in Bagged /\ ~made[at[w]].cert
StoresCert(w) == how[w] \in CertBearing

Refuse(w) ==
    /\ pc[w] = "made" /\ BagFails(w)
    /\ Goto(w, "refused")
    /\ UNCHANGED <<how, key, wire, at, cells, history, born, issued, ownSigned, disk, crashes>>

StoreCert(w) ==
    /\ pc[w] = "made" /\ ~BagFails(w) /\ StoresCert(w)
    /\ certWire' = IF made[at[w]].cert THEN at[w] ELSE 0
    /\ Goto(w, "half")
    /\ UNCHANGED <<how, key, wire, at, identity, history, born, issued, ownSigned, disk, crashes>>

\* The result of an enrollment or a generation is the host's to keep.
StoreIdentity(w) ==
    /\ pc[w] = IF StoresCert(w) THEN "half" ELSE "made"
    /\ ~BagFails(w)
    /\ identity' = at[w]
    /\ Goto(w, IF how[w] \in Loads THEN "idle" ELSE "returned")
    /\ UNCHANGED <<how, key, wire, at, certWire, history, born, issued, ownSigned, disk, crashes>>

Return(w) ==
    /\ pc[w] \in {"failed", "refused"}
    /\ Goto(w, "idle")
    /\ UNCHANGED <<how, key, wire, at, cells, history, born, issued, ownSigned, disk, crashes>>

----------------------------------------------------------------------------
(* The host                                                                *)

\* It keeps the SafeBag, or for an enclave key the two names, or neither.
Persist(w) ==
    /\ pc[w] = "returned"
    /\ \/ disk' = [key |-> key[w], cert |-> made[at[w]].cert,
                   form |-> IF how[w] \in Bagged THEN "bag" ELSE "enclave"]
       \/ UNCHANGED disk
    /\ Goto(w, "idle")
    /\ UNCHANGED <<how, key, wire, at, cells, history, born, issued, ownSigned, crashes>>

\* The app's process dies at any point and starts again.
Crash ==
    /\ crashes < MaxCrashes /\ crashes' = crashes + 1
    /\ pc' = [w \in Callers |-> "idle"] /\ how' = [w \in Callers |-> "load"]
    /\ key' = [w \in Callers |-> 0] /\ at' = [w \in Callers |-> 0]
    /\ wire' = [w \in Callers |-> "none"]
    /\ identity' = 0 /\ certWire' = 0 /\ made' = <<>> /\ keys' = <<>>
    /\ UNCHANGED <<born, issued, ownSigned, disk>>

Call(w) == BeginPin(w) \/ BeginToken(w) \/ BeginEnclave(w) \/ Generate(w) \/ Load(w)

Proceed(w) ==
    \/ Opened(w) \/ Triggered(w) \/ Judged(w) \/ Fail(w) \/ CertDone(w)
    \/ Refuse(w) \/ StoreCert(w) \/ StoreIdentity(w) \/ Return(w)

Person(w) == Answer(w) \/ Confirm(w) \/ Dismiss(w)

World(w) == AuthorityOpens(w) \/ AuthorityJudges(w) \/ RepoServes(w) \/ Lose(w)

Next ==
    \/ \E w \in Callers: Call(w) \/ Proceed(w) \/ World(w) \/ Person(w) \/ Persist(w)
    \/ Crash

Spec == Init /\ [][Next]_vars

\* The device's own steps are fair: every wait for the network has a timeout.
\* The authority, the network, the host and the person who types the PIN and
\* confirms the enclave's signatures owe nothing.
FairSpec == Spec /\ \A w \in Callers: WF_vars(Proceed(w))

----------------------------------------------------------------------------
(* Properties                                                              *)

\* Whatever is loaded for signing, served as a certificate or kept for the next
\* start is certified: by the authority, although answers are lost and a
\* challenge may stay open, or by itself. What is kept in a bag can be loaded
\* again with its certificate (is_complete, enroll.rs l.445 and 731; to_safebag).
Certified(k) == k \in issued \cup ownSigned

LoadedKeyIsCertified ==
    /\ identity # 0 => Certified(keys[identity])
    /\ certWire # 0 => Certified(keys[certWire])
    /\ disk.key # 0 => Certified(disk.key)
    /\ disk.form = "bag" => disk.cert

\* The person is asked for a PIN only for a request that the authority has not
\* granted ("Some CAs auto-complete (no PIN)", enroll.rs l.702).
PromptOnlyIfOpen ==
    \A w \in Callers: pc[w] = "prompt" => key[w] \notin issued

\* Between restarts, the calls install identities as IdentityCore says: a
\* bagged enrollment without its certificate touches no cell, the certificate
\* is stored before the signer, and no restart leaves half an install behind.
SetterOf(w) ==
    IF pc[w] \in {"made", "half", "refused"} THEN [pc |-> pc[w], key |-> at[w]]
                                            ELSE [pc |-> "idle", key |-> 0]

Cells == INSTANCE IdentityCore WITH
    Setters <- Callers, Readers <- {}, MaxInstalls <- MaxKeys + MaxLoads,
    setter <- [w \in Callers |-> SetterOf(w)], reader <- [r \in {} |-> 0]

CellsSpec == Cells!Init /\ [][Cells!Next \/ (Cells!Init)']_(Cells!vars)

\* A silent authority, a network that loses everything or a restart never leaves
\* a call waiting: from some point on every call has returned, or waits for a
\* person, who types a PIN or confirms the signature of the enclave.
EnrollReturns ==
    <>[](\A w \in Callers: pc[w] \in {"idle", "prompt", "returned"} \cup Signing)

=============================================================================
