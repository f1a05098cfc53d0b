--------------------------- MODULE RemoteSigning ----------------------------
(***************************************************************************)
(* Signing on behalf of a keyless leaf. The leaf's RemoteSignerClient       *)
(* (crates/ndn-boltffi/src/remote_signer_client.rs) turns each sign() into  *)
(* a request; the node that holds the key (identity_core.rs) answers it     *)
(* through serve_remote_signer, one loop over the shared forwarder, or      *)
(* through respond_to_sign_request, one host thread per request. Both       *)
(* consult the scoped-signing policy, which host threads grant and stop,    *)
(* and ask the user when no grant covers the request.                      *)
(***************************************************************************)
EXTENDS Naturals, FiniteSets

CONSTANTS
    Calls,     \* sign() calls of the leaf
    Direct,    \* those that reach the node through respond_to_sign_request
    ClassOf,   \* ClassOf[c]: the action class of the region of call c
    Sensitive, \* action classes that are always asked about
    Hosts,     \* host threads that grant, stop and count signing scopes
    Filters,   \* the action filters they grant; AnyClass is no filter
    AnyClass,
    NoCall,    \* no request: the policy is not locked across a prompt
    Ttls,      \* the ttl arguments they pass
    MaxTtl,    \* the ceiling, 24h
    MaxClock,  \* bound on the clock
    MaxGrants, \* bound on the grants made
    MaxKey     \* bound on the identities loaded

ASSUME DirectAssumption == Direct \subseteq Calls /\ NoCall \notin Calls
ASSUME ClassAssumption  == AnyClass \notin {ClassOf[c] : c \in Calls}
ASSUME BoundAssumption  ==
    /\ MaxTtl \in Nat \ {0} /\ MaxClock \in Nat /\ MaxGrants \in Nat
    /\ MaxKey \in Nat \ {0} /\ Ttls \subseteq Nat

VARIABLES
    clock, made,  \* time; grants made so far
    identity,     \* the loaded identity; 0 before one is loaded
    grants,       \* sign_policy: its grants
    guard,        \* the request whose responder keeps sign_policy locked
    leaf,         \* leaf[c]: where the leaf's call stands
    got,          \* got[c]: the key of the signature the call returned
    node,         \* node[c]: where the node stands with request c
    key,          \* key[c]: the signer the node snapshotted for request c
    host,         \* host[h]: what host thread h is calling
    wanted,       \* wanted[h]: the grant h has computed and not yet stored, if any
    born,         \* history: the identity loaded when request c arrived
    inForce,      \* history: the grants made since the last stop
    covered,      \* history: requests one of them covered while undecided
    saidYes       \* history: requests the user approved

nodeVars == <<node, key, guard>>
leafVars == <<leaf, got>>
hostVars == <<host, wanted>>
history  == <<born, inForce, covered, saidYes>>
vars == <<clock, made, identity, grants, nodeVars, leafVars, hostVars, history>>

Key == 1 .. MaxKey
NodeState == {"none", "queued", "prompt", "allowed", "refused",
              "signing", "approved", "denied", "dropped", "gone"}
\* The request is inside a handler of the serve loop.
InLoop == {"prompt", "allowed", "refused"}

TypeOK ==
    /\ clock \in 0 .. MaxClock /\ made \in 0 .. MaxGrants /\ identity \in Key \cup {0}
    /\ grants \subseteq [filter: Filters, until: Nat]
    /\ guard \in Direct \cup {NoCall}
    /\ guard # NoCall => node[guard] = "prompt"
    /\ leaf \in [Calls -> {"idle", "sent", "signed", "failed"}]
    /\ got \in [Calls -> Key \cup {0}]
    /\ node \in [Calls -> NodeState] /\ key \in [Calls -> Key \cup {0}]
    /\ host \in [Hosts -> {"idle", "grant", "stop", "active"}]
    /\ wanted \in [Hosts -> SUBSET [filter: Filters, until: Nat]]
    /\ born \in [Calls -> Key \cup {0}]
    /\ inForce \subseteq [filter: Filters, until: Nat]
    /\ covered \subseteq Calls /\ saidYes \subseteq Calls

Init ==
    /\ clock = 0 /\ made = 0 /\ identity = 0
    /\ grants = {} /\ guard = NoCall
    /\ leaf = [c \in Calls |-> "idle"] /\ got = [c \in Calls |-> 0]
    /\ node = [c \in Calls |-> "none"] /\ key = [c \in Calls |-> 0]
    /\ host = [h \in Hosts |-> "idle"] /\ wanted = [h \in Hosts |-> {}]
    /\ born = [c \in Calls |-> 0] /\ inForce = {} /\ covered = {} /\ saidYes = {}

----------------------------------------------------------------------------
(* The leaf                                                                *)

\* sign(): the region and a fresh request id make the Interest's name unique,
\* so the reply to a call can only be the node's answer to that call.
Sign(c) ==
    /\ leaf[c] = "idle"
    /\ leaf' = [leaf EXCEPT ![c] = "sent"]
    /\ UNCHANGED <<clock, made, identity, grants, nodeVars, got, hostVars, history>>

\* No reply within SIGN_TIMEOUT, or the request or the reply was lost. What
\* arrives later is nobody's.
GiveUp(c) ==
    /\ leaf[c] = "sent"
    /\ leaf' = [leaf EXCEPT ![c] = "failed"]
    /\ UNCHANGED <<clock, made, identity, grants, nodeVars, got, hostVars, history>>

Receive(c) ==
    /\ leaf[c] = "sent" /\ node[c] \in {"approved", "denied"}
    /\ leaf' = [leaf EXCEPT ![c] = IF node[c] = "approved" THEN "signed" ELSE "failed"]
    /\ got'  = [got EXCEPT ![c] = IF node[c] = "approved" THEN key[c] ELSE 0]
    /\ node' = [node EXCEPT ![c] = "gone"]
    /\ UNCHANGED <<clock, made, identity, grants, key, guard, hostVars, history>>

----------------------------------------------------------------------------
(* The scoped-signing policy (ndn_security, from how it is used here)      *)

Live(g) == clock < g.until

Matches(g, c) == g.filter = AnyClass \/ g.filter = ClassOf[c]
Covers(g, c)  == ClassOf[c] \notin Sensitive /\ Matches(g, c)
AutoApproved(c) == \E g \in grants: Live(g) /\ Covers(g, c)

\* The requests among cs that may be signed unasked under the grants gs.
Coverable(cs, gs) ==
    {c \in cs: ClassOf[c] \notin Sensitive
               /\ \E g \in gs: clock < g.until /\ g.filter \in {AnyClass, ClassOf[c]}}
Undecided == {c \in Calls: node[c] = "queued"}

----------------------------------------------------------------------------
(* The node                                                                *)

LoopFree == \A c \in Calls \ Direct: node[c] \notin InLoop
Free == guard = NoCall

\* The request reaches the demux's handler queue, or the host's transport.
Arrive(c) ==
    /\ leaf[c] \in {"sent", "failed"} /\ node[c] = "none"
    /\ node' = [node EXCEPT ![c] = "queued"]
    /\ born' = [born EXCEPT ![c] = identity]
    /\ covered' = covered \cup Coverable({c}, inForce)
    /\ UNCHANGED <<clock, made, identity, grants, key, guard, leafVars, hostVars, inForce, saidYes>>

\* Bytes that are no sign request: the serve loop returns without a reply when
\* their turn comes, respond_to_sign_request with an error before it locks
\* anything. Only the decoding tells such a request from one of the leaf's.
Ignore(c) ==
    /\ node[c] = "queued" /\ (c \in Direct \/ LoopFree)
    /\ node' = [node EXCEPT ![c] = "dropped"]
    /\ UNCHANGED <<clock, made, identity, grants, key, guard, leafVars, hostVars, history>>

\* respond_to_sign_request decides in the scrutinee of a `match`, so the lock
\* is held until the match ends; the serve loop drops it before it asks.
AlwaysKept(c) == c \in Calls
KeepsGuard(c) == c \in Direct

Decide(c) ==
    /\ node[c] = "queued" /\ Free
    /\ c \in Direct \/ LoopFree
    /\ \/ /\ AutoApproved(c)
          /\ node' = [node EXCEPT ![c] = "allowed"]
          /\ UNCHANGED guard
       \/ /\ ~AutoApproved(c)
          /\ node' = [node EXCEPT ![c] = "prompt"]
          /\ guard' = IF KeepsGuard(c) THEN c ELSE guard
    /\ UNCHANGED <<clock, made, identity, grants, key, leafVars, hostVars, history>>

Released(c) == IF guard = c THEN NoCall ELSE guard

AfterAnswer(yes) == IF yes THEN "allowed" ELSE "refused"
Answer(c) ==
    /\ node[c] = "prompt"
    /\ \E yes \in BOOLEAN:
           /\ node' = [node EXCEPT ![c] = AfterAnswer(yes)]
           /\ saidYes' = IF yes THEN saidYes \cup {c} ELSE saidYes
    /\ guard' = Released(c)
    /\ UNCHANGED <<clock, made, identity, grants, key, leafVars, hostVars, born, inForce, covered>>

\* The signer is read from the identity cell once the request is allowed; the
\* serve loop then spawns the signature and takes its next request. Without an
\* identity it denies, and respond_to_sign_request returns an error: no reply.
AtStart(c) == 1
Snapshot(c) == identity
Spawn(c) ==
    /\ node[c] \in {"allowed", "refused"}
    /\ \/ /\ node[c] = "allowed" /\ identity # 0
          /\ key' = [key EXCEPT ![c] = Snapshot(c)]
          /\ node' = [node EXCEPT ![c] = "signing"]
       \/ /\ node[c] = "allowed" /\ identity = 0
          /\ node' = [node EXCEPT ![c] = IF c \in Direct THEN "dropped" ELSE "denied"]
          /\ UNCHANGED key
       \/ /\ node[c] = "refused"
          /\ node' = [node EXCEPT ![c] = "denied"]
          /\ UNCHANGED key
    /\ UNCHANGED <<clock, made, identity, grants, guard, leafVars, hostVars, history>>

\* signer.sign returns; an error is answered as a denial.
Complete(c) ==
    /\ node[c] = "signing"
    /\ \E outcome \in {"approved", "denied"}: node' = [node EXCEPT ![c] = outcome]
    /\ UNCHANGED <<clock, made, identity, grants, key, guard, leafVars, hostVars, history>>

\* The owner loads the first or another identity.
Reload ==
    /\ identity < MaxKey
    /\ identity' = identity + 1
    /\ UNCHANGED <<clock, made, grants, nodeVars, leafVars, hostVars, history>>

----------------------------------------------------------------------------
(* Host threads                                                            *)

Enter(h, what) ==
    /\ host[h] = "idle"
    /\ host' = [host EXCEPT ![h] = what]
    /\ UNCHANGED <<clock, made, identity, grants, nodeVars, leafVars, wanted, history>>

\* ttl_secs.clamp(1, MAX_TTL_SECS)
Clamp(ttl) == IF ttl < 1 THEN 1 ELSE IF ttl > MaxTtl THEN MaxTtl ELSE ttl

\* grant_signing_scope computes the moment the grant ends before it locks the
\* policy: time spent waiting for a prompt's lock is taken from the grant.
EnterGrant(h) ==
    /\ host[h] = "idle" /\ made < MaxGrants
    /\ \E f \in Filters, ttl \in Ttls:
           wanted' = [wanted EXCEPT ![h] = {[filter |-> f, until |-> clock + Clamp(ttl)]}]
    /\ made' = made + 1
    /\ host' = [host EXCEPT ![h] = "grant"]
    /\ UNCHANGED <<clock, identity, grants, nodeVars, leafVars, history>>

\* The grant is stored; it then counts the active grants, which is "active".
Grant(h) ==
    /\ host[h] = "grant" /\ Free
    /\ grants' = grants \cup wanted[h] /\ inForce' = inForce \cup wanted[h]
    /\ covered' = covered \cup Coverable(Undecided, inForce')
    /\ wanted' = [wanted EXCEPT ![h] = {}]
    /\ host' = [host EXCEPT ![h] = "active"]
    /\ UNCHANGED <<clock, made, identity, nodeVars, leafVars, born, saidYes>>

StillLive == {g \in grants: Live(g)}
Cleared == {}
Stop(h) ==
    /\ host[h] = "stop" /\ Free
    /\ grants' = Cleared /\ inForce' = {}
    /\ host' = [host EXCEPT ![h] = "idle"]
    /\ UNCHANGED <<clock, made, identity, nodeVars, leafVars, wanted, born, covered, saidYes>>

Active(h) ==
    /\ host[h] = "active" /\ Free
    /\ host' = [host EXCEPT ![h] = "idle"]
    /\ UNCHANGED <<clock, made, identity, grants, nodeVars, leafVars, wanted, history>>

Tick ==
    /\ clock < MaxClock
    /\ clock' = clock + 1
    /\ UNCHANGED <<made, identity, grants, nodeVars, leafVars, hostVars, history>>

Leaf(c) == Sign(c) \/ GiveUp(c) \/ Receive(c)
Node(c) == Arrive(c) \/ Ignore(c) \/ Decide(c) \/ Answer(c) \/ Spawn(c) \/ Complete(c)
Host(h) ==
    \/ \E what \in {"stop", "active"}: Enter(h, what)
    \/ EnterGrant(h) \/ Grant(h) \/ Stop(h) \/ Active(h)

Next ==
    \/ \E c \in Calls: Leaf(c) \/ Node(c)
    \/ \E h \in Hosts: Host(h)
    \/ Reload \/ Tick

Spec == Init /\ [][Next]_vars

\* The node's tasks and the host threads' calls run; whether a user ever
\* answers a prompt is not up to the code.
Fairness ==
    /\ \A c \in Calls: WF_vars(Decide(c)) /\ WF_vars(Spawn(c)) /\ WF_vars(Complete(c))
    /\ \A h \in Hosts: WF_vars(Grant(h)) /\ WF_vars(Stop(h)) /\ WF_vars(Active(h))

FairSpec == Spec /\ Fairness

----------------------------------------------------------------------------
(* Properties                                                              *)

\* Nothing is signed behind the user's back: a request that no live grant has
\* covered since it arrived is signed only if the user approved that request
\* (stop_signing_scope: "subsequent requests prompt the biometric gate again").
SignedOnlyIfAuthorised ==
    \A c \in Calls: node[c] \in {"allowed", "signing", "approved"} =>
        c \in covered \cup saidYes

\* A signature is never by an identity that had already been replaced when
\* its request arrived.
NeverRetiredKey == \A c \in Calls: leaf[c] = "signed" => got[c] >= born[c]

\* grant, stop and count return although users may never answer: only a
\* prompt of respond_to_sign_request that stays up for ever can hold them up.
HostReturns ==
    []<>(guard \notin Direct) => \A h \in Hosts: host[h] # "idle" ~> host[h] = "idle"


=============================================================================
