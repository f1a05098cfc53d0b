------------------------ MODULE RemoteSigningProofs ------------------------
(***************************************************************************)
(* Proofs about RemoteSigning, for any sets of calls, host threads, action *)
(* classes and filters: type correctness, that nothing is signed without   *)
(* a grant or the user, and that no retired identity signs.                *)
(***************************************************************************)
EXTENDS RemoteSigning, TLAPS

Grants == [filter: Filters, until: Nat]

LEMMA Bounds ==
    /\ MaxTtl \in Nat \ {0} /\ MaxClock \in Nat /\ MaxGrants \in Nat /\ MaxKey \in Nat \ {0}
    /\ \A ttl \in Ttls: ttl \in Nat
    /\ Direct \subseteq Calls /\ NoCall \notin Calls
  BY BoundAssumption, DirectAssumption

LEMMA ClampedTtl == ASSUME NEW ttl \in Ttls PROVE Clamp(ttl) \in 1 .. MaxTtl
  BY Bounds DEF Clamp

LEMMA InitTypeOK == Init => TypeOK
  <1> SUFFICES ASSUME Init PROVE TypeOK
    OBVIOUS
  <1>1. /\ clock \in 0 .. MaxClock /\ made \in 0 .. MaxGrants /\ identity \in Key \cup {0}
        /\ grants \subseteq Grants /\ inForce \subseteq Grants
        /\ covered \subseteq Calls /\ saidYes \subseteq Calls
        /\ guard \in Direct \cup {NoCall} /\ guard = NoCall
    BY Bounds DEF Init, Key, Grants
  <1>2. /\ leaf \in [Calls -> {"idle", "sent", "signed", "failed"}]
        /\ got \in [Calls -> Key \cup {0}]
        /\ node \in [Calls -> NodeState] /\ key \in [Calls -> Key \cup {0}]
        /\ host \in [Hosts -> {"idle", "grant", "stop", "active"}]
        /\ wanted \in [Hosts -> SUBSET Grants]
        /\ born \in [Calls -> Key \cup {0}]
    BY DEF Init, NodeState, Grants
  <1> QED BY <1>1, <1>2 DEF TypeOK, Grants

\* A step of request c that leaves every prompt but c's own alone keeps the
\* clause of TypeOK about the locked policy.
LEMMA GuardTyped ==
    ASSUME TypeOK, NEW c \in Calls, NEW st \in NodeState,
           node' = [node EXCEPT ![c] = st],
           \/ guard' = guard /\ node[c] # "prompt"
           \/ guard' = c /\ c \in Direct /\ st = "prompt"
           \/ guard' = Released(c)
    PROVE  /\ node' \in [Calls -> NodeState] /\ guard' \in Direct \cup {NoCall}
           /\ guard' # NoCall => node'[guard'] = "prompt"
  <1>1. /\ node \in [Calls -> NodeState] /\ guard \in Direct \cup {NoCall}
        /\ (guard # NoCall => node[guard] = "prompt")
    BY DEF TypeOK
  <1>2. Direct \subseteq Calls /\ NoCall \notin Calls
    BY Bounds
  <1>3. \A d \in Calls: node'[d] = IF d = c THEN st ELSE node[d]
    BY <1>1
  <1>4. CASE guard' = guard /\ node[c] # "prompt"
    BY <1>1, <1>2, <1>3, <1>4
  <1>5. CASE guard' = c /\ c \in Direct /\ st = "prompt"
    BY <1>1, <1>2, <1>3, <1>5
  <1>6. CASE guard' = Released(c)
    BY <1>1, <1>2, <1>3, <1>6 DEF Released
  <1> QED BY <1>4, <1>5, <1>6

LEMMA LeafTypeOK == ASSUME TypeOK, NEW c \in Calls, Leaf(c) PROVE TypeOK'
  <1>1. CASE Sign(c)
    BY <1>1 DEF Sign, TypeOK, nodeVars, hostVars, history
  <1>2. CASE GiveUp(c)
    BY <1>2 DEF GiveUp, TypeOK, nodeVars, hostVars, history
  <1>3. CASE Receive(c)
    <2> DEFINE e == IF node[c] = "approved" THEN "signed" ELSE "failed"
    <2> DEFINE k == IF node[c] = "approved" THEN key[c] ELSE 0
    <2>1. leaf' = [leaf EXCEPT ![c] = e] /\ got' = [got EXCEPT ![c] = k]
      BY <1>3 DEF Receive
    <2>2. leaf' \in [Calls -> {"idle", "sent", "signed", "failed"}]
      BY <2>1 DEF TypeOK
    <2>3. k \in Key \cup {0}
      BY DEF TypeOK
    <2>4. got' \in [Calls -> Key \cup {0}]
      BY <2>1, <2>3 DEF TypeOK
    <2>5. /\ node' = [node EXCEPT ![c] = "gone"] /\ guard' = guard /\ node[c] # "prompt"
          /\ UNCHANGED <<clock, made, identity, grants, key, hostVars, history>>
      BY <1>3 DEF Receive
    <2>6. /\ node' \in [Calls -> NodeState] /\ guard' \in Direct \cup {NoCall}
          /\ guard' # NoCall => node'[guard'] = "prompt"
      BY <2>5, GuardTyped DEF NodeState
    <2> QED BY <2>2, <2>4, <2>5, <2>6 DEF TypeOK, hostVars, history
  <1> QED BY <1>1, <1>2, <1>3 DEF Leaf

LEMMA NodeTypeOK == ASSUME TypeOK, NEW c \in Calls, Node(c) PROVE TypeOK'
  <1>0. identity \in Key \cup {0} /\ Undecided \subseteq Calls
    BY DEF TypeOK, Undecided
  <1>1. CASE Arrive(c)
    <2>1. node' = [node EXCEPT ![c] = "queued"] /\ guard' = guard /\ node[c] # "prompt"
      BY <1>1 DEF Arrive
    <2>2. /\ node' \in [Calls -> NodeState] /\ guard' \in Direct \cup {NoCall}
          /\ guard' # NoCall => node'[guard'] = "prompt"
      BY <2>1, GuardTyped DEF NodeState
    <2>3. born' \in [Calls -> Key \cup {0}]
      BY <1>0, <1>1 DEF Arrive, TypeOK
    <2>4. covered' \subseteq Calls
      BY <1>1 DEF Arrive, TypeOK, Coverable
    <2> QED BY <1>1, <2>2, <2>3, <2>4 DEF Arrive, TypeOK, leafVars, hostVars
  <1>6. CASE Ignore(c)
    <2>1. node' = [node EXCEPT ![c] = "dropped"] /\ guard' = guard /\ node[c] # "prompt"
      BY <1>6 DEF Ignore
    <2>2. /\ node' \in [Calls -> NodeState] /\ guard' \in Direct \cup {NoCall}
          /\ guard' # NoCall => node'[guard'] = "prompt"
      BY <2>1, GuardTyped DEF NodeState
    <2> QED BY <1>6, <2>2 DEF Ignore, TypeOK, leafVars, hostVars, history
  <1>2. CASE Decide(c)
    <2>1. PICK st \in {"allowed", "prompt"}: node' = [node EXCEPT ![c] = st]
      BY <1>2 DEF Decide
    <2>2. \/ guard' = guard
          \/ guard' = c /\ c \in Direct /\ node' = [node EXCEPT ![c] = "prompt"]
      BY <1>2 DEF Decide, KeepsGuard
    <2>3. node[c] # "prompt"
      BY <1>2 DEF Decide
    <2>4. /\ node' \in [Calls -> NodeState] /\ guard' \in Direct \cup {NoCall}
          /\ guard' # NoCall => node'[guard'] = "prompt"
      BY <2>1, <2>2, <2>3, GuardTyped DEF NodeState
    <2> QED BY <1>2, <2>4 DEF Decide, TypeOK, leafVars, hostVars, history
  <1>3. CASE Answer(c)
    <2>1. PICK st \in {"allowed", "refused"}: node' = [node EXCEPT ![c] = st]
      BY <1>3 DEF Answer, AfterAnswer
    <2>2. /\ node' \in [Calls -> NodeState] /\ guard' \in Direct \cup {NoCall}
          /\ guard' # NoCall => node'[guard'] = "prompt"
      BY <1>3, <2>1, GuardTyped DEF Answer, NodeState
    <2>3. saidYes' \subseteq Calls
      BY <1>3 DEF Answer, TypeOK
    <2> QED BY <1>3, <2>2, <2>3 DEF Answer, TypeOK, leafVars, hostVars
  <1>4. CASE Spawn(c)
    <2>1. PICK st \in {"signing", "denied", "dropped"}: node' = [node EXCEPT ![c] = st]
      BY <1>4 DEF Spawn
    <2>2. guard' = guard /\ node[c] # "prompt"
      BY <1>4 DEF Spawn
    <2>3. /\ node' \in [Calls -> NodeState] /\ guard' \in Direct \cup {NoCall}
          /\ guard' # NoCall => node'[guard'] = "prompt"
      BY <2>1, <2>2, GuardTyped DEF NodeState
    <2>4. key' \in [Calls -> Key \cup {0}]
      BY <1>0, <1>4 DEF Spawn, Snapshot, TypeOK
    <2> QED BY <1>4, <2>3, <2>4 DEF Spawn, TypeOK, leafVars, hostVars, history
  <1>5. CASE Complete(c)
    <2>1. PICK st \in {"approved", "denied"}: node' = [node EXCEPT ![c] = st]
      BY <1>5 DEF Complete
    <2>2. guard' = guard /\ node[c] # "prompt"
      BY <1>5 DEF Complete
    <2>3. /\ node' \in [Calls -> NodeState] /\ guard' \in Direct \cup {NoCall}
          /\ guard' # NoCall => node'[guard'] = "prompt"
      BY <2>1, <2>2, GuardTyped DEF NodeState
    <2> QED BY <1>5, <2>3 DEF Complete, TypeOK, leafVars, hostVars, history
  <1> QED BY <1>1, <1>2, <1>3, <1>4, <1>5, <1>6 DEF Node

LEMMA HostTypeOK == ASSUME TypeOK, NEW h \in Hosts, Host(h) PROVE TypeOK'
  <1>1. ASSUME NEW what \in {"stop", "active"}, Enter(h, what) PROVE TypeOK'
    BY <1>1 DEF Enter, TypeOK, nodeVars, leafVars, history
  <1>2. CASE EnterGrant(h)
    <2>1. PICK f \in Filters, ttl \in Ttls:
              wanted' = [wanted EXCEPT ![h] = {[filter |-> f, until |-> clock + Clamp(ttl)]}]
      BY <1>2 DEF EnterGrant
    <2>2. {[filter |-> f, until |-> clock + Clamp(ttl)]} \in SUBSET Grants
      BY Bounds, ClampedTtl DEF TypeOK, Grants
    <2>3. wanted' \in [Hosts -> SUBSET Grants]
      BY <2>1, <2>2 DEF TypeOK, Grants
    <2>4. made' \in 0 .. MaxGrants
      BY <1>2, Bounds DEF EnterGrant, TypeOK
    <2>5. host' \in [Hosts -> {"idle", "grant", "stop", "active"}]
      BY <1>2 DEF EnterGrant, TypeOK
    <2> QED BY <1>2, <2>3, <2>4, <2>5 DEF EnterGrant, TypeOK, Grants, nodeVars, leafVars, history
  <1>3. CASE Grant(h)
    <2>1. wanted[h] \subseteq Grants /\ {} \in SUBSET Grants
      BY DEF TypeOK, Grants
    <2>2. grants' \subseteq Grants /\ inForce' \subseteq Grants
      BY <1>3, <2>1 DEF Grant, TypeOK, Grants
    <2>3. wanted' \in [Hosts -> SUBSET Grants]
      BY <1>3, <2>1 DEF Grant, TypeOK, Grants
    <2>4. covered' \subseteq Calls
      BY <1>3 DEF Grant, TypeOK, Coverable, Undecided
    <2>5. host' \in [Hosts -> {"idle", "grant", "stop", "active"}]
      BY <1>3 DEF Grant, TypeOK
    <2> QED BY <1>3, <2>2, <2>3, <2>4, <2>5 DEF Grant, TypeOK, Grants, nodeVars, leafVars
  <1>4. CASE Stop(h)
    BY <1>4 DEF Stop, Cleared, TypeOK, nodeVars, leafVars
  <1>5. CASE Active(h)
    BY <1>5 DEF Active, TypeOK, nodeVars, leafVars, history
  <1> QED BY <1>1, <1>2, <1>3, <1>4, <1>5 DEF Host

LEMMA NextTypeOK == TypeOK /\ [Next]_vars => TypeOK'
  <1> SUFFICES ASSUME TypeOK, [Next]_vars PROVE TypeOK'
    OBVIOUS
  <1>1. CASE Reload
    BY <1>1, Bounds DEF Reload, TypeOK, Key, nodeVars, leafVars, hostVars, history
  <1>2. CASE Tick
    BY <1>2, Bounds DEF Tick, TypeOK, nodeVars, leafVars, hostVars, history
  <1>3. CASE UNCHANGED vars
    BY <1>3 DEF vars, TypeOK, nodeVars, leafVars, hostVars, history
  <1> QED BY <1>1, <1>2, <1>3, LeafTypeOK, NodeTypeOK, HostTypeOK DEF Next

\* Type correctness; a policy lock kept across a prompt belongs to a request
\* of respond_to_sign_request whose prompt is open.
THEOREM TypeCorrect == Spec => []TypeOK
  BY InitTypeOK, NextTypeOK, PTL DEF Spec

----------------------------------------------------------------------------
(* Nothing is signed unasked                                               *)

\* The policy holds exactly the grants made since the last stop, and a queued
\* request that it would approve has been recorded as covered.
AuthInv ==
    /\ grants = inForce
    /\ \A c \in Calls: node[c] = "queued" /\ AutoApproved(c) => c \in covered
    /\ SignedOnlyIfAuthorised

LEMMA InitAuth == Init => AuthInv
  BY DEF Init, AuthInv, SignedOnlyIfAuthorised

\* A request under a live grant counts as coverable, and the other way round.
LEMMA CoverableIffApproved ==
    ASSUME NEW cs \in SUBSET Calls
    PROVE  Coverable(cs, grants) = {c \in cs: AutoApproved(c)}
  BY DEF Coverable, AutoApproved, Covers, Live, Matches

LEMMA LeafAuth == ASSUME TypeOK, AuthInv, NEW c \in Calls, Leaf(c) PROVE AuthInv'
  <1>1. UNCHANGED <<clock, grants, inForce, covered, saidYes>>
    BY DEF Leaf, Sign, GiveUp, Receive, history
  <1>2. \/ node' = node
        \/ node' = [node EXCEPT ![c] = "gone"]
    BY DEF Leaf, Sign, GiveUp, Receive, nodeVars
  <1>3. \A d \in Calls: node'[d] = node[d] \/ node'[d] = "gone"
    BY <1>2 DEF TypeOK
  <1> QED BY <1>1, <1>3
        DEF AuthInv, SignedOnlyIfAuthorised, AutoApproved, Live, Covers, Matches

LEMMA NodeAuth == ASSUME TypeOK, AuthInv, NEW c \in Calls, Node(c) PROVE AuthInv'
  <1>0. node \in [Calls -> NodeState]
    BY DEF TypeOK
  <1>1. UNCHANGED <<clock, grants, inForce>>
    BY DEF Node, Arrive, Ignore, Decide, Answer, Spawn, Complete, history
  <1>2. \A d \in Calls: AutoApproved(d)' <=> AutoApproved(d)
    BY <1>1 DEF AutoApproved, Live, Covers, Matches
  <1>3. CASE Arrive(c)
    <2>1. node' = [node EXCEPT ![c] = "queued"] /\ saidYes' = saidYes
      BY <1>3 DEF Arrive
    <2>2. covered' = covered \cup {d \in {c}: AutoApproved(d)}
      BY <1>3, CoverableIffApproved DEF Arrive, AuthInv
    <2> QED BY <1>0, <1>1, <1>2, <2>1, <2>2 DEF AuthInv, SignedOnlyIfAuthorised
  <1>4. CASE Decide(c)
    <2>1. /\ node[c] = "queued" /\ UNCHANGED <<covered, saidYes>>
          /\ \/ AutoApproved(c) /\ node' = [node EXCEPT ![c] = "allowed"]
             \/ node' = [node EXCEPT ![c] = "prompt"]
      BY <1>4 DEF Decide, history
    <2> QED BY <1>0, <1>1, <1>2, <2>1 DEF AuthInv, SignedOnlyIfAuthorised
  <1>5. CASE Answer(c)
    <2>1. PICK yes \in BOOLEAN: /\ node' = [node EXCEPT ![c] = AfterAnswer(yes)]
                               /\ saidYes' = IF yes THEN saidYes \cup {c} ELSE saidYes
      BY <1>5 DEF Answer
    <2>2. covered' = covered
      BY <1>5 DEF Answer
    <2> QED BY <1>0, <1>1, <1>2, <2>1, <2>2 DEF AfterAnswer, AuthInv, SignedOnlyIfAuthorised
  <1>6. CASE Ignore(c) \/ Spawn(c) \/ Complete(c)
    <2>1. UNCHANGED <<covered, saidYes>>
      BY <1>6 DEF Ignore, Spawn, Complete, history
    <2>2. \/ node[c] = "allowed" /\ node' = [node EXCEPT ![c] = "signing"]
          \/ \E st \in {"denied", "dropped"}: node' = [node EXCEPT ![c] = st]
          \/ node[c] = "signing" /\ node' = [node EXCEPT ![c] = "approved"]
      BY <1>6 DEF Ignore, Spawn, Complete
    <2> QED BY <1>0, <1>1, <1>2, <2>1, <2>2 DEF AuthInv, SignedOnlyIfAuthorised
  <1> QED BY <1>3, <1>4, <1>5, <1>6 DEF Node

LEMMA HostAuth == ASSUME TypeOK, AuthInv, NEW h \in Hosts, Host(h) PROVE AuthInv'
  <1>1. UNCHANGED <<clock, node, saidYes>>
    BY DEF Host, Enter, EnterGrant, Grant, Stop, Active, nodeVars, history
  <1>2. CASE Grant(h)
    <2>1. grants' = inForce' /\ covered' = covered \cup Coverable(Undecided, grants')
      BY <1>2 DEF Grant, AuthInv
    <2>2. \A d \in Calls: node[d] = "queued" /\ AutoApproved(d)' => d \in covered'
      BY <1>1, <2>1 DEF Coverable, Undecided, AutoApproved, Covers, Live, Matches
    <2> QED BY <1>1, <2>1, <2>2 DEF AuthInv, SignedOnlyIfAuthorised
  <1>3. CASE Stop(h)
    BY <1>1, <1>3 DEF Stop, Cleared, AuthInv, SignedOnlyIfAuthorised, AutoApproved
  <1>4. ASSUME (\E what \in {"stop", "active"}: Enter(h, what)) \/ EnterGrant(h) \/ Active(h)
        PROVE  AuthInv'
    <2>1. UNCHANGED <<clock, grants, inForce, node, covered, saidYes>>
      BY <1>4 DEF Enter, EnterGrant, Active, nodeVars, history
    <2> QED BY <2>1 DEF AuthInv, SignedOnlyIfAuthorised, AutoApproved, Live, Covers, Matches
  <1> QED BY <1>2, <1>3, <1>4 DEF Host

LEMMA NextAuth == TypeOK /\ AuthInv /\ [Next]_vars => AuthInv'
  <1> SUFFICES ASSUME TypeOK, AuthInv, [Next]_vars PROVE AuthInv'
    OBVIOUS
  <1>1. CASE Reload \/ UNCHANGED vars
    <2>1. UNCHANGED <<clock, grants, inForce, node, covered, saidYes>>
      BY <1>1 DEF Reload, vars, nodeVars, history
    <2> QED BY <2>1 DEF AuthInv, SignedOnlyIfAuthorised, AutoApproved, Live, Covers, Matches
  <1>2. CASE Tick
    <2>1. UNCHANGED <<grants, inForce, node, covered, saidYes>>
      BY <1>2 DEF Tick, nodeVars, history
    <2>2. clock \in Nat /\ clock' = clock + 1 /\ grants \subseteq Grants
      BY <1>2, Bounds DEF Tick, TypeOK, Grants
    <2>3. \A g \in grants: clock' < g.until => clock < g.until
      BY <2>2 DEF Grants
    <2>4. \A d \in Calls: AutoApproved(d)' => AutoApproved(d)
      BY <2>1, <2>3 DEF AutoApproved, Live, Covers, Matches
    <2> QED BY <2>1, <2>4 DEF AuthInv, SignedOnlyIfAuthorised
  <1> QED BY <1>1, <1>2, LeafAuth, NodeAuth, HostAuth DEF Next

\* No request is signed unless a live grant covered it while it waited, made
\* since the last stop, or the user approved that very request.
THEOREM NothingSignedUnasked == Spec => []SignedOnlyIfAuthorised
  <1>1. AuthInv => SignedOnlyIfAuthorised
    BY DEF AuthInv
  <1> QED BY <1>1, InitAuth, NextAuth, TypeCorrect, PTL DEF Spec

----------------------------------------------------------------------------
(* Whose key signs                                                         *)

\* Identities are only replaced by later ones, and the node reads the cell
\* after the request has arrived.
KeyInv ==
    \A c \in Calls:
        /\ born[c] <= identity
        /\ node[c] = "none" => leaf[c] # "signed"
        /\ node[c] \in {"signing", "approved"} => key[c] >= born[c]
        /\ leaf[c] = "signed" => got[c] >= born[c]

LEMMA InitKey == Init => KeyInv
  BY DEF Init, KeyInv

LEMMA NextKey == TypeOK /\ KeyInv /\ [Next]_vars => KeyInv'
  <1> SUFFICES ASSUME TypeOK, KeyInv, [Next]_vars PROVE KeyInv'
    OBVIOUS
  <1>0. /\ node \in [Calls -> NodeState]
        /\ leaf \in [Calls -> {"idle", "sent", "signed", "failed"}]
        /\ key \in [Calls -> Nat] /\ got \in [Calls -> Nat] /\ born \in [Calls -> Nat]
        /\ identity \in Nat
    <2>1. Key \cup {0} \subseteq Nat
      BY Bounds DEF Key
    <2> QED BY <2>1 DEF TypeOK
  <1>1. CASE Reload
    <2>1. identity <= identity' /\ identity' \in Nat /\ UNCHANGED <<node, key, leaf, got, born>>
      BY <1>0, <1>1 DEF Reload, nodeVars, leafVars, history
    <2> QED BY <1>0, <2>1 DEF KeyInv
  <1>2. ASSUME NEW h \in Hosts, Host(h) PROVE KeyInv'
    <2>1. UNCHANGED <<identity, node, key, leaf, got, born>>
      BY <1>2 DEF Host, Enter, EnterGrant, Grant, Stop, Active, nodeVars, leafVars, history
    <2> QED BY <2>1 DEF KeyInv
  <1>3. CASE Tick \/ UNCHANGED vars
    <2>1. UNCHANGED <<identity, node, key, leaf, got, born>>
      BY <1>3 DEF Tick, vars, nodeVars, leafVars, history
    <2> QED BY <2>1 DEF KeyInv
  <1>4. ASSUME NEW c \in Calls, Leaf(c) PROVE KeyInv'
    <2>1. CASE Sign(c) \/ GiveUp(c)
      <3>1. UNCHANGED <<identity, node, key, got, born>>
        BY <2>1 DEF Sign, GiveUp, nodeVars, history
      <3>2. \A d \in Calls: leaf'[d] = "signed" => leaf[d] = "signed"
        BY <1>0, <2>1 DEF Sign, GiveUp
      <3> QED BY <3>1, <3>2 DEF KeyInv
    <2>2. CASE Receive(c)
      <3>1. /\ UNCHANGED <<identity, key, born>>
            /\ node' = [node EXCEPT ![c] = "gone"]
            /\ leaf' = [leaf EXCEPT ![c] = IF node[c] = "approved" THEN "signed" ELSE "failed"]
            /\ got'  = [got EXCEPT ![c] = IF node[c] = "approved" THEN key[c] ELSE 0]
        BY <2>2 DEF Receive, history
      <3> QED BY <1>0, <3>1 DEF KeyInv
    <2> QED BY <1>4, <2>1, <2>2 DEF Leaf
  <1>5. ASSUME NEW c \in Calls, Node(c) PROVE KeyInv'
    <2>1. UNCHANGED <<identity, leaf, got>>
      BY <1>5 DEF Node, Arrive, Ignore, Decide, Answer, Spawn, Complete, leafVars
    <2>2. CASE Arrive(c)
      <3>1. /\ node[c] = "none" /\ key' = key
            /\ node' = [node EXCEPT ![c] = "queued"] /\ born' = [born EXCEPT ![c] = identity]
        BY <2>2 DEF Arrive
      <3> QED BY <1>0, <2>1, <3>1 DEF KeyInv
    <2>3. CASE Spawn(c)
      <3>1. /\ node[c] \in {"allowed", "refused"} /\ born' = born
            /\ \/ /\ key' = [key EXCEPT ![c] = identity]
                  /\ node' = [node EXCEPT ![c] = "signing"]
               \/ /\ key' = key
                  /\ \E st \in {"denied", "dropped"}: node' = [node EXCEPT ![c] = st]
        BY <2>3 DEF Spawn, Snapshot, history
      <3> QED BY <1>0, <2>1, <3>1 DEF KeyInv
    <2>4. CASE Ignore(c) \/ Decide(c) \/ Answer(c) \/ Complete(c)
      <3>1. key' = key /\ born' = born /\ node[c] # "none"
        BY <2>4 DEF Ignore, Decide, Answer, Complete, history
      <3>2. \/ \E st \in {"allowed", "prompt", "refused", "denied", "dropped"}:
                   node' = [node EXCEPT ![c] = st]
            \/ node[c] = "signing" /\ node' = [node EXCEPT ![c] = "approved"]
        BY <2>4 DEF Ignore, Decide, Answer, Complete, AfterAnswer
      <3> QED BY <1>0, <2>1, <3>1, <3>2 DEF KeyInv
    <2> QED BY <1>5, <2>2, <2>3, <2>4 DEF Node
  <1> QED BY <1>1, <1>2, <1>3, <1>4, <1>5 DEF Next

\* A signature the leaf receives is by an identity that was loaded at or after
\* the arrival of its request.
THEOREM RetiredKeysDoNotSign == Spec => []NeverRetiredKey
  <1>1. KeyInv => NeverRetiredKey
    BY DEF KeyInv, NeverRetiredKey
  <1> QED BY <1>1, InitKey, NextKey, TypeCorrect, PTL DEF Spec

=============================================================================
