---------------------------- MODULE NetworkFaces ----------------------------
(***************************************************************************)
(* The configured network peers of crates/ndn-mobile/src/engine.rs across   *)
(* suspend, resume and shutdown. Every build and resume dials each peer     *)
(* once and leaves a supervisor task behind that redials it at the same     *)
(* face id. Suspending cancels a token; the tasks find out when they next   *)
(* look.                                                                   *)
(*                                                                         *)
(* Tokens are numbered: 1 is the one build makes, and each suspend makes    *)
(* the next. A task and a face keep the number they were made with.         *)
(*                                                                         *)
(* PeerRouting is about the same struct: the two modules share no names,   *)
(* so that one module can extend both.                                     *)
(***************************************************************************)
EXTENDS Naturals

CONSTANTS
    NetPeers,   \* network_peers, each with its stable face id
    Tasks,      \* supervisor tasks there may be for one peer (a bound)
    MaxToken    \* bound on the suspends

ASSUME TokenAssumption == MaxToken \in Nat \ {0}

VARIABLES
    token,   \* network_cancel: the current token
    ended,   \* the shutdown token is cancelled
    todo,    \* the peers that build or resume still has to dial
    up,      \* built or resumed, and not suspended since
    table,   \* table[p]: the token of the face at p's id in the face table, 0 if none
    task,    \* task[p][i]: supervisor i of p
    reach    \* the peers that can be reached

callVars == <<token, ended, todo, up>>
facesVars == <<callVars, table, task, reach>>

Token == 0 .. MaxToken
Task  == [pc: {"none", "test", "dial", "backoff", "watch", "done"}, token: Token]

FacesTypeOK ==
    /\ token \in Token \ {0} /\ ended \in BOOLEAN
    /\ todo \subseteq NetPeers /\ up \in BOOLEAN
    /\ table \in [NetPeers -> Token]
    /\ task \in [NetPeers -> [Tasks -> Task]]
    /\ reach \subseteq NetPeers

FacesInit ==
    /\ token = 1 /\ ended = FALSE
    /\ todo = NetPeers /\ up = TRUE
    /\ table = [p \in NetPeers |-> 0]
    /\ task = [p \in NetPeers |-> [i \in Tasks |-> [pc |-> "none", token |-> 0]]]
    /\ reach \in SUBSET NetPeers

\* Calls take &mut self: the next one starts when resume has dialled all peers.
Returned == todo = {}

TokenCancelled(g) == ended \/ g < token

----------------------------------------------------------------------------
(* build, suspend_network_faces, resume_network_faces, shutdown            *)

SuspendFaces ==
    /\ Returned /\ ~ended /\ token < MaxToken
    /\ token' = token + 1
    /\ up' = FALSE
    /\ UNCHANGED <<ended, todo, table, task, reach>>

Resume ==
    /\ Returned /\ ~ended
    /\ todo' = NetPeers
    /\ up' = TRUE
    /\ UNCHANGED <<token, ended, table, task, reach>>

Shutdown ==
    /\ Returned /\ ~ended
    /\ ended' = TRUE
    /\ UNCHANGED <<token, todo, up, table, task, reach>>

\* build_peer_face: one bounded attempt, whose face replaces whatever is at the
\* id, and a supervisor.
Mounted(p, g) == [table EXCEPT ![p] = g]
Forgotten(p, i) == task
Supervised(p, i) == [task EXCEPT ![p][i] = [pc |-> "test", token |-> token]]

Build(p, i) ==
    /\ p \in todo /\ task[p][i].pc \in {"none", "done"}
    /\ todo' = todo \ {p}
    /\ \/ p \in reach /\ table' = Mounted(p, token)
       \/ UNCHANGED table
    /\ task' = Supervised(p, i)
    /\ UNCHANGED <<token, ended, up, reach>>

----------------------------------------------------------------------------
(* The supervisor task                                                     *)

MoveTo(p, i, pc) == task' = [task EXCEPT ![p][i].pc = pc]

NeverLooks(p, i) == FALSE
SeesCancel(p, i) == TokenCancelled(task[p][i].token)

\* Is there a face at the id? If not, and the token still stands, dial.
Test(p, i) ==
    /\ task[p][i].pc = "test"
    /\ MoveTo(p, i, CASE table[p] # 0     -> "watch"
                      [] SeesCancel(p, i) -> "done"
                      [] OTHER            -> "dial")
    /\ UNCHANGED <<callVars, table, reach>>

\* The dial does not watch the token: its face may come after a suspend, or
\* over one that a later resume mounted.
Current(p, i) == token
Own(p, i) == task[p][i].token

DialDone(p, i) ==
    /\ task[p][i].pc = "dial" /\ p \in reach
    /\ table' = Mounted(p, Own(p, i))
    /\ MoveTo(p, i, "watch")
    /\ UNCHANGED <<callVars, reach>>

DialFails(p, i) ==
    /\ task[p][i].pc = "dial"
    /\ MoveTo(p, i, "backoff")
    /\ UNCHANGED <<callVars, table, reach>>

\* Waiting ends with the timer, or with the token.
GivesUp == "done"
LooksAgain == "test"

Tick(p, i) ==
    /\ \/ task[p][i].pc = "backoff"
       \/ task[p][i].pc = "watch" /\ table[p] = 0
    /\ MoveTo(p, i, LooksAgain)
    /\ UNCHANGED <<callVars, table, reach>>

Stop(p, i) ==
    /\ task[p][i].pc \in {"backoff", "watch"}
    /\ SeesCancel(p, i)
    /\ MoveTo(p, i, "done")
    /\ UNCHANGED <<callVars, table, reach>>

----------------------------------------------------------------------------
(* The forwarder and the network                                           *)

\* The engine drops a face whose token was cancelled or whose link failed.
Drop(p) ==
    /\ table[p] # 0
    /\ TokenCancelled(table[p]) \/ p \notin reach
    /\ table' = [table EXCEPT ![p] = 0]
    /\ UNCHANGED <<callVars, task, reach>>

Link(p) ==
    /\ reach' = IF p \in reach THEN reach \ {p} ELSE reach \cup {p}
    /\ UNCHANGED <<callVars, table, task>>

----------------------------------------------------------------------------
Call == SuspendFaces \/ Resume \/ Shutdown
Supervise(p, i) ==
    Test(p, i) \/ DialDone(p, i) \/ DialFails(p, i) \/ Tick(p, i) \/ Stop(p, i)

FacesNext ==
    \/ Call
    \/ \E p \in NetPeers: Drop(p) \/ Link(p)
    \/ \E p \in NetPeers, i \in Tasks: Build(p, i) \/ Supervise(p, i)

FacesSpec == FacesInit /\ [][FacesNext]_facesVars

\* Tasks run and the engine cleans up. A select that finds both its token and
\* its timer ready does not choose the timer every time, and a reachable peer
\* answers some dial.
FacesFairness ==
    \A p \in NetPeers:
        /\ WF_facesVars(Drop(p))
        /\ WF_facesVars(\E i \in Tasks: Build(p, i))
        /\ \A i \in Tasks: /\ WF_facesVars(Supervise(p, i))
                           /\ SF_facesVars(Stop(p, i))
                           /\ SF_facesVars(DialDone(p, i))

FacesFairSpec == FacesSpec /\ FacesFairness

----------------------------------------------------------------------------
(* Properties                                                              *)

Live(p) == table[p] # 0 /\ ~TokenCancelled(table[p])

\* Nothing dials a peer back in after a suspend, however late an old dial ends:
\* while the network faces are suspended no peer has a live face.
SuspendedStaysDown == ~up => \A p \in NetPeers: ~Live(p)

\* Whenever the network faces are up and resume is done with a peer, a
\* supervisor that a suspend would stop, and nothing has stopped, stands by.
SomeoneRedials ==
    up /\ ~ended =>
        \A p \in NetPeers \ todo: \E i \in Tasks:
            task[p][i].token = token /\ task[p][i].pc \notin {"none", "done"}

\* A peer that stays reachable while the faces stay up ends with a live face
\* for good, whatever old dials and dropped links came before.
Reconnects ==
    \A p \in NetPeers: <>[](up /\ ~ended /\ p \in reach) => <>[]Live(p)

Stopping(p, i) ==
    task[p][i].pc \notin {"none", "done"} /\ TokenCancelled(task[p][i].token)

\* Supervisors of a cancelled token do not run for ever.
SupervisorsStop ==
    \A p \in NetPeers, i \in Tasks:
        Stopping(p, i) ~> ~Stopping(p, i)
=============================================================================
