-------------------------- MODULE MCRemoteSigning --------------------------
(* Classes of the calls in the instances of RemoteSigning that TLC checks. *)
EXTENDS RemoteSigning, TLC

CONSTANTS c1, c2, c3, route, trust
Classes2 == (c1 :> route @@ c2 :> trust)
Classes3 == (c1 :> route @@ c2 :> trust @@ c3 :> route)
AnyOrRoute == {AnyClass, route}
=============================================================================
