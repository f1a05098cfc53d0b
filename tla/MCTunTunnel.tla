---------------------------- MODULE MCTunTunnel ----------------------------
(* The failures of the instance of TunTunnel.                               *)
EXTENDS TunTunnel

OneOfEach == [k \in Kinds |-> 1]
=============================================================================
