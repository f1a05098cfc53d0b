--------------------------- MODULE MCObjectRelay ---------------------------
(* The kinds of failure that TLC's instance of ObjectRelay allows. *)
EXTENDS ObjectRelay

AllFaults == FaultKinds
=============================================================================
