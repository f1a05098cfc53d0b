---------------------------- MODULE MCOfferBoard ----------------------------
(* Symmetric callers and files for the instances of OfferBoard.             *)
EXTENDS OfferBoard, TLC

CallersAndFiles == Permutations(Callers) \cup Permutations(Files)
=============================================================================
