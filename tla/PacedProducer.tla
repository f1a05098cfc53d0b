---------------------------- MODULE PacedProducer ----------------------------
(***************************************************************************)
(* What a demand-paced producer promises, without tasks, cache or network   *)
(* (module comment of crates/ndn-mobile/src/object_relay.rs, l.10-26): the  *)
(* demand front rises with the consumer's Interests, and the produced front *)
(* rises only from a point at most Lead segments past it.                   *)
(***************************************************************************)
EXTENDS Naturals

CONSTANTS
    LastSeg, \* the object's segments are 0 .. LastSeg
    Lead     \* how far past the demand front production may stand

VARIABLES
    front,   \* the highest segment demanded so far
    produced \* one past the highest segment produced so far

vars == <<front, produced>>

Init == front = 0 /\ produced = 0

Demand ==
    /\ front' \in front + 1 .. LastSeg
    /\ UNCHANGED produced

Produce ==
    /\ produced <= front + Lead
    /\ produced' \in produced + 1 .. LastSeg + 1
    /\ UNCHANGED front

Next == Demand \/ Produce

Spec == Init /\ [][Next]_vars
=============================================================================
