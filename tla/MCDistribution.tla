-------------------------- MODULE MCDistribution --------------------------
(* Distribution for TLC: the receive task of a session broadcasts two         *)
(* captions, and another task one message that may overlap with either.       *)
EXTENDS Distribution, TLC

CONSTANTS recv, other

(* The viewers are interchangeable. *)
Symmetry == Permutations(Viewers)

MCCallers == {recv, other}
MCCasts == recv :> 2 @@ other :> 1
=============================================================================
