--------------------------- MODULE MCHistoryWalk ---------------------------
(* HistoryWalk for TLC: see the cfg files for the instances.                  *)
EXTENDS HistoryWalk, TLC

(* Sessions are interchangeable. *)
Symmetry == Permutations(Sessions)
=============================================================================
