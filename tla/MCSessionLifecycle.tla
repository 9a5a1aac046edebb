------------------------ MODULE MCSessionLifecycle ------------------------
(* SessionLifecycle for TLC: the sets are given in the cfg as model values.  *)
EXTENDS SessionLifecycle, TLC

\* Handlers differ by nothing but their names, nor do admins.  Used where only
\* invariants are checked.
Symmetry == Permutations(Handlers) \cup Permutations(Admins)
=============================================================================
