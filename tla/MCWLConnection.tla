-------------------------- MODULE MCWLConnection --------------------------
(* WLConnection for TLC: the sockets are given in the cfg as model values.   *)
EXTENDS WLConnection, TLC

=============================================================================
