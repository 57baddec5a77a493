------------------------------- MODULE MCService -------------------------------
(***************************************************************************)
(* A small instance of Sharing: the default account and one that signs up, *)
(* two requests at a time, and a process that dies twice.                  *)
(***************************************************************************)
EXTENDS Sharing

CONSTANTS astolfo, n1, t1, u1, u2, c1, r1, r2

=============================================================================
