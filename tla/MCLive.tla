-------------------------------- MODULE MCLive --------------------------------
(***************************************************************************)
(* A small instance of LiveReplies: two sessions and an import of one      *)
(* account, and a token that is nobody's.                                  *)
(***************************************************************************)
EXTENDS LiveReplies

CONSTANTS s1, s2, i1, a, x

=============================================================================
