---------------------------- MODULE MCHandshake ----------------------------
(***************************************************************************)
(* Instances of Handshake.  The connections may change places: none comes  *)
(* first but by what it does.                                              *)
(***************************************************************************)
EXTENDS Handshake, TLC

AnyOrder == Permutations(Conns)
=============================================================================
