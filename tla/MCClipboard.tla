---------------------------- MODULE MCClipboard ----------------------------
(***************************************************************************)
(* Instances of Clipboard for TLC: a server and two clients, which are     *)
(* interchangeable.                                                        *)
(***************************************************************************)
EXTENDS Clipboard

CONSTANTS c1, c2, server

Symmetry == Permutations(Clients)
=============================================================================
