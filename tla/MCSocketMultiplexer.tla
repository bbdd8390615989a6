------------------------ MODULE MCSocketMultiplexer ------------------------
(***************************************************************************)
(* Instances of SocketMultiplexer for TLC: the event loop listens, accepts *)
(* and connects; another thread has a connection of its own.               *)
(***************************************************************************)
EXTENDS SocketMultiplexer

CONSTANTS loop, other, listening, accepted, outbound

OwnedByOther == [s \in Outgoing |-> other]
=============================================================================
