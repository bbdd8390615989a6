---------------------------- MODULE MCEventQueue ----------------------------
(***************************************************************************)
(* Instances of EventQueue for TLC.  The first timer fires again and       *)
(* again, the other once.                                                  *)
(***************************************************************************)
EXTENDS EventQueue, TLC

CONSTANTS worker, press, quit, stop, repeating, once

TimerDurations == (repeating :> 2) @@ (once :> 1)
=============================================================================
