---------------------------- MODULE MCSpscQueue ----------------------------
(***************************************************************************)
(* The ring with four slots whose indices wrap after two laps, so that a   *)
(* full ring, an empty ring and both wraps are met in every combination.   *)
(***************************************************************************)
EXTENDS SpscQueue
=============================================================================
