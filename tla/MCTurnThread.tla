---------------------------- MODULE MCTurnThread ----------------------------
(* Two turns, a round of up to two calls before the cap, and one trouble.  *)
EXTENDS TurnThread
=============================================================================
