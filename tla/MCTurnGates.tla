---------------------------- MODULE MCTurnGates ----------------------------
(* Two decision calls race over the gates of two turns, with one restart.  *)
EXTENDS TurnGates

CONSTANTS d1, d2

MCDecisions == {d1, d2}
MCModes == {"plan", "agent"}
=============================================================================
