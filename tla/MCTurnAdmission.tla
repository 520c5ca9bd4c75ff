-------------------------- MODULE MCTurnAdmission --------------------------
(* Three sends, so that one can be live, one in line behind it and one     *)
(* queueing in between, and an operator's cancel.                          *)
EXTENDS TurnAdmission

CONSTANTS a, b, c, k1

MCSends == {a, b, c}
MCCancels == {k1}
=============================================================================
