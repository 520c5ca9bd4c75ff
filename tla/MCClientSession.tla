-------------------------- MODULE MCClientSession --------------------------
(* The bounds are in the configurations.                                   *)
EXTENDS ClientSession

CONSTANTS a, b
=============================================================================
