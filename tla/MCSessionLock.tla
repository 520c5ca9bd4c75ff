--------------------------- MODULE MCSessionLock ---------------------------
(* Five calls on two sessions: three contend for one, two for the other.   *)
EXTENDS SessionLock, TLC

CONSTANTS c1, c2, c3, c4, c5, s1, s2

MCCalls == {c1, c2, c3, c4, c5}
MCSessions == {s1, s2}
MCSessionOf == c1 :> s1 @@ c2 :> s1 @@ c3 :> s1 @@ c4 :> s2 @@ c5 :> s2
=============================================================================
