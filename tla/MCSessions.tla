----------------------------- MODULE MCSessions -----------------------------
(* Two sessions, a workspace that either may be in, a tool that two calls  *)
(* share, and three people: one who may decide, one who may talk, and an   *)
(* administrator.                                                          *)
EXTENDS Sessions, TLC

CONSTANTS s1, s2, q1, q2, ann, tom, root, m1, m2

MCIds == {s1, s2}
MCRequests == {q1, q2}
MCCalls == {[tool |-> "forget", args |-> m1], [tool |-> "forget", args |-> m2]}
MCEdits == [of : {"delete"}, to : {m1, m2}]
MCFirstRules == "forget" :> "requires_approval"
MCCan == ann :> {"read", "decide"} @@ tom :> {"chat"} @@ root :> {"administer"}
Symmetry == Permutations(MCRequests) \cup Permutations({m1, m2})
=============================================================================
