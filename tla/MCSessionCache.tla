--------------------------- MODULE MCSessionCache ---------------------------
(* Two sessions that compete for one cache entry.  One is modified twice,  *)
(* read and deleted concurrently, the other is written.                    *)
EXTENDS SessionCache, TLC

CONSTANTS c1, c2, c3, c4, c5, s1, s2

MCCalls == {c1, c2, c3, c4, c5}
MCSessions == {s1, s2}
MCSessionOf == c1 :> s1 @@ c2 :> s1 @@ c3 :> s1 @@ c4 :> s1 @@ c5 :> s2
MCOpOf ==
  c1 :> "modify" @@ c2 :> "modify" @@ c3 :> "get" @@ c4 :> "delete" @@ c5 :> "upsert"

(* The two modifies differ by name only.                                   *)
MCSymmetry == Permutations({c1, c2})
=============================================================================
