--------------------------- MODULE MCSourceIndex ---------------------------
(* Instance i1 has two threads, i2 one; they share two sources.  The two    *)
(* threads of i1, and the two sources, are interchangeable.                *)
EXTENDS SourceIndex, TLC

CONSTANTS i1, i2, w1, w2, w3, s1, s2

Homes == w1 :> i1 @@ w2 :> i1 @@ w3 :> i2

Alike == Permutations({w1, w2}) \cup Permutations({s1, s2})
=============================================================================
