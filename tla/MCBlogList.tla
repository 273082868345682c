----------------------------- MODULE MCBlogList -----------------------------
(* A finite instance of BlogList for TLC. *)
EXTENDS BlogList, TLC

CONSTANTS p1, p2, p3, r1, r2, r3

Requests3 == {r1, r2, r3}
Posts2 == {p1, p2}
Asked == {-1, 0, 2, 5}

Symmetry == Permutations(Request) \cup Permutations(PostId)
=============================================================================
