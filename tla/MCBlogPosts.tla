---------------------------- MODULE MCBlogPosts ----------------------------
(* Finite instances of BlogPosts for TLC. *)
EXTENDS BlogPosts, TLC

CONSTANTS p1, p2, r1, r2, r3, r4

Requests3 == {r1, r2, r3}
Requests4 == {r1, r2, r3, r4}
Posts1 == {p1}
Posts2 == {p1, p2}

\* Requests and ids are interchangeable: nothing orders them.
Symmetry == Permutations(Request) \cup Permutations(PostId)
=============================================================================
