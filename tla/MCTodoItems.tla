---------------------------- MODULE MCTodoItems ----------------------------
(* Finite instances of TodoItems for TLC. *)
EXTENDS TodoItems, TLC

CONSTANTS t1, t2, r1, r2, r3, r4, r5

Requests5 == {r1, r2, r3, r4, r5}
Items2 == {t1, t2}

\* Requests and ids are interchangeable: nothing orders them.
Symmetry == Permutations(Request) \cup Permutations(TodoId)
=============================================================================
