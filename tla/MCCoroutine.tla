---------------------------- MODULE MCCoroutine ----------------------------
(* Small instances of Coroutine for TLC. *)
EXTENDS Coroutine

Symmetry == Permutations(Co)

\* one coroutine with nested calls, or two that resume each other
Deep    == [t \in Thread |-> IF t = Main THEN 2 ELSE 6]
Chained == [t \in Thread |-> 2]
=============================================================================
