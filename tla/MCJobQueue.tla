----------------------------- MODULE MCJobQueue -----------------------------
(***************************************************************************)
(* Instances of JobQueue for TLC. The slot a1 belongs to one process, b1   *)
(* to another. In ChangingLists one answer continues another, one is       *)
(* shorter than a checkpoint may be, and one lists x2 at another position; *)
(* with batches of two the last batch of a list is a short one.            *)
(***************************************************************************)
EXTENDS JobQueue, TLC

CONSTANTS a1, b1, r1, r2, x1, x2, x3

TwoInstances == {{a1}, {b1}}

OneRecord == {<<x1>>}

ChangingLists == {<<x1>>, <<x1, x2, x3>>, <<x2>>}

Symmetry == Permutations(Slots) \cup Permutations(Recoverers)

=============================================================================
