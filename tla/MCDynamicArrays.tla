-------------------------- MODULE MCDynamicArrays --------------------------
(* Two arrays of up to four entries, two to a block, next to allocations   *)
(* of one block and of an aligned pair, in a heap that all of them fill.   *)
EXTENDS DynamicArrays

MCRequests == {[blocks |-> 1, align |-> 1], [blocks |-> 2, align |-> 2]}
Symmetry == Permutations(Arrays)
=============================================================================
