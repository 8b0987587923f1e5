---------------------------- MODULE MCHeapLocked ----------------------------
(* HeapLocked with two CPUs over an arena of up to three blocks.            *)
EXTENDS HeapLocked, TLC
Sizes == {1, 50}
Perms == Permutations(CPUs)
=============================================================================
