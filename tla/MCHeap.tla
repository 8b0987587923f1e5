------------------------------- MODULE MCHeap -------------------------------
(* Heap over an arena that holds up to four small blocks, with requests     *)
(* that do and do not leave room for a split.                               *)
EXTENDS Heap, TLC
Sizes == {1, 17, 60}
Perms == Permutations(CPUs)
=============================================================================
