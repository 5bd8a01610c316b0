------------------------------- MODULE MCHeap -------------------------------
(* The heap of mem.c for TLC: a few blocks of different sizes.             *)
EXTENDS Heap

\* Sizes below the least one, just too small and large enough to leave a rest
\* that is split off, and more than there is when another block is in use
UseSizes == {0, 1, 24, 40, 200}
=============================================================================
