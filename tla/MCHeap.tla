------------------------------- MODULE MCHeap -------------------------------
(* Heap with the header and the alignment of the kernel (3 and 2 units of  *)
(* 4 bytes) and a heap that holds a handful of blocks.                     *)
EXTENDS Heap
=============================================================================
