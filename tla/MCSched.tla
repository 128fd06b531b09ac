------------------------------ MODULE MCSched ------------------------------
(* Sched on a few tasks.  The tick counter wraps at a range that is no     *)
(* multiple of the interval, as 2^32 is no multiple of 5.                  *)
EXTENDS Sched, TLC

Symmetry == Permutations(Task)
=============================================================================
