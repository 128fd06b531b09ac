------------------------------- MODULE MCTty -------------------------------
(* Tty on a ring of a few slots and enough keys to go round it more than   *)
(* twice, so that overruns happen at every point of the reader's loop.     *)
EXTENDS Tty
=============================================================================
