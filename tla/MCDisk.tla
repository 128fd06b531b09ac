------------------------------- MODULE MCDisk -------------------------------
(* Disk with a few sectors and timeouts of a tick or two.                   *)
EXTENDS Disk
=============================================================================
