---------------------------- MODULE MCInterrupts ----------------------------
(* Programs that divide by zero (0, no error code), break alignment (17) or *)
(* protection (13, with error code), and ticks of which every second        *)
(* schedules.                                                               *)
EXTENDS Interrupts
=============================================================================
