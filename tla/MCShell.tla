------------------------------ MODULE MCShell -------------------------------
(* Shell with a screen of three lines of three cells and an array of four. *)
EXTENDS Shell
CONSTANTS a, b, JUNK, DOLLAR, QUESTION, PID

Screens == {[i \in 0..(CELLS - 1) |-> JUNK]}
Keys == {a, b, NL, BS}
PromptText == <<DOLLAR>>
NotFoundText == <<QUESTION, NL>>
PidText == <<PID, NL>>
Programs == {<<a>>, <<b, a>>}
SelfName == <<b, a>>
=============================================================================
