------------------------------- MODULE Paper --------------------------------
(***************************************************************************)
(* What the console of kernel/console.c promises: text is typed on an      *)
(* endless strip of cells, W of them in a line, of which H lines can be    *)
(* seen.  There is no copying and no second coordinate.  The window        *)
(* follows the cursor down and never goes back up, and the cursor cannot   *)
(* be moved back above the window.                                         *)
(***************************************************************************)
EXTENDS Naturals, SequencesExt

CONSTANTS
  W, H,       \* the window
  STRIP,      \* bound: the cells of the strip
  Screen,     \* what may be in the window at first
  Text,       \* the sequences of characters that are typed
  BLANK, NL, BS, NUL

VARIABLES
  strip,      \* the cells
  pos,        \* the cell that is typed next
  top         \* the first line of the window

vars == <<strip, pos, top>>

MoveTo(p, n) == [p EXCEPT !.pos = n, !.top = Max({@, n \div W + 1 - H} \cap Nat)]

(* One character on paper p = [strip, pos, top].                           *)
Type(p, c) ==
  CASE c = NUL -> p
    [] c = NL -> MoveTo(p, (p.pos \div W + 1) * W)
    [] c = BS -> LET n == IF p.pos = p.top * W THEN p.pos ELSE p.pos - 1
                 IN  [p EXCEPT !.pos = n, !.strip[n] = BLANK]
    [] OTHER -> MoveTo([p EXCEPT !.strip[p.pos] = c], p.pos + 1)

Init ==
  /\ \E s \in Screen : strip = [i \in 0..(STRIP - 1) |-> IF i < W * H THEN s[i] ELSE BLANK]
  /\ pos = 0 /\ top = 0

Write(s) ==
  LET typed[k \in 0..Len(s)] ==
        IF k = 0 THEN [strip |-> strip, pos |-> pos, top |-> top] ELSE Type(typed[k - 1], s[k])
      p == typed[Len(s)]
  IN  strip' = p.strip /\ pos' = p.pos /\ top' = p.top

(* The window is wiped.                                                    *)
Wipe ==
  /\ strip' = [i \in DOMAIN strip |-> IF i < top * W THEN strip[i] ELSE BLANK]
  /\ pos' = top * W
  /\ UNCHANGED top

Next == (\E s \in Text : Write(s)) \/ Wipe

Spec == Init /\ [][Next]_vars
=============================================================================
