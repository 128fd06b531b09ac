----------------------------- MODULE MCConsole ------------------------------
(* Console with a screen of three lines of two cells.                       *)
EXTENDS Console
CONSTANTS a, JUNK

Chars == {<<c>> : c \in {a, NL, BS, NUL}}
Screens == {[i \in 0..(CELLS - 1) |-> JUNK]}

(* The number v in n places to the base b, and the places it needs.         *)
Places(v, b, n) == [i \in 1..n |-> (v \div b^(n - i)) % b]
Needs(v, b) == IF v < b THEN 1 ELSE 1 + Max({n \in 1..9 : v >= b^n})

(* Around the ends of digits and halves, and large ones.                    *)
Numbers ==
  0..300 \cup UNION {{n - 1, n, n + 1} : n \in {4095, 65535, 16777216, 999999999, 2147483646}}

(* The functions that print numbers, against numerals by position.          *)
ASSUME NumeralsByPosition ==
  \A v \in Numbers :
    /\ v < 256 => hex8(v) = Places(v, 16, 2)
    /\ v < 65536 => hex16(v) = Places(v, 16, 4)
    /\ hex32(v) = Places(v, 16, 8)
    /\ dec32(v) = Places(v, 10, Needs(v, 10))
=============================================================================
