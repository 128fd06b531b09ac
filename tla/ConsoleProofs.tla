--------------------------- MODULE ConsoleProofs ----------------------------
(***************************************************************************)
(* Proofs about Console, for every size of screen and all texts: the       *)
(* cursor register shows where the next character goes, and the console    *)
(* implements Paper.  One character is followed in detail; texts by        *)
(* induction on their length, as a search for the least counterexample.    *)
(* And about Shell on top of it: the command that is run and the cells in  *)
(* front of the cursor are the line that was edited.                       *)
(***************************************************************************)
EXTENDS Shell, SequenceTheorems, WellFoundedInduction, TLAPS

----------------------------------------------------------------------------
(* Lines of cells.                                                         *)

(* The number of cells in n lines.                                         *)
Row(n) == n * CONSOLE_WIDTH

(* Lines follow each other without gaps, and the screen is whole lines.    *)
LEMMA RowFacts ==
  /\ CONSOLE_WIDTH \in Nat \ {0} /\ CONSOLE_HEIGHT \in Nat \ {0} /\ MAX_SCROLL \in Nat
  /\ Row(0) = 0 /\ CELLS = Row(CONSOLE_HEIGHT)
  /\ \A n \in Nat : Row(n) \in Nat /\ Row(n + 1) = Row(n) + CONSOLE_WIDTH
  /\ \A n, m \in Nat : Row(n + m) = Row(n) + Row(m)
<1>1. CONSOLE_WIDTH \in Nat \ {0} /\ CONSOLE_HEIGHT \in Nat \ {0} /\ MAX_SCROLL \in Nat
  BY ConsoleAssumption
<1>2. Row(0) = 0 /\ CELLS = Row(CONSOLE_HEIGHT)
  BY <1>1 DEF Row, CELLS
<1>3. ASSUME NEW n \in Nat
      PROVE  Row(n) \in Nat /\ Row(n + 1) = Row(n) + CONSOLE_WIDTH
  BY <1>1 DEF Row
<1>4. ASSUME NEW n \in Nat, NEW m \in Nat
      PROVE  Row(n + m) = Row(n) + Row(m)
  BY <1>1 DEF Row
<1> QED BY <1>1, <1>2, <1>3, <1>4

(* A later line starts behind the whole of an earlier one.                 *)
LEMMA RowOrder ==
  ASSUME NEW n \in Nat, NEW m \in Nat, n < m
  PROVE  Row(n) + CONSOLE_WIDTH <= Row(m)
<1>1. PICK d \in Nat : m = (n + 1) + d
  <2>1. m - (n + 1) \in Nat /\ m = (n + 1) + (m - (n + 1))
    OBVIOUS
  <2> QED BY <2>1
<1>2. Row(n + 1) = Row(n) + CONSOLE_WIDTH
  BY RowFacts
<1>3. n + 1 \in Nat
  OBVIOUS
<1>4. Row(m) = Row(n + 1) + Row(d)
  BY <1>1, <1>3, RowFacts
<1> DEFINE a == Row(n)
           b == Row(d)
           w == CONSOLE_WIDTH
           e == Row(m)
<1>5. a \in Nat /\ b \in Nat /\ w \in Nat /\ e \in Nat
  BY RowFacts
<1>6. e = (a + w) + b
  BY <1>4, <1>2
<1> HIDE DEF a, b, w, e
<1>7. a + w <= e
  BY <1>5, <1>6
<1> QED BY <1>7 DEF a, w, e

(* The line that a cell is in.                                             *)
LEMMA RowDiv ==
  ASSUME NEW n \in Nat, NEW x \in 0..(CONSOLE_WIDTH - 1)
  PROVE  (Row(n) + x) \div CONSOLE_WIDTH = n
<1>1. PICK w \in Nat, r \in Nat : w = CONSOLE_WIDTH /\ r = Row(n) /\ x \in Nat /\ w > 0 /\ x < w
  <2>1. CONSOLE_WIDTH \in Nat \ {0} /\ Row(n) \in Nat
    BY RowFacts
  <2>2. x \in Nat /\ x < CONSOLE_WIDTH /\ CONSOLE_WIDTH > 0
    BY <2>1
  <2> QED BY <2>1, <2>2
<1>2. PICK a \in Nat : a = r + x
  BY <1>1
<1>3. PICK q \in Nat : q = a \div w /\ w * q <= a /\ a < w * q + w
  <2>1. a \div w \in Nat /\ w * (a \div w) <= a /\ a < w * (a \div w) + w
    BY <1>1
  <2> QED BY <2>1
<1>4. PICK p \in Nat : p = Row(q) /\ p = w * q
  <2>1. Row(q) \in Nat /\ Row(q) = q * w
    BY <1>1, RowFacts DEF Row
  <2>2. q * w = w * q
    OBVIOUS
  <2> QED BY <2>1, <2>2
<1>5. p <= a /\ a < p + w
  BY <1>3, <1>4
<1>6. ~(q < n)
  <2>1. ASSUME q < n PROVE FALSE
    <3>1. p + w <= r
      BY <1>1, <1>4, <2>1, RowOrder
    <3> QED BY <1>2, <1>5, <3>1
  <2> QED BY <2>1
<1>7. ~(n < q)
  <2>1. ASSUME n < q PROVE FALSE
    <3>1. r + w <= p
      BY <1>1, <1>4, <2>1, RowOrder
    <3> QED BY <1>1, <1>2, <1>5, <3>1
  <2> QED BY <2>1
<1>8. q = n
  BY <1>6, <1>7
<1> QED BY <1>1, <1>2, <1>3, <1>8

(* The two bytes that set_console_cursor_pos writes.                       *)
LEMMA TwoBytes ==
  ASSUME NEW n \in Nat, n < 65536
  PROVE  (n % 256) + 256 * ((n \div 256) % 256) = n
OBVIOUS

(* The top of the window on the paper, after a move.                       *)
LEMMA MaxOfTwo ==
  ASSUME NEW a \in Nat, NEW b \in Int
  PROVE  P!Max({a, b} \cap Nat) = IF b > a THEN b ELSE a
<1> DEFINE S == {a, b} \cap Nat
           m == IF b > a THEN b ELSE a
<1>1. m \in S /\ \A y \in S : m >= y /\ y \in Nat
  OBVIOUS
<1>2. \A x \in S : (\A y \in S : x >= y) => x = m
  BY <1>1
<1> HIDE DEF S, m
<1>3. (CHOOSE x \in S : \A y \in S : x >= y) = m
  BY <1>1, <1>2
<1> QED BY <1>3 DEF P!Max, S, m

----------------------------------------------------------------------------
(* The console and the paper.                                              *)

ScreenChar == UNION {Range(s) : s \in Screen}
TextChar == UNION {Range(s) : s \in Text}
ShellChar ==
  Key \cup Range(Prompt) \cup Range(NotFound) \cup Range(Pid) \cup Range(Message) \cup Range(Done)
Char == (0..15) \cup {BLANK, X, NL, BS, NUL} \cup ScreenChar \cup TextChar \cup ShellChar

VgaCells == [0..(CELLS - 1) -> Char]

Con == [vga : VgaCells, x : Nat, y : Nat, crtc : Nat, above : Seq(Char)]

(* The cells of the strip that Console bounds.                             *)
StripCells == 0..((CONSOLE_HEIGHT + MAX_SCROLL) * CONSOLE_WIDTH - 1)

(* The cells K of the strip.                                               *)
StripOf(c, K) ==
  [i \in K |->
     LET n == Len(c.above)
     IN  IF i < n THEN c.above[i + 1] ELSE IF i < n + CELLS THEN c.vga[i - n] ELSE BLANK]

PosOf(c) == Len(c.above) + c.y * CONSOLE_WIDTH + c.x

PaperOf(c, K) == [strip |-> StripOf(c, K), pos |-> PosOf(c), top |-> Len(c.above) \div CONSOLE_WIDTH]

(* Above the screen are t whole lines.                                     *)
Lines(c, t) == c \in Con /\ t \in Nat /\ Len(c.above) = Row(t)

OnScreen(c) == c.x < CONSOLE_WIDTH /\ c.y < CONSOLE_HEIGHT

(* Between two calls the cursor is on the screen and in the register.      *)
Good(c) ==
  /\ \E t \in Nat : Lines(c, t)
  /\ OnScreen(c)
  /\ c.crtc = c.y * CONSOLE_WIDTH + c.x

(* The screen has at least a line and its cells fit the cursor register.   *)
LEMMA CellsFacts ==
  CELLS \in Nat /\ CELLS > 0 /\ CONSOLE_WIDTH <= CELLS /\ CELLS <= 65536
<1>1. CELLS = Row(CONSOLE_HEIGHT) /\ CONSOLE_WIDTH \in Nat \ {0} /\ CONSOLE_HEIGHT \in Nat
  BY RowFacts
<1>2. 0 < CONSOLE_HEIGHT /\ Row(0) = 0
  BY RowFacts
<1>3. Row(0) + CONSOLE_WIDTH <= Row(CONSOLE_HEIGHT)
  BY <1>1, <1>2, RowOrder
<1>4. Row(CONSOLE_HEIGHT) \in Nat
  BY <1>1, RowFacts
<1>5. CELLS <= 65536
  BY ConsoleAssumption
<1> QED BY <1>1, <1>2, <1>3, <1>4, <1>5

(* The cell of the cursor is on the screen.                                *)
LEMMA CellOnScreen ==
  ASSUME NEW c \in Con, OnScreen(c)
  PROVE  /\ c.y * CONSOLE_WIDTH + c.x \in 0..(CELLS - 1)
         /\ c.y * CONSOLE_WIDTH + c.x < 65536
<1>1. c.x \in Nat /\ c.y \in Nat /\ c.x < CONSOLE_WIDTH /\ c.y < CONSOLE_HEIGHT
  BY DEF Con, OnScreen
<1>2. CELLS = Row(CONSOLE_HEIGHT) /\ CONSOLE_WIDTH \in Nat /\ CONSOLE_HEIGHT \in Nat
  BY RowFacts
<1>3. Row(c.y) + CONSOLE_WIDTH <= CELLS
  BY <1>1, <1>2, RowOrder
<1>4. PICK r \in Nat : r = Row(c.y) /\ r = c.y * CONSOLE_WIDTH
  BY <1>1, RowFacts DEF Row
<1>5. PICK x \in Nat : x = c.x
  BY <1>1
<1>6. r + x \in 0..(CELLS - 1) /\ r + x < 65536
  BY <1>1, <1>2, <1>3, <1>4, <1>5, CellsFacts
<1> QED BY <1>4, <1>5, <1>6

(* Blanks, and what is in a text, can be on the screen.                    *)
LEMMA BlankChar == BLANK \in Char
BY DEF Char

(* set_console_cursor_pos shows the cursor.                                *)
LEMMA CursorSet ==
  ASSUME NEW c \in Con, OnScreen(c)
  PROVE  /\ set_console_cursor_pos(c) \in Con
         /\ set_console_cursor_pos(c) = [c EXCEPT !.crtc = c.y * CONSOLE_WIDTH + c.x]
<1> DEFINE n == c.y * CONSOLE_WIDTH + c.x
<1>1. n \in Nat /\ n < 65536
  BY CellOnScreen, CellsFacts
<1> HIDE DEF n
<1>2. (n % 256) + 256 * ((n \div 256) % 256) = n
  BY <1>1, TwoBytes
<1>3. set_console_cursor_pos(c) = [c EXCEPT !.crtc = n]
  BY <1>2 DEF set_console_cursor_pos, n
<1>4. [c EXCEPT !.crtc = n] \in Con
  BY <1>1 DEF Con
<1> QED BY <1>3, <1>4 DEF n

----------------------------------------------------------------------------
(* Scrolling: the first line of the screen becomes the last line above it. *)

(* What console_scroll does, field by field.                               *)
LEMMA ScrollFields ==
  ASSUME NEW c \in Con, c.y = CONSOLE_HEIGHT
  PROVE  LET d == console_scroll(c)
         IN  /\ d \in Con
             /\ d.x = c.x /\ d.y = CONSOLE_HEIGHT - 1
             /\ Len(d.above) = Len(c.above) + CONSOLE_WIDTH
             /\ \A i \in 1..Len(c.above) : d.above[i] = c.above[i]
             /\ \A i \in 1..CONSOLE_WIDTH : d.above[Len(c.above) + i] = c.vga[i - 1]
             /\ \A i \in 0..(CELLS - 1) :
                  d.vga[i] = IF i < CELLS - CONSOLE_WIDTH THEN c.vga[i + CONSOLE_WIDTH] ELSE BLANK
<1> DEFINE d == console_scroll(c)
           first == [i \in 1..CONSOLE_WIDTH |-> c.vga[i - 1]]
           up == c.above \o first
           rest == [i \in 0..(CELLS - 1) |->
                      IF i < CELLS - CONSOLE_WIDTH THEN c.vga[i + CONSOLE_WIDTH] ELSE BLANK]
<1>1. /\ CONSOLE_WIDTH \in Nat \ {0} /\ CONSOLE_HEIGHT \in Nat \ {0}
      /\ CELLS \in Nat /\ CONSOLE_WIDTH <= CELLS
  BY RowFacts, CellsFacts
<1>2. \A i \in 0..(CELLS - 1) : c.vga[i] \in Char
  BY DEF Con, VgaCells
<1>3. first \in Seq(Char) /\ Len(first) = CONSOLE_WIDTH
  <2>1. \A i \in 1..CONSOLE_WIDTH : c.vga[i - 1] \in Char
    BY <1>1, <1>2
  <2>2. first \in [1..CONSOLE_WIDTH -> Char]
    BY <2>1
  <2> HIDE DEF first
  <2> QED BY <1>1, <2>2
<1>4. \A i \in 1..CONSOLE_WIDTH : first[i] = c.vga[i - 1]
  OBVIOUS
<1>5. rest \in VgaCells
  <2>1. \A i \in 0..(CELLS - 1) :
          (IF i < CELLS - CONSOLE_WIDTH THEN c.vga[i + CONSOLE_WIDTH] ELSE BLANK) \in Char
    BY <1>1, <1>2, BlankChar
  <2> QED BY <2>1 DEF VgaCells
<1> HIDE DEF first
<1>6. c.above \in Seq(Char) /\ Len(c.above) \in Nat
  BY DEF Con
<1>7. /\ up \in Seq(Char)
      /\ Len(up) = Len(c.above) + CONSOLE_WIDTH
      /\ \A i \in 1..(Len(c.above) + CONSOLE_WIDTH) :
           up[i] = IF i <= Len(c.above) THEN c.above[i] ELSE first[i - Len(c.above)]
  BY <1>3, <1>6, ConcatProperties
<1>8. ~(c.y < CONSOLE_HEIGHT)
  BY <1>1
<1>9. d = [c EXCEPT !.y = CONSOLE_HEIGHT - 1, !.above = up, !.vga = rest]
  BY <1>8 DEF console_scroll, first
<1> HIDE DEF up, rest
<1>10. d \in Con /\ d.x = c.x /\ d.y = CONSOLE_HEIGHT - 1 /\ d.above = up /\ d.vga = rest
  <2>1. CONSOLE_HEIGHT - 1 \in Nat
    BY <1>1
  <2> HIDE DEF d
  <2> QED BY <1>5, <1>7, <1>9, <2>1 DEF Con
<1>11. \A i \in 1..Len(c.above) : d.above[i] = c.above[i]
  <2>1. ASSUME NEW i \in 1..Len(c.above) PROVE up[i] = c.above[i]
    BY <1>1, <1>6, <1>7
  <2> QED BY <1>10, <2>1
<1>12. \A i \in 1..CONSOLE_WIDTH : d.above[Len(c.above) + i] = c.vga[i - 1]
  <2>1. ASSUME NEW i \in 1..CONSOLE_WIDTH PROVE up[Len(c.above) + i] = c.vga[i - 1]
    <3>1. PICK n \in Nat : n = Len(c.above)
      BY <1>6
    <3>2. n + i \in 1..(n + CONSOLE_WIDTH) /\ ~(n + i <= n) /\ (n + i) - n = i
      BY <1>1
    <3>3. up[n + i] = first[i]
      BY <1>7, <3>1, <3>2
    <3> QED BY <1>4, <3>1, <3>3
  <2> QED BY <1>10, <2>1
<1>13. \A i \in 0..(CELLS - 1) :
         d.vga[i] = IF i < CELLS - CONSOLE_WIDTH THEN c.vga[i + CONSOLE_WIDTH] ELSE BLANK
  BY <1>10 DEF rest
<1>14. Len(d.above) = Len(c.above) + CONSOLE_WIDTH
  BY <1>7, <1>10
<1> HIDE DEF d
<1>15. /\ d \in Con
      /\ d.x = c.x /\ d.y = CONSOLE_HEIGHT - 1
  BY <1>10
<1> QED BY <1>11, <1>12, <1>13, <1>14, <1>15 DEF d

(* No cell of the paper changes.                                           *)
LEMMA ScrollStrip ==
  ASSUME NEW c \in Con, c.y = CONSOLE_HEIGHT,
         NEW K \in SUBSET Nat
  PROVE  StripOf(console_scroll(c), K) = StripOf(c, K)
<1> DEFINE d == console_scroll(c)
<1>1. PICK w \in Nat, n \in Nat, m \in Nat : w = CONSOLE_WIDTH /\ n = Len(c.above) /\ m = CELLS
  <2>1. CONSOLE_WIDTH \in Nat /\ CELLS \in Nat
    BY RowFacts, CellsFacts
  <2>2. Len(c.above) \in Nat
    BY DEF Con
  <2> QED BY <2>1, <2>2
<1>2. w > 0 /\ w <= m
  BY <1>1, CellsFacts, RowFacts
<1>3. /\ Len(d.above) = n + w
      /\ \A i \in 1..n : d.above[i] = c.above[i]
      /\ \A i \in 1..w : d.above[n + i] = c.vga[i - 1]
      /\ \A i \in 0..(m - 1) : d.vga[i] = IF i < m - w THEN c.vga[i + w] ELSE BLANK
  BY <1>1, ScrollFields
<1> HIDE DEF d
<1> DEFINE old(i) == IF i < n THEN c.above[i + 1] ELSE IF i < n + m THEN c.vga[i - n] ELSE BLANK
           new(i) == IF i < n + w THEN d.above[i + 1]
                     ELSE IF i < n + w + m THEN d.vga[i - (n + w)] ELSE BLANK
<1>4. ASSUME NEW i \in Nat PROVE new(i) = old(i)
  <2>1. CASE i < n
    <3>1. i + 1 \in 1..n
      BY <2>1
    <3> QED BY <1>3, <2>1, <3>1
  <2>2. CASE n <= i /\ i < n + w
    <3>1. PICK j \in Nat : i = n + j
      <4>1. i - n \in Nat /\ i = n + (i - n)
        BY <2>2
      <4> QED BY <4>1
    <3>2. j + 1 \in 1..w /\ n + (j + 1) = i + 1 /\ (j + 1) - 1 = j /\ i - n = j
      BY <2>2, <3>1
    <3>3. d.above[i + 1] = c.vga[j]
      BY <1>3, <3>2
    <3>4. i < n + w /\ ~(i < n) /\ i < n + m
      BY <1>2, <2>2
    <3>5. new(i) = c.vga[j] /\ old(i) = c.vga[j]
      BY <3>2, <3>3, <3>4
    <3> QED BY <3>5
  <2>3. CASE n + w <= i /\ i < n + w + m
    <3>1. PICK j \in Nat : i = (n + w) + j
      <4>1. i - (n + w) \in Nat /\ i = (n + w) + (i - (n + w))
        BY <2>3
      <4> QED BY <4>1
    <3>2. j \in 0..(m - 1) /\ i - (n + w) = j /\ i - n = j + w /\ ~(i < n) /\ ~(i < n + w)
      BY <2>3, <3>1
    <3>3. new(i) = d.vga[j]
      BY <2>3, <3>2
    <3>4. CASE j < m - w
      <4>1. i < n + m
        BY <3>1, <3>4
      <4> QED BY <1>3, <3>2, <3>3, <3>4, <4>1
    <3>5. CASE ~(j < m - w)
      <4>1. ~(i < n + m)
        BY <3>1, <3>5
      <4> QED BY <1>3, <3>2, <3>3, <3>5, <4>1
    <3> QED BY <3>4, <3>5
  <2>4. CASE ~(i < n + w + m)
    <3>1. ~(i < n) /\ ~(i < n + w) /\ ~(i < n + m)
      BY <2>4
    <3> QED BY <2>4, <3>1
  <2> QED BY <2>1, <2>2, <2>3, <2>4
<1> HIDE DEF old, new
<1>5. \A i \in K : i \in Nat
  OBVIOUS
<1>6. StripOf(d, K) = [i \in K |-> new(i)]
  BY <1>1, <1>3 DEF StripOf, new
<1>7. StripOf(c, K) = [i \in K |-> old(i)]
  BY <1>1 DEF StripOf, old
<1> QED BY <1>4, <1>5, <1>6, <1>7 DEF d

----------------------------------------------------------------------------
(* One character.                                                          *)

(* The top of the window is what is above the screen.                      *)
LEMMA TopOf ==
  ASSUME NEW c, NEW t \in Nat, Lines(c, t)
  PROVE  Len(c.above) \div CONSOLE_WIDTH = t
<1>1. 0 \in 0..(CONSOLE_WIDTH - 1) /\ Row(t) \in Nat
  BY RowFacts
<1>2. (Row(t) + 0) \div CONSOLE_WIDTH = t
  BY <1>1, RowDiv
<1>3. Row(t) + 0 = Row(t)
  BY <1>1
<1> QED BY <1>2, <1>3 DEF Lines

(* A move on the paper, field by field.                                    *)
LEMMA MoveToIs ==
  ASSUME NEW s, NEW m, NEW t, NEW n
  PROVE  P!MoveTo([strip |-> s, pos |-> m, top |-> t], n)
           = [strip |-> s, pos |-> n,
              top |-> P!Max({t, n \div CONSOLE_WIDTH + 1 - CONSOLE_HEIGHT} \cap Nat)]
<1> DEFINE p == [strip |-> s, pos |-> m, top |-> t]
           r == [strip |-> s, pos |-> n, top |-> t]
           k == P!Max({t, n \div CONSOLE_WIDTH + 1 - CONSOLE_HEIGHT} \cap Nat)
<1>1. P!MoveTo(p, n)
        = [p EXCEPT !.pos = n,
             !.top = P!Max({p.top, n \div CONSOLE_WIDTH + 1 - CONSOLE_HEIGHT} \cap Nat)]
  BY DEF P!MoveTo
<1>2. p.top = t
  OBVIOUS
<1>3. [p EXCEPT !.pos = n] = r
  OBVIOUS
<1>4. P!MoveTo(p, n) = [p EXCEPT !.pos = n, !.top = k]
  <2> HIDE DEF p
  <2> QED BY <1>1, <1>2
<1> HIDE DEF k
<1>5. [r EXCEPT !.top = k] = [strip |-> s, pos |-> n, top |-> k]
  OBVIOUS
<1> HIDE DEF p, r
<1>6. [p EXCEPT !.pos = n, !.top = k] = [[p EXCEPT !.pos = n] EXCEPT !.top = k]
  OBVIOUS
<1>7. P!MoveTo(p, n) = [strip |-> s, pos |-> n, top |-> k]
  BY <1>3, <1>4, <1>5, <1>6, Zenon
<1> QED BY <1>7, Zenon DEF p, k

(* The cursor is not on the strip.                                         *)
LEMMA SameStrip ==
  ASSUME NEW c, NEW d, d.above = c.above, d.vga = c.vga,
         NEW K \in SUBSET Nat
  PROVE  StripOf(d, K) = StripOf(c, K)
BY DEF StripOf

(* The position on the paper, by line and column.                          *)
LEMMA PosIs ==
  ASSUME NEW c, NEW t \in Nat, Lines(c, t)
  PROVE  /\ PosOf(c) = Row(t + c.y) + c.x /\ PosOf(c) \in Nat
         /\ PosOf(c) = Len(c.above) + (c.y * CONSOLE_WIDTH + c.x)
         /\ c.x < CONSOLE_WIDTH => PosOf(c) \div CONSOLE_WIDTH = t + c.y
<1>1. c.x \in Nat /\ c.y \in Nat /\ Len(c.above) = Row(t)
  BY DEF Lines, Con
<1>2. Row(t) \in Nat /\ Row(c.y) \in Nat /\ Row(t + c.y) = Row(t) + Row(c.y)
  BY <1>1, RowFacts
<1>3. PosOf(c) = (Row(t) + Row(c.y)) + c.x
  BY <1>1 DEF PosOf, Row
<1>4. PosOf(c) = Row(t + c.y) + c.x
  BY <1>2, <1>3
<1>5. PosOf(c) \in Nat /\ PosOf(c) = Row(t) + (Row(c.y) + c.x)
  <2>1. PICK a \in Nat, b \in Nat, x \in Nat : a = Row(t) /\ b = Row(c.y) /\ x = c.x
    BY <1>1, <1>2
  <2>2. (a + b) + x \in Nat /\ (a + b) + x = a + (b + x)
    OBVIOUS
  <2> QED BY <1>3, <2>1, <2>2
<1>6. ASSUME c.x < CONSOLE_WIDTH
      PROVE  PosOf(c) \div CONSOLE_WIDTH = t + c.y
  <2>0. CONSOLE_WIDTH \in Nat
    BY RowFacts
  <2>1. c.x \in 0..(CONSOLE_WIDTH - 1)
    BY <1>1, <1>6, <2>0
  <2>2. t + c.y \in Nat
    BY <1>1
  <2> QED BY <1>4, <2>1, <2>2, RowDiv
<1>7. PosOf(c) = Len(c.above) + (c.y * CONSOLE_WIDTH + c.x)
  BY <1>1, <1>5 DEF Row
<1> QED BY <1>4, <1>5, <1>6, <1>7

(* A store to VGA memory is one cell of the paper.                         *)
LEMMA StoreMarks ==
  ASSUME NEW c \in Con, OnScreen(c), NEW char \in Char,
         NEW K \in SUBSET Nat
  PROVE  LET d == Store(c, char)
         IN  /\ d \in Con /\ d.x = c.x /\ d.y = c.y /\ d.above = c.above
             /\ StripOf(d, K) = [StripOf(c, K) EXCEPT ![PosOf(c)] = char]
<1> DEFINE k == c.y * CONSOLE_WIDTH + c.x
           v == [c.vga EXCEPT ![k] = char]
           d == Store(c, char)
<1>1. k \in 0..(CELLS - 1)
  BY CellOnScreen
<1>2. c.vga \in VgaCells
  BY DEF Con
<1>3. /\ v \in VgaCells
      /\ \A i \in 0..(CELLS - 1) : v[i] = IF i = k THEN char ELSE c.vga[i]
  <2> HIDE DEF k
  <2> QED BY <1>1, <1>2 DEF VgaCells
<1>4. d = [c EXCEPT !.vga = v]
  BY DEF Store
<1> HIDE DEF v, d
<1>5. d \in Con /\ d.x = c.x /\ d.y = c.y /\ d.above = c.above /\ d.vga = v
  BY <1>3, <1>4 DEF Con
<1> HIDE DEF k
<1>6. PICK n \in Nat, m \in Nat : n = Len(c.above) /\ m = CELLS
  <2>1. Len(c.above) \in Nat
    BY DEF Con
  <2> QED BY <2>1, CellsFacts
<1>7. k \in Nat /\ k < m /\ PosOf(c) = n + k
  <2>1. c.x \in Nat /\ c.y \in Nat /\ Row(c.y) \in Nat
    BY RowFacts DEF Con
  <2>2. PosOf(c) = n + Row(c.y) + c.x /\ k = Row(c.y) + c.x
    BY <1>6 DEF PosOf, k, Row
  <2>3. PICK r \in Nat, x \in Nat : r = Row(c.y) /\ x = c.x
    BY <2>1
  <2>4. n + r + x = n + (r + x)
    OBVIOUS
  <2>5. PosOf(c) = n + k
    BY <2>2, <2>3, <2>4
  <2> QED BY <1>1, <1>6, <2>5
<1> DEFINE old(i) == IF i < n THEN c.above[i + 1] ELSE IF i < n + m THEN c.vga[i - n] ELSE BLANK
           new(i) == IF i < n THEN c.above[i + 1] ELSE IF i < n + m THEN v[i - n] ELSE BLANK
<1>8. ASSUME NEW i \in Nat
      PROVE  new(i) = IF i = n + k THEN char ELSE old(i)
  <2>1. CASE i < n
    <3>1. i # n + k
      BY <1>7, <2>1
    <3> QED BY <2>1, <3>1
  <2>2. CASE ~(i < n) /\ i < n + m
    <3>1. PICK j \in Nat : i = n + j
      <4>1. i - n \in Nat /\ i = n + (i - n)
        BY <2>2
      <4> QED BY <4>1
    <3>2. i - n = j /\ j \in 0..(CELLS - 1) /\ (i = n + k <=> j = k)
      BY <1>6, <1>7, <2>2, <3>1
    <3>3. new(i) = v[j] /\ old(i) = c.vga[j]
      BY <2>2, <3>2
    <3> QED BY <1>3, <3>2, <3>3
  <2>3. CASE ~(i < n + m)
    <3>1. i # n + k /\ ~(i < n)
      BY <1>7, <2>3
    <3> QED BY <2>3, <3>1
  <2> QED BY <2>1, <2>2, <2>3
<1> HIDE DEF old, new
<1>9. \A i \in K : i \in Nat
  OBVIOUS
<1>10. StripOf(d, K) = [i \in K |-> new(i)]
  BY <1>5, <1>6 DEF StripOf, new
<1>11. StripOf(c, K) = [i \in K |-> old(i)]
  BY <1>6 DEF StripOf, old
<1>12. [StripOf(c, K) EXCEPT ![PosOf(c)] = char] = [i \in K |-> IF i = n + k THEN char ELSE old(i)]
  BY <1>7, <1>11
<1>13. StripOf(d, K) = [StripOf(c, K) EXCEPT ![PosOf(c)] = char]
  BY <1>8, <1>9, <1>10, <1>12
<1> QED BY <1>5, <1>13 DEF d

(* The end of console_putc is a move on the paper: the window follows the  *)
(* cursor.                                                                 *)
LEMMA WrapMoves ==
  ASSUME NEW c \in Con, NEW t \in Nat, Lines(c, t),
         c.y <= CONSOLE_HEIGHT, c.x <= CONSOLE_WIDTH,
         c.x = CONSOLE_WIDTH => c.y < CONSOLE_HEIGHT,
         NEW q,
         NEW K \in SUBSET Nat
  PROVE  /\ Good(Wrapped(c))
         /\ PaperOf(Wrapped(c), K)
              = P!MoveTo([strip |-> StripOf(c, K), pos |-> q, top |-> t], PosOf(c))
<1> DEFINE e == IF c.x >= CONSOLE_WIDTH THEN [c EXCEPT !.x = 0, !.y = @ + 1] ELSE c
           d == console_scroll(e)
           r == set_console_cursor_pos(d)
           u == IF e.y = CONSOLE_HEIGHT THEN t + 1 ELSE t
<1>1. /\ CONSOLE_WIDTH \in Nat /\ CONSOLE_WIDTH > 0
      /\ CONSOLE_HEIGHT \in Nat /\ CONSOLE_HEIGHT > 0
  BY RowFacts
<1>2. c.x \in Nat /\ c.y \in Nat /\ Len(c.above) = Row(t)
  BY DEF Con, Lines
<1>3. /\ e \in Con /\ e.x < CONSOLE_WIDTH /\ e.y <= CONSOLE_HEIGHT
      /\ e.above = c.above /\ e.vga = c.vga /\ PosOf(e) = PosOf(c)
  <2>1. CASE c.x = CONSOLE_WIDTH
    <3>1. e = [c EXCEPT !.x = 0, !.y = c.y + 1]
      BY <1>1, <2>1
    <3> HIDE DEF e
    <3>2. /\ e \in Con /\ e.x = 0 /\ e.y = c.y + 1
          /\ e.above = c.above /\ e.vga = c.vga
      <4>1. c.y + 1 \in Nat /\ 0 \in Nat
        BY <1>2
      <4> QED BY <3>1, <4>1 DEF Con
    <3>3. Lines(e, t)
      BY <1>2, <3>2 DEF Lines
    <3>4. PosOf(e) = Row(t + (c.y + 1)) + 0 /\ PosOf(c) = Row(t + c.y) + CONSOLE_WIDTH
      BY <2>1, <3>2, <3>3, PosIs
    <3>5. PICK n \in Nat : n = t + c.y /\ n + 1 = t + (c.y + 1)
      BY <1>2
    <3>6. Row(n + 1) = Row(n) + CONSOLE_WIDTH /\ Row(n + 1) \in Nat
      <4>1. n + 1 \in Nat
        OBVIOUS
      <4>2. Row(n + 1) \in Nat
        BY <4>1, RowFacts
      <4>3. Row(n + 1) = Row(n) + CONSOLE_WIDTH
        BY RowFacts
      <4> QED BY <4>2, <4>3
    <3>7. PosOf(e) = PosOf(c)
      BY <3>4, <3>5, <3>6
    <3>8. c.y + 1 <= CONSOLE_HEIGHT
      BY <1>1, <1>2, <2>1
    <3> QED BY <1>1, <3>2, <3>7, <3>8
  <2>2. CASE c.x # CONSOLE_WIDTH
    <3>1. c.x < CONSOLE_WIDTH /\ ~(c.x >= CONSOLE_WIDTH)
      BY <1>1, <1>2, <2>2
    <3>2. e = c
      BY <3>1
    <3> QED BY <3>1, <3>2
  <2> QED BY <2>1, <2>2
<1>4. Wrapped(c) = r
  BY DEF Wrapped
<1> HIDE DEF e
<1>5. e.x \in Nat /\ e.y \in Nat /\ Lines(e, t) /\ StripOf(e, K) = StripOf(c, K)
  <2>1. StripOf(e, K) = StripOf(c, K)
    BY <1>3, SameStrip
  <2> QED BY <1>2, <1>3, <2>1 DEF Con, Lines
<1>6. /\ d \in Con /\ OnScreen(d) /\ Lines(d, u)
      /\ StripOf(d, K) = StripOf(c, K) /\ PosOf(d) = PosOf(c)
  <2>1. CASE e.y = CONSOLE_HEIGHT
    <3>1. /\ d \in Con /\ d.x = e.x /\ d.y = CONSOLE_HEIGHT - 1
          /\ Len(d.above) = Len(e.above) + CONSOLE_WIDTH
      BY <1>3, <2>1, ScrollFields
    <3>2. StripOf(d, K) = StripOf(e, K)
      BY <1>3, <2>1, ScrollStrip
    <3> HIDE DEF d
    <3>3. Row(t + 1) = Row(t) + CONSOLE_WIDTH
      BY RowFacts
    <3>4. Len(d.above) = Row(t + 1) /\ t + 1 \in Nat
      BY <1>2, <1>3, <3>1, <3>3
    <3>5. Lines(d, t + 1)
      BY <3>1, <3>4 DEF Lines
    <3>6. PosOf(d) = Row((t + 1) + (CONSOLE_HEIGHT - 1)) + e.x
      BY <3>1, <3>4, <3>5, PosIs
    <3>7. PosOf(e) = Row(t + CONSOLE_HEIGHT) + e.x
      BY <1>5, <2>1, PosIs
    <3>8. (t + 1) + (CONSOLE_HEIGHT - 1) = t + CONSOLE_HEIGHT
      BY <1>1
    <3>9. PosOf(d) = PosOf(e)
      BY <3>6, <3>7, <3>8
    <3>10. OnScreen(d)
      BY <1>1, <1>3, <3>1 DEF OnScreen
    <3> QED BY <1>3, <1>5, <2>1, <3>1, <3>2, <3>5, <3>9, <3>10
  <2>2. CASE e.y # CONSOLE_HEIGHT
    <3>1. e.y < CONSOLE_HEIGHT
      BY <1>1, <1>3, <1>5, <2>2
    <3>2. d = e
      BY <3>1 DEF console_scroll
    <3>3. OnScreen(e)
      BY <1>3, <3>1 DEF OnScreen
    <3> QED BY <1>3, <1>5, <2>2, <3>2, <3>3
  <2> QED BY <2>1, <2>2
<1> HIDE DEF d
<1>7. /\ r \in Con /\ r.x = d.x /\ r.y = d.y /\ r.above = d.above /\ r.vga = d.vga
      /\ r.crtc = d.y * CONSOLE_WIDTH + d.x
  <2>1. r \in Con /\ r = [d EXCEPT !.crtc = d.y * CONSOLE_WIDTH + d.x]
    BY <1>6, CursorSet
  <2> HIDE DEF r
  <2> QED BY <1>6, <2>1 DEF Con
<1> HIDE DEF r
<1>8. u \in Nat
  OBVIOUS
<1> HIDE DEF u
<1>9. Lines(r, u)
  BY <1>6, <1>7, <1>8 DEF Lines
<1>10. Good(r)
  BY <1>6, <1>7, <1>8, <1>9 DEF Good, OnScreen
<1>11. StripOf(r, K) = StripOf(c, K) /\ PosOf(r) = PosOf(c)
  <2>1. StripOf(r, K) = StripOf(d, K)
    BY <1>7, SameStrip
  <2>2. PosOf(r) = PosOf(d)
    BY <1>7 DEF PosOf
  <2> QED BY <1>6, <2>1, <2>2
<1>12. Len(r.above) \div CONSOLE_WIDTH = u
  BY <1>8, <1>9, TopOf
<1>13. PaperOf(r, K) = [strip |-> StripOf(c, K), pos |-> PosOf(c), top |-> u]
  BY <1>11, <1>12 DEF PaperOf
<1>14. PosOf(c) \div CONSOLE_WIDTH = t + e.y
  BY <1>3, <1>5, PosIs
<1>15. P!Max({t, PosOf(c) \div CONSOLE_WIDTH + 1 - CONSOLE_HEIGHT} \cap Nat) = u
  <2>1. PICK b \in Int : b = t + e.y + 1 - CONSOLE_HEIGHT
    BY <1>1, <1>5
  <2>2. (IF b > t THEN b ELSE t) = u
    BY <1>1, <1>3, <1>5, <2>1 DEF u
  <2>3. P!Max({t, b} \cap Nat) = IF b > t THEN b ELSE t
    BY MaxOfTwo
  <2> QED BY <1>14, <2>1, <2>2, <2>3
<1>16. P!MoveTo([strip |-> StripOf(c, K), pos |-> q, top |-> t], PosOf(c))
         = [strip |-> StripOf(c, K), pos |-> PosOf(c), top |-> u]
  <2>1. PICK s, n : s = StripOf(c, K) /\ n = PosOf(c)
    OBVIOUS
  <2>2. P!MoveTo([strip |-> s, pos |-> q, top |-> t], n) = [strip |-> s, pos |-> n, top |-> u]
    BY <1>15, <2>1, MoveToIs
  <2> QED BY <2>1, <2>2
<1> QED BY <1>4, <1>10, <1>13, <1>16

(* A character on the paper, case by case.                                 *)
LEMMA TypeCases ==
  ASSUME NEW p, NEW char
  PROVE  /\ char = NUL => P!Type(p, char) = p
         /\ char = NL => P!Type(p, char) = P!MoveTo(p, (p.pos \div CONSOLE_WIDTH + 1) * CONSOLE_WIDTH)
         /\ char = BS => P!Type(p, char) =
              LET n == IF p.pos = p.top * CONSOLE_WIDTH THEN p.pos ELSE p.pos - 1
              IN  [p EXCEPT !.pos = n, !.strip[n] = BLANK]
         /\ char \notin {NUL, NL, BS} =>
              P!Type(p, char) = P!MoveTo([p EXCEPT !.strip[p.pos] = char], p.pos + 1)
<1>1. NL # BS /\ NL # NUL /\ BS # NUL
  BY ConsoleAssumption
<1>2. CASE char = NUL
  BY <1>1, <1>2, Zenon DEF P!Type
<1>3. CASE char = NL
  BY <1>1, <1>3, Zenon DEF P!Type
<1>4. CASE char = BS
  BY <1>1, <1>4, Zenon DEF P!Type
<1>5. CASE char \notin {NUL, NL, BS}
  <2>1. char # NUL /\ char # NL /\ char # BS
    BY <1>5
  <2> QED BY <1>5, <2>1, Zenon DEF P!Type
<1> QED BY <1>2, <1>3, <1>4, <1>5, Zenon

(* console_putc, case by case.                                             *)
LEMMA PutcCases ==
  ASSUME NEW c, NEW char
  PROVE  /\ char = NUL => console_putc(c, char) = c
         /\ char = NL => console_putc(c, char) = Wrapped([c EXCEPT !.x = 0, !.y = @ + 1])
         /\ char = BS => console_putc(c, char) = Wrapped(Store(Back(c), BLANK))
         /\ char \notin {NUL, NL, BS} =>
              console_putc(c, char) = Wrapped([Store(c, char) EXCEPT !.x = @ + 1])
<1>1. NL # BS /\ NL # NUL /\ BS # NUL
  BY ConsoleAssumption
<1>2. CASE char = NUL
  BY <1>1, <1>2, Zenon DEF console_putc
<1>3. CASE char = NL
  BY <1>1, <1>3, Zenon DEF console_putc
<1>4. CASE char = BS
  BY <1>1, <1>4, Zenon DEF console_putc
<1>5. CASE char \notin {NUL, NL, BS}
  <2>1. char # NUL /\ char # NL /\ char # BS
    BY <1>5
  <2> QED BY <1>5, <2>1, Zenon DEF console_putc
<1> QED BY <1>2, <1>3, <1>4, <1>5, Zenon

(* A cursor that is on the screen needs no wrap and no scrolling.          *)
LEMMA WrapStays ==
  ASSUME NEW c \in Con, NEW t \in Nat, Lines(c, t), OnScreen(c),
         NEW K \in SUBSET Nat
  PROVE  /\ Good(Wrapped(c))
         /\ PaperOf(Wrapped(c), K) = [strip |-> StripOf(c, K), pos |-> PosOf(c), top |-> t]
<1>1. /\ c.x \in Nat /\ c.y \in Nat /\ c.x < CONSOLE_WIDTH /\ c.y < CONSOLE_HEIGHT
      /\ CONSOLE_WIDTH \in Nat /\ CONSOLE_HEIGHT \in Nat
  <2>1. c.x \in Nat /\ c.y \in Nat
    BY DEF Con
  <2>2. CONSOLE_WIDTH \in Nat \ {0} /\ CONSOLE_HEIGHT \in Nat
    BY RowFacts
  <2> QED BY <2>1, <2>2 DEF OnScreen
<1>2. /\ c.y <= CONSOLE_HEIGHT /\ c.x <= CONSOLE_WIDTH
      /\ (c.x = CONSOLE_WIDTH => c.y < CONSOLE_HEIGHT)
  BY <1>1
<1>3. /\ Good(Wrapped(c))
      /\ PaperOf(Wrapped(c), K) = P!MoveTo([strip |-> StripOf(c, K), pos |-> PosOf(c), top |-> t], PosOf(c))
  BY <1>2, WrapMoves
<1>4. PosOf(c) \div CONSOLE_WIDTH = t + c.y
  BY <1>1, PosIs
<1>5. P!Max({t, PosOf(c) \div CONSOLE_WIDTH + 1 - CONSOLE_HEIGHT} \cap Nat) = t
  <2>1. PICK b \in Int : b = t + c.y + 1 - CONSOLE_HEIGHT
    BY <1>1
  <2>2. ~(b > t)
    BY <1>1, <2>1
  <2>3. P!Max({t, b} \cap Nat) = t
    BY <2>2, MaxOfTwo
  <2> QED BY <1>4, <2>1, <2>3
<1>6. P!MoveTo([strip |-> StripOf(c, K), pos |-> PosOf(c), top |-> t], PosOf(c))
        = [strip |-> StripOf(c, K), pos |-> PosOf(c), top |-> t]
  <2>1. PICK s, n : s = StripOf(c, K) /\ n = PosOf(c)
    OBVIOUS
  <2>2. P!MoveTo([strip |-> s, pos |-> n, top |-> t], n) = [strip |-> s, pos |-> n, top |-> t]
    <3>1. PICK k : k = P!Max({t, n \div CONSOLE_WIDTH + 1 - CONSOLE_HEIGHT} \cap Nat)
      OBVIOUS
    <3>2. P!MoveTo([strip |-> s, pos |-> n, top |-> t], n) = [strip |-> s, pos |-> n, top |-> k]
      BY <3>1, MoveToIs
    <3>3. k = t
      BY <1>5, <2>1, <3>1
    <3> QED BY <3>2, <3>3
  <2> QED BY <2>1, <2>2
<1> QED BY <1>3, <1>6

(* A line end.                                                             *)
LEMMA NewLine ==
  ASSUME NEW c \in Con, NEW t \in Nat, Lines(c, t), OnScreen(c),
         NEW K \in SUBSET Nat
  PROVE  LET d == Wrapped([c EXCEPT !.x = 0, !.y = @ + 1])
         IN  /\ Good(d)
             /\ PaperOf(d, K) = P!MoveTo(PaperOf(c, K), (PosOf(c) \div CONSOLE_WIDTH + 1) * CONSOLE_WIDTH)
<1> DEFINE e == [c EXCEPT !.x = 0, !.y = @ + 1]
<1>1. /\ c.x \in Nat /\ c.y \in Nat /\ c.x < CONSOLE_WIDTH /\ c.y < CONSOLE_HEIGHT
      /\ CONSOLE_WIDTH \in Nat /\ CONSOLE_WIDTH > 0 /\ CONSOLE_HEIGHT \in Nat
  <2>1. c.x \in Nat /\ c.y \in Nat
    BY DEF Con
  <2>2. CONSOLE_WIDTH \in Nat \ {0} /\ CONSOLE_HEIGHT \in Nat
    BY RowFacts
  <2> QED BY <2>1, <2>2 DEF OnScreen
<1>2. /\ e \in Con /\ e.x = 0 /\ e.y = c.y + 1 /\ e.above = c.above /\ e.vga = c.vga
  <2>1. c.y + 1 \in Nat /\ 0 \in Nat
    BY <1>1
  <2> QED BY <2>1 DEF Con
<1> HIDE DEF e
<1>3. Lines(e, t) /\ StripOf(e, K) = StripOf(c, K)
  <2>1. StripOf(e, K) = StripOf(c, K)
    BY <1>2, SameStrip
  <2> QED BY <1>2, <2>1 DEF Lines
<1>4. PosOf(e) = (PosOf(c) \div CONSOLE_WIDTH + 1) * CONSOLE_WIDTH
  <2>1. PosOf(e) = Row(t + (c.y + 1)) + 0
    BY <1>2, <1>3, PosIs
  <2>2. PosOf(c) \div CONSOLE_WIDTH = t + c.y
    BY <1>1, PosIs
  <2>3. PICK n \in Nat : n = t + (c.y + 1) /\ n = (t + c.y) + 1
    BY <1>1
  <2>4. Row(n) + 0 = Row(n)
    BY RowFacts
  <2> QED BY <2>1, <2>2, <2>3, <2>4 DEF Row
<1>5. /\ e.y <= CONSOLE_HEIGHT /\ e.x <= CONSOLE_WIDTH
      /\ (e.x = CONSOLE_WIDTH => e.y < CONSOLE_HEIGHT)
  BY <1>1, <1>2
<1>6. /\ Good(Wrapped(e))
      /\ PaperOf(Wrapped(e), K)
           = P!MoveTo([strip |-> StripOf(e, K), pos |-> PosOf(c), top |-> t], PosOf(e))
  BY <1>2, <1>3, <1>5, WrapMoves
<1>7. PaperOf(c, K) = [strip |-> StripOf(c, K), pos |-> PosOf(c), top |-> t]
  BY TopOf DEF PaperOf
<1>8. PaperOf(Wrapped(e), K) = P!MoveTo(PaperOf(c, K), (PosOf(c) \div CONSOLE_WIDTH + 1) * CONSOLE_WIDTH)
  BY <1>3, <1>4, <1>6, <1>7
<1> QED BY <1>6, <1>8 DEF e

(* A character that is shown.                                              *)
LEMMA ShownChar ==
  ASSUME NEW c \in Con, NEW t \in Nat, Lines(c, t), OnScreen(c), NEW char \in Char,
         NEW K \in SUBSET Nat
  PROVE  LET d == Wrapped([Store(c, char) EXCEPT !.x = @ + 1])
         IN  /\ Good(d)
             /\ PaperOf(d, K)
                  = P!MoveTo([strip |-> [StripOf(c, K) EXCEPT ![PosOf(c)] = char],
                              pos |-> PosOf(c), top |-> t], PosOf(c) + 1)
<1> DEFINE s == Store(c, char)
           e == [s EXCEPT !.x = @ + 1]
<1>1. /\ c.x \in Nat /\ c.y \in Nat /\ c.x < CONSOLE_WIDTH /\ c.y < CONSOLE_HEIGHT
      /\ CONSOLE_WIDTH \in Nat /\ CONSOLE_HEIGHT \in Nat
  <2>1. c.x \in Nat /\ c.y \in Nat
    BY DEF Con
  <2>2. CONSOLE_WIDTH \in Nat \ {0} /\ CONSOLE_HEIGHT \in Nat
    BY RowFacts
  <2> QED BY <2>1, <2>2 DEF OnScreen
<1>2. /\ s \in Con /\ s.x = c.x /\ s.y = c.y /\ s.above = c.above
      /\ StripOf(s, K) = [StripOf(c, K) EXCEPT ![PosOf(c)] = char]
  BY StoreMarks
<1> HIDE DEF s
<1>3. e \in Con /\ e.x = c.x + 1 /\ e.y = c.y /\ e.above = c.above /\ e.vga = s.vga
  <2>1. s.x + 1 \in Nat
    BY <1>1, <1>2
  <2> QED BY <1>2, <2>1 DEF Con
<1> HIDE DEF e
<1>4. Lines(e, t)
  BY <1>3 DEF Lines
<1>5. StripOf(e, K) = StripOf(s, K)
  BY <1>2, <1>3, SameStrip
<1>6. PosOf(e) = PosOf(c) + 1
  <2>1. PosOf(e) = Row(t + c.y) + (c.x + 1)
    BY <1>3, <1>4, PosIs
  <2>2. PosOf(c) = Row(t + c.y) + c.x
    BY PosIs
  <2>3. PICK r \in Nat, x \in Nat : r = Row(t + c.y) /\ x = c.x
    <3>1. t + c.y \in Nat
      BY <1>1
    <3>2. Row(t + c.y) \in Nat
      BY <3>1, RowFacts
    <3> QED BY <1>1, <3>2
  <2>4. r + (x + 1) = (r + x) + 1
    OBVIOUS
  <2> QED BY <2>1, <2>2, <2>3, <2>4
<1>7. /\ e.y <= CONSOLE_HEIGHT /\ e.x <= CONSOLE_WIDTH
      /\ (e.x = CONSOLE_WIDTH => e.y < CONSOLE_HEIGHT)
  BY <1>1, <1>3
<1>8. /\ Good(Wrapped(e))
      /\ PaperOf(Wrapped(e), K)
           = P!MoveTo([strip |-> StripOf(e, K), pos |-> PosOf(c), top |-> t], PosOf(e))
  BY <1>3, <1>4, <1>7, WrapMoves
<1>9. PaperOf(Wrapped(e), K)
        = P!MoveTo([strip |-> [StripOf(c, K) EXCEPT ![PosOf(c)] = char],
                    pos |-> PosOf(c), top |-> t], PosOf(c) + 1)
  BY <1>2, <1>5, <1>6, <1>8
<1> QED BY <1>8, <1>9 DEF e, s

(* The cursor goes back, but not above the window.                         *)
LEMMA BackMoves ==
  ASSUME NEW c \in Con, NEW t \in Nat, Lines(c, t), OnScreen(c)
  PROVE  LET b == Back(c)
         IN  /\ b \in Con /\ Lines(b, t) /\ OnScreen(b)
             /\ b.above = c.above /\ b.vga = c.vga
             /\ PosOf(b) = IF PosOf(c) = t * CONSOLE_WIDTH THEN PosOf(c) ELSE PosOf(c) - 1
<1> DEFINE b == Back(c)
<1>1. /\ c.x \in Nat /\ c.y \in Nat /\ c.x < CONSOLE_WIDTH /\ c.y < CONSOLE_HEIGHT
      /\ CONSOLE_WIDTH \in Nat /\ CONSOLE_WIDTH > 0 /\ CONSOLE_HEIGHT \in Nat
  <2>1. c.x \in Nat /\ c.y \in Nat
    BY DEF Con
  <2>2. CONSOLE_WIDTH \in Nat \ {0} /\ CONSOLE_HEIGHT \in Nat
    BY RowFacts
  <2> QED BY <2>1, <2>2 DEF OnScreen
<1>2. PosOf(c) = Row(t + c.y) + c.x
  BY PosIs
<1>3. PICK w \in Nat, x \in Nat, y \in Nat, r \in Nat, k \in Nat :
        w = CONSOLE_WIDTH /\ x = c.x /\ y = c.y /\ r = Row(t) /\ k = Row(t + c.y)
  <2>1. Row(t) \in Nat
    BY RowFacts
  <2>2. t + c.y \in Nat
    BY <1>1
  <2>3. Row(t + c.y) \in Nat
    BY <2>2, RowFacts
  <2> QED BY <1>1, <2>1, <2>3
<1>4. r = t * CONSOLE_WIDTH /\ PosOf(c) = k + x
  BY <1>2, <1>3 DEF Row
<1>5. /\ y > 0 => r + w <= k
      /\ y = 0 => k = r
  <2>1. ASSUME y > 0 PROVE r + w <= k
    <3>1. t < t + y /\ t + y \in Nat
      BY <2>1
    <3> QED BY <1>3, <3>1, RowOrder
  <2>2. ASSUME y = 0 PROVE k = r
    <3>1. t + y = t
      BY <2>2
    <3> QED BY <1>3, <3>1
  <2> QED BY <2>1, <2>2
<1>6. CASE x > 0
  <2>1. b = [c EXCEPT !.x = x - 1]
    BY <1>3, <1>6 DEF Back
  <2> HIDE DEF b
  <2>2. x - 1 \in Nat
    BY <1>6
  <2>3. b \in Con /\ b.x = x - 1 /\ b.y = y /\ b.above = c.above /\ b.vga = c.vga
    BY <1>3, <2>1, <2>2 DEF Con
  <2>4. Lines(b, t)
    BY <2>3 DEF Lines
  <2>5. OnScreen(b)
    BY <1>1, <1>3, <2>3 DEF OnScreen
  <2>6. PosOf(b) = k + (x - 1)
    BY <1>3, <2>3, <2>4, PosIs
  <2>7. k + x # r /\ k + (x - 1) = (k + x) - 1
    <3>1. r <= k
      BY <1>5
    <3> QED BY <1>6, <3>1
  <2>8. PosOf(b) = IF PosOf(c) = t * CONSOLE_WIDTH THEN PosOf(c) ELSE PosOf(c) - 1
    BY <1>4, <2>6, <2>7
  <2> QED BY <2>3, <2>4, <2>5, <2>8 DEF b
<1>7. CASE x = 0 /\ y > 0
  <2>1. b = [c EXCEPT !.y = y - 1, !.x = w - 1]
    BY <1>3, <1>7 DEF Back
  <2> HIDE DEF b
  <2>2. y - 1 \in Nat /\ w - 1 \in Nat
    BY <1>1, <1>3, <1>7
  <2>3. b \in Con /\ b.x = w - 1 /\ b.y = y - 1 /\ b.above = c.above /\ b.vga = c.vga
    BY <2>1, <2>2 DEF Con
  <2>4. Lines(b, t)
    BY <2>3 DEF Lines
  <2>5. OnScreen(b)
    BY <1>1, <1>3, <1>7, <2>3 DEF OnScreen
  <2>6. PosOf(b) = Row(t + (y - 1)) + (w - 1)
    BY <2>3, <2>4, PosIs
  <2>7. PICK n \in Nat : n = t + (y - 1) /\ n + 1 = t + y
    BY <1>7, <2>2
  <2>8. Row(n) \in Nat /\ Row(n + 1) = Row(n) + CONSOLE_WIDTH
    BY RowFacts
  <2>9. PICK j \in Nat : j = Row(n) /\ k = j + w
    BY <1>3, <2>7, <2>8
  <2>10. PosOf(b) = k - 1
    <3>1. j + (w - 1) = (j + w) - 1
      OBVIOUS
    <3> QED BY <2>6, <2>7, <2>9, <3>1
  <2>11. k + x # r /\ k + x = k
    BY <1>1, <1>3, <1>5, <1>7
  <2>12. PosOf(b) = IF PosOf(c) = t * CONSOLE_WIDTH THEN PosOf(c) ELSE PosOf(c) - 1
    BY <1>4, <2>10, <2>11
  <2> QED BY <2>3, <2>4, <2>5, <2>12 DEF b
<1>8. CASE x = 0 /\ y = 0
  <2>1. b = c
    BY <1>3, <1>8 DEF Back
  <2>2. PosOf(c) = t * CONSOLE_WIDTH
    <3>1. k + x = r
      BY <1>5, <1>8
    <3> QED BY <1>4, <3>1
  <2> QED BY <2>1, <2>2
<1> QED BY <1>6, <1>7, <1>8

(* A backspace.                                                            *)
LEMMA BackspaceStep ==
  ASSUME NEW c \in Con, NEW t \in Nat, Lines(c, t), OnScreen(c),
         NEW K \in SUBSET Nat
  PROVE  LET d == Wrapped(Store(Back(c), BLANK))
             n == IF PosOf(c) = t * CONSOLE_WIDTH THEN PosOf(c) ELSE PosOf(c) - 1
         IN  /\ Good(d)
             /\ PaperOf(d, K) = [strip |-> [StripOf(c, K) EXCEPT ![n] = BLANK], pos |-> n, top |-> t]
<1> DEFINE b == Back(c)
           s == Store(b, BLANK)
           n == IF PosOf(c) = t * CONSOLE_WIDTH THEN PosOf(c) ELSE PosOf(c) - 1
<1>1. /\ b \in Con /\ Lines(b, t) /\ OnScreen(b) /\ b.above = c.above /\ b.vga = c.vga
      /\ PosOf(b) = n
  BY BackMoves
<1> HIDE DEF b, n
<1>2. /\ s \in Con /\ s.x = b.x /\ s.y = b.y /\ s.above = b.above
      /\ StripOf(s, K) = [StripOf(b, K) EXCEPT ![PosOf(b)] = BLANK]
  BY <1>1, BlankChar, StoreMarks
<1> HIDE DEF s
<1>3. Lines(s, t) /\ OnScreen(s) /\ PosOf(s) = n
  <2>1. Lines(s, t) /\ OnScreen(s)
    BY <1>1, <1>2 DEF Lines, OnScreen
  <2>2. PosOf(s) = PosOf(b)
    BY <1>2 DEF PosOf
  <2> QED BY <1>1, <2>1, <2>2
<1>4. StripOf(s, K) = [StripOf(c, K) EXCEPT ![n] = BLANK]
  <2>1. StripOf(b, K) = StripOf(c, K)
    BY <1>1, SameStrip
  <2> QED BY <1>1, <1>2, <2>1
<1>5. /\ Good(Wrapped(s))
      /\ PaperOf(Wrapped(s), K) = [strip |-> StripOf(s, K), pos |-> PosOf(s), top |-> t]
  BY <1>2, <1>3, WrapStays
<1>6. PaperOf(Wrapped(s), K) = [strip |-> [StripOf(c, K) EXCEPT ![n] = BLANK], pos |-> n, top |-> t]
  BY <1>3, <1>4, <1>5
<1> QED BY <1>5, <1>6 DEF s, b, n

(* console_putc on the screen is one character on the paper.               *)
LEMMA PutcTypes ==
  ASSUME NEW c, Good(c), NEW char \in Char,
         NEW K \in SUBSET Nat
  PROVE  /\ Good(console_putc(c, char))
         /\ PaperOf(console_putc(c, char), K) = P!Type(PaperOf(c, K), char)
<1>1. PICK t \in Nat : c \in Con /\ Lines(c, t) /\ OnScreen(c)
  BY DEF Good, Lines
<1> DEFINE p == [strip |-> StripOf(c, K), pos |-> PosOf(c), top |-> t]
<1>2. PaperOf(c, K) = p
  BY <1>1, TopOf DEF PaperOf
<1>3. p.strip = StripOf(c, K) /\ p.pos = PosOf(c) /\ p.top = t
  OBVIOUS
<1>4. CASE char = NUL
  <2>1. console_putc(c, char) = c /\ P!Type(PaperOf(c, K), char) = PaperOf(c, K)
    BY <1>4, PutcCases, TypeCases
  <2> QED BY <2>1
<1>5. CASE char = NL
  <2>1. console_putc(c, char) = Wrapped([c EXCEPT !.x = 0, !.y = @ + 1])
    BY <1>5, PutcCases
  <2>2. P!Type(p, char) = P!MoveTo(p, (PosOf(c) \div CONSOLE_WIDTH + 1) * CONSOLE_WIDTH)
    <3> HIDE DEF p
    <3> QED BY <1>3, <1>5, TypeCases
  <2> QED BY <1>1, <1>2, <2>1, <2>2, NewLine
<1>6. CASE char = BS
  <2> DEFINE n == IF PosOf(c) = t * CONSOLE_WIDTH THEN PosOf(c) ELSE PosOf(c) - 1
             s == [StripOf(c, K) EXCEPT ![n] = BLANK]
             r == [strip |-> StripOf(c, K), pos |-> n, top |-> t]
  <2>1. console_putc(c, char) = Wrapped(Store(Back(c), BLANK))
    BY <1>6, PutcCases
  <2>2. /\ Good(console_putc(c, char))
        /\ PaperOf(console_putc(c, char), K) = [strip |-> s, pos |-> n, top |-> t]
    BY <1>1, <2>1, BackspaceStep
  <2>3. P!Type(p, char) = [p EXCEPT !.pos = n, !.strip[n] = BLANK]
    <3> HIDE DEF p
    <3> DEFINE m == IF p.pos = p.top * CONSOLE_WIDTH THEN p.pos ELSE p.pos - 1
    <3>1. P!Type(p, char) = [p EXCEPT !.pos = m, !.strip[m] = BLANK]
      BY <1>6, TypeCases, Zenon
    <3>2. m = n
      BY <1>3
    <3> HIDE DEF m, n
    <3> QED BY <3>1, <3>2, Zenon
  <2>4. [p EXCEPT !.pos = n] = r
    OBVIOUS
  <2>5. r.strip = StripOf(c, K)
    OBVIOUS
  <2> HIDE DEF n
  <2>6. [p EXCEPT !.pos = n, !.strip[n] = BLANK]
          = [[p EXCEPT !.pos = n] EXCEPT !.strip = [[p EXCEPT !.pos = n].strip EXCEPT ![n] = BLANK]]
    <3> HIDE DEF p
    <3> QED OBVIOUS
  <2> HIDE DEF p
  <2>7. [p EXCEPT !.pos = n, !.strip[n] = BLANK] = [r EXCEPT !.strip = s]
    <3> HIDE DEF r
    <3> QED BY <2>4, <2>5, <2>6
  <2> HIDE DEF s
  <2>8. [r EXCEPT !.strip = s] = [strip |-> s, pos |-> n, top |-> t]
    OBVIOUS
  <2> HIDE DEF r
  <2>9. P!Type(p, char) = [strip |-> s, pos |-> n, top |-> t]
    BY <2>3, <2>7, <2>8, Zenon
  <2> QED BY <1>2, <2>2, <2>9 DEF p
<1>7. CASE char \notin {NUL, NL, BS}
  <2> DEFINE s == [StripOf(c, K) EXCEPT ![PosOf(c)] = char]
  <2>1. console_putc(c, char) = Wrapped([Store(c, char) EXCEPT !.x = @ + 1])
    BY <1>7, PutcCases
  <2>2. /\ Good(console_putc(c, char))
        /\ PaperOf(console_putc(c, char), K)
             = P!MoveTo([strip |-> s, pos |-> PosOf(c), top |-> t], PosOf(c) + 1)
    BY <1>1, <2>1, ShownChar
  <2>3. P!Type(p, char) = P!MoveTo([p EXCEPT !.strip[PosOf(c)] = char], PosOf(c) + 1)
    <3> HIDE DEF p
    <3> QED BY <1>3, <1>7, TypeCases
  <2>4. [p EXCEPT !.strip[PosOf(c)] = char] = [p EXCEPT !.strip = s]
    <3> HIDE DEF p
    <3> QED BY <1>3
  <2> HIDE DEF s
  <2>5. [p EXCEPT !.strip = s] = [strip |-> s, pos |-> PosOf(c), top |-> t]
    OBVIOUS
  <2> HIDE DEF p
  <2>6. P!Type(p, char) = P!MoveTo([strip |-> s, pos |-> PosOf(c), top |-> t], PosOf(c) + 1)
    BY <2>3, <2>4, <2>5, Zenon
  <2> QED BY <1>2, <2>2, <2>6 DEF p
<1> QED BY <1>4, <1>5, <1>6, <1>7

----------------------------------------------------------------------------
(* Texts.                                                                  *)

(* A set of numbers that is not empty has a least one.                     *)
LEMMA Least ==
  ASSUME NEW S \in SUBSET Nat, S # {}
  PROVE  \E x \in S : \A y \in S : x <= y
<1>1. IsWellFoundedOn(OpToRel(<, Nat), Nat)
  BY NatLessThanWellFounded
<1>2. PICK x \in S : \A y \in S : ~(<<y, x>> \in OpToRel(<, Nat))
  BY <1>1, WFMin
<1>3. \A y \in S : ~(y < x)
  BY <1>2 DEF OpToRel
<1> QED
  BY <1>3

(* g is the console after 0 to k characters of s.                          *)
IsAfter(g, c, s, k) ==
  g = [j \in 0..k |-> IF j = 0 THEN c ELSE console_putc(g[j - 1], s[j])]

(* The least k without such a g has a predecessor, which goes one further. *)
LEMMA AfterExists ==
  ASSUME NEW c, NEW s, NEW n \in Nat
  PROVE  \E g : IsAfter(g, c, s, n)
<1> DEFINE T == {k \in Nat : ~\E g : IsAfter(g, c, s, k)}
<1>1. T \in SUBSET Nat
  OBVIOUS
<1>2. SUFFICES ASSUME T # {} PROVE FALSE
  OBVIOUS
<1>3. PICK k \in T : \A j \in T : k <= j
  BY <1>2, Least
<1>4. k \in Nat /\ ~\E g : IsAfter(g, c, s, k)
  OBVIOUS
<1>5. CASE k = 0
  <2> DEFINE g == [j \in 0..0 |-> c]
  <2>1. IsAfter(g, c, s, 0)
    <3>1. ASSUME NEW j \in 0..0
          PROVE  c = IF j = 0 THEN c ELSE console_putc(g[j - 1], s[j])
      OBVIOUS
    <3> QED BY <3>1 DEF IsAfter
  <2> QED BY <1>4, <1>5, <2>1
<1>6. CASE k # 0
  <2>1. k - 1 \in Nat /\ k - 1 \notin T
    BY <1>3, <1>4, <1>6
  <2>2. PICK g : IsAfter(g, c, s, k - 1)
    BY <2>1
  <2> DEFINE f == [j \in 0..k |-> IF j = k THEN console_putc(g[k - 1], s[k]) ELSE g[j]]
  <2>3. ASSUME NEW j \in 0..k
        PROVE  f[j] = IF j = 0 THEN c ELSE console_putc(f[j - 1], s[j])
    <3>1. CASE j = k
      <4>1. k - 1 \in 0..k /\ k - 1 # k
        BY <1>4, <1>6
      <4>2. f[k - 1] = g[k - 1]
        BY <4>1
      <4>3. f[j] = console_putc(g[k - 1], s[k])
        BY <3>1
      <4> QED BY <1>6, <3>1, <4>2, <4>3
    <3>2. CASE j # k /\ j # 0
      <4>1. j \in 0..(k - 1) /\ j - 1 \in 0..k /\ j - 1 # k
        BY <1>4, <3>2
      <4>2. g[j] = console_putc(g[j - 1], s[j])
        BY <2>2, <3>2, <4>1 DEF IsAfter
      <4>3. f[j] = g[j] /\ f[j - 1] = g[j - 1]
        BY <3>2, <4>1
      <4> QED BY <3>2, <4>2, <4>3
    <3>3. CASE j = 0
      <4>1. 0 \in 0..(k - 1)
        BY <1>4, <1>6
      <4>2. g[0] = c
        BY <2>2, <4>1 DEF IsAfter
      <4> QED BY <1>6, <3>3, <4>2
    <3> QED BY <3>1, <3>2, <3>3
  <2>4. IsAfter(f, c, s, k)
    <3>1. f = [j \in 0..k |-> f[j]]
      OBVIOUS
    <3> HIDE DEF f
    <3> QED BY <2>3, <3>1 DEF IsAfter
  <2> QED BY <1>4, <2>4
<1> QED BY <1>5, <1>6

(* So console_puts is the end of such a sequence, which starts at c.       *)
LEMMA PutsIsAfter ==
  ASSUME NEW c, NEW s, Len(s) \in Nat
  PROVE  \E g : /\ console_puts(c, s) = g[Len(s)]
                /\ g[0] = c
                /\ \A j \in 1..Len(s) : g[j] = console_putc(g[j - 1], s[j])
<1> DEFINE after == CHOOSE g : IsAfter(g, c, s, Len(s))
<1>1. IsAfter(after, c, s, Len(s))
  BY AfterExists
<1>2. console_puts(c, s) = after[Len(s)]
  BY DEF console_puts, IsAfter
<1> HIDE DEF after
<1>3. after[0] = c /\ \A j \in 1..Len(s) : after[j] = console_putc(after[j - 1], s[j])
  BY <1>1 DEF IsAfter
<1> QED BY <1>2, <1>3

(* The same on the paper.                                                  *)
IsTyped(g, p, s, k) ==
  g = [j \in 0..k |-> IF j = 0 THEN p ELSE P!Type(g[j - 1], s[j])]

(* A text on the screen is a text on the paper, whoever types it.          *)
LEMMA PutsTypes ==
  ASSUME NEW c, Good(c), NEW s \in Seq(Char),
         NEW K \in SUBSET Nat
  PROVE  /\ Good(console_puts(c, s))
         /\ \E h : IsTyped(h, PaperOf(c, K), s, Len(s))
         /\ \A h : IsTyped(h, PaperOf(c, K), s, Len(s)) => h[Len(s)] = PaperOf(console_puts(c, s), K)
<1>1. PICK n \in Nat : n = Len(s)
  OBVIOUS
<1>2. \A j \in 1..n : s[j] \in Char
  BY <1>1
<1>3. PICK g : /\ console_puts(c, s) = g[n] /\ g[0] = c
               /\ \A j \in 1..n : g[j] = console_putc(g[j - 1], s[j])
  <2>1. \E g : /\ console_puts(c, s) = g[Len(s)]
               /\ g[0] = c
               /\ \A j \in 1..Len(s) : g[j] = console_putc(g[j - 1], s[j])
    <3>1. Len(s) \in Nat
      OBVIOUS
    <3> QED BY <3>1, PutsIsAfter
  <2> QED BY <1>1, <2>1
<1>4. \A k \in 0..n : Good(g[k])
  <2> DEFINE T == {k \in 0..n : ~Good(g[k])}
  <2>1. SUFFICES ASSUME T # {} PROVE FALSE
    OBVIOUS
  <2>2. T \in SUBSET Nat
    OBVIOUS
  <2>3. PICK k \in T : \A j \in T : k <= j
    BY <2>1, <2>2, Least
  <2>4. k \in 0..n /\ ~Good(g[k]) /\ k # 0
    BY <1>3
  <2>5. k - 1 \in 0..n /\ k - 1 \notin T /\ k \in 1..n
    BY <2>3, <2>4
  <2>6. Good(g[k - 1])
    BY <2>5
  <2>7. Good(g[k])
    BY <1>2, <1>3, <2>5, <2>6, PutcTypes
  <2> QED BY <2>4, <2>7
<1>5. \A j \in 1..n : PaperOf(g[j], K) = P!Type(PaperOf(g[j - 1], K), s[j])
  <2>1. ASSUME NEW j \in 1..n
        PROVE  PaperOf(g[j], K) = P!Type(PaperOf(g[j - 1], K), s[j])
    <3>1. j - 1 \in 0..n
      OBVIOUS
    <3>2. Good(g[j - 1]) /\ g[j] = console_putc(g[j - 1], s[j]) /\ s[j] \in Char
      BY <1>2, <1>3, <1>4, <3>1
    <3> QED BY <3>2, PutcTypes
  <2> QED BY <2>1
<1>6. \E h : IsTyped(h, PaperOf(c, K), s, n)
  <2> DEFINE h == [j \in 0..n |-> PaperOf(g[j], K)]
  <2>1. ASSUME NEW j \in 0..n
        PROVE  h[j] = IF j = 0 THEN PaperOf(c, K) ELSE P!Type(h[j - 1], s[j])
    <3>1. CASE j = 0
      BY <1>3, <3>1
    <3>2. CASE j # 0
      <4>1. j \in 1..n /\ j - 1 \in 0..n
        BY <3>2
      <4>2. h[j] = PaperOf(g[j], K) /\ h[j - 1] = PaperOf(g[j - 1], K)
        BY <4>1
      <4> QED BY <1>5, <3>2, <4>1, <4>2
    <3> QED BY <3>1, <3>2
  <2>2. h = [j \in 0..n |-> h[j]]
    OBVIOUS
  <2> HIDE DEF h
  <2>3. IsTyped(h, PaperOf(c, K), s, n)
    BY <2>1, <2>2 DEF IsTyped
  <2> QED BY <2>3
<1>7. ASSUME NEW h, IsTyped(h, PaperOf(c, K), s, n)
      PROVE  h[n] = PaperOf(g[n], K)
  <2>1. h[0] = PaperOf(c, K) /\ \A j \in 1..n : h[j] = P!Type(h[j - 1], s[j])
    BY <1>7 DEF IsTyped
  <2> DEFINE T == {k \in 0..n : h[k] # PaperOf(g[k], K)}
  <2>2. SUFFICES ASSUME T # {} PROVE FALSE
    OBVIOUS
  <2>3. T \in SUBSET Nat
    OBVIOUS
  <2>4. PICK k \in T : \A j \in T : k <= j
    BY <2>2, <2>3, Least
  <2>5. k \in 0..n /\ h[k] # PaperOf(g[k], K) /\ k # 0
    BY <1>3, <2>1
  <2>6. k - 1 \in 0..n /\ k - 1 \notin T /\ k \in 1..n
    BY <2>4, <2>5
  <2>7. h[k - 1] = PaperOf(g[k - 1], K)
    BY <2>6
  <2>8. h[k] = PaperOf(g[k], K)
    BY <1>5, <2>1, <2>6, <2>7
  <2> QED BY <2>5, <2>8
<1>8. Good(g[n])
  BY <1>4
<1> QED BY <1>1, <1>3, <1>6, <1>7, <1>8

----------------------------------------------------------------------------
(* Numbers are texts.                                                      *)

(* The digits of n, those of n \div 10 from g.                             *)
Digits(g, n) == <<n % 10>> \o (IF n \div 10 = 0 THEN <<>> ELSE g[n \div 10])

IsDigits(g, k) == g = [n \in 0..k |-> Digits(g, n)]

(* Only the digits of n \div 10 matter.                                    *)
LEMMA DigitsSame ==
  ASSUME NEW f, NEW g, NEW n, n \div 10 # 0 => f[n \div 10] = g[n \div 10]
  PROVE  Digits(f, n) = Digits(g, n)
<1>1. CASE n \div 10 = 0
  BY <1>1, Zenon DEF Digits
<1>2. CASE n \div 10 # 0
  BY <1>2, Zenon DEF Digits
<1> QED BY <1>1, <1>2

(* A number with more than one digit has one less after the division.      *)
LEMMA DivTen ==
  ASSUME NEW n \in Nat
  PROVE  /\ n \div 10 \in Nat /\ n \div 10 <= n /\ (n \div 10 # 0 => n \div 10 < n)
         /\ n % 10 \in 0..9
OBVIOUS

(* The recursion of console_put_dec32 ends for every number.               *)
LEMMA DigitsExist ==
  ASSUME NEW v \in Nat
  PROVE  \E g : IsDigits(g, v)
<1> DEFINE T == {k \in Nat : ~\E g : IsDigits(g, k)}
<1>1. T \in SUBSET Nat
  OBVIOUS
<1>2. SUFFICES ASSUME T # {} PROVE FALSE
  OBVIOUS
<1>3. PICK k \in T : \A j \in T : k <= j
  BY <1>2, Least
<1>4. k \in Nat /\ ~\E g : IsDigits(g, k)
  OBVIOUS
<1>5. PICK g : k # 0 => IsDigits(g, k - 1)
  <2>1. CASE k = 0
    BY <2>1
  <2>2. CASE k # 0
    <3>1. k - 1 \in Nat /\ k - 1 \notin T
      BY <1>3, <1>4, <2>2
    <3> QED BY <3>1
  <2> QED BY <2>1, <2>2
<1> DEFINE f == [j \in 0..k |-> IF j = k THEN Digits(g, k) ELSE g[j]]
<1>6. ASSUME NEW j \in 0..k
      PROVE  f[j] = Digits(f, j)
  <2>1. j \div 10 \in Nat /\ j \div 10 <= j /\ (j \div 10 # 0 => j \div 10 < j)
    BY <1>4, DivTen
  <2>2. ASSUME j \div 10 # 0 PROVE f[j \div 10] = g[j \div 10]
    <3>1. j \div 10 \in 0..k /\ j \div 10 # k
      BY <1>4, <2>1, <2>2
    <3> QED BY <3>1
  <2>3. Digits(f, j) = Digits(g, j)
    <3> HIDE DEF f
    <3> QED BY <2>2, DigitsSame
  <2>4. CASE j = k
    <3>1. f[j] = Digits(g, k)
      BY <1>4, <2>4
    <3> QED BY <2>3, <2>4, <3>1
  <2>5. CASE j # k
    <3>1. k # 0 /\ j \in 0..(k - 1)
      BY <1>4, <2>5
    <3>2. g[j] = Digits(g, j)
      BY <1>5, <3>1 DEF IsDigits
    <3>3. f[j] = g[j]
      BY <2>5
    <3> QED BY <2>3, <3>2, <3>3
  <2> QED BY <2>4, <2>5
<1>7. IsDigits(f, k)
  <2>1. f = [j \in 0..k |-> f[j]]
    OBVIOUS
  <2> HIDE DEF f
  <2> QED BY <1>6, <2>1 DEF IsDigits
<1> QED BY <1>4, <1>7

(* Decimal numbers.                                                        *)
LEMMA DecIsText ==
  ASSUME NEW v \in Nat
  PROVE  dec32(v) \in Seq(0..9)
<1> DEFINE digits == CHOOSE g : IsDigits(g, v)
<1>1. IsDigits(digits, v)
  BY DigitsExist
<1>2. dec32(v) = Reverse(digits[v])
  BY DEF dec32, IsDigits, Digits
<1> HIDE DEF digits
<1>3. digits[v] \in Seq(0..9)
  <2> DEFINE T == {k \in 0..v : digits[k] \notin Seq(0..9)}
  <2>1. SUFFICES ASSUME T # {} PROVE FALSE
    OBVIOUS
  <2>2. T \in SUBSET Nat
    OBVIOUS
  <2>3. PICK k \in T : \A j \in T : k <= j
    BY <2>1, <2>2, Least
  <2>4. k \in 0..v /\ k \in Nat /\ digits[k] \notin Seq(0..9)
    OBVIOUS
  <2>5. /\ k \div 10 \in Nat /\ k \div 10 <= k /\ (k \div 10 # 0 => k \div 10 < k)
        /\ k % 10 \in 0..9
    BY <2>4, DivTen
  <2>6. digits[k] = Digits(digits, k)
    BY <1>1, <2>4 DEF IsDigits
  <2> DEFINE r == IF k \div 10 = 0 THEN <<>> ELSE digits[k \div 10]
             a == <<k % 10>>
  <2>7. r \in Seq(0..9)
    <3>1. CASE k \div 10 = 0
      BY <3>1
    <3>2. CASE k \div 10 # 0
      <4>1. k \div 10 \in 0..v /\ k \div 10 \notin T
        BY <2>3, <2>4, <2>5, <3>2
      <4> QED BY <3>2, <4>1
    <3> QED BY <3>1, <3>2
  <2>8. a \in Seq(0..9)
    BY <2>5
  <2>9. digits[k] = a \o r
    BY <2>6, Zenon DEF Digits
  <2> HIDE DEF r, a
  <2>10. a \o r \in Seq(0..9)
    BY <2>7, <2>8, ConcatProperties
  <2> QED BY <2>4, <2>9, <2>10
<1> DEFINE d == digits[v]
<1> HIDE DEF d
<1>4. Len(d) \in Nat /\ \A i \in 1..Len(d) : d[i] \in 0..9
  BY <1>3 DEF d
<1>5. Reverse(d) \in [1..Len(d) -> 0..9]
  <2>1. ASSUME NEW i \in 1..Len(d) PROVE d[(Len(d) - i) + 1] \in 0..9
    <3>1. (Len(d) - i) + 1 \in 1..Len(d)
      BY <1>4
    <3> QED BY <1>4, <3>1
  <2> QED BY <2>1 DEF Reverse
<1>6. Reverse(d) \in Seq(0..9)
  <2> DEFINE r == Reverse(d)
  <2> HIDE DEF r
  <2>1. r \in [1..Len(d) -> 0..9]
    BY <1>5 DEF r
  <2>2. r \in Seq(0..9)
    BY <1>4, <2>1
  <2> QED BY <2>2 DEF r
<1> QED BY <1>2, <1>6 DEF d

(* Hexadecimal numbers.                                                    *)
LEMMA HexIsText ==
  ASSUME NEW v \in Nat
  PROVE  hex8(v) \in Seq(0..15) /\ hex16(v) \in Seq(0..15) /\ hex32(v) \in Seq(0..15)
<1>1. ASSUME NEW n \in Nat PROVE hex8(n) \in Seq(0..15)
  <2>1. (n \div 16) % 16 \in 0..15 /\ n % 16 \in 0..15
    OBVIOUS
  <2> QED BY <2>1 DEF hex8
<1>2. ASSUME NEW n \in Nat PROVE hex16(n) \in Seq(0..15)
  <2>1. (n \div 256) % 256 \in Nat /\ n % 256 \in Nat
    OBVIOUS
  <2>2. hex8((n \div 256) % 256) \in Seq(0..15) /\ hex8(n % 256) \in Seq(0..15)
    BY <1>1, <2>1
  <2>3. hex8((n \div 256) % 256) \o hex8(n % 256) \in Seq(0..15)
    BY <2>2, ConcatProperties
  <2> QED BY <2>3, Zenon DEF hex16
<1>3. hex32(v) \in Seq(0..15)
  <2>1. (v \div 65536) % 65536 \in Nat /\ v % 65536 \in Nat
    OBVIOUS
  <2>2. hex16((v \div 65536) % 65536) \in Seq(0..15) /\ hex16(v % 65536) \in Seq(0..15)
    BY <1>2, <2>1
  <2>3. hex16((v \div 65536) % 65536) \o hex16(v % 65536) \in Seq(0..15)
    BY <2>2, ConcatProperties
  <2> QED BY <2>3 DEF hex32
<1> QED BY <1>1, <1>2, <1>3

(* What the actions write is in the texts of the paper.                    *)
LEMMA NumeralIsText ==
  ASSUME NEW s \in Numeral
  PROVE  s \in Seq(Char)
<1>1. 0..15 \subseteq Char /\ 0..9 \subseteq Char
  <2>1. 0..15 \subseteq Char
    BY DEF Char
  <2>2. 0..9 \subseteq 0..15
    OBVIOUS
  <2> QED BY <2>1, <2>2
<1> DEFINE U == UNION {{hex8(v), hex16(v), hex32(v), dec32(v)} : v \in Value}
<1>2. s \in {Prefix(prefix) \o r : prefix \in BOOLEAN, r \in U}
  BY DEF Numeral
<1>3. \A r \in U : \E v \in Value : r \in {hex8(v), hex16(v), hex32(v), dec32(v)}
  OBVIOUS
<1> HIDE DEF U
<1>4. PICK prefix \in BOOLEAN : \E r \in U : s = Prefix(prefix) \o r
  BY <1>2
<1>5. PICK r \in U : s = Prefix(prefix) \o r
  BY <1>4
<1>6. PICK v \in Value : r \in {hex8(v), hex16(v), hex32(v), dec32(v)}
  BY <1>3
<1>7. v \in Nat
  BY ConsoleAssumption
<1>8. r \in Seq(Char)
  <2>1. r \in Seq(0..15) \/ r \in Seq(0..9)
    BY <1>6, <1>7, HexIsText, DecIsText
  <2> QED BY <1>1, <2>1, SeqMonotonic
<1>9. Prefix(prefix) \in Seq(Char)
  <2>1. CASE prefix
    <3>1. 0 \in Char /\ X \in Char
      BY <1>1 DEF Char
    <3>2. <<0, X>> \in Seq(Char)
      BY <3>1
    <3> QED BY <2>1, <3>2, Zenon DEF Prefix
  <2>2. CASE ~prefix
    <3>1. <<>> \in Seq(Char)
      OBVIOUS
    <3> QED BY <2>2, <3>1, Zenon DEF Prefix
  <2> QED BY <2>1, <2>2
<1> DEFINE a == Prefix(prefix)
<1> HIDE DEF a
<1>10. a \o r \in Seq(Char)
  BY <1>8, <1>9, ConcatProperties DEF a
<1> QED BY <1>5, <1>10 DEF a

(* Characters of texts can be on the screen.                               *)
LEMMA TextIsText ==
  ASSUME NEW s \in Text \cup Numeral
  PROVE  s \in Seq(Char)
<1>1. CASE s \in Text
  <2>1. s \in Seq(Range(s))
    BY <1>1, ConsoleAssumption
  <2>2. Range(s) \subseteq TextChar
    BY <1>1, Zenon DEF TextChar
  <2>3. Range(s) \subseteq Char
    BY <2>2 DEF Char
  <2> QED BY <2>1, <2>3, SeqMonotonic
<1> QED BY <1>1, NumeralIsText

(* Every step that prints is a Write of a text of the paper.               *)
LEMMA StepWrites ==
  ASSUME Next, ~Reset
  PROVE  \E s \in Text \cup Numeral : Write(s)
<1>1. CASE \E s \in Text : Write(s)
  BY <1>1
<1>2. ASSUME NEW v \in Value, NEW prefix \in BOOLEAN, NEW r \in {hex8(v), hex16(v), hex32(v), dec32(v)}
      PROVE  Prefix(prefix) \o r \in Numeral
  <2> DEFINE U == UNION {{hex8(n), hex16(n), hex32(n), dec32(n)} : n \in Value}
  <2>1. r \in U
    OBVIOUS
  <2>2. Numeral = {Prefix(p) \o q : p \in BOOLEAN, q \in U}
    BY DEF Numeral
  <2> HIDE DEF U
  <2> QED BY <2>1, <2>2
<1>3. ASSUME NEW v \in Value, NEW prefix \in BOOLEAN,
             \/ console_put_hex8(v, prefix) \/ console_put_hex16(v, prefix)
             \/ console_put_hex32(v, prefix)
      PROVE  \E s \in Numeral : Write(s)
  <2>1. \/ Write(Prefix(prefix) \o hex8(v)) \/ Write(Prefix(prefix) \o hex16(v))
        \/ Write(Prefix(prefix) \o hex32(v))
    BY <1>3 DEF console_put_hex8, console_put_hex16, console_put_hex32
  <2>2. /\ Prefix(prefix) \o hex8(v) \in Numeral /\ Prefix(prefix) \o hex16(v) \in Numeral
        /\ Prefix(prefix) \o hex32(v) \in Numeral
    BY <1>2, Zenon
  <2> QED BY <2>1, <2>2, Zenon
<1>4. ASSUME NEW v \in Value, console_put_dec32(v)
      PROVE  \E s \in Numeral : Write(s)
  <2>1. Write(dec32(v))
    BY <1>4, Zenon DEF console_put_dec32
  <2>2. dec32(v) \in Seq(0..9)
    BY ConsoleAssumption, DecIsText
  <2> DEFINE d == dec32(v)
  <2>3. Prefix(FALSE) \o d \in Numeral
    BY <1>2, Zenon
  <2>4. Prefix(FALSE) = <<>>
    BY DEF Prefix
  <2> HIDE DEF d
  <2>5. <<>> \o d = d
    BY <2>2, ConcatEmptySeq DEF d
  <2>6. d \in Numeral
    BY <2>3, <2>4, <2>5, Zenon
  <2> QED BY <2>1, <2>6, Zenon DEF d
<1> QED BY <1>1, <1>3, <1>4, Zenon DEF Next

----------------------------------------------------------------------------
(* The console.                                                            *)

(* Before anything is printed: the screen as it was found.                 *)
LEMMA InitGood ==
  ASSUME Init
  PROVE  Good(con) /\ P!Init
<1>1. PICK s \in Screen : con = [vga |-> s, x |-> 0, y |-> 0, crtc |-> 0, above |-> <<>>]
  BY DEF Init
<1>2. s \in VgaCells
  <2>1. s \in [0..(CELLS - 1) -> Range(s)]
    BY ConsoleAssumption
  <2>2. Range(s) \subseteq ScreenChar
    BY Zenon DEF ScreenChar
  <2>3. Range(s) \subseteq Char
    BY <2>2 DEF Char
  <2> QED BY <2>1, <2>3 DEF VgaCells
<1>3. /\ con \in Con /\ con.vga = s /\ con.x = 0 /\ con.y = 0 /\ con.crtc = 0
      /\ con.above = <<>> /\ Len(con.above) = 0
  BY <1>1, <1>2 DEF Con
<1>4. CONSOLE_WIDTH \in Nat \ {0} /\ CONSOLE_HEIGHT \in Nat \ {0} /\ Row(0) = 0
  BY RowFacts
<1>5. Lines(con, 0)
  BY <1>3, <1>4 DEF Lines
<1>6. OnScreen(con) /\ con.crtc = con.y * CONSOLE_WIDTH + con.x
  BY <1>3, <1>4 DEF OnScreen
<1>7. Good(con)
  BY <1>5, <1>6 DEF Good
<1>8. Pos = 0 /\ Len(con.above) \div CONSOLE_WIDTH = 0
  <2>1. Pos = 0
    BY <1>3, <1>4 DEF Pos
  <2>2. Len(con.above) \div CONSOLE_WIDTH = 0
    BY <1>5, TopOf
  <2> QED BY <2>1, <2>2
<1>9. Strip = [i \in 0..((CONSOLE_HEIGHT + MAX_SCROLL) * CONSOLE_WIDTH - 1) |->
                 IF i < CONSOLE_WIDTH * CONSOLE_HEIGHT THEN s[i] ELSE BLANK]
  <2> DEFINE D == 0..((CONSOLE_HEIGHT + MAX_SCROLL) * CONSOLE_WIDTH - 1)
             e(i) == IF i < Len(con.above) THEN con.above[i + 1]
                     ELSE IF i < Len(con.above) + CELLS THEN con.vga[i - Len(con.above)] ELSE BLANK
  <2>1. ASSUME NEW i \in Nat
        PROVE  e(i) = IF i < CELLS THEN s[i] ELSE BLANK
    <3>1. ~(i < 0) /\ 0 + CELLS = CELLS /\ i - 0 = i
      BY CellsFacts
    <3> QED BY <1>3, <3>1
  <2>2. Strip = [i \in D |-> e(i)]
    BY DEF Strip
  <2>3. \A i \in D : i \in Nat
    OBVIOUS
  <2> HIDE DEF e, D
  <2>4. Strip = [i \in D |-> IF i < CELLS THEN s[i] ELSE BLANK]
    BY <2>1, <2>2, <2>3
  <2> QED BY <2>4 DEF D, CELLS
<1>10. P!Init
  BY <1>8, <1>9 DEF P!Init
<1> QED BY <1>7, <1>10

(* A call of console_puts.                                                 *)
LEMMA WriteStep ==
  ASSUME Good(con), NEW s \in Text \cup Numeral, Write(s)
  PROVE  Good(con') /\ P!Write(s)
<1>1. s \in Seq(Char)
  BY TextIsText
<1>2. con' = console_puts(con, s)
  BY DEF Write
<1>3. /\ Good(console_puts(con, s))
      /\ \E h : IsTyped(h, PaperOf(con, StripCells), s, Len(s))
      /\ \A h : IsTyped(h, PaperOf(con, StripCells), s, Len(s)) => h[Len(s)] = PaperOf(console_puts(con, s), StripCells)
  <2>1. StripCells \in SUBSET Nat
    BY DEF StripCells
  <2> QED BY <1>1, <2>1, PutsTypes
<1> DEFINE p == [strip |-> Strip, pos |-> Pos, top |-> Len(con.above) \div CONSOLE_WIDTH]
<1>4. p = PaperOf(con, StripCells)
  BY DEF PaperOf, StripOf, StripCells, PosOf, Strip, Pos
<1> DEFINE typed == CHOOSE h : IsTyped(h, p, s, Len(s))
<1>5. IsTyped(typed, p, s, Len(s))
  BY <1>3, <1>4, Zenon
<1>6. typed[Len(s)] = PaperOf(con', StripCells)
  BY <1>2, <1>3, <1>4, <1>5, Zenon
<1>7. /\ PaperOf(con', StripCells).strip = Strip' /\ PaperOf(con', StripCells).pos = Pos'
      /\ PaperOf(con', StripCells).top = (Len(con.above) \div CONSOLE_WIDTH)'
  BY DEF PaperOf, StripOf, StripCells, PosOf, Strip, Pos
<1>8. P!Write(s) <=> /\ Strip' = typed[Len(s)].strip
                     /\ Pos' = typed[Len(s)].pos
                     /\ (Len(con.above) \div CONSOLE_WIDTH)' = typed[Len(s)].top
  BY DEF P!Write, IsTyped
<1> HIDE DEF typed
<1> QED BY <1>2, <1>3, <1>6, <1>7, <1>8

(* console_reset.                                                          *)
LEMMA ResetStep ==
  ASSUME Good(con), Reset
  PROVE  Good(con') /\ P!Wipe
<1>1. PICK t \in Nat : con \in Con /\ Lines(con, t)
  BY DEF Good, Lines
<1> DEFINE v == [i \in 0..(CELLS - 1) |-> BLANK]
           d == [con EXCEPT !.vga = v, !.x = 0, !.y = 0]
<1>2. v \in VgaCells
  BY BlankChar DEF VgaCells
<1>3. \A i \in 0..(CELLS - 1) : v[i] = BLANK
  OBVIOUS
<1>4. con' = set_console_cursor_pos(d)
  BY DEF Reset, console_reset
<1> HIDE DEF v
<1>5. d \in Con /\ d.x = 0 /\ d.y = 0 /\ d.above = con.above /\ d.vga = v
  BY <1>1, <1>2 DEF Con
<1> HIDE DEF d
<1>6. CONSOLE_WIDTH \in Nat /\ CONSOLE_WIDTH > 0 /\ CONSOLE_HEIGHT \in Nat /\ CONSOLE_HEIGHT > 0
  BY RowFacts
<1>7. OnScreen(d)
  BY <1>5, <1>6 DEF OnScreen
<1>8. con' \in Con /\ con' = [d EXCEPT !.crtc = d.y * CONSOLE_WIDTH + d.x]
  BY <1>4, <1>5, <1>7, CursorSet
<1>9. /\ con'.x = 0 /\ con'.y = 0 /\ con'.above = con.above /\ con'.vga = v
      /\ con'.crtc = con'.y * CONSOLE_WIDTH + con'.x
  BY <1>5, <1>8 DEF Con
<1>10. Lines(con', t)
  BY <1>1, <1>8, <1>9 DEF Lines
<1>11. Good(con')
  BY <1>6, <1>9, <1>10 DEF Good, OnScreen
<1>12. Len(con.above) \div CONSOLE_WIDTH = t /\ Len(con.above) = Row(t)
  BY <1>1, TopOf DEF Lines
<1>13. PICK n \in Nat, m \in Nat : n = Len(con.above) /\ n = t * CONSOLE_WIDTH /\ m = CELLS
  <2>1. Row(t) \in Nat
    BY RowFacts
  <2>2. CELLS \in Nat
    BY CellsFacts
  <2> QED BY <1>12, <2>1, <2>2 DEF Row
<1>14. Pos' = t * CONSOLE_WIDTH
  <2>1. Pos' = n + 0 * CONSOLE_WIDTH + 0
    BY <1>9, <1>13 DEF Pos
  <2>2. n + 0 * CONSOLE_WIDTH + 0 = n
    BY <1>6
  <2> QED BY <1>13, <2>1, <2>2
<1>15. Strip' = [i \in DOMAIN Strip |-> IF i < n THEN Strip[i] ELSE BLANK]
  <2> DEFINE D == 0..((CONSOLE_HEIGHT + MAX_SCROLL) * CONSOLE_WIDTH - 1)
             old(i) == IF i < n THEN con.above[i + 1] ELSE IF i < n + m THEN con.vga[i - n] ELSE BLANK
             new(i) == IF i < n THEN con.above[i + 1] ELSE IF i < n + m THEN v[i - n] ELSE BLANK
  <2>1. Strip = [i \in D |-> old(i)]
    BY <1>13 DEF Strip
  <2>2. Strip' = [i \in D |-> new(i)]
    BY <1>9, <1>13 DEF Strip
  <2>3. ASSUME NEW i \in Nat
        PROVE  new(i) = IF i < n THEN old(i) ELSE BLANK
    <3>1. CASE ~(i < n) /\ i < n + m
      <4>1. i - n \in 0..(CELLS - 1)
        BY <1>13, <3>1
      <4> QED BY <1>3, <3>1, <4>1
    <3> QED BY <3>1
  <2>4. \A i \in D : i \in Nat
    OBVIOUS
  <2> HIDE DEF D, old, new
  <2>5. DOMAIN Strip = D /\ \A i \in D : Strip[i] = old(i)
    BY <2>1
  <2> QED BY <2>2, <2>3, <2>4, <2>5
<1>16. P!Wipe
  BY <1>9, <1>12, <1>13, <1>14, <1>15 DEF P!Wipe
<1> QED BY <1>11, <1>16

(* Every action.                                                           *)
LEMMA StepGood ==
  ASSUME Good(con), Next
  PROVE  Good(con') /\ P!Next
<1>1. CASE Reset
  BY <1>1, ResetStep DEF P!Next
<1>2. CASE ~Reset
  <2>1. PICK s \in Text \cup Numeral : Write(s)
    BY <1>2, StepWrites
  <2> QED BY <2>1, WriteStep DEF P!Next
<1> QED BY <1>1, <1>2

(* Between two calls the cursor is on the screen and in the register, and  *)
(* above the screen are whole lines.                                       *)
THEOREM Inductive == Spec => []Good(con)
<1>1. Good(con) /\ [Next]_con => Good(con)'
  <2>1. ASSUME Good(con), Next PROVE Good(con)'
    <3>1. Good(con')
      BY <2>1, StepGood
    <3> QED BY <3>1 DEF Good, Lines, OnScreen, Con, Row
  <2>2. ASSUME Good(con), UNCHANGED con PROVE Good(con)'
    BY <2>2 DEF Good, Lines, OnScreen, Con, Row
  <2> QED BY <2>1, <2>2
<1> QED BY <1>1, InitGood, PTL DEF Spec

(* For every size of screen and all texts, set_console_cursor_pos has put  *)
(* the position of the next character into the two registers.              *)
THEOREM CursorAlwaysShown == Spec => []CursorShown
<1>1. Good(con) => CursorShown
  BY DEF Good, CursorShown
<1> QED BY <1>1, Inductive, PTL

(* console.c keeps what Paper promises: every call of it is the same text  *)
(* on the strip, or wipes the window.                                      *)
THEOREM ConsoleImplementsPaper == Spec => ImplementsPaper
<1>1. Good(con) /\ [Next]_con => [P!Next]_(P!vars)
  <2>1. ASSUME Good(con), Next PROVE P!Next
    BY <2>1, StepGood
  <2>2. ASSUME UNCHANGED con PROVE UNCHANGED P!vars
    BY <2>2 DEF P!vars, Strip, Pos
  <2> QED BY <2>1, <2>2
<1>2. Init => P!Init
  BY InitGood
<1> QED BY <1>1, <1>2, Inductive, PTL DEF Spec, ImplementsPaper, P!Spec

----------------------------------------------------------------------------
(* The shell.                                                              *)

(* What a line is made of.                                                 *)
LineChar == Key \ {BS, NL}

(* While the shell reads, the array starts with the line: what is behind   *)
(* it is of no concern.                                                    *)
LineHeld ==
  /\ input \in [0..(INPUT_MAX_LENGTH - 1) -> Key \cup {BS, NUL}]
  /\ input_char_count \in 0..(INPUT_MAX_LENGTH - 1)
  /\ line \in Seq(LineChar) /\ full \in BOOLEAN
  /\ running = "shell" =>
       /\ Len(line) = input_char_count
       /\ \A i \in 1..Len(line) : input[i - 1] = line[i]
  /\ running # "shell" => line = <<>> /\ full = FALSE

(* The 0 that ends the string is behind the line, and there is none in it. *)
LEMMA StringIsLine ==
  ASSUME LineHeld, running = "shell", NEW array,
         array = [input EXCEPT ![input_char_count] = NUL]
  PROVE  CString(array) = line
<1>1. PICK n \in Nat, m \in Nat :
        n = input_char_count /\ m = INPUT_MAX_LENGTH /\ m > 0 /\ n < m
  BY ShellAssumption DEF LineHeld
<1>2. /\ input \in [0..(m - 1) -> Key \cup {BS, NUL}]
      /\ line \in Seq(LineChar) /\ Len(line) = n /\ \A i \in 1..n : input[i - 1] = line[i]
  BY <1>1 DEF LineHeld
<1>3. DOMAIN array = 0..(m - 1) /\ \A i \in 0..(m - 1) : array[i] = IF i = n THEN NUL ELSE input[i]
  BY <1>1, <1>2
<1>4. \A i \in 1..n : line[i] # NUL
  <2>1. NUL \notin LineChar
    BY ShellAssumption DEF LineChar
  <2> QED BY <1>2, <2>1
<1>5. ASSUME NEW i \in 0..(n - 1) PROVE array[i] = line[i + 1] /\ array[i] # NUL
  <2>1. i + 1 \in 1..n /\ (i + 1) - 1 = i /\ i \in 0..(m - 1) /\ i # n
    BY <1>1
  <2>2. input[i] = line[i + 1]
    BY <1>2, <2>1
  <2> QED BY <1>3, <1>4, <2>1, <2>2
<1> DEFINE S == {i \in DOMAIN array : array[i] = NUL}
<1>6. n \in S /\ \A i \in S : n <= i /\ i \in Nat
  <2>1. n \in S
    BY <1>1, <1>3
  <2>2. ASSUME NEW i \in S PROVE n <= i /\ i \in Nat
    <3>1. i \in 0..(m - 1) /\ array[i] = NUL
      BY <1>3
    <3>2. i \notin 0..(n - 1)
      BY <1>5, <3>1
    <3> QED BY <1>1, <3>1, <3>2
  <2> QED BY <2>1, <2>2
<1> HIDE DEF S
<1>7. Min(S) = n
  <2>1. \A i \in S : (\A j \in S : i <= j) => i = n
    BY <1>6
  <2>2. (CHOOSE i \in S : \A j \in S : i <= j) = n
    BY <1>6, <2>1
  <2> QED BY <2>2 DEF Min
<1>8. CString(array) = [i \in 1..n |-> array[i - 1]]
  BY <1>7 DEF CString, S
<1>9. ASSUME NEW i \in 1..n PROVE array[i - 1] = line[i]
  <2>1. i - 1 \in 0..(n - 1) /\ (i - 1) + 1 = i
    BY <1>1
  <2> QED BY <1>5, <2>1
<1>10. line = [i \in 1..n |-> line[i]]
  BY <1>2
<1> QED BY <1>8, <1>9, <1>10

(* A line without its last character.                                      *)
LEMMA DropLast ==
  ASSUME NEW S, NEW s \in Seq(S), Len(s) > 0
  PROVE  /\ SubSeq(s, 1, Len(s) - 1) \in Seq(S) /\ Len(SubSeq(s, 1, Len(s) - 1)) = Len(s) - 1
         /\ \A i \in 1..(Len(s) - 1) : SubSeq(s, 1, Len(s) - 1)[i] = s[i]
<1>1. PICK n \in Nat : n = Len(s) - 1
  OBVIOUS
<1>2. \A i \in 1..n : s[i] \in S
  BY <1>1
<1> QED BY <1>1, <1>2

(* At first, and at the start of a shell.                                  *)
LEMMA FreshArray == Fresh \in [0..(INPUT_MAX_LENGTH - 1) -> Key \cup {BS, NUL}]
BY DEF Fresh

(* A character in the array.                                               *)
LEMMA ArrayStep ==
  ASSUME LineHeld, NEW c \in Key \cup {BS, NL}, read(c)
  PROVE  /\ input' \in [0..(INPUT_MAX_LENGTH - 1) -> Key \cup {BS, NUL}]
         /\ \A i \in 0..(INPUT_MAX_LENGTH - 1) :
              input'[i] = IF i = input_char_count THEN (IF c = NL THEN NUL ELSE c) ELSE input[i]
         /\ c # NL => input'[input_char_count] = c
         /\ running = "shell"
<1>1. PICK v \in Key \cup {BS, NUL} : v = IF c = NL THEN NUL ELSE c
  OBVIOUS
<1>2. input' = [input EXCEPT ![input_char_count] = v] /\ running = "shell"
  BY <1>1 DEF read
<1>3. /\ input \in [0..(INPUT_MAX_LENGTH - 1) -> Key \cup {BS, NUL}]
      /\ input_char_count \in 0..(INPUT_MAX_LENGTH - 1)
  BY DEF LineHeld
<1> QED BY <1>1, <1>2, <1>3

(* Every action keeps the line at the start of the array.                  *)
LEMMA LineStep ==
  ASSUME LineHeld, ShellNext
  PROVE  LineHeld'
<1>1. PICK m \in Nat : m = INPUT_MAX_LENGTH /\ m > 0
  BY ShellAssumption
<1>2. PICK n \in Nat : n = input_char_count /\ n < m
  BY <1>1 DEF LineHeld
<1>3. <<>> \in Seq(LineChar) /\ Len(<<>>) = 0
  OBVIOUS
<1>4. PICK l \in Seq(LineChar) : l = line
  BY DEF LineHeld
<1>5. ASSUME start PROVE LineHeld'
  <2>1. /\ running = "start" /\ running' = "shell" /\ input' = Fresh /\ input_char_count' = 0
        /\ line' = line /\ full' = full
    BY <1>5 DEF start, history
  <2>2. line = <<>> /\ full = FALSE
    BY <2>1 DEF LineHeld
  <2>3. 0 \in 0..(INPUT_MAX_LENGTH - 1)
    BY <1>1
  <2> QED BY <1>3, <2>1, <2>2, <2>3, FreshArray DEF LineHeld
<1>6. ASSUME Backspace PROVE LineHeld'
  <2>1. read(BS) /\ running' = running /\ full' = full /\ line' = SubSeq(line, 1, Len(line) - 1)
    BY <1>6 DEF Backspace
  <2>2. /\ input' \in [0..(m - 1) -> Key \cup {BS, NUL}] /\ running = "shell"
        /\ \A i \in 0..(m - 1) : i # n => input'[i] = input[i]
    BY <1>1, <1>2, <2>1, ArrayStep
  <2>3. Len(l) = n /\ \A i \in 1..n : input[i - 1] = l[i]
    BY <1>2, <1>4, <2>2 DEF LineHeld
  <2>4. CASE n = 0
    <3>1. input_char_count' = n
      BY <1>2, <1>6, <2>4 DEF Backspace
    <3>2. line' = <<>> /\ line' \in Seq(LineChar) /\ Len(line') = 0
      <4>1. line' = SubSeq(l, 1, 0 - 1)
        BY <1>4, <2>1, <2>3, <2>4
      <4>2. SubSeq(l, 1, 0 - 1) = <<>>
        OBVIOUS
      <4> QED BY <1>3, <4>1, <4>2
    <3>3. full \in BOOLEAN
      BY DEF LineHeld
    <3> QED BY <1>1, <1>2, <2>1, <2>2, <2>4, <3>1, <3>2, <3>3 DEF LineHeld
  <2>5. CASE n > 0
    <3>1. input_char_count' = n - 1
      BY <1>2, <1>6, <2>5 DEF Backspace
    <3>2. PICK k \in Seq(LineChar) : k = SubSeq(l, 1, n - 1) /\ Len(k) = n - 1 /\ \A i \in 1..(n - 1) : k[i] = l[i]
      <4>1. /\ SubSeq(l, 1, n - 1) \in Seq(LineChar) /\ Len(SubSeq(l, 1, n - 1)) = n - 1
            /\ \A i \in 1..(n - 1) : SubSeq(l, 1, n - 1)[i] = l[i]
        BY <2>3, <2>5, DropLast
      <4> QED BY <4>1, Zenon
    <3>3. line' = k
      BY <1>4, <2>1, <2>3, <3>2
    <3>4. ASSUME NEW i \in 1..Len(k) PROVE input'[i - 1] = k[i]
      <4>1. i - 1 \in 0..(m - 1) /\ i - 1 # n /\ i \in 1..n /\ i \in 1..(n - 1)
        BY <1>2, <2>5, <3>2
      <4> QED BY <2>2, <2>3, <3>2, <4>1
    <3>5. full \in BOOLEAN /\ n - 1 \in 0..(m - 1)
      BY <1>2, <2>5 DEF LineHeld
    <3> QED BY <1>1, <2>1, <2>2, <3>1, <3>2, <3>3, <3>4, <3>5 DEF LineHeld
  <2> QED BY <2>4, <2>5
<1>7. ASSUME Newline PROVE LineHeld'
  <2>1. read(NL) /\ input_char_count' = 0 /\ line' = <<>> /\ full' = FALSE
    BY <1>7 DEF Newline
  <2>2. input' \in [0..(m - 1) -> Key \cup {BS, NUL}]
    BY <1>1, <2>1, ArrayStep
  <2>3. 0 \in 0..(m - 1) /\ FALSE \in BOOLEAN
    BY <1>1
  <2>4. line' \in Seq(LineChar) /\ Len(line') = 0
    BY <1>3, <2>1
  <2>5. \A i \in 1..Len(line') : input'[i - 1] = line'[i]
    BY <2>4
  <2> QED BY <1>1, <2>1, <2>2, <2>3, <2>4, <2>5 DEF LineHeld
<1>8. ASSUME NEW c \in Key \ {BS, NL}, Ordinary(c) PROVE LineHeld'
  <2>1. /\ read(c) /\ running' = running
        /\ input_char_count' = (input_char_count + 1) % INPUT_MAX_LENGTH
        /\ line' = IF Len(line) + 1 = INPUT_MAX_LENGTH THEN <<>> ELSE Append(line, c)
        /\ full' = (full \/ (Len(line) + 1 = INPUT_MAX_LENGTH))
    BY <1>8 DEF Ordinary
  <2>2. /\ input' \in [0..(m - 1) -> Key \cup {BS, NUL}] /\ running = "shell"
        /\ \A i \in 0..(m - 1) : i # n => input'[i] = input[i]
        /\ input'[n] = c
    <3>1. c \in Key \cup {BS, NL} /\ c # NL
      BY <1>8
    <3> QED BY <1>1, <1>2, <2>1, <3>1, ArrayStep
  <2>3. Len(l) = n /\ \A i \in 1..n : input[i - 1] = l[i]
    BY <1>2, <1>4, <2>2 DEF LineHeld
  <2>4. full' \in BOOLEAN
    BY <2>1 DEF LineHeld
  <2>5. CASE n + 1 = m
    <3>1. line' = <<>>
      BY <1>1, <1>4, <2>1, <2>3, <2>5
    <3>2. input_char_count' = 0
      <4>1. m % m = 0
        BY <1>1
      <4> QED BY <1>1, <1>2, <2>1, <2>5, <4>1
    <3>3. line' \in Seq(LineChar) /\ Len(line') = 0 /\ 0 \in 0..(m - 1)
      BY <1>1, <1>3, <3>1
    <3>4. \A i \in 1..Len(line') : input'[i - 1] = line'[i]
      BY <3>3
    <3> QED BY <1>1, <2>1, <2>2, <2>4, <3>2, <3>3, <3>4 DEF LineHeld
  <2>6. CASE n + 1 # m
    <3>1. PICK k \in Seq(LineChar) :
            k = Append(l, c) /\ Len(k) = n + 1 /\ k[n + 1] = c /\ \A i \in 1..n : k[i] = l[i]
      <4>1. c \in LineChar
        BY <1>8 DEF LineChar
      <4>2. /\ Append(l, c) \in Seq(LineChar) /\ Len(Append(l, c)) = n + 1
            /\ \A i \in 1..n : Append(l, c)[i] = l[i]
            /\ Append(l, c)[n + 1] = c
        BY <2>3, <4>1, AppendProperties
      <4> QED BY <4>2, Zenon
    <3>2. line' = k
      BY <1>1, <1>4, <2>1, <2>3, <2>6, <3>1
    <3>3. input_char_count' = n + 1 /\ n + 1 \in 0..(m - 1)
      <4>1. n + 1 < m
        BY <1>2, <2>6
      <4>2. (n + 1) % m = n + 1
        BY <1>1, <4>1
      <4> QED BY <1>1, <1>2, <2>1, <4>1, <4>2
    <3>4. ASSUME NEW i \in 1..Len(k) PROVE input'[i - 1] = k[i]
      <4>1. CASE i = n + 1
        BY <2>2, <3>1, <4>1
      <4>2. CASE i # n + 1
        <5>1. i \in 1..n /\ i - 1 \in 0..(m - 1) /\ i - 1 # n
          BY <1>2, <3>1, <4>2
        <5> QED BY <2>2, <2>3, <3>1, <5>1
      <4> QED BY <4>1, <4>2
    <3> QED BY <1>1, <2>1, <2>2, <2>4, <3>1, <3>2, <3>3, <3>4 DEF LineHeld
  <2> QED BY <2>5, <2>6
<1>9. ASSUME hello \/ sys_exit PROVE LineHeld'
  BY <1>9 DEF LineHeld, hello, sys_exit, history
<1>10. ASSUME Idle PROVE LineHeld'
  BY <1>10 DEF LineHeld, Idle, shellVars, history
<1> QED BY <1>5, <1>6, <1>7, <1>8, <1>9, <1>10 DEF ShellNext

(* At first there is no line.                                              *)
LEMMA LineInit == ShellInit => LineHeld
<1> SUFFICES ASSUME ShellInit PROVE LineHeld
  OBVIOUS
<1>1. 0 \in 0..(INPUT_MAX_LENGTH - 1)
  BY ShellAssumption
<1>2. <<>> \in Seq(LineChar)
  OBVIOUS
<1> QED BY <1>1, <1>2, FreshArray DEF ShellInit, LineHeld

(* Over every way to edit lines, and over shells that start shells, the    *)
(* array of potatoshell.c starts with the line its user sees.              *)
THEOREM LineAlwaysHeld == ShellSpec => []LineHeld
<1>1. LineHeld /\ [ShellNext]_shellVars => LineHeld'
  <2>1. ASSUME LineHeld, UNCHANGED shellVars PROVE LineHeld'
    BY <2>1 DEF LineHeld, shellVars, history
  <2> QED BY <2>1, LineStep
<1> QED BY <1>1, LineInit, PTL DEF ShellSpec

(* What run_command is given at the end of a line is the line, for every   *)
(* length of the array: what longer lines and backspaces left behind its   *)
(* end is never part of it.  An empty line runs nothing.                   *)
THEOREM CommandsAreLines == ShellSpec => CommandIsLine
<1>1. ASSUME LineHeld, Newline
      PROVE  command' = IF line = <<>> THEN command ELSE line
  <2>1. running = "shell" /\ input' = [input EXCEPT ![input_char_count] = NUL]
    BY <1>1 DEF Newline, read
  <2>2. CString(input') = line
    BY <1>1, <2>1, StringIsLine
  <2>3. input_char_count \in Nat /\ (input_char_count = 0 <=> line = <<>>)
    BY <1>1, <2>1, ShellAssumption DEF LineHeld
  <2>4. CASE input_char_count = 0
    <3>1. command' = command
      BY <1>1, <2>3, <2>4 DEF Newline
    <3> QED BY <2>3, <2>4, <3>1
  <2>5. CASE input_char_count # 0
    <3>1. command' = line
      BY <1>1, <2>2, <2>3, <2>5 DEF Newline
    <3> QED BY <2>3, <2>5, <3>1
  <2> QED BY <2>4, <2>5
<1>2. LineHeld /\ [ShellNext]_shellVars
        => [Newline => command' = IF line = <<>> THEN command ELSE line]_shellVars
  BY <1>1
<1> QED BY <1>2, LineAlwaysHeld, PTL DEF ShellSpec, CommandIsLine

----------------------------------------------------------------------------
(* The line on the screen.                                                 *)

(* The cells in front of the cursor show the first k characters of s, and  *)
(* they have not left the screen.                                          *)
Shown(c, s, k) ==
  /\ Len(c.above) + k <= PosOf(c)
  /\ \A i \in 1..k : StripOf(c, Nat)[((PosOf(c) - k) + i) - 1] = s[i]

(* One character more.  When the screen scrolls the cursor is in its last  *)
(* line, so that the lines above it are still seen.                        *)
LEMMA ShownMore ==
  ASSUME NEW c, Good(c), NEW s, NEW k \in Nat, Shown(c, s, k),
         NEW char \in Char, char \notin {NUL, NL, BS}, s[k + 1] = char,
         k + 1 <= CELLS - CONSOLE_WIDTH
  PROVE  Good(console_putc(c, char)) /\ Shown(console_putc(c, char), s, k + 1)
<1> DEFINE d == console_putc(c, char)
<1>1. PICK t \in Nat : c \in Con /\ Lines(c, t) /\ OnScreen(c)
  BY DEF Good, Lines
<1>2. PICK n \in Nat : n = PosOf(c)
  BY <1>1, PosIs
<1>3. PICK f, g : f = StripOf(c, Nat) /\ g = [f EXCEPT ![n] = char]
  OBVIOUS
<1>4. Good(d) /\ PaperOf(d, Nat) = P!MoveTo([strip |-> g, pos |-> n, top |-> t], n + 1)
  <2>1. d = Wrapped([Store(c, char) EXCEPT !.x = @ + 1])
    BY PutcCases
  <2>2. Nat \in SUBSET Nat
    OBVIOUS
  <2> HIDE DEF d
  <2> QED BY <1>1, <1>2, <1>3, <2>1, <2>2, ShownChar
<1> HIDE DEF d
<1>5. PICK u : u = P!Max({t, (n + 1) \div CONSOLE_WIDTH + 1 - CONSOLE_HEIGHT} \cap Nat)
  OBVIOUS
<1>6. PaperOf(d, Nat) = [strip |-> g, pos |-> n + 1, top |-> u]
  <2>1. PICK e : e = n + 1
    OBVIOUS
  <2>2. P!MoveTo([strip |-> g, pos |-> n, top |-> t], e) = [strip |-> g, pos |-> e, top |-> u]
    BY <1>5, <2>1, MoveToIs
  <2> QED BY <1>4, <2>1, <2>2
<1>7. StripOf(d, Nat) = g /\ PosOf(d) = n + 1 /\ Len(d.above) \div CONSOLE_WIDTH = u
  BY <1>6 DEF PaperOf
<1>8. PICK v \in Nat : d \in Con /\ Lines(d, v) /\ OnScreen(d)
  BY <1>4 DEF Good, Lines
<1>9. u = v /\ u \in Nat
  BY <1>7, <1>8, TopOf
<1>10. PICK w \in Nat, h \in Nat : w = CONSOLE_WIDTH /\ h = CONSOLE_HEIGHT /\ w > 0 /\ h > 0
  BY RowFacts
<1>11. PICK q \in Nat : q = (n + 1) \div w
  BY <1>10
<1>12. u = IF (q + 1) - h > t THEN (q + 1) - h ELSE t
  BY <1>5, <1>10, <1>11, MaxOfTwo
<1>13. PICK a \in Nat, b \in Nat : a = Len(c.above) /\ b = Len(d.above) /\ a = Row(t) /\ b = Row(u)
  BY <1>1, <1>8, <1>9, RowFacts DEF Lines
<1>14. a + k <= n
  BY <1>2, <1>13 DEF Shown
<1>15. b + (k + 1) <= n + 1
  <2>1. CASE u = t
    BY <1>13, <1>14, <2>1
  <2>2. CASE u # t
    <3>1. u = (q + 1) - h
      BY <1>12, <2>2
    <3>2. q = u + d.y /\ d.y \in Nat /\ d.x \in Nat
      <4>1. d.y \in Nat /\ d.x \in Nat /\ d.x < CONSOLE_WIDTH
        BY <1>8 DEF OnScreen, Con
      <4>2. PosOf(d) \div CONSOLE_WIDTH = v + d.y
        BY <1>8, <4>1, PosIs
      <4> QED BY <1>7, <1>9, <1>10, <1>11, <4>1, <4>2
    <3>3. PICK y \in Nat : y = d.y /\ y = h - 1
      BY <1>10, <3>1, <3>2
    <3>4. n + 1 = Row(u + y) + d.x /\ Row(u + y) = b + Row(y) /\ Row(y) \in Nat
      <4>1. PosOf(d) = Row(v + d.y) + d.x
        BY <1>8, PosIs
      <4>2. Row(u + y) = Row(u) + Row(y) /\ Row(y) \in Nat
        BY <1>9, RowFacts
      <4> QED BY <1>7, <1>9, <1>13, <3>3, <4>1, <4>2
    <3>5. CELLS = Row(y) + w
      <4>1. y + 1 = h
        BY <1>10, <3>3
      <4> QED BY <1>10, <4>1, RowFacts
    <3>6. PICK r \in Nat, x \in Nat : r = Row(y) /\ x = d.x
      BY <3>2, <3>4
    <3>7. n + 1 = (b + r) + x /\ k + 1 <= (r + w) - w
      BY <1>10, <3>4, <3>5, <3>6
    <3> QED BY <1>10, <3>6, <3>7
  <2> QED BY <2>1, <2>2
<1>16. ASSUME NEW i \in 1..(k + 1)
       PROVE  g[(((n + 1) - (k + 1)) + i) - 1] = s[i]
  <2>1. f = StripOf(c, Nat) /\ \A j \in Nat : g[j] = IF j = n THEN char ELSE f[j]
    <3>1. DOMAIN f = Nat
      BY <1>3 DEF StripOf
    <3>2. g = [f EXCEPT ![n] = char]
      BY <1>3
    <3> QED BY <1>3, <3>1, <3>2
  <2>2. CASE i = k + 1
    <3>1. (((n + 1) - (k + 1)) + i) - 1 = n
      BY <2>2
    <3> QED BY <2>1, <2>2, <3>1
  <2>3. CASE i # k + 1
    <3>1. PICK j \in Nat : j = (((n + 1) - (k + 1)) + i) - 1 /\ j = ((n - k) + i) - 1 /\ j # n
      <4>1. /\ (((n + 1) - (k + 1)) + i) - 1 = ((n - k) + i) - 1
            /\ ((n - k) + i) - 1 \in Nat /\ ((n - k) + i) - 1 # n
        BY <1>13, <1>14, <2>3
      <4> QED BY <4>1
    <3>2. i \in 1..k
      BY <2>3
    <3>3. f[j] = s[i]
      BY <1>2, <1>3, <3>1, <3>2 DEF Shown
    <3> QED BY <2>1, <3>1, <3>3
  <2> QED BY <2>2, <2>3
<1>17. Shown(d, s, k + 1)
  BY <1>7, <1>13, <1>15, <1>16 DEF Shown
<1> QED BY <1>4, <1>17 DEF d

(* One character less: the cursor is not in the first cell of the screen.  *)
LEMMA ShownLess ==
  ASSUME NEW c, Good(c), NEW s, NEW k \in Nat, k > 0, Shown(c, s, k)
  PROVE  Good(console_putc(c, BS)) /\ Shown(console_putc(c, BS), s, k - 1)
<1> DEFINE d == console_putc(c, BS)
<1>1. PICK t \in Nat : c \in Con /\ Lines(c, t) /\ OnScreen(c)
  BY DEF Good, Lines
<1>2. PICK n \in Nat, a \in Nat : n = PosOf(c) /\ a = Len(c.above) /\ a = t * CONSOLE_WIDTH
  <2>1. Row(t) \in Nat
    BY RowFacts
  <2> QED BY <1>1, <2>1, PosIs DEF Lines, Row
<1>3. a + k <= n
  BY <1>2 DEF Shown
<1>4. PICK m \in Nat : m = n - 1 /\ n # a
  BY <1>3
<1>5. PICK f, g : f = StripOf(c, Nat) /\ g = [f EXCEPT ![m] = BLANK]
  OBVIOUS
<1>6. Good(d) /\ PaperOf(d, Nat) = [strip |-> g, pos |-> m, top |-> t]
  <2>1. d = Wrapped(Store(Back(c), BLANK))
    BY PutcCases
  <2>2. Nat \in SUBSET Nat
    OBVIOUS
  <2> HIDE DEF d
  <2>3. m = IF PosOf(c) = t * CONSOLE_WIDTH THEN PosOf(c) ELSE PosOf(c) - 1
    BY <1>2, <1>4
  <2> QED BY <1>1, <1>5, <2>1, <2>2, <2>3, BackspaceStep
<1> HIDE DEF d
<1>7. StripOf(d, Nat) = g /\ PosOf(d) = m /\ Len(d.above) \div CONSOLE_WIDTH = t
  BY <1>6 DEF PaperOf
<1>8. Len(d.above) = a
  <2>1. PICK v \in Nat : Lines(d, v)
    BY <1>6 DEF Good
  <2>2. v = t
    BY <1>7, <2>1, TopOf
  <2> QED BY <1>1, <1>2, <2>1, <2>2 DEF Lines
<1>9. ASSUME NEW i \in 1..(k - 1)
      PROVE  g[((m - (k - 1)) + i) - 1] = s[i]
  <2>1. PICK j \in Nat : j = ((m - (k - 1)) + i) - 1 /\ j = ((n - k) + i) - 1 /\ j # m
    <3>1. /\ ((m - (k - 1)) + i) - 1 = ((n - k) + i) - 1
          /\ ((n - k) + i) - 1 \in Nat /\ ((n - k) + i) - 1 # m
      BY <1>3, <1>4
    <3> QED BY <3>1
  <2>2. DOMAIN f = Nat /\ g = [f EXCEPT ![m] = BLANK]
    BY <1>5 DEF StripOf
  <2>3. g[j] = f[j]
    BY <2>1, <2>2
  <2>4. i \in 1..k
    OBVIOUS
  <2>5. f[j] = s[i]
    BY <1>2, <1>5, <2>1, <2>4 DEF Shown
  <2> QED BY <2>1, <2>3, <2>5
<1>10. a + (k - 1) <= m
  BY <1>3, <1>4
<1>11. Shown(d, s, k - 1)
  BY <1>7, <1>8, <1>9, <1>10 DEF Shown
<1> QED BY <1>6, <1>11 DEF d

(* Nothing is always shown.                                                *)
LEMMA ShownNothing ==
  ASSUME NEW c, Good(c), NEW s
  PROVE  Shown(c, s, 0)
<1>1. PICK t \in Nat : c \in Con /\ Lines(c, t)
  BY DEF Good, Lines
<1>2. PICK n \in Nat, a \in Nat, k \in Nat :
        n = PosOf(c) /\ a = Len(c.above) /\ k = c.y * CONSOLE_WIDTH + c.x
  <2>1. c.x \in Nat /\ c.y \in Nat /\ Len(c.above) \in Nat
    BY <1>1 DEF Con
  <2>2. Row(c.y) \in Nat
    BY <2>1, RowFacts
  <2>3. c.y * CONSOLE_WIDTH + c.x \in Nat
    BY <2>1, <2>2 DEF Row
  <2> QED BY <1>1, <2>1, <2>3, PosIs
<1>3. n = a + k
  BY <1>1, <1>2, PosIs
<1> QED BY <1>2, <1>3 DEF Shown

(* Only the first k characters matter.                                     *)
LEMMA ShownSame ==
  ASSUME NEW c, NEW s, NEW r, NEW k \in Nat, Shown(c, s, k), \A i \in 1..k : r[i] = s[i]
  PROVE  Shown(c, r, k)
BY DEF Shown

(* write of one character.                                                 *)
LEMMA WriteOne ==
  ASSUME NEW c, NEW char
  PROVE  write(c, 1, <<char>>) = console_putc(c, char)
<1>1. Len(<<char>>) = 1 /\ <<char>>[1] = char
  OBVIOUS
<1>2. PICK s : s = <<char>> /\ Len(s) = 1 /\ s[1] = char
  BY <1>1
<1>3. PICK g : /\ console_puts(c, s) = g[Len(s)] /\ g[0] = c
               /\ \A j \in 1..Len(s) : g[j] = console_putc(g[j - 1], s[j])
  BY <1>2, PutsIsAfter
<1>4. 1 \in 1..Len(s) /\ 1 - 1 = 0
  BY <1>2
<1>5. console_puts(c, s) = console_putc(c, char)
  BY <1>2, <1>3, <1>4
<1> QED BY <1>2, <1>5 DEF write, sys_write, tty_write

(* write of a text.                                                        *)
LEMMA WriteIsPuts ==
  ASSUME NEW c, NEW s
  PROVE  write(c, 1, s) = console_puts(c, s)
BY DEF write, sys_write, tty_write

(* Texts keep the console good.                                            *)
LEMMA WriteGood ==
  ASSUME NEW c, Good(c), NEW s \in Seq(Char)
  PROVE  Good(console_puts(c, s))
<1>1. Nat \in SUBSET Nat
  OBVIOUS
<1> QED BY <1>1, PutsTypes

(* The prompt is shown wherever it is written.                             *)
LEMMA PromptShown ==
  ASSUME NEW c, Good(c)
  PROVE  Good(write(c, 1, Prompt)) /\ Shown(write(c, 1, Prompt), Prompt, Len(Prompt))
<1>1. Prompt \in Seq(Range(Prompt)) /\ Range(Prompt) \subseteq Char
  <2>1. Prompt \in Seq(Range(Prompt))
    BY ShellAssumption
  <2> QED BY <2>1 DEF Char, ShellChar
<1>2. PICK n \in Nat : n = Len(Prompt) /\ \A j \in 1..n : Prompt[j] \in Range(Prompt)
  BY <1>1
<1>3. \A j \in 1..n : Prompt[j] \in Char /\ Prompt[j] \notin {NUL, NL, BS}
  BY <1>1, <1>2, ShellAssumption
<1>4. n <= CELLS - CONSOLE_WIDTH
  BY <1>2, ShellAssumption, CellsFacts, RowFacts
<1>5. PICK g : /\ console_puts(c, Prompt) = g[n] /\ g[0] = c
               /\ \A j \in 1..n : g[j] = console_putc(g[j - 1], Prompt[j])
  BY <1>2, PutsIsAfter
<1> DEFINE T == {k \in 0..n : ~(Good(g[k]) /\ Shown(g[k], Prompt, k))}
<1>6. T = {}
  <2>1. SUFFICES ASSUME T # {} PROVE FALSE
    OBVIOUS
  <2>2. T \in SUBSET Nat
    OBVIOUS
  <2>3. PICK k \in T : \A j \in T : k <= j
    BY <2>1, <2>2, Least
  <2>4. k # 0
    BY <1>5, ShownNothing
  <2>5. PICK j \in Nat : j = k - 1 /\ j + 1 = k /\ j \in 0..n /\ j \notin T /\ k \in 1..n
    BY <2>3, <2>4
  <2>6. Good(g[j]) /\ Shown(g[j], Prompt, j)
    BY <2>5
  <2>7. j + 1 <= CELLS - CONSOLE_WIDTH
    BY <1>4, <2>5, CellsFacts, RowFacts
  <2>8. PICK char \in Char : char = Prompt[j + 1] /\ char \notin {NUL, NL, BS}
    BY <1>3, <2>5
  <2>9. Good(console_putc(g[j], char)) /\ Shown(console_putc(g[j], char), Prompt, j + 1)
    BY <2>6, <2>7, <2>8, ShownMore
  <2>10. g[k] = console_putc(g[j], char)
    BY <1>5, <2>5, <2>8
  <2> QED BY <2>5, <2>9, <2>10
<1>7. Good(g[n]) /\ Shown(g[n], Prompt, n)
  BY <1>6
<1> QED BY <1>2, <1>5, <1>7, WriteIsPuts

(* What is in front of the cursor: the prompt, unless it was lost with a   *)
(* line that filled the array, and the line.                               *)
VisibleLine(f, l) == (IF f THEN <<>> ELSE Prompt) \o l

(* How much of it is not the line.                                         *)
Lead(f) == IF f THEN 0 ELSE Len(Prompt)

(* The console between two actions of the shell.                           *)
ScreenHeld ==
  /\ LineHeld
  /\ Good(con)
  /\ running = "shell" => Shown(con, VisibleLine(full, line), Lead(full) + Len(line))

(* Its characters, one by one.                                             *)
LEMMA VisibleIs ==
  ASSUME NEW f \in BOOLEAN, NEW l \in Seq(LineChar)
  PROVE  /\ Lead(f) \in Nat
         /\ Len(VisibleLine(f, l)) = Lead(f) + Len(l)
         /\ VisibleLine(f, l) = [i \in 1..(Lead(f) + Len(l)) |-> VisibleLine(f, l)[i]]
         /\ \A i \in 1..Lead(f) : VisibleLine(f, l)[i] = Prompt[i]
         /\ \A i \in 1..Len(l) : VisibleLine(f, l)[Lead(f) + i] = l[i]
<1>1. PICK S : Prompt \in Seq(S) /\ l \in Seq(S)
  <2>1. Prompt \in Seq(Range(Prompt))
    BY ShellAssumption
  <2>2. Prompt \in Seq(Range(Prompt) \cup LineChar) /\ l \in Seq(Range(Prompt) \cup LineChar)
    BY <2>1, SeqMonotonic
  <2> QED BY <2>2
<1>2. PICK p \in Seq(S) : (f => p = <<>>) /\ (~f => p = Prompt)
  <2>1. CASE f
    <3>1. <<>> \in Seq(S)
      OBVIOUS
    <3> QED BY <2>1, <3>1
  <2>2. CASE ~f
    BY <1>1, <2>2
  <2> QED BY <2>1, <2>2
<1>3. PICK n \in Nat, m \in Nat : n = Len(p) /\ m = Len(l)
  OBVIOUS
<1>4. Lead(f) = n /\ \A i \in 1..n : p[i] = Prompt[i]
  <2>1. CASE f
    <3>1. n = 0
      BY <1>2, <1>3, <2>1
    <3> QED BY <2>1, <3>1 DEF Lead
  <2>2. CASE ~f
    BY <1>2, <1>3, <2>2 DEF Lead
  <2> QED BY <2>1, <2>2
<1>5. PICK r \in Seq(S) : r = p \o l
  BY <1>1, ConcatProperties
<1>6. Len(r) = n + m /\ \A i \in 1..(n + m) : r[i] = IF i <= n THEN p[i] ELSE l[i - n]
  BY <1>1, <1>3, <1>5, ConcatProperties
<1>7. VisibleLine(f, l) = r
  BY <1>2, <1>5, Zenon DEF VisibleLine
<1>8. \A i \in 1..n : r[i] = p[i]
  BY <1>6
<1>9. ASSUME NEW i \in 1..m PROVE r[n + i] = l[i]
  <2>1. n + i \in 1..(n + m) /\ ~(n + i <= n) /\ (n + i) - n = i
    OBVIOUS
  <2> QED BY <1>6, <2>1
<1>10. r = [i \in 1..(n + m) |-> r[i]]
  BY <1>6
<1> QED BY <1>3, <1>4, <1>6, <1>7, <1>8, <1>9, <1>10

(* A line is a text, and so is what the shell and the kernel say.          *)
LEMMA ShellTexts ==
  /\ \A s \in {Prompt, NotFound, Pid, Message, Done} : s \in Seq(Char)
  /\ \A l \in Seq(LineChar) : l \in Seq(Char)
  /\ LineChar \subseteq Char /\ NL \in Char
<1>1. ASSUME NEW s \in {Prompt, NotFound, Pid, Message, Done} PROVE s \in Seq(Char)
  <2>1. s \in Seq(Range(s))
    BY ShellAssumption
  <2>2. Range(s) \subseteq ShellChar
    BY DEF ShellChar
  <2>3. Range(s) \subseteq Char
    BY <2>2 DEF Char
  <2> QED BY <2>1, <2>3, SeqMonotonic
<1>2. LineChar \subseteq Char /\ NL \in Char
  BY DEF LineChar, Char, ShellChar
<1>3. ASSUME NEW l \in Seq(LineChar) PROVE l \in Seq(Char)
  BY <1>2, SeqMonotonic
<1> QED BY <1>1, <1>2, <1>3

(* A new prompt on a good console.                                         *)
LEMMA NewPrompt ==
  ASSUME NEW c, Good(c), NEW f, f = FALSE, NEW l, l = <<>>
  PROVE  /\ Good(write(c, 1, Prompt))
         /\ Shown(write(c, 1, Prompt), VisibleLine(f, l), Lead(f) + Len(l))
<1>1. f \in BOOLEAN /\ l \in Seq(LineChar) /\ Len(l) = 0 /\ Lead(f) = Len(Prompt)
  <2>1. <<>> \in Seq(LineChar) /\ Len(<<>>) = 0
    OBVIOUS
  <2>2. ~f => Lead(f) = Len(Prompt)
    BY DEF Lead
  <2> QED BY <2>1, <2>2
<1>2. PICK n \in Nat : n = Len(Prompt) /\ n = Lead(f) /\ n + 0 = n
  <2>1. Lead(f) \in Nat
    BY <1>1, VisibleIs
  <2> QED BY <1>1, <2>1
<1>3. PICK v : v = VisibleLine(f, l)
  OBVIOUS
<1>4. \A i \in 1..n : v[i] = Prompt[i]
  BY <1>1, <1>2, <1>3, VisibleIs
<1>5. PICK d : d = write(c, 1, Prompt)
  OBVIOUS
<1>6. Good(d) /\ Shown(d, Prompt, n)
  BY <1>2, <1>5, PromptShown
<1>7. Shown(d, v, n)
  BY <1>4, <1>6, ShownSame
<1> QED BY <1>1, <1>2, <1>3, <1>5, <1>6, <1>7

(* The console after a step, on which the invariant is then put together.  *)
LEMMA ScreenStep ==
  ASSUME ScreenHeld, ShellNext
  PROVE  /\ Good(con')
         /\ running' = "shell" => Shown(con', VisibleLine(full', line'), Lead(full') + Len(line'))
<1> DEFINE Goal == /\ Good(con')
                   /\ running' = "shell" =>
                        Shown(con', VisibleLine(full', line'), Lead(full') + Len(line'))
<1> SUFFICES Goal
  OBVIOUS
<1>1. LineHeld /\ Good(con) /\ line \in Seq(LineChar) /\ full \in BOOLEAN
  BY DEF ScreenHeld, LineHeld
<1>2. running = "shell" =>
        Shown(con, VisibleLine(full, line), Lead(full) + Len(line)) /\ Len(line) = input_char_count
  BY DEF ScreenHeld, LineHeld
<1>3. PICK k \in Nat, a \in Nat, n \in Nat : a = Lead(full) /\ n = Len(line) /\ k = a + n
  <2>1. Lead(full) \in Nat
    BY <1>1, VisibleIs
  <2>2. Len(line) \in Nat
    BY <1>1
  <2>3. PICK a \in Nat, n \in Nat : a = Lead(full) /\ n = Len(line)
    BY <2>1, <2>2
  <2>4. a + n \in Nat
    OBVIOUS
  <2> QED BY <2>3, <2>4
<1> DEFINE v == VisibleLine(full, line)
<1>3a. \A i \in 1..a : v[i] = Prompt[i]
  BY <1>1, <1>3, VisibleIs
<1>3b. \A i \in 1..n : v[a + i] = line[i]
  BY <1>1, <1>3, VisibleIs
<1> HIDE DEF v
<1>4. ASSUME start PROVE Goal
  <2>1. running = "start" /\ con' = write(con, 1, Prompt) /\ line' = line /\ full' = full
    BY <1>4 DEF start, history
  <2>2. line' = <<>> /\ full' = FALSE
    BY <1>1, <2>1 DEF LineHeld
  <2> QED BY <1>1, <2>1, <2>2, NewPrompt
<1>5. ASSUME Backspace PROVE Goal
  <2>1. /\ running = "shell" /\ full' = full /\ line' = SubSeq(line, 1, Len(line) - 1)
    BY <1>5 DEF Backspace, read
  <2>2. Shown(con, v, k) /\ n = input_char_count
    BY <1>2, <1>3, <2>1 DEF v
  <2>3. CASE n = 0
    <3>1. con' = con
      BY <1>5, <2>2, <2>3 DEF Backspace
    <3>2. line = <<>> /\ line' = <<>>
      <4>1. line = <<>>
        BY <1>1, <1>3, <2>3, EmptySeq
      <4>2. line' = SubSeq(<<>>, 1, 0 - 1)
        BY <1>3, <2>1, <2>3, <4>1
      <4> QED BY <4>1, <4>2
    <3> QED BY <1>1, <1>2, <2>1, <3>1, <3>2
  <2>4. CASE n > 0
    <3>1. con' = console_putc(con, BS)
      BY <1>5, <2>2, <2>4, WriteOne DEF Backspace
    <3>2. k > 0
      BY <1>3, <2>4
    <3>3. Good(con') /\ Shown(con', v, k - 1)
      BY <1>1, <2>2, <3>1, <3>2, ShownLess
    <3>4. /\ line' \in Seq(LineChar) /\ Len(line') = n - 1
          /\ \A i \in 1..(n - 1) : line'[i] = line[i]
      BY <1>1, <1>3, <2>1, <2>4, DropLast
    <3>5. PICK l \in Seq(LineChar), f \in BOOLEAN : l = line' /\ f = full'
      BY <1>1, <2>1, <3>4
    <3> DEFINE u == VisibleLine(f, l)
    <3>5a. Lead(f) = a /\ Len(l) = n - 1
      BY <1>3, <2>1, <3>4, <3>5
    <3>5b. (\A i \in 1..a : u[i] = Prompt[i]) /\ \A i \in 1..(n - 1) : u[a + i] = l[i]
      BY <3>5a, VisibleIs
    <3> HIDE DEF u
    <3>6. ASSUME NEW i \in 1..(k - 1) PROVE u[i] = v[i]
      <4>1. CASE i <= a
        <5>1. i \in 1..a
          BY <4>1
        <5>2. u[i] = Prompt[i]
          BY <3>5b, <5>1
        <5>3. v[i] = Prompt[i]
          BY <1>3a, <5>1
        <5> QED BY <5>2, <5>3
      <4>2. CASE i > a
        <5>1. PICK j \in 1..(n - 1) : i = a + j /\ j \in 1..n
          <6>1. i - a \in 1..(n - 1) /\ i = a + (i - a) /\ i - a \in 1..n
            BY <1>3, <4>2
          <6> QED BY <6>1
        <5>2. u[a + j] = l[j]
          BY <3>5b, <5>1
        <5>3. v[a + j] = line[j]
          BY <1>3b, <5>1
        <5> QED BY <3>4, <3>5, <5>1, <5>2, <5>3
      <4> QED BY <4>1, <4>2
    <3>7. PICK m \in Nat : m = k - 1 /\ m = a + (n - 1)
      BY <1>3, <3>2
    <3>8. Shown(con', u, m)
      BY <3>3, <3>6, <3>7, ShownSame
    <3> QED BY <3>3, <3>5, <3>7, <3>8, <3>5a DEF u
  <2> QED BY <2>3, <2>4
<1>6. ASSUME Newline PROVE Goal
  <2>1. /\ running = "shell" /\ line' = <<>> /\ full' = FALSE
        /\ input' = [input EXCEPT ![input_char_count] = NUL]
    BY <1>6 DEF Newline, read
  <2>2. PICK e : e = write(con, 1, <<NL>>)
    OBVIOUS
  <2>3. Good(e)
    <3>1. e = console_putc(con, NL)
      BY <2>2, WriteOne
    <3>2. Nat \in SUBSET Nat
      OBVIOUS
    <3> QED BY <1>1, <3>1, <3>2, ShellTexts, PutcTypes
  <2>4. CString(input') = line
    BY <1>1, <2>1, StringIsLine
  <2>5. CASE con' = write(e, 1, Prompt)
    BY <2>1, <2>3, <2>5, NewPrompt
  <2>6. CASE con' = write(run_command(e, line), 1, Prompt)
    <3>1. PICK d : d = console_puts(e, line) /\ Good(d)
      BY <1>1, <2>3, ShellTexts, WriteGood
    <3>2. PICK r : r = console_puts(d, NotFound) /\ Good(r)
      BY <3>1, ShellTexts, WriteGood
    <3>3. run_command(e, line) = r
      BY <3>1, <3>2, WriteIsPuts DEF run_command
    <3> QED BY <2>1, <2>6, <3>2, <3>3, NewPrompt
  <2>7. CASE con' = console_puts(e, Pid) /\ running' # "shell"
    BY <2>3, <2>7, ShellTexts, WriteGood
  <2> QED BY <1>6, <2>2, <2>4, <2>5, <2>6, <2>7 DEF Newline
<1>7. ASSUME NEW c \in Key \ {BS, NL}, Ordinary(c) PROVE Goal
  <2>1. /\ running = "shell" /\ con' = write(con, 1, <<c>>)
        /\ line' = IF Len(line) + 1 = INPUT_MAX_LENGTH THEN <<>> ELSE Append(line, c)
        /\ full' = (full \/ (Len(line) + 1 = INPUT_MAX_LENGTH))
    BY <1>7 DEF Ordinary, read
  <2>2. con' = console_putc(con, c)
    BY <2>1, WriteOne
  <2>3. c \in LineChar /\ c \in Char /\ c \notin {NUL, NL, BS}
    BY <1>7, ShellTexts, ShellAssumption DEF LineChar
  <2>4. Good(con')
    <3>1. Nat \in SUBSET Nat
      OBVIOUS
    <3> QED BY <1>1, <2>2, <2>3, <3>1, PutcTypes
  <2>5. Shown(con, v, k) /\ n = input_char_count
    BY <1>2, <1>3, <2>1 DEF v
  <2>6. CASE n + 1 = INPUT_MAX_LENGTH
    <3>1. line' = <<>> /\ full' = TRUE
      BY <1>3, <2>1, <2>6
    <3>2. Lead(full') + Len(line') = 0
      BY <3>1 DEF Lead
    <3>3. Shown(con', VisibleLine(full', line'), 0)
      BY <2>4, ShownNothing
    <3> QED BY <2>4, <3>2, <3>3
  <2>7. CASE n + 1 # INPUT_MAX_LENGTH
    <3>1. /\ line' \in Seq(LineChar) /\ Len(line') = n + 1 /\ line'[n + 1] = c
          /\ \A i \in 1..n : line'[i] = line[i]
      <4>1. line' = Append(line, c)
        BY <1>3, <2>1, <2>7
      <4> QED BY <1>1, <1>3, <2>3, <4>1, AppendProperties
    <3>2. full' = full
      BY <1>1, <1>3, <2>1, <2>7
    <3>3. PICK l \in Seq(LineChar), f \in BOOLEAN : l = line' /\ f = full'
      BY <1>1, <3>1, <3>2
    <3> DEFINE u == VisibleLine(f, l)
    <3>3a. Lead(f) = a /\ Len(l) = n + 1
      BY <1>3, <3>1, <3>2, <3>3
    <3>3b. (\A i \in 1..a : u[i] = Prompt[i]) /\ \A i \in 1..(n + 1) : u[a + i] = l[i]
      BY <3>3a, VisibleIs
    <3> HIDE DEF u
    <3>4. ASSUME NEW i \in 1..k PROVE u[i] = v[i]
      <4>1. CASE i <= a
        <5>1. i \in 1..a
          BY <4>1
        <5>2. u[i] = Prompt[i]
          BY <3>3b, <5>1
        <5>3. v[i] = Prompt[i]
          BY <1>3a, <5>1
        <5> QED BY <5>2, <5>3
      <4>2. CASE i > a
        <5>1. PICK j \in 1..n : i = a + j /\ j \in 1..(n + 1)
          <6>1. i - a \in 1..n /\ i = a + (i - a) /\ i - a \in 1..(n + 1)
            BY <1>3, <4>2
          <6> QED BY <6>1
        <5>2. u[a + j] = l[j]
          BY <3>3b, <5>1
        <5>3. v[a + j] = line[j]
          BY <1>3b, <5>1
        <5> QED BY <3>1, <3>3, <5>1, <5>2, <5>3
      <4> QED BY <4>1, <4>2
    <3>5. u[k + 1] = c
      <4>1. n + 1 \in 1..(n + 1) /\ k + 1 = a + (n + 1)
        BY <1>3
      <4>2. u[a + (n + 1)] = l[n + 1]
        BY <3>3b, <4>1
      <4> QED BY <3>1, <3>3, <4>1, <4>2
    <3>6. Shown(con, u, k)
      BY <2>5, <3>4, ShownSame
    <3>7. k + 1 <= CELLS - CONSOLE_WIDTH
      <4>1. PICK p \in Nat, m \in Nat, b \in Int :
              p = Len(Prompt) /\ m = INPUT_MAX_LENGTH /\ b = CELLS - CONSOLE_WIDTH /\ p + m <= b
        <5>1. Prompt \in Seq(Range(Prompt)) /\ INPUT_MAX_LENGTH \in Nat
          BY ShellAssumption
        <5>2. CELLS \in Nat /\ CONSOLE_WIDTH \in Nat
          BY CellsFacts, RowFacts
        <5> QED BY <5>1, <5>2, ShellAssumption
      <4>2. n < m
        BY <1>1, <2>5, <4>1 DEF LineHeld
      <4>3. a <= p
        BY <1>1, <1>3, <4>1 DEF Lead
      <4> QED BY <1>3, <4>1, <4>2, <4>3
    <3>8. Shown(con', u, k + 1)
      BY <1>1, <2>2, <2>3, <3>5, <3>6, <3>7, ShownMore
    <3>9. k + 1 = a + (n + 1)
      BY <1>3
    <3> QED BY <2>4, <3>3, <3>8, <3>9, <3>3a DEF u
  <2> QED BY <2>6, <2>7
<1>8. ASSUME hello PROVE Goal
  <2>1. con' = console_puts(con, Message) /\ running' = "exit"
    BY <1>8, WriteIsPuts DEF hello
  <2> QED BY <1>1, <2>1, ShellTexts, WriteGood
<1>9. ASSUME sys_exit PROVE Goal
  <2>1. con' = console_puts(con, Done) /\ running' = "idle"
    BY <1>9 DEF sys_exit
  <2> QED BY <1>1, <2>1, ShellTexts, WriteGood
<1>10. ASSUME Idle PROVE Goal
  <2>1. con' = con /\ line' = line /\ full' = full /\ running' = running
    BY <1>10 DEF Idle, shellVars, history
  <2> QED BY <1>1, <1>2, <2>1
<1> QED BY <1>4, <1>5, <1>6, <1>7, <1>8, <1>9, <1>10 DEF ShellNext

(* The array, the cursor and the cells in front of it agree after every    *)
(* action of the shell.                                                    *)
THEOREM ScreenAlwaysHeld == ShellSpec => []ScreenHeld
<1>1. ShellInit => ScreenHeld
  <2> SUFFICES ASSUME ShellInit PROVE ScreenHeld
    OBVIOUS
  <2>1. Init /\ running = "start"
    BY DEF ShellInit
  <2>2. LineHeld /\ Good(con)
    BY <2>1, LineInit, InitGood
  <2> QED BY <2>1, <2>2 DEF ScreenHeld
<1>2. ScreenHeld /\ [ShellNext]_shellVars => ScreenHeld'
  <2>1. ASSUME ScreenHeld, ShellNext PROVE ScreenHeld'
    <3>1. LineHeld'
      BY <2>1, LineStep DEF ScreenHeld
    <3>2. /\ Good(con')
          /\ running' = "shell" => Shown(con', VisibleLine(full', line'), Lead(full') + Len(line'))
      BY <2>1, ScreenStep
    <3>3. Good(con)'
      BY <3>2 DEF Good, Lines, OnScreen, Con, Row
    <3>4. (running = "shell" => Shown(con, VisibleLine(full, line), Lead(full) + Len(line)))'
      BY <3>2 DEF Shown, PosOf, StripOf, VisibleLine, Lead
    <3> QED BY <3>1, <3>3, <3>4 DEF ScreenHeld
  <2>2. ASSUME ScreenHeld, UNCHANGED shellVars PROVE ScreenHeld'
    <3>1. /\ con' = con /\ line' = line /\ full' = full /\ running' = running
          /\ input' = input /\ input_char_count' = input_char_count
      BY <2>2 DEF shellVars, history
    <3>2. LineHeld'
      BY <2>2, <3>1 DEF ScreenHeld, LineHeld
    <3>3. Good(con)'
      BY <2>2, <3>1 DEF ScreenHeld, Good, Lines, OnScreen, Con, Row
    <3>4. (running = "shell" => Shown(con, VisibleLine(full, line), Lead(full) + Len(line)))'
      BY <2>2, <3>1 DEF ScreenHeld, Shown, PosOf, StripOf, VisibleLine, Lead
    <3> QED BY <3>2, <3>3, <3>4 DEF ScreenHeld
  <2> QED BY <2>1, <2>2
<1> QED BY <1>1, <1>2, PTL DEF ShellSpec

(* For every size of screen and array, prompt and messages: the cells in   *)
(* front of the cursor are the prompt and the line as it was edited,       *)
(* across line ends and scrolling, and a backspace never reaches the       *)
(* prompt or a cell that left the screen.                                  *)
THEOREM LineAlwaysShown == ShellSpec => []LineShown
<1>1. ScreenHeld => LineShown
  <2> SUFFICES ASSUME ScreenHeld, running = "shell"
               PROVE  LET shown == (IF full THEN <<>> ELSE Prompt) \o line
                      IN  Pos >= Len(shown) /\ Cells(Len(shown)) = shown
    BY DEF LineShown
  <2>1. full \in BOOLEAN /\ line \in Seq(LineChar) /\ Good(con)
    BY DEF ScreenHeld, LineHeld
  <2> DEFINE s == VisibleLine(full, line)
  <2>2. PICK k \in Nat : k = Lead(full) + Len(line)
    <3>1. Lead(full) \in Nat
      BY <2>1, VisibleIs
    <3>2. Len(line) \in Nat
      BY <2>1
    <3> QED BY <3>1, <3>2
  <2>2a. Len(s) = k /\ s = [i \in 1..k |-> s[i]]
    BY <2>1, <2>2, VisibleIs
  <2> HIDE DEF s
  <2>3. Shown(con, s, k)
    BY <2>2 DEF ScreenHeld, s
  <2>4. PICK t \in Nat : con \in Con /\ Lines(con, t) /\ OnScreen(con)
    BY <2>1 DEF Good, Lines
  <2>5. PICK n \in Nat, a \in Nat, m \in Nat : n = Pos /\ n = PosOf(con) /\ a = Len(con.above) /\ m = CELLS
    <3>1. Pos = PosOf(con) /\ PosOf(con) \in Nat
      BY <2>4, PosIs DEF Pos, PosOf
    <3>2. Len(con.above) \in Nat
      BY <2>4 DEF Con
    <3> QED BY <3>1, <3>2, CellsFacts
  <2>6. a + k <= n /\ n < a + m
    <3>1. PICK j \in Nat : j = con.y * CONSOLE_WIDTH + con.x /\ j < m
      BY <2>4, <2>5, CellOnScreen
    <3>2. n = a + j
      BY <2>4, <2>5, <3>1, PosIs
    <3> QED BY <2>3, <2>5, <3>1, <3>2 DEF Shown
  <2> DEFINE cell(i) == IF i <= a THEN con.above[i] ELSE con.vga[i - 1 - a]
  <2>7. ASSUME NEW i \in 1..k PROVE cell(n - k + i) = s[i]
    <3>1. PICK j \in Nat : j = ((n - k) + i) - 1 /\ j + 1 = n - k + i /\ j < a + m
      <4>1. ((n - k) + i) - 1 \in Nat /\ (((n - k) + i) - 1) + 1 = n - k + i /\ ((n - k) + i) - 1 < a + m
        BY <2>6
      <4> QED BY <4>1
    <3>2. StripOf(con, Nat)[j] = s[i]
      BY <2>3, <2>5, <3>1 DEF Shown
    <3>3. StripOf(con, Nat)[j] = IF j < a THEN con.above[j + 1] ELSE con.vga[j - a]
      BY <2>5, <3>1 DEF StripOf
    <3>4. (j + 1 <= a <=> j < a) /\ (j + 1) - 1 - a = j - a
      OBVIOUS
    <3>5. cell(j + 1) = IF j < a THEN con.above[j + 1] ELSE con.vga[j - a]
      BY <3>4
    <3> HIDE DEF cell
    <3> QED BY <3>1, <3>2, <3>3, <3>5
  <2>8. Cells(k) = [i \in 1..k |-> cell(n - k + i)]
    BY <2>5 DEF Cells
  <2> HIDE DEF cell
  <2>9. Cells(k) = s
    BY <2>7, <2>8, <2>2a
  <2>10. n >= k
    BY <2>6
  <2>11. s = (IF full THEN <<>> ELSE Prompt) \o line
    BY Zenon DEF s, VisibleLine
  <2>12. Pos >= Len(s) /\ Cells(Len(s)) = s
    BY <2>5, <2>9, <2>10, <2>2a
  <2> QED BY <2>11, <2>12, Zenon
<1> QED BY <1>1, ScreenAlwaysHeld, PTL
=============================================================================
