------------------------------ MODULE Console -------------------------------
(***************************************************************************)
(* The text console of kernel/console.c: the VGA buffer, the cursor and    *)
(* the cursor register of the CRTC.  A cell holds a character, its color   *)
(* is left out.  The console is not shared (Exclusive of Interrupts), so a *)
(* call is one step.                                                       *)
(***************************************************************************)
EXTENDS Naturals, SequencesExt

CONSTANTS
  CONSOLE_WIDTH, CONSOLE_HEIGHT,
  Screen,     \* what firmware and boot loader may leave on the screen
  Text,       \* the sequences of characters that are written
  Value,      \* the numbers that are printed
  BLANK, NL, BS, NUL, X,  \* ' ', '\n', '\b', 0, 'x'
  MAX_SCROLL  \* bound: lines that leave the screen

CELLS == CONSOLE_WIDTH * CONSOLE_HEIGHT

(* The cursor register has 16 bits.                                        *)
ASSUME ConsoleAssumption ==
  /\ CONSOLE_WIDTH \in Nat \ {0} /\ CONSOLE_HEIGHT \in Nat \ {0} /\ MAX_SCROLL \in Nat
  /\ CELLS <= 65536
  /\ \A s \in Screen : s \in [0..(CELLS - 1) -> Range(s)]
  /\ \A s \in Text : s \in Seq(Range(s))
  /\ Value \subseteq Nat
  /\ NL # BS /\ NL # NUL /\ BS # NUL

VARIABLE con  \* [vga, x, y, crtc, above]; above: history, the cells that left the screen

----------------------------------------------------------------------------
(* Operators on the record con.                                            *)

(* Two bytes, low and high, in registers 0xf and 0xe.                      *)
set_console_cursor_pos(c) ==
  LET n == c.y * CONSOLE_WIDTH + c.x
  IN  [c EXCEPT !.crtc = (n % 256) + 256 * ((n \div 256) % 256)]

(* Mutant of console_scroll: the last line is not cleared.                 *)
console_scroll_no_clear(c) ==
  IF c.y < CONSOLE_HEIGHT THEN c
  ELSE [c EXCEPT !.y = CONSOLE_HEIGHT - 1,
          !.above = @ \o [i \in 1..CONSOLE_WIDTH |-> c.vga[i - 1]],
          !.vga = [i \in 0..(CELLS - 1) |->
                     IF i < CELLS - CONSOLE_WIDTH THEN c.vga[i + CONSOLE_WIDTH] ELSE c.vga[i]]]

console_scroll(c) ==
  IF c.y < CONSOLE_HEIGHT THEN c
  ELSE [c EXCEPT !.y = CONSOLE_HEIGHT - 1,
          !.above = @ \o [i \in 1..CONSOLE_WIDTH |-> c.vga[i - 1]],
          !.vga = [i \in 0..(CELLS - 1) |->
                     IF i < CELLS - CONSOLE_WIDTH THEN c.vga[i + CONSOLE_WIDTH] ELSE BLANK]]

(* A store to VGA memory at the cursor.                                    *)
Store(c, char) == [c EXCEPT !.vga[c.y * CONSOLE_WIDTH + c.x] = char]

(* The cursor one back; in the first cell it stays.                        *)
Back(c) ==
  IF c.x > 0 THEN [c EXCEPT !.x = @ - 1]
  ELSE IF c.y > 0 THEN [c EXCEPT !.y = @ - 1, !.x = CONSOLE_WIDTH - 1]
  ELSE c

(* Mutant of Wrapped: the cursor register is set before the screen         *)
(* scrolls.                                                                *)
WrappedUnscrolled(c) ==
  console_scroll(set_console_cursor_pos(
    IF c.x >= CONSOLE_WIDTH THEN [c EXCEPT !.x = 0, !.y = @ + 1] ELSE c))

(* The end of console_putc.                                                *)
Wrapped(c) ==
  set_console_cursor_pos(console_scroll(
    IF c.x >= CONSOLE_WIDTH THEN [c EXCEPT !.x = 0, !.y = @ + 1] ELSE c))

console_putc(c, char) ==
  CASE char = NUL -> c
    [] char = NL -> Wrapped([c EXCEPT !.x = 0, !.y = @ + 1])
    [] char = BS -> Wrapped(Store(Back(c), BLANK))
    [] OTHER -> Wrapped([Store(c, char) EXCEPT !.x = @ + 1])

(* console_puts, and the loop of tty_write.                                *)
console_puts(c, s) ==
  LET after[k \in 0..Len(s)] == IF k = 0 THEN c ELSE console_putc(after[k - 1], s[k])
  IN  after[Len(s)]

console_reset(c) ==
  set_console_cursor_pos([c EXCEPT !.vga = [i \in 0..(CELLS - 1) |-> BLANK], !.x = 0, !.y = 0])

----------------------------------------------------------------------------
(* Numbers.  A digit is its value.                                         *)

hex8(v) == <<(v \div 16) % 16, v % 16>>
hex16(v) == hex8((v \div 256) % 256) \o hex8(v % 256)
hex32(v) == hex16((v \div 65536) % 65536) \o hex16(v % 65536)

(* console_put_dec32: the last digit first into an array, at least one.    *)
dec32(v) ==
  LET digits[n \in 0..v] == <<n % 10>> \o (IF n \div 10 = 0 THEN <<>> ELSE digits[n \div 10])
  IN  Reverse(digits[v])

Prefix(prefix) == IF prefix THEN <<0, X>> ELSE <<>>

----------------------------------------------------------------------------
(* main() does not clear the screen: what was there stays until it is      *)
(* written over.                                                           *)
Init ==
  \E s \in Screen : con = [vga |-> s, x |-> 0, y |-> 0, crtc |-> 0, above |-> <<>>]

Write(s) ==
  /\ con' = console_puts(con, s)
  /\ Len(con'.above) <= MAX_SCROLL * CONSOLE_WIDTH

console_put_hex8(v, prefix) == v < 256 /\ Write(Prefix(prefix) \o hex8(v))
console_put_hex16(v, prefix) == v < 65536 /\ Write(Prefix(prefix) \o hex16(v))
console_put_hex32(v, prefix) == Write(Prefix(prefix) \o hex32(v))
console_put_dec32(v) == Write(dec32(v))

Reset == con' = console_reset(con)

Next ==
  \/ \E s \in Text : Write(s)
  \/ \E v \in Value, prefix \in BOOLEAN :
       console_put_hex8(v, prefix) \/ console_put_hex16(v, prefix) \/ console_put_hex32(v, prefix)
  \/ \E v \in Value : console_put_dec32(v)
  \/ Reset

Spec == Init /\ [][Next]_con
----------------------------------------------------------------------------
(* Properties.                                                             *)

(* The cursor that the user sees is where the next character goes, after   *)
(* line ends, wraps and scrolling.                                         *)
CursorShown == con.crtc = con.y * CONSOLE_WIDTH + con.x

(* The screen is the window of a strip of paper: scrolling moves lines and *)
(* loses none, wraps and backspaces cross line ends as if there were none. *)
Strip ==
  [i \in 0..((CONSOLE_HEIGHT + MAX_SCROLL) * CONSOLE_WIDTH - 1) |->
     LET n == Len(con.above)
     IN  IF i < n THEN con.above[i + 1] ELSE IF i < n + CELLS THEN con.vga[i - n] ELSE BLANK]

Pos == Len(con.above) + con.y * CONSOLE_WIDTH + con.x

Numeral ==
  {Prefix(prefix) \o s : prefix \in BOOLEAN,
                        s \in UNION {{hex8(v), hex16(v), hex32(v), dec32(v)} : v \in Value}}

P == INSTANCE Paper WITH
  Text <- Text \cup Numeral,
  W <- CONSOLE_WIDTH, H <- CONSOLE_HEIGHT,
  STRIP <- (CONSOLE_HEIGHT + MAX_SCROLL) * CONSOLE_WIDTH,
  strip <- Strip, pos <- Pos, top <- Len(con.above) \div CONSOLE_WIDTH

ImplementsPaper == P!Spec
=============================================================================
