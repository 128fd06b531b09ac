----------------------------- MODULE TtyProofs -----------------------------
(***************************************************************************)
(* Proofs that the ring of tty.c keeps the order of the keys, and all of   *)
(* them until it overruns, for every size of the ring and every number of  *)
(* keys.                                                                   *)
(***************************************************************************)
EXTENDS Tty, Integers, TLAPS

(* The key press whose character is, or would be, in slot i.               *)
Stamp(i) ==
  pushed - (tty_queue_head - 1 - i)
    - (IF i < tty_queue_head THEN 0 ELSE TTY_QUEUE_SIZE)

(* How many characters the ring seems to hold.                             *)
Occupied ==
  tty_queue_head - tty_queue_tail
    + (IF tty_queue_head >= tty_queue_tail THEN 0 ELSE TTY_QUEUE_SIZE)

Before(i) == IF i = 0 THEN TTY_QUEUE_SIZE - 1 ELSE i - 1

(* Each slot holds the newest character that was pushed there.             *)
SlotInv ==
  \A i \in Slot : tty_queue[i] = IF Stamp(i) > 0 THEN Stamp(i) ELSE 0

(* What the reader may have seen of the ring at each of its steps.         *)
ReaderInv ==
  /\ pushed >= Occupied
  /\ (pc \in {"pop", "advance"} /\ Occupied = 0) => pushed >= TTY_QUEUE_SIZE
  /\ last <= tty_queue[Before(tty_queue_tail)]
  /\ pc = "pop" => tty_queue[tty_queue_tail] > last
  /\ pc = "advance" => c > last /\ c <= tty_queue[tty_queue_tail]

(* Before the first overrun the ring is a queue.                           *)
QueueInv ==
  ~overrun =>
    /\ last = taken
    /\ pushed = taken + Occupied
    /\ pc \in {"pop", "advance"} => Occupied > 0
    /\ pc = "advance" => c = taken + 1

Inv == TypeOK /\ SlotInv /\ ReaderInv /\ QueueInv

(* The next index, without the remainder.                                  *)
LEMMA IncValue ==
  ASSUME NEW i \in Slot
  PROVE  Inc(i) = IF i = TTY_QUEUE_SIZE - 1 THEN 0 ELSE i + 1
<1>1. CASE i = TTY_QUEUE_SIZE - 1
  BY <1>1, TtyAssumption DEF Inc, Slot
<1>2. CASE i # TTY_QUEUE_SIZE - 1
  BY <1>2, TtyAssumption DEF Inc, Slot
<1> QED
  BY <1>1, <1>2

(* init_tty leaves an empty ring.                                          *)
LEMMA InitInv == Init => Inv
<1> SUFFICES ASSUME Init PROVE Inv
  OBVIOUS
<1>1. TypeOK
  <2>1. 0 \in Slot /\ 0 \in 0..MAX_KEYS /\ 0 \in 0..MAX_COUNT /\ 0 \in Nat
    BY TtyAssumption DEF Slot
  <2>2. overrun \in BOOLEAN
    BY Zenon DEF Init
  <2> QED
    BY <2>1, <2>2 DEF Init, TypeOK
<1>2. SlotInv
  BY TtyAssumption DEF Init, SlotInv, Stamp, Slot
<1>3. ReaderInv /\ QueueInv
  BY TtyAssumption DEF Init, ReaderInv, QueueInv, Occupied, Before, Slot
<1> QED
  BY <1>1, <1>2, <1>3 DEF Inv

(* tty_queue_push_char, at any point of the reader's loop, a full ring     *)
(* included.                                                               *)
LEMMA KeyPressInv == (Inv /\ KeyPress) => Inv'
<1> SUFFICES ASSUME Inv, KeyPress PROVE Inv'
  OBVIOUS
<1> DEFINE N == TTY_QUEUE_SIZE
           h == tty_queue_head
           t == tty_queue_tail
<1>a. /\ N \in Nat \ {0} /\ h \in 0..(N - 1) /\ t \in 0..(N - 1) /\ pushed \in Nat
      /\ tty_queue \in [0..(N - 1) -> 0..MAX_KEYS] /\ last \in Nat /\ c \in Nat
      /\ taken \in Nat /\ MAX_KEYS \in Nat /\ pushed < MAX_KEYS
  BY TtyAssumption DEF Inv, TypeOK, Slot, KeyPress
<1>b. /\ tty_queue' = [tty_queue EXCEPT ![h] = pushed + 1]
      /\ tty_queue_head' = IF h = N - 1 THEN 0 ELSE h + 1
      /\ pushed' = pushed + 1
      /\ overrun' = (overrun \/ tty_queue_head' = t)
      /\ pc' = IF pc = "halted" THEN "check" ELSE pc
      /\ UNCHANGED <<tty_queue_tail, c, left, taken, last>>
  BY <1>a, IncValue DEF KeyPress, PushChar, Wake, Slot
<1>1. TypeOK'
  BY <1>a, <1>b DEF Inv, TypeOK, Slot
<1>2. SlotInv'
  <2> SUFFICES ASSUME NEW i \in 0..(N - 1)
               PROVE  tty_queue'[i] = IF Stamp(i)' > 0 THEN Stamp(i)' ELSE 0
    BY DEF SlotInv, Slot
  <2>1. tty_queue[i] = IF Stamp(i) > 0 THEN Stamp(i) ELSE 0
    BY DEF Inv, SlotInv, Slot
  <2>2. CASE i = h
    <3>1. Stamp(i)' = pushed + 1
      BY <2>2, <1>a, <1>b DEF Stamp
    <3> QED
      BY <3>1, <2>2, <1>a, <1>b
  <2>3. CASE i # h
    <3>1. Stamp(i)' = Stamp(i)
      BY <2>3, <1>a, <1>b DEF Stamp
    <3> QED
      BY <3>1, <2>1, <2>3, <1>a, <1>b
  <2> QED
    BY <2>2, <2>3
<1>3. \A i \in 0..(N - 1) : tty_queue'[i] >= tty_queue[i]
  <2>1. \A i \in 0..(N - 1) : Stamp(i) <= pushed /\ Stamp(i) \in Int
    BY <1>a DEF Stamp
  <2>2. \A i \in 0..(N - 1) : tty_queue[i] <= pushed
    BY <2>1, <1>a DEF Inv, SlotInv, Slot
  <2> QED
    BY <2>2, <1>a, <1>b
<1>4. /\ Occupied \in 0..(N - 1)
      /\ Occupied' = IF Occupied = N - 1 THEN 0 ELSE Occupied + 1
      /\ Occupied' = 0 <=> tty_queue_head' = t
  BY <1>a, <1>b DEF Occupied
<1>5. ReaderInv'
  <2>1. pushed' >= Occupied'
    BY <1>4, <1>a, <1>b DEF Inv, ReaderInv
  <2>2. (pc' \in {"pop", "advance"} /\ Occupied' = 0) => pushed' >= N
    BY <1>4, <1>a, <1>b DEF Inv, ReaderInv
  <2>3. Before(t) \in 0..(N - 1) /\ Before(tty_queue_tail)' = Before(t)
    BY <1>a, <1>b DEF Before
  <2>4. last' <= tty_queue'[Before(t)]
    BY <2>3, <1>3, <1>a, <1>b DEF Inv, ReaderInv, TypeOK, Slot
  <2>5. pc' = "pop" => tty_queue'[t] > last'
    BY <1>3, <1>a, <1>b DEF Inv, ReaderInv, TypeOK, Slot
  <2>6. pc' = "advance" => c' > last' /\ c' <= tty_queue'[t]
    BY <1>3, <1>a, <1>b DEF Inv, ReaderInv, TypeOK, Slot
  <2> QED
    BY <2>1, <2>2, <2>3, <2>4, <2>5, <2>6, <1>b DEF ReaderInv
<1>6. QueueInv'
  <2> SUFFICES ASSUME ~overrun'
               PROVE  /\ last' = taken'
                      /\ pushed' = taken' + Occupied'
                      /\ pc' \in {"pop", "advance"} => Occupied' > 0
                      /\ pc' = "advance" => c' = taken' + 1
    BY DEF QueueInv
  <2>1. ~overrun /\ tty_queue_head' # t
    BY <1>b, Zenon
  <2>2. /\ last = taken /\ pushed = taken + Occupied
        /\ pc = "advance" => c = taken + 1
    BY <2>1 DEF Inv, QueueInv
  <2>3. Occupied' = Occupied + 1
    BY <2>1, <1>4
  <2> QED
    BY <2>2, <2>3, <1>4, <1>a, <1>b
<1> QED
  BY <1>1, <1>2, <1>5, <1>6 DEF Inv

(* Steps that leave the ring and the history alone.                        *)
LEMMA QuietInv ==
  (Inv /\ (OtherIrq \/ Halt \/ (\E n \in 1..MAX_COUNT : SysRead(n)) \/ UNCHANGED vars)) => Inv'
<1> SUFFICES ASSUME Inv, OtherIrq \/ Halt \/ (\E n \in 1..MAX_COUNT : SysRead(n))
                         \/ UNCHANGED vars
             PROVE  Inv'
  OBVIOUS
<1>1. /\ UNCHANGED <<tty_queue, tty_queue_head, tty_queue_tail, c, pushed, taken, last, overrun>>
      /\ pc' = pc \/ pc' \in {"check", "halted"}
  BY DEF OtherIrq, Halt, SysRead, Wake, ring, vars
<1>2. TypeOK'
  <2>1. /\ left' \in 0..MAX_COUNT /\ (pc' # "user" => left' > 0)
        /\ pc' \in {"user", "check", "hlt", "halted", "pop", "advance"}
    BY TtyAssumption DEF Inv, TypeOK, OtherIrq, Halt, SysRead, Wake, vars
  <2> QED
    BY <2>1, <1>1 DEF Inv, TypeOK
<1>3. SlotInv'
  BY <1>1 DEF Inv, SlotInv, Stamp
<1>4. ReaderInv' /\ QueueInv'
  BY <1>1 DEF Inv, ReaderInv, QueueInv, Occupied, Before
<1> QED
  BY <1>2, <1>3, <1>4 DEF Inv

(* The reader finds the ring not empty: the slot at the tail is newer than *)
(* the one before it, and so than everything returned so far.              *)
LEMMA CheckInv == (Inv /\ Check) => Inv'
<1> SUFFICES ASSUME Inv, Check PROVE Inv'
  OBVIOUS
<1> DEFINE N == TTY_QUEUE_SIZE
           h == tty_queue_head
           t == tty_queue_tail
<1>a. /\ N \in Nat \ {0} /\ h \in 0..(N - 1) /\ t \in 0..(N - 1) /\ pushed \in Nat
      /\ last \in Nat
  BY TtyAssumption DEF Inv, TypeOK, Slot
<1>b. /\ UNCHANGED <<tty_queue, tty_queue_head, tty_queue_tail, c, left, pushed, taken, last,
                     overrun>>
      /\ pc = "check" /\ pc' = IF h = t THEN "hlt" ELSE "pop"
  BY DEF Check, ring, queue_empty
<1>1. TypeOK'
  BY <1>b DEF Inv, TypeOK
<1>2. SlotInv'
  BY <1>b DEF Inv, SlotInv, Stamp
<1>3. h # t => tty_queue[t] > last
  <2> SUFFICES ASSUME h # t PROVE tty_queue[t] > last
    OBVIOUS
  <2>1. Before(t) \in 0..(N - 1) /\ Stamp(t) = Stamp(Before(t)) + 1 /\ Stamp(Before(t)) \in Int
    BY <1>a DEF Before, Stamp
  <2>2. Stamp(t) = pushed - Occupied + 1 /\ Occupied \in Int
    BY <1>a DEF Stamp, Occupied
  <2>3. pushed >= Occupied /\ last <= tty_queue[Before(t)]
    BY DEF Inv, ReaderInv
  <2>4. /\ tty_queue[t] = IF Stamp(t) > 0 THEN Stamp(t) ELSE 0
        /\ tty_queue[Before(t)] = IF Stamp(Before(t)) > 0 THEN Stamp(Before(t)) ELSE 0
    BY <2>1, <1>a DEF Inv, SlotInv, Slot
  <2> QED
    BY <2>1, <2>2, <2>3, <2>4, <1>a
<1>4. h # t => Occupied > 0
  BY <1>a DEF Occupied
<1>5. Occupied' = Occupied /\ Before(t)' = Before(t)
  BY <1>b DEF Occupied, Before
<1>6. ReaderInv'
  BY <1>3, <1>4, <1>5, <1>b DEF Inv, ReaderInv
<1>7. QueueInv'
  BY <1>4, <1>5, <1>b DEF Inv, QueueInv
<1> QED
  BY <1>1, <1>2, <1>6, <1>7 DEF Inv

(* The read of the slot at the tail.                                       *)
LEMMA PopReadInv == (Inv /\ PopRead) => Inv'
<1> SUFFICES ASSUME Inv, PopRead PROVE Inv'
  OBVIOUS
<1> DEFINE N == TTY_QUEUE_SIZE
           h == tty_queue_head
           t == tty_queue_tail
<1>a. /\ N \in Nat \ {0} /\ h \in 0..(N - 1) /\ t \in 0..(N - 1) /\ pushed \in Nat
      /\ last \in Nat /\ taken \in Nat /\ tty_queue[t] \in 0..MAX_KEYS /\ MAX_KEYS \in Nat
  BY TtyAssumption DEF Inv, TypeOK, Slot
<1>b. /\ UNCHANGED <<tty_queue, tty_queue_head, tty_queue_tail, left, pushed, taken, last,
                     overrun>>
      /\ pc = "pop" /\ pc' = "advance" /\ c' = tty_queue[t]
  BY DEF PopRead, ring
<1>1. TypeOK'
  BY <1>a, <1>b DEF Inv, TypeOK
<1>2. SlotInv'
  BY <1>b DEF Inv, SlotInv, Stamp
<1>3. Occupied' = Occupied /\ Before(t)' = Before(t)
  BY <1>b DEF Occupied, Before
<1>4. ReaderInv'
  BY <1>3, <1>a, <1>b DEF Inv, ReaderInv
<1>5. QueueInv'
  <2>1. Occupied > 0 => Stamp(t) = pushed - Occupied + 1
    BY <1>a DEF Stamp, Occupied
  <2>2. tty_queue[t] = IF Stamp(t) > 0 THEN Stamp(t) ELSE 0
    BY <1>a DEF Inv, SlotInv, Slot
  <2>3. Occupied \in Int
    BY <1>a DEF Occupied
  <2>4. ~overrun => tty_queue[t] = taken + 1
    BY <2>1, <2>2, <2>3, <1>a, <1>b DEF Inv, QueueInv
  <2> QED
    BY <2>4, <1>3, <1>b DEF Inv, QueueInv
<1> QED
  BY <1>1, <1>2, <1>4, <1>5 DEF Inv

(* The move of the tail, with keys that came since the read of the slot.   *)
LEMMA PopAdvanceInv == (Inv /\ PopAdvance) => Inv'
<1> SUFFICES ASSUME Inv, PopAdvance PROVE Inv'
  OBVIOUS
<1> DEFINE N == TTY_QUEUE_SIZE
           h == tty_queue_head
           t == tty_queue_tail
<1>a. /\ N \in Nat \ {0} /\ h \in 0..(N - 1) /\ t \in 0..(N - 1) /\ pushed \in Nat
      /\ last \in Nat /\ taken \in Nat /\ c \in 0..MAX_KEYS /\ left \in 0..MAX_COUNT
      /\ left > 0 /\ MAX_KEYS \in Nat /\ MAX_COUNT \in Nat /\ pc = "advance"
  BY TtyAssumption DEF Inv, TypeOK, Slot, PopAdvance
<1>b. /\ UNCHANGED <<tty_queue, tty_queue_head, c, pushed, overrun>>
      /\ tty_queue_tail' = IF t = N - 1 THEN 0 ELSE t + 1
      /\ taken' = taken + 1 /\ last' = c /\ left' = left - 1
      /\ pc' = IF left' = 0 THEN "user" ELSE "check"
  BY <1>a, IncValue DEF PopAdvance, Slot
<1>1. TypeOK'
  BY <1>a, <1>b DEF Inv, TypeOK, Slot
<1>2. SlotInv'
  BY <1>b DEF Inv, SlotInv, Stamp
<1>3. Occupied' = IF Occupied = 0 THEN N - 1 ELSE Occupied - 1
  BY <1>a, <1>b DEF Occupied
<1>4. Before(tty_queue_tail)' = t
  BY <1>a, <1>b DEF Before
<1>5. Occupied \in 0..(N - 1)
  BY <1>a DEF Occupied
<1>6. ReaderInv'
  BY <1>3, <1>4, <1>5, <1>a, <1>b DEF Inv, ReaderInv
<1>7. QueueInv'
  BY <1>3, <1>5, <1>a, <1>b DEF Inv, QueueInv
<1> QED
  BY <1>1, <1>2, <1>6, <1>7 DEF Inv

----------------------------------------------------------------------------
(* The invariant is inductive.                                             *)
THEOREM Inductive == Spec => []Inv
<1>1. Inv /\ [Next]_vars => Inv'
  BY KeyPressInv, QuietInv, CheckInv, PopReadInv, PopAdvanceInv DEF Next
<1> QED
  BY <1>1, InitInv, PTL DEF Spec

(* The indices stay in the ring and the reader at its steps.               *)
THEOREM TypeCorrect == Spec => []TypeOK
<1>1. Inv => TypeOK
  BY DEF Inv
<1> QED
  BY <1>1, Inductive, PTL

(* tty_read returns nothing out of order, twice, or from an unwritten slot *)
(* for every size of the ring, overruns included.                          *)
THEOREM OrderKept == Spec => InOrder
<1>1. Inv /\ [Next]_vars => [taken' # taken => last' > last]_vars
  <2> SUFFICES ASSUME Inv, Next, taken' # taken PROVE last' > last
    OBVIOUS
  <2>1. PopAdvance
    BY DEF Next, KeyPress, OtherIrq, SysRead, Check, Halt, PopRead
  <2> QED
    BY <2>1 DEF PopAdvance, Inv, ReaderInv
<1> QED
  BY <1>1, Inductive, PTL DEF Spec, InOrder

(* Until the ring is full for the first time tty_read loses nothing.       *)
THEOREM NothingLost == Spec => []NoLoss
<1>1. Inv => NoLoss
  BY DEF Inv, QueueInv, NoLoss
<1> QED
  BY <1>1, Inductive, PTL

----------------------------------------------------------------------------
(* What an overrun costs.                                                  *)

(* a and b differ by whole turns of the ring, b being ahead.               *)
Turns(a, b) == \E k \in Nat : b = a + k * TTY_QUEUE_SIZE

(* The head counts the characters pushed and the tail those taken, modulo  *)
(* the size of the ring; so does what the reader has in its hand.          *)
TurnInv ==
  /\ Turns(tty_queue_head, pushed)
  /\ Turns(tty_queue_tail, taken)
  /\ Turns(taken, last)
  /\ pc = "advance" => Turns(taken + 1, c)

(* An index that wraps is one turn behind.                                 *)
LEMMA TurnsWrap ==
  ASSUME NEW i \in Slot, NEW b \in Nat, Turns(i, b)
  PROVE  Turns(Inc(i), b + 1)
<1> DEFINE N == TTY_QUEUE_SIZE
<1>1. PICK k \in Nat : b = i + k * N
  BY DEF Turns
<1>2. i \in Nat /\ N \in Nat /\ k * N \in Nat
  BY TtyAssumption DEF Slot
<1>3. CASE i = N - 1
  <2>1. Inc(i) = 0
    BY <1>3, IncValue
  <2>2. (k + 1) * N = k * N + N
    BY <1>2
  <2>3. b + 1 = 0 + (k + 1) * N
    BY <1>1, <1>2, <1>3, <2>2
  <2> QED BY <2>1, <2>3 DEF Turns
<1>4. CASE i # N - 1
  <2>1. Inc(i) = i + 1
    BY <1>4, IncValue
  <2>2. b + 1 = (i + 1) + k * N
    BY <1>1, <1>2
  <2> QED BY <2>1, <2>2 DEF Turns
<1> QED BY <1>3, <1>4

(* Two numbers that are whole turns ahead of the same index: the larger    *)
(* one is whole turns ahead of the smaller one.                            *)
LEMMA TurnsBetween ==
  ASSUME NEW i \in Nat, NEW a \in Nat, NEW b \in Nat, a <= b,
         NEW j \in Int, NEW k \in Int,
         a = i + j * TTY_QUEUE_SIZE, b = i + k * TTY_QUEUE_SIZE
  PROVE  Turns(a, b)
<1> DEFINE N == TTY_QUEUE_SIZE
<1>1. N \in Nat /\ N > 0 /\ j * N \in Int /\ k * N \in Int
  BY TtyAssumption
<1>2. b = a + (k - j) * N
  <2>1. (k - j) * N = k * N - j * N
    BY <1>1
  <2> QED BY <1>1, <2>1
<1>3. k - j \in Nat
  <2> SUFFICES ASSUME k - j < 0 PROVE FALSE
    OBVIOUS
  <2>1. PICK d \in Nat : j = k + 1 + d
    <3>1. j - k - 1 \in Nat /\ j = k + 1 + (j - k - 1)
      OBVIOUS
    <3> QED BY <3>1
  <2>2. j * N = k * N + N + d * N /\ d * N \in Nat
    <3>1. (k + 1 + d) * N = k * N + N + d * N
      BY <1>1
    <3>2. d * N \in Nat
      BY <1>1
    <3> QED BY <2>1, <3>1, <3>2
  <2> QED BY <1>1, <2>2
<1> QED BY <1>2, <1>3 DEF Turns

(* The slot that the reader finds written holds a character as many whole  *)
(* turns ahead as the interrupt handler has been round.                    *)
LEMMA SlotTurns ==
  ASSUME Inv, TurnInv, pc = "pop"
  PROVE  Turns(taken + 1, tty_queue[tty_queue_tail])
<1> DEFINE N == TTY_QUEUE_SIZE
           h == tty_queue_head
           t == tty_queue_tail
           v == tty_queue[t]
<1>1. /\ N \in Nat /\ h \in 0..(N - 1) /\ t \in 0..(N - 1) /\ pushed \in Nat
      /\ last \in Nat /\ taken \in Nat /\ v \in Nat /\ t \in Nat /\ h \in Nat
  BY TtyAssumption DEF Inv, TypeOK, Slot
<1>2. v > last /\ last >= taken
  <2>1. PICK k \in Nat : last = taken + k * N
    BY DEF TurnInv, Turns
  <2>2. k * N \in Nat
    BY <1>1
  <2> QED BY <1>1, <2>1, <2>2 DEF Inv, ReaderInv
<1>3. v = Stamp(t)
  <2>1. v = IF Stamp(t) > 0 THEN Stamp(t) ELSE 0
    BY <1>1 DEF Inv, SlotInv, Slot
  <2> QED BY <1>1, <1>2, <2>1
<1>4. PICK k \in Nat : pushed = h + k * N
  BY DEF TurnInv, Turns
<1>5. PICK j \in Nat : taken = t + j * N
  BY DEF TurnInv, Turns
<1>6. \E m \in Int : v = (t + 1) + m * N
  <2>1. k * N \in Nat /\ (k - 1) * N = k * N - N
    BY <1>1
  <2>2. CASE t < h
    <3>1. v = (t + 1) + k * N
      BY <1>1, <1>3, <1>4, <2>1, <2>2 DEF Stamp
    <3> QED BY <3>1
  <2>3. CASE ~(t < h)
    <3>1. v = (t + 1) + (k - 1) * N /\ k - 1 \in Int
      BY <1>1, <1>3, <1>4, <2>1, <2>3 DEF Stamp
    <3> QED BY <3>1
  <2> QED BY <2>2, <2>3
<1>7. PICK m \in Int : v = (t + 1) + m * N
  BY <1>6
<1>8. taken + 1 = (t + 1) + j * N /\ taken + 1 <= v
  <2>1. j * N \in Nat
    BY <1>1
  <2> QED BY <1>1, <1>2, <1>5, <2>1
<1> HIDE DEF v
<1>9. t + 1 \in Nat /\ taken + 1 \in Nat /\ j \in Int
  BY <1>1
<1>10. Turns(taken + 1, v)
  BY <1>1, <1>7, <1>8, <1>9, TurnsBetween
<1> QED BY <1>10 DEF v

(* Every step of handler and reader keeps the counts in turn.              *)
LEMMA TurnStep ==
  ASSUME Inv, TurnInv, [Next]_vars
  PROVE  TurnInv'
<1>1. /\ tty_queue_head \in Slot /\ tty_queue_tail \in Slot /\ pushed \in Nat /\ taken \in Nat
      /\ last \in Nat /\ c \in Nat /\ tty_queue_head \in Nat /\ tty_queue_tail \in Nat
  BY TtyAssumption DEF Inv, TypeOK, Slot
<1>2. CASE KeyPress
  <2>1. Turns(Inc(tty_queue_head), pushed + 1)
    BY <1>1, TurnsWrap DEF TurnInv
  <2>2. /\ tty_queue_head' = Inc(tty_queue_head) /\ pushed' = pushed + 1
        /\ UNCHANGED <<tty_queue_tail, c, taken, last>>
        /\ pc' = "advance" => pc = "advance"
    BY <1>2 DEF KeyPress, PushChar, Wake
  <2> QED BY <2>1, <2>2 DEF TurnInv, Turns
<1>3. CASE PopRead
  <2>1. Turns(taken + 1, tty_queue[tty_queue_tail])
    BY <1>3, SlotTurns DEF PopRead
  <2> QED BY <1>3, <2>1 DEF TurnInv, Turns, PopRead, ring
<1>4. CASE PopAdvance
  <2>1. Turns(Inc(tty_queue_tail), taken + 1)
    BY <1>1, TurnsWrap DEF TurnInv
  <2>2. /\ tty_queue_tail' = Inc(tty_queue_tail) /\ taken' = taken + 1 /\ last' = c
        /\ UNCHANGED <<tty_queue_head, pushed>> /\ pc = "advance" /\ pc' # "advance"
    BY <1>4 DEF PopAdvance
  <2>3. Turns(taken + 1, c)
    BY <2>2 DEF TurnInv
  <2> QED BY <2>1, <2>2, <2>3 DEF TurnInv, Turns
<1>5. CASE OtherIrq \/ Halt \/ Check \/ (\E n \in 1..MAX_COUNT : SysRead(n)) \/ UNCHANGED vars
  <2>1. /\ UNCHANGED <<tty_queue_head, tty_queue_tail, c, pushed, taken, last>>
        /\ pc' = "advance" => pc = "advance"
    BY <1>5 DEF OtherIrq, Halt, Check, SysRead, Wake, ring, vars
  <2> QED BY <2>1 DEF TurnInv, Turns
<1> QED BY <1>2, <1>3, <1>4, <1>5 DEF Next

(* However often the ring overruns, and wherever the reader then is,       *)
(* tty_read skips whole turns of the ring and nothing else.                *)
THEOREM LossCounted == Spec => []LossInWholeTurns
<1>1. Init => TurnInv
  <2> SUFFICES ASSUME Init PROVE TurnInv
    OBVIOUS
  <2>1. 0 = 0 + 0 * TTY_QUEUE_SIZE
    BY TtyAssumption
  <2> QED BY <2>1 DEF Init, TurnInv, Turns
<1>2. Inv /\ TurnInv => LossInWholeTurns
  <2> SUFFICES ASSUME Inv, TurnInv PROVE LossInWholeTurns
    OBVIOUS
  <2>1. PICK k \in Nat : last = taken + k * TTY_QUEUE_SIZE
    BY DEF TurnInv, Turns
  <2>2. taken \in Nat /\ last \in Nat /\ TTY_QUEUE_SIZE \in Nat \ {0}
    BY TtyAssumption DEF Inv, TypeOK
  <2>3. k * TTY_QUEUE_SIZE \in Nat /\ (k * TTY_QUEUE_SIZE) % TTY_QUEUE_SIZE = 0
    BY <2>2
  <2>4. last - taken = k * TTY_QUEUE_SIZE
    BY <2>1, <2>2, <2>3
  <2> QED BY <2>2, <2>3, <2>4 DEF LossInWholeTurns
<1>3. Inv /\ TurnInv /\ [Next]_vars => TurnInv'
  BY TurnStep
<1> QED BY <1>1, <1>2, <1>3, Inductive, PTL DEF Spec
=============================================================================
