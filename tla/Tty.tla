-------------------------------- MODULE Tty --------------------------------
(***************************************************************************)
(* The terminal input path: the keyboard interrupt (kernel/keyboard.c)     *)
(* pushes characters into the ring of kernel/tty.c, and sys_read takes     *)
(* them out in tty_read.  The system call gate is a trap gate, so the      *)
(* reader runs with interrupts on: the interrupt handlers, which run with  *)
(* interrupts off, may come between any two of its accesses to the ring.   *)
(*                                                                         *)
(* A character is the number of its key press: the first key pressed puts  *)
(* 1 into the ring, the second 2; 0 is what init_tty finds in the ring.    *)
(* One task reads: proc1 is the only task that ever enters user mode.      *)
(***************************************************************************)
EXTENDS Naturals

CONSTANTS
  TTY_QUEUE_SIZE,  \* slots of the ring
  MAX_COUNT,       \* bound: the longest read a program asks for
  MAX_KEYS         \* bound: the keys pressed in a behaviour

ASSUME TtyAssumption ==
  /\ TTY_QUEUE_SIZE \in Nat \ {0}
  /\ MAX_COUNT \in Nat
  /\ MAX_KEYS \in Nat

VARIABLES
  tty_queue, tty_queue_head, tty_queue_tail,
  pc,       \* where the reader is in tty_read
  c,        \* the local c of tty_queue_pop_char
  left,     \* count - read: characters the call still has to take
  pushed,   \* history: characters that entered the ring
  taken,    \* history: characters that tty_read has returned
  last,     \* history: the last of them
  overrun   \* history: the ring was full and looked empty

ring == <<tty_queue, tty_queue_head, tty_queue_tail>>
vars == <<ring, pc, c, left, pushed, taken, last, overrun>>

Slot == 0..(TTY_QUEUE_SIZE - 1)

(* init_tty; the ring is static data.                                      *)
Init ==
  /\ tty_queue = [i \in Slot |-> 0]
  /\ tty_queue_head = 0 /\ tty_queue_tail = 0
  /\ pc = "user" /\ c = 0 /\ left = 0
  /\ pushed = 0 /\ taken = 0 /\ last = 0 /\ overrun = FALSE

Inc(i) == (i + 1) % TTY_QUEUE_SIZE

queue_empty == tty_queue_head = tty_queue_tail

----------------------------------------------------------------------------
(* Interrupts.  Any of them ends a hlt.                                    *)

(* Mutant of Wake: a reader that is halted stays halted.                   *)
WakeNobody == pc' = pc

Wake == pc' = IF pc = "halted" THEN "check" ELSE pc

(* Mutant of PushChar: the index moves first, then the slot is written.    *)
PushAfterInc ==
  /\ tty_queue' = [tty_queue EXCEPT ![Inc(tty_queue_head)] = pushed + 1]
  /\ tty_queue_head' = Inc(tty_queue_head)
  /\ pushed' = pushed + 1
  /\ overrun' = (overrun \/ tty_queue_head' = tty_queue_tail)

(* tty_queue_push_char: nothing keeps the head from catching up.           *)
PushChar ==
  /\ tty_queue' = [tty_queue EXCEPT ![tty_queue_head] = pushed + 1]
  /\ tty_queue_head' = Inc(tty_queue_head)
  /\ pushed' = pushed + 1
  /\ overrun' = (overrun \/ tty_queue_head' = tty_queue_tail)

(* keyboard_irq_handler on a key that scancode_map gives a character.      *)
KeyPress ==
  /\ pushed < MAX_KEYS
  /\ PushChar
  /\ Wake
  /\ UNCHANGED <<tty_queue_tail, c, left, taken, last>>

(* The timer, or the keyboard on a released key or one without character.  *)
OtherIrq ==
  /\ Wake
  /\ UNCHANGED <<ring, c, left, pushed, taken, last, overrun>>

----------------------------------------------------------------------------
(* The reader.                                                             *)

(* sys_read(0, buf, n); a call for nothing returns at once.                *)
SysRead(n) ==
  /\ pc = "user"
  /\ n > 0
  /\ left' = n
  /\ pc' = "check"
  /\ UNCHANGED <<ring, c, pushed, taken, last, overrun>>

(* while (queue_empty())                                                   *)
Check ==
  /\ pc = "check"
  /\ pc' = IF queue_empty THEN "hlt" ELSE "pop"
  /\ UNCHANGED <<ring, c, left, pushed, taken, last, overrun>>

(* hlt: an interrupt that came since the check is over and wakes nobody.   *)
Halt ==
  /\ pc = "hlt"
  /\ pc' = "halted"
  /\ UNCHANGED <<ring, c, left, pushed, taken, last, overrun>>

(* Mutant of PopRead: the slot behind the tail is read.                    *)
PopReadNext ==
  /\ pc = "pop"
  /\ c' = tty_queue[Inc(tty_queue_tail)]
  /\ pc' = "advance"
  /\ UNCHANGED <<ring, left, pushed, taken, last, overrun>>

(* c = tty_queue[tty_queue_tail]                                           *)
PopRead ==
  /\ pc = "pop"
  /\ c' = tty_queue[tty_queue_tail]
  /\ pc' = "advance"
  /\ UNCHANGED <<ring, left, pushed, taken, last, overrun>>

(* Mutant of PopAdvance: the tail jumps to the head.                       *)
PopToHead ==
  /\ pc = "advance"
  /\ tty_queue_tail' = tty_queue_head
  /\ taken' = taken + 1
  /\ last' = c
  /\ left' = left - 1
  /\ pc' = IF left' = 0 THEN "user" ELSE "check"
  /\ UNCHANGED <<tty_queue, tty_queue_head, c, pushed, overrun>>

(* The tail moves on, buf[read] = c, read++; return when read = count.     *)
PopAdvance ==
  /\ pc = "advance"
  /\ tty_queue_tail' = Inc(tty_queue_tail)
  /\ taken' = taken + 1
  /\ last' = c
  /\ left' = left - 1
  /\ pc' = IF left' = 0 THEN "user" ELSE "check"
  /\ UNCHANGED <<tty_queue, tty_queue_head, c, pushed, overrun>>

Read == Check \/ Halt \/ PopRead \/ PopAdvance

----------------------------------------------------------------------------
Next ==
  \/ KeyPress
  \/ OtherIrq
  \/ \E n \in 1..MAX_COUNT : SysRead(n)
  \/ Check
  \/ Halt
  \/ PopRead
  \/ PopAdvance

(* The reader's code runs on, and the timer is periodic.  Nobody has to    *)
(* press a key or to call read.                                            *)
Fairness == WF_vars(Read) /\ WF_vars(OtherIrq)

Spec == Init /\ [][Next]_vars /\ Fairness
----------------------------------------------------------------------------
(* Properties.                                                             *)

(* The indices stay inside the ring, and the reader is at one of its       *)
(* steps with something left to take.                                      *)
TypeOK ==
  /\ tty_queue \in [Slot -> 0..MAX_KEYS]
  /\ tty_queue_head \in Slot /\ tty_queue_tail \in Slot
  /\ pc \in {"user", "check", "hlt", "halted", "pop", "advance"}
  /\ c \in 0..MAX_KEYS
  /\ left \in 0..MAX_COUNT
  /\ pc # "user" => left > 0
  /\ pushed \in 0..MAX_KEYS /\ taken \in Nat /\ last \in 0..MAX_KEYS
  /\ overrun \in BOOLEAN

(* tty_read returns the characters in the order of the key presses, none   *)
(* twice and none that was never pressed, even when the ring overruns      *)
(* between its check, its read of the slot and its update of the tail.     *)
InOrder == [][taken' # taken => last' > last]_vars

(* Unless the ring was once full, nothing is lost either: the characters   *)
(* returned are all the first ones pressed.                                *)
NoLoss == ~overrun => last = taken

(* Each overrun loses whole turns of the ring and nothing else.            *)
LossInWholeTurns ==
  /\ last >= taken
  /\ (last - taken) % TTY_QUEUE_SIZE = 0

(* A key pressed while tty_read waits is returned, or the call returns     *)
(* with earlier ones: a key that comes between the check and the hlt is    *)
(* not slept through for ever.                                             *)
KeyIsRead ==
  \A k \in 1..MAX_KEYS :
    (pushed >= k /\ pc # "user") ~> (last >= k \/ overrun \/ pc = "user")
=============================================================================
