-------------------------- MODULE InterruptsProofs --------------------------
(***************************************************************************)
(* Proofs about Interrupts: what interrupts what, and what the stacks hold *)
(* then, for every interval of the scheduler and every set of exceptions   *)
(* that programs raise.                                                    *)
(***************************************************************************)
EXTENDS Interrupts, SequenceTheorems, FiniteSetTheorems, TLAPS

----------------------------------------------------------------------------
(* Code that is no handler, and what its stack holds.                      *)

Pc == [at : {"boot", "user", "sys", "hlt", "switch_mm", "exit", "idle", "spin", "switched", "leave", "iret"},
       n : 0..SYSCALL, use : Place \cup {"none"}]

(* Where main(), the program, its system calls and the idle task can be,   *)
(* and in which place.                                                     *)
Normal ==
  {p \in Pc :
     /\ p.at # "switched"
     /\ p.at = "boot" => p.n \in 1..Len(Boot)
     /\ p.at \in {"user", "idle", "spin"} => p.n = 0
     /\ p.at = "sys" => p.n \in {SYS_EXIT, SYS_READ, SYS_WRITE, SYS_OPEN, SYS_EXECVE}
     /\ p.at = "hlt" => p.n \in {0, SYS_READ}
     /\ p.at = "switch_mm" => p.n = SYS_EXECVE
     /\ p.at = "exit" => p.n \in 1..3 /\ p.use = ExitPlaces[p.n]
     /\ p.at \in {"leave", "iret"} => p.n = SYSCALL
     /\ p.use # "none" => \/ p.at = "boot" /\ Boot[p.n][1] = "use"
                          \/ p.at = "sys" /\ p.n \in {SYS_WRITE, SYS_EXECVE}
                          \/ p.at = "exit"}

(* IF while p runs.                                                        *)
FlagOf(p, f) ==
  /\ f \in BOOLEAN
  /\ p.at = "boot" => (f <=> p.n > 5)
  /\ p.at \in {"switch_mm", "exit"} => ~f
  /\ p.at \in {"user", "sys", "hlt", "spin", "leave", "iret"} => f

(* The step k of main() is done.                                           *)
Done(p, k) == p.at = "boot" => p.n > k

Own(p) ==
  IF p.at \in {"boot", "spin"} THEN "boot"
  ELSE IF p.at = "idle" \/ (p.at = "hlt" /\ p.n = 0) THEN "idle" ELSE "proc1"

UserFrame == << <<"ss">>, <<"esp">>, <<"eflags", TRUE>>, <<"cs", TRUE>>, <<"eip", User>> >>
KernelFrame(p) == << <<"eflags", TRUE>>, <<"cs", FALSE>>, <<"eip", p>> >>

(* What the CPU pushes when it interrupts p.                               *)
FrameOf(p) == IF p.at = "user" THEN UserFrame ELSE KernelFrame(p)

(* What is pushed on top of the frame for vector v.                        *)
ErrorWord(v) == IF v \in HasErrorCode THEN << <<"error">> >> ELSE <<>>
ArgumentWords(v) ==
  IF v >= 32 THEN << <<"argument">> >>
  ELSE << (IF v \in HasErrorCode THEN <<"error">> ELSE <<"zero">>), <<"argument">> >>
Top(v) == ErrorWord(v) \o (pusha \o ArgumentWords(v))

SysStack == UserFrame \o Top(SYSCALL)

(* The stack of p while p runs.                                            *)
Below(p) ==
  CASE p.at \in {"sys", "exit", "leave"} \/ (p.at = "hlt" /\ p.n = SYS_READ) -> SysStack
    [] p.at = "switch_mm" -> SysStack \o << <<"flags", TRUE>> >>
    [] p.at = "iret" -> UserFrame
    [] OTHER -> <<>>

(* The stack of code at p that the timer interrupted and schedule()        *)
(* switched away.                                                          *)
SwitchedOut(p) == (KernelFrame(p) \o Top(32)) \o SwitchFrame(At("switched", 32))

(* Idle has not run yet, or was interrupted and switched away.             *)
IdleFrames == {SwitchFrame(At("idle", 0)), SwitchedOut(At("idle", 0))}

(* The stacks k other than that of p, with the tasks in states st.  While  *)
(* idle runs, main() waits in the middle of enqueue_task, or proc1 is      *)
(* dead.                                                                   *)
Others(p, st, k) ==
  /\ Own(p) = "proc1" => k["boot"] = <<>>
  /\ Own(p) = "boot" => k["proc1"] = <<>>
  /\ Own(p) # "idle" => k["idle"] \in IF Done(p, 25) THEN IdleFrames ELSE {<<>>}
  /\ (Own(p) = "idle" /\ st["proc1"] = "ready") =>
       k["boot"] = SwitchedOut(At("boot", 31)) /\ k["proc1"] = <<>>
  /\ (Own(p) = "idle" /\ st["proc1"] # "ready") =>
       k["boot"] = <<>> /\ k["proc1"] = SysStack \o SwitchFrame(At("spin", 0))

(* The stacks, with x pushed since p last ran.                             *)
Stacks(p, x, st, k) ==
  /\ k = [s \in Stack |-> k[s]]
  /\ k[Own(p)] = Below(p) \o x
  /\ Others(p, st, k)

----------------------------------------------------------------------------
(* The inductive invariant.                                                *)

Vector == UserException \cup {32 + n : n \in IRQ} \cup {14, SYSCALL}

(* Gates g, handlers h and mask m, by the progress of main(): a line is    *)
(* masked unless its handler is registered.                                *)
Tables(p, g, h, m) ==
  /\ DOMAIN g = Vector
  /\ \A v \in Vector :
       /\ (Class(v) = "irq" /\ Done(p, 3)) => g[v] = "interrupt"
       /\ (Class(v) = "exception" /\ Done(p, 7)) => g[v] = "interrupt"
       /\ (Class(v) = "syscall" /\ Done(p, 9)) => g[v] = "trap"
  /\ h \subseteq {14, 32, 33, 46}
  /\ Done(p, 13) => 32 \in h
  /\ Done(p, 21) => 14 \in h
  /\ Done(p, 22) => 33 \in h
  /\ (p.at = "boot" /\ p.n = 18) => 46 \in h
  /\ Done(p, 4) => \A n \in {0, 1, 14} : n \in m \/ 32 + n \in h

(* tss.esp0 is e, the current task c, the states of the tasks st and their *)
(* stacks ke.  Between two steps of enqueue_task proc1 is current and new. *)
State == {"new", "ready", "running", "zombie"}

Tasks(p, e, c, st, ke) ==
  /\ st \in [Task -> State] /\ ke \in [Task -> Stack \cup {"none"}]
  /\ (Own(p) = "proc1" \/ (p.at = "boot" /\ p.n > 29)) => e = "proc1"
  /\ (p.at = "boot" /\ ~(p.n > 30)) => c = "none" /\ st["proc1"] = "new"
  /\ (p.at = "boot" /\ p.n > 30) => c = "proc1" /\ st["proc1"] \in {"new", "running"}
  /\ (p.at = "boot" /\ p.n > 31) => st["proc1"] = "running"
  /\ p.at = "spin" => c = "none" \/ (c = "proc1" /\ st["proc1"] = "running")
  /\ Own(p) = "proc1" => c = "proc1"
  /\ (Own(p) = "proc1" /\ p.at # "exit") => st["proc1"] = "running"
  /\ p.at = "exit" => st["proc1"] = "zombie"
  /\ Own(p) = "idle" => c = "idle" /\ st["proc1"] \in {"ready", "zombie"}
  /\ st["proc1"] = "ready" => ke["proc1"] = "boot"
  /\ Done(p, 25) => ke["idle"] = "idle"

(* Code that is no handler runs, and no request is in service.             *)
InCode ==
  /\ pc \in Normal
  /\ FlagOf(pc, flag_if)
  /\ pc.at # "user" => sp = Own(pc)
  /\ Stacks(pc, <<>>, state, stack)
  /\ Tables(pc, idt, handlers, imr) /\ Tasks(pc, esp0, current_task, state, kernel_esp)
  /\ isr = {}

Irq == {32, 33, 39, 46}
Exception == UserException \cup {14}

HandlerPc == [at : {"dispatch", "eoi", "schedule", "switched", "fault", "panic", "leave", "iret"},
              n : 0..SYSCALL, use : Place \cup {"none"}]

(* What is on the stack of p while a handler at q runs.                    *)
PushedBy(q, p) ==
  IF q.at = "iret" THEN FrameOf(p)
  ELSE FrameOf(p) \o Top(IF q.at \in {"fault", "panic"} THEN 14 ELSE q.n)

(* The handler at q runs while p waits: in which place, and what it has in *)
(* service.  A page fault is never taken inside a place.                   *)
HandlerAt(q, p, served, h) ==
  \/ /\ q.at \in {"dispatch", "eoi"} /\ q.n \in Irq /\ q.use = "none"
     /\ q.n # 39 => q.n \in h
     /\ served = IF q.n = 39 THEN {} ELSE InService(q.n - 32)
  \/ /\ q.at = "dispatch" /\ q.n \in Exception /\ q.use = "none" /\ p.use = "none"
     /\ 14 \in h /\ served = {}
  \/ /\ q.at = "schedule" /\ q.n = 32 /\ served = {}
     /\ q.use = "none" \/ (q.use = "heap" /\ Own(p) = "idle")
  \/ /\ q.at = "switched" /\ q.n = 32 /\ q.use = "none" /\ served = {}
     /\ p \in {At("boot", 31), At("idle", 0)}
  \/ /\ q.at \in {"fault", "panic"} /\ q.use \in {"pools", "disk", "console"}
     /\ p.use = "none" /\ served = {}
  \/ q.at \in {"leave", "iret"} /\ q.n \in Irq \cup Exception /\ q.use = "none" /\ served = {}

Waits(p) ==
  /\ pc \in HandlerPc
  /\ FlagOf(p, TRUE) /\ p.at # "hlt"
  /\ flag_if = FALSE /\ sp = Own(p)
  /\ Stacks(p, PushedBy(pc, p), state, stack)
  /\ Tables(p, idt, handlers, imr) /\ Tasks(p, esp0, current_task, state, kernel_esp)
  /\ HandlerAt(pc, p, isr, handlers)

InHandler == \E p \in Normal : Waits(p)

Inv == (InCode \/ InHandler) /\ irr \subseteq {0, 1, 14}

----------------------------------------------------------------------------
(* Lemmas about main(), stacks and frames.                                 *)

(* The steps of main(), one by one.                                        *)
LEMMA BootSteps ==
  /\ Len(Boot) = 36 /\ Len(enter_proc1) = 11 /\ Len(init_disk) = 3 /\ Len(init_fs) = 2
  /\ Boot[1] = <<"use", "console">> /\ Boot[2] = <<"pic_remap">>
  /\ Boot[3] = <<"install_gates", "irq">> /\ Boot[4] = <<"lock_irqs">>
  /\ Boot[5] = <<"sti">> /\ Boot[6] = <<"use", "console">>
  /\ Boot[7] = <<"install_gates", "exception">> /\ Boot[8] = <<"use", "console">>
  /\ Boot[9] = <<"install_gates", "syscall">> /\ Boot[10] = <<"use", "console">>
  /\ Boot[11] = <<"esp0", "boot">> /\ Boot[12] = <<"use", "console">>
  /\ Boot[13] = <<"register_irq_handler", 0>> /\ Boot[14] = <<"unmask_irq", 0>>
  /\ Boot[15] = <<"use", "console">>
  /\ Boot[16] = <<"init_disk">> /\ Boot[17] = <<"register_irq_handler", 14>>
  /\ Boot[18] = <<"unmask_irq", 14>> /\ Boot[19] = <<"use", "disk">>
  /\ Boot[20] = <<"init_fs">>
  /\ Boot[21] = <<"register_exception_handler", 14>>
  /\ Boot[22] = <<"register_irq_handler", 1>> /\ Boot[23] = <<"unmask_irq", 1>>
  /\ Boot[24] = <<"use", "console">> /\ Boot[25] = <<"init_idle_task">>
  /\ Boot[26] = <<"enter_proc1">> /\ Boot[27] = <<"use", "heap">>
  /\ Boot[28] = <<"use", "pools">> /\ Boot[29] = <<"esp0", "proc1">>
  /\ Boot[30] = <<"enqueue_task">> /\ Boot[31] = <<"task_running">> /\ Boot[32] = <<"use", "heap">>
  /\ Boot[33] = <<"use", "disk">> /\ Boot[34] = <<"touch">>
  /\ Boot[35] = <<"use", "console">> /\ Boot[36] = <<"enter_user_task">>
BY SMTT(60) DEF Boot, init_interrupts, init_exceptions, init_syscall, init_tss, init_timer,
  init_disk, init_fs, init_fault, init_keyboard, enter_proc1

LEMMA BootWhere ==
  ASSUME NEW n \in 1..36
  PROVE  /\ Boot[n][1] = "install_gates" =>
              \/ n = 3 /\ Boot[n][2] = "irq"
              \/ n = 7 /\ Boot[n][2] = "exception"
              \/ n = 9 /\ Boot[n][2] = "syscall"
         /\ Boot[n][1] = "register_irq_handler" =>
              \/ (n = 13 /\ Boot[n][2] = 0)
              \/ (n = 17 /\ Boot[n][2] = 14)
              \/ (n = 22 /\ Boot[n][2] = 1)
         /\ Boot[n][1] = "register_exception_handler" => n = 21 /\ Boot[n][2] = 14
         /\ Boot[n][1] = "esp0" =>
              (n = 11 /\ Boot[n][2] = "boot") \/ (n = 29 /\ Boot[n][2] = "proc1")
         /\ Boot[n][1] = "unmask_irq" =>
              \/ (n = 14 /\ Boot[n][2] = 0)
              \/ (n = 18 /\ Boot[n][2] = 14)
              \/ (n = 23 /\ Boot[n][2] = 1)
         /\ Boot[n][1] = "pic_remap" => n = 2
         /\ Boot[n][1] = "lock_irqs" => n = 4
         /\ Boot[n][1] = "sti" => n = 5
         /\ Boot[n][1] = "init_idle_task" => n = 25
         /\ Boot[n][1] = "enter_proc1" => n = 26
         /\ Boot[n][1] = "enqueue_task" => n = 30
         /\ Boot[n][1] = "task_running" => n = 31
         /\ Boot[n][1] = "enter_user_task" => n = 36
         /\ Boot[n][1] = "use" => n \in {1, 6, 8, 10, 12, 15, 19, 24, 27, 28, 32, 33, 35}
         /\ Boot[n] = <<"touch">> => n = 34
         /\ Boot[n] = <<"init_disk">> => n = 16
         /\ Boot[n] = <<"init_fs">> => n = 20
BY BootSteps

LEMMA BootPlaces ==
  ASSUME NEW n \in 1..36, Boot[n][1] = "use"
  PROVE  Boot[n][2] \in Place
BY BootSteps DEF Place

Word ==
  {<<"ss">>, <<"esp">>, <<"error">>, <<"zero">>, <<"argument">>, <<"register">>}
    \cup ({"eflags", "cs", "flags"} \X BOOLEAN) \cup ({"eip"} \X Pc)

LEMMA UserIsPc ==
  /\ User \in Pc /\ At("spin", 0) \in Pc /\ At("idle", 0) \in Pc
  /\ At("boot", 31) \in Pc /\ At("switched", 32) \in Pc
BY DEF User, At, Pc, SYSCALL

(* Facts about sequences of any elements.                                  *)
LEMMA Joined ==
  ASSUME NEW S, NEW a \in Seq(S), NEW b \in Seq(S)
  PROVE  /\ a \o b \in Seq(S) /\ Len(a \o b) = Len(a) + Len(b)
         /\ \A i \in 1..(Len(a) + Len(b)) : (a \o b)[i] = IF i <= Len(a) THEN a[i] ELSE b[i - Len(a)]
OBVIOUS

(* Taking off what was pushed last.                                        *)
LEMMA Popped ==
  ASSUME NEW S, NEW a \in Seq(S), NEW b \in Seq(S)
  PROVE  /\ SubSeq(a \o b, 1, Len(a \o b) - Len(b)) = a
         /\ \A i \in 1..Len(b) : (a \o b)[Len(a \o b) + 1 - i] = b[Len(b) + 1 - i]
OBVIOUS

LEMMA FiveWords ==
  ASSUME NEW S, NEW a \in S, NEW b \in S, NEW c \in S, NEW d \in S, NEW e \in S
  PROVE  <<a, b, c, d, e>> \in Seq(S) /\ <<a, b, c>> \in Seq(S) /\ <<a, b>> \in Seq(S)
         /\ <<a>> \in Seq(S)
OBVIOUS

LEMMA UserFrameType ==
  /\ UserFrame \in Seq(Word) /\ Len(UserFrame) = 5
  /\ UserFrame[1][1] = "ss" /\ UserFrame[2][1] = "esp" /\ UserFrame[3][1] = "eflags"
  /\ UserFrame[4][1] = "cs" /\ UserFrame[5][1] = "eip"
  /\ UserFrame[3][2] = TRUE /\ UserFrame[4][2] = TRUE /\ UserFrame[5][2] = User
<1>1. <<"eip", User>> \in Word /\ <<"eflags", TRUE>> \in Word /\ <<"cs", TRUE>> \in Word
      /\ <<"ss">> \in Word /\ <<"esp">> \in Word
  BY UserIsPc DEF Word
<1>2. UserFrame \in Seq(Word)
  BY <1>1, FiveWords DEF UserFrame
<1> QED BY <1>2 DEF UserFrame

LEMMA KernelFrameType ==
  ASSUME NEW p \in Pc
  PROVE  /\ KernelFrame(p) \in Seq(Word) /\ Len(KernelFrame(p)) = 3
         /\ KernelFrame(p)[1][1] = "eflags" /\ KernelFrame(p)[2][1] = "cs"
         /\ KernelFrame(p)[3][1] = "eip"
         /\ KernelFrame(p)[1][2] = TRUE /\ KernelFrame(p)[2][2] = FALSE
         /\ KernelFrame(p)[3][2] = p
<1>1. <<"eip", p>> \in Word /\ <<"eflags", TRUE>> \in Word /\ <<"cs", FALSE>> \in Word
  BY DEF Word
<1>2. KernelFrame(p) \in Seq(Word)
  BY <1>1, FiveWords DEF KernelFrame
<1> QED BY <1>2 DEF KernelFrame

LEMMA SwitchFrameType ==
  ASSUME NEW p \in Pc
  PROVE  /\ SwitchFrame(p) \in Seq(Word) /\ Len(SwitchFrame(p)) = 5
         /\ SwitchFrame(p)[1][1] = "eip" /\ SwitchFrame(p)[1][2] = p
         /\ \A i \in 2..5 : SwitchFrame(p)[i][1] # "eip"
<1> DEFINE e == << <<"eip", p>> >>
           g == [i \in 1..4 |-> <<"register">>]
<1>1. <<"eip", p>> \in Word /\ <<"register">> \in Word
  BY DEF Word
<1>2. e \in Seq(Word) /\ g \in Seq(Word)
  BY <1>1, FiveWords
<1>3. Len(e) = 1 /\ Len(g) = 4 /\ e[1][1] = "eip" /\ e[1][2] = p /\ \A i \in 1..4 : g[i][1] # "eip"
  OBVIOUS
<1> HIDE DEF e, g
<1>4. /\ e \o g \in Seq(Word) /\ Len(e \o g) = Len(e) + Len(g)
      /\ \A i \in 1..(Len(e) + Len(g)) : (e \o g)[i] = IF i <= Len(e) THEN e[i] ELSE g[i - Len(e)]
  BY <1>2, Joined, Zenon
<1> DEFINE f == e \o g
<1>5. /\ f \in Seq(Word) /\ Len(f) = Len(e) + Len(g)
      /\ \A i \in 1..(Len(e) + Len(g)) : f[i] = IF i <= Len(e) THEN e[i] ELSE g[i - Len(e)]
  BY <1>4
<1> HIDE DEF f
<1>6. Len(f) = 5 /\ f[1] = e[1] /\ \A i \in 2..5 : f[i] = g[i - 1] /\ i - 1 \in 1..4
  BY <1>3, <1>5
<1>7. f[1][1] = "eip" /\ f[1][2] = p /\ \A i \in 2..5 : f[i][1] # "eip"
  BY <1>3, <1>6
<1>8. SwitchFrame(p) = f
  BY Zenon DEF SwitchFrame, f, e, g
<1> QED BY <1>5, <1>6, <1>7, <1>8

LEMMA FrameType ==
  ASSUME NEW p \in Pc
  PROVE  /\ FrameOf(p) \in Seq(Word)
         /\ Len(FrameOf(p)) = IF p.at = "user" THEN 5 ELSE 3
BY UserFrameType, KernelFrameType DEF FrameOf

LEMMA PartTypes ==
  ASSUME NEW v \in Nat
  PROVE  ErrorWord(v) \in Seq(Word) /\ pusha \in Seq(Word) /\ ArgumentWords(v) \in Seq(Word)
<1>1. <<"error">> \in Word /\ <<"zero">> \in Word /\ <<"argument">> \in Word /\ <<"register">> \in Word
  BY DEF Word
<1> QED BY <1>1 DEF ErrorWord, pusha, ArgumentWords, HasErrorCode

LEMMA PartLengths ==
  ASSUME NEW v \in Nat
  PROVE  /\ Len(ErrorWord(v)) = IF v \in HasErrorCode THEN 1 ELSE 0
         /\ Len(pusha) = 8
         /\ Len(ArgumentWords(v)) = IF v >= 32 THEN 1 ELSE 2
BY DEF ErrorWord, pusha, ArgumentWords, HasErrorCode

LEMMA PartKinds ==
  ASSUME NEW v \in Nat
  PROVE  /\ \A i \in 1..Len(ErrorWord(v)) : ErrorWord(v)[i][1] # "eip"
         /\ \A i \in 1..8 : pusha[i][1] # "eip"
         /\ \A i \in 1..Len(ArgumentWords(v)) : ArgumentWords(v)[i][1] # "eip"
         /\ v \in HasErrorCode => v < 32 /\ ArgumentWords(v)[1][1] = "error"
BY DEF ErrorWord, pusha, ArgumentWords, HasErrorCode

(* What a stub takes off is what was pushed after the frame.               *)
LEMMA TopType ==
  ASSUME NEW v \in Nat
  PROVE  /\ Top(v) \in Seq(Word) /\ Len(Top(v)) = Unwound(v)
         /\ \A i \in 1..Len(Top(v)) : Top(v)[i][1] # "eip"
         /\ v \in HasErrorCode => Len(Top(v)) = 11 /\ Top(v)[10][1] = "error"
<1> DEFINE r == pusha \o ArgumentWords(v)
           t == ErrorWord(v) \o r
<1>1. /\ r \in Seq(Word) /\ Len(r) = Len(pusha) + Len(ArgumentWords(v))
      /\ \A i \in 1..(Len(pusha) + Len(ArgumentWords(v))) :
           r[i] = IF i <= Len(pusha) THEN pusha[i] ELSE ArgumentWords(v)[i - Len(pusha)]
  BY PartTypes, Joined, Zenon
<1> HIDE DEF r
<1>2. /\ t \in Seq(Word) /\ Len(t) = Len(ErrorWord(v)) + Len(r)
      /\ \A i \in 1..(Len(ErrorWord(v)) + Len(r)) :
           t[i] = IF i <= Len(ErrorWord(v)) THEN ErrorWord(v)[i] ELSE r[i - Len(ErrorWord(v))]
  <2>1. ErrorWord(v) \in Seq(Word) /\ r \in Seq(Word)
    BY PartTypes, <1>1
  <2> QED BY <2>1, Joined, Zenon
<1>3. Top(v) = t
  BY Zenon DEF Top, r
<1> HIDE DEF t
<1>L. /\ Len(ErrorWord(v)) = (IF v \in HasErrorCode THEN 1 ELSE 0)
      /\ Len(pusha) = 8 /\ Len(ArgumentWords(v)) = (IF v >= 32 THEN 1 ELSE 2)
  BY PartLengths
<1>4. \A i \in 1..Len(r) : r[i][1] # "eip"
  <2> SUFFICES ASSUME NEW i \in 1..Len(r) PROVE r[i][1] # "eip"
    OBVIOUS
  <2>1. Len(r) = 8 + Len(ArgumentWords(v)) /\ Len(ArgumentWords(v)) \in Nat
    BY <1>1, <1>L
  <2>2. CASE i <= 8
    <3>1. r[i] = pusha[i] /\ i \in 1..8
      BY <1>1, <1>L, <2>1, <2>2
    <3> QED BY <3>1, PartKinds
  <2>3. CASE i > 8
    <3>1. r[i] = ArgumentWords(v)[i - 8] /\ i - 8 \in 1..Len(ArgumentWords(v))
      BY <1>1, <1>L, <2>1, <2>3
    <3> QED BY <3>1, PartKinds
  <2> QED BY <2>1, <2>2, <2>3
<1>5. \A i \in 1..Len(t) : t[i][1] # "eip"
  <2> SUFFICES ASSUME NEW i \in 1..Len(t) PROVE t[i][1] # "eip"
    OBVIOUS
  <2>1. Len(t) = Len(ErrorWord(v)) + Len(r) /\ Len(ErrorWord(v)) \in Nat /\ Len(r) \in Nat
    BY <1>1, <1>2, <1>L
  <2>2. CASE i <= Len(ErrorWord(v))
    <3>1. t[i] = ErrorWord(v)[i] /\ i \in 1..Len(ErrorWord(v))
      BY <1>2, <2>1, <2>2
    <3> QED BY <3>1, PartKinds
  <2>3. CASE i > Len(ErrorWord(v))
    <3>1. t[i] = r[i - Len(ErrorWord(v))] /\ i - Len(ErrorWord(v)) \in 1..Len(r)
      BY <1>2, <2>1, <2>3
    <3> QED BY <3>1, <1>4
  <2> QED BY <2>1, <2>2, <2>3
<1>N. Len(t) = Len(ErrorWord(v)) + (Len(pusha) + Len(ArgumentWords(v))) /\ Len(r) = 8 + Len(ArgumentWords(v))
  BY <1>1, <1>2, <1>L
<1>6. Len(t) = Unwound(v)
  <2>1. Len(t) = (IF v \in HasErrorCode THEN 1 ELSE 0) + (8 + (IF v >= 32 THEN 1 ELSE 2))
    BY <1>N, <1>L
  <2> HIDE DEF t
  <2> QED BY <2>1 DEF Unwound, HasErrorCode, ERRCODE
<1>7. ASSUME v \in HasErrorCode
      PROVE  Len(t) = 11 /\ t[10][1] = "error"
  <2>1. ~(v >= 32)
    BY <1>7, PartKinds
  <2>2. Len(ErrorWord(v)) = 1 /\ Len(ArgumentWords(v)) = 2 /\ Len(r) = 10 /\ Len(t) = 11
    BY <1>7, <1>N, <1>L, <2>1
  <2>3. t[10] = r[9]
    BY <2>2, <1>2
  <2>4. r[9] = ArgumentWords(v)[1]
    BY <2>2, <1>1, <1>L
  <2> QED BY <2>2, <2>3, <2>4, <1>7, PartKinds
<1> QED BY <1>2, <1>3, <1>5, <1>6, <1>7

LEMMA SysStackType == SysStack \in Seq(Word) /\ Len(SysStack) = 14
<1>1. UserFrame \in Seq(Word) /\ Top(SYSCALL) \in Seq(Word)
  BY TopType, UserFrameType DEF SYSCALL
<1>2. SysStack \in Seq(Word) /\ Len(SysStack) = Len(UserFrame) + Len(Top(SYSCALL))
  BY <1>1, Joined, Zenon DEF SysStack
<1>3. Len(Top(SYSCALL)) = 9
  BY TopType DEF SYSCALL, Unwound
<1> QED BY <1>2, <1>3, UserFrameType

LEMMA BelowType ==
  ASSUME NEW p \in Normal
  PROVE  Below(p) \in Seq(Word) /\ p \in Pc /\ Own(p) \in Stack
<1>1. SysStack \o << <<"flags", TRUE>> >> \in Seq(Word)
  <2>1. <<"flags", TRUE>> \in Word
    BY DEF Word
  <2> QED BY <2>1, SysStackType
<1>2. <<>> \in Seq(Word)
  OBVIOUS
<1>3. Below(p) \in Seq(Word)
  BY <1>1, <1>2, SysStackType, UserFrameType, Zenon DEF Below
<1> QED BY <1>3 DEF Normal, Own, Stack

(* The stack of p may change, the others do not.                           *)
LEMMA Exchange ==
  ASSUME NEW p \in Normal, NEW q \in Normal, NEW x, NEW st, NEW k, Stacks(p, x, st, k),
         Own(p) = Own(q), Done(p, 25) <=> Done(q, 25)
  PROVE  \A y : Stacks(q, y, st, [k EXCEPT ![Own(q)] = Below(q) \o y])
<1> SUFFICES ASSUME NEW y PROVE Stacks(q, y, st, [k EXCEPT ![Own(q)] = Below(q) \o y])
  OBVIOUS
<1> DEFINE z == Below(q) \o y
           j == [k EXCEPT ![Own(q)] = z]
<1> HIDE DEF z
<1>1. k = [s \in Stack |-> k[s]] /\ Own(q) \in Stack
  BY BelowType DEF Stacks
<1>2. j = [s \in Stack |-> j[s]] /\ j[Own(q)] = z /\ \A s \in Stack : s # Own(q) => j[s] = k[s]
  BY <1>1
<1> HIDE DEF j
<1>3. Others(q, st, j)
  <2>1. Others(p, st, k)
    BY DEF Stacks
  <2>2. Others(q, st, k)
    BY <2>1, Zenon DEF Others
  <2> QED BY <1>2, <2>2 DEF Others, Stack
<1>4. Stacks(q, y, st, j)
  BY <1>2, <1>3, Zenon DEF Stacks, z
<1> QED BY <1>4, Zenon DEF j, z

LEMMA Replace ==
  ASSUME NEW p \in Normal, NEW x, NEW st, NEW k, Stacks(p, x, st, k)
  PROVE  /\ k[Own(p)] = Below(p) \o x
         /\ \A y : Stacks(p, y, st, [k EXCEPT ![Own(p)] = Below(p) \o y])
BY Exchange, Zenon DEF Stacks

(* Code that goes on leaves the stacks as they are.                        *)
LEMMA SameStacks ==
  ASSUME NEW p \in Normal, NEW q \in Normal, NEW x, NEW st, NEW k, Stacks(p, x, st, k),
         Own(p) = Own(q), Below(p) = Below(q), Done(p, 25) <=> Done(q, 25)
  PROVE  Stacks(q, x, st, k)
<1>1. Others(q, st, k)
  <2>1. Others(p, st, k)
    BY DEF Stacks
  <2> QED BY <2>1, Zenon DEF Others
<1> QED BY <1>1, Zenon DEF Stacks

(* While idle does not run, the states do not matter to the stacks.        *)
LEMMA StatesFree ==
  ASSUME NEW p, NEW x, NEW st, NEW tt, NEW k, Stacks(p, x, st, k),
         Own(p) # "idle" \/ st["proc1"] = tt["proc1"]
  PROVE  Stacks(p, x, tt, k)
<1>1. Others(p, tt, k)
  <2>1. Others(p, st, k)
    BY DEF Stacks
  <2> QED BY <2>1, Zenon DEF Others
<1> QED BY <1>1, Zenon DEF Stacks

(* Two equations by name, for the provers to instantiate.                  *)
Joins(a, b, c, d, e) == <<a, b>> \o <<c, d, e>> = <<a, b, c, d, e>>
Reassociates(a, b, c, d, e) == ((a \o (b \o c)) \o d) \o e = a \o (b \o (c \o (d \o e)))

LEMMA JoinFive ==
  ASSUME NEW a \in Word, NEW b \in Word, NEW c \in Word, NEW d \in Word, NEW e \in Word
  PROVE  Joins(a, b, c, d, e)
<1> DEFINE x == <<a, b>> \o <<c, d, e>>
           y == <<a, b, c, d, e>>
<1>1. x \in Seq(Word) /\ y \in Seq(Word)
  OBVIOUS
<1>2. Len(x) = 5 /\ Len(y) = 5
  OBVIOUS
<1>3. \A i \in 1..5 : x[i] = y[i]
  OBVIOUS
<1> HIDE DEF x, y
<1>4. x = y
  BY <1>1, <1>2, <1>3, SeqEqual
<1> QED BY <1>4, Zenon DEF x, y, Joins

LEMMA JoinThree == ASSUME NEW c, NEW d, NEW e PROVE <<>> \o <<c, d, e>> = <<c, d, e>>
OBVIOUS

LEMMA Reassociate ==
  ASSUME NEW a \in Seq(Word), NEW b \in Seq(Word), NEW c \in Seq(Word), NEW d \in Seq(Word),
         NEW e \in Seq(Word)
  PROVE  Reassociates(a, b, c, d, e)
<1> DEFINE x == a \o (b \o c)
           y == d \o e
           z == b \o c
<1>1. x \in Seq(Word) /\ y \in Seq(Word) /\ z \in Seq(Word)
  OBVIOUS
<1>2. (x \o d) \o e = x \o (d \o e)
  <2> HIDE DEF x
  <2> QED BY <1>1
<1>3. (a \o z) \o y = a \o (z \o y)
  <2> HIDE DEF y, z
  <2> QED BY <1>1
<1>4. (b \o c) \o y = b \o (c \o y)
  <2> HIDE DEF y
  <2> QED BY <1>1
<1> QED BY <1>2, <1>3, <1>4, Zenon DEF Reassociates

LEMMA UnderTop ==
  ASSUME NEW a \in Seq(Word), NEW b \in Seq(Word), NEW e \in Word, NEW c \in Seq(Word)
  PROVE  LET s == (a \o (b \o <<e>>)) \o c IN s[Len(s) - Len(c)] = e
<1> DEFINE x == a \o (b \o <<e>>)
<1>1. x \in Seq(Word)
  OBVIOUS
<1>2. Len(x) = Len(a) + (Len(b) + 1)
  OBVIOUS
<1>3. x[Len(a) + (Len(b) + 1)] = e
  OBVIOUS
<1> HIDE DEF x
<1>4. Len(x \o c) - Len(c) = Len(x)
  BY <1>1
<1>5. ASSUME Len(x) >= 1 PROVE (x \o c)[Len(x)] = x[Len(x)]
  BY <1>1, <1>5
<1>6. Len(x) >= 1
  BY <1>2
<1> QED BY <1>2, <1>3, <1>4, <1>5, <1>6, Zenon DEF x

(* The frame of the CPU, and what the stub puts on it.                     *)
LEMMA FrameIs ==
  ASSUME NEW v, NEW p \in Normal, flag_if = TRUE,
         pc.at = "user" <=> p.at = "user", p.at = "user" => p = User
  PROVE  Frame(v, p) = FrameOf(p) \o ErrorWord(v)
<1>1. CASE pc.at = "user"
  <2>1. (pc.at = "user") = TRUE /\ p.at = "user" /\ p = User
    BY <1>1
  <2>2. << <<"ss">>, <<"esp">> >> \o << <<"eflags", TRUE>>, <<"cs", TRUE>>, <<"eip", User>> >> = UserFrame
    <3>1. <<"ss">> \in Word /\ <<"esp">> \in Word /\ <<"eflags", TRUE>> \in Word
          /\ <<"cs", TRUE>> \in Word /\ <<"eip", User>> \in Word
      BY UserIsPc DEF Word
    <3>2. Joins(<<"ss">>, <<"esp">>, <<"eflags", TRUE>>, <<"cs", TRUE>>, <<"eip", User>>)
      BY <3>1, JoinFive
    <3> QED BY <3>2, Zenon DEF UserFrame, Joins
  <2> QED BY <1>1, <2>1, <2>2, Zenon DEF Frame, FrameOf, ErrorWord
<1>2. CASE pc.at # "user"
  <2>1. (pc.at = "user") = FALSE /\ p.at # "user"
    BY <1>2
  <2>2. <<>> \o << <<"eflags", TRUE>>, <<"cs", FALSE>>, <<"eip", p>> >> = KernelFrame(p)
    BY JoinThree, Zenon DEF KernelFrame
  <2> QED BY <1>2, <2>1, <2>2, Zenon DEF Frame, FrameOf, ErrorWord
<1> QED BY <1>1, <1>2

LEMMA ArgumentsAre ==
  ASSUME NEW v \in Nat, NEW b \in Seq(Word), NEW f \in Seq(Word)
  PROVE  Arguments(v, (b \o (f \o ErrorWord(v))) \o pusha) = ArgumentWords(v)
<1> DEFINE s == (b \o (f \o ErrorWord(v))) \o pusha
<1>1. ERRCODE = HasErrorCode
  BY DEF ERRCODE, HasErrorCode
<1>2. ASSUME v \in HasErrorCode
      PROVE  s[Len(s) - 8] = <<"error">>
  <2>1. ErrorWord(v) = << <<"error">> >>
    BY <1>2, Zenon DEF ErrorWord
  <2>2. <<"error">> \in Word /\ pusha \in Seq(Word) /\ Len(pusha) = 8
    BY PartTypes, PartLengths DEF Word
  <2> DEFINE z == (b \o (f \o << <<"error">> >>)) \o pusha
  <2>3. z[Len(z) - Len(pusha)] = <<"error">>
    BY <2>2, UnderTop, Zenon
  <2> QED BY <2>1, <2>2, <2>3, Zenon
<1> HIDE DEF s
<1>3. Arguments(v, s) = ArgumentWords(v)
  BY <1>1, <1>2, Zenon DEF Arguments, ArgumentWords
<1> QED BY <1>3 DEF s

(* An entry pushes the frame and what belongs on top of it on the stack of *)
(* the code that it interrupts.                                            *)
LEMMA Entered ==
  ASSUME NEW v \in Nat, NEW p \in Normal, NEW q,
         InCode, flag_if = TRUE, Enter(v, p, q), idt[v] # "none",
         pc.at = "user" <=> p.at = "user", p.at = "user" => p = User,
         Own(p) = Own(pc), Below(p) = Below(pc), Done(p, 25) <=> Done(pc, 25)
  PROVE  /\ sp' = Own(p) /\ pc' = q
         /\ Stacks(p, FrameOf(p) \o Top(v), state, stack')
         /\ flag_if' = (idt[v] = "trap")
<1> DEFINE s == IF pc.at = "user" THEN esp0 ELSE sp
           base == IF pc.at = "user" THEN <<>> ELSE stack[s]
           pushed == base \o Frame(v, p) \o pusha
<1>1. /\ sp' = s /\ pc' = q
      /\ stack' = [stack EXCEPT ![s] = pushed \o Arguments(v, pushed)]
  BY Zenon DEF Enter
<1>2. s = Own(p)
  BY DEF InCode, Tasks, Own
<1>3. Stacks(p, <<>>, state, stack)
  BY SameStacks DEF InCode
<1>4. base = Below(p)
  <2>1. CASE pc.at = "user"
    BY <2>1, Zenon DEF Below
  <2>2. CASE pc.at # "user"
    <3>1. stack[s] = Below(p) \o <<>>
      BY <1>2, <1>3, Replace, Zenon
    <3>2. Below(p) \o <<>> = Below(p)
      BY BelowType, ConcatEmptySeq, Zenon
    <3> QED BY <2>2, <3>1, <3>2, Zenon
  <2> QED BY <2>1, <2>2
<1>5. pushed = (Below(p) \o (FrameOf(p) \o ErrorWord(v))) \o pusha
  BY <1>4, FrameIs, Zenon
<1>6. Below(p) \in Seq(Word) /\ FrameOf(p) \in Seq(Word)
  BY BelowType, FrameType
<1>7. Arguments(v, pushed) = ArgumentWords(v)
  BY <1>5, <1>6, ArgumentsAre, Zenon
<1>8. pushed \o Arguments(v, pushed) = Below(p) \o (FrameOf(p) \o Top(v))
  <2>1. ErrorWord(v) \in Seq(Word) /\ pusha \in Seq(Word) /\ ArgumentWords(v) \in Seq(Word)
    BY PartTypes
  <2>2. Reassociates(Below(p), FrameOf(p), ErrorWord(v), pusha, ArgumentWords(v))
    BY <1>6, <2>1, Reassociate
  <2> HIDE DEF pushed
  <2> QED BY <1>5, <1>7, <2>2, Zenon DEF Top, Reassociates
<1>9. Stacks(p, FrameOf(p) \o Top(v), state,
             [stack EXCEPT ![Own(p)] = Below(p) \o (FrameOf(p) \o Top(v))])
  BY <1>3, Replace, Zenon
<1>10. flag_if' = (idt[v] = "trap")
  BY DEF Enter
<1> QED BY <1>1, <1>2, <1>8, <1>9, <1>10, Zenon

----------------------------------------------------------------------------
(* What a step may change.                                                 *)

LEMMA Where ==
  ASSUME Inv
  PROVE  /\ pc.at \in {"boot", "user", "sys", "hlt", "switch_mm", "exit", "idle", "spin"} => InCode
         /\ pc.at \in {"dispatch", "eoi", "schedule", "switched", "fault", "panic"} => InHandler
         /\ pc.at \in {"leave", "iret"} => (IF pc.n = SYSCALL THEN InCode ELSE InHandler)
         /\ flag_if = TRUE => InCode
         /\ pc.at # "shutdown"
<1>1. ASSUME InCode
      PROVE  /\ pc.at \in {"boot", "user", "sys", "hlt", "switch_mm", "exit", "idle", "spin", "leave", "iret"}
             /\ pc.at \in {"leave", "iret"} => pc.n = SYSCALL
  BY <1>1 DEF InCode, Normal, Pc
<1>2. ASSUME InHandler
      PROVE  /\ pc.at \in {"dispatch", "eoi", "schedule", "switched", "fault", "panic", "leave", "iret"}
             /\ pc.at \in {"leave", "iret"} => pc.n # SYSCALL
             /\ flag_if = FALSE
  BY <1>2, InterruptsAssumption DEF InHandler, Waits, HandlerAt, Irq, Exception, SYSCALL
<1> QED BY <1>1, <1>2 DEF Inv

LEMMA TablesKept ==
  ASSUME NEW p, NEW q, NEW g, NEW h, NEW m, Tables(p, g, h, m),
         \A k \in {3, 4, 7, 9, 13, 21, 22} : Done(q, k) => Done(p, k),
         (q.at = "boot" /\ q.n = 18) => (p.at = "boot" /\ p.n = 18)
  PROVE  Tables(q, g, h, m)
BY DEF Tables

LEMMA TablesAfterBoot ==
  ASSUME NEW p, NEW q, NEW g, NEW h, NEW m, Tables(p, g, h, m),
         p.at = "boot" => p.n \in Nat /\ p.n > 22, q.at # "boot"
  PROVE  Tables(q, g, h, m)
BY TablesKept DEF Done

LEMMA TasksKept ==
  ASSUME NEW p, NEW q, NEW e, NEW c, NEW st, NEW ke, Tasks(p, e, c, st, ke),
         p.at # "boot", q.at \notin {"boot", "spin"}, Own(p) = Own(q),
         p.at = "exit" <=> q.at = "exit"
  PROVE  Tasks(q, e, c, st, ke)
BY DEF Tasks, Done

(* main() goes on and the tasks stay as they are.                          *)
LEMMA TasksPlain ==
  ASSUME NEW p, NEW q, NEW e, NEW f, NEW c, NEW st, NEW ke, Tasks(p, e, c, st, ke),
         p.at = "boot", q.at = "boot", p.n \in Nat, q.n = p.n + 1, p.n \notin {25, 30, 31},
         p.n = 29 => f = "proc1", p.n > 29 => f = e
  PROVE  Tasks(q, f, c, st, ke)
<1>1. Own(p) = "boot" /\ Own(q) = "boot"
  BY DEF Own
<1>2. /\ q.n > 29 => (p.n = 29 \/ p.n > 29)
      /\ q.n > 30 <=> p.n > 30
      /\ q.n > 31 <=> p.n > 31
      /\ q.n > 25 <=> p.n > 25
  OBVIOUS
<1>3. q.n > 29 => f = "proc1"
  BY <1>2 DEF Tasks
<1> QED BY <1>1, <1>2, <1>3 DEF Tasks, Done

(* Code that is not main() goes on with the same stack.                    *)
LEMMA CodeGoesOn ==
  ASSUME InCode, pc.at \notin {"boot", "user"}, pc'.at \notin {"boot", "user"},
         pc' \in Normal, FlagOf(pc', flag_if'),
         Own(pc') = Own(pc), Below(pc') = Below(pc),
         UNCHANGED <<stack, sp, isr, imr, tables>>,
         Own(pc) # "idle" \/ state' = state,
         Tasks(pc', esp0', current_task', state', kernel_esp')
  PROVE  InCode'
<1>1. Stacks(pc', <<>>, state', stack')
  <2>1. Stacks(pc', <<>>, state, stack)
    BY SameStacks DEF InCode, Done
  <2>2. Own(pc') # "idle" \/ state["proc1"] = state'["proc1"]
    OBVIOUS
  <2>3. Stacks(pc', <<>>, state', stack)
    BY <2>1, <2>2, StatesFree
  <2> QED BY <2>3
<1>2. Tables(pc', idt', handlers', imr')
  BY TablesAfterBoot DEF InCode, tables
<1> QED BY <1>1, <1>2 DEF InCode

LEMMA CodeMoves ==
  ASSUME InCode, pc.at \notin {"boot", "user"}, pc'.at \notin {"boot", "user", "spin"},
         pc.at = "exit" <=> pc'.at = "exit",
         pc' \in Normal, FlagOf(pc', flag_if'),
         Own(pc') = Own(pc), Below(pc') = Below(pc),
         UNCHANGED <<stack, sp, isr, imr, tables, esp0, current_task, state, kernel_esp>>
  PROVE  InCode'
<1>1. Tasks(pc', esp0', current_task', state', kernel_esp')
  <2>1. Tasks(pc, esp0', current_task', state', kernel_esp')
    BY DEF InCode
  <2> QED BY <2>1, TasksKept
<1> QED BY <1>1, CodeGoesOn

(* main() goes on; its tables change as the step says.                     *)
LEMMA BootMoves ==
  ASSUME InCode, pc.at = "boot", pc.n < 36, pc.n # 25, BootNext,
         UNCHANGED <<stack, sp>>, isr' = {}, FlagOf(pc', flag_if'),
         Tables(pc', idt', handlers', imr'), Tasks(pc', esp0', current_task', state', kernel_esp')
  PROVE  InCode'
<1>1. pc.n \in 1..36 /\ pc' = At("boot", pc.n + 1)
  BY BootSteps DEF InCode, Normal, BootNext, Goto
<1>2. pc' \in Normal /\ pc'.at = "boot" /\ pc'.n = pc.n + 1
  BY <1>1, BootSteps DEF At, Normal, Pc, SYSCALL
<1>3. Stacks(pc', <<>>, state', stack')
  <2>1. Own(pc) = Own(pc') /\ Below(pc) = Below(pc')
    BY <1>2, Zenon DEF Own, Below
  <2>2. Done(pc, 25) <=> Done(pc', 25)
    BY <1>1, <1>2 DEF Done
  <2>3. Stacks(pc', <<>>, state, stack) /\ Own(pc') # "idle"
    BY <1>2, <2>1, <2>2, SameStacks DEF InCode, Own
  <2>4. Stacks(pc', <<>>, state', stack)
    BY <2>3, StatesFree
  <2> QED BY <2>4
<1>4. sp' = Own(pc')
  BY <1>2 DEF InCode, Own
<1> QED BY <1>2, <1>3, <1>4 DEF InCode

(* A handler goes on with the same stack.                                  *)
LEMMA HandlerGoesOn ==
  ASSUME NEW p \in Normal, Waits(p), pc' \in HandlerPc, PushedBy(pc', p) = PushedBy(pc, p),
         HandlerAt(pc', p, isr', handlers'),
         UNCHANGED <<stack, sp, flag_if, imr, tables>>,
         Own(p) # "idle" \/ state["proc1"] = state'["proc1"],
         Tasks(p, esp0', current_task', state', kernel_esp')
  PROVE  InHandler'
<1>1. Stacks(p, PushedBy(pc', p), state, stack)
  BY Zenon DEF Waits
<1>2. \A x : Stacks(p, x, state, stack) => Stacks(p, x, state', stack)
  BY StatesFree
<1>3. Stacks(p, PushedBy(pc', p), state', stack')
  BY <1>1, <1>2
<1> QED BY <1>3 DEF Waits, InHandler, tables

LEMMA HandlerMoves ==
  ASSUME NEW p \in Normal, Waits(p), pc' \in HandlerPc, PushedBy(pc', p) = PushedBy(pc, p),
         HandlerAt(pc', p, isr', handlers'),
         UNCHANGED <<stack, sp, flag_if, imr, tables, esp0, current_task, state, kernel_esp>>
  PROVE  InHandler'
<1>1. Tasks(p, esp0', current_task', state', kernel_esp')
  BY DEF Waits
<1> QED BY <1>1, HandlerGoesOn

----------------------------------------------------------------------------
(* Handlers.                                                               *)

LEMMA irq_handlerStep == ASSUME Inv, irq_handler PROVE Inv'
<1>1. pc.at = "dispatch" /\ Class(pc.n) = "irq" /\ pc' = At("eoi", pc.n)
      /\ UNCHANGED <<flag_if, stack, sp, pics, tables, tasks>>
  BY DEF irq_handler, Handler, Goto, NextCall
<1>2. PICK p \in Normal : Waits(p)
  BY <1>1, Where DEF InHandler
<1>H. HandlerAt(pc, p, isr, handlers)
  BY <1>2 DEF Waits
<1>3. pc.n \in Irq /\ pc' = [at |-> "eoi", n |-> pc.n, use |-> "none"]
  <2>1. \A v \in Exception : Class(v) = "exception"
    BY InterruptsAssumption DEF Exception, Class
  <2> QED BY <1>1, <1>H, <2>1 DEF HandlerAt, At
<1>4. HandlerAt(pc', p, isr', handlers') /\ pc' \in HandlerPc
  BY <1>1, <1>2, <1>3, InterruptsAssumption
     DEF Waits, HandlerAt, HandlerPc, Irq, Exception, Class, pics, tables, SYSCALL
<1>5. pc'.at = "eoi" /\ pc'.n = pc.n
  BY <1>3
<1>6. PushedBy(pc', p) = PushedBy(pc, p)
  BY <1>1, <1>5, Zenon DEF PushedBy
<1> QED BY <1>1, <1>2, <1>4, <1>6, HandlerMoves DEF Inv, pics, tasks

(* The end of interrupt that a handler sends is that of its own request.   *)
LEMMA EoiOwn ==
  ASSUME NEW p \in Normal, Waits(p), pc.at = "eoi"
  PROVE  pc.n \in Irq /\ pic_send_eoi(pc.n - 32) = {}
                      /\ (pc.n = 39 => isr = {}) /\ (pc.n # 39 => isr = InService(pc.n - 32))
<1>1. pc.n \in Irq /\ isr = IF pc.n = 39 THEN {} ELSE InService(pc.n - 32)
  BY DEF Waits, HandlerAt
<1>2. CASE pc.n = 32
  <2>1. isr = {0} /\ pc.n - 32 = 0
    BY <1>1, <1>2 DEF InService, OnMaster
  <2> QED BY <1>1, <1>2, <2>1 DEF pic_send_eoi, EndFirst
<1>3. CASE pc.n = 33
  <2>1. isr = {1} /\ pc.n - 32 = 1
    BY <1>1, <1>3 DEF InService, OnMaster
  <2> QED BY <1>1, <1>3, <2>1 DEF pic_send_eoi, EndFirst
<1>4. CASE pc.n = 39
  <2>1. isr = {} /\ pc.n - 32 = 7
    BY <1>1, <1>4
  <2> QED BY <1>1, <1>4, <2>1 DEF pic_send_eoi, EndFirst
<1>5. CASE pc.n = 46
  <2>1. isr = {14, 2} /\ pc.n - 32 = 14
    BY <1>1, <1>5 DEF InService, OnMaster
  <2>2. EndFirst(isr, 8..15) = {2}
    BY <2>1 DEF EndFirst
  <2>3. EndFirst({2}, 0..7) = {}
    BY DEF EndFirst
  <2> QED BY <1>1, <1>5, <2>1, <2>2, <2>3 DEF pic_send_eoi
<1> QED BY <1>1, <1>2, <1>3, <1>4, <1>5 DEF Irq

LEMMA EndOfInterruptStep == ASSUME Inv, EndOfInterrupt PROVE Inv'
<1>1. pc.at = "eoi" /\ isr' = pic_send_eoi(pc.n - 32)
      /\ pc' = At(IF pc.n = 32 /\ timer_ticks = 0 THEN "schedule" ELSE "leave", pc.n)
      /\ UNCHANGED <<flag_if, stack, sp, imr, irr, tables, tasks>>
  BY DEF EndOfInterrupt, Handler, Goto, NextCall
<1>2. PICK p \in Normal : Waits(p)
  BY <1>1, Where DEF InHandler
<1>3. pc.n \in Irq /\ isr' = {}
  BY <1>1, <1>2, EoiOwn
<1>4. pc'.at \in {"schedule", "leave"} /\ pc'.n = pc.n /\ pc'.use = "none"
      /\ (pc'.at = "schedule" => pc.n = 32) /\ pc' \in HandlerPc
  BY <1>1, <1>2 DEF At, Waits, HandlerPc
<1>5. HandlerAt(pc', p, isr', handlers')
  BY <1>3, <1>4 DEF HandlerAt
<1>6. PushedBy(pc', p) = PushedBy(pc, p)
  BY <1>1, <1>4, Zenon DEF PushedBy
<1> QED BY <1>1, <1>2, <1>4, <1>5, <1>6, HandlerMoves DEF Inv, tasks

(* What switch_to takes off a stack that it left.                          *)
LEMMA SwitchPops ==
  ASSUME NEW base \in Seq(Word), NEW p \in Pc, NEW w, w = base \o SwitchFrame(p)
  PROVE  SubSeq(w, 1, Len(w) - 5) = base /\ w[Len(w) - 4][2] = p
<1> DEFINE f == SwitchFrame(p)
<1>1. f \in Seq(Word) /\ Len(f) = 5 /\ f[1][2] = p
  BY SwitchFrameType
<1>2. w = base \o f
  BY Zenon
<1> HIDE DEF f
<1>3. base \in Seq(Word) /\ f \in Seq(Word)
  BY <1>1
<1>4. /\ SubSeq(base \o f, 1, Len(base \o f) - Len(f)) = base
      /\ \A i \in 1..Len(f) : (base \o f)[Len(base \o f) + 1 - i] = f[Len(f) + 1 - i]
  BY <1>3, Popped, Zenon
<1>5. Len(base \o f) = Len(base) + 5 /\ Len(base) \in Nat
  <2>1. Len(base \o f) = Len(base) + Len(f)
    BY <1>3, Joined, Zenon
  <2>2. Len(base) \in Nat
    BY <1>3, LenProperties
  <2> QED BY <1>1, <2>1, <2>2, Zenon
<1>6. Len(w) - 5 = Len(base \o f) - Len(f) /\ Len(w) - 4 = Len(base \o f) + 1 - 5
  BY <1>1, <1>2, <1>5
<1>7. 5 \in 1..Len(f) /\ Len(f) + 1 - 5 = 1
  BY <1>1
<1>8. SubSeq(w, 1, Len(w) - 5) = base
  BY <1>2, <1>4, <1>6, Zenon
<1>9. w[Len(w) - 4] = f[1]
  BY <1>2, <1>4, <1>6, <1>7, Zenon
<1> QED BY <1>1, <1>8, <1>9

(* After a switch from stack a, which held u, to stack b, on which p waits *)
(* above base.                                                             *)
SwitchDone(prev, next, states, resume, a, b, u, base, p) ==
  /\ pc' = p /\ sp' = b /\ current_task' = next /\ esp0' = next
  /\ state' = [states EXCEPT ![next] = "running"]
  /\ kernel_esp' = [kernel_esp EXCEPT ![prev] = a]
  /\ stack' = [s \in Stack |-> stack'[s]]
  /\ stack'[a] = u \o SwitchFrame(resume) /\ stack'[b] = base
  /\ \A s \in Stack \ {a, b} : stack'[s] = stack[s]

LEMMA Switches ==
  ASSUME NEW prev, NEW next, NEW states, NEW resume, context_switch(prev, next, states, resume),
         NEW a \in Stack, NEW b \in Stack, a # b, sp = a, kernel_esp[next] = b,
         stack = [s \in Stack |-> stack[s]],
         NEW u, stack[a] = u, NEW base \in Seq(Word), NEW p \in Pc, stack[b] = base \o SwitchFrame(p)
  PROVE  SwitchDone(prev, next, states, resume, a, b, u, base, p)
<1> DEFINE w == stack[b]
           top == Len(w)
           g == SwitchFrame(resume)
<1>1. /\ current_task' = next /\ esp0' = next
      /\ state' = [states EXCEPT ![next] = "running"]
      /\ kernel_esp' = [kernel_esp EXCEPT ![prev] = a]
      /\ sp' = b
      /\ stack' = [stack EXCEPT ![a] = @ \o g, ![b] = SubSeq(@, 1, top - 5)]
      /\ pc' = w[top - 4][2]
  BY Zenon DEF context_switch, Goto
<1>2. w = base \o SwitchFrame(p)
  BY Zenon
<1> HIDE DEF g
<1>7. SubSeq(w, 1, top - 5) = base /\ w[top - 4][2] = p
  <2>1. \A z : z = base \o SwitchFrame(p) => SubSeq(z, 1, Len(z) - 5) = base /\ z[Len(z) - 4][2] = p
    BY SwitchPops, Zenon
  <2> QED BY <1>2, <2>1, Zenon
<1>9. pc' = p
  BY <1>1, <1>7, Zenon
<1>10. stack' = [stack EXCEPT ![a] = @ \o g, ![b] = SubSeq(w, 1, top - 5)]
  <2> DEFINE m == top - 5
  <2>1. stack' = [stack EXCEPT ![a] = @ \o g, ![b] = SubSeq(@, 1, m)]
    BY <1>1, Zenon
  <2> HIDE DEF m
  <2>2. stack' = [stack EXCEPT ![a] = @ \o g, ![b] = SubSeq(stack[b], 1, m)]
    BY <2>1
  <2> QED BY <2>2, Zenon DEF m
<1>11. stack' = [stack EXCEPT ![a] = u \o g, ![b] = base]
  BY <1>7, <1>10, Zenon
<1> DEFINE z == u \o g
<1>12. stack' = [stack EXCEPT ![a] = z, ![b] = base]
  BY <1>11, Zenon
<1> HIDE DEF z, w
<1>13. stack' = [s \in Stack |-> stack'[s]] /\ stack'[a] = z /\ stack'[b] = base
       /\ \A s \in Stack \ {a, b} : stack'[s] = stack[s]
  BY <1>12
<1> QED BY <1>1, <1>9, <1>13, Zenon DEF SwitchDone, z, g

LEMMA IdlePc ==
  /\ At("idle", 0) \in Normal /\ At("idle", 0).at = "idle" /\ At("idle", 0).n = 0
  /\ Own(At("idle", 0)) = "idle" /\ Below(At("idle", 0)) = <<>>
  /\ FrameOf(At("idle", 0)) = KernelFrame(At("idle", 0))
  /\ FlagOf(At("idle", 0), TRUE) /\ FlagOf(At("idle", 0), FALSE)
<1>1. At("idle", 0) \in Normal /\ At("idle", 0).at = "idle" /\ At("idle", 0).n = 0
  BY DEF At, Normal, Pc, SYSCALL
<1>2. Own(At("idle", 0)) = "idle" /\ FlagOf(At("idle", 0), TRUE) /\ FlagOf(At("idle", 0), FALSE)
  BY <1>1 DEF Own, FlagOf
<1>3. Below(At("idle", 0)) = <<>> /\ FrameOf(At("idle", 0)) = KernelFrame(At("idle", 0))
  BY <1>1, Zenon DEF Below, FrameOf
<1> QED BY <1>1, <1>2, <1>3

LEMMA EnqueuePc ==
  /\ At("boot", 31) \in Normal /\ At("boot", 31).at = "boot" /\ At("boot", 31).n = 31
  /\ Own(At("boot", 31)) = "boot" /\ Below(At("boot", 31)) = <<>>
  /\ FrameOf(At("boot", 31)) = KernelFrame(At("boot", 31))
  /\ FlagOf(At("boot", 31), TRUE)
<1>1. At("boot", 31) \in Normal /\ At("boot", 31).at = "boot" /\ At("boot", 31).n = 31
  BY BootSteps DEF At, Normal, Pc, SYSCALL
<1>2. Own(At("boot", 31)) = "boot" /\ FlagOf(At("boot", 31), TRUE)
  BY <1>1 DEF Own, FlagOf
<1>3. Below(At("boot", 31)) = <<>> /\ FrameOf(At("boot", 31)) = KernelFrame(At("boot", 31))
  BY <1>1, Zenon DEF Below, FrameOf
<1> QED BY <1>1, <1>2, <1>3

(* What lies under the switch frame of a task that schedule() switched     *)
(* away.                                                                   *)
LEMMA SwitchedOutIs ==
  ASSUME NEW p \in Pc
  PROVE  /\ KernelFrame(p) \o Top(32) \in Seq(Word)
         /\ <<>> \o (KernelFrame(p) \o Top(32)) = KernelFrame(p) \o Top(32)
         /\ SwitchedOut(p) = (KernelFrame(p) \o Top(32)) \o SwitchFrame(At("switched", 32))
<1>1. KernelFrame(p) \in Seq(Word) /\ Top(32) \in Seq(Word)
  BY KernelFrameType, TopType
<1>2. KernelFrame(p) \o Top(32) \in Seq(Word)
  BY <1>1, Joined, Zenon
<1>3. <<>> \o (KernelFrame(p) \o Top(32)) = KernelFrame(p) \o Top(32)
  BY <1>2, ConcatEmptySeq, Zenon
<1> QED BY <1>2, <1>3, Zenon DEF SwitchedOut

(* A handler that goes on behind the switch, above code at p.              *)
LEMMA SwitchedPc ==
  ASSUME NEW p \in {At("boot", 31), At("idle", 0)}, NEW h
  PROVE  LET q == At("switched", 32)
         IN  q \in HandlerPc /\ HandlerAt(q, p, {}, h) /\ PushedBy(q, p) = FrameOf(p) \o Top(32)
<1> DEFINE q == At("switched", 32)
<1>1. q.at = "switched" /\ q.n = 32 /\ q.use = "none" /\ q \in HandlerPc
  BY DEF At, HandlerPc, SYSCALL
<1> HIDE DEF q
<1>2. HandlerAt(q, p, {}, h)
  BY <1>1 DEF HandlerAt
<1>3. PushedBy(q, p) = FrameOf(p) \o Top(32)
  BY <1>1, Zenon DEF PushedBy
<1> QED BY <1>1, <1>2, <1>3 DEF q

(* The switch to idle, which starts or goes on behind its own switch.      *)
LEMMA ToIdle ==
  ASSUME NEW p \in Normal, NEW x, Stacks(p, x, state, stack), sp = Own(p), Own(p) # "idle",
         Done(p, 25), kernel_esp \in [Task -> Stack \cup {"none"}], kernel_esp["idle"] = "idle",
         NEW states \in [Task -> State], NEW resume,
         context_switch("proc1", "idle", states, resume),
         \/ /\ Own(p) = "boot" /\ states["proc1"] = "ready"
            /\ (Below(p) \o x) \o SwitchFrame(resume) = SwitchedOut(At("boot", 31))
         \/ /\ Own(p) = "proc1" /\ states["proc1"] = "zombie"
            /\ (Below(p) \o x) \o SwitchFrame(resume) = SysStack \o SwitchFrame(At("spin", 0)),
         Tables(At("idle", 0), idt', handlers', imr'), flag_if' = FALSE, isr' = {}
  PROVE  InCode' \/ InHandler'
<1> DEFINE q == At("idle", 0)
           u == Below(p) \o x
<1>1. stack = [s \in Stack |-> stack[s]] /\ stack[Own(p)] = u /\ stack["idle"] \in IdleFrames
      /\ (Own(p) = "proc1" => stack["boot"] = <<>>) /\ (Own(p) = "boot" => stack["proc1"] = <<>>)
  BY Zenon DEF Stacks, Others
<1>2. Own(p) \in Stack /\ "idle" \in Stack /\ q \in Pc /\ At("switched", 32) \in Pc
  BY BelowType, UserIsPc DEF Stack
<1> HIDE DEF u
<1>3. ASSUME NEW base \in Seq(Word), NEW to \in Pc, stack["idle"] = base \o SwitchFrame(to)
      PROVE  /\ pc' = to /\ sp' = "idle" /\ Stacks(q, base, state', stack')
             /\ Tasks(q, esp0', current_task', state', kernel_esp')
  <2>1. /\ pc' = to /\ sp' = "idle" /\ current_task' = "idle" /\ esp0' = "idle"
        /\ state' = [states EXCEPT !["idle"] = "running"]
        /\ kernel_esp' = [kernel_esp EXCEPT !["proc1"] = Own(p)]
        /\ stack' = [s \in Stack |-> stack'[s]]
        /\ stack'[Own(p)] = u \o SwitchFrame(resume) /\ stack'["idle"] = base
        /\ \A s \in Stack \ {Own(p), "idle"} : stack'[s] = stack[s]
    <3>1. /\ Own(p) \in Stack /\ "idle" \in Stack /\ Own(p) # "idle" /\ sp = Own(p)
          /\ kernel_esp["idle"] = "idle" /\ stack = [s \in Stack |-> stack[s]] /\ stack[Own(p)] = u
          /\ context_switch("proc1", "idle", states, resume)
      BY <1>1, <1>2
    <3>2. SwitchDone("proc1", "idle", states, resume, Own(p), "idle", u, base, to)
      BY <1>3, <3>1, Switches
    <3> QED BY <3>2, Zenon DEF SwitchDone
  <2>2. state' \in [Task -> State] /\ state'["proc1"] = states["proc1"]
        /\ kernel_esp' \in [Task -> Stack \cup {"none"}] /\ kernel_esp'["proc1"] = Own(p)
        /\ kernel_esp'["idle"] = "idle"
    BY <1>2, <2>1 DEF Task, State
  <2>3. Others(q, state', stack')
    <3>1. CASE Own(p) = "boot"
      <4>1. stack'["boot"] = SwitchedOut(At("boot", 31)) /\ stack'["proc1"] = <<>>
            /\ state'["proc1"] = "ready"
        <5>1. "proc1" \in Stack \ {Own(p), "idle"}
          BY <3>1 DEF Stack
        <5>2. stack'["proc1"] = <<>> /\ state'["proc1"] = "ready"
          BY <1>1, <2>1, <2>2, <3>1, <5>1
        <5> QED BY <2>1, <3>1, <5>2, Zenon DEF u
      <4> QED BY <4>1, IdlePc, Zenon DEF Others
    <3>2. CASE Own(p) = "proc1"
      <4>1. stack'["proc1"] = SysStack \o SwitchFrame(At("spin", 0)) /\ stack'["boot"] = <<>>
            /\ state'["proc1"] # "ready"
        <5>1. "boot" \in Stack \ {Own(p), "idle"}
          BY <3>2 DEF Stack
        <5>2. stack'["boot"] = <<>> /\ state'["proc1"] # "ready"
          BY <1>1, <2>1, <2>2, <3>2, <5>1
        <5> QED BY <2>1, <3>2, <5>2, Zenon DEF u
      <4> QED BY <4>1, IdlePc, Zenon DEF Others
    <3> QED BY <3>1, <3>2
  <2>4. Below(q) \o base = base
    <3>1. <<>> \o base = base
      BY <1>3
    <3> QED BY <3>1, IdlePc, Zenon
  <2>5. Stacks(q, base, state', stack')
    BY <2>1, <2>3, <2>4, IdlePc, Zenon DEF Stacks
  <2>6. Tasks(q, esp0', current_task', state', kernel_esp')
    <3>1. state'["proc1"] \in {"ready", "zombie"}
      BY <2>2
    <3>2. state'["proc1"] = "ready" => kernel_esp'["proc1"] = "boot"
      BY <2>2
    <3> HIDE DEF q
    <3>3. q.at = "idle" /\ Own(q) = "idle"
      BY IdlePc DEF q
    <3> QED BY <2>1, <2>2, <3>1, <3>2, <3>3 DEF Tasks
  <2> QED BY <2>1, <2>5, <2>6
<1>4. CASE stack["idle"] = SwitchFrame(q)
  <2>1. <<>> \in Seq(Word) /\ SwitchFrame(q) = <<>> \o SwitchFrame(q)
    BY <1>2, SwitchFrameType, ConcatEmptySeq
  <2>2. stack["idle"] = <<>> \o SwitchFrame(q)
    BY <1>4, <2>1, Zenon
  <2>3. pc' = q /\ sp' = "idle" /\ Stacks(q, <<>>, state', stack')
        /\ Tasks(q, esp0', current_task', state', kernel_esp')
    BY <1>2, <1>3, <2>1, <2>2
  <2> HIDE DEF q
  <2>4. q \in Normal /\ FlagOf(q, FALSE) /\ Own(q) = "idle" /\ Tables(q, idt', handlers', imr')
    BY IdlePc DEF q
  <2>5. InCode'
    BY <2>3, <2>4 DEF InCode
  <2> QED BY <2>5
<1>5. CASE stack["idle"] = SwitchedOut(q)
  <2> DEFINE base == KernelFrame(q) \o Top(32)
             to == At("switched", 32)
  <2>1. base \in Seq(Word) /\ stack["idle"] = base \o SwitchFrame(to)
    BY <1>2, <1>5, SwitchedOutIs, Zenon
  <2> HIDE DEF base
  <2>2. pc' = to /\ sp' = "idle" /\ Stacks(q, base, state', stack')
        /\ Tasks(q, esp0', current_task', state', kernel_esp')
    BY <1>2, <1>3, <2>1
  <2>3. to \in HandlerPc /\ HandlerAt(to, q, {}, handlers') /\ PushedBy(to, q) = FrameOf(q) \o Top(32)
    BY SwitchedPc
  <2>4. PushedBy(to, q) = base
    BY <2>3, IdlePc, Zenon DEF base
  <2> HIDE DEF to, q
  <2>5. Stacks(q, PushedBy(pc', q), state', stack')
    BY <2>2, <2>4, Zenon
  <2>6. q \in Normal /\ q.at # "hlt" /\ FlagOf(q, TRUE) /\ Own(q) = "idle" /\ Tables(q, idt', handlers', imr')
    BY IdlePc DEF q
  <2>7. pc' \in HandlerPc /\ HandlerAt(pc', q, isr', handlers')
    BY <2>2, <2>3
  <2>8. InHandler'
    BY <2>2, <2>5, <2>6, <2>7 DEF InHandler, Waits
  <2> QED BY <2>8
<1> QED BY <1>1, <1>4, <1>5 DEF IdleFrames

(* The switch back to main(), which waits in enqueue_task.                 *)
LEMMA BackToBoot ==
  ASSUME Waits(At("idle", 0)), pc.at = "schedule", pc.n = 32, state["proc1"] = "ready",
         NEW states \in [Task -> State],
         context_switch("idle", "proc1", states, At("switched", 32)),
         UNCHANGED <<flag_if, imr, isr, tables>>
  PROVE  InHandler'
<1> DEFINE p == At("idle", 0)
           q == At("boot", 31)
           to == At("switched", 32)
           u == KernelFrame(p) \o Top(32)
           base == KernelFrame(q) \o Top(32)
<1>P. p \in Pc /\ q \in Pc /\ to \in Pc /\ p \in Normal /\ q \in Normal
  BY UserIsPc, IdlePc, EnqueuePc
<1>1. PushedBy(pc, p) = u
  BY IdlePc, Zenon DEF PushedBy
<1>2. u \in Seq(Word) /\ <<>> \o u = u /\ SwitchedOut(p) = u \o SwitchFrame(to)
  BY <1>P, SwitchedOutIs, Zenon
<1>3. base \in Seq(Word) /\ <<>> \o base = base /\ SwitchedOut(q) = base \o SwitchFrame(to)
  BY <1>P, SwitchedOutIs, Zenon
<1>Q. /\ p.at = "idle" /\ Own(p) = "idle" /\ Below(p) = <<>>
      /\ q.at = "boot" /\ q.n = 31 /\ Own(q) = "boot" /\ Below(q) = <<>> /\ FlagOf(q, TRUE)
      /\ FrameOf(q) = KernelFrame(q)
  BY IdlePc, EnqueuePc
<1>R. to \in HandlerPc /\ HandlerAt(to, q, {}, handlers') /\ PushedBy(to, q) = FrameOf(q) \o Top(32)
  BY SwitchedPc
<1>S. PushedBy(to, q) = base
  BY <1>Q, <1>R, Zenon
<1>W. Waits(p)
  OBVIOUS
<1>C. context_switch("idle", "proc1", states, to)
  OBVIOUS
<1> HIDE DEF u, base
<1>4. /\ Stacks(p, u, state, stack) /\ sp = "idle" /\ flag_if = FALSE /\ isr = {}
      /\ Tables(p, idt, handlers, imr) /\ Tasks(p, esp0, current_task, state, kernel_esp)
  <2>1. Stacks(p, PushedBy(pc, p), state, stack) /\ sp = "idle" /\ flag_if = FALSE
        /\ HandlerAt(pc, p, isr, handlers)
        /\ Tables(p, idt, handlers, imr) /\ Tasks(p, esp0, current_task, state, kernel_esp)
    BY <1>Q, <1>W DEF Waits
  <2>2. isr = {}
    BY <2>1 DEF HandlerAt
  <2> QED BY <1>1, <2>1, <2>2, Zenon
<1>5. /\ stack = [s \in Stack |-> stack[s]] /\ stack["idle"] = u
      /\ stack["boot"] = base \o SwitchFrame(to) /\ stack["proc1"] = <<>>
  <2>1. stack = [s \in Stack |-> stack[s]] /\ stack["idle"] = Below(p) \o u
        /\ stack["boot"] = SwitchedOut(q) /\ stack["proc1"] = <<>>
    BY <1>4, <1>Q, Zenon DEF Stacks, Others
  <2> QED BY <1>2, <1>3, <1>Q, <2>1, Zenon
<1>6. kernel_esp["proc1"] = "boot" /\ kernel_esp["idle"] = "idle" /\ kernel_esp \in [Task -> Stack \cup {"none"}]
  BY <1>4, <1>Q DEF Tasks, Done
<1> HIDE DEF p, q, to
<1>7. /\ pc' = to /\ sp' = "boot" /\ current_task' = "proc1" /\ esp0' = "proc1"
      /\ state' = [states EXCEPT !["proc1"] = "running"]
      /\ kernel_esp' = [kernel_esp EXCEPT !["idle"] = "idle"]
      /\ stack' = [s \in Stack |-> stack'[s]]
      /\ stack'["idle"] = u \o SwitchFrame(to) /\ stack'["boot"] = base
      /\ \A s \in Stack \ {"idle", "boot"} : stack'[s] = stack[s]
  <2>1. "idle" \in Stack /\ "boot" \in Stack
    BY DEF Stack
  <2>2. "idle" # "boot"
    OBVIOUS
  <2>3. SwitchDone("idle", "proc1", states, to, "idle", "boot", u, base, to)
    BY <1>P, <1>C, <1>3, <1>4, <1>5, <1>6, <2>1, <2>2, Switches
  <2> QED BY <2>3, Zenon DEF SwitchDone
<1>8. state' \in [Task -> State] /\ state'["proc1"] = "running"
      /\ kernel_esp' \in [Task -> Stack \cup {"none"}] /\ kernel_esp'["idle"] = "idle"
  BY <1>6, <1>7 DEF Task, State, Stack
<1>9. Stacks(q, base, state', stack')
  <2>1. stack'["proc1"] = <<>>
    BY <1>5, <1>7 DEF Stack
  <2>2. stack'["idle"] \in IdleFrames
    BY <1>2, <1>7, Zenon DEF IdleFrames, p
  <2>3. Done(q, 25)
    BY <1>Q DEF Done
  <2>4. Others(q, state', stack')
    BY <1>Q, <2>1, <2>2, <2>3 DEF Others
  <2> QED BY <1>3, <1>7, <1>Q, <2>4, Zenon DEF Stacks
<1>10. Tasks(q, esp0', current_task', state', kernel_esp')
  BY <1>7, <1>8, <1>Q DEF Tasks
<1>11. Tables(q, idt', handlers', imr')
  <2>1. Tables(p, idt', handlers', imr')
    BY <1>4 DEF tables
  <2>2. \A k \in {3, 4, 7, 9, 13, 21, 22} : Done(q, k) => Done(p, k)
    BY <1>Q DEF Done
  <2> QED BY <1>Q, <2>1, <2>2, TablesKept
<1>12. Stacks(q, PushedBy(pc', q), state', stack')
  BY <1>7, <1>9, <1>S, Zenon
<1>13. pc' \in HandlerPc /\ HandlerAt(pc', q, isr', handlers') /\ flag_if' = FALSE
  BY <1>4, <1>7, <1>R
<1> QED BY <1>7, <1>10, <1>11, <1>12, <1>13, <1>P, <1>Q DEF InHandler, Waits

LEMMA scheduleStep == ASSUME Inv, schedule PROVE Inv'
<1>1. pc.at = "schedule" /\ UNCHANGED <<flag_if, pics, tables>>
  BY DEF schedule, Handler
<1>2. PICK p \in Normal : Waits(p)
  BY <1>1, Where DEF InHandler
<1>3. pc.n = 32 /\ isr = {}
  BY <1>1, <1>2 DEF Waits, HandlerAt
<1>T. Tasks(p, esp0, current_task, state, kernel_esp) /\ FlagOf(p, TRUE) /\ p.at # "hlt" /\ p \in Pc
  BY <1>2 DEF Waits, Normal
<1>4. CASE pc.use = "none" /\ dead_task /\ current_task = "idle"
  <2>0. UNCHANGED <<stack, sp, current_task, state, kernel_esp, esp0>>
    BY <1>4 DEF schedule
  <2>1. pc' = [pc EXCEPT !.use = "heap"] /\ Own(p) = "idle"
    BY <1>4, <1>T DEF schedule, Goto, Tasks, Own
  <2>2. pc'.at = "schedule" /\ pc'.n = 32 /\ pc'.use = "heap" /\ pc' \in HandlerPc
    BY <1>1, <1>2, <1>3, <2>1 DEF Waits, HandlerPc, Place
  <2>3. HandlerAt(pc', p, isr', handlers')
    BY <1>1, <1>3, <2>1, <2>2 DEF HandlerAt, pics
  <2>4. PushedBy(pc', p) = PushedBy(pc, p)
    BY <1>1, <1>3, <2>2, Zenon DEF PushedBy
  <2> QED BY <1>1, <1>2, <2>0, <2>2, <2>3, <2>4, HandlerMoves DEF Inv, pics
<1>5. CASE ~(pc.use = "none" /\ dead_task /\ current_task = "idle") /\ current_task \in {"none", next_task}
  <2>0. UNCHANGED <<stack, sp, current_task, state, kernel_esp, esp0>>
    BY <1>5 DEF schedule
  <2>1. pc' = [at |-> "leave", n |-> 32, use |-> "none"]
    BY <1>3, <1>5 DEF schedule, Goto, At, NextCall
  <2>2. HandlerAt(pc', p, isr', handlers') /\ pc' \in HandlerPc
    BY <1>1, <1>3, <2>1 DEF HandlerAt, HandlerPc, Irq, pics, SYSCALL
  <2>3. pc'.at = "leave" /\ pc'.n = 32
    BY <2>1
  <2>4. PushedBy(pc', p) = PushedBy(pc, p)
    BY <1>1, <1>3, <2>3, Zenon DEF PushedBy
  <2> QED BY <1>1, <1>2, <2>0, <2>2, <2>4, HandlerMoves DEF Inv, pics
<1>6. CASE ~(pc.use = "none" /\ dead_task /\ current_task = "idle") /\ current_task \notin {"none", next_task}
  <2> DEFINE states == [state EXCEPT ![current_task] = "ready"]
  <2>1. context_switch(current_task, next_task, states, At("switched", 32))
    BY <1>3, <1>6, Zenon DEF schedule
  <2>2. state \in [Task -> State] /\ next_task \in Task /\ current_task # "none" /\ current_task # next_task
    BY <1>6, <1>T DEF Tasks, next_task, Task
  <2>3. current_task \in Task
    BY <1>T, <2>2 DEF Tasks, Task, Own
  <2>4. states \in [Task -> State] /\ states[current_task] = "ready"
        /\ \A s \in Task : s # current_task => states[s] = state[s]
    BY <2>2, <2>3 DEF State
  <2> HIDE DEF states
  <2>5. CASE current_task = "idle"
    <3>1. next_task = "proc1" /\ state["proc1"] \in {"ready", "running"}
      BY <2>2, <2>5 DEF next_task, Task
    <3>2. Own(p) = "idle" /\ state["proc1"] = "ready"
      BY <1>T, <2>5, <3>1 DEF Tasks, Own
    <3>3. p = At("idle", 0)
      BY <1>T, <3>2 DEF Own, Normal, Pc, At
    <3>4. InHandler'
      BY <1>1, <1>2, <1>3, <2>1, <2>4, <2>5, <3>1, <3>2, <3>3, BackToBoot DEF pics
    <3> QED BY <1>1, <3>4 DEF Inv, pics
  <2>6. CASE current_task = "proc1"
    <3>1. next_task = "idle" /\ state["proc1"] \notin {"ready", "running"}
      BY <2>2, <2>6 DEF next_task, Task
    <3>2. p.at = "boot" /\ p.n = 31
      <4>1. p.at # "exit" /\ p.at # "switch_mm"
        BY <1>T DEF FlagOf
      <4>2. Own(p) = "boot" /\ p.at # "spin"
        BY <1>T, <2>6, <3>1, <4>1 DEF Tasks, Own
      <4>3. p.at = "boot"
        BY <4>2 DEF Own
      <4>4. p.n \in Nat /\ p.n > 30 /\ ~(p.n > 31)
        BY <1>T, <2>6, <3>1, <4>3 DEF Tasks, Pc
      <4> QED BY <4>3, <4>4
    <3>3. p = At("boot", 31)
      <4>1. p.use = "none"
        <5>1. Boot[31][1] # "use"
          BY BootWhere
        <5> QED BY <3>2, <5>1 DEF Normal
      <4> QED BY <1>T, <3>2, <4>1 DEF Pc, At
    <3>4. Own(p) = "boot" /\ Below(p) = <<>> /\ FrameOf(p) = KernelFrame(p) /\ p \in Pc /\ Done(p, 25)
      BY <3>2, <3>3, EnqueuePc, UserIsPc DEF Done
    <3>5. Stacks(p, PushedBy(pc, p), state, stack) /\ sp = Own(p) /\ flag_if = FALSE
          /\ Tables(p, idt, handlers, imr)
      BY <1>2 DEF Waits
    <3>6. PushedBy(pc, p) = KernelFrame(p) \o Top(32)
      BY <1>1, <1>3, <3>4, Zenon DEF PushedBy
    <3>7. (Below(p) \o PushedBy(pc, p)) \o SwitchFrame(At("switched", 32)) = SwitchedOut(At("boot", 31))
      BY <3>3, <3>4, <3>6, SwitchedOutIs, Zenon
    <3>8. Tables(At("idle", 0), idt', handlers', imr')
      <4>1. Tables(p, idt', handlers', imr') /\ p.n \in Nat /\ p.n > 22
        BY <1>1, <3>2, <3>5 DEF pics, tables
      <4>2. At("idle", 0).at # "boot"
        BY IdlePc
      <4> QED BY <4>1, <4>2, TablesAfterBoot
    <3>9. kernel_esp \in [Task -> Stack \cup {"none"}] /\ kernel_esp["idle"] = "idle"
      BY <1>T, <3>4 DEF Tasks
    <3>10. context_switch("proc1", "idle", states, At("switched", 32)) /\ states["proc1"] = "ready"
      BY <2>1, <2>4, <2>6, <3>1
    <3>11. Own(p) # "idle" /\ flag_if' = FALSE /\ isr' = {}
      BY <1>1, <1>3, <3>4, <3>5 DEF pics
    <3>12. InCode' \/ InHandler'
      <4> DEFINE x == PushedBy(pc, p)
      <4>1. Stacks(p, x, state, stack) /\ (Below(p) \o x) \o SwitchFrame(At("switched", 32)) = SwitchedOut(At("boot", 31))
        BY <3>5, <3>7
      <4> HIDE DEF x
      <4> QED BY <2>4, <3>4, <3>5, <3>8, <3>9, <3>10, <3>11, <4>1, ToIdle
    <3> QED BY <1>1, <3>12 DEF Inv, pics
  <2> QED BY <2>3, <2>5, <2>6 DEF Task
<1> QED BY <1>4, <1>5, <1>6

LEMMA SwitchedStep == ASSUME Inv, Switched PROVE Inv'
<1>1. /\ pc.at = "switched" /\ pc' = At("leave", pc.n)
      /\ state' = [state EXCEPT ![IF sp = "idle" THEN "idle" ELSE "proc1"] = "running"]
      /\ UNCHANGED <<flag_if, stack, sp, pics, tables, current_task, kernel_esp, esp0>>
  BY DEF Switched, Handler, Goto, NextCall
<1>2. PICK p \in Normal : Waits(p)
  BY <1>1, Where DEF InHandler
<1>3. pc.n = 32 /\ isr = {} /\ sp = Own(p) /\ FlagOf(p, TRUE)
      /\ Tasks(p, esp0, current_task, state, kernel_esp)
  BY <1>1, <1>2 DEF Waits, HandlerAt
<1>4. HandlerAt(pc', p, isr', handlers') /\ pc' \in HandlerPc /\ pc'.at = "leave" /\ pc'.n = 32
  BY <1>1, <1>3 DEF HandlerAt, HandlerPc, Irq, pics, At, SYSCALL
<1>5. PushedBy(pc', p) = PushedBy(pc, p)
  BY <1>1, <1>3, <1>4, Zenon DEF PushedBy
<1>6. InHandler'
  <2>1. state \in [Task -> State] /\ "idle" \in Task /\ "proc1" \in Task /\ "running" \in State
    BY <1>3 DEF Tasks, Task, State
  <2>2. state' \in [Task -> State]
    BY <1>1, <2>1
  <2>3. CASE sp = "idle"
    <3>1. state'["proc1"] = state["proc1"]
      BY <1>1, <2>1, <2>3
    <3>2. Tasks(p, esp0', current_task', state', kernel_esp')
      BY <1>1, <1>3, <2>2, <3>1 DEF Tasks
    <3> QED BY <1>1, <1>2, <1>4, <1>5, <3>1, <3>2, HandlerGoesOn DEF pics
  <2>4. CASE sp # "idle"
    <3>1. state'["proc1"] = "running"
      BY <1>1, <2>1, <2>4
    <3>2. Own(p) # "idle" /\ p.at # "exit"
      BY <1>3, <2>4 DEF FlagOf
    <3>3. p.at = "boot" => p.n > 30
      <4>1. p \in {At("boot", 31), At("idle", 0)}
        BY <1>1, <1>2 DEF Waits, HandlerAt
      <4> QED BY <4>1, IdlePc, EnqueuePc
    <3>4. Tasks(p, esp0', current_task', state', kernel_esp')
      BY <1>1, <1>3, <2>2, <3>1, <3>2, <3>3 DEF Tasks
    <3> QED BY <1>1, <1>2, <1>4, <1>5, <3>2, <3>4, HandlerGoesOn DEF pics
  <2> QED BY <2>3, <2>4
<1> QED BY <1>1, <1>6 DEF Inv, pics

LEMMA exceptions_dispatchStep == ASSUME Inv, exceptions_dispatch PROVE Inv'
<1>1. pc.at = "dispatch" /\ Class(pc.n) = "exception"
      /\ pc' = (IF pc.n \in handlers THEN [At("fault", 1) EXCEPT !.use = "pools"] ELSE At("leave", pc.n))
      /\ UNCHANGED <<flag_if, stack, sp, pics, tables, tasks>>
  BY DEF exceptions_dispatch, Handler, Goto
<1>2. PICK p \in Normal : Waits(p)
  BY <1>1, Where DEF InHandler
<1>3. pc.n \in Exception /\ isr = {} /\ p.use = "none" /\ (pc.n \in handlers => pc.n = 14)
  BY <1>1, <1>2, InterruptsAssumption DEF Waits, HandlerAt, Irq, Class, Exception, Tables, SYSCALL
<1>4. /\ pc'.at = (IF pc.n \in handlers THEN "fault" ELSE "leave")
      /\ pc'.use = (IF pc.n \in handlers THEN "pools" ELSE "none")
      /\ pc.n \notin handlers => pc'.n = pc.n
      /\ pc' \in HandlerPc
  BY <1>1, <1>2 DEF At, Waits, HandlerPc, Place, SYSCALL
<1>5. HandlerAt(pc', p, isr', handlers')
  BY <1>1, <1>3, <1>4 DEF HandlerAt, pics
<1>6. PushedBy(pc', p) = PushedBy(pc, p)
  <2>1. pc.n \in handlers => pc.n = 14
    BY <1>3
  <2>2. CASE pc.n \in handlers
    <3>1. pc.at = "dispatch" /\ pc.n = 14 /\ pc'.at = "fault"
      BY <1>1, <1>4, <2>1, <2>2
    <3> QED BY <3>1, Zenon DEF PushedBy
  <2>3. CASE pc.n \notin handlers
    <3>1. pc.at = "dispatch" /\ pc'.n = pc.n /\ pc'.at = "leave"
      BY <1>1, <1>4, <2>3
    <3> QED BY <3>1, Zenon DEF PushedBy
  <2> QED BY <2>2, <2>3
<1> QED BY <1>1, <1>2, <1>4, <1>5, <1>6, HandlerMoves DEF Inv, pics, tasks

LEMMA page_fault_handlerStep == ASSUME Inv, page_fault_handler PROVE Inv'
<1>1. pc.at = "fault" /\ irr' \subseteq irr \cup {14}
      /\ UNCHANGED <<flag_if, stack, sp, imr, isr, tables, tasks>>
      /\ \/ pc.n = 1 /\ pc' = [pc EXCEPT !.n = 2, !.use = "disk"]
         \/ pc' = At("leave", 14)
         \/ pc' = [At("panic", 0) EXCEPT !.use = "console"]
  BY DEF page_fault_handler, Handler, Goto
<1>2. PICK p \in Normal : Waits(p)
  BY <1>1, Where DEF InHandler
<1>3. isr = {} /\ p.use = "none" /\ 14 \in Exception
  BY <1>1, <1>2 DEF Waits, HandlerAt, Exception
<1>4. \/ pc'.at = "fault" /\ pc'.use = "disk"
      \/ pc'.at = "leave" /\ pc'.n = 14 /\ pc'.use = "none"
      \/ pc'.at = "panic" /\ pc'.use = "console"
  <2>1. pc \in HandlerPc
    BY <1>2 DEF Waits
  <2>2. ASSUME pc' = [pc EXCEPT !.n = 2, !.use = "disk"]
        PROVE  pc'.at = "fault" /\ pc'.use = "disk"
    BY <1>1, <2>1, <2>2 DEF HandlerPc
  <2> QED BY <1>1, <2>2 DEF At
<1>7. pc' \in HandlerPc
  <2>1. pc \in HandlerPc
    BY <1>2 DEF Waits
  <2>2. ASSUME pc' = [pc EXCEPT !.n = 2, !.use = "disk"]
        PROVE  pc' \in HandlerPc
    <3> DEFINE q == [pc EXCEPT !.n = 2]
    <3>1. q \in HandlerPc
      BY <2>1 DEF HandlerPc, SYSCALL
    <3>2. pc' = [q EXCEPT !.use = "disk"]
      BY <2>2
    <3> HIDE DEF q
    <3> QED BY <3>1, <3>2 DEF HandlerPc, Place
  <2>3. At("leave", 14) \in HandlerPc /\ [At("panic", 0) EXCEPT !.use = "console"] \in HandlerPc
    BY DEF HandlerPc, Place, SYSCALL, At
  <2> QED BY <1>1, <2>2, <2>3
<1>5. HandlerAt(pc', p, isr', handlers')
  BY <1>1, <1>3, <1>4 DEF HandlerAt
<1>6. PushedBy(pc', p) = PushedBy(pc, p)
  BY <1>1, <1>4, Zenon DEF PushedBy
<1> QED BY <1>1, <1>2, <1>5, <1>6, <1>7, HandlerMoves DEF Inv, tasks

LEMMA SyscallPcs ==
  /\ At("leave", SYSCALL) \in Normal /\ At("iret", SYSCALL) \in Normal /\ User \in Normal
  /\ Own(At("leave", SYSCALL)) = "proc1" /\ Own(At("iret", SYSCALL)) = "proc1" /\ Own(User) = "proc1"
  /\ Below(At("leave", SYSCALL)) = SysStack /\ Below(At("iret", SYSCALL)) = UserFrame
  /\ Below(User) = <<>>
<1>1. /\ At("leave", SYSCALL).at = "leave" /\ At("iret", SYSCALL).at = "iret" /\ User.at = "user"
  BY DEF At, User
<1>2. Below(At("leave", SYSCALL)) = SysStack /\ Below(At("iret", SYSCALL)) = UserFrame
      /\ Below(User) = <<>>
  BY <1>1, Zenon DEF Below
<1>3. At("leave", SYSCALL) \in Normal /\ At("iret", SYSCALL) \in Normal /\ User \in Normal
  BY DEF At, User, Normal, Pc, SYSCALL
<1> QED BY <1>1, <1>2, <1>3 DEF Own

(* Code changes its own stack and goes on in code of the same stack.       *)
LEMMA CodePops ==
  ASSUME InCode, pc.at \notin {"boot", "user", "exit"}, NEW q \in Normal, pc' = q,
         q.at \notin {"boot", "exit", "spin"},
         FlagOf(q, flag_if'), Own(q) = Own(pc),
         stack' = [stack EXCEPT ![sp] = Below(q)],
         UNCHANGED <<sp, isr, imr, tables, esp0, current_task, state, kernel_esp>>
  PROVE  InCode'
<1>1. pc \in Normal /\ sp = Own(q) /\ Stacks(pc, <<>>, state, stack)
  BY DEF InCode
<1>2. Done(pc, 25) <=> Done(q, 25)
  BY DEF Done
<1>3. Below(q) \o <<>> = Below(q)
  BY BelowType, ConcatEmptySeq
<1>4. Stacks(q, <<>>, state, [stack EXCEPT ![Own(q)] = Below(q) \o <<>>])
  BY <1>1, <1>2, Exchange, Zenon
<1>5. Stacks(q, <<>>, state', stack')
  BY <1>1, <1>3, <1>4, Zenon
<1>6. Tables(q, idt', handlers', imr')
  BY TablesAfterBoot DEF InCode, tables
<1>7. Tasks(q, esp0', current_task', state', kernel_esp')
  <2>1. Tasks(pc, esp0', current_task', state', kernel_esp')
    BY DEF InCode
  <2> QED BY <2>1, TasksKept
<1> QED BY <1>1, <1>5, <1>6, <1>7 DEF InCode

LEMMA LeaveStep == ASSUME Inv, Leave PROVE Inv'
<1>1. pc.at = "leave" /\ pc' = At("iret", pc.n)
      /\ stack' = [stack EXCEPT ![sp] = SubSeq(stack[sp], 1, Len(stack[sp]) - Unwound(pc.n))]
      /\ UNCHANGED <<flag_if, sp, pics, tables, tasks>>
  BY DEF Leave, Handler, Goto
<1>2. CASE pc.n = SYSCALL
  <2>1. InCode
    BY <1>1, <1>2, Where
  <2>2. pc = At("leave", SYSCALL)
    BY <1>1, <1>2, <2>1 DEF InCode, Normal, Pc, At
  <2>3. stack[sp] = SysStack \o <<>>
    <3>1. pc \in Normal /\ sp = Own(pc) /\ Stacks(pc, <<>>, state, stack)
      BY <1>1, <2>1 DEF InCode
    <3>2. stack[Own(pc)] = Below(pc) \o <<>>
      BY <3>1, Replace, Zenon
    <3> QED BY <2>2, <3>1, <3>2, SyscallPcs, Zenon
  <2>4. stack[sp] = SysStack
    BY <2>3, SysStackType, ConcatEmptySeq, Zenon
  <2>5. UserFrame \in Seq(Word) /\ Top(SYSCALL) \in Seq(Word) /\ Len(Top(SYSCALL)) = Unwound(SYSCALL)
    BY UserFrameType, TopType DEF SYSCALL
  <2>6. SubSeq(SysStack, 1, Len(SysStack) - Len(Top(SYSCALL))) = UserFrame
    BY <2>5, Popped, Zenon DEF SysStack
  <2>7. stack' = [stack EXCEPT ![sp] = Below(At("iret", SYSCALL))]
    BY <1>1, <1>2, <2>4, <2>5, <2>6, SyscallPcs, Zenon
  <2>8. flag_if' = TRUE /\ pc' = At("iret", SYSCALL)
    BY <1>1, <1>2, <2>1 DEF InCode, FlagOf
  <2> QED BY <1>1, <2>1, <2>2, <2>7, <2>8, SyscallPcs, CodePops DEF Inv, pics, tasks, FlagOf, At
<1>3. CASE pc.n # SYSCALL
  <2>1. PICK p \in Normal : Waits(p)
    BY <1>1, <1>3, Where DEF InHandler
  <2>2. pc.n \in Irq \cup Exception /\ isr = {} /\ pc.n \in Nat
    BY <1>1, <2>1, InterruptsAssumption DEF Waits, HandlerAt, HandlerPc
  <2>3. pc' \in HandlerPc /\ HandlerAt(pc', p, isr', handlers') /\ pc'.at = "iret"
    BY <1>1, <2>1, <2>2 DEF Waits, HandlerPc, HandlerAt, At, pics
  <2>4. PushedBy(pc, p) = FrameOf(p) \o Top(pc.n) /\ PushedBy(pc', p) = FrameOf(p)
    BY <1>1, <2>3, Zenon DEF PushedBy
  <2>5. sp = Own(p) /\ Stacks(p, FrameOf(p) \o Top(pc.n), state, stack)
    BY <2>1, <2>4 DEF Waits
  <2>6. stack[sp] = Below(p) \o (FrameOf(p) \o Top(pc.n))
    BY <2>5, Replace, Zenon
  <2>7. /\ Below(p) \in Seq(Word) /\ FrameOf(p) \in Seq(Word) /\ Top(pc.n) \in Seq(Word)
        /\ Len(Top(pc.n)) = Unwound(pc.n)
    BY <2>2, BelowType, FrameType, TopType
  <2>8. SubSeq(stack[sp], 1, Len(stack[sp]) - Unwound(pc.n)) = Below(p) \o FrameOf(p)
    <3> DEFINE x == Below(p) \o FrameOf(p)
    <3>1. x \in Seq(Word)
      BY <2>7, Joined
    <3>2. x \o Top(pc.n) = Below(p) \o (FrameOf(p) \o Top(pc.n))
      BY <2>7, ConcatAssociative
    <3>3. stack[sp] = x \o Top(pc.n)
      BY <2>6, <3>2, Zenon
    <3> HIDE DEF x
    <3>4. SubSeq(x \o Top(pc.n), 1, Len(x \o Top(pc.n)) - Len(Top(pc.n))) = x
      BY <3>1, <2>7, Popped, Zenon
    <3> QED BY <2>7, <3>3, <3>4, Zenon DEF x
  <2>9. stack' = [stack EXCEPT ![Own(p)] = Below(p) \o FrameOf(p)]
    BY <1>1, <2>5, <2>8, Zenon
  <2>10. Stacks(p, FrameOf(p), state', stack')
    <3>1. Stacks(p, FrameOf(p), state, [stack EXCEPT ![Own(p)] = Below(p) \o FrameOf(p)])
      BY <2>5, Replace, Zenon
    <3>2. state' = state
      BY <1>1 DEF tasks
    <3> QED BY <2>9, <3>1, <3>2, Zenon
  <2> QED BY <1>1, <2>1, <2>3, <2>4, <2>10 DEF Inv, InHandler, Waits, pics, tables, tasks
<1> QED BY <1>2, <1>3

(* The words that iret pops from s, under which lies b.                    *)
FrameOnTop(s, b, p) ==
  LET word(j) == s[Len(s) + 1 - j]
  IN  /\ word(1)[1] = "eip" /\ word(2)[1] = "cs" /\ word(3)[1] = "eflags"
      /\ word(1)[2] = p /\ word(2)[2] = (p.at = "user") /\ word(3)[2] = TRUE
      /\ SubSeq(s, 1, Len(s) - (IF word(2)[2] THEN 5 ELSE 3)) = b

LEMMA FrameWords ==
  ASSUME NEW p \in Normal, NEW b \in Seq(Word), p.at = "user" => p = User
  PROVE  FrameOnTop(b \o FrameOf(p), b, p)
<1> DEFINE f == FrameOf(p)
           s == b \o f
           word(j) == s[Len(s) + 1 - j]
<1>0. p \in Pc
  BY DEF Normal
<1>1. f \in Seq(Word) /\ Len(f) = IF p.at = "user" THEN 5 ELSE 3
  BY <1>0, FrameType
<1>2. /\ SubSeq(s, 1, Len(s) - Len(f)) = b
      /\ \A j \in 1..Len(f) : word(j) = f[Len(f) + 1 - j]
  <2>1. f \in Seq(Word)
    BY <1>1
  <2> HIDE DEF f
  <2> QED BY <2>1, Popped, Zenon
<1>3. word(1) = f[Len(f)] /\ word(2) = f[Len(f) - 1] /\ word(3) = f[Len(f) - 2]
  <2>1. 1 \in 1..Len(f) /\ 2 \in 1..Len(f) /\ 3 \in 1..Len(f)
        /\ Len(f) + 1 - 1 = Len(f) /\ Len(f) + 1 - 2 = Len(f) - 1 /\ Len(f) + 1 - 3 = Len(f) - 2
    BY <1>1
  <2> HIDE DEF f
  <2> QED BY <1>2, <2>1, Zenon
<1>4. /\ f[Len(f)][1] = "eip" /\ f[Len(f) - 1][1] = "cs" /\ f[Len(f) - 2][1] = "eflags"
      /\ f[Len(f)][2] = p /\ f[Len(f) - 2][2] = TRUE
      /\ f[Len(f) - 1][2] = IF p.at = "user" THEN TRUE ELSE FALSE
  <2>1. CASE p.at = "user"
    <3>1. f = UserFrame
      BY <2>1, Zenon DEF FrameOf
    <3>2. Len(UserFrame) = 5 /\ Len(UserFrame) - 1 = 4 /\ Len(UserFrame) - 2 = 3
      BY UserFrameType
    <3> HIDE DEF f
    <3> QED BY <2>1, <3>1, <3>2, UserFrameType, Zenon
  <2>2. CASE p.at # "user"
    <3>1. f = KernelFrame(p)
      BY <2>2, Zenon DEF FrameOf
    <3>2. /\ Len(KernelFrame(p)) = 3
          /\ KernelFrame(p)[1][1] = "eflags" /\ KernelFrame(p)[2][1] = "cs"
          /\ KernelFrame(p)[3][1] = "eip"
          /\ KernelFrame(p)[1][2] = TRUE /\ KernelFrame(p)[2][2] = FALSE
          /\ KernelFrame(p)[3][2] = p
      <4> HIDE DEF f
      <4> QED BY <1>0, KernelFrameType, Zenon
    <3>3. Len(KernelFrame(p)) - 1 = 2 /\ Len(KernelFrame(p)) - 2 = 1
      BY <3>2
    <3> HIDE DEF f
    <3> QED BY <2>2, <3>1, <3>2, <3>3, Zenon
  <2> QED BY <2>1, <2>2
<1>5. word(2)[2] = (p.at = "user")
  <2> HIDE DEF f, s
  <2>1. CASE p.at = "user"
    BY <1>3, <1>4, <2>1, Zenon
  <2>2. CASE p.at # "user"
    BY <1>3, <1>4, <2>2, Zenon
  <2> QED BY <2>1, <2>2
<1>6. (IF word(2)[2] THEN 5 ELSE 3) = Len(f)
  <2> HIDE DEF f, s
  <2> QED BY <1>1, <1>5, Zenon
<1>7. SubSeq(s, 1, Len(s) - (IF word(2)[2] THEN 5 ELSE 3)) = b
  BY <1>2, <1>6, Zenon
<1> HIDE DEF f
<1>8. word(1)[1] = "eip" /\ word(2)[1] = "cs" /\ word(3)[1] = "eflags"
      /\ word(1)[2] = p /\ word(3)[2] = TRUE
  BY <1>3, <1>4, Zenon
<1> QED BY <1>5, <1>7, <1>8, Zenon DEF f, FrameOnTop

LEMMA iretStep == ASSUME Inv, iret PROVE Inv'
<1> DEFINE s == stack[sp]
           word(j) == s[Len(s) + 1 - j]
<1>1. /\ pc.at = "iret" /\ pc' = word(1)[2] /\ flag_if' = word(3)[2]
      /\ stack' = [stack EXCEPT ![sp] = SubSeq(s, 1, Len(s) - (IF word(2)[2] THEN 5 ELSE 3))]
      /\ UNCHANGED <<sp, pics, tables, tasks>>
  BY Zenon DEF iret, Handler, Goto
<1>2. CASE pc.n = SYSCALL
  <2>1. InCode
    BY <1>1, <1>2, Where
  <2>2. pc = At("iret", SYSCALL)
    BY <1>1, <1>2, <2>1 DEF InCode, Normal, Pc, At
  <2>3. stack[sp] = UserFrame \o <<>>
    <3>1. pc \in Normal /\ sp = Own(pc) /\ Stacks(pc, <<>>, state, stack)
      BY <1>1, <2>1 DEF InCode
    <3>2. stack[Own(pc)] = Below(pc) \o <<>>
      BY <3>1, Replace, Zenon
    <3> QED BY <2>2, <3>1, <3>2, SyscallPcs, Zenon
  <2>4. FrameOf(User) = UserFrame /\ User.at = "user"
    BY DEF FrameOf, User, At
  <2>5. UserFrame \o <<>> = UserFrame /\ <<>> \o UserFrame = UserFrame
    BY UserFrameType, ConcatEmptySeq
  <2>6. s = <<>> \o FrameOf(User)
    BY <2>3, <2>4, <2>5, Zenon
  <2>7. <<>> \in Seq(Word) /\ User \in Normal
    BY SyscallPcs
  <2>8. /\ word(1)[2] = User /\ word(3)[2] = TRUE
        /\ SubSeq(s, 1, Len(s) - (IF word(2)[2] THEN 5 ELSE 3)) = <<>>
    <3>1. FrameOnTop(<<>> \o FrameOf(User), <<>>, User)
      BY <2>7, FrameWords
    <3>2. FrameOnTop(s, <<>>, User)
      BY <2>6, <3>1, Zenon
    <3> QED BY <3>2, Zenon DEF FrameOnTop
  <2>9. pc' = User /\ flag_if' = TRUE /\ stack' = [stack EXCEPT ![sp] = Below(User)]
    BY <1>1, <2>8, SyscallPcs, Zenon
  <2> QED BY <1>1, <2>1, <2>2, <2>4, <2>9, SyscallPcs, CodePops DEF Inv, pics, tasks, FlagOf, At
<1>3. CASE pc.n # SYSCALL
  <2>1. PICK p \in Normal : Waits(p)
    BY <1>1, <1>3, Where DEF InHandler
  <2>2. PushedBy(pc, p) = FrameOf(p)
    BY <1>1, Zenon DEF PushedBy
  <2>3. /\ sp = Own(p) /\ Stacks(p, FrameOf(p), state, stack) /\ isr = {}
        /\ FlagOf(p, TRUE)
        /\ Tables(p, idt, handlers, imr) /\ Tasks(p, esp0, current_task, state, kernel_esp)
    BY <1>1, <2>1, <2>2 DEF Waits, HandlerAt
  <2>4. s = Below(p) \o FrameOf(p)
    BY <2>3, Replace, Zenon
  <2>5. Below(p) \in Seq(Word) /\ (p.at = "user" => p = User)
    BY BelowType DEF Normal, Pc, User, At
  <2>6. /\ word(1)[2] = p /\ word(3)[2] = TRUE
        /\ SubSeq(s, 1, Len(s) - (IF word(2)[2] THEN 5 ELSE 3)) = Below(p)
    <3>1. FrameOnTop(Below(p) \o FrameOf(p), Below(p), p)
      BY <2>5, FrameWords
    <3>2. FrameOnTop(s, Below(p), p)
      BY <2>4, <3>1, Zenon
    <3> QED BY <3>2, Zenon DEF FrameOnTop
  <2>7. Below(p) \o <<>> = Below(p)
    BY <2>5, ConcatEmptySeq
  <2>8. pc' = p /\ flag_if' = TRUE /\ stack' = [stack EXCEPT ![Own(p)] = Below(p) \o <<>>]
    BY <1>1, <2>3, <2>6, <2>7, Zenon
  <2>9. Stacks(p, <<>>, state', stack')
    <3>1. Stacks(p, <<>>, state, [stack EXCEPT ![Own(p)] = Below(p) \o <<>>])
      BY <2>3, Replace, Zenon
    <3>2. state' = state
      BY <1>1 DEF tasks
    <3> QED BY <2>8, <3>1, <3>2, Zenon
  <2>10. InCode'
    BY <1>1, <2>3, <2>8, <2>9 DEF InCode, pics, tables, tasks
  <2> QED BY <1>1, <2>10 DEF Inv, pics
<1> QED BY <1>2, <1>3

----------------------------------------------------------------------------
(* Entries.                                                                *)

(* Code that is interrupted with IF on: the gates are there.               *)
LEMMA CodeFacts ==
  ASSUME InCode, flag_if = TRUE
  PROVE  /\ pc.at \notin {"switch_mm", "exit"}
         /\ Done(pc, 3) /\ Done(pc, 4)
         /\ pc.at = "user" => pc = User
         /\ \A n \in IRQ : 32 + n \in Vector /\ idt[32 + n] = "interrupt"
<1>1. pc.at \notin {"switch_mm", "exit"} /\ Done(pc, 3) /\ Done(pc, 4)
  BY DEF InCode, FlagOf, Done, Normal
<1>2. pc.at = "user" => pc = User
  BY DEF InCode, Normal, Pc, User, At
<1>3. \A n \in IRQ : 32 + n \in Vector /\ Class(32 + n) = "irq"
  BY DEF IRQ, Vector, Class, SYSCALL
<1>4. \A n \in IRQ : idt[32 + n] = "interrupt"
  BY <1>1, <1>3 DEF InCode, Tables
<1> QED BY <1>1, <1>2, <1>3, <1>4

LEMMA InterruptedIs ==
  ASSUME InCode, flag_if = TRUE
  PROVE  /\ Interrupted \in Normal /\ Interrupted.at # "hlt" /\ FlagOf(Interrupted, TRUE)
         /\ pc.at = "user" <=> Interrupted.at = "user"
         /\ Interrupted.at = "user" => Interrupted = User
         /\ Own(Interrupted) = Own(pc) /\ Below(Interrupted) = Below(pc)
         /\ Done(Interrupted, 25) <=> Done(pc, 25)
         /\ Tables(Interrupted, idt, handlers, imr)
         /\ Tasks(Interrupted, esp0, current_task, state, kernel_esp)
<1>1. CASE pc.at # "hlt"
  <2>1. Interrupted = pc
    BY <1>1, Zenon DEF Interrupted
  <2> QED BY <1>1, <2>1, CodeFacts DEF InCode
<1>2. CASE pc.at = "hlt" /\ pc.n = SYS_READ
  <2>1. Interrupted = At("sys", SYS_READ)
    BY <1>2, Zenon DEF Interrupted
  <2>2. At("sys", SYS_READ) \in Normal
    BY DEF At, Normal, Pc, SYS_READ, SYSCALL
  <2>3. At("sys", SYS_READ).at = "sys" /\ SYS_READ # 0
    BY DEF At, SYS_READ
  <2>4. Below(At("sys", SYS_READ)) = Below(pc)
    BY <1>2, <2>3, Zenon DEF Below
  <2>5. Own(At("sys", SYS_READ)) = Own(pc)
    BY <1>2, <2>3 DEF Own
  <2>6. Tables(At("sys", SYS_READ), idt, handlers, imr) /\ Tasks(At("sys", SYS_READ), esp0, current_task, state, kernel_esp)
    BY <1>2, <2>3, <2>5, TablesAfterBoot, TasksKept DEF InCode
  <2> QED BY <1>2, <2>1, <2>2, <2>3, <2>4, <2>5, <2>6 DEF FlagOf, Done
<1>3. CASE pc.at = "hlt" /\ pc.n # SYS_READ
  <2>1. Interrupted = At("idle", 0) /\ pc.n = 0
    BY <1>3 DEF Interrupted, InCode, Normal
  <2>2. At("idle", 0) \in Normal
    BY DEF At, Normal, Pc, SYSCALL
  <2>3. At("idle", 0).at = "idle"
    BY DEF At
  <2>4. Below(At("idle", 0)) = Below(pc)
    BY <1>3, <2>3, Zenon DEF Below
  <2>5. Own(At("idle", 0)) = Own(pc)
    BY <1>3, <2>1, <2>3 DEF Own
  <2>6. Tables(At("idle", 0), idt, handlers, imr) /\ Tasks(At("idle", 0), esp0, current_task, state, kernel_esp)
    BY <1>3, <2>3, <2>5, TablesAfterBoot, TasksKept DEF InCode
  <2> QED BY <1>3, <2>1, <2>2, <2>3, <2>4, <2>5, <2>6 DEF FlagOf, Done
<1> QED BY <1>1, <1>2, <1>3

(* A handler is entered.                                                   *)
LEMMA HandlerEntered ==
  ASSUME NEW p \in Normal, NEW v \in Irq \cup Exception, InCode, flag_if = TRUE,
         Enter(v, p, At("dispatch", v)), idt[v] = "interrupt",
         p.at # "hlt", FlagOf(p, TRUE),
         pc.at = "user" <=> p.at = "user", p.at = "user" => p = User,
         Own(p) = Own(pc), Below(p) = Below(pc), Done(p, 25) <=> Done(pc, 25),
         Tables(p, idt, handlers, imr), Tasks(p, esp0, current_task, state, kernel_esp),
         HandlerAt(At("dispatch", v), p, isr', handlers),
         UNCHANGED <<imr, tables, esp0, current_task, state, kernel_esp>>
  PROVE  InHandler'
<1>1. v \in Nat /\ v <= SYSCALL
  BY InterruptsAssumption DEF Irq, Exception, SYSCALL
<1>2. idt[v] # "none" /\ (idt[v] = "trap") = FALSE
  OBVIOUS
<1>3. /\ sp' = Own(p) /\ pc' = At("dispatch", v)
      /\ Stacks(p, FrameOf(p) \o Top(v), state', stack')
      /\ flag_if' = FALSE
  <2>1. Stacks(p, FrameOf(p) \o Top(v), state, stack')
    BY <1>1, <1>2, Entered
  <2>2. Stacks(p, FrameOf(p) \o Top(v), state', stack')
    BY <2>1, Zenon
  <2> QED BY <1>1, <1>2, <2>2, Entered
<1>4. pc' \in HandlerPc /\ pc'.at = "dispatch" /\ pc'.n = v
  BY <1>1, <1>3 DEF HandlerPc, At
<1>5. PushedBy(pc', p) = FrameOf(p) \o Top(v)
  BY <1>4, Zenon DEF PushedBy
<1>6. Stacks(p, PushedBy(pc', p), state', stack')
  BY <1>3, <1>5, Zenon
<1>7. HandlerAt(pc', p, isr', handlers')
  BY <1>3 DEF tables
<1> QED BY <1>3, <1>4, <1>6, <1>7 DEF InHandler, Waits, tables

LEMMA AcceptStep == ASSUME Inv, Accept PROVE Inv'
<1>1. flag_if /\ UNCHANGED <<imr, tables, tasks>>
  BY DEF Accept
<1>2. PICK n \in Pending :
        /\ irr' = irr \ {n} /\ isr' = isr \cup InService(n)
        /\ Enter(32 + n, Interrupted, At("dispatch", 32 + n))
  BY DEF Accept
<1>3. InCode /\ flag_if = TRUE
  <2>1. flag_if \in BOOLEAN
    BY DEF Inv, InCode, InHandler, Waits, FlagOf
  <2>2. flag_if = TRUE
    BY <1>1, <2>1
  <2> QED BY <2>2, Where
<1>4. n \in {0, 1, 14} /\ n \in IRQ /\ n \notin imr
  BY <1>2 DEF Pending, Inv, IRQ
<1>5. 32 + n \in Irq /\ 32 + n # 39 /\ 32 + n - 32 = n
  BY <1>4 DEF Irq
<1>6. 32 + n \in handlers
  BY <1>3, <1>4, CodeFacts DEF InCode, Tables
<1>7. isr' = InService(n)
  BY <1>2, <1>3 DEF InCode
<1>8. HandlerAt(At("dispatch", 32 + n), Interrupted, isr', handlers)
  <2> DEFINE v == 32 + n
  <2>1. v \in Irq /\ v # 39 /\ v \in handlers
    BY <1>5, <1>6
  <2>2. v - 32 = n
    BY <1>4
  <2> HIDE DEF v
  <2>3. HandlerAt(At("dispatch", v), Interrupted, isr', handlers)
    <3>1. isr' = InService(v - 32)
      BY <1>7, <2>2, Zenon
    <3> QED BY <2>1, <3>1 DEF HandlerAt, At
  <2> QED BY <2>3 DEF v
<1>9. idt[32 + n] = "interrupt"
  BY <1>3, <1>4, CodeFacts
<1>10. InHandler'
  BY <1>1, <1>2, <1>3, <1>5, <1>8, <1>9, InterruptedIs, HandlerEntered DEF tasks
<1> QED BY <1>2, <1>10 DEF Inv

LEMMA SpuriousStep == ASSUME Inv, Spurious PROVE Inv'
<1>1. flag_if /\ UNCHANGED <<pics, tables, tasks>> /\ Enter(39, Interrupted, At("dispatch", 39))
  BY DEF Spurious
<1>2. InCode /\ flag_if = TRUE
  <2>1. flag_if \in BOOLEAN
    BY DEF Inv, InCode, InHandler, Waits, FlagOf
  <2>2. flag_if = TRUE
    BY <1>1, <2>1
  <2> QED BY <2>2, Where
<1>3. 39 \in Irq
  BY DEF Irq
<1>4. HandlerAt(At("dispatch", 39), Interrupted, isr', handlers)
  BY <1>1, <1>2, <1>3 DEF HandlerAt, At, InCode, pics
<1>5. idt[39] = "interrupt"
  <2>1. 7 \in IRQ /\ 32 + 7 = 39
    BY DEF IRQ
  <2> QED BY <1>2, <2>1, CodeFacts
<1>6. InHandler'
  BY <1>1, <1>2, <1>3, <1>4, <1>5, InterruptedIs, HandlerEntered DEF tasks, pics
<1> QED BY <1>1, <1>6 DEF Inv, pics

(* An exception is taken only where no place is in use.                    *)
LEMMA ExceptionTaken ==
  ASSUME Inv, InCode, flag_if = TRUE, pc.at # "hlt", pc.use = "none", Done(pc, 21),
         NEW v \in Exception, Enter(v, pc, At("dispatch", v)), UNCHANGED <<pics, tables, tasks>>
  PROVE  Inv'
<1>1. v \in Vector /\ Class(v) = "exception" /\ v \in Irq \cup Exception
  BY InterruptsAssumption DEF Exception, Vector, Class
<1>2. Done(pc, 7)
  BY DEF Done, InCode, Normal
<1>3. idt[v] = "interrupt" /\ 14 \in handlers
  BY <1>1, <1>2 DEF InCode, Tables
<1>4. HandlerAt(At("dispatch", v), pc, isr', handlers)
  BY <1>3 DEF HandlerAt, At, InCode, pics
<1>5. pc \in Normal /\ FlagOf(pc, TRUE) /\ Tables(pc, idt, handlers, imr) /\ Tasks(pc, esp0, current_task, state, kernel_esp)
  BY DEF InCode
<1>6. pc.at = "user" => pc = User
  BY CodeFacts
<1>7. InHandler'
  BY <1>1, <1>3, <1>4, <1>5, <1>6, HandlerEntered DEF tasks, pics
<1> QED BY <1>7 DEF Inv, pics

LEMMA TouchStep == ASSUME Inv, Touch PROVE Inv'
<1>1. Touches /\ UNCHANGED <<pics, tables, tasks>>
      /\ \/ Enter(14, pc, At("dispatch", 14))
         \/ pc.at = "boot" /\ BootNext /\ UNCHANGED <<flag_if, stack, sp>>
  BY DEF Touch
<1>2. InCode
  BY <1>1, Where DEF Touches
<1>3. /\ pc.at \in {"boot", "sys"} /\ pc.use = "none"
      /\ pc.at = "boot" => pc.n = 34
  <2>1. pc.at = "boot" => pc.n \in 1..36
    BY <1>2, BootSteps DEF InCode, Normal
  <2>2. ASSUME pc.at = "boot", Boot[pc.n] = <<"touch">> PROVE pc.n = 34
    BY <2>1, <2>2, BootWhere
  <2>3. ASSUME pc.at = "boot", Boot[pc.n] = <<"touch">> PROVE pc.use = "none"
    <3>1. Boot[34][1] # "use"
      BY BootWhere
    <3> QED BY <2>3, <2>2, <3>1, <1>2 DEF InCode, Normal
  <2> QED BY <1>1, <2>2, <2>3 DEF Touches
<1>4. flag_if = TRUE
  BY <1>2, <1>3 DEF InCode, FlagOf
<1>5. ASSUME Enter(14, pc, At("dispatch", 14)) PROVE Inv'
  <2>1. 14 \in Exception /\ Done(pc, 21) /\ pc.at # "hlt"
    BY <1>3 DEF Exception, Done
  <2> QED BY <1>1, <1>2, <1>3, <1>4, <1>5, <2>1, ExceptionTaken
<1>6. ASSUME pc.at = "boot", BootNext, UNCHANGED <<flag_if, stack, sp>> PROVE Inv'
  <2>1. pc.n = 34 /\ pc'.at = "boot" /\ pc'.n = 35
    BY <1>3, <1>6 DEF BootNext, Goto, At
  <2>2. Tables(pc', idt', handlers', imr')
    BY <1>1, <1>2, <1>6, <2>1, TablesKept DEF InCode, pics, tables, Done
  <2>3. Tasks(pc', esp0', current_task', state', kernel_esp')
    <3>1. Tasks(pc, esp0', current_task', state', kernel_esp')
      BY <1>1, <1>2 DEF InCode, tasks
    <3> QED BY <1>6, <2>1, <3>1, TasksPlain
  <2>4. FlagOf(pc', flag_if')
    BY <1>4, <1>6, <2>1 DEF FlagOf
  <2>5. InCode'
    BY <1>1, <1>2, <1>6, <2>1, <2>2, <2>3, <2>4, BootMoves DEF InCode, pics
  <2> QED BY <1>1, <2>5 DEF Inv, pics
<1> QED BY <1>1, <1>5, <1>6

LEMMA SysPcs ==
  ASSUME NEW n \in {SYS_EXIT, SYS_READ, SYS_WRITE, SYS_OPEN, SYS_EXECVE}
  PROVE  /\ At("sys", n) \in Normal /\ At("sys", n).at = "sys" /\ At("sys", n).n = n
         /\ Own(At("sys", n)) = "proc1" /\ Below(At("sys", n)) = SysStack
         /\ FlagOf(At("sys", n), TRUE) /\ At("sys", n).use = "none"
<1>1. At("sys", n).at = "sys"
  BY DEF At
<1>2. Below(At("sys", n)) = SysStack
  BY <1>1, Zenon DEF Below
<1>3. At("sys", n) \in Normal
  BY DEF At, Normal, Pc, SYS_EXIT, SYS_READ, SYS_WRITE, SYS_OPEN, SYS_EXECVE, SYSCALL
<1> QED BY <1>1, <1>2, <1>3 DEF At, Own, FlagOf

LEMMA UserStepStep == ASSUME Inv, UserStep PROVE Inv'
<1>1. pc.at = "user" /\ UNCHANGED <<pics, tables, tasks>>
      /\ \/ UNCHANGED <<pc, flag_if, stack, sp>>
         \/ \E v \in Exception : Enter(v, pc, At("dispatch", v))
         \/ \E n \in {SYS_EXIT, SYS_READ, SYS_WRITE, SYS_OPEN, SYS_EXECVE} :
              Enter(SYSCALL, pc, At("sys", n))
  BY DEF UserStep, Code, Exception
<1>2. InCode /\ flag_if = TRUE
  BY <1>1, Where DEF InCode, FlagOf
<1>3. pc = User
  BY <1>1, <1>2, CodeFacts
<1>4. ASSUME UNCHANGED <<pc, flag_if, stack, sp>> PROVE Inv'
  BY <1>1, <1>2, <1>4 DEF Inv, InCode, pics, tables, tasks
<1>5. ASSUME NEW v \in Exception, Enter(v, pc, At("dispatch", v)) PROVE Inv'
  BY <1>1, <1>2, <1>3, <1>5, ExceptionTaken DEF User, At, Done
<1>6. ASSUME NEW n \in {SYS_EXIT, SYS_READ, SYS_WRITE, SYS_OPEN, SYS_EXECVE},
             Enter(SYSCALL, pc, At("sys", n))
      PROVE  Inv'
  <2>1. SYSCALL \in Vector /\ Class(SYSCALL) = "syscall" /\ SYSCALL \in Nat /\ Done(pc, 9)
    BY <1>1 DEF SYSCALL, Vector, Class, Done
  <2>2. idt[SYSCALL] = "trap"
    BY <1>2, <2>1 DEF InCode, Tables
  <2>3. (idt[SYSCALL] = "trap") = TRUE /\ idt[SYSCALL] # "none"
    BY <2>2
  <2>4. /\ sp' = "proc1" /\ pc' = At("sys", n) /\ flag_if' = TRUE
        /\ Stacks(User, FrameOf(User) \o Top(SYSCALL), state, stack')
    BY <1>1, <1>2, <1>3, <1>6, <2>1, <2>3, Entered, SyscallPcs
  <2>5. FrameOf(User) \o Top(SYSCALL) = SysStack
    BY <1>1, <1>3, Zenon DEF FrameOf, SysStack
  <2>6. Below(User) \o SysStack = Below(At("sys", n)) \o <<>>
    <3>1. <<>> \o SysStack = SysStack \o <<>>
      BY SysStackType, ConcatEmptySeq
    <3> QED BY <3>1, SysPcs, SyscallPcs, Zenon
  <2>7. state' = state
    BY <1>1 DEF tasks
  <2>8. Stacks(At("sys", n), <<>>, state', stack')
    <3>1. Stacks(User, SysStack, state', stack')
      BY <2>4, <2>5, <2>7, Zenon
    <3>2. User.at # "boot" /\ At("sys", n).at # "boot" /\ Own(User) = "proc1" /\ Own(At("sys", n)) = "proc1"
      BY <1>1, <1>3, SysPcs, SyscallPcs
    <3>3. Others(At("sys", n), state', stack')
      <4>1. Others(User, state', stack')
        BY <3>1 DEF Stacks
      <4>2. Done(User, 25) /\ Done(At("sys", n), 25)
        BY <3>2, Zenon DEF Done
      <4> QED BY <3>2, <4>1, <4>2, Zenon DEF Others
    <3> QED BY <2>6, <3>1, <3>2, <3>3, Zenon DEF Stacks
  <2>9. Tables(At("sys", n), idt', handlers', imr') /\ Tasks(At("sys", n), esp0', current_task', state', kernel_esp')
    <3>1. Tables(User, idt', handlers', imr') /\ Tasks(User, esp0', current_task', state', kernel_esp')
      BY <1>1, <1>2, <1>3 DEF InCode, pics, tables, tasks
    <3>2. User.at = "user" /\ Own(User) = Own(At("sys", n)) /\ At("sys", n).at = "sys"
      BY <1>1, <1>3, SysPcs, SyscallPcs
    <3> QED BY <3>1, <3>2, TablesAfterBoot, TasksKept
  <2> QED BY <1>1, <1>2, <2>4, <2>8, <2>9, SysPcs DEF Inv, InCode, pics
<1> QED BY <1>1, <1>4, <1>5, <1>6

----------------------------------------------------------------------------
(* Places, system calls, and the idle task.                                *)

(* Code enters or leaves a place and stays where it is.                    *)
LEMMA PlaceMoves ==
  ASSUME InCode, pc' \in Normal, pc'.at = pc.at, pc'.n = pc.n,
         UNCHANGED <<flag_if, stack, sp, isr, imr, tables, tasks>>
  PROVE  InCode'
<1>1. Own(pc') = Own(pc) /\ Below(pc') = Below(pc) /\ \A k \in Nat : Done(pc', k) <=> Done(pc, k)
  <2>1. Below(pc') = Below(pc)
    BY Zenon DEF Below
  <2> QED BY <2>1 DEF Own, Done
<1>2. Stacks(pc', <<>>, state', stack')
  <2>1. Stacks(pc', <<>>, state, stack)
    BY <1>1, SameStacks DEF InCode
  <2> QED BY <2>1 DEF tasks
<1>3. Tables(pc', idt', handlers', imr')
  BY <1>1, TablesKept DEF InCode, tables
<1>4. Tasks(pc', esp0', current_task', state', kernel_esp')
  BY <1>1 DEF InCode, Tasks, tasks
<1>5. FlagOf(pc', flag_if')
  BY DEF InCode, FlagOf
<1> QED BY <1>1, <1>2, <1>3, <1>4, <1>5 DEF InCode

LEMMA EnterPlaceStep == ASSUME Inv, EnterPlace PROVE Inv'
<1>1. UNCHANGED <<flag_if, stack, sp, pics, tables, tasks>>
      /\ \E r \in Places : pc' = [pc EXCEPT !.use = r]
  BY DEF EnterPlace, Goto
<1>2. PICK r \in Places : pc' = [pc EXCEPT !.use = r]
  BY <1>1
<1>3. \/ pc.at = "boot" /\ Boot[pc.n][1] = "use" /\ r = Boot[pc.n][2]
      \/ pc.at = "sys" /\ pc.n \in {SYS_WRITE, SYS_EXECVE} /\ r \in Place
  BY <1>2 DEF Places, Place
<1>4. InCode
  BY <1>3, Where
<1>5. r \in Place
  <2>1. ASSUME pc.at = "boot", Boot[pc.n][1] = "use" PROVE Boot[pc.n][2] \in Place
    <3>1. pc.n \in 1..36
      BY <1>4, <2>1, BootSteps DEF InCode, Normal
    <3> QED BY <2>1, <3>1, BootPlaces
  <2> QED BY <1>3, <2>1
<1>6. pc \in Pc /\ pc \in Normal
  BY <1>4 DEF InCode, Normal
<1>7. pc' \in Pc /\ pc'.at = pc.at /\ pc'.n = pc.n /\ pc'.use = r
  BY <1>2, <1>5, <1>6 DEF Pc
<1>8. pc' \in Normal
  BY <1>3, <1>6, <1>7 DEF Normal
<1> QED BY <1>1, <1>4, <1>7, <1>8, PlaceMoves DEF Inv, pics

(* A step of main() after which nothing new is promised.                   *)
LEMMA BootPlain ==
  ASSUME InCode, pc.at = "boot", BootNext,
         pc.n \notin {3, 4, 5, 7, 9, 13, 17, 21, 22, 25, 29, 30, 31, 36},
         UNCHANGED <<stack, sp, flag_if, idt, handlers, imr, esp0, current_task, state, kernel_esp>>,
         isr' = {}
  PROVE  InCode'
<1>1. pc.n \in 1..36 /\ pc'.at = "boot" /\ pc'.n = pc.n + 1
  BY BootSteps DEF InCode, Normal, BootNext, Goto, At
<1>2. \A k \in {3, 4, 7, 9, 13, 21, 22} : Done(pc', k) => Done(pc, k)
  BY <1>1 DEF Done
<1>3. Tables(pc', idt', handlers', imr')
  <2>1. Tables(pc, idt', handlers', imr')
    BY DEF InCode
  <2>2. pc'.n # 18
    BY <1>1
  <2> QED BY <1>2, <2>1, <2>2, TablesKept
<1>4. Tasks(pc', esp0', current_task', state', kernel_esp')
  <2>1. Tasks(pc, esp0', current_task', state', kernel_esp')
    BY DEF InCode
  <2>2. pc.n \in Nat /\ pc.n \notin {25, 30, 31} /\ pc.n # 29
    BY <1>1
  <2> QED BY <1>1, <2>1, <2>2, TasksPlain
<1>5. FlagOf(pc', flag_if')
  <2>1. pc'.n > 5 <=> pc.n > 5
    BY <1>1
  <2>2. flag_if' \in BOOLEAN /\ (flag_if' <=> pc.n > 5)
    BY DEF InCode, FlagOf
  <2> QED BY <1>1, <2>1, <2>2 DEF FlagOf
<1> QED BY <1>1, <1>3, <1>4, <1>5, BootMoves

LEMMA LeavePlaceStep == ASSUME Inv, LeavePlace PROVE Inv'
<1>1. /\ pc.at \in {"boot", "sys"} /\ pc.use # "none" /\ irr' \subseteq irr \cup {14}
      /\ UNCHANGED <<flag_if, stack, sp, imr, isr, tables, tasks>>
      /\ (pc.at = "boot" => BootNext)
      /\ (pc.at # "boot" => pc' = [pc EXCEPT !.use = "none"])
  BY DEF LeavePlace, Goto
<1>2. InCode
  BY <1>1, Where
<1>3. CASE pc.at = "boot"
  <2>1. pc.n \in 1..36 /\ Boot[pc.n][1] = "use"
    BY <1>1, <1>2, <1>3, BootSteps DEF InCode, Normal
  <2>2. pc.n \in {1, 6, 8, 10, 12, 15, 19, 24, 27, 28, 32, 33, 35}
    BY <2>1, BootWhere
  <2>3. pc.n \notin {3, 4, 5, 7, 9, 13, 17, 21, 22, 25, 29, 30, 31, 36}
    BY <2>2
  <2>4. InCode'
    BY <1>1, <1>2, <1>3, <2>3, BootPlain DEF InCode, tables, tasks
  <2> QED BY <1>1, <2>4 DEF Inv
<1>4. CASE pc.at # "boot"
  <2>1. pc \in Pc /\ pc \in Normal
    BY <1>2 DEF InCode, Normal
  <2>2. pc' \in Pc /\ pc'.at = pc.at /\ pc'.n = pc.n /\ pc'.use = "none"
    BY <1>1, <1>4, <2>1 DEF Pc
  <2>3. pc' \in Normal
    BY <1>1, <1>4, <2>1, <2>2 DEF Normal
  <2> QED BY <1>1, <1>2, <2>2, <2>3, PlaceMoves DEF Inv
<1> QED BY <1>3, <1>4

(* Code on the stack of a system call.                                     *)
LEMMA OnSysStack ==
  ASSUME InCode, pc.at = "sys"
  PROVE  /\ pc \in Normal /\ Own(pc) = "proc1" /\ Below(pc) = SysStack /\ flag_if = TRUE
         /\ sp = "proc1" /\ stack[sp] = SysStack
<1>1. Below(pc) = SysStack
  BY Zenon DEF Below
<1>2. pc \in Normal /\ Own(pc) = "proc1" /\ flag_if = TRUE /\ sp = "proc1"
      /\ Stacks(pc, <<>>, state, stack)
  BY DEF InCode, Own, FlagOf
<1>3. stack[sp] = SysStack \o <<>>
  BY <1>1, <1>2, Replace
<1>4. SysStack \o <<>> = SysStack
  BY SysStackType, ConcatEmptySeq
<1> QED BY <1>1, <1>2, <1>3, <1>4, Zenon

LEMMA SysReturnStep == ASSUME Inv, SysReturn PROVE Inv'
<1>1. pc.at = "sys" /\ pc' = At("leave", SYSCALL) /\ UNCHANGED <<flag_if, stack, sp, pics, tables, tasks>>
  BY DEF SysReturn, Code, Goto
<1>2. InCode
  BY <1>1, Where
<1>3. pc'.at = "leave"
  BY <1>1 DEF At
<1>4. FlagOf(pc', flag_if')
  BY <1>1, <1>2, <1>3, OnSysStack DEF FlagOf
<1>5. InCode'
  BY <1>1, <1>2, <1>3, <1>4, OnSysStack, SyscallPcs, CodeMoves DEF pics, tasks
<1> QED BY <1>1, <1>5 DEF Inv, pics

LEMMA HaltStep == ASSUME Inv, Halt PROVE Inv'
<1>1. pc.at = "sys" /\ pc' = At("hlt", SYS_READ) /\ UNCHANGED <<flag_if, stack, sp, pics, tables, tasks>>
  BY DEF Halt, Code, Goto
<1>2. InCode
  BY <1>1, Where
<1>3. pc'.at = "hlt" /\ pc'.n = SYS_READ /\ SYS_READ # 0
  BY <1>1 DEF At, SYS_READ
<1>4. pc' \in Normal /\ Own(pc') = "proc1"
  BY <1>1 DEF At, Normal, Pc, Own, SYS_READ, SYSCALL
<1>5. Below(pc') = SysStack
  BY <1>3, Zenon DEF Below
<1>6. FlagOf(pc', flag_if')
  BY <1>1, <1>2, <1>3, OnSysStack DEF FlagOf
<1>7. InCode'
  BY <1>1, <1>2, <1>3, <1>4, <1>5, <1>6, OnSysStack, CodeMoves DEF pics, tasks
<1> QED BY <1>1, <1>7 DEF Inv, pics

LEMMA irq_saveStep == ASSUME Inv, irq_save PROVE Inv'
<1>1. /\ pc.at = "sys" /\ pc' = At("switch_mm", SYS_EXECVE) /\ flag_if' = FALSE
      /\ stack' = [stack EXCEPT ![sp] = Append(stack[sp], <<"flags", flag_if>>)]
      /\ UNCHANGED <<sp, pics, tables, tasks>>
  BY DEF irq_save, Code, Goto
<1>2. InCode
  BY <1>1, Where
<1>3. <<"flags", TRUE>> \in Word
  BY DEF Word
<1>4. Append(SysStack, <<"flags", TRUE>>) = SysStack \o << <<"flags", TRUE>> >>
  BY <1>3, SysStackType, AppendIsConcat
<1> DEFINE q == At("switch_mm", SYS_EXECVE)
<1>5. q.at = "switch_mm" /\ q \in Normal /\ Own(q) = "proc1" /\ FlagOf(q, FALSE)
  BY DEF At, Normal, Pc, Own, FlagOf, SYS_EXECVE, SYSCALL
<1> HIDE DEF q
<1>6. Below(q) = SysStack \o << <<"flags", TRUE>> >>
  BY <1>5, Zenon DEF Below
<1>7. stack' = [stack EXCEPT ![sp] = Below(q)]
  BY <1>1, <1>2, <1>4, <1>6, OnSysStack, Zenon
<1>8. InCode'
  <2>1. pc' = q
    BY <1>1 DEF q
  <2> QED BY <1>1, <1>2, <1>5, <1>7, <2>1, OnSysStack, CodePops DEF pics, tasks
<1> QED BY <1>1, <1>8 DEF Inv, pics

LEMMA irq_restoreStep == ASSUME Inv, irq_restore PROVE Inv'
<1>1. /\ pc.at = "switch_mm" /\ pc' = At("sys", SYS_EXECVE)
      /\ flag_if' = stack[sp][Len(stack[sp])][2]
      /\ stack' = [stack EXCEPT ![sp] = SubSeq(stack[sp], 1, Len(stack[sp]) - 1)]
      /\ UNCHANGED <<sp, pics, tables, tasks>>
  BY DEF irq_restore, Code, Goto
<1>2. InCode
  BY <1>1, Where
<1> DEFINE f == << <<"flags", TRUE>> >>
<1>3. f \in Seq(Word) /\ Len(f) = 1 /\ f[1][2] = TRUE
  <2>1. <<"flags", TRUE>> \in Word
    BY DEF Word
  <2>2. f \in Seq(Word)
    BY <2>1, FiveWords
  <2> QED BY <2>2
<1>4. Below(pc) = SysStack \o f
  BY <1>1, Zenon DEF Below
<1> HIDE DEF f
<1>5. pc \in Normal /\ sp = "proc1" /\ Own(pc) = "proc1"
  BY <1>1, <1>2 DEF InCode, Own
<1>6. stack[sp] = SysStack \o f
  <2>1. stack[sp] = Below(pc) \o <<>>
    BY <1>2, <1>5, Replace DEF InCode
  <2>2. Below(pc) \o <<>> = Below(pc)
    BY <1>5, BelowType, ConcatEmptySeq
  <2> QED BY <1>4, <2>1, <2>2, Zenon
<1>7. /\ SubSeq(SysStack \o f, 1, Len(SysStack \o f) - Len(f)) = SysStack
      /\ \A i \in 1..Len(f) : (SysStack \o f)[Len(SysStack \o f) + 1 - i] = f[Len(f) + 1 - i]
  <2>1. f \in Seq(Word) /\ SysStack \in Seq(Word)
    BY <1>3, SysStackType
  <2> QED BY <2>1, Popped, Zenon
<1>8. (SysStack \o f)[Len(SysStack \o f)] = f[1]
  <2>1. Len(SysStack \o f) \in Nat
    BY <1>3, SysStackType, Joined
  <2>2. Len(SysStack \o f) + 1 - 1 = Len(SysStack \o f)
    BY <2>1
  <2>3. 1 \in 1..Len(f) /\ Len(f) + 1 - 1 = 1
    BY <1>3
  <2> QED BY <1>7, <2>2, <2>3, Zenon
<1>9. flag_if' = TRUE /\ stack' = [stack EXCEPT ![sp] = SysStack]
  BY <1>1, <1>3, <1>6, <1>7, <1>8, Zenon
<1>10. stack' = [stack EXCEPT ![sp] = Below(At("sys", SYS_EXECVE))]
  BY <1>9, SysPcs, Zenon
<1>11. InCode'
  BY <1>1, <1>2, <1>5, <1>9, <1>10, SysPcs, CodePops DEF pics, tasks
<1> QED BY <1>1, <1>11 DEF Inv, pics

LEMMA idle_task_entryStep == ASSUME Inv, idle_task_entry PROVE Inv'
<1>1. pc.at = "idle" /\ pc' = At("hlt", 0) /\ flag_if' = TRUE /\ UNCHANGED <<stack, sp, pics, tables, tasks>>
  BY DEF idle_task_entry, Code, Goto
<1>2. InCode
  BY <1>1, Where
<1>3. pc'.at = "hlt" /\ pc'.n = 0 /\ pc' \in Normal
  BY <1>1 DEF At, Normal, Pc, SYSCALL
<1>4. Own(pc) = "idle" /\ Own(pc') = "idle"
  BY <1>1, <1>3 DEF Own
<1>5. Below(pc) = Below(pc')
  <2>1. 0 # SYS_READ
    BY DEF SYS_READ
  <2> QED BY <1>1, <1>3, <2>1, Zenon DEF Below
<1>6. FlagOf(pc', flag_if')
  BY <1>1, <1>3 DEF FlagOf
<1>7. InCode'
  BY <1>1, <1>2, <1>3, <1>4, <1>5, <1>6, CodeMoves DEF pics, tasks
<1> QED BY <1>1, <1>7 DEF Inv, pics

LEMMA SpinStep == ASSUME Inv, Spin PROVE Inv'
<1>1. UNCHANGED <<pc, flag_if, stack, sp, pics, tables, tasks>>
  BY DEF Spin
<1>2. InCode => InCode'
  BY <1>1 DEF InCode, pics, tables, tasks
<1>3. InHandler => InHandler'
  BY <1>1 DEF InHandler, Waits, pics, tables, tasks
<1> QED BY <1>1, <1>2, <1>3 DEF Inv, pics

----------------------------------------------------------------------------
(* main(), exit_task, and the devices.                                     *)

(* Where main() is, and what it may count on there.                        *)
LEMMA BootFacts ==
  ASSUME InCode, pc.at = "boot"
  PROVE  /\ pc \in Normal /\ pc.n \in 1..36 /\ Own(pc) = "boot" /\ Below(pc) = <<>>
         /\ sp = "boot" /\ isr = {}
         /\ flag_if \in BOOLEAN /\ (flag_if <=> pc.n > 5)
         /\ Tasks(pc, esp0, current_task, state, kernel_esp)
<1>1. pc \in Normal /\ pc.n \in 1..36 /\ Own(pc) = "boot"
  BY BootSteps DEF InCode, Normal, Own
<1>2. Below(pc) = <<>>
  BY Zenon DEF Below
<1> QED BY <1>1, <1>2 DEF InCode, FlagOf

LEMMA BootNextIs ==
  ASSUME BootNext, pc.n \in 1..36
  PROVE  pc'.at = "boot" /\ pc'.n = pc.n + 1 /\ Own(pc') = "boot"
BY DEF BootNext, Goto, At, Own

(* A step of main() that changes tables: the flag and the tasks.           *)
LEMMA BootTablesMove ==
  ASSUME InCode, pc.at = "boot", BootNext, pc.n \notin {5, 25, 30, 31, 36},
         UNCHANGED <<flag_if, stack, sp, current_task, state, kernel_esp>>, isr' = {},
         pc.n = 29 => esp0' = "proc1",
         pc.n > 29 => esp0' = esp0,
         Tables(pc', idt', handlers', imr')
  PROVE  InCode'
<1>1. pc.n \in 1..36 /\ pc'.at = "boot" /\ pc'.n = pc.n + 1 /\ Own(pc') = "boot"
  BY BootFacts, BootNextIs
<1>3. Tasks(pc', esp0', current_task', state', kernel_esp')
  <2>1. Tasks(pc, esp0, current_task', state', kernel_esp')
    BY BootFacts
  <2>2. pc.n \in Nat /\ pc.n \notin {25, 30, 31}
    BY <1>1
  <2> QED BY <1>1, <2>1, <2>2, TasksPlain
<1>4. FlagOf(pc', flag_if')
  <2>1. pc'.n > 5 <=> pc.n > 5
    BY <1>1
  <2>2. flag_if' \in BOOLEAN /\ (flag_if' <=> pc.n > 5)
    BY BootFacts
  <2> QED BY <1>1, <2>1, <2>2 DEF FlagOf
<1>5. pc.n < 36
  BY <1>1
<1> QED BY <1>3, <1>4, <1>5, BootMoves

(* Gates: those of one class are set, the others stay.                     *)
LEMMA GatesInstalled ==
  ASSUME InCode, pc.at = "boot", BootNext, NEW c, install_gates(c), UNCHANGED <<handlers, imr>>,
         \/ pc.n = 3 /\ c = "irq"
         \/ pc.n = 7 /\ c = "exception"
         \/ pc.n = 9 /\ c = "syscall"
  PROVE  Tables(pc', idt', handlers', imr')
<1>1. pc.n \in 1..36 /\ pc'.at = "boot" /\ pc'.n = pc.n + 1
  BY BootFacts, BootNextIs
<1>2. Tables(pc, idt, handlers, imr)
  BY DEF InCode
<1>3. DOMAIN idt = Vector /\ DOMAIN idt' = Vector
  BY <1>2 DEF Tables, install_gates
<1>4. \A v \in Vector : idt'[v] = IF Class(v) = c THEN GateType(c) ELSE idt[v]
  BY <1>3 DEF install_gates
<1>5. ASSUME NEW v \in Vector
      PROVE  /\ (Class(v) = "irq" /\ Done(pc', 3)) => idt'[v] = "interrupt"
             /\ (Class(v) = "exception" /\ Done(pc', 7)) => idt'[v] = "interrupt"
             /\ (Class(v) = "syscall" /\ Done(pc', 9)) => idt'[v] = "trap"
  <2>1. /\ (Class(v) = "irq" /\ Done(pc, 3)) => idt[v] = "interrupt"
        /\ (Class(v) = "exception" /\ Done(pc, 7)) => idt[v] = "interrupt"
        /\ (Class(v) = "syscall" /\ Done(pc, 9)) => idt[v] = "trap"
    BY <1>2, <1>5 DEF Tables
  <2>2. idt'[v] = IF Class(v) = c THEN GateType(c) ELSE idt[v]
    BY <1>4
  <2> HIDE DEF install_gates
  <2>3. CASE pc.n = 3
    BY <1>1, <2>1, <2>2, <2>3 DEF Done, GateType
  <2>4. CASE pc.n = 7
    BY <1>1, <2>1, <2>2, <2>4 DEF Done, GateType
  <2>5. CASE pc.n = 9
    BY <1>1, <2>1, <2>2, <2>5 DEF Done, GateType
  <2> QED BY <2>3, <2>4, <2>5
<1>6. ~Done(pc', 13) /\ ~Done(pc', 21) /\ ~Done(pc', 22) /\ pc'.n # 18
  BY <1>1 DEF Done
<1>7. Done(pc', 4) => Done(pc, 4)
  BY <1>1 DEF Done
<1> QED BY <1>2, <1>3, <1>5, <1>6, <1>7 DEF Tables

(* A handler is registered before its line is opened.                      *)
LEMMA HandlerRegistered ==
  ASSUME InCode, pc.at = "boot", BootNext, NEW v, handlers' = handlers \cup {v},
         UNCHANGED <<idt, imr>>,
         \/ pc.n = 13 /\ v = 32
         \/ pc.n = 17 /\ v = 46
         \/ pc.n = 21 /\ v = 14
         \/ pc.n = 22 /\ v = 33
  PROVE  Tables(pc', idt', handlers', imr')
<1>1. pc.n \in 1..36 /\ pc'.at = "boot" /\ pc'.n = pc.n + 1
  BY BootFacts, BootNextIs
<1>2. Tables(pc, idt, handlers, imr)
  BY DEF InCode
<1>3. v \in {14, 32, 33, 46} /\ v \in handlers' /\ handlers \subseteq handlers'
  OBVIOUS
<1>4. Done(pc, 3) /\ Done(pc, 4) /\ Done(pc, 7) /\ Done(pc, 9)
  BY <1>1 DEF Done
<1>5. /\ Done(pc', 13) => 32 \in handlers'
      /\ Done(pc', 21) => 14 \in handlers'
      /\ Done(pc', 22) => 33 \in handlers'
      /\ (pc'.at = "boot" /\ pc'.n = 18) => 46 \in handlers'
  <2>1. /\ pc.n > 13 => 32 \in handlers
        /\ pc.n > 21 => 14 \in handlers
    BY <1>2 DEF Tables, Done
  <2>2. CASE pc.n = 13
    BY <1>1, <1>3, <2>2 DEF Done
  <2>3. CASE pc.n = 17
    BY <1>1, <1>3, <2>1, <2>3 DEF Done
  <2>4. CASE pc.n = 21
    BY <1>1, <1>3, <2>1, <2>4 DEF Done
  <2>5. CASE pc.n = 22
    BY <1>1, <1>3, <2>1, <2>5 DEF Done
  <2> QED BY <2>2, <2>3, <2>4, <2>5
<1> QED BY <1>2, <1>3, <1>4, <1>5 DEF Tables

LEMMA BootTablesStep == ASSUME Inv, BootTables PROVE Inv'
<1> DEFINE s == Boot[pc.n]
<1>1. /\ pc.at = "boot" /\ BootNext
      /\ \/ s[1] = "install_gates" /\ install_gates(s[2]) /\ UNCHANGED <<handlers, esp0>>
         \/ s[1] = "register_irq_handler" /\ register_irq_handler(s[2]) /\ UNCHANGED <<idt, esp0>>
         \/ /\ s[1] = "register_exception_handler" /\ register_exception_handler(s[2])
            /\ UNCHANGED <<idt, esp0>>
         \/ s[1] = "esp0" /\ tss_set_kernel_stack(s[2]) /\ UNCHANGED tables
      /\ UNCHANGED <<flag_if, stack, sp, imr, irr, isr, current_task, state, kernel_esp>>
  BY DEF BootTables, Code, pics
<1>2. InCode
  BY <1>1, Where
<1>3. pc.n \in 1..36 /\ isr' = {}
  BY <1>1, <1>2, BootFacts
<1> HIDE DEF s
<1>4. ASSUME s[1] = "install_gates", install_gates(s[2]), UNCHANGED <<handlers, esp0>> PROVE InCode'
  <2>1. \/ pc.n = 3 /\ s[2] = "irq"
        \/ pc.n = 7 /\ s[2] = "exception"
        \/ pc.n = 9 /\ s[2] = "syscall"
    BY <1>3, <1>4, BootWhere DEF s
  <2>2. Tables(pc', idt', handlers', imr')
    BY <1>1, <1>2, <1>4, <2>1, GatesInstalled
  <2>3. pc.n \notin {5, 25, 29, 30, 31, 36} /\ ~(pc.n > 29)
    BY <2>1
  <2> QED BY <1>1, <1>2, <1>3, <1>4, <2>2, <2>3, BootTablesMove
<1>5. ASSUME s[1] = "register_irq_handler", register_irq_handler(s[2]), UNCHANGED <<idt, esp0>>
      PROVE  InCode'
  <2>1. \/ (pc.n = 13 /\ 32 + s[2] = 32)
        \/ (pc.n = 17 /\ 32 + s[2] = 46)
        \/ (pc.n = 22 /\ 32 + s[2] = 33)
    BY <1>3, <1>5, BootWhere DEF s
  <2>2. handlers' = handlers \cup {32 + s[2]}
    BY <1>5 DEF register_irq_handler
  <2>3. Tables(pc', idt', handlers', imr')
    BY <1>1, <1>2, <1>5, <2>1, <2>2, HandlerRegistered
  <2>4. pc.n \notin {5, 25, 29, 30, 31, 36} /\ ~(pc.n > 29)
    BY <2>1
  <2> QED BY <1>1, <1>2, <1>3, <1>5, <2>3, <2>4, BootTablesMove
<1>6. ASSUME s[1] = "register_exception_handler", register_exception_handler(s[2]), UNCHANGED <<idt, esp0>>
      PROVE  InCode'
  <2>1. pc.n = 21 /\ s[2] = 14
    BY <1>3, <1>6, BootWhere DEF s
  <2>2. handlers' = handlers \cup {14}
    BY <1>6, <2>1 DEF register_exception_handler
  <2>3. Tables(pc', idt', handlers', imr')
    BY <1>1, <1>2, <1>6, <2>1, <2>2, HandlerRegistered
  <2>4. pc.n \notin {5, 25, 29, 30, 31, 36} /\ ~(pc.n > 29)
    BY <2>1
  <2> QED BY <1>1, <1>2, <1>3, <1>6, <2>3, <2>4, BootTablesMove
<1>7. ASSUME s[1] = "esp0", tss_set_kernel_stack(s[2]), UNCHANGED tables PROVE InCode'
  <2>1. \/ pc.n = 11
        \/ pc.n = 29 /\ s[2] = "proc1"
    BY <1>3, <1>7, BootWhere DEF s
  <2>2. pc'.at = "boot" /\ pc'.n = pc.n + 1
    BY <1>1, <1>3, BootNextIs
  <2>3. Tables(pc', idt', handlers', imr')
    <3>1. Tables(pc, idt', handlers', imr')
      BY <1>1, <1>2, <1>7 DEF InCode, tables
    <3>2. \A k \in {3, 4, 7, 9, 13, 21, 22} : Done(pc', k) => Done(pc, k)
      BY <2>1, <2>2 DEF Done
    <3>3. pc'.n # 18
      BY <2>1, <2>2
    <3> QED BY <3>1, <3>2, <3>3, TablesKept
  <2>4. pc.n \notin {5, 25, 30, 31, 36} /\ ~(pc.n > 29) /\ (pc.n = 29 => esp0' = "proc1")
    BY <2>1, <1>7 DEF tss_set_kernel_stack
  <2> QED BY <1>1, <1>2, <1>3, <2>3, <2>4, BootTablesMove
<1>8. InCode'
  BY <1>1, <1>4, <1>5, <1>6, <1>7
<1> QED BY <1>1, <1>8 DEF Inv

(* A line that is opened has its handler.                                  *)
LEMMA LineOpened ==
  ASSUME InCode, pc.at = "boot", BootNext, NEW k, imr' = imr \ {k}, UNCHANGED <<idt, handlers>>,
         \/ pc.n = 14 /\ k = 0
         \/ pc.n = 18 /\ k = 14
         \/ pc.n = 23 /\ k = 1
  PROVE  Tables(pc', idt', handlers', imr')
<1>1. pc.n \in 1..36 /\ pc'.at = "boot" /\ pc'.n = pc.n + 1
  BY BootFacts, BootNextIs
<1>2. Tables(pc, idt, handlers, imr)
  BY DEF InCode
<1>3. Done(pc, 4)
  BY <1>1 DEF Done
<1>4. \A n \in {0, 1, 14} : n \in imr \/ 32 + n \in handlers
  BY <1>2, <1>3 DEF Tables
<1>5. 32 + k \in handlers
  <2>1. CASE pc.n = 14
    <3>1. 32 \in handlers
      BY <1>2, <2>1 DEF Tables, Done
    <3> QED BY <2>1, <3>1
  <2>2. CASE pc.n = 18
    <3>1. 46 \in handlers
      BY <1>2, <2>2 DEF Tables, Done
    <3> QED BY <2>2, <3>1
  <2>3. CASE pc.n = 23
    <3>1. 33 \in handlers
      BY <1>2, <2>3 DEF Tables, Done
    <3> QED BY <2>3, <3>1
  <2> QED BY <2>1, <2>2, <2>3
<1>6. \A n \in {0, 1, 14} : n \in imr' \/ 32 + n \in handlers'
  <2> SUFFICES ASSUME NEW n \in {0, 1, 14} PROVE n \in imr' \/ 32 + n \in handlers'
    OBVIOUS
  <2>1. n \in imr \/ 32 + n \in handlers
    BY <1>4
  <2>2. CASE n = k
    BY <1>5, <2>2
  <2>3. CASE n # k
    BY <2>1, <2>3
  <2> QED BY <2>2, <2>3
<1>7. \A j \in {3, 7, 9, 13, 21, 22} : Done(pc', j) => Done(pc, j)
  BY <1>1 DEF Done
<1>8. pc'.n # 18
  BY <1>1
<1> QED BY <1>2, <1>6, <1>7, <1>8 DEF Tables

LEMMA LinesLocked ==
  ASSUME InCode, pc.at = "boot", pc.n = 4, BootNext, lock_irqs, UNCHANGED <<idt, handlers>>
  PROVE  Tables(pc', idt', handlers', imr')
<1>1. pc'.at = "boot" /\ pc'.n = 5
  BY BootFacts, BootNextIs
<1>2. Tables(pc, idt, handlers, imr)
  BY DEF InCode
<1>3. \A n \in {0, 1, 14} : n \in imr'
  BY DEF lock_irqs, mask_irq, IRQ
<1>4. Done(pc, 3) /\ ~Done(pc', 7) /\ ~Done(pc', 9) /\ ~Done(pc', 13) /\ ~Done(pc', 21) /\ ~Done(pc', 22)
  BY <1>1 DEF Done
<1> QED BY <1>1, <1>2, <1>3, <1>4 DEF Tables

LEMMA BootPicsStep == ASSUME Inv, BootPics PROVE Inv'
<1> DEFINE s == Boot[pc.n]
<1>1. /\ pc.at = "boot" /\ BootNext
      /\ \/ s[1] = "pic_remap" /\ pic_remap /\ UNCHANGED <<imr, flag_if>>
         \/ s[1] = "lock_irqs" /\ lock_irqs /\ UNCHANGED <<irr, isr, flag_if>>
         \/ s[1] = "unmask_irq" /\ unmask_irq(s[2]) /\ UNCHANGED <<irr, isr, flag_if>>
         \/ s[1] = "sti" /\ flag_if' = TRUE /\ UNCHANGED pics
      /\ UNCHANGED <<stack, sp, idt, handlers, esp0, current_task, state, kernel_esp>>
  BY DEF BootPics, Code, tables, tasks
<1>2. InCode
  BY <1>1, Where
<1>3. pc.n \in 1..36 /\ isr = {} /\ pc'.at = "boot" /\ pc'.n = pc.n + 1
      /\ Own(pc') = "boot"
  BY <1>1, <1>2, BootFacts, BootNextIs
<1> HIDE DEF s
<1>4. ASSUME s[1] = "pic_remap", pic_remap, UNCHANGED <<imr, flag_if>> PROVE InCode' /\ irr' = {}
  <2>1. pc.n = 2
    BY <1>3, <1>4, BootWhere DEF s
  <2>2. pc.n \notin {3, 4, 5, 7, 9, 13, 17, 21, 22, 25, 29, 30, 31, 36}
    BY <2>1
  <2>3. isr' = {} /\ irr' = {}
    BY <1>1, <1>3, <1>4 DEF pic_remap
  <2> QED BY <1>1, <1>2, <1>4, <2>2, <2>3, BootPlain
<1>5. ASSUME s[1] = "lock_irqs", lock_irqs, UNCHANGED <<irr, isr, flag_if>> PROVE InCode'
  <2>1. pc.n = 4
    BY <1>3, <1>5, BootWhere DEF s
  <2>2. Tables(pc', idt', handlers', imr')
    BY <1>1, <1>2, <1>5, <2>1, LinesLocked
  <2>3. pc.n \notin {5, 25, 29, 30, 31, 36} /\ ~(pc.n > 29) /\ isr' = {}
    BY <1>3, <1>5, <2>1
  <2> QED BY <1>1, <1>2, <1>5, <2>2, <2>3, BootTablesMove
<1>6. ASSUME s[1] = "unmask_irq", unmask_irq(s[2]), UNCHANGED <<irr, isr, flag_if>> PROVE InCode'
  <2>1. \/ (pc.n = 14 /\ s[2] = 0)
        \/ (pc.n = 18 /\ s[2] = 14)
        \/ (pc.n = 23 /\ s[2] = 1)
    BY <1>3, <1>6, BootWhere DEF s
  <2>2. imr' = imr \ {s[2]}
    BY <1>6 DEF unmask_irq
  <2>3. Tables(pc', idt', handlers', imr')
    BY <1>1, <1>2, <2>1, <2>2, LineOpened
  <2>4. pc.n \notin {5, 25, 29, 30, 31, 36} /\ ~(pc.n > 29) /\ isr' = {}
    BY <1>3, <1>6, <2>1
  <2> QED BY <1>1, <1>2, <1>6, <2>3, <2>4, BootTablesMove
<1>7. ASSUME s[1] = "sti", flag_if' = TRUE, UNCHANGED pics PROVE InCode'
  <2>1. pc.n = 5 /\ pc'.n = 6
    BY <1>3, <1>7, BootWhere DEF s
  <2>2. isr' = {} /\ UNCHANGED imr
    BY <1>3, <1>7 DEF pics
  <2>3. FlagOf(pc', flag_if')
    BY <1>3, <1>7, <2>1 DEF FlagOf
  <2>4. Tables(pc', idt', handlers', imr')
    <3>1. Tables(pc, idt', handlers', imr')
      BY <1>1, <1>2, <2>2 DEF InCode
    <3>2. \A k \in {3, 4, 7, 9, 13, 21, 22} : Done(pc', k) => Done(pc, k)
      <4>1. pc.at = "boot" /\ pc'.at = "boot"
        BY <1>1, <1>3
      <4> QED BY <2>1, <4>1 DEF Done
    <3> QED BY <2>1, <3>1, <3>2, TablesKept
  <2>5. Tasks(pc', esp0', current_task', state', kernel_esp')
    <3>1. Tasks(pc, esp0', current_task', state', kernel_esp')
      BY <1>1, <1>2, BootFacts
    <3>2. pc'.n = pc.n + 1 /\ pc.n \in Nat /\ pc.n \notin {25, 29, 30, 31} /\ ~(pc.n > 29)
      BY <2>1
    <3> QED BY <1>1, <1>3, <3>1, <3>2, TasksPlain
  <2>6. pc.n < 36 /\ pc.n # 25
    BY <2>1
  <2> QED BY <1>1, <1>2, <2>2, <2>3, <2>4, <2>5, <2>6, BootMoves
<1>8. InCode' /\ irr' \subseteq irr
  BY <1>1, <1>4, <1>5, <1>6, <1>7 DEF pics
<1> QED BY <1>8 DEF Inv

LEMMA BootDiskStep == ASSUME Inv, BootDisk PROVE Inv'
<1>1. /\ pc.at = "boot"
      /\ \/ /\ Boot[pc.n] = <<"init_disk">>
            /\ BootNext \/ BootSkip(Len(init_disk) + Len(init_fs))
         \/ Boot[pc.n] = <<"init_fs">> /\ BootNext
      /\ UNCHANGED <<flag_if, stack, sp, pics, tables, current_task, state, kernel_esp, esp0>>
  BY DEF BootDisk, Code
<1>2. InCode
  BY <1>1, Where
<1>3. pc.n \in {16, 20} /\ (Boot[pc.n] = <<"init_disk">> => pc.n = 16)
      /\ isr = {} /\ flag_if = TRUE /\ Own(pc) = "boot"
      /\ Below(pc) = <<>> /\ pc \in Normal /\ sp = "boot"
  <2>1. pc.n \in 1..36
    BY <1>1, <1>2, BootFacts
  <2>2. pc.n \in {16, 20} /\ (Boot[pc.n] = <<"init_disk">> => pc.n = 16)
    BY <1>1, <2>1, BootWhere
  <2> QED BY <1>1, <1>2, <2>2, BootFacts
<1>4. ASSUME BootNext PROVE InCode'
  <2>1. pc.n \notin {3, 4, 5, 7, 9, 13, 17, 21, 22, 25, 29, 30, 31, 36}
    BY <1>3
  <2>2. isr' = {} /\ UNCHANGED <<idt, handlers, imr>>
    BY <1>1, <1>3 DEF pics, tables
  <2> QED BY <1>1, <1>2, <1>4, <2>1, <2>2, BootPlain
<1>5. ASSUME Boot[pc.n] = <<"init_disk">>, BootSkip(Len(init_disk) + Len(init_fs)) PROVE InCode'
  <2>0. pc.n = 16
    BY <1>3, <1>5
  <2>1. pc' = At("boot", 21)
    BY <1>5, <2>0, BootSteps DEF BootSkip, Goto
  <2>2. pc'.at = "boot" /\ pc'.n = 21 /\ pc' \in Normal /\ Own(pc') = "boot"
    BY <2>1, BootSteps DEF At, Normal, Pc, Own, SYSCALL
  <2>3. Below(pc') = <<>>
    BY <2>2, Zenon DEF Below
  <2>4. Done(pc, 25) <=> Done(pc', 25)
    BY <1>1, <2>0, <2>2 DEF Done
  <2>5. Stacks(pc', <<>>, state', stack')
    <3>1. Stacks(pc', <<>>, state, stack)
      BY <1>2, <1>3, <2>2, <2>3, <2>4, SameStacks DEF InCode
    <3> QED BY <1>1, <3>1
  <2>6. Tables(pc', idt', handlers', imr')
    <3>1. Tables(pc, idt', handlers', imr')
      <4>1. UNCHANGED <<idt, handlers, imr>>
        BY <1>1 DEF tables, pics
      <4> QED BY <1>2, <4>1 DEF InCode
    <3>2. \A k \in {3, 4, 7, 9, 13, 21, 22} : Done(pc', k) => Done(pc, k)
      BY <1>1, <2>0, <2>2 DEF Done
    <3> QED BY <2>2, <3>1, <3>2, TablesKept
  <2>7. Tasks(pc', esp0', current_task', state', kernel_esp')
    <3>1. Tasks(pc, esp0', current_task', state', kernel_esp')
      BY <1>1, <1>2, BootFacts
    <3>2. ~(pc.n > 25) /\ ~(pc.n > 30) /\ ~(pc'.n > 25) /\ ~(pc'.n > 29) /\ ~(pc'.n > 30) /\ ~(pc'.n > 31)
      BY <2>0, <2>2
    <3> QED BY <1>1, <1>3, <2>2, <3>1, <3>2 DEF Tasks, Done
  <2>8. FlagOf(pc', flag_if')
    BY <1>1, <1>3, <2>2 DEF FlagOf
  <2>9. isr' = {} /\ sp' = Own(pc')
    BY <1>1, <1>3, <2>2 DEF pics
  <2> QED BY <2>2, <2>5, <2>6, <2>7, <2>8, <2>9 DEF InCode
<1> QED BY <1>1, <1>4, <1>5 DEF Inv, pics

(* enter_proc1 fails and main() spins.                                     *)
LEMMA BootSpins ==
  ASSUME InCode, pc.at = "boot", pc.n > 25, pc.n # 31, pc' = At("spin", 0),
         UNCHANGED <<flag_if, stack, sp, idt, handlers, imr, isr, current_task, state, kernel_esp>>
  PROVE  InCode'
<1>1. pc'.at = "spin" /\ pc' \in Normal /\ Own(pc') = "boot"
  BY DEF At, Normal, Pc, Own, SYSCALL
<1>2. Below(pc') = <<>>
  BY <1>1, Zenon DEF Below
<1>3. Done(pc, 25) /\ Done(pc', 25)
  BY <1>1 DEF Done
<1>4. Stacks(pc', <<>>, state', stack')
  <2>1. Stacks(pc', <<>>, state, stack)
    BY <1>1, <1>2, <1>3, BootFacts, SameStacks DEF InCode
  <2> QED BY <2>1
<1>5. Tables(pc', idt', handlers', imr')
  <2>1. Tables(pc, idt', handlers', imr')
    BY DEF InCode
  <2>2. pc.n \in Nat /\ pc.n > 22
    <3>1. pc.n \in 1..36
      BY BootFacts
    <3> QED BY <3>1
  <2> QED BY <1>1, <2>1, <2>2, TablesAfterBoot
<1>6. Tasks(pc', esp0', current_task', state', kernel_esp')
  <2>1. Tasks(pc, esp0, current_task', state', kernel_esp') /\ pc.n \in 1..36
    BY BootFacts
  <2>2. pc.n > 31 \/ ~(pc.n > 30)
    BY <2>1
  <2>3. current_task' = "none" \/ (current_task' = "proc1" /\ state'["proc1"] = "running")
    <3>1. CASE pc.n > 31
      <4>1. pc.n > 30
        BY <2>1, <3>1
      <4> QED BY <2>1, <3>1, <4>1 DEF Tasks
    <3>2. CASE ~(pc.n > 30)
      BY <2>1, <3>2 DEF Tasks
    <3> QED BY <2>2, <3>1, <3>2
  <2> QED BY <1>1, <1>3, <2>1, <2>3 DEF Tasks
<1>7. FlagOf(pc', flag_if')
  <2>1. flag_if \in BOOLEAN /\ (flag_if <=> pc.n > 5)
    BY BootFacts
  <2>2. pc.n > 5
    <3>1. pc.n \in 1..36
      BY BootFacts
    <3> QED BY <3>1
  <2>3. flag_if' = TRUE
    BY <2>1, <2>2
  <2> QED BY <1>1, <2>3 DEF FlagOf
<1>8. isr' = {} /\ sp' = Own(pc')
  BY <1>1, BootFacts
<1> QED BY <1>1, <1>4, <1>5, <1>6, <1>7, <1>8 DEF InCode

LEMMA BootTasksStep == ASSUME Inv, BootTasks PROVE Inv'
<1> DEFINE s == Boot[pc.n]
<1>1. /\ pc.at = "boot"
      /\ \/ /\ s[1] = "init_idle_task" /\ BootNext
            /\ stack' = [stack EXCEPT !["idle"] = SwitchFrame(At("idle", 0))]
            /\ kernel_esp' = [kernel_esp EXCEPT !["idle"] = "idle"]
            /\ state' = [state EXCEPT !["idle"] = "ready"]
            /\ UNCHANGED <<current_task, flag_if>>
         \/ /\ s[1] = "enter_proc1"
            /\ BootNext \/ pc' = At("spin", 0)
            /\ UNCHANGED <<stack, current_task, state, kernel_esp, flag_if>>
         \/ /\ s[1] = "enqueue_task" /\ BootNext
            /\ current_task' = "proc1"
            /\ UNCHANGED <<stack, state, kernel_esp, flag_if>>
         \/ /\ s[1] = "task_running" /\ BootNext
            /\ state' = [state EXCEPT !["proc1"] = "running"]
            /\ UNCHANGED <<stack, current_task, kernel_esp, flag_if>>
         \/ /\ s[1] = "enter_user_task" /\ pc' = User
            /\ flag_if' = TRUE
            /\ UNCHANGED <<stack, current_task, state, kernel_esp>>
         \/ /\ s[1] # "task_running" /\ pc' = At("spin", 0) /\ pc.n > 25
            /\ UNCHANGED <<stack, current_task, state, kernel_esp, flag_if>>
      /\ UNCHANGED <<sp, idt, handlers, imr, irr, isr, esp0>>
  BY BootSteps DEF BootTasks, Code, Goto, tables, pics
<1>2. InCode
  BY <1>1, Where
<1>3. pc.n \in 1..36 /\ isr' = {} /\ Tasks(pc, esp0, current_task, state, kernel_esp) /\ Own(pc) = "boot"
  BY <1>1, <1>2, BootFacts
<1>S. state \in [Task -> State] /\ kernel_esp \in [Task -> Stack \cup {"none"}]
  BY <1>3 DEF Tasks
<1> HIDE DEF s
<1>4. ASSUME s[1] = "init_idle_task", BootNext, UNCHANGED <<current_task, flag_if>>,
             stack' = [stack EXCEPT !["idle"] = SwitchFrame(At("idle", 0))],
             kernel_esp' = [kernel_esp EXCEPT !["idle"] = "idle"],
             state' = [state EXCEPT !["idle"] = "ready"]
      PROVE  InCode'
  <2>1. pc.n = 25 /\ pc'.at = "boot" /\ pc'.n = 26 /\ Own(pc') = "boot"
    <3>1. pc.n = 25
      BY <1>3, <1>4, BootWhere DEF s
    <3>3. pc'.at = "boot" /\ pc'.n = pc.n + 1 /\ Own(pc') = "boot"
      BY <1>3, <1>4, BootNextIs
    <3> QED BY <3>1, <3>3
  <2>2. pc' \in Normal
    BY <1>4, <2>1, BootSteps DEF BootNext, Goto, At, Normal, Pc, SYSCALL
  <2>3. Below(pc') = Below(pc)
    <3>1. Below(pc') = <<>>
      BY <2>1, Zenon DEF Below
    <3> QED BY <1>1, <1>2, <3>1, BootFacts
  <2>4. Stacks(pc', <<>>, state', stack')
    <3> DEFINE f == SwitchFrame(At("idle", 0))
    <3>1. stack = [t \in Stack |-> stack[t]] /\ stack["boot"] = Below(pc) \o <<>> /\ stack["proc1"] = <<>>
      BY <1>2, <1>3, Zenon DEF InCode, Stacks, Others
    <3>2. stack' = [stack EXCEPT !["idle"] = f] /\ f \in IdleFrames
      BY <1>4, Zenon DEF IdleFrames
    <3> HIDE DEF f
    <3>3. stack' = [t \in Stack |-> stack'[t]] /\ stack'["boot"] = stack["boot"] /\ stack'["proc1"] = <<>>
          /\ stack'["idle"] = f
      BY <3>1, <3>2 DEF Stack
    <3>4. Done(pc', 25)
      BY <2>1 DEF Done
    <3>5. Others(pc', state', stack')
      BY <2>1, <3>2, <3>3, <3>4 DEF Others
    <3> QED BY <2>1, <2>3, <3>1, <3>3, <3>5, Zenon DEF Stacks
  <2>5. Tables(pc', idt', handlers', imr')
    <3>1. Tables(pc, idt', handlers', imr')
      BY <1>1, <1>2 DEF InCode
    <3>2. \A k \in {3, 4, 7, 9, 13, 21, 22} : Done(pc', k) => Done(pc, k)
      BY <2>1 DEF Done
    <3> QED BY <2>1, <3>1, <3>2, TablesKept
  <2>6. Tasks(pc', esp0', current_task', state', kernel_esp')
    <3>1. state' \in [Task -> State] /\ kernel_esp' \in [Task -> Stack \cup {"none"}]
          /\ kernel_esp'["idle"] = "idle" /\ state'["proc1"] = state["proc1"]
      BY <1>4, <1>S DEF Task, State, Stack
    <3>2. current_task = "none" /\ state["proc1"] = "new"
      <4>1. ~(pc.n > 30)
        BY <2>1
      <4> QED BY <1>1, <1>3, <4>1 DEF Tasks
    <3>3. ~(pc'.n > 29) /\ ~(pc'.n > 30) /\ ~(pc'.n > 31)
      BY <2>1
    <3> QED BY <1>4, <2>1, <3>1, <3>2, <3>3 DEF Tasks
  <2>7. FlagOf(pc', flag_if')
    <3>1. flag_if' = TRUE
      BY <1>1, <1>2, <1>4, <2>1, BootFacts
    <3> QED BY <2>1, <3>1 DEF FlagOf
  <2>8. sp' = "boot"
    BY <1>1, <1>2, BootFacts
  <2> QED BY <1>3, <2>1, <2>2, <2>4, <2>5, <2>6, <2>7, <2>8 DEF InCode
<1>5. ASSUME s[1] = "enter_proc1", BootNext, UNCHANGED <<stack, current_task, state, kernel_esp, flag_if>>
      PROVE  InCode'
  <2>1. pc.n = 26
    BY <1>3, <1>5, BootWhere DEF s
  <2>2. pc.n \notin {3, 4, 5, 7, 9, 13, 17, 21, 22, 25, 29, 30, 31, 36}
    BY <2>1
  <2> QED BY <1>1, <1>2, <1>3, <1>5, <2>2, BootPlain
<1>6. ASSUME s[1] = "enter_proc1", pc' = At("spin", 0),
             UNCHANGED <<stack, current_task, state, kernel_esp, flag_if>>
      PROVE  InCode'
  <2>1. pc.n > 25 /\ pc.n # 31
    BY <1>3, <1>6, BootWhere DEF s
  <2> QED BY <1>1, <1>2, <1>6, <2>1, BootSpins
<1>7. ASSUME BootNext, UNCHANGED <<stack, kernel_esp, flag_if>>,
             \/ s[1] = "enqueue_task" /\ current_task' = "proc1" /\ UNCHANGED state
             \/ /\ s[1] = "task_running" /\ UNCHANGED current_task
                /\ state' = [state EXCEPT !["proc1"] = "running"]
      PROVE  InCode'
  <2>1. \/ pc.n = 30 /\ current_task' = "proc1" /\ UNCHANGED state
        \/ pc.n = 31 /\ UNCHANGED current_task /\ state' = [state EXCEPT !["proc1"] = "running"]
    BY <1>3, <1>7, BootWhere DEF s
  <2>2. pc'.at = "boot" /\ pc'.n = pc.n + 1 /\ Own(pc') = "boot"
    BY <1>3, <1>7, BootNextIs
  <2>3. /\ state' \in [Task -> State] /\ current_task' = "proc1"
        /\ pc.n = 30 => state'["proc1"] = "new"
        /\ pc.n = 31 => state'["proc1"] = "running"
    <3>1. CASE pc.n = 30 /\ current_task' = "proc1" /\ UNCHANGED state
      <4>1. ~(pc.n > 30)
        BY <3>1
      <4>2. state["proc1"] = "new"
        BY <1>1, <1>3, <4>1 DEF Tasks
      <4> QED BY <1>S, <3>1, <4>2
    <3>2. CASE pc.n = 31 /\ UNCHANGED current_task /\ state' = [state EXCEPT !["proc1"] = "running"]
      <4>1. pc.n > 30
        BY <3>2
      <4>2. current_task = "proc1"
        BY <1>1, <1>3, <4>1 DEF Tasks
      <4>3. state' \in [Task -> State] /\ state'["proc1"] = "running"
        BY <1>S, <3>2 DEF Task, State
      <4> QED BY <3>2, <4>2, <4>3
    <3> QED BY <2>1, <3>1, <3>2
  <2>4. esp0' = "proc1" /\ kernel_esp'["idle"] = "idle"
    <3>1. pc.n > 29 /\ pc.n > 25
      BY <2>1
    <3> QED BY <1>1, <1>3, <1>7, <3>1 DEF Tasks, Done
  <2>5. Tasks(pc', esp0', current_task', state', kernel_esp')
    <3>1. pc'.n > 30 /\ (pc'.n > 31 => pc.n = 31) /\ (pc.n = 30 \/ pc.n = 31)
      BY <2>1, <2>2
    <3>2. state'["proc1"] \in {"new", "running"} /\ (pc'.n > 31 => state'["proc1"] = "running")
      BY <2>3, <3>1
    <3> QED BY <1>7, <1>S, <2>2, <2>3, <2>4, <3>1, <3>2 DEF Tasks
  <2>6. Tables(pc', idt', handlers', imr')
    <3>1. Tables(pc, idt', handlers', imr')
      BY <1>1, <1>2 DEF InCode
    <3>2. \A k \in {3, 4, 7, 9, 13, 21, 22} : Done(pc', k) => Done(pc, k)
      BY <2>1, <2>2 DEF Done
    <3> QED BY <2>1, <2>2, <3>1, <3>2, TablesKept
  <2>7. FlagOf(pc', flag_if')
    <3>1. flag_if' = TRUE /\ pc'.n > 5
      BY <1>1, <1>2, <1>7, <2>1, <2>2, BootFacts
    <3> QED BY <2>2, <3>1 DEF FlagOf
  <2>8. pc.n < 36 /\ pc.n # 25
    BY <2>1
  <2> QED BY <1>1, <1>2, <1>3, <1>7, <2>5, <2>6, <2>7, <2>8, BootMoves
<1>8. ASSUME s[1] = "enter_user_task", pc' = User, flag_if' = TRUE,
             UNCHANGED <<stack, current_task, state, kernel_esp>>
      PROVE  InCode'
  <2>1. pc.n = 36
    BY <1>3, <1>8, BootWhere DEF s
  <2>2. pc'.at = "user" /\ pc' \in Normal /\ Own(pc') = "proc1"
    BY <1>8 DEF User, At, Normal, Pc, Own, SYSCALL
  <2>3. Below(pc') = <<>>
    BY <2>2, Zenon DEF Below
  <2>4. Below(pc) = <<>>
    BY <1>1, <1>2, BootFacts
  <2>5. Stacks(pc', <<>>, state', stack')
    <3>1. Done(pc, 25) /\ Done(pc', 25)
      BY <2>1, <2>2 DEF Done
    <3>2. <<>> \o <<>> = <<>>
      OBVIOUS
    <3>3. stack = [t \in Stack |-> stack[t]] /\ stack["boot"] = <<>> /\ stack["proc1"] = <<>>
          /\ stack["idle"] \in IdleFrames
      BY <1>2, <1>3, <2>4, <3>1, <3>2, Zenon DEF InCode, Stacks, Others
    <3>4. Others(pc', state', stack')
      BY <1>8, <2>2, <3>1, <3>3 DEF Others
    <3> QED BY <1>8, <2>2, <2>3, <3>2, <3>3, <3>4, Zenon DEF Stacks
  <2>6. Tables(pc', idt', handlers', imr')
    <3>1. Tables(pc, idt', handlers', imr') /\ pc.n > 22 /\ pc.n \in Nat
      BY <1>1, <1>2, <2>1 DEF InCode
    <3> QED BY <2>2, <3>1, TablesAfterBoot
  <2>7. Tasks(pc', esp0', current_task', state', kernel_esp')
    <3>1. pc.n > 25 /\ pc.n > 29 /\ pc.n > 30 /\ pc.n > 31
      BY <2>1
    <3>2. esp0' = "proc1" /\ current_task' = "proc1" /\ state'["proc1"] = "running" /\ kernel_esp'["idle"] = "idle"
      BY <1>1, <1>3, <1>8, <3>1 DEF Tasks, Done
    <3> QED BY <1>8, <1>S, <2>2, <3>2 DEF Tasks
  <2>8. FlagOf(pc', flag_if')
    BY <1>8, <2>2 DEF FlagOf
  <2> QED BY <1>3, <2>2, <2>5, <2>6, <2>7, <2>8 DEF InCode
<1>9. ASSUME s[1] # "task_running", pc' = At("spin", 0), pc.n > 25,
             UNCHANGED <<stack, current_task, state, kernel_esp, flag_if>>
      PROVE  InCode'
  <2>1. pc.n # 31
    BY <1>9, BootSteps DEF s
  <2> QED BY <1>1, <1>2, <1>9, <2>1, BootSpins
<1>10. InCode'
  BY <1>1, <1>4, <1>5, <1>6, <1>7, <1>8, <1>9
<1> QED BY <1>1, <1>10 DEF Inv

LEMMA exit_taskStep == ASSUME Inv, exit_task PROVE Inv'
<1>1. /\ \/ /\ pc.at = "sys" /\ pc.n = SYS_EXIT /\ flag_if' = FALSE
            /\ pc' = [At("exit", 1) EXCEPT !.use = ExitPlaces[1]]
            /\ state' = [state EXCEPT ![current_task] = "zombie"]
            /\ UNCHANGED <<stack, sp, current_task, kernel_esp, esp0>>
         \/ /\ pc.at = "exit" /\ pc.n < Len(ExitPlaces)
            /\ pc' = [pc EXCEPT !.n = pc.n + 1, !.use = ExitPlaces[pc.n + 1]]
            /\ UNCHANGED <<flag_if, stack, sp, current_task, state, kernel_esp, esp0>>
         \/ /\ pc.at = "exit" /\ context_switch(current_task, next_task, state, At("spin", 0))
            /\ UNCHANGED flag_if
      /\ UNCHANGED <<idt, handlers, imr, irr, isr>>
  BY DEF exit_task, Goto, pics, tables
<1>2. InCode
  BY <1>1, Where
<1>T. Tasks(pc, esp0, current_task, state, kernel_esp)
  BY <1>2 DEF InCode
<1>E. Len(ExitPlaces) = 3 /\ \A i \in 1..3 : ExitPlaces[i] \in Place
  BY DEF ExitPlaces, Place
<1>3. ASSUME pc.at = "sys", flag_if' = FALSE, pc' = [At("exit", 1) EXCEPT !.use = ExitPlaces[1]],
             state' = [state EXCEPT ![current_task] = "zombie"],
             UNCHANGED <<stack, sp, current_task, kernel_esp, esp0>>
      PROVE  InCode'
  <2>1. pc'.at = "exit" /\ pc'.n = 1 /\ pc'.use = ExitPlaces[1] /\ pc' \in Pc
    BY <1>3, <1>E DEF At, Pc, SYSCALL
  <2>2. pc' \in Normal /\ Own(pc') = "proc1"
    BY <2>1 DEF Normal, Own
  <2>3. Below(pc') = SysStack
    BY <2>1, Zenon DEF Below
  <2>4. FlagOf(pc', flag_if')
    BY <1>3, <2>1 DEF FlagOf
  <2>5. pc.at \notin {"boot", "user"} /\ pc'.at \notin {"boot", "user"}
    BY <1>3, <2>1
  <2>6. Own(pc') = Own(pc) /\ Below(pc') = Below(pc)
    BY <1>2, <1>3, <2>2, <2>3, OnSysStack
  <2>7. Tasks(pc', esp0', current_task', state', kernel_esp')
    <3>1. esp0 = "proc1" /\ current_task = "proc1" /\ kernel_esp["idle"] = "idle"
          /\ state \in [Task -> State] /\ kernel_esp \in [Task -> Stack \cup {"none"}]
      BY <1>3, <1>T, <2>2, <2>6 DEF Tasks, Done
    <3>2. state' \in [Task -> State] /\ state'["proc1"] = "zombie"
      BY <1>3, <3>1 DEF Task, State
    <3> QED BY <1>3, <2>1, <2>2, <3>1, <3>2 DEF Tasks
  <2> QED BY <1>1, <1>2, <1>3, <2>2, <2>4, <2>5, <2>6, <2>7, CodeGoesOn DEF tables
<1>4. ASSUME pc.at = "exit", pc.n < Len(ExitPlaces),
             pc' = [pc EXCEPT !.n = pc.n + 1, !.use = ExitPlaces[pc.n + 1]],
             UNCHANGED <<flag_if, stack, sp, current_task, state, kernel_esp, esp0>>
      PROVE  InCode'
  <2>1. pc \in Normal /\ pc \in Pc /\ pc.n \in 1..2 /\ pc.n + 1 \in 1..3
    BY <1>2, <1>4, <1>E DEF InCode, Normal
  <2> DEFINE m == pc.n + 1
             u == ExitPlaces[m]
  <2>2. m \in 1..3 /\ m \in 0..SYSCALL /\ u \in Place
    BY <2>1, <1>E DEF SYSCALL
  <2> HIDE DEF m, u
  <2>3. pc' = [pc EXCEPT !.n = m, !.use = u]
    BY <1>4, Zenon DEF m, u
  <2>4. pc'.at = "exit" /\ pc'.n = m /\ pc'.use = u /\ pc' \in Pc
    BY <1>4, <2>1, <2>2, <2>3 DEF Pc
  <2>5. pc'.use = ExitPlaces[pc'.n]
    BY <2>4 DEF u
  <2>6. pc' \in Normal
    BY <2>2, <2>4, <2>5 DEF Normal
  <2>7. Own(pc') = Own(pc)
    BY <1>4, <2>4 DEF Own
  <2>8. Below(pc') = Below(pc)
    BY <1>4, <2>4, Zenon DEF Below
  <2>9. FlagOf(pc', flag_if')
    BY <1>2, <1>4, <2>4 DEF InCode, FlagOf
  <2>10. /\ pc.at \notin {"boot", "user"} /\ pc'.at \notin {"boot", "user", "spin"}
         /\ pc.at = "exit" <=> pc'.at = "exit"
    BY <1>4, <2>4
  <2> QED BY <1>1, <1>2, <1>4, <2>6, <2>7, <2>8, <2>9, <2>10, CodeMoves DEF tables
<1>5. ASSUME pc.at = "exit", context_switch(current_task, next_task, state, At("spin", 0)), UNCHANGED flag_if
      PROVE  InCode' \/ InHandler'
  <2>1. pc \in Normal /\ Own(pc) = "proc1" /\ Stacks(pc, <<>>, state, stack) /\ Done(pc, 25) /\ sp = Own(pc)
        /\ flag_if' = FALSE /\ isr' = {}
    BY <1>1, <1>2, <1>5 DEF InCode, Own, Done, FlagOf
  <2>2. Below(pc) = SysStack
    BY <1>5, Zenon DEF Below
  <2>3. (Below(pc) \o <<>>) \o SwitchFrame(At("spin", 0)) = SysStack \o SwitchFrame(At("spin", 0))
    <3>1. SysStack \o <<>> = SysStack
      BY SysStackType, ConcatEmptySeq
    <3> QED BY <2>2, <3>1, Zenon
  <2>4. current_task = "proc1" /\ state["proc1"] = "zombie" /\ kernel_esp["idle"] = "idle"
        /\ state \in [Task -> State] /\ kernel_esp \in [Task -> Stack \cup {"none"}]
    BY <1>5, <1>T, <2>1 DEF Tasks
  <2>5. next_task = "idle"
    BY <2>4 DEF next_task
  <2>6. context_switch("proc1", "idle", state, At("spin", 0))
    BY <1>5, <2>4, <2>5
  <2>7. Tables(At("idle", 0), idt', handlers', imr')
    <3>1. Tables(pc, idt', handlers', imr')
      BY <1>1, <1>2 DEF InCode
    <3> QED BY <1>5, <3>1, IdlePc, TablesAfterBoot
  <2>8. Own(pc) # "idle"
    BY <2>1
  <2> QED BY <2>1, <2>3, <2>4, <2>6, <2>7, <2>8, ToIdle
<1>6. InCode' \/ InHandler'
  BY <1>1, <1>3, <1>4, <1>5
<1> QED BY <1>1, <1>6 DEF Inv

(* A request that arrives changes nothing else.                            *)
LEMMA DeviceStep ==
  ASSUME Inv, Tick \/ KeyPress
  PROVE  Inv'
<1>1. UNCHANGED <<pc, flag_if, stack, sp, imr, isr, tables, tasks>> /\ irr' \subseteq irr \cup {0, 1}
  BY DEF Tick, KeyPress
<1>2. InCode => InCode'
  BY <1>1 DEF InCode, tables, tasks
<1>3. InHandler => InHandler'
  BY <1>1 DEF InHandler, Waits, tables, tasks
<1> QED BY <1>1, <1>2, <1>3 DEF Inv

LEMMA InitInv == Init => Inv
<1> SUFFICES ASSUME Init PROVE Inv
  OBVIOUS
<1>1. /\ pc = At("boot", 1) /\ flag_if = FALSE /\ stack = [s \in Stack |-> <<>>] /\ sp = "boot"
      /\ idt = [v \in Vector |-> "none"] /\ handlers = {} /\ irr \subseteq {0} /\ isr = {}
      /\ current_task = "none" /\ state = [t \in Task |-> "new"] /\ kernel_esp = [t \in Task |-> "none"]
  BY DEF Init, Vector
<1>2. pc.at = "boot" /\ pc.n = 1 /\ pc \in Normal /\ Own(pc) = "boot"
  <2>1. pc = [at |-> "boot", n |-> 1, use |-> "none"]
    BY <1>1 DEF At
  <2>2. pc \in Pc
    BY <2>1 DEF Pc, SYSCALL
  <2>3. pc \in Normal
    BY <2>1, <2>2, BootSteps DEF Normal
  <2> QED BY <2>1, <2>3 DEF Own
<1>3. Below(pc) = <<>>
  BY <1>2, Zenon DEF Below
<1>4. ~Done(pc, 25)
  BY <1>2 DEF Done
<1>6. Stacks(pc, <<>>, state, stack)
  <2>1. <<>> \o <<>> = <<>>
    OBVIOUS
  <2>2. stack["boot"] = <<>> /\ stack["proc1"] = <<>> /\ stack["idle"] = <<>> /\ stack = [s \in Stack |-> stack[s]]
    BY <1>1 DEF Stack
  <2>3. Others(pc, state, stack)
    BY <1>2, <1>4, <2>2 DEF Others
  <2> QED BY <1>2, <1>3, <2>1, <2>2, <2>3, Zenon DEF Stacks
<1>7. Tables(pc, idt, handlers, imr)
  <2>1. DOMAIN idt = Vector /\ handlers = {}
    BY <1>1
  <2>2. \A k \in {3, 4, 7, 9, 13, 21, 22} : ~Done(pc, k)
    BY <1>2 DEF Done
  <2> QED BY <1>2, <2>1, <2>2 DEF Tables
<1>8. Tasks(pc, esp0, current_task, state, kernel_esp)
  <2>1. state \in [Task -> State] /\ state["proc1"] = "new" /\ kernel_esp \in [Task -> Stack \cup {"none"}]
    BY <1>1 DEF Task, State, Stack
  <2>2. ~(pc.n > 29) /\ ~(pc.n > 30) /\ ~(pc.n > 31)
    BY <1>2
  <2> QED BY <1>1, <1>2, <1>4, <2>1, <2>2 DEF Tasks
<1>9. FlagOf(pc, flag_if)
  <2>1. flag_if = FALSE /\ ~(pc.n > 5)
    BY <1>1, <1>2
  <2> QED BY <1>2, <2>1 DEF FlagOf
<1> QED BY <1>1, <1>2, <1>6, <1>7, <1>8, <1>9 DEF Inv, InCode

LEMMA StutterInv == ASSUME Inv, UNCHANGED vars PROVE Inv'
<1>1. UNCHANGED <<pc, flag_if, stack, sp, pics, tables, tasks>>
  BY DEF vars
<1>2. InCode => InCode'
  BY <1>1 DEF InCode, pics, tables, tasks
<1>3. InHandler => InHandler'
  <2>1. UNCHANGED <<isr, imr, idt, handlers, esp0, current_task, state, kernel_esp>>
    BY <1>1 DEF pics, tables, tasks
  <2> QED BY <1>1, <2>1 DEF InHandler, Waits
<1> QED BY <1>1, <1>2, <1>3 DEF Inv, pics

LEMMA NextInv == Inv /\ [Next]_vars => Inv'
<1> SUFFICES ASSUME Inv, [Next]_vars PROVE Inv'
  OBVIOUS
<1>1. CASE BootTables \/ BootPics \/ BootDisk \/ BootTasks
  BY <1>1, BootTablesStep, BootPicsStep, BootDiskStep, BootTasksStep
<1>2. CASE EnterPlace \/ LeavePlace \/ Touch
  BY <1>2, EnterPlaceStep, LeavePlaceStep, TouchStep
<1>3. CASE UserStep \/ SysReturn \/ Halt \/ irq_save \/ irq_restore \/ exit_task
  BY <1>3, UserStepStep, SysReturnStep, HaltStep, irq_saveStep, irq_restoreStep, exit_taskStep
<1>4. CASE idle_task_entry \/ Spin
  BY <1>4, idle_task_entryStep, SpinStep
<1>5. CASE irq_handler \/ EndOfInterrupt \/ schedule \/ Switched
  BY <1>5, irq_handlerStep, EndOfInterruptStep, scheduleStep, SwitchedStep
<1>6. CASE exceptions_dispatch \/ page_fault_handler \/ Leave \/ iret
  BY <1>6, exceptions_dispatchStep, page_fault_handlerStep, LeaveStep, iretStep
<1>7. CASE Accept \/ Spurious
  BY <1>7, AcceptStep, SpuriousStep
<1>8. CASE Tick \/ KeyPress
  BY <1>8, DeviceStep
<1>9. CASE UNCHANGED vars
  BY <1>9, StutterInv
<1> QED BY <1>1, <1>2, <1>3, <1>4, <1>5, <1>6, <1>7, <1>8, <1>9, Zenon DEF Next, CPU

(* What runs is either code that is no handler, with nothing in service,   *)
(* or one handler above one piece of such code, which may be main() or     *)
(* idle switched away and back in the middle of schedule().  Every kernel  *)
(* stack holds exactly the frames that this implies, those of tasks that   *)
(* were switched away included, and gates, handlers and masks are as far   *)
(* as main() got.                                                          *)
THEOREM Inductive == Spec => []Inv
<1> QED BY InitInv, NextInv, PTL DEF Spec

----------------------------------------------------------------------------
(* The properties of the model, from the invariant.                        *)

(* Programs, system calls and a CPU that sleeps can be interrupted.        *)
THEOREM AlwaysInterruptible == Spec => []Interruptible
<1>1. Inv => Interruptible
  <2> SUFFICES ASSUME Inv, pc.at \in {"user", "sys", "hlt"} PROVE flag_if
    BY DEF Interruptible
  <2>1. InCode
    BY Where
  <2> QED BY <2>1 DEF InCode, FlagOf
<1> QED BY <1>1, Inductive, PTL

(* Whatever arrives at whatever point of main(), there is a gate for it,   *)
(* and a request of a device finds its handler.                            *)
THEOREM TrapsHandled == Spec => []EveryTrapHandled
<1>1. Inv => EveryTrapHandled
  <2> SUFFICES ASSUME Inv PROVE EveryTrapHandled
    OBVIOUS
  <2>1. pc.at # "shutdown"
    BY Where
  <2>2. ASSUME pc.at = "dispatch", pc.n \in {14, 32, 33, 46} PROVE pc.n \in handlers
    <3>1. PICK p \in Normal : Waits(p)
      BY <2>2, Where DEF InHandler
    <3>2. HandlerAt(pc, p, isr, handlers)
      BY <3>1 DEF Waits
    <3>3. CASE pc.n \in Irq
      BY <2>2, <3>2, <3>3, InterruptsAssumption DEF HandlerAt, Irq, Exception
    <3>4. CASE pc.n \notin Irq
      BY <2>2, <3>2, <3>4 DEF HandlerAt, Irq
    <3> QED BY <3>3, <3>4
  <2> QED BY <2>1, <2>2 DEF EveryTrapHandled
<1> QED BY <1>1, Inductive, PTL

(* pic_send_eoi acknowledges the request that the handler was called for   *)
(* and no other, and nothing at all when the interrupt was spurious.       *)
THEOREM EoiForOwnRequest == Spec => []EoiOwnRequest
<1>1. Inv => EoiOwnRequest
  <2> SUFFICES ASSUME Inv, pc.at = "eoi"
               PROVE  pic_send_eoi(pc.n - 32) = IF pc.n = 39 THEN isr ELSE isr \ InService(pc.n - 32)
    BY DEF EoiOwnRequest
  <2>1. PICK p \in Normal : Waits(p)
    BY Where DEF InHandler
  <2>2. /\ pic_send_eoi(pc.n - 32) = {} /\ (pc.n = 39 => isr = {})
        /\ (pc.n # 39 => isr = InService(pc.n - 32))
    BY <2>1, EoiOwn
  <2> QED BY <2>2
<1> QED BY <1>1, Inductive, PTL

(* At an iret the top of the stack is the frame that the CPU pushed, for   *)
(* the stub of every vector, and an exception handler got its error code.  *)
THEOREM StubsAlwaysBalanced == Spec => []StubsBalanced
<1>1. Inv => StubsBalanced
  <2> SUFFICES ASSUME Inv PROVE StubsBalanced
    OBVIOUS
  <2> DEFINE s == stack[sp]
             kind(i) == s[Len(s) + 1 - i][1]
  <2>1. ASSUME pc.at = "iret" PROVE kind(1) = "eip" /\ kind(2) = "cs" /\ kind(3) = "eflags"
    <3>1. CASE pc.n = SYSCALL
      <4>1. InCode
        BY <2>1, <3>1, Where
      <4>2. pc = At("iret", SYSCALL)
        BY <2>1, <3>1, <4>1 DEF InCode, Normal, Pc, At
      <4>3. stack[sp] = UserFrame \o <<>>
        <5>1. pc \in Normal /\ sp = Own(pc) /\ Stacks(pc, <<>>, state, stack)
          BY <2>1, <4>1 DEF InCode
        <5>2. stack[Own(pc)] = Below(pc) \o <<>>
          BY <5>1, Replace, Zenon
        <5> QED BY <4>2, <5>1, <5>2, SyscallPcs, Zenon
      <4>4. FrameOf(User) = UserFrame /\ <<>> \in Seq(Word) /\ User \in Normal
        BY SyscallPcs DEF FrameOf, User, At
      <4>5. UserFrame \o <<>> = UserFrame /\ <<>> \o UserFrame = UserFrame
        BY UserFrameType, ConcatEmptySeq
      <4>6. s = <<>> \o FrameOf(User)
        BY <4>3, <4>4, <4>5, Zenon
      <4>7. FrameOnTop(<<>> \o FrameOf(User), <<>>, User)
        BY <4>4, FrameWords
      <4>8. FrameOnTop(s, <<>>, User)
        BY <4>6, <4>7, Zenon
      <4> QED BY <4>8, Zenon DEF FrameOnTop
    <3>2. CASE pc.n # SYSCALL
      <4>1. PICK p \in Normal : Waits(p)
        BY <2>1, <3>2, Where DEF InHandler
      <4>2. PushedBy(pc, p) = FrameOf(p)
        BY <2>1, Zenon DEF PushedBy
      <4>3. sp = Own(p) /\ Stacks(p, FrameOf(p), state, stack)
        BY <4>1, <4>2 DEF Waits
      <4>4. s = Below(p) \o FrameOf(p)
        BY <4>3, Replace, Zenon
      <4>5. Below(p) \in Seq(Word) /\ (p.at = "user" => p = User)
        BY BelowType DEF Normal, Pc, User, At
      <4>6. FrameOnTop(Below(p) \o FrameOf(p), Below(p), p)
        BY <4>5, FrameWords
      <4>7. FrameOnTop(s, Below(p), p)
        BY <4>4, <4>6, Zenon
      <4> QED BY <4>7, Zenon DEF FrameOnTop
    <3> QED BY <3>1, <3>2
  <2>2. ASSUME pc.at = "dispatch", pc.n \in HasErrorCode PROVE kind(2) = "error"
    <3>1. PICK p \in Normal : Waits(p)
      BY <2>2, Where DEF InHandler
    <3>2. PushedBy(pc, p) = FrameOf(p) \o Top(pc.n)
      BY <2>2, Zenon DEF PushedBy
    <3>3. s = Below(p) \o (FrameOf(p) \o Top(pc.n))
      BY <3>1, <3>2, Replace, Zenon DEF Waits
    <3>4. pc.n \in Nat
      BY <2>2 DEF HasErrorCode
    <3>5. Below(p) \in Seq(Word) /\ FrameOf(p) \in Seq(Word) /\ Top(pc.n) \in Seq(Word)
      BY <3>4, BelowType, FrameType, TopType
    <3>6. Len(Top(pc.n)) = 11 /\ Top(pc.n)[10][1] = "error"
      BY <2>2, <3>4, TopType
    <3> DEFINE x == Below(p) \o FrameOf(p)
               t == Top(pc.n)
    <3>7. x \in Seq(Word) /\ t \in Seq(Word) /\ Below(p) \o (FrameOf(p) \o t) = x \o t
      <4>1. x \in Seq(Word) /\ t \in Seq(Word)
        BY <3>5, Joined
      <4>2. \A b, c, d \in Seq(Word) : (b \o c) \o d = b \o (c \o d)
        BY ConcatAssociative
      <4>3. (Below(p) \o FrameOf(p)) \o Top(pc.n) = Below(p) \o (FrameOf(p) \o Top(pc.n))
        BY <3>5, <4>2, Zenon
      <4> QED BY <4>1, <4>3, Zenon
    <3>8. s = x \o t
      BY <3>3, <3>7, Zenon
    <3>9. \A i \in 1..Len(t) : (x \o t)[Len(x \o t) + 1 - i] = t[Len(t) + 1 - i]
      <4>1. x \in Seq(Word) /\ t \in Seq(Word)
        BY <3>7
      <4> HIDE DEF x, t
      <4> QED BY <4>1, Popped, Zenon
    <3>10. 2 \in 1..Len(t) /\ Len(t) + 1 - 2 = 10
      BY <3>6
    <3> HIDE DEF x, t
    <3>11. (x \o t)[Len(x \o t) + 1 - 2] = t[10]
      BY <3>9, <3>10, Zenon
    <3> QED BY <3>6, <3>8, <3>11, Zenon DEF t
  <2> QED BY <2>1, <2>2, Zenon DEF StubsBalanced
<1> QED BY <1>1, Inductive, PTL

(* The code that waits on a stack s: none, one at q, or two at q and r.    *)
Eips(s) == {i \in DOMAIN s : s[i][1] = "eip"}
NoneWaits(s) == Eips(s) = {}
OneWaits(s, q) == \E i \in Nat : Eips(s) = {i} /\ s[i][2] = q
TwoWait(s, q, r) == \E i, j \in Nat : Eips(s) = {i, j} /\ s[i][2] = q /\ s[j][2] = r

(* What waits on a stack on top of another.                                *)
LEMMA EipsJoin ==
  ASSUME NEW a \in Seq(Word), NEW b \in Seq(Word)
  PROVE  /\ NoneWaits(a) /\ NoneWaits(b) => NoneWaits(a \o b)
         /\ \A q : OneWaits(a, q) /\ NoneWaits(b) => OneWaits(a \o b, q)
         /\ \A q : NoneWaits(a) /\ OneWaits(b, q) => OneWaits(a \o b, q)
         /\ \A q, r : OneWaits(a, q) /\ OneWaits(b, r) => TwoWait(a \o b, q, r)
<1> DEFINE c == a \o b
<1>1. /\ c \in Seq(Word) /\ Len(c) = Len(a) + Len(b)
      /\ \A i \in 1..(Len(a) + Len(b)) : c[i] = IF i <= Len(a) THEN a[i] ELSE b[i - Len(a)]
  BY Joined, Zenon
<1> HIDE DEF c
<1>2. DOMAIN a = 1..Len(a) /\ DOMAIN b = 1..Len(b) /\ DOMAIN c = 1..Len(c)
      /\ Len(a) \in Nat /\ Len(b) \in Nat
  BY <1>1
<1>3. \A i \in Eips(a) : i \in Nat /\ i \in Eips(c) /\ c[i] = a[i]
  BY <1>1, <1>2 DEF Eips
<1>4. \A j \in Eips(b) : j \in Nat /\ Len(a) + j \in Nat /\ Len(a) + j \in Eips(c) /\ c[Len(a) + j] = b[j]
  <2> SUFFICES ASSUME NEW j \in Eips(b)
               PROVE  j \in Nat /\ Len(a) + j \in Nat /\ Len(a) + j \in Eips(c) /\ c[Len(a) + j] = b[j]
    OBVIOUS
  <2>1. j \in 1..Len(b) /\ b[j][1] = "eip"
    BY <1>2 DEF Eips
  <2>2. Len(a) + j \in 1..(Len(a) + Len(b)) /\ ~(Len(a) + j <= Len(a)) /\ Len(a) + j - Len(a) = j
    BY <1>2, <2>1
  <2>3. c[Len(a) + j] = b[j]
    <3>1. PICK k \in Nat : k = Len(a) + j
      BY <1>2, <2>1
    <3>2. k \in 1..(Len(a) + Len(b)) /\ ~(k <= Len(a)) /\ k - Len(a) = j
      BY <1>2, <2>1, <3>1
    <3>3. c[k] = IF k <= Len(a) THEN a[k] ELSE b[k - Len(a)]
      BY <1>1, <3>2
    <3> QED BY <3>1, <3>2, <3>3
  <2>4. Len(a) + j \in DOMAIN c /\ c[Len(a) + j][1] = "eip" /\ j \in Nat /\ Len(a) + j \in Nat
    BY <1>1, <1>2, <2>1, <2>2, <2>3
  <2> QED BY <2>3, <2>4 DEF Eips
<1>5. \A i \in Eips(c) : i \in Eips(a) \/ \E j \in Eips(b) : i = Len(a) + j
  <2> SUFFICES ASSUME NEW i \in Eips(c) PROVE i \in Eips(a) \/ \E j \in Eips(b) : i = Len(a) + j
    OBVIOUS
  <2>1. i \in 1..(Len(a) + Len(b)) /\ c[i][1] = "eip"
    BY <1>1, <1>2 DEF Eips
  <2>2. CASE i <= Len(a)
    BY <1>1, <1>2, <2>1, <2>2 DEF Eips
  <2>3. CASE ~(i <= Len(a))
    <3>1. i - Len(a) \in 1..Len(b) /\ i = Len(a) + (i - Len(a)) /\ c[i] = b[i - Len(a)]
      BY <1>1, <1>2, <2>1, <2>3
    <3> QED BY <1>2, <2>1, <3>1 DEF Eips
  <2> QED BY <2>2, <2>3
<1>6. NoneWaits(a) /\ NoneWaits(b) => NoneWaits(c)
  BY <1>5 DEF NoneWaits
<1>7. ASSUME NEW q, OneWaits(a, q), NoneWaits(b) PROVE OneWaits(c, q)
  <2>1. PICK i \in Nat : Eips(a) = {i} /\ a[i][2] = q
    BY <1>7 DEF OneWaits
  <2>2. Eips(b) = {}
    BY <1>7 DEF NoneWaits
  <2>3. Eips(c) = {i} /\ c[i][2] = q
    BY <1>3, <1>5, <2>1, <2>2
  <2> QED BY <2>3 DEF OneWaits
<1>8. ASSUME NEW q, NoneWaits(a), OneWaits(b, q) PROVE OneWaits(c, q)
  <2>1. PICK j \in Nat : Eips(b) = {j} /\ b[j][2] = q
    BY <1>8 DEF OneWaits
  <2>2. Eips(a) = {}
    BY <1>8 DEF NoneWaits
  <2>3. Eips(c) = {Len(a) + j} /\ c[Len(a) + j][2] = q /\ Len(a) + j \in Nat
    BY <1>4, <1>5, <2>1, <2>2
  <2> QED BY <2>3 DEF OneWaits
<1>9. ASSUME NEW q, NEW r, OneWaits(a, q), OneWaits(b, r) PROVE TwoWait(c, q, r)
  <2>1. PICK i \in Nat : Eips(a) = {i} /\ a[i][2] = q
    BY <1>9 DEF OneWaits
  <2>2. PICK j \in Nat : Eips(b) = {j} /\ b[j][2] = r
    BY <1>9 DEF OneWaits
  <2>3. Eips(c) = {i, Len(a) + j} /\ c[i][2] = q /\ c[Len(a) + j][2] = r /\ Len(a) + j \in Nat
    BY <1>3, <1>4, <1>5, <2>1, <2>2
  <2> QED BY <2>3 DEF TwoWait
<1> QED BY <1>6, <1>7, <1>8, <1>9 DEF c

LEMMA PartEips ==
  /\ NoneWaits(<<>>)
  /\ \A v \in Nat : NoneWaits(Top(v))
  /\ OneWaits(UserFrame, User)
  /\ \A p \in Pc : OneWaits(KernelFrame(p), p) /\ OneWaits(SwitchFrame(p), p)
<1>1. NoneWaits(<<>>)
  BY DEF NoneWaits, Eips
<1>2. ASSUME NEW v \in Nat PROVE NoneWaits(Top(v))
  <2>1. DOMAIN Top(v) = 1..Len(Top(v)) /\ \A i \in 1..Len(Top(v)) : Top(v)[i][1] # "eip"
    BY TopType
  <2> QED BY <2>1 DEF NoneWaits, Eips
<1>3. OneWaits(UserFrame, User)
  <2>1. DOMAIN UserFrame = 1..5
    BY UserFrameType
  <2>2. Eips(UserFrame) = {5}
    BY <2>1, UserFrameType DEF Eips
  <2> QED BY <2>2, UserFrameType DEF OneWaits
<1>4. ASSUME NEW p \in Pc PROVE OneWaits(KernelFrame(p), p)
  <2> DEFINE f == KernelFrame(p)
  <2>1. f \in Seq(Word) /\ Len(f) = 3 /\ f[1][1] = "eflags" /\ f[2][1] = "cs" /\ f[3][1] = "eip"
        /\ f[3][2] = p
    BY KernelFrameType, Zenon
  <2> HIDE DEF f
  <2>2. DOMAIN f = 1..3
    BY <2>1
  <2>3. Eips(f) = {3}
    BY <2>1, <2>2 DEF Eips
  <2>4. OneWaits(f, p)
    BY <2>1, <2>3 DEF OneWaits
  <2> QED BY <2>4 DEF f
<1>5. ASSUME NEW p \in Pc PROVE OneWaits(SwitchFrame(p), p)
  <2>1. DOMAIN SwitchFrame(p) = 1..5
    BY SwitchFrameType
  <2>2. Eips(SwitchFrame(p)) = {1}
    BY <2>1, SwitchFrameType DEF Eips
  <2> QED BY <2>2, SwitchFrameType DEF OneWaits
<1> QED BY <1>1, <1>2, <1>3, <1>4, <1>5

LEMMA SysStackEips == OneWaits(SysStack, User) /\ NoneWaits(<< <<"flags", TRUE>> >>)
<1>1. UserFrame \in Seq(Word) /\ Top(SYSCALL) \in Seq(Word) /\ SYSCALL \in Nat
  BY TopType, UserFrameType DEF SYSCALL
<1>2. OneWaits(UserFrame \o Top(SYSCALL), User)
  BY <1>1, PartEips, EipsJoin
<1>3. OneWaits(SysStack, User)
  BY <1>2, Zenon DEF SysStack
<1>4. NoneWaits(<< <<"flags", TRUE>> >>)
  BY DEF NoneWaits, Eips
<1> QED BY <1>3, <1>4

(* Under code that runs on the stack of proc1 waits the program, under     *)
(* other code nothing.                                                     *)
LEMMA BelowEips ==
  ASSUME NEW p \in Normal
  PROVE  NoneWaits(Below(p)) \/ (Own(p) = "proc1" /\ OneWaits(Below(p), User))
<1>1. OneWaits(SysStack \o << <<"flags", TRUE>> >>, User)
  <2>1. <<"flags", TRUE>> \in Word
    BY DEF Word
  <2>2. << <<"flags", TRUE>> >> \in Seq(Word)
    BY <2>1, FiveWords
  <2> QED BY <2>2, SysStackType, SysStackEips, EipsJoin
<1>2. CASE p.at \in {"sys", "exit", "leave"} \/ (p.at = "hlt" /\ p.n = SYS_READ)
  <2>1. Below(p) = SysStack
    BY <1>2, Zenon DEF Below
  <2>2. Own(p) = "proc1"
    BY <1>2 DEF Own, SYS_READ
  <2> QED BY <2>1, <2>2, SysStackEips
<1>3. CASE p.at = "switch_mm"
  <2>1. Below(p) = SysStack \o << <<"flags", TRUE>> >>
    BY <1>3, Zenon DEF Below
  <2>2. Own(p) = "proc1"
    BY <1>3 DEF Own
  <2> QED BY <1>1, <2>1, <2>2, Zenon
<1>4. CASE p.at = "iret"
  <2>1. Below(p) = UserFrame
    BY <1>4, Zenon DEF Below
  <2>2. Own(p) = "proc1"
    BY <1>4 DEF Own
  <2> QED BY <2>1, <2>2, PartEips
<1>5. CASE ~(p.at \in {"sys", "exit", "leave", "switch_mm", "iret"} \/ (p.at = "hlt" /\ p.n = SYS_READ))
  <2>1. Below(p) = <<>>
    BY <1>5, Zenon DEF Below
  <2> QED BY <2>1, PartEips
<1> QED BY <1>2, <1>3, <1>4, <1>5

(* The frames of a task that was switched away.                            *)
LEMMA SwitchedEips ==
  ASSUME NEW p \in Pc
  PROVE  TwoWait(SwitchedOut(p), p, At("switched", 32)) /\ OneWaits(SwitchFrame(p), p)
<1> DEFINE to == At("switched", 32)
           f == KernelFrame(p) \o Top(32)
<1>1. to \in Pc /\ SwitchFrame(to) \in Seq(Word) /\ OneWaits(SwitchFrame(to), to)
  BY UserIsPc, SwitchFrameType, PartEips
<1>2. KernelFrame(p) \in Seq(Word) /\ Top(32) \in Seq(Word) /\ OneWaits(KernelFrame(p), p) /\ NoneWaits(Top(32))
  BY KernelFrameType, TopType, PartEips
<1>3. f \in Seq(Word) /\ OneWaits(f, p)
  BY <1>2, EipsJoin, Joined
<1> HIDE DEF f
<1>4. TwoWait(f \o SwitchFrame(to), p, to)
  BY <1>1, <1>3, EipsJoin
<1>5. SwitchedOut(p) = f \o SwitchFrame(to)
  BY Zenon DEF SwitchedOut, f
<1>6. TwoWait(SwitchedOut(p), p, to)
  BY <1>4, <1>5, Zenon
<1> QED BY <1>6, PartEips

(* What may wait on a stack that is not in use: code in no place.          *)
Waiting(s) ==
  \/ NoneWaits(s)
  \/ OneWaits(s, At("idle", 0))
  \/ TwoWait(s, User, At("spin", 0))
  \/ TwoWait(s, At("boot", 31), At("switched", 32))
  \/ TwoWait(s, At("idle", 0), At("switched", 32))

LEMMA OtherStacks ==
  ASSUME NEW p \in Normal, NEW x, Stacks(p, x, state, stack), NEW s \in Stack, s # Own(p)
  PROVE  Waiting(stack[s])
<1>1. TwoWait(SysStack \o SwitchFrame(At("spin", 0)), User, At("spin", 0))
  <2>1. SwitchFrame(At("spin", 0)) \in Seq(Word) /\ OneWaits(SwitchFrame(At("spin", 0)), At("spin", 0))
    BY UserIsPc, SwitchFrameType, PartEips
  <2> QED BY <2>1, SysStackType, SysStackEips, EipsJoin
<1>2. \/ stack[s] = <<>>
      \/ stack[s] = SwitchFrame(At("idle", 0))
      \/ stack[s] = SwitchedOut(At("idle", 0))
      \/ stack[s] = SwitchedOut(At("boot", 31))
      \/ stack[s] = SysStack \o SwitchFrame(At("spin", 0))
  <2>1. Others(p, state, stack)
    BY DEF Stacks
  <2>2. Own(p) \in Stack
    BY BelowType
  <2>3. CASE s = "idle"
    <3>1. stack["idle"] \in IF Done(p, 25) THEN IdleFrames ELSE {<<>>}
      BY <2>1, <2>3 DEF Others
    <3> QED BY <2>3, <3>1 DEF IdleFrames
  <2>4. CASE s = "boot"
    BY <2>1, <2>2, <2>4, Zenon DEF Others, Stack
  <2>5. CASE s = "proc1"
    BY <2>1, <2>2, <2>5, Zenon DEF Others, Stack
  <2> QED BY <2>3, <2>4, <2>5 DEF Stack
<1>3. NoneWaits(<<>>)
  BY PartEips
<1>4. OneWaits(SwitchFrame(At("idle", 0)), At("idle", 0))
      /\ TwoWait(SwitchedOut(At("idle", 0)), At("idle", 0), At("switched", 32))
      /\ TwoWait(SwitchedOut(At("boot", 31)), At("boot", 31), At("switched", 32))
  BY UserIsPc, SwitchedEips
<1> QED BY <1>1, <1>2, <1>3, <1>4, Zenon DEF Waiting

LEMMA WaitCounts ==
  ASSUME NEW s
  PROVE  /\ NoneWaits(s) => Cardinality(Eips(s)) = 0
         /\ \A q : OneWaits(s, q) => Cardinality(Eips(s)) = 1
         /\ \A q, r : TwoWait(s, q, r) => Cardinality(Eips(s)) <= 2
<1>1. NoneWaits(s) => Cardinality(Eips(s)) = 0
  BY FS_EmptySet DEF NoneWaits
<1>2. \A q : OneWaits(s, q) => Cardinality(Eips(s)) = 1
  BY FS_Singleton DEF OneWaits
<1>3. ASSUME NEW q, NEW r, TwoWait(s, q, r) PROVE Cardinality(Eips(s)) <= 2
  <2>1. PICK i \in Nat, j \in Nat : Eips(s) = {i, j}
    BY <1>3 DEF TwoWait
  <2>2. Cardinality({i, j}) <= 2
    <3>1. IsFiniteSet({i}) /\ Cardinality({i}) = 1
      BY FS_Singleton
    <3>2. Cardinality({i} \cup {j}) = (IF j \in {i} THEN Cardinality({i}) ELSE Cardinality({i}) + 1)
      BY <3>1, FS_AddElement
    <3>3. {i} \cup {j} = {i, j}
      OBVIOUS
    <3> QED BY <3>1, <3>2, <3>3
  <2> QED BY <2>1, <2>2
<1> QED BY <1>1, <1>2, <1>3

(* While p waits for a handler: what waits on its stack.                   *)
LEMMA PushedEips ==
  ASSUME NEW p \in Normal, Waits(p)
  PROVE  /\ PushedBy(pc, p) \in Seq(Word) /\ OneWaits(PushedBy(pc, p), p)
         /\ \/ OneWaits(stack[Own(p)], p)
            \/ Own(p) = "proc1" /\ TwoWait(stack[Own(p)], User, p)
<1> DEFINE f == FrameOf(p)
           v == IF pc.at \in {"fault", "panic"} THEN 14 ELSE pc.n
           x == PushedBy(pc, p)
<1>1. p \in Pc /\ v \in Nat
  BY DEF Normal, Waits, HandlerPc
<1>2. f \in Seq(Word) /\ Top(v) \in Seq(Word) /\ NoneWaits(Top(v))
  BY <1>1, FrameType, TopType, PartEips
<1>3. OneWaits(f, p)
  <2>1. CASE p.at = "user"
    <3>1. p = User /\ f = UserFrame
      BY <2>1 DEF Normal, Pc, User, At, FrameOf
    <3> HIDE DEF f
    <3> QED BY <3>1, PartEips
  <2>2. CASE p.at # "user"
    <3>1. f = KernelFrame(p)
      BY <2>2, Zenon DEF FrameOf
    <3>2. OneWaits(KernelFrame(p), p)
      BY <1>1, PartEips
    <3> HIDE DEF f
    <3> QED BY <3>1, <3>2, Zenon
  <2> QED BY <2>1, <2>2
<1>4. x \in Seq(Word) /\ OneWaits(x, p)
  <2>1. CASE pc.at = "iret"
    <3>1. x = f
      BY <2>1, Zenon DEF PushedBy
    <3> HIDE DEF x, f
    <3> QED BY <1>2, <1>3, <3>1
  <2>2. CASE pc.at # "iret"
    <3>1. x = f \o Top(v)
      BY <2>2, Zenon DEF PushedBy
    <3> HIDE DEF x, f, v
    <3>2. OneWaits(f \o Top(v), p)
      BY <1>2, <1>3, EipsJoin
    <3>3. f \o Top(v) \in Seq(Word)
      BY <1>2, Joined, Zenon
    <3> QED BY <3>1, <3>2, <3>3, Zenon
  <2> QED BY <2>1, <2>2
<1> HIDE DEF x
<1>5. stack[Own(p)] = Below(p) \o x
  BY Replace, Zenon DEF Waits, x
<1>6. Below(p) \in Seq(Word)
  BY BelowType
<1>7. CASE NoneWaits(Below(p))
  <2>1. OneWaits(Below(p) \o x, p)
    BY <1>4, <1>6, <1>7, EipsJoin
  <2>2. OneWaits(stack[Own(p)], p)
    BY <1>5, <2>1, Zenon
  <2> QED BY <1>4, <2>2 DEF x
<1>8. CASE Own(p) = "proc1" /\ OneWaits(Below(p), User)
  <2>1. TwoWait(Below(p) \o x, User, p)
    BY <1>4, <1>6, <1>8, EipsJoin
  <2>2. TwoWait(stack[Own(p)], User, p)
    BY <1>5, <2>1, Zenon
  <2> QED BY <1>4, <1>8, <2>2 DEF x
<1> QED BY <1>7, <1>8, BelowEips

LEMMA CodeEips ==
  ASSUME InCode
  PROVE  \/ NoneWaits(stack[Own(pc)])
         \/ Own(pc) = "proc1" /\ OneWaits(stack[Own(pc)], User)
<1>1. pc \in Normal /\ stack[Own(pc)] = Below(pc) \o <<>>
  BY Replace, Zenon DEF InCode
<1>2. Below(pc) \o <<>> = Below(pc)
  BY <1>1, BelowType, ConcatEmptySeq
<1>3. stack[Own(pc)] = Below(pc)
  BY <1>1, <1>2, Zenon
<1> QED BY <1>1, <1>3, BelowEips

(* A kernel stack holds at most two returns: that of a system call and of  *)
(* an interrupt or fault in it, or that of a timer interrupt and of the    *)
(* switch to another task from inside it.                                  *)
THEOREM StackDepthBounded == Spec => []StackDepth
<1>1. Inv => StackDepth
  <2> SUFFICES ASSUME Inv, NEW s \in Stack
               PROVE  Cardinality(Eips(stack[s])) <= 2
    BY DEF StackDepth, Words, Eips
  <2>1. \/ NoneWaits(stack[s])
        \/ \E q : OneWaits(stack[s], q)
        \/ \E q, r : TwoWait(stack[s], q, r)
    <3>1. CASE InCode
      <4>1. CASE s = Own(pc)
        BY <3>1, <4>1, CodeEips
      <4>2. CASE s # Own(pc)
        BY <3>1, <4>2, OtherStacks DEF InCode, Waiting
      <4> QED BY <4>1, <4>2
    <3>2. CASE InHandler
      <4>1. PICK p \in Normal : Waits(p)
        BY <3>2 DEF InHandler
      <4>2. CASE s = Own(p)
        BY <4>1, <4>2, PushedEips
      <4>3. CASE s # Own(p)
        <5>1. Stacks(p, PushedBy(pc, p), state, stack)
          BY <4>1 DEF Waits
        <5> QED BY <4>3, <5>1, OtherStacks DEF Waiting
      <4> QED BY <4>2, <4>3
    <3> QED BY <3>1, <3>2 DEF Inv
  <2> QED BY <2>1, WaitCounts
<1> QED BY <1>1, Inductive, PTL

(* Heap, disk buffer, page pools and console have no locks: no code enters *)
(* one of them while other code that was interrupted is inside.            *)
THEOREM PlacesExclusive == Spec => []Exclusive
<1>U. /\ User.use = "none" /\ At("idle", 0).use = "none" /\ At("spin", 0).use = "none"
      /\ At("boot", 31).use = "none" /\ At("switched", 32).use = "none"
  BY DEF User, At
<1>1. Inv => Exclusive
  <2> SUFFICES ASSUME Inv, NEW r \in Place
               PROVE  Cardinality({w \in Suspended : stack[w[1]][w[2]][2].use = r})
                        + (IF pc.use = r THEN 1 ELSE 0) <= 1
    BY DEF Exclusive
  <2> DEFINE inside == {w \in Suspended : stack[w[1]][w[2]][2].use = r}
  <2>1. r # "none"
    BY DEF Place
  <2>2. ASSUME NEW w \in inside
        PROVE  \E s \in Stack : \E i \in Eips(stack[s]) : w = <<s, i>> /\ stack[s][i][2].use = r
    BY <2>2 DEF Suspended, Words, Eips
  <2>3. ASSUME NEW s \in Stack, NEW i \in Eips(stack[s]), stack[s][i][2].use = r,
               OneWaits(stack[s], User) \/ Waiting(stack[s])
        PROVE  FALSE
    BY <1>U, <2>1, <2>3 DEF Waiting, NoneWaits, OneWaits, TwoWait
  <2>4. CASE InCode
    <3>1. inside = {}
      <4> SUFFICES ASSUME NEW w \in inside PROVE FALSE
        OBVIOUS
      <4>0. PICK s \in Stack : \E i \in Eips(stack[s]) : stack[s][i][2].use = r
        BY <2>2
      <4>1. PICK i \in Eips(stack[s]) : stack[s][i][2].use = r
        BY <4>0
      <4>2. CASE s = Own(pc)
        BY <2>3, <2>4, <4>1, <4>2, CodeEips DEF Waiting
      <4>3. CASE s # Own(pc)
        BY <2>3, <2>4, <4>1, <4>3, OtherStacks DEF InCode
      <4> QED BY <4>2, <4>3
    <3> HIDE DEF inside
    <3>2. Cardinality(inside) = 0
      BY <3>1, FS_EmptySet
    <3> QED BY <3>2 DEF inside
  <2>5. CASE InHandler
    <3>1. PICK p \in Normal : Waits(p)
      BY <2>5 DEF InHandler
    <3>2. \E k : inside \subseteq {<<Own(p), k>>} /\ (p.use = "none" => inside = {})
      <4>1. PICK k \in Nat : /\ stack[Own(p)][k][2] = p
                             /\ \A i \in Eips(stack[Own(p)]) : i = k \/ stack[Own(p)][i][2] = User
        <5>1. CASE OneWaits(stack[Own(p)], p)
          <6>1. PICK k \in Nat : Eips(stack[Own(p)]) = {k} /\ stack[Own(p)][k][2] = p
            BY <5>1 DEF OneWaits
          <6> QED BY <6>1
        <5>2. CASE TwoWait(stack[Own(p)], User, p)
          <6>1. PICK j \in Nat, k \in Nat : /\ Eips(stack[Own(p)]) = {j, k}
                                            /\ stack[Own(p)][j][2] = User /\ stack[Own(p)][k][2] = p
            BY <5>2 DEF TwoWait
          <6> QED BY <6>1
        <5> QED BY <3>1, <5>1, <5>2, PushedEips
      <4>2. ASSUME NEW w \in inside PROVE w = <<Own(p), k>> /\ p.use = r
        <5>0. PICK s \in Stack : \E i \in Eips(stack[s]) : w = <<s, i>> /\ stack[s][i][2].use = r
          BY <2>2, <4>2
        <5>1. PICK i \in Eips(stack[s]) : w = <<s, i>> /\ stack[s][i][2].use = r
          BY <5>0
        <5>2. s = Own(p)
          <6> SUFFICES ASSUME s # Own(p) PROVE FALSE
            OBVIOUS
          <6>1. Stacks(p, PushedBy(pc, p), state, stack)
            BY <3>1 DEF Waits
          <6> QED BY <2>3, <5>1, <6>1, OtherStacks
        <5> QED BY <1>U, <2>1, <4>1, <5>1, <5>2
      <4> QED BY <2>1, <4>2
    <3>3. pc.use = r => p.use = "none"
      <4> SUFFICES ASSUME pc.use = r PROVE p.use = "none"
        OBVIOUS
      <4>1. HandlerAt(pc, p, isr, handlers)
        BY <3>1 DEF Waits
      <4>2. Own(p) = "idle" => p.use = "none"
        BY DEF Own, Normal
      <4> QED BY <2>1, <4>1, <4>2 DEF HandlerAt
    <3> HIDE DEF inside
    <3>4. CASE inside = {}
      <4>1. Cardinality(inside) = 0
        BY <3>4, FS_EmptySet
      <4> QED BY <4>1 DEF inside
    <3>5. CASE inside # {}
      <4>1. PICK k : inside = {<<Own(p), k>>} /\ pc.use # r
        BY <3>2, <3>3, <3>5
      <4>2. Cardinality(inside) = 1
        BY <4>1, FS_Singleton
      <4> QED BY <4>1, <4>2 DEF inside
    <3> QED BY <3>4, <3>5
  <2> QED BY <2>4, <2>5 DEF Inv
<1> QED BY <1>1, Inductive, PTL
=============================================================================
