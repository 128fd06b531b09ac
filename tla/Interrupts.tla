----------------------------- MODULE Interrupts -----------------------------
(***************************************************************************)
(* How potato-OS takes interrupts, exceptions and system calls, from       *)
(* main() to the idle loop: the two 8259 PICs and kernel/interrupts.c, the *)
(* stubs and the dispatcher of kernel/exceptions.c, syscall_entry, the TSS *)
(* and the flag IF.  Disk, heap, page pools and console appear as places   *)
(* that code enters and leaves; what happens there is in other modules.    *)
(*                                                                         *)
(* Code that was interrupted is what the stacks hold: a stack is a         *)
(* sequence of words <<kind, value>>, and iret goes on at the program      *)
(* counter it finds there.  There is one user task, proc1, as in main().   *)
(***************************************************************************)
EXTENDS Naturals, Sequences, FiniteSets

CONSTANTS
  SCHEDULER_TICK_INTERVAL,
  UserException   \* vectors that a program may raise

ASSUME InterruptsAssumption ==
  /\ SCHEDULER_TICK_INTERVAL \in Nat \ {0}
  /\ UserException \subseteq 0..31

VARIABLES
  pc,       \* where the CPU is: [at, n, use]; use names the place it is in
  flag_if,  \* IF of EFLAGS
  stack,    \* the kernel stacks
  sp,       \* the stack in use (in user mode: the last one)
  esp0,     \* tss.esp0: the stack that an entry from user mode uses
  idt,      \* type of the gate of a vector
  handlers, \* vectors with a registered handler
  imr, irr, isr,  \* PICs: masked, requested, in service
  line1,    \* the keyboard holds its line until port 0x60 is read
  timer_ticks,    \* modulo the interval
  current_task, dead_task,
  state,          \* of a task
  kernel_esp,     \* of a task: the stack on which it was switched away
  fs_is_ready,
  ran       \* code other than a handler ran since the last tick

pics == <<imr, irr, isr>>
tables == <<idt, handlers>>
tasks == <<current_task, dead_task, state, kernel_esp, esp0, fs_is_ready>>
vars == <<pc, flag_if, stack, sp, pics, tables, tasks, line1, timer_ticks, ran>>

Stack == {"boot", "proc1", "idle"}
Task == {"proc1", "idle"}
Place == {"heap", "disk", "pools", "console"}
IRQ == {0, 1, 2, 7, 14}
SYSCALL == 128
SYS_EXIT == 1
SYS_READ == 3
SYS_WRITE == 4
SYS_OPEN == 5      \* in syscall.h, not registered
SYS_EXECVE == 59

At(at, n) == [at |-> at, n |-> n, use |-> "none"]
User == At("user", 0)

----------------------------------------------------------------------------
(* The PICs, cascaded through IRQ 2, with fixed priorities.                *)

OnMaster(n) == IF n < 8 THEN n ELSE 2

(* Requests that reach the CPU.                                            *)
Pending ==
  {n \in irr \ imr : /\ n >= 8 => 2 \notin imr
                     /\ \A m \in isr : OnMaster(n) < OnMaster(m)}

(* The bits of a request in the in-service registers.                      *)
InService(n) == {n, OnMaster(n)}

(* A non-specific end of interrupt, at one PIC: its first request in       *)
(* service.                                                                *)
EndFirst(served, chip) == served \ {n \in served \cap chip : \A m \in served \cap chip : n <= m}

pic_send_eoi(n) ==
  EndFirst(IF n >= 8 THEN EndFirst(isr, 8..15) ELSE isr, 0..7)

(* Mutant of unmask_irq: the other bits of the mask are not read back.     *)
unmask_irq_only(n) == imr' = {m \in IRQ : m # n /\ (m < 8 <=> n < 8)} \cup {m \in imr : ~(m < 8 <=> n < 8)}

unmask_irq(n) == imr' = imr \ {n}

mask_irq(n) == imr \cup {n}

----------------------------------------------------------------------------
(* Entry and return: what the CPU pushes, and the three kinds of stubs.    *)

(* Vectors for which the CPU pushes an error code.                         *)
HasErrorCode == {8, 10, 11, 12, 13, 14, 17, 21, 29, 30}

(* Mutant of ERRCODE: one more stub without.                               *)
ERRCODE_but_17 == {8, 10, 11, 12, 13, 14, 21, 29, 30}

(* The stubs of DECLARE_EXCEPTION_ERRCODE.                                 *)
ERRCODE == {8, 10, 11, 12, 13, 14, 17, 21, 29, 30}

Frame(v, ret) ==
  (IF pc.at = "user" THEN << <<"ss">>, <<"esp">> >> ELSE <<>>)
  \o << <<"eflags", flag_if>>, <<"cs", pc.at = "user">>, <<"eip", ret>> >>
  \o (IF v \in HasErrorCode THEN << <<"error">> >> ELSE <<>>)

pusha == [i \in 1..8 |-> <<"register">>]

(* The arguments that a stub pushes after pusha.                           *)
Arguments(v, s) ==
  IF v >= 32 THEN << <<"argument">> >>
  ELSE << (IF v \in ERRCODE THEN s[Len(s) - 8] ELSE <<"zero">>), <<"argument">> >>

(* What a stub takes off the stack before iret, in words.                  *)
Unwound(v) == IF v >= 32 THEN 9 ELSE IF v \in ERRCODE THEN 11 ELSE 10

(* The CPU takes vector v, and the stub goes on at next.  An entry from    *)
(* user mode starts at tss.esp0.  Without a gate the machine stops.        *)
Enter(v, ret, next) ==
  LET s == IF pc.at = "user" THEN esp0 ELSE sp
      pushed == (IF pc.at = "user" THEN <<>> ELSE stack[s]) \o Frame(v, ret) \o pusha
  IN  /\ sp' = s
      /\ stack' = [stack EXCEPT ![s] = pushed \o Arguments(v, pushed)]
      /\ flag_if' = (flag_if /\ idt[v] = "trap")
      /\ pc' = IF idt[v] = "none" THEN At("shutdown", v) ELSE next

----------------------------------------------------------------------------
(* main(): its steps in order.  "use" stands for calls into a place and    *)
(* "touch" for the loader's stores to user pages.                          *)

(* Mutants of GateType.                                                    *)
GateTypeExceptionTrap(class) == IF class \in {"syscall", "exception"} THEN "trap" ELSE "interrupt"
GateTypeSyscallInterrupt(class) == "interrupt"

(* 0xef for system calls, 0x8e for the others: only the latter clear IF.   *)
GateType(class) == IF class = "syscall" THEN "trap" ELSE "interrupt"

Class(v) == IF v < 32 THEN "exception" ELSE IF v = SYSCALL THEN "syscall" ELSE "irq"

init_interrupts == <<
  <<"use", "console">>, <<"pic_remap">>, <<"install_gates", "irq">>, <<"lock_irqs">>, <<"sti">>,
  <<"use", "console">> >>

init_exceptions == << <<"install_gates", "exception">>, <<"use", "console">> >>
init_syscall == << <<"install_gates", "syscall">>, <<"use", "console">> >>
init_tss == << <<"esp0", "boot">>, <<"use", "console">> >>

(* Mutant of init_timer: the line is opened first.                         *)
init_timer_unmask_first == << <<"unmask_irq", 0>>, <<"register_irq_handler", 0>>, <<"use", "console">> >>

init_timer == << <<"register_irq_handler", 0>>, <<"unmask_irq", 0>>, <<"use", "console">> >>
init_disk == << <<"init_disk">>, <<"register_irq_handler", 14>>, <<"unmask_irq", 14>> >>
init_fs == << <<"use", "disk">>, <<"init_fs">> >>
init_fault == << <<"register_exception_handler", 14>> >>
init_keyboard == << <<"register_irq_handler", 1>>, <<"unmask_irq", 1>>, <<"use", "console">> >>

(* enqueue_task is two steps: proc1 is the current task first, and running *)
(* only then.                                                              *)
enter_proc1 == <<
  <<"enter_proc1">>, <<"use", "heap">>, <<"use", "pools">>, <<"esp0", "proc1">>,
  <<"enqueue_task">>, <<"task_running">>, <<"use", "heap">>, <<"use", "disk">>, <<"touch">>,
  <<"use", "console">>, <<"enter_user_task">> >>

Boot ==
  init_interrupts \o init_exceptions \o init_syscall \o init_tss
  \o init_timer \o init_disk \o init_fs \o init_fault \o init_keyboard
  \o << <<"init_idle_task">> >> \o enter_proc1

Init ==
  /\ pc = At("boot", 1) /\ flag_if = FALSE
  /\ stack = [s \in Stack |-> <<>>] /\ sp = "boot" /\ esp0 = "boot"
  /\ idt = [v \in UserException \cup {32 + n : n \in IRQ} \cup {14, SYSCALL} |-> "none"]
  /\ handlers = {}
  /\ imr = {} /\ irr \in SUBSET {0} /\ isr = {}
  /\ line1 = FALSE /\ timer_ticks = 0
  /\ current_task = "none" /\ dead_task = FALSE /\ fs_is_ready = FALSE
  /\ state = [t \in Task |-> "new"] /\ kernel_esp = [t \in Task |-> "none"]
  /\ ran = TRUE

(* The CPU looks for interrupts before every instruction.                  *)
Running == ~(flag_if /\ Pending # {})

(* A step of code that is no handler.                                      *)
Code(at) == Running /\ pc.at = at /\ ran' = TRUE

Goto(p) == pc' = p

BootNext == Goto(At("boot", pc.n + 1))
BootSkip(steps) == Goto(At("boot", pc.n + steps))

install_gates(class) ==
  idt' = [v \in DOMAIN idt |-> IF Class(v) = class THEN GateType(class) ELSE idt[v]]
register_irq_handler(n) == handlers' = handlers \cup {32 + n}
register_exception_handler(v) == handlers' = handlers \cup {v}
tss_set_kernel_stack(s) == esp0' = s

(* Tables and the TSS.                                                     *)
BootTables ==
  /\ Code("boot") /\ BootNext
  /\ LET s == Boot[pc.n]
     IN  \/ s[1] = "install_gates" /\ install_gates(s[2]) /\ UNCHANGED <<handlers, esp0>>
         \/ s[1] = "register_irq_handler" /\ register_irq_handler(s[2]) /\ UNCHANGED <<idt, esp0>>
         \/ /\ s[1] = "register_exception_handler" /\ register_exception_handler(s[2])
            /\ UNCHANGED <<idt, esp0>>
         \/ s[1] = "esp0" /\ tss_set_kernel_stack(s[2]) /\ UNCHANGED tables
  /\ UNCHANGED <<flag_if, stack, sp, pics, current_task, dead_task, state, kernel_esp, fs_is_ready,
                 line1, timer_ticks>>

(* The PICs forget all requests; the masks are put back.                   *)
pic_remap == irr' = {} /\ isr' = {}

(* All lines, IRQ 2 too.                                                   *)
lock_irqs == imr' = UNION {mask_irq(n) : n \in IRQ}

BootPics ==
  /\ Code("boot") /\ BootNext
  /\ LET s == Boot[pc.n]
     IN  \/ s[1] = "pic_remap" /\ pic_remap /\ UNCHANGED <<imr, flag_if>>
         \/ s[1] = "lock_irqs" /\ lock_irqs /\ UNCHANGED <<irr, isr, flag_if>>
         \/ s[1] = "unmask_irq" /\ unmask_irq(s[2]) /\ UNCHANGED <<irr, isr, flag_if>>
         \/ s[1] = "sti" /\ flag_if' = TRUE /\ UNCHANGED pics
  /\ UNCHANGED <<stack, sp, tables, tasks, line1, timer_ticks>>

(* init_disk may fail before its line is registered, init_fs after that:   *)
(* main() goes on, and enter_proc1 will not be called.                     *)
BootDisk ==
  /\ Code("boot")
  /\ \/ /\ Boot[pc.n] = <<"init_disk">>
        /\ BootNext \/ BootSkip(Len(init_disk) + Len(init_fs))
        /\ UNCHANGED fs_is_ready
     \/ Boot[pc.n] = <<"init_fs">> /\ BootNext /\ fs_is_ready' \in BOOLEAN
  /\ UNCHANGED <<flag_if, stack, sp, pics, tables, current_task, dead_task, state, kernel_esp, esp0,
                 line1, timer_ticks>>

(* What switch_to leaves on the stack of the task that it switches away:   *)
(* the address behind the call and four registers.                         *)
SwitchFrame(p) == << <<"eip", p>> >> \o [i \in 1..4 |-> <<"register">>]

(* init_idle_task and what enter_proc1 does to the tasks.  Any of its      *)
(* calls may fail, which ends in spin_forever.                             *)
BootTasks ==
  /\ Code("boot")
  /\ LET s == Boot[pc.n]
     IN  \/ /\ s[1] = "init_idle_task" /\ BootNext
            /\ stack' = [stack EXCEPT !["idle"] = SwitchFrame(At("idle", 0))]
            /\ kernel_esp' = [kernel_esp EXCEPT !["idle"] = "idle"]
            /\ state' = [state EXCEPT !["idle"] = "ready"]
            /\ UNCHANGED <<current_task, flag_if>>
         \/ /\ s[1] = "enter_proc1"
            /\ IF fs_is_ready THEN BootNext ELSE Goto(At("spin", 0))
            /\ UNCHANGED <<stack, current_task, state, kernel_esp, flag_if>>
         \/ /\ s[1] = "enqueue_task" /\ BootNext
            /\ current_task' = "proc1"
            /\ UNCHANGED <<stack, state, kernel_esp, flag_if>>
         \/ /\ s[1] = "task_running" /\ BootNext
            /\ state' = [state EXCEPT !["proc1"] = "running"]
            /\ UNCHANGED <<stack, current_task, kernel_esp, flag_if>>
         \/ /\ s[1] = "enter_user_task" /\ Goto(User)
            /\ flag_if' = TRUE
            /\ UNCHANGED <<stack, current_task, state, kernel_esp>>
         \/ /\ s[1] \in {"enqueue_task", "use", "touch"} /\ Goto(At("spin", 0))
            /\ s # <<"use", "console">> /\ pc.use = "none"
            /\ pc.n > Len(Boot) - Len(enter_proc1)
            /\ UNCHANGED <<stack, current_task, state, kernel_esp, flag_if>>
  /\ UNCHANGED <<sp, pics, tables, dead_task, esp0, fs_is_ready, line1, timer_ticks>>

----------------------------------------------------------------------------
(* The switch of tasks.                                                    *)

(* next_task: the only task beside idle, if it can run.                    *)
next_task == IF state["proc1"] \in {"ready", "running"} THEN "proc1" ELSE "idle"

(* context_switch behind reap_dead_task, with the states that the caller   *)
(* left: prev will go on at resume, next goes on where switch_to left it.  *)
context_switch(prev, next, states, resume) ==
  LET s == kernel_esp[next]
      top == Len(stack[s])
  IN  /\ current_task' = next /\ esp0' = next
      /\ state' = [states EXCEPT ![next] = "running"]
      /\ kernel_esp' = [kernel_esp EXCEPT ![prev] = sp]
      /\ sp' = s
      /\ stack' = [stack EXCEPT ![sp] = @ \o SwitchFrame(resume), ![s] = SubSeq(@, 1, top - 5)]
      /\ Goto(stack[s][top - 4][2])

----------------------------------------------------------------------------
(* System calls and user code.                                             *)

(* Where the code at hand may go, and what it does next.                   *)
Places ==
  CASE pc.at = "boot" /\ Boot[pc.n][1] = "use" -> {Boot[pc.n][2]}
    [] pc.at = "sys" /\ pc.n = SYS_WRITE -> {"console"}
    [] pc.at = "sys" /\ pc.n = SYS_EXECVE -> Place
    [] OTHER -> {}

EnterPlace ==
  /\ Code(pc.at) /\ pc.use = "none"
  /\ \E r \in Places : Goto([pc EXCEPT !.use = r])
  /\ UNCHANGED <<flag_if, stack, sp, pics, tables, tasks, line1, timer_ticks>>

(* A transfer that ends requests IRQ 14.                                   *)
LeavePlace ==
  /\ pc.at \in {"boot", "sys"} /\ Code(pc.at) /\ pc.use # "none"
  /\ IF pc.at = "boot" THEN BootNext ELSE Goto([pc EXCEPT !.use = "none"])
  /\ irr' = IF pc.use = "disk" THEN irr \cup {14} ELSE irr
  /\ UNCHANGED <<flag_if, stack, sp, imr, isr, tables, tasks, line1, timer_ticks>>

(* Mutant of Touches: disk_read fills the caller's buffer itself.          *)
TouchesInDisk ==
  \/ pc.at = "boot" /\ Boot[pc.n] = <<"touch">>
  \/ pc.at = "sys" /\ pc.n \in {SYS_READ, SYS_WRITE, SYS_EXECVE} /\ pc.use \in {"none", "disk"}

(* Kernel code that reads or writes user memory: tty_read, the argument of *)
(* console_putc, split_path, padzero.  None of it is inside a place.       *)
Touches ==
  \/ pc.at = "boot" /\ Boot[pc.n] = <<"touch">>
  \/ pc.at = "sys" /\ pc.n \in {SYS_READ, SYS_WRITE, SYS_EXECVE} /\ pc.use = "none"

(* The page is not there, or it is and main() goes on.                     *)
Touch ==
  /\ Code(pc.at) /\ Touches
  /\ \/ Enter(14, pc, At("dispatch", 14))
     \/ pc.at = "boot" /\ BootNext /\ UNCHANGED <<flag_if, stack, sp>>
  /\ UNCHANGED <<pics, tables, tasks, line1, timer_ticks>>

(* A program computes, raises an exception or calls the kernel.            *)
UserStep ==
  /\ Code("user")
  /\ \/ UNCHANGED <<pc, flag_if, stack, sp>>
     \/ \E v \in UserException \cup {14} : Enter(v, pc, At("dispatch", v))
     \/ \E n \in {SYS_EXIT, SYS_READ, SYS_WRITE, SYS_OPEN, SYS_EXECVE} :
          Enter(SYSCALL, pc, At("sys", n))
  /\ UNCHANGED <<pics, tables, tasks, line1, timer_ticks>>

(* The call returns; one that is not registered does so at once.           *)
SysReturn ==
  /\ Code("sys") /\ pc.use = "none" /\ pc.n # SYS_EXIT
  /\ Goto(At("leave", SYSCALL))
  /\ UNCHANGED <<flag_if, stack, sp, pics, tables, tasks, line1, timer_ticks>>

(* tty_read with an empty queue.                                           *)
Halt ==
  /\ Code("sys") /\ pc.n = SYS_READ
  /\ Goto(At("hlt", SYS_READ))
  /\ UNCHANGED <<flag_if, stack, sp, pics, tables, tasks, line1, timer_ticks>>

(* switch_mm: the flags that irq_save read are on the stack.               *)
irq_save ==
  /\ Code("sys") /\ pc.n = SYS_EXECVE /\ pc.use = "none"
  /\ stack' = [stack EXCEPT ![sp] = Append(@, <<"flags", flag_if>>)]
  /\ flag_if' = FALSE
  /\ Goto(At("switch_mm", SYS_EXECVE))
  /\ UNCHANGED <<sp, pics, tables, tasks, line1, timer_ticks>>

irq_restore ==
  /\ Code("switch_mm")
  /\ flag_if' = stack[sp][Len(stack[sp])][2]
  /\ stack' = [stack EXCEPT ![sp] = SubSeq(@, 1, Len(@) - 1)]
  /\ Goto(At("sys", SYS_EXECVE))
  /\ UNCHANGED <<sp, pics, tables, tasks, line1, timer_ticks>>

(* exit_task: cli, the places one after the other, the switch to idle.     *)
ExitPlaces == <<"console", "heap", "pools">>

exit_task ==
  /\ ran' = TRUE /\ Running
  /\ \/ /\ pc.at = "sys" /\ pc.n = SYS_EXIT
        /\ flag_if' = FALSE /\ Goto([At("exit", 1) EXCEPT !.use = ExitPlaces[1]])
        /\ state' = [state EXCEPT ![current_task] = "zombie"]
        /\ UNCHANGED <<stack, sp, current_task, dead_task, kernel_esp, esp0>>
     \/ /\ pc.at = "exit" /\ pc.n < Len(ExitPlaces)
        /\ Goto([pc EXCEPT !.n = @ + 1, !.use = ExitPlaces[pc.n + 1]])
        /\ UNCHANGED <<flag_if, stack, sp, current_task, dead_task, state, kernel_esp, esp0>>
     \/ /\ pc.at = "exit" /\ pc.n = Len(ExitPlaces)
        /\ dead_task' = TRUE
        /\ context_switch(current_task, next_task, state, At("spin", 0))
        /\ UNCHANGED flag_if
  /\ UNCHANGED <<pics, tables, fs_is_ready, line1, timer_ticks>>

(* sti takes effect after the instruction behind it, which is hlt.         *)
idle_task_entry ==
  /\ Code("idle")
  /\ flag_if' = TRUE /\ Goto(At("hlt", 0))
  /\ UNCHANGED <<stack, sp, pics, tables, tasks, line1, timer_ticks>>

(* spin_forever and page_fault_panic.                                      *)
Spin ==
  /\ pc.at \in {"spin", "panic"} /\ Code(pc.at)
  /\ UNCHANGED <<pc, flag_if, stack, sp, pics, tables, tasks, line1, timer_ticks>>

----------------------------------------------------------------------------
(* Handlers.                                                               *)

(* A handler runs to its next point; Handler steps do not count as time    *)
(* between two ticks.                                                      *)
Handler(at) == Running /\ pc.at = at /\ UNCHANGED ran

(* Mutant of NextCall: the end of interrupt comes behind schedule().       *)
NextCallEoiLast(at, v, ticks) ==
  CASE at = "dispatch" /\ v = 32 /\ ticks = 0 -> "schedule"
    [] at \in {"dispatch", "schedule"} -> "eoi"
    [] OTHER -> "leave"

(* interrupts_dispatch: what it calls after the call at.                   *)
NextCall(at, v, ticks) ==
  CASE at = "dispatch" -> "eoi"
    [] at = "eoi" /\ v = 32 /\ ticks = 0 -> "schedule"
    [] OTHER -> "leave"

(* The handler of the vector, up to its return.                            *)
irq_handler ==
  /\ Handler("dispatch") /\ Class(pc.n) = "irq"
  /\ timer_ticks' = IF pc.n = 32 /\ 32 \in handlers
                    THEN (timer_ticks + 1) % SCHEDULER_TICK_INTERVAL ELSE timer_ticks
  /\ line1' = (line1 /\ ~(pc.n = 33 /\ 33 \in handlers))
  /\ Goto(At(NextCall("dispatch", pc.n, timer_ticks'), pc.n))
  /\ UNCHANGED <<flag_if, stack, sp, pics, tables, tasks>>

EndOfInterrupt ==
  /\ Handler("eoi")
  /\ isr' = pic_send_eoi(pc.n - 32)
  /\ Goto(At(NextCall("eoi", pc.n, timer_ticks), pc.n))
  /\ UNCHANGED <<flag_if, stack, sp, imr, irr, tables, tasks, line1, timer_ticks>>

(* schedule(), first reap_dead_task, which is in the heap if it has to     *)
(* free a task.  A task that is switched away goes on at "switched".       *)
schedule ==
  /\ Handler("schedule")
  /\ IF pc.use = "none" /\ dead_task /\ current_task = "idle"
     THEN /\ Goto([pc EXCEPT !.use = "heap"])
          /\ UNCHANGED <<stack, sp, current_task, dead_task, state, kernel_esp, esp0>>
     ELSE /\ dead_task' = (dead_task /\ pc.use = "none")
          /\ IF current_task \in {"none", next_task}
             THEN /\ Goto(At(NextCall("schedule", pc.n, timer_ticks), pc.n))
                  /\ UNCHANGED <<stack, sp, current_task, state, kernel_esp, esp0>>
             ELSE context_switch(current_task, next_task, [state EXCEPT ![current_task] = "ready"],
                                 At("switched", pc.n))
  /\ UNCHANGED <<flag_if, pics, tables, fs_is_ready, line1, timer_ticks>>

(* schedule() behind the switch, for the task whose stack this is.         *)
Switched ==
  /\ Handler("switched")
  /\ state' = [state EXCEPT ![IF sp = "idle" THEN "idle" ELSE "proc1"] = "running"]
  /\ Goto(At(NextCall("schedule", pc.n, timer_ticks), pc.n))
  /\ UNCHANGED <<flag_if, stack, sp, pics, tables, current_task, dead_task, kernel_esp, esp0,
                 fs_is_ready, line1, timer_ticks>>

(* exceptions_dispatch: without a handler it returns to the instruction.   *)
exceptions_dispatch ==
  /\ Handler("dispatch") /\ Class(pc.n) = "exception"
  /\ Goto(IF pc.n \in handlers THEN [At("fault", 1) EXCEPT !.use = "pools"] ELSE At("leave", pc.n))
  /\ UNCHANGED <<flag_if, stack, sp, pics, tables, tasks, line1, timer_ticks>>

(* page_fault_handler: the pools, the disk for a page of a file, or panic. *)
page_fault_handler ==
  /\ Handler("fault")
  /\ \/ pc.n = 1 /\ Goto([pc EXCEPT !.n = 2, !.use = "disk"])
     \/ Goto(At("leave", 14))
     \/ Goto([At("panic", 0) EXCEPT !.use = "console"])
  /\ irr' = IF pc.use = "disk" THEN irr \cup {14} ELSE irr
  /\ UNCHANGED <<flag_if, stack, sp, imr, isr, tables, tasks, line1, timer_ticks>>

(* The end of a stub.                                                      *)
Leave ==
  /\ Handler("leave")
  /\ stack' = [stack EXCEPT ![sp] = SubSeq(@, 1, Len(@) - Unwound(pc.n))]
  /\ Goto(At("iret", pc.n))
  /\ UNCHANGED <<flag_if, sp, pics, tables, tasks, line1, timer_ticks>>

iret ==
  /\ Handler("iret")
  /\ LET s == stack[sp]
         word(i) == s[Len(s) + 1 - i]
     IN  /\ Goto(word(1)[2])
         /\ flag_if' = word(3)[2]
         /\ stack' = [stack EXCEPT ![sp] = SubSeq(s, 1, Len(s) - (IF word(2)[2] THEN 5 ELSE 3))]
  /\ UNCHANGED <<sp, pics, tables, tasks, line1, timer_ticks>>

----------------------------------------------------------------------------
(* Devices.                                                                *)

(* After hlt the code goes on behind it.                                   *)
Interrupted ==
  IF pc.at # "hlt" THEN pc
  ELSE IF pc.n = SYS_READ THEN At("sys", SYS_READ) ELSE At("idle", 0)

(* The CPU acknowledges the first request.                                 *)
Accept ==
  /\ flag_if
  /\ \E n \in Pending :
       /\ \A m \in Pending : OnMaster(n) <= OnMaster(m)
       /\ irr' = irr \ {n} /\ isr' = isr \cup InService(n)
       /\ Enter(32 + n, Interrupted, At("dispatch", 32 + n))
  /\ UNCHANGED <<imr, tables, tasks, line1, timer_ticks, ran>>

(* A request that is gone when the CPU asks: the PIC answers with IRQ 7.   *)
Spurious ==
  /\ flag_if /\ ran
  /\ Enter(39, Interrupted, At("dispatch", 39))
  /\ ran' = FALSE
  /\ UNCHANGED <<pics, tables, tasks, line1, timer_ticks>>

(* The PIT.  Its period is longer than a handler: between two ticks other  *)
(* code runs, if any can.                                                  *)
Tick ==
  /\ ran
  /\ irr' = irr \cup {0} /\ ran' = FALSE
  /\ UNCHANGED <<pc, flag_if, stack, sp, imr, isr, tables, tasks, line1, timer_ticks>>

(* A key, with the controller's buffer empty.  Keys before pic_remap, the  *)
(* second step of main(), are left out: it forgets their request.          *)
KeyPress ==
  /\ ~line1 /\ ~(pc.at = "boot" /\ pc.n <= 2)
  /\ line1' = TRUE /\ irr' = irr \cup {1}
  /\ UNCHANGED <<pc, flag_if, stack, sp, imr, isr, tables, tasks, timer_ticks, ran>>

CPU ==
  \/ BootTables \/ BootPics \/ BootDisk \/ BootTasks
  \/ EnterPlace \/ LeavePlace \/ Touch
  \/ UserStep \/ SysReturn \/ Halt \/ irq_save \/ irq_restore \/ exit_task
  \/ idle_task_entry \/ Spin
  \/ irq_handler \/ EndOfInterrupt \/ schedule \/ Switched
  \/ exceptions_dispatch \/ page_fault_handler \/ Leave \/ iret
  \/ Accept

Next == CPU \/ Spurious \/ Tick \/ KeyPress

Spec == Init /\ [][Next]_vars /\ WF_vars(CPU) /\ WF_vars(Tick)
----------------------------------------------------------------------------
(* Properties.                                                             *)

(* The words of a kind on the stacks.                                      *)
Words(s, kind) == {i \in DOMAIN stack[s] : stack[s][i][1] = kind}

(* The code that waits on a stack, as pairs of stack and position.         *)
Suspended == UNION {{<<s, i>> : i \in Words(s, "eip")} : s \in Stack}

(* The top of the stack at an iret, for the stub of any vector, with or    *)
(* without an error code, is the frame that the CPU pushed, and an         *)
(* exception handler got its error code.                                   *)
StubsBalanced ==
  LET s == stack[sp]
      kind(i) == s[Len(s) + 1 - i][1]
  IN  /\ pc.at = "iret" => kind(1) = "eip" /\ kind(2) = "cs" /\ kind(3) = "eflags"
      /\ (pc.at = "dispatch" /\ pc.n \in HasErrorCode) => kind(2) = "error"

(* pic_send_eoi acknowledges the request that the handler was called for   *)
(* and no other, and nothing at all when the interrupt was spurious: no    *)
(* handler runs inside another.                                            *)
EoiOwnRequest ==
  pc.at = "eoi" =>
    pic_send_eoi(pc.n - 32) = IF pc.n = 39 THEN isr ELSE isr \ InService(pc.n - 32)

(* Whatever arrives at whatever point of main(), there is a gate for it,   *)
(* and a request of a device finds its handler: the order of gates, masks, *)
(* sti, register_irq_handler and unmask_irq.                               *)
EveryTrapHandled ==
  /\ pc.at # "shutdown"
  /\ (pc.at = "dispatch" /\ pc.n \in {14, 32, 33, 46}) => pc.n \in handlers

(* Programs, system calls and a CPU that sleeps can be interrupted.  This  *)
(* is what ticks, keys, preemption and the disk's timeouts rest on, across *)
(* gates, iret, irq_restore, enter_user_task and the switch to idle.       *)
Interruptible == pc.at \in {"user", "sys", "hlt"} => flag_if

(* A kernel stack, whose size is fixed, holds at most two returns: that of *)
(* a system call and of an interrupt or fault in it, or that of a timer    *)
(* interrupt and of the switch to another task from inside it.             *)
StackDepth == \A s \in Stack : Cardinality(Words(s, "eip")) <= 2

(* Heap, disk buffer, page pools and console have no locks: no code enters *)
(* one of them while other code that was interrupted is inside.            *)
Exclusive ==
  \A r \in Place :
    Cardinality({w \in Suspended : stack[w[1]][w[2]][2].use = r})
      + (IF pc.use = r THEN 1 ELSE 0) <= 1

(* After a panic the machine stands still, with IF off.                    *)
Panicked == pc.at = "panic"

(* Once init_timer is done every tick reaches timer_irq_handler: also one  *)
(* that waits for a page fault to end, and also after later init calls     *)
(* changed the masks.                                                      *)
TicksServed == (0 \in irr /\ 32 \in handlers) ~> (pc = At("dispatch", 32) \/ Panicked)

(* A key reaches keyboard_irq_handler: one pressed while main() still has  *)
(* the line masked, one pressed while a program runs, sleeps in tty_read   *)
(* or exits, one pressed when only the idle task is left.                  *)
KeysServed == line1 ~> (pc = At("dispatch", 33) \/ Panicked)

(* No device is forgotten: both at once, since a step of one may take the  *)
(* mask, the flag or the end of interrupt of the other.                    *)
RequestsServed == TicksServed /\ KeysServed
=============================================================================
