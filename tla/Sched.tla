------------------------------- MODULE Sched -------------------------------
(***************************************************************************)
(* The scheduler of kernel/sched.c with the parts of the kernel that run   *)
(* through it: creation and destruction of tasks (kernel/process.c), the   *)
(* timer interrupt that calls schedule() (kernel/interrupts.c and          *)
(* kernel/timer.c) and the boot code that becomes proc1 (kernel/main.c).   *)
(*                                                                         *)
(* One CPU.  A step is a stretch of kernel code that no interrupt can      *)
(* split: code under cli, an interrupt handler (interrupt gates clear IF), *)
(* or a run of writes no handler reads.  Between two steps the timer may   *)
(* fire.  schedule(), block_task() and exit_task() end in switch_to(), so  *)
(* the step that starts one task's call ends in another task's context.    *)
(*                                                                         *)
(* create_task, enqueue_task, block_task and wake_task are modelled as the *)
(* interface process.h offers to kernel code.  The caller of enqueue_task, *)
(* block_task and wake_task has interrupts off: none of the three disables *)
(* them, and each works on state that the timer interrupt also changes.    *)
(***************************************************************************)
EXTENDS Naturals, FiniteSets

CONSTANTS
  Task,       \* the places on the kernel heap for a task_t and its stack
  Idle,       \* the static idle_task
  Boot,       \* the boot stack of boot.asm, on which main() runs
  NULL,       \* the null pointer
  SCHEDULER_TICK_INTERVAL,  \* timer ticks between two calls of schedule()
  TICK_RANGE  \* timer_ticks is unsigned and wraps here (2^32 in the kernel)

AllTask == Task \cup {Idle}
Stack == AllTask \cup {Boot}

ASSUME SchedAssumption ==
  /\ IsFiniteSet(Task)
  /\ Idle \notin Task
  /\ Boot \notin AllTask
  /\ NULL \notin Stack
  /\ SCHEDULER_TICK_INTERVAL \in Nat \ {0}
  /\ TICK_RANGE \in Nat \ {0}

TASK_NEW == "TASK_NEW"
TASK_READY == "TASK_READY"
TASK_RUNNING == "TASK_RUNNING"
TASK_BLOCKED == "TASK_BLOCKED"
TASK_ZOMBIE == "TASK_ZOMBIE"

VARIABLES
  task_ptr,      \* tail of the circular list of tasks, or NULL
  current_task,  \* the running task, NULL until proc1 is enqueued
  dead_task,     \* the exited task that waits for its memory to be freed
  next, prev,    \* the links of each task_t, NULL when it is in no list
  state,         \* task_t.state
  kernel_esp,    \* task_t.kernel_esp: the stack that holds a saved context
  task_cr3,      \* task_t.cr3: whose page directory (Idle: the boot one)
  mem,           \* the task_t and its kernel stack on the kernel heap
  mm,            \* the tasks that own a mm_t with its page directory
  esp,           \* the stack the CPU runs on, or enters the kernel on
  esp0,          \* tss.esp0: the stack an interrupt from user mode takes
  cr3,           \* the page directory in use
  timer_ticks,
  boot           \* progress of main() and enter_proc1()

list == <<task_ptr, next, prev>>
cpu == <<esp, esp0, cr3>>
vars == <<list, current_task, dead_task, state, kernel_esp, task_cr3, mem, mm,
          cpu, timer_ticks, boot>>

(* main() up to init_timer(): init_scheduler() has cleared the pointers,   *)
(* init_tss() has made the boot stack the kernel stack.                    *)
Init ==
  /\ task_ptr = NULL /\ current_task = NULL /\ dead_task = NULL
  /\ next = [t \in AllTask |-> NULL]
  /\ prev = [t \in AllTask |-> NULL]
  /\ state = [t \in AllTask |-> TASK_NEW]
  /\ kernel_esp = [t \in AllTask |-> NULL]
  /\ task_cr3 = [t \in AllTask |-> Idle]
  /\ mem = [t \in Task |-> "free"]
  /\ mm = {}
  /\ esp = Boot /\ esp0 = Boot /\ cr3 = Idle
  /\ timer_ticks = 0
  /\ boot = "init"

----------------------------------------------------------------------------
(* The list of tasks.                                                      *)

(* Mutants of Link: head->prev, or task_ptr itself is not written.         *)
LinkWithoutHeadPrev(t) ==
  LET tail == IF task_ptr = NULL THEN t ELSE task_ptr
      head == IF task_ptr = NULL THEN t ELSE next[task_ptr]
  IN  /\ next' = [next EXCEPT ![t] = head, ![tail] = t]
      /\ prev' = [prev EXCEPT ![t] = tail]
      /\ task_ptr' = t
LinkAtHead(t) ==
  LET tail == IF task_ptr = NULL THEN t ELSE task_ptr
      head == IF task_ptr = NULL THEN t ELSE next[task_ptr]
  IN  /\ next' = [next EXCEPT ![t] = head, ![tail] = t]
      /\ prev' = [prev EXCEPT ![t] = tail, ![head] = t]
      /\ task_ptr' = tail

(* enqueue_task: link t behind the tail and make it the tail.              *)
Link(t) ==
  LET tail == IF task_ptr = NULL THEN t ELSE task_ptr
      head == IF task_ptr = NULL THEN t ELSE next[task_ptr]
  IN  /\ next' = [next EXCEPT ![t] = head, ![tail] = t]
      /\ prev' = [prev EXCEPT ![t] = tail, ![head] = t]
      /\ task_ptr' = t

(* dequeue_task.  Its only caller, reap_dead_task, passes a task that is   *)
(* not the current one, so the branches that move current_task are idle.   *)
Unlink(t) ==
  /\ next' = [next EXCEPT ![prev[t]] = next[t], ![t] = NULL]
  /\ prev' = [prev EXCEPT ![next[t]] = prev[t], ![t] = NULL]
  /\ task_ptr' = IF next[t] = t THEN NULL
                 ELSE IF task_ptr = t THEN prev[t] ELSE task_ptr

Runnable(st, t) == st[t] \in {TASK_READY, TASK_RUNNING}

(* The tasks in the order in which the loop of next_task visits them.      *)
Walk(links, start) ==
  LET w[n \in 0..Cardinality(Task)] ==
        IF n = 0 THEN start ELSE links[w[n - 1]]
  IN  w

(* Mutant of NextTask: the search starts behind the tail every time.       *)
NextTaskFromTail(links, tail, st) ==
  LET w == Walk(links, links[tail])
      First(t) == \E n \in DOMAIN w :
                    /\ w[n] = t
                    /\ \A m \in 0..(n - 1) : w[m] \in Task => ~Runnable(st, w[m])
      found == {t \in Task : Runnable(st, t) /\ First(t)}
  IN  IF tail = NULL THEN NULL
      ELSE IF found = {} THEN Idle ELSE CHOOSE t \in found : TRUE

(* next_task: the first runnable task after the current one, the current   *)
(* one last; the idle task only when there is none.                        *)
NextTask(links, tail, st) ==
  LET start == links[IF current_task # NULL THEN current_task ELSE tail]
      w == Walk(links, start)
      First(t) == \E n \in DOMAIN w :
                    /\ w[n] = t
                    /\ \A m \in 0..(n - 1) : w[m] \in Task => ~Runnable(st, w[m])
      found == {t \in Task : Runnable(st, t) /\ First(t)}
  IN  IF tail = NULL THEN NULL
      ELSE IF found = {} THEN Idle ELSE CHOOSE t \in found : TRUE

(* Mutants of ReapDeadTask: the caller's own stack is freed; the task is   *)
(* freed and stays in the list.                                            *)
ReapOwnStack(d, p) ==
  IF d = NULL
  THEN dead_task' = d /\ UNCHANGED <<list, mem>>
  ELSE /\ Unlink(d)
       /\ mem' = [mem EXCEPT ![d] = "free"]
       /\ dead_task' = NULL
ReapWithoutDequeue(d, p) ==
  /\ UNCHANGED list
  /\ IF d \in {NULL, p}
     THEN dead_task' = d /\ UNCHANGED mem
     ELSE mem' = [mem EXCEPT ![d] = "free"] /\ dead_task' = NULL

(* reap_dead_task, where d is dead_task and p the caller: never the stack  *)
(* that p still runs on.                                                   *)
ReapDeadTask(d, p) ==
  IF d \in {NULL, p}
  THEN /\ dead_task' = d
       /\ UNCHANGED <<list, mem>>
  ELSE /\ Unlink(d)
       /\ mem' = [mem EXCEPT ![d] = "free"]
       /\ dead_task' = NULL

(* Mutants of SwitchTo: the stack pointer is not saved; the TSS keeps the  *)
(* old stack.                                                              *)
SwitchWithoutSave(p, n, st) ==
  /\ current_task' = n
  /\ state' = [state EXCEPT ![p] = st, ![n] = TASK_RUNNING]
  /\ esp0' = n
  /\ cr3' = task_cr3'[n]
  /\ esp' = kernel_esp[n]
  /\ UNCHANGED kernel_esp
SwitchWithoutTss(p, n, st) ==
  /\ current_task' = n
  /\ state' = [state EXCEPT ![p] = st, ![n] = TASK_RUNNING]
  /\ cr3' = task_cr3'[n]
  /\ kernel_esp' = [kernel_esp EXCEPT ![p] = esp]
  /\ esp' = kernel_esp[n]
  /\ UNCHANGED esp0

(* context_switch and switch_to, after reaping: p leaves the CPU in state  *)
(* st, its stack pointer saved in p->kernel_esp; n continues on the stack  *)
(* saved in n->kernel_esp.                                                 *)
SwitchTo(p, n, st) ==
  /\ current_task' = n
  /\ state' = [state EXCEPT ![p] = st, ![n] = TASK_RUNNING]
  /\ esp0' = n
  /\ cr3' = task_cr3'[n]
  /\ kernel_esp' = [kernel_esp EXCEPT ![p] = esp]
  /\ esp' = kernel_esp[n]

----------------------------------------------------------------------------
(* The timer interrupt.                                                    *)

(* Mutant of Schedule: nobody reaps.                                       *)
ScheduleWithoutReap ==
  /\ UNCHANGED <<list, dead_task, mem>>
  /\ LET n == NextTask(next, task_ptr, state)
     IN  IF n \in {NULL, current_task}
         THEN UNCHANGED <<current_task, state, kernel_esp, cpu>>
         ELSE SwitchTo(current_task, n, TASK_READY)

(* schedule *)
Schedule ==
  /\ ReapDeadTask(dead_task, current_task)
  /\ LET n == NextTask(next', task_ptr', state)
     IN  IF n \in {NULL, current_task}
         THEN UNCHANGED <<current_task, state, kernel_esp, cpu>>
         ELSE SwitchTo(current_task, n, TASK_READY)

Tick ==
  timer_ticks' = (timer_ticks + 1) % TICK_RANGE

Due == timer_ticks' % SCHEDULER_TICK_INTERVAL = 0 /\ current_task # NULL

(* interrupts_dispatch(0) on a tick that leaves the running task alone.    *)
TimerTick ==
  /\ Tick
  /\ ~Due
  /\ UNCHANGED <<list, current_task, dead_task, state, kernel_esp, task_cr3,
                 mem, mm, cpu, boot>>

(* interrupts_dispatch(0) on a tick that calls schedule().                 *)
TimerSchedule ==
  /\ Tick
  /\ Due
  /\ UNCHANGED <<task_cr3, mm, boot>>
  /\ Schedule

----------------------------------------------------------------------------
(* Boot.  The steps of main() run in the context that is on the boot       *)
(* stack; once proc1 is current, that context is proc1's.                  *)

(* init_idle_task *)
InitIdleTask ==
  /\ boot = "init"
  /\ task_cr3' = [task_cr3 EXCEPT ![Idle] = cr3]
  /\ kernel_esp' = [kernel_esp EXCEPT ![Idle] = Idle]
  /\ next' = [next EXCEPT ![Idle] = Idle]
  /\ prev' = [prev EXCEPT ![Idle] = Idle]
  /\ state' = [state EXCEPT ![Idle] = TASK_READY]
  /\ task_ptr' = Idle
  /\ boot' = "idle_ready"
  /\ UNCHANGED <<current_task, dead_task, mem, mm, cpu, timer_ticks>>

(* create_task: a zeroed task_t, a kernel stack, a mm_t and a page         *)
(* directory.  The memory may be that of a task that was freed before.     *)
CreateTask(t) ==
  /\ mem[t] = "free"
  /\ mem' = [mem EXCEPT ![t] = "live"]
  /\ mm' = mm \cup {t}
  /\ task_cr3' = [task_cr3 EXCEPT ![t] = t]
  /\ state' = [state EXCEPT ![t] = TASK_NEW]

(* enter_proc1 up to the point where enqueue_task makes proc1 current; it  *)
(* is still TASK_NEW there, and the timer now sees a current task.         *)
EnterProc1(t) ==
  /\ boot = "idle_ready"
  /\ CreateTask(t)
  /\ esp0' = t
  /\ Link(t)
  /\ current_task' = t
  /\ boot' = "enqueued"
  /\ UNCHANGED <<dead_task, kernel_esp, esp, cr3, timer_ticks>>

(* The last write of enqueue_task.                                         *)
BootSetRunning ==
  /\ boot = "enqueued"
  /\ esp = Boot
  /\ state' = [state EXCEPT ![current_task] = TASK_RUNNING]
  /\ boot' = "loading"
  /\ UNCHANGED <<list, current_task, dead_task, kernel_esp, task_cr3, mem, mm,
                 cpu, timer_ticks>>

(* The image is loaded: set_cr3 and enter_user_task.  The boot stack is    *)
(* left for good; the next entry to the kernel is on the stack of the TSS. *)
EnterUserTask ==
  /\ boot = "loading"
  /\ esp = Boot
  /\ cr3' = task_cr3[current_task]
  /\ esp' = esp0
  /\ boot' = "user"
  /\ UNCHANGED <<list, current_task, dead_task, state, kernel_esp, task_cr3,
                 mem, mm, esp0, timer_ticks>>

(* No disk, no memory or no executable: spin_forever().                    *)
BootFail ==
  /\ boot \in {"idle_ready", "loading"}
  /\ esp = Boot
  /\ boot' = "spin"
  /\ UNCHANGED <<list, current_task, dead_task, state, kernel_esp, task_cr3,
                 mem, mm, cpu, timer_ticks>>

----------------------------------------------------------------------------
(* What the running task's kernel code may call.                           *)

TaskRuns == current_task \in Task /\ esp = current_task

(* create_task and prepare_user_task_stack                                 *)
SpawnTask(t) ==
  /\ TaskRuns
  /\ CreateTask(t)
  /\ kernel_esp' = [kernel_esp EXCEPT ![t] = t]
  /\ next' = [next EXCEPT ![t] = NULL]
  /\ prev' = [prev EXCEPT ![t] = NULL]
  /\ UNCHANGED <<task_ptr, current_task, dead_task, cpu, timer_ticks, boot>>

(* enqueue_task on a task that is in no list; some task is current.        *)
EnqueueTask(t) ==
  /\ TaskRuns
  /\ mem[t] = "live" /\ state[t] = TASK_NEW
  /\ prev[t] = NULL /\ next[t] = NULL
  /\ Link(t)
  /\ state' = [state EXCEPT ![t] = TASK_READY]
  /\ UNCHANGED <<current_task, dead_task, kernel_esp, task_cr3, mem, mm, cpu,
                 timer_ticks, boot>>

(* destroy_task on a task that was never enqueued.                         *)
DestroyTask(t) ==
  /\ TaskRuns
  /\ mem[t] = "live" /\ state[t] = TASK_NEW
  /\ prev[t] = NULL /\ next[t] = NULL
  /\ mm' = mm \ {t}
  /\ mem' = [mem EXCEPT ![t] = "free"]
  /\ UNCHANGED <<list, current_task, dead_task, state, kernel_esp, task_cr3,
                 cpu, timer_ticks, boot>>

(* block_task on a task that is not the current one.                       *)
BlockOther(t) ==
  /\ TaskRuns
  /\ t # current_task
  /\ Runnable(state, t)
  /\ state' = [state EXCEPT ![t] = TASK_BLOCKED]
  /\ UNCHANGED <<list, current_task, dead_task, kernel_esp, task_cr3, mem, mm,
                 cpu, timer_ticks, boot>>

(* block_task on the current task.  next_task runs before context_switch   *)
(* reaps, on the list as it is.                                            *)
BlockCurrent ==
  /\ TaskRuns
  /\ Runnable(state, current_task)
  /\ UNCHANGED <<task_cr3, mm, timer_ticks, boot>>
  /\ LET st == [state EXCEPT ![current_task] = TASK_BLOCKED]
         n == NextTask(next, task_ptr, st)
     IN  /\ n \notin {NULL, current_task}
         /\ ReapDeadTask(dead_task, current_task)
         /\ SwitchTo(current_task, n, TASK_BLOCKED)

(* wake_task, also from an interrupt handler.                              *)
WakeTask(t) ==
  /\ mem[t] = "live"
  /\ state[t] = TASK_BLOCKED
  /\ state' = [state EXCEPT ![t] = TASK_READY]
  /\ UNCHANGED <<list, current_task, dead_task, kernel_esp, task_cr3, mem, mm,
                 cpu, timer_ticks, boot>>

(* exit_task: under cli from its first instruction.  The task moves to the *)
(* boot page directory before its own is released, and leaves its stack to *)
(* be freed by whoever runs schedule() or block_task() next.               *)
ExitTask ==
  /\ TaskRuns
  /\ LET st == [state EXCEPT ![current_task] = TASK_ZOMBIE]
         n == NextTask(next, task_ptr, st)
     IN  /\ task_cr3' = [task_cr3 EXCEPT ![current_task] = task_cr3[Idle]]
         /\ mm' = mm \ {current_task}
         /\ ReapDeadTask(current_task, current_task)
         /\ SwitchTo(current_task, n, TASK_ZOMBIE)
  /\ UNCHANGED <<timer_ticks, boot>>

----------------------------------------------------------------------------
Next ==
  \/ TimerTick
  \/ TimerSchedule
  \/ InitIdleTask
  \/ \E t \in Task : EnterProc1(t)
  \/ BootSetRunning
  \/ EnterUserTask
  \/ BootFail
  \/ \E t \in Task : SpawnTask(t)
  \/ \E t \in Task : EnqueueTask(t)
  \/ \E t \in Task : DestroyTask(t)
  \/ \E t \in Task : BlockOther(t)
  \/ BlockCurrent
  \/ \E t \in Task : WakeTask(t)
  \/ ExitTask

(* The timer is periodic and no stretch of code keeps interrupts off for   *)
(* ever; nothing is assumed of what the running task does.                 *)
Fairness == WF_vars(TimerTick \/ TimerSchedule)

Spec == Init /\ [][Next]_vars /\ Fairness
----------------------------------------------------------------------------
(* Properties.                                                             *)

Linked(t) == next[t] # NULL
Started == boot \in {"user", "spin", "loading"}

(* Every variable keeps the values its C declaration allows: pointers name *)
(* tasks or are null, the boot code is at one of its steps.                *)
TypeOK ==
  /\ task_ptr \in AllTask \cup {NULL}
  /\ current_task \in AllTask \cup {NULL}
  /\ dead_task \in Task \cup {NULL}
  /\ next \in [AllTask -> AllTask \cup {NULL}]
  /\ prev \in [AllTask -> AllTask \cup {NULL}]
  /\ state \in [AllTask -> {TASK_NEW, TASK_READY, TASK_RUNNING, TASK_BLOCKED,
                            TASK_ZOMBIE}]
  /\ kernel_esp \in [AllTask -> Stack \cup {NULL}]
  /\ task_cr3 \in [AllTask -> AllTask]
  /\ mem \in [Task -> {"free", "live"}]
  /\ mm \subseteq Task
  /\ esp \in Stack /\ esp0 \in Stack /\ cr3 \in AllTask
  /\ timer_ticks \in 0..(TICK_RANGE - 1)
  /\ boot \in {"init", "idle_ready", "enqueued", "loading", "user", "spin"}

(* enqueue_task and dequeue_task keep a doubly linked list: both links are *)
(* set or neither, they are inverse to each other, they name only tasks    *)
(* that are in the list, and the tail is the task before the idle task.    *)
DoublyLinked ==
  /\ \A t \in AllTask : Linked(t) =>
       /\ next[t] \in AllTask /\ Linked(next[t]) /\ prev[next[t]] = t
       /\ prev[t] \in AllTask /\ Linked(prev[t]) /\ next[prev[t]] = t
  /\ \A t \in AllTask : ~Linked(t) => prev[t] = NULL
  /\ task_ptr = prev[Idle]

(* q lists the n enqueued tasks in list order, behind the idle task.       *)
IsRing(links, n, q) ==
  /\ q[0] = Idle
  /\ \A i \in 0..(n - 1) : links[q[i]] = q[i + 1]
  /\ links[q[n]] = Idle
  /\ \A i, j \in 0..n : q[i] = q[j] => i = j
  /\ \A t \in AllTask : links[t] # NULL <=> \E i \in 0..n : q[i] = t

(* The list is one ring: the loop of next_task, from wherever it starts,   *)
(* meets every enqueued task, whatever was enqueued or reaped before.      *)
OneRing ==
  task_ptr # NULL =>
    LET n == Cardinality({t \in Task : Linked(t)})
    IN  \E q \in [0..n -> AllTask] : IsRing(next, n, q)

(* The task list, after any sequence of enqueues and reaps: a doubly       *)
(* linked list, and all of it one ring.                                    *)
RingSound == DoublyLinked /\ OneRing

(* Nothing the CPU or the scheduler still uses is freed memory: not the    *)
(* stack it runs on, not the stack in the TSS, not the page directory in   *)
(* CR3 or the one a runnable task will load, not a task in the list.       *)
NoUseAfterFree ==
  /\ {esp, esp0} \cap Task \subseteq {t \in Task : mem[t] = "live"}
  /\ cr3 \in mm \cup {Idle}
  /\ \A t \in Task : Linked(t) =>
       mem[t] = "live" /\ task_cr3[t] \in mm \cup {Idle}
  /\ current_task # NULL => Linked(current_task)
  /\ dead_task # NULL => Linked(dead_task)

(* The CPU's stack, the TSS and CR3 all belong to the current task, except *)
(* that proc1 starts on the boot stack, in the boot page directory.        *)
CpuBelongsToCurrent ==
  /\ current_task # NULL =>
       /\ esp0 = current_task
       /\ esp = current_task \/ (esp = Boot /\ boot # "user")
       /\ cr3 = task_cr3[current_task] \/ (esp = Boot /\ cr3 = Idle)
  /\ \A t \in AllTask : state[t] = TASK_RUNNING => t = current_task
  /\ (current_task # NULL /\ Started) => state[current_task] = TASK_RUNNING

(* Every task in the list that is off the CPU has a saved context, on its  *)
(* own stack (proc1 possibly on the boot stack), and no two contexts, the  *)
(* running one included, share a stack.                                    *)
PrivateStacks ==
  LET Suspended == {t \in AllTask : Linked(t) /\ t # current_task
                                                /\ state[t] # TASK_ZOMBIE}
  IN  /\ \A t \in Suspended : kernel_esp[t] \in {t, Boot} \ {esp}
      /\ \A t, u \in Suspended : kernel_esp[t] = kernel_esp[u] => t = u

(* Life cycle of a task: an exited task keeps that state and never gets    *)
(* the CPU again, a blocked task gets the CPU only after wake_task, and    *)
(* memory is freed only while its task is on neither side of a switch, and *)
(* then no task in the list points to it any more.                         *)
LifeCycle ==
  [][\A t \in Task : mem[t] = "live" =>
       /\ state[t] = TASK_ZOMBIE =>
            current_task' # t /\ (state'[t] = TASK_ZOMBIE \/ mem'[t] = "free")
       /\ state[t] = TASK_BLOCKED => current_task' # t /\ mem'[t] = "live"
       /\ mem'[t] = "free" =>
            /\ t \notin {current_task, current_task', dead_task'}
            /\ \A u \in AllTask : t \notin {next'[u], prev'[u]}]_vars

(* A task that is ready gets the CPU (or is blocked by someone else): the  *)
(* rotation of next_task starves nobody.                                   *)
NoStarvation ==
  \A t \in Task : state[t] = TASK_READY ~> state[t] # TASK_READY

(* An exited task is freed, unless another task exits before the next call *)
(* of schedule() and takes the only dead_task slot.                        *)
DeadTaskReaped ==
  \A t \in Task :
    dead_task = t ~> (mem[t] = "free" \/ dead_task \notin {t, NULL})

(* The list of pointers implements the queue of RoundRobin.                *)
RingOrder ==
  LET w == Walk(next, Idle)
      size == Cardinality({t \in Task : Linked(t)})
  IN  [i \in 1..size |-> w[i]]

TaskStatus(t) ==
  IF ~Linked(t) THEN "out"
  ELSE IF Runnable(state, t) THEN "ready"
  ELSE IF state[t] = TASK_NEW THEN "new"
  ELSE IF state[t] = TASK_BLOCKED THEN "blocked" ELSE "exited"

Promise == INSTANCE RoundRobin WITH
  queue <- RingOrder, status <- [t \in Task |-> TaskStatus(t)],
  cpu <- current_task

(* The scheduler implements RoundRobin, its progress included.             *)
ImplementsRoundRobin == Promise!Spec
=============================================================================
