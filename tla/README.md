# A TLA+ development of potato-OS

potato-OS is a small 32-bit x86 kernel: one CPU, a timer-driven scheduler, one
user process (`proc1`, the shell), demand-paged ELF programs read from a Minix
disk, a kernel heap, a keyboard terminal and a text console. The modules here model the parts
of it that carry state from one event to the next. TLC checks them on small
instances, and TLAPS proves what matters most for all sizes.

Paths below are relative to the repository; `kernel/x.c` is `src/kernel/x.c`.

## 1. Inventory

| component | state | operations | talks to |
|---|---|---|---|
| scheduler: `sched.c`, `timer.c`, `tss.c` | ring of `task_t` through `task_ptr`, `current_task`, `dead_task`, `idle_task`, `timer_ticks`, `tss.esp0` | `enqueue_task`, `dequeue_task`, `next_task`, `schedule`, `context_switch`/`switch_to`, `block_task`, `wake_task`, `exit_task`, `reap_dead_task`, `init_idle_task` | called by the timer interrupt, system calls and `main`; frees through the heap; releases address spaces |
| processes: `process.c` | `task_t` (stack, `kernel_esp`, `cr3`, state), `mm_t` | `create_task`, `destroy_task`, `create_task_mm`, `release_mm`, `switch_mm`, `prepare_user_task_stack` | heap, paging, file system |
| address space: `mmap.c`, `fault.c`, `paging.c`, `memory.c` | `mm->mmap` list, page directories, tables, the three pools, CR3 | `do_mmap`, `vm_brk_flags`, `padzero`, `find_vma`, `page_fault_handler`, `map_page`, `unmap_page`, `alloc_*`/`free_*` | faults of programs and of the loader; `vfs_read` |
| loader: `elf.c` | the open executable, the segment at hand | `elf32_load_exec` | `do_mmap`, `padzero`, `vfs_read` |
| system calls: `syscall.c` | dispatch table | `exit`, `read`, `write`, `execve`; `open` and `close` exist and are not registered | everything above |
| terminal input: `tty.c`, `keyboard.c` | `tty_queue` with head and tail | `tty_queue_push_char` (interrupt), `tty_read` (system call) | keyboard interrupt, `hlt` |
| kernel heap: `heap.c` | list of blocks in a static array | `kmalloc`, `kfree`, `split_block`, `coalesce_free_blocks` | all of the kernel |
| boot: `main.c`, `boot.asm` | the boot stack and page directory | `main`, `enter_proc1` | all `init_*` |
| interrupts, exceptions: `interrupts.c`, `exceptions.c` | masks, requests and requests in service of the two PICs, gates, handler tables, IF | `pic_remap`, `lock_irqs`, `unmask_irq`, `pic_send_eoi`, `interrupts_dispatch`, `exceptions_dispatch`, the stubs, `irq_save`, `irq_restore` | timer, keyboard, page fault, system calls, the TSS |
| disk: `disk.c` | `dma_buffer`, PRD table, the controller's registers | `disk_read`, `disk_write`: polled DMA transfers with timeouts counted in ticks | PCI, timer, file system |
| file system: `fs.c` | superblock, inodes and blocks on disk, `file_t` | `vfs_open`, `vfs_read`, `vfs_close`, `map_file_block`, `split_path` | disk, heap |
| console: `console.c` | cursor, VGA text buffer, cursor register | `console_putc`, `console_scroll`, `console_puts`, `console_put_hex*`, `console_put_dec32`, `console_reset` | `sys_write`, messages of the kernel |
| shell: `potatoshell.c`, `hello.c`, user library | input line, 8-bit counter | read a line, edit it, `execve` | system calls, console |
| PCI: `pci.c` | list of devices, configuration space | `scan_pci`, `pci_find_device`, `pci_enable_bus_master` | `init_disk` |
| GDT: `gdt.c` | none after boot | | |

### What is hard in this code

* **Interrupts.** Exceptions and IRQs use interrupt gates (IF cleared), system
  calls a trap gate (`kernel/syscall.c`, type 0xEF: IF stays on). So system
  calls are preempted at any instruction, interrupt and fault handlers never.
* **Switching away from oneself.** `schedule`, `block_task` and `exit_task` end
  on another task's stack. An exited task's stack is freed by somebody else,
  later, and there is only one `dead_task` slot for it.
* **Boot.** `main()` runs on the boot stack and turns into `proc1` half way,
  with the timer already on: `enqueue_task` sets `current_task` before the
  task is marked as running.
* **Two address spaces at once.** `sys_execve` switches to the new space before
  it is filled, and has to come back if any of a dozen calls fails.
* **A ring with no full check**, shared with an interrupt handler without locks.
* **A controller that answers late or never**, polled through two registers that
  are read one after the other, with timeouts in ticks that stop when IF is off.
* **Order at boot.** Interrupts are on from the fifth of thirteen init calls on.
  Gates, handlers and masks must be set in an order in which no tick, key or
  fault finds a hole, and each `unmask_irq` reads and writes a mask in use.
* **No locks.** Heap, disk buffer, page pools and console rely on the fact that
  nothing that interrupts their users uses them too.
* **Boundaries**: sizes rounded up in 32-bit arithmetic, a split that must leave
  room for a header, `timer_ticks` wrapping at 2^32, the three levels of a file's
  zones, rows of an array that a name overflows, an 8-bit counter that wraps at
  the end of its array, a cursor that wraps, scrolls and goes back.

`PROJECT.json` lists these under `hazards`, each at its line.

## 2. Modules

| module | models | state and actions |
|---|---|---|
| `Sched` | `sched.c`, the task part of `process.c`, the timer branch of `interrupts_dispatch`, `enter_proc1` | The ring is the two functions `next` and `prev` on task structures and the tail `task_ptr`, as in C. A stack is named by its owner, so `kernel_esp`, `esp` and `esp0` say on *whose* stack something is saved or runs, `cr3` and `task_cr3` whose page directory it is. `mem` says which structures are allocated; a place can be reused. |
| `RoundRobin` | what `Sched` promises | A queue, a status per task, the task on the CPU; no pointers, no stacks. |
| `Tty` | `tty.c`, `keyboard_irq_handler`, the terminal branch of `sys_read` | The ring as in C; the reader's program counter; each access of the reader to shared memory is a step, the handlers are one step each. Characters are numbered by key press. |
| `Heap` | `heap.c` | The list of headers as a sequence of `[addr, size, is_free]`; `owned` is what callers hold. |
| `VmaList` | `do_mmap`, `vm_brk_flags`, `find_vma` | Operators on the list of areas, addresses modulo `ADDRESS_SPACE`. |
| `Vm` | `paging.c`, `memory.c`, `fault.c`, `padzero`, `elf.c`, `sys_execve`, `create_task_mm`, `release_mm`, `switch_mm`, the address space of `enter_proc1` and `exit_task` | Tables as functions from index to pool entry, frames with their contents, the loader's position, reference counts of files. |
| `Disk` | `disk.c`, `timer_ticks` | The registers of the drive and of the bus master, `dma_buffer`, the sectors with the drive's cache; the driver's position (`pc`, and `stage` for the wait it is in) and locals. Each poll is a step, each test of the loop's condition another; the drive moves sectors, ends commands or stays silent in between. |
| `Fs` | `fs.c`, `read_elf`, the read of `page_fault_handler` | A disk of blocks, the open inode. The functions of `fs.c` are operators and recursive functions of the same names, the calls are actions; `Contents` (the leaves of the tree of zones, in order) and `Named` (the names of the path, looked up one after the other) are the references they are checked against. |
| `Interrupts` | `interrupts.c`, `exceptions.c`, `main` from `init_interrupts` on, `syscall_entry`, `syscall_dispatch`, `idle_task_entry`, `schedule` and `context_switch` as far as they move stacks, the two PICs and IF | `main` is a list of steps. A kernel stack is a sequence of words, as CPU and stubs push them; interrupted code is the program counter in such a frame, to which `iret` returns. Heap, disk, pools and console are places that code enters and leaves. |
| `Console` | `console.c` | `con` is the screen, the cursor, the cursor register and, as history, the cells that scrolled away; the functions are operators on it, a call is an action. |
| `Paper` | what `Console` promises | A strip of cells, a position, the top of a window; no copying. |
| `Shell` | `potatoshell.c`, `hello.c`, `write`, `read`, `_exit`, `sys_write`, `tty_write` | Extends `Console`: the array `input` and its counter, one action per kind of key, and what runs in the task. |
| `Pci` | `pci.c`, its use in `init_disk` | Configuration space by address, the slot at hand, `pci_devices`, `ide_dev`. |
| `SchedProofs`, `TtyProofs`, `HeapProofs`, `VmProofs`, `DiskProofs` (also `Pci`), `FsProofs`, `InterruptsProofs`, `ConsoleProofs` (also `Shell`) | | inductive invariants and theorems |
| `MCSched`, `MCTty`, `MCHeap`, `MCVm`, `MCDisk`, `MCFs`, `MCInterrupts`, `MCConsole`, `MCShell`, `MCPci` | | instances for TLC |

A step of `Sched` is a stretch of kernel code that no interrupt can split: code
under `cli`, a handler, or writes that no handler reads. A step of `Vm` is one
call of the loader or of `sys_execve`, because nothing `Vm` touches is shared
with an interrupt handler and `proc1` is the only task with an address space.

Mutants (definitions introduced by "Mutant of ...") are variants of a
definition with a plausible mistake in them; for every property one of them
makes the property fail, and `PROJECT.json` says which.

### Decisions that shape the models

* At this commit only `proc1` is ever enqueued. `block_task`, `wake_task`,
  `destroy_task` and `prepare_user_task_stack` have no callers. `Sched` models
  them as the interface that `process.h` offers, with several tasks, because
  that is what the scheduler is written for. None of `enqueue_task`,
  `block_task` and `wake_task` disables interrupts, so the model takes the
  caller to have them off, and `enter_proc1`, the one real caller, which has
  them on, is split into the steps the timer can separate (`EnterProc1`,
  `BootSetRunning`, `EnterUserTask`).
* `timer_ticks` wraps at `TICK_RANGE`. 2^32 is not a multiple of the interval
  of 5 ticks, and the instances keep that: 5 and 2, 3 and 2.
* Programs write nothing to memory in `Vm`, so that every word that is present
  must be what the kernel put there. A freed frame's words become `Stale`.
* `kmalloc`, the disk and the pools may fail at each call of `Vm`. On its error
  paths `elf32_load_exec` calls `kfree` on an array on its stack; that writes
  one word below the array, and the model lets the call go on or end in
  `panic`.
* Page faults of the loader happen only in `padzero`.
* The controller of `Disk` is an environment: a drive is busy until its command
  ends, the end of every command sets the bus master's interrupt bit, and data
  moves only while the bus master is started. The port writes that program a
  transfer (`disk.c` 116 to 128) are one step, because the drive is idle and starts
  with the last of them. A wait is never longer than the range of the tick
  counter between two polls (497 days). Contents are named by sector: `Old(s)`
  before and `New(s)` after a write. `disk_write` has no caller at this commit;
  it is modelled as the interface of `disk.h`.
* In `Fs` a failed disk read is one action, `ReadFails`: every function of `fs.c`
  then returns 0 and has changed nothing, since both callers of `vfs_read` put
  `f_pos` back and `vfs_open` sets `f_inode` last. A directory entry is two
  words, an inode number and a name of characters. `split_path` works on the
  flat array of C, in which a long name runs on into the next row. `vfs_read`
  returns the words it read, and none for its result 0. Disks are
  consistent (`Consistent` in `Init`): the Makefile clears the disk image and
  runs `mkfs.minix` on its partition, and the kernel never writes to it. So
  block 0 is empty, and a directory has no holes and only inode numbers of the
  super block.
* `Interrupts` has the one user task that `main` creates, the idle task, their
  states and the stacks on which `switch_to` left them. `enqueue_task` is two
  steps, `set_current_task` and `TASK_RUNNING`, as in `Sched`: a tick between
  them finds a current task that cannot run, and `schedule()` switches from the
  boot stack to the idle task inside the timer interrupt, the next one that
  calls `schedule()` back (`Switched` is what follows the switch). After that
  the idle task, too, is suspended inside a timer interrupt, and `exit_task`
  returns to it there. `init_disk` may fail before its line is registered,
  `init_fs` after that. `NextCall` is the order of the calls in
  `interrupts_dispatch`; its mutant sends the end of interrupt behind
  `schedule()`, where it comes on another stack. A stretch of code
  between two points where something is entered, left, pushed or unmasked is
  one step, and an interrupt can come before each. The drive is taken to
  answer inside a page fault (`AnswerReturns` of `Disk`); a panic, which stands
  still with IF off, is the exception named in the liveness properties.
* The PIT's period is longer than a handler: after a tick other code gets to
  run before the next one (`ran`). At `TIMER_HZ` a handler has milliseconds.
* In `Console` a call is one step because of `Exclusive` in `Interrupts`. Colors
  are left out, a digit is its value. `Shell` reads keys in the order in which
  `Tty` delivers them.
* In `Shell` an `execve` may fail for any name, because memory or the disk
  fails; `run_command` then prints that the command was not found. `read` is
  called for one character of descriptor 0 only, for which `sys_read` cannot
  fail: its test of the descriptor and the shell's test for `received <= 0`
  are left out.
* `Heap` computes sizes without the wrap at 2^32 of `align_up` and of the test in
  `split_block`. Every caller of `kmalloc` passes the size of a structure or of a
  stack.
* `Unlink` in `Sched` leaves out the branches of `dequeue_task` for the current
  task: its one caller, `reap_dead_task`, never passes it.
* `Pci` keeps the real layout of an address and shortens the three loops. A base
  address register is a number: its lowest bit is a one for ports, assigned or
  not, and `bm_base` masks it as `init_disk` does.

## 3. Runs

| run | instance | checks |
|---|---|---|
| `sched_safety` | 4 tasks, interval 2, ticks modulo 5, symmetric tasks | `RingSound`, `NoUseAfterFree`, `CpuBelongsToCurrent`, `PrivateStacks` |
| `sched_live` | 3 tasks, interval 2, ticks modulo 3 | `LifeCycle`, `NoStarvation`, `DeadTaskReaped`, `ImplementsRoundRobin` |
| `tty` | ring of 3, reads of up to 2, 9 keys | `InOrder`, `NoLoss`, `LossInWholeTurns`, `KeyIsRead` |
| `heap` | 30 words, header 3, alignment 2, requests of 1, 4 and 5 | `HeapSound`, `FullyCoalesced`, `OthersUntouched` |
| `vm` | 6 pages of 2 words, tables of 3 pages, 2 directories, 3 tables, 4 frames, 2 address spaces, 3 files, 10 executables | `AreasDisjoint`, `PoolsAccounted`, `FilesAccounted`, `Cr3Valid`, `ImageCorrect` |
| `disk_safety` | 3 sectors, buffer of 2, calls of up to 3, timeout 1, ticks modulo 2, IF on | `ReadCorrect`, `WriteCorrect`, `LateTransfersHarmless` |
| `disk_live` | 2 sectors, buffer of 1, calls of up to 2, timeout 2, ticks modulo 4, IF on and off | `TimeoutReturns`, `AnswerReturns` |
| `fs` | blocks of 4 words, 2 direct zones, 2 pointers per zone, pages of 8 words, numbers modulo 64, 3 rows for names of 2, 72 disks, 16 paths | `ReadsReturnTheFile`, `OpenFollowsThePath` |
| `interrupts` | IRQs 0, 1, 2, 7 and 14, exceptions 0, 13, 14 and 17, interval 2 | `StubsBalanced`, `EoiOwnRequest`, `EveryTrapHandled`, `Interruptible`, `StackDepth`, `Exclusive`, `RequestsServed` |
| `console` | 3 lines of 2 cells, 2 lines may scroll away, texts of one character | `CursorShown`, `ImplementsPaper` |
| `shell` | 3 lines of 3 cells, 2 lines may scroll away, an array of 4, two programs of which one is the shell | `LineShown`, `CommandIsLine` |
| `pci` | 2 buses of 2 devices of 2 functions, up to 3 in use, of 4 kinds | `FirstController`, `OnlyBusMaster` |

Why the bounds are enough:

* **sched**: four tasks let one run, one wait to be reaped, one be linked
  between them and a fourth be created in freed memory. Two ticks per interval
  give ticks that schedule and ticks that do not, and the wrap changes their
  distance. Liveness needs three: with two, "the other one" is always right.
* **tty**: nine keys go three times round a ring of three, so a key can overrun
  the ring once and again while the reader stands between two accesses.
* **heap**: 30 words hold up to six minimal blocks: a free block with free and
  used neighbours on both sides, splits with an exact fit, with too little
  room for a header and with room.
* **vm**: the stack page and a program's pages exceed four frames, and two
  address spaces exceed three tables, so that every pool runs out inside
  `execve`. The executables cover segments that start and end inside a page,
  zeros in the last file page and behind it, descending addresses, a file
  shorter than its segment, overlap, `memsz < filesz`, no headers, a segment
  in the last page of the address space, whose end wraps to 0, one there with
  zeros behind its part in the file, one whose words wrap, and one with an
  offset at the end of the 32 bits, so that `file_offset` wraps in its second
  page.
* **disk**: three sectors and a buffer of two give calls of two transfers, the
  second one shorter; calls follow each other without end, so that every way in
  which one ends (timeout in each wait, error, stop in the middle) precedes
  every other call. With IF on the driver may do all that it may do with IF off,
  and time out besides, so the safety run leaves IF off out. The liveness run
  has a timeout of two, so that a wait can be in progress when the tick counter
  wraps.
* **fs**: the sizes of the large file lie on, below and above the ends of its
  direct, indirect and double indirect zones and of the largest file; one of
  its zones or pointer blocks may be missing. The root directory has three
  blocks, the last behind an indirect zone, deleted entries and a name that
  occurs twice; `db` ends inside an entry. Paths have doubled and trailing
  slashes, lead through a file, or are relative; names are as long as an entry,
  one or more characters longer, and fill two rows. Reads start in the file and
  behind its end.
* **interrupts**: the lines are the two devices, the cascade, a line behind it
  and the one of spurious interrupts; the exceptions have an error code or not
  and a handler or not. The other lines are masked for ever and the other
  vectors have the same stubs. Two ticks per interval give ticks that call
  `schedule()` and ticks that do not. Ticks come between the two steps of
  `enqueue_task`, so that `main` is switched away and comes back.
* **console**: with three lines the first, the last and one between them differ,
  with two cells the first and the last of a line. Scrolling twice moves a line
  that was itself moved. All texts are sequences of single characters. The
  functions that print numbers use the same digits as the paper in
  `ImplementsPaper`, which is about where they go; which digits they are is the
  assumption `NumeralsByPosition` of `MCConsole`, which TLC evaluates for numbers
  around the ends of digits, bytes and halves and for the largest.
* **shell**: prompt and line are longer than a line of the screen, and a line can
  exceed the array before and after the screen scrolls.
* **pci**: gaps between functions, devices and buses, several controllers, and
  controllers with and without a port for the bus master in any order. Without
  one the register reads 0, 1 (never assigned) or an address above the ports.

No run disables the deadlock check: the timer always ticks in `Sched`, other
interrupts always come in `Tty`, `kmalloc` may fail in `Heap`, a stopped
machine is the explicit action `Stopped` in `Vm`, callers go on calling in
`Disk`, `Fs` and `Console`, time goes on in `Interrupts`, and `Shell` and `Pci` end
in explicit actions (`Idle`, `Booted`). Two bounds appear in guards: lines that
scroll away (`MAX_SCROLL`) and the range of the tick counter.

### Fairness

* `Sched`: weak fairness of the timer interrupt, and of nothing else. The PIT
  is periodic, and kernel code does not run with interrupts off for ever. What
  the running task does is not assumed: `NoStarvation` holds against a task
  that never gives up the CPU.
* `Tty`: weak fairness of the reader's own code and of interrupts other than
  keys (the timer). Nobody has to press a key. Without the timer `KeyIsRead`
  fails: the key that arrives between the empty check and `hlt` would be slept
  through.
* `Disk`: weak fairness of the driver's code and of the timer, whose action is
  enabled only with interrupts on during a call. Nothing is assumed of the
  drive in `TimeoutReturns`; `AnswerReturns` has its answers as a premise,
  because with interrupts off nothing else ends a wait.
* `Interrupts`: weak fairness of the CPU, which executes instructions and looks
  for interrupts before each, and of the PIT. Nobody has to press a key, no
  program has to do anything in particular.
* `Vm`, `Heap`, `Fs`, `Console`, `Shell` and `Pci` state safety only.

## 4. What is proved

`tlapm` checks `SchedProofs`, `TtyProofs`, `HeapProofs`, `VmProofs`, `DiskProofs`,
`FsProofs`, `InterruptsProofs` and `ConsoleProofs`; no step is left open. Every
invariant that a run checks is a theorem, and so are every action property and
the steps of both refinements.
The assumptions are the named `ASSUME`s of the modules: task places are
finite, distinct names are distinct, sizes are positive numbers, the address
space is a whole number of pages, executables are lists of program headers,
exceptions have the vectors 0 to 31, the cells of the screen fit the 16 bits of
the cursor register, and line end, backspace and NUL are three characters.
For the shell: the prompt has none of these, and prompt and array together are
shorter than the screen without one line (13 and 256 of 1920 cells). For PCI: a machine
has its functions in the slots that `scan_pci` visits, at most 64, with the
registers that are read. For the file system: a block holds whole directory
entries, the largest file does not exceed 32 bits, paths have no NUL in them, and the
disk is consistent.

**`SchedProofs`**: for any number of tasks, any interval and any wrap of the
tick counter, `TypeOK`, `RingSound`, `NoUseAfterFree`, `CpuBelongsToCurrent` and
`PrivateStacks` are invariants of `Spec` (theorems `TypeCorrect`, `RingCorrect`,
`MemorySafe`, `CpuConsistent`, `StacksPrivate`, from `Inductive`).
None of them is inductive alone: that reaping frees nothing in use needs that
`dead_task` is an exited task, that an exited task is not current and that
everything runnable owns its directory; that the boot stack is not shared needs
to know how far `main` is. `BootInv` and `TaskInv` state this. `OneRing` is the
heart of it: an enumeration `q` of the ring exists. Linking extends `q` by one
at its end, unlinking closes the gap at the removed position, and both are
lemmas about `IsRing` alone (`next` as a function, no scheduler state).
`LifeCycleKept` is the action property `LifeCycle`, step by step from the same
invariant: what `reap_dead_task` frees is an exited task that is not current,
and unlinking it leaves no pointer to it; what `next_task` picks is runnable.
`SchedulerIsRoundRobin` is `ImplementsRoundRobin` without fairness: every step is a
step of `RoundRobin` or leaves queue, statuses and CPU as they were
(`RoundRobin!Steps`). The proof has three parts.
The loop of `next_task` follows the links, so its walk from any place `k` of the
ring is the enumeration `q` turned by `k` (`WalkRound`); the first task that fits on
that walk is the lowest place behind `k` that fits, or else the lowest of all
(`NextTaskRound`), which is what `Pick` says of a queue (`NextTaskPicks`). Linking
appends to the queue and unlinking removes one place from it (`LinkOrder`,
`UnlinkOrder`): any two enumerations of rings that differ by one link agree
up to it. And each action changes the statuses as its counterpart does, with one
lemma per group of actions (`HiddenSteps`, `AdmitSteps`, `StatusSteps`, `ScheduleStep`,
`BlockStep`, `ExitStep`). A recursive function is unfolded along a least
counterexample (`Climb`), since induction over data is not available.

**`TtyProofs`**: for any size of the ring and any interleaving, characters come
out in order and none twice (`OrderKept`), and none is lost unless the ring was
full (`NothingLost`). The invariant says what each slot holds (`SlotInv`: the
last character pushed with that index), what the reader holds in `c`
(`ReaderInv`) and how far head and tail are apart (`QueueInv`). `LossCounted` adds
that an overrun loses whole turns of the ring: the number of characters lost is
a multiple of its size (`TurnInv`), also while the reader is between reading
`tail` and storing it.

**`HeapProofs`**: for all sizes of heap, header and alignment and all requests,
`HeapAlwaysSound`, `AlwaysCoalesced` and the action property
`OthersAlwaysUntouched`. The invariant says that the blocks are a partition of the
heap in the order of the list (`Tiles`), that no two neighbours are free (`Merged`)
and that callers and blocks in use correspond one to one (`Holds`). `split_block` is
one lemma on a list. `coalesce_free_blocks` needs an induction on the part of the
list that the pass has seen, which is stated as a search for the least prefix
for which the claim fails (`CoalesceMerges`): what is done so far is a merged
partition of the bytes up to there, in which the blocks in use are the
original ones. The list before a `kfree` is merged, but the proof does not use
this: one pass merges any list.

**`VmProofs`**: for all executables, pool sizes and page sizes, `TypeCorrect` and
`AreasNeverOverlap`. `LoaderInv` says which pointers are set at which point of
the loader. The core is `InsertKeepsDisjoint`: in a list that is sorted and
disjoint it is enough that `do_mmap` compares the new area with its two
neighbours, also when `vm_end` wrapped to 0.

On top of that, `Cr3AlwaysValid`, `FilesBalanced` and
`PoolsBalanced`, for every way in which a load, a fault or `execve` fails.
`ResourceInv` is about ownership. `SpaceInv` says which address spaces exist at
which point of the loader, and where `execve` keeps the old one. `OneOwner` says,
of each pool, that what is handed out is in one table and there once; it is
kept by taking an entry that is free, by giving back what one address space
holds, and by nothing else, and these are lemmas about any table. The
equations between cardinalities in `PoolsAccounted` follow from it through a
bijection. `FileInv` says who holds a file: the call that opened it, one address
space, or nobody.

The third part is about what programs see: `ProgramsSeeTheirImage` is `ImageCorrect`
for all executables, sizes and failures. `ImageCorrect` speaks of pages that are
present when the program runs; the invariant gives every address a word
(`Content`): the one in its frame, or the one that the next page fault there
would bring in from the area (`Demand`). `ImageInv` says in these terms that the
program at hand and the one that `execve` may have to come back to are complete
(`RunsImage`, `OldImage`), and how much of the new one is there at each point of the
loader (`LoadedPart`): the segments before the one at hand, of that one the part in
the file or the part up to the zeros, and that `padzero` clears nothing that an
earlier segment shows (`Apart`). Two facts carry it. Frames belong to one page
(`ResourceInv`), so that clearing or filling a frame changes no other address; and a
page fault changes no `Content` at all, which is the theorem `FaultsUnseen`:
demand paging cannot be seen.

**`DiskProofs`**: for all sizes of disk and bounce buffer, all counts and all
behaviours of drive and timeouts, `ReadsCorrect`, `WritesCorrect` and the action
property `NoLateHarm`. Correctness of the call's result is about its end, so
the invariant says what holds in between: which wait the driver is in
(`ControlInv`); that the bus master runs only for the command the driver waits
for, while a command that timed out may last and moves nothing (`DriveInv`);
that nothing overwrites what `disk_write` has put into the buffer (`BufferInv`);
what the transfers so far have achieved (`ProgressInv`). That `status` was read
after the command ended is what makes a success believable: `DriveInv` ties the
two.

The second part is about `Pci`, which finds the controller, for any number of
buses, devices and functions within an address: `FirstControllerUsed` and
the action property `NothingElseChanges`, from `ScanAlwaysHeld`. `ScanHeld` says that
`pci_devices` holds copies of the functions in front of the slot at hand, all of
them, in the order of their addresses, with the registers they still have. That
`pci_addr` keeps slots apart and in order is arithmetic (`Index`); that no function
lies between a slot and the next one visited is the core of the step. The first
entry of the class is then the function with the least address, and the command
word that is written back differs from the register in one bit.

**`FsProofs`**: for every consistent disk, all sizes of blocks, zones, names and
pages, and all paths that stay inside the array, `ReadsReturnFiles` and
`PathsAreFollowed`. The state hardly changes in `Fs`; the proofs are about what its
loops compute, and the invariants (`ReadInv`, `PathInv`) only carry that from the call to
the state behind it: the disk is healthy, the open inode is one of the disk's,
and the last result is what the closed form says.
*Zones*: `Zones` flattens a tree; `ZoneAt` is the same by position, in the three cases
of `map_file_block`, and `WordAt` the word at a position of the file
(`FlattenSeq` of sequences of one length is division and remainder).
*Reading*: `Got` is the closed form of `vfs_read`: all of the words or none. The
loop is followed from its end to its beginning, as a search for the last
position at which the claim fails.
*Directories*: `First` is the closed form of `get_child_inode_num`: the first entry
with the name from a position on. An entry never straddles two pieces, since
positions and blocks are even.
*Paths*: `Progress` says what `split_path` has in its array after `k` characters: the
rows of the names that have ended, and the part of the one it is in. `Match` is
what a row is good for: `name_equal` on it and an entry says whether the entry
has the name; also for a name that ran over its row, which matches nothing. `Way` is the walk
by numbers of inodes, which the loop of `vfs_open` and `Named` both follow.

**`InterruptsProofs`**: for any interval of the scheduler and any exceptions that
programs raise, all six invariants of the module: `AlwaysInterruptible`,
`TrapsHandled`, `EoiForOwnRequest`, `StubsAlwaysBalanced`, `StackDepthBounded` and
`PlacesExclusive`. One invariant implies them all: either code that is no
handler runs and nothing is in service (`InCode`), or one handler runs above
one piece of such code (`InHandler`). Both give the contents of all three
kernel stacks word by word (`Stacks`), as a function of the program counter
that runs or waits, so that an `iret` or a return from `switch_to` is shown
to find its frame. `Others` is about the stacks that are not in use: the idle
task's holds its first switch frame or, once it has been switched away,
the frame of a timer interrupt and a switch frame on it (`IdleFrames`); the boot
stack holds the same (`SwitchedOut`) while a tick inside `enqueue_task` has sent
`main` away, and nothing after `enter_user_task`. `Tasks` says which task is current
in which state and where it was left: while `main` is
switched away `proc1` is `ready`, and `main` stands between the two steps of `enqueue_task`. Gates, handlers
and masks are given by the progress of `main` (`Tables`): a line is masked unless its
handler is registered. That handlers never nest is the step from `InHandler` to
`InHandler`: IF is off until the `iret`, and the code below had it on; a switch
inside a handler goes to code of the same kind, in its own timer interrupt with its
end already sent.

**`ConsoleProofs`**: for every size of screen, whatever is on it at first, and all
texts and numbers, `CursorAlwaysShown` and the refinement `ConsoleImplementsPaper`.
`Good` is the invariant: between two calls the cursor is on the screen and in
the register, and what has scrolled away is whole lines. `PaperOf` is the
refinement mapping as an operator on a console. `PutcTypes` is the step: what
`console_putc` does to any good console is what `Type` does to its paper. Under it
are one lemma for scrolling, which moves the border between the cells above
and the cells on the screen and changes no cell of the strip (`ScrollStrip`), one
for the end of `console_putc`, where the window follows the cursor (`WrapMoves`),
and one for each kind of character. Texts follow by induction on their length:
the two recursions run side by side (`PutsTypes`). That the number functions
print texts of the paper needs that the recursion of `console_put_dec32` ends
(`DigitsExist`).

The second part is the shell, for every array, screen and text:
`CommandsAreLines` and `LineAlwaysShown`. `LineHeld` says that the array starts with the
line as the user edited it, whatever older lines left behind it, so that the
NUL of `Newline` ends the right string. `ScreenHeld` adds the console: `Good`, and the
cells in front of the cursor are prompt and line, and have not left the screen
(`Shown`). A character extends `Shown` by a cell and a backspace shortens it
(`ShownMore` and its counterpart); both go through the lemmas about the strip, so
that wraps and scrolling are dealt with once.

The type invariants of these modules are theorems only, or part of the
inductive invariant, and no run repeats them; the other modules state none
beside their safety properties. Each inductive invariant was first checked with
TLC on the instance of the module's run.

### Only model-checked

Liveness (`NoStarvation`, `DeadTaskReaped`, `KeyIsRead`, `TimeoutReturns`,
`AnswerReturns`, `RequestsServed`) and the fairness in `ImplementsRoundRobin`,
whose steps `SchedulerIsRoundRobin` proves, are outside what the prover supports. `AnswerReturns` and
`TimeoutReturns` would besides need a measure of the polls that are left.

## 5. What reading and checking the code showed

None of these contradicts a statement of the repository, which has no
documentation of behaviour; they are limits of what the properties say.

* `dead_task` is a single slot. When a second task exits before the next
  `schedule()`, the first one's stack and structure stay allocated and linked
  (`exit_task` overwrites the slot). `DeadTaskReaped` is stated with that exception.
* `block_task`, `enqueue_task` and `wake_task` are safe only with interrupts
  off. A timer tick inside `block_task`, between the store of `TASK_BLOCKED` and
  the switch, would make `schedule()` mark the task as ready again.
* The heap is not protected from interrupts: `reap_dead_task` calls `kfree` in
  the timer interrupt, while a preempted system call may be inside `kmalloc`.
  With one task this cannot happen, because nobody is left to be preempted:
  that is `Exclusive`. The same property shows that no page fault starts a
  transfer inside another one, because the kernel touches user memory only
  outside of `disk_read`, and that the console is not entered twice.
* `lock_irqs` masks IRQ 2, the line of the second PIC, and nothing unmasks it:
  `unmask_irq(14)` has no effect, and `ata_irq_handler` never runs. The driver
  polls, so nothing depends on it. `EveryTrapHandled` names vector 46 for the
  case that the line is opened one day; at this commit it is never taken.
* A key that was pressed before `pic_remap` holds its line without a new edge:
  `init_keyboard` does not read port 0x60, and keys would be heard only after
  somebody does. `Interrupts` starts with an empty keyboard buffer.
* An exception without a handler returns to the instruction that raised it,
  for ever; the timer still preempts such a program. A panic of the page fault
  handler spins with IF off, so that not even that remains.
* Between two instructions of a handler ticks are lost when IF is off for more
  than one period: `timer_ticks` then runs late (`RequestsServed` is about requests).
* `main` does not clear the screen: what the boot loader left stays until it
  scrolls away. `console_reset`, `disable_console_cursor` and `mask_irq` beyond
  `lock_irqs` have no callers.
* A backspace cannot go back above the top of the screen, although the line may
  have started there; `Paper` states this as part of the promise.
* The 256th character of a line wraps the shell's counter to 0: the beginning
  is overwritten, a backspace right after it is ignored, and of the line only
  what comes after is run. The counter never leaves the array.
* There is no `fork`: a program takes the shell's place, and after its `_exit`
  only the idle task is left.
* `pci_devices` has 64 places and `scan_pci` no check; `Pci` assumes that they are
  enough (`Present`).
* The push that fills the terminal ring makes it look empty: all its
  characters are lost at once. `LossInWholeTurns` shows that nothing else is.
* `execve` drops the executable's `file_t` without closing it whenever no
  area maps it: a program without file segments, or a call that fails before
  the first one. `FilesAccounted` counts these files as `leaked`.
* A segment that reaches the last page of the address space gets `vm_end` 0 and
  an empty area: its pages fault. `ImageCorrect` leaves such segments out. One
  whose part in the file wraps is accepted too, and `padzero` then clears words at the
  bottom of the address space, which may belong to another segment;
  `ImageCorrect` leaves such executables out (`FilePartsFit`).
* `file_offset` has 32 bits (`fault.c` 88): a segment whose part in the file goes
  past the end of them shows the first words of the file in its later pages.
  `FilePage` has the wrap; `FilePartsFit` leaves such executables out as well.
* A tick in `enqueue_task`, between `set_current_task` and `TASK_RUNNING`, sends
  `main` to sleep until the next `schedule()`; it comes back with its task marked
  running and nothing lost. The boot stack then held two returns, as a kernel
  stack does in a system call that is interrupted: `StackDepth`.
* A page fault that fails inside `execve` (no frame, no table, disk error) ends in
  `page_fault_panic`, not in an error return.
* Disk timeouts count ticks, and ticks stand still in the page fault handler:
  there only the drive ends a wait (`AnswerReturns`), and one that stays busy
  stalls the kernel.
* The end of a flush sets the bus master's interrupt bit, and so may a transfer
  that timed out. What keeps the next transfer from taking that bit for its own
  is the clearing at `disk.c` 118, after the wait for an idle drive.
* `ata_wait4_dma` may report success for a command that failed between its two
  reads; the second look at both registers (139 to 142) catches it.
* A path that does not start with a slash, the empty one too, opens the root
  directory. Of two entries with one name the first counts.
* A file with a hole cannot be read across it: `vfs_read` returns 0 instead of
  zeros. A missing indirect zone is found only because block 0, which is read in
  its place, holds zeros (`Consistent`). A hole in a directory would end the search
  in it like a missing name.
* A read behind the end of a file does not fail: the rest of the file is
  computed modulo 2^32. It returns what lies in the file's own zones behind the
  end (`ReadsReturnTheFile`), never words of another file.
* A name too long for its row of `split_path` matches nothing, since
  `name_equal` compares one character more than an entry has, and the next name
  overwrites what ran into its row.

## 6. What is not modelled

* `Vm`, `Fs` and `Disk` are not composed. `Vm` uses of the file system what
  `fault.c` and `elf.c` rely on and `Fs` shows: a read returns the file's words
  or fails. `Fs` uses of the disk what `Disk` shows: a read returns the block or
  fails.
* Paths with which `split_path` leaves its array (`StaysInside` in `Fs`), machines
  with more than 64 PCI functions, program headers that exceed the kernel
  stack, `set_inode` with a full heap: what happens then depends on the memory
  around, which no module has.
* `gdt.c` and `boot.asm`: tables and registers written once, before anything can
  interrupt.
* The TLB, the kernel's own page mappings, process ids, colors, the shape of the
  cursor, `print_proc1_exec_info`.
* `open`, `close` and `fork` beyond the failure of their system calls: they have no
  handlers.

## 7. Plan

Done: `RoundRobin`, `Sched`, `Tty`, `Heap`, `VmaList`, `Vm`, `Disk`, `Fs`, `Interrupts`,
`Console` with `Paper`, `Shell`, `Pci` and the proofs above, in this order because
the scheduler and `execve` are where most things meet.

Left: `Vm`, `Fs` and `Disk` composed, with the theorems above as the interfaces
between them.
