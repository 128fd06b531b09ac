--------------------------------- MODULE Vm ---------------------------------
(***************************************************************************)
(* The address space of proc1: page directories, page tables and frames    *)
(* (kernel/paging.c, kernel/memory.c), demand paging (kernel/fault.c), the *)
(* loader (kernel/elf.c, padzero of kernel/mmap.c), and the three ways in  *)
(* which an address space comes and goes: enter_proc1 (kernel/main.c),     *)
(* sys_execve (kernel/syscall.c) and exit_task (kernel/sched.c).           *)
(*                                                                         *)
(* proc1 is the only task that has an address space, and nothing here runs *)
(* in an interrupt handler, so the steps are those of one sequential       *)
(* program with its page faults; kmalloc and the disk may fail at every    *)
(* call.  A word of memory is zero, names a word of an executable, or is   *)
(* Stale: whatever was left in a frame by its last owner.  Programs write  *)
(* nothing: what they see is what the kernel put there.                    *)
(***************************************************************************)
EXTENDS VmaList, Integers, FiniteSets

CONSTANTS
  Mm,                  \* places on the kernel heap for a mm_t
  File,                \* places on the kernel heap for a file_t
  Program,             \* executables: name, size of the file, segments
  PAGE_TABLE_ENTRIES,  \* pages per page table
  PD_POOL, PT_POOL, FRAMES,  \* sizes of the pools; frames of the kernel left out
  USER_STACK_BASE,
  Zero, Stale          \* the contents of a word: cleared, or not since its frame was freed

(* The values of a vm_area_t.                                              *)
Vma == [vm_start : Address, vm_end : Address, vm_file : File \cup {NULL}, vm_offset : Address]

ASSUME VmAssumption ==
  /\ PAGE_TABLE_ENTRIES \in Nat \ {0}
  /\ PD_POOL \in Nat /\ PT_POOL \in Nat /\ FRAMES \in Nat
  /\ USER_STACK_BASE \in Address /\ USER_STACK_BASE % PAGE_SIZE = 0
  /\ NULL \notin Mm \cup File \cup Vma

(* The fields of elf32_phdr_t that the loader looks at.                    *)
Phdr == [load : BOOLEAN, vaddr : Address, filesz : Address, memsz : Address, offset : Address]

ASSUME ProgramAssumption ==
  \A p \in Program : p.size \in Address /\ p.segs \in Seq(Phdr)

VARIABLES
  vmas,      \* mm->mmap
  pgd,       \* mm->pgd: the page directory, 0 when the mm_t does not exist
  pt,        \* the page tables in the directory, by index; 0: not present
  pte,       \* the frame of each page; 0: not present
  pd_in_use, pt_in_use, frame_in_use,
  word,      \* the contents of the frames
  cr3,       \* the page directory in use, 0 for that of boot.asm
  task_mm, old_mm,       \* task->mm and the local old_mm of sys_execve
  ref,       \* files: times opened minus times closed
  fprog,     \* files: the executable each was opened on
  file,      \* the local exec_file until its call returns
  seg,       \* the loop index of elf32_load_exec
  pc,        \* where the kernel is
  booting,   \* the loader runs for enter_proc1
  image,     \* history: the executable that runs
  leaked     \* history: files that a call dropped without closing them

space == <<vmas, pgd, pt, pte>>
pools == <<pd_in_use, pt_in_use, frame_in_use>>
files == <<ref, fprog, file, leaked>>
vars == <<space, pools, word, cr3, task_mm, old_mm, files, seg, pc, booting, image>>

Page == 0..((ADDRESS_SPACE \div PAGE_SIZE) - 1)
PageOf(a) == a \div PAGE_SIZE
PdeIndex(p) == p \div PAGE_TABLE_ENTRIES
Pde == {PdeIndex(p) : p \in Page}
Offsets == 0..(PAGE_SIZE - 1)

Init ==
  /\ vmas = [m \in Mm |-> <<>>]
  /\ pgd = [m \in Mm |-> 0]
  /\ pt = [m \in Mm |-> [i \in Pde |-> 0]]
  /\ pte = [m \in Mm |-> [p \in Page |-> 0]]
  /\ pd_in_use = {} /\ pt_in_use = {} /\ frame_in_use = {}
  /\ word = [f \in 1..FRAMES |-> [o \in Offsets |-> Stale]]
  /\ cr3 = 0 /\ task_mm = NULL /\ old_mm = NULL
  /\ ref = [f \in File |-> 0] /\ fprog = [f \in File |-> NULL]
  /\ file = NULL /\ leaked = {}
  /\ seg = 0 /\ pc = "spawn" /\ booting = TRUE /\ image = NULL

----------------------------------------------------------------------------
(* The pools.                                                              *)

(* alloc_pd, alloc_pt and alloc_phys_frame take the first free entry.      *)
Free(used, size) == (1..size) \ used

(* create_task_mm: an empty page directory; the kernel's entries, which    *)
(* every directory shares, are left out.                                   *)
create_task_mm(m) ==
  /\ pgd[m] = 0
  /\ Free(pd_in_use, PD_POOL) # {}
  /\ LET d == Min(Free(pd_in_use, PD_POOL))
     IN  /\ pd_in_use' = pd_in_use \cup {d}
         /\ pgd' = [pgd EXCEPT ![m] = d]

MappedFiles(m) == {v.vm_file : v \in ToSet(vmas[m])} \ {NULL}

(* Mutant of Closes: a file is closed once for each area.                  *)
ClosesPerArea(m, f) == Cardinality({i \in DOMAIN vmas[m] : vmas[m][i].vm_file = f})

(* How often release_mm closes f: vma_file_seen skips all but the first.   *)
Closes(m, f) ==
  Cardinality({i \in DOMAIN vmas[m] :
    vmas[m][i].vm_file = f /\ \A j \in 1..(i - 1) : vmas[m][j].vm_file # f})

(* vfs_close and kfree of the files of the areas; the call that is under   *)
(* way drops its file, which is then nobody's unless an area holds it.     *)
CloseFiles(m) ==
  /\ ref' = [f \in File |-> ref[f] - Closes(m, f)]
  /\ leaked' = leaked \cup ({file} \ (MappedFiles(task_mm) \cup {NULL}))
  /\ fprog' = [f \in File |-> IF ref'[f] = 0 \/ f \in leaked' THEN NULL ELSE fprog[f]]
  /\ file' = NULL

FreeFrames(freed) ==
  /\ frame_in_use' = frame_in_use \ freed
  /\ word' = [f \in 1..FRAMES |-> IF f \in freed THEN [o \in Offsets |-> Stale] ELSE word[f]]

(* Mutant of release_mm: the page tables are not given back.               *)
release_mm_keeps_tables(m) ==
  /\ CloseFiles(m)
  /\ FreeFrames({pte[m][p] : p \in Page})
  /\ pd_in_use' = pd_in_use \ {pgd[m]}
  /\ vmas' = [vmas EXCEPT ![m] = <<>>]
  /\ pgd' = [pgd EXCEPT ![m] = 0]
  /\ pt' = [pt EXCEPT ![m] = [i \in Pde |-> 0]]
  /\ pte' = [pte EXCEPT ![m] = [p \in Page |-> 0]]
  /\ UNCHANGED pt_in_use

(* release_mm: the files of the areas, the areas, the frames of all tables *)
(* that are present, the tables and the directory.                         *)
release_mm(m) ==
  /\ CloseFiles(m)
  /\ FreeFrames({pte[m][p] : p \in {p \in Page : pt[m][PdeIndex(p)] # 0}})
  /\ pt_in_use' = pt_in_use \ {pt[m][i] : i \in Pde}
  /\ pd_in_use' = pd_in_use \ {pgd[m]}
  /\ vmas' = [vmas EXCEPT ![m] = <<>>]
  /\ pgd' = [pgd EXCEPT ![m] = 0]
  /\ pt' = [pt EXCEPT ![m] = [i \in Pde |-> 0]]
  /\ pte' = [pte EXCEPT ![m] = [p \in Page |-> 0]]

----------------------------------------------------------------------------
(* Page faults, of the program or of the loader's memset in padzero.       *)

Segment == fprog[file].segs[seg]
FileEnd == (Segment.vaddr + Segment.filesz) % ADDRESS_SPACE

(* The addresses that may be touched now, as far as not present.           *)
Touched ==
  LET absent == {a \in Address : pte[task_mm][PageOf(a)] = 0}
  IN  CASE pc = "user" -> absent
        [] pc = "zero" /\ FileEnd % PAGE_SIZE # 0 -> {FileEnd} \cap absent
        [] OTHER -> {}

(* Where the page of a is in the file, in 32 bits.                         *)
file_offset(v, a) == (v.vm_offset + (align_down(a) - v.vm_start)) % ADDRESS_SPACE

(* What the handler reads into the page of a: the file from file_offset on *)
(* as far as it goes, on a page that was cleared.                          *)
FilePage(v, a) ==
  LET p == fprog[v.vm_file]
      from == file_offset(v, a)
  IN  [o \in Offsets |-> IF from + o < p.size THEN <<p.name, from + o>> ELSE Zero]

NeedsTable(a) == pt[task_mm][PdeIndex(PageOf(a))] = 0

(* page_fault_handler up to map_page: a frame, and a table if there is     *)
(* none for the page.                                                      *)
HasMemory(a) ==
  /\ find_vma(vmas[task_mm], a) # NULL
  /\ Free(frame_in_use, FRAMES) # {}
  /\ NeedsTable(a) => Free(pt_in_use, PT_POOL) # {}

AllocTable(a) ==
  IF NeedsTable(a)
  THEN LET t == Min(Free(pt_in_use, PT_POOL))
       IN  /\ pt_in_use' = pt_in_use \cup {t}
           /\ pt' = [pt EXCEPT ![task_mm][PdeIndex(PageOf(a))] = t]
  ELSE UNCHANGED <<pt_in_use, pt>>

(* page_fault_handler to its end.                                          *)
PageFault(a) ==
  /\ a \in Touched
  /\ HasMemory(a)
  /\ AllocTable(a)
  /\ LET v == find_vma(vmas[task_mm], a)
         f == Min(Free(frame_in_use, FRAMES))
     IN  /\ frame_in_use' = frame_in_use \cup {f}
         /\ pte' = [pte EXCEPT ![task_mm][PageOf(a)] = f]
         /\ word' = [word EXCEPT ![f] = IF v.vm_file = NULL
                                        THEN [o \in Offsets |-> Zero] ELSE FilePage(v, a)]
  /\ UNCHANGED <<vmas, pgd, pd_in_use, cr3, task_mm, old_mm, files, seg, pc, booting, image>>

(* page_fault_handler when it finds no area, no frame or no table; a frame *)
(* it took before it failed to get a table is given back.  A touch of a    *)
(* page of the kernel (err_code & 1) ends the same way.                    *)
PageFaultPanic(a) ==
  /\ a \in Touched
  /\ ~HasMemory(a)
  /\ pc' = "panic"
  /\ UNCHANGED <<space, pools, word, cr3, task_mm, old_mm, files, seg, booting, image>>

(* page_fault_handler when vfs_read fails: the page is unmapped and its    *)
(* frame freed, a new table stays.                                         *)
PageFaultReadFails(a) ==
  /\ a \in Touched
  /\ HasMemory(a)
  /\ LET v == find_vma(vmas[task_mm], a)
     IN  v.vm_file # NULL /\ file_offset(v, a) < fprog[v.vm_file].size
  /\ AllocTable(a)
  /\ pc' = "panic"
  /\ UNCHANGED <<vmas, pgd, pte, pd_in_use, frame_in_use, word, cr3, task_mm, old_mm, files, seg,
                 booting, image>>

----------------------------------------------------------------------------
(* A new address space.                                                    *)

(* enter_proc1: create_task, enqueue_task; CR3 stays that of boot.asm.     *)
SpawnProc1(m) ==
  /\ pc = "spawn"
  /\ create_task_mm(m)
  /\ task_mm' = m
  /\ pc' = "stack"
  /\ UNCHANGED <<vmas, pt, pte, pt_in_use, frame_in_use, word, cr3, old_mm, files, seg,
                 booting, image>>

(* enter_proc1: vfs_open of the shell.                                     *)
OpenProc1(p, f) ==
  /\ pc = "open"
  /\ ref[f] = 0
  /\ ref' = [ref EXCEPT ![f] = 1]
  /\ fprog' = [fprog EXCEPT ![f] = p]
  /\ file' = f
  /\ pc' = "header"
  /\ UNCHANGED <<space, pools, word, cr3, task_mm, old_mm, leaked, seg, booting, image>>

(* sys_execve: vfs_open.                                                   *)
ExecveOpen(p, f) ==
  /\ pc = "user"
  /\ ref[f] = 0
  /\ ref' = [ref EXCEPT ![f] = 1]
  /\ fprog' = [fprog EXCEPT ![f] = p]
  /\ file' = f
  /\ pc' = "create"
  /\ UNCHANGED <<space, pools, word, cr3, task_mm, old_mm, leaked, seg, booting, image>>

(* sys_execve: no memory for a mm_t, or no page directory.                 *)
ExecveNoMm ==
  /\ pc = "create"
  /\ ref' = [ref EXCEPT ![file] = @ - 1]
  /\ fprog' = [fprog EXCEPT ![file] = NULL]
  /\ file' = NULL
  /\ pc' = "user"
  /\ UNCHANGED <<space, pools, word, cr3, task_mm, old_mm, leaked, seg, booting, image>>

(* sys_execve: create_task_mm and switch_mm.                               *)
ExecveCreate(m) ==
  /\ pc = "create"
  /\ create_task_mm(m)
  /\ old_mm' = task_mm
  /\ task_mm' = m
  /\ cr3' = pgd'[m]
  /\ pc' = "stack"
  /\ UNCHANGED <<vmas, pt, pte, pt_in_use, frame_in_use, word, files, seg, booting, image>>

(* vm_brk_flags(USER_STACK_BASE, PAGE_SIZE), in enter_proc1 and sys_execve. *)
MapStack ==
  /\ pc = "stack"
  /\ \E l \in vm_brk_flags(vmas[task_mm], USER_STACK_BASE, PAGE_SIZE) :
       vmas' = [vmas EXCEPT ![task_mm] = l]
  /\ pc' = IF booting THEN "open" ELSE "header"
  /\ UNCHANGED <<pgd, pt, pte, pools, word, cr3, task_mm, old_mm, files, seg, booting, image>>

----------------------------------------------------------------------------
(* elf32_load_exec.                                                        *)

loader == <<pgd, pt, pte, pools, task_mm, old_mm, files, booting, image>>

(* The file and program headers are read; there is at least one.           *)
ReadHeaders ==
  /\ pc = "header"
  /\ fprog[file].segs # <<>>
  /\ seg' = 1
  /\ pc' = "segment"
  /\ UNCHANGED <<loader, vmas, word, cr3>>

NextSegment == seg' = seg + 1 /\ pc' = "segment"

InLoop == pc = "segment" /\ seg <= Len(fprog[file].segs)

(* Not PT_LOAD, or empty.                                                  *)
SkipSegment ==
  /\ InLoop
  /\ ~Segment.load \/ (Segment.filesz = 0 /\ Segment.memsz = 0)
  /\ NextSegment
  /\ UNCHANGED <<loader, vmas, word, cr3>>

(* Only zeros: vm_brk_flags.                                               *)
MapZeroSegment ==
  /\ InLoop
  /\ Segment.load /\ Segment.filesz = 0 /\ Segment.memsz > 0
  /\ \E l \in vm_brk_flags(vmas[task_mm], Segment.vaddr, Segment.memsz) :
       vmas' = [vmas EXCEPT ![task_mm] = l]
  /\ NextSegment
  /\ UNCHANGED <<loader, word, cr3>>

(* do_mmap of the part that is in the file.                                *)
MapFileSegment ==
  /\ InLoop
  /\ Segment.load /\ Segment.filesz > 0 /\ Segment.memsz >= Segment.filesz
  /\ \E l \in do_mmap(vmas[task_mm], Segment.vaddr, Segment.filesz, file, Segment.offset) :
       vmas' = [vmas EXCEPT ![task_mm] = l]
  /\ pc' = IF Segment.memsz > Segment.filesz THEN "pad" ELSE "brk"
  /\ UNCHANGED <<loader, word, cr3, seg>>

(* padzero: to the task's page directory, if that is not in use.           *)
PadEnter ==
  /\ pc = "pad"
  /\ cr3' = pgd[task_mm]
  /\ pc' = "zero"
  /\ UNCHANGED <<loader, vmas, word, seg>>

(* Mutant of PadZero: the rest of the page keeps what the file has there.  *)
PadNothing ==
  /\ pc = "zero"
  /\ FileEnd % PAGE_SIZE # 0 => pte[task_mm][PageOf(FileEnd)] # 0
  /\ word' = word
  /\ cr3' = IF booting THEN 0 ELSE cr3
  /\ pc' = "brk"
  /\ UNCHANGED <<loader, vmas, seg>>

(* padzero: memset to the end of the page, once the page is there, and     *)
(* back to the page directory that was in use.                             *)
PadZero ==
  /\ pc = "zero"
  /\ FileEnd % PAGE_SIZE # 0 => pte[task_mm][PageOf(FileEnd)] # 0
  /\ word' = IF FileEnd % PAGE_SIZE = 0 THEN word
             ELSE [word EXCEPT ![pte[task_mm][PageOf(FileEnd)]] =
                     [o \in Offsets |-> IF o >= FileEnd % PAGE_SIZE THEN Zero ELSE @[o]]]
  /\ cr3' = IF booting THEN 0 ELSE cr3
  /\ pc' = "brk"
  /\ UNCHANGED <<loader, vmas, seg>>

ZerosStart == align_up(FileEnd)
ZerosEnd == (Segment.vaddr + Segment.memsz) % ADDRESS_SPACE

(* The pages of zeros behind the part that is in the file.                 *)
MapZeros ==
  /\ pc = "brk"
  /\ ZerosEnd > ZerosStart
  /\ \E l \in vm_brk_flags(vmas[task_mm], ZerosStart, ZerosEnd - ZerosStart) :
       vmas' = [vmas EXCEPT ![task_mm] = l]
  /\ NextSegment
  /\ UNCHANGED <<loader, word, cr3>>

NoZeros ==
  /\ pc = "brk"
  /\ ZerosEnd <= ZerosStart
  /\ NextSegment
  /\ UNCHANGED <<loader, vmas, word, cr3>>

(* The calls that may return 0: for want of memory or disk, whatever the   *)
(* executable says, or because of what it says.                            *)
MayFail ==
  \/ pc \in {"spawn", "stack", "open", "header"}
  \/ InLoop /\ Segment.load /\ Segment.memsz > 0
  \/ InLoop /\ Segment.load /\ Segment.memsz < Segment.filesz
  \/ pc = "brk" /\ ZerosEnd > ZerosStart

(* From the program headers on, every error path of elf32_load_exec calls  *)
(* kfree(phdr) on an array that is on the stack.  That overwrites a byte   *)
(* below the array, with no effect or a fatal one.                         *)
FreesStackArray ==
  \/ pc = "header" /\ fprog[file].segs # <<>>
  \/ pc \in {"segment", "brk"}

LoadFails ==
  /\ MayFail
  /\ pc' \in IF booting THEN {"spin"}
             ELSE {"fail"} \cup (IF FreesStackArray THEN {"panic"} ELSE {})
  /\ UNCHANGED <<loader, vmas, word, cr3, seg>>

----------------------------------------------------------------------------
(* The end of the call.                                                    *)

Loaded == pc = "segment" /\ seg > Len(fprog[file].segs)

(* enter_proc1: set_cr3 and enter_user_task.                               *)
EnterProc1 ==
  /\ Loaded /\ booting
  /\ cr3' = pgd[task_mm]
  /\ image' = fprog[file]
  /\ leaked' = leaked \cup ({file} \ MappedFiles(task_mm))
  /\ fprog' = [f \in File |-> IF f \in leaked' THEN NULL ELSE fprog[f]]
  /\ file' = NULL
  /\ seg' = 0
  /\ booting' = FALSE
  /\ pc' = "user"
  /\ UNCHANGED <<space, pools, word, task_mm, old_mm, ref>>

(* sys_execve: the old address space goes, the new program starts.         *)
ExecveDone ==
  /\ Loaded /\ ~booting
  /\ release_mm(old_mm)
  /\ image' = fprog[file]
  /\ old_mm' = NULL
  /\ seg' = 0
  /\ pc' = "user"
  /\ UNCHANGED <<cr3, task_mm, booting>>

(* Mutant of ExecveFailed: CR3 is not switched back.                       *)
ExecveFailedNoSwitch ==
  /\ pc = "fail"
  /\ release_mm(task_mm)
  /\ task_mm' = old_mm
  /\ old_mm' = NULL
  /\ seg' = 0
  /\ pc' = "user"
  /\ UNCHANGED <<cr3, booting, image>>

(* sys_execve: switch_mm back to the old address space, release_mm of the  *)
(* new one, return -1.                                                     *)
ExecveFailed ==
  /\ pc = "fail"
  /\ cr3' = pgd[old_mm]
  /\ release_mm(task_mm)
  /\ task_mm' = old_mm
  /\ old_mm' = NULL
  /\ seg' = 0
  /\ pc' = "user"
  /\ UNCHANGED <<booting, image>>

(* exit_task: CR3 of the idle task, then release_mm.                       *)
Exit ==
  /\ pc = "user"
  /\ cr3' = 0
  /\ release_mm(task_mm)
  /\ task_mm' = NULL
  /\ image' = NULL
  /\ pc' = "exited"
  /\ UNCHANGED <<old_mm, seg, booting>>

(* spin_forever, page_fault_panic, or only the idle task is left.          *)
Stopped ==
  /\ pc \in {"spin", "panic", "exited"}
  /\ UNCHANGED vars

Next ==
  \/ \E a \in Address : PageFault(a)
  \/ \E a \in Address : PageFaultPanic(a)
  \/ \E a \in Address : PageFaultReadFails(a)
  \/ \E m \in Mm : SpawnProc1(m)
  \/ \E p \in Program, f \in File : OpenProc1(p, f)
  \/ \E p \in Program, f \in File : ExecveOpen(p, f)
  \/ ExecveNoMm
  \/ \E m \in Mm : ExecveCreate(m)
  \/ MapStack
  \/ ReadHeaders
  \/ SkipSegment
  \/ MapZeroSegment
  \/ MapFileSegment
  \/ PadEnter
  \/ PadZero
  \/ MapZeros
  \/ NoZeros
  \/ LoadFails
  \/ EnterProc1
  \/ ExecveDone
  \/ ExecveFailed
  \/ Exit
  \/ Stopped

Spec == Init /\ [][Next]_vars
----------------------------------------------------------------------------
(* Properties.                                                             *)

Live == {m \in Mm : pgd[m] # 0}

(* Every variable keeps the values its C declaration allows: the bounds of *)
(* the areas stay 32-bit addresses, the entries of the tables stay inside  *)
(* the pools, the loader is at one of its steps.                           *)
TypeOK ==
  /\ vmas \in [Mm -> Seq(Vma)]
  /\ pgd \in [Mm -> 0..PD_POOL]
  /\ pt \in [Mm -> [Pde -> 0..PT_POOL]]
  /\ pte \in [Mm -> [Page -> 0..FRAMES]]
  /\ pd_in_use \subseteq 1..PD_POOL /\ pt_in_use \subseteq 1..PT_POOL
  /\ frame_in_use \subseteq 1..FRAMES
  /\ DOMAIN word = 1..FRAMES /\ \A f \in 1..FRAMES : DOMAIN word[f] = Offsets
  /\ cr3 \in 0..PD_POOL
  /\ task_mm \in Mm \cup {NULL} /\ old_mm \in Mm \cup {NULL}
  /\ ref \in [File -> Int]
  /\ fprog \in [File -> Program \cup {NULL}]
  /\ file \in File \cup {NULL} /\ leaked \subseteq File
  /\ seg \in Nat
  /\ pc \in {"spawn", "open", "create", "stack", "header", "segment", "pad", "zero", "brk",
             "fail", "user", "panic", "spin", "exited"}
  /\ booting \in BOOLEAN
  /\ image \in Program \cup {NULL}

(* do_mmap checks only the two neighbours of a new area, and still no two  *)
(* areas of an address space ever overlap.                                 *)
AreasDisjoint == \A m \in Mm : Disjoint(vmas[m])

(* Every directory, table and frame that is marked as used is used by      *)
(* exactly one entry of one address space, and the other way round: faults *)
(* that fail half way, failed loads and releases lose and share nothing.   *)
PoolsAccounted ==
  LET tables == {x \in Mm \X Pde : pt[x[1]][x[2]] # 0}
      pages == {x \in Mm \X Page : pte[x[1]][x[2]] # 0}
  IN  /\ pd_in_use = {pgd[m] : m \in Live}
      /\ Cardinality(pd_in_use) = Cardinality(Live)
      /\ pt_in_use = {pt[x[1]][x[2]] : x \in tables}
      /\ Cardinality(pt_in_use) = Cardinality(tables)
      /\ frame_in_use = {pte[x[1]][x[2]] : x \in pages}
      /\ Cardinality(frame_in_use) = Cardinality(pages)
      /\ \A x \in pages : pt[x[1]][PdeIndex(x[2])] # 0

(* A file is open exactly while an area of an address space refers to it,  *)
(* or the call that opened it is under way, or that call dropped it: no    *)
(* file is closed twice or under an area that still needs it.              *)
FilesAccounted ==
  \A f \in File :
    ref[f] = IF f \in leaked \cup {file} \cup UNION {MappedFiles(m) : m \in Mm}
             THEN 1 ELSE 0

(* CR3 never names a page directory that was given back, and in user mode  *)
(* it is the one of the task; only the loader at boot works beside it.     *)
Cr3Valid ==
  /\ cr3 \in pd_in_use \cup {0}
  /\ task_mm # NULL => task_mm \in Live /\ (~booting => cr3 = pgd[task_mm])
  /\ pc = "user" => Live = {task_mm}

(* What a segment means: its part in the file, zeros behind it.            *)
SegmentWord(p, s, i) ==
  IF i < s.filesz /\ s.offset + i < p.size THEN <<p.name, s.offset + i>> ELSE Zero

(* A segment whose pages end before the top of the address space: at the   *)
(* top the end of the area wraps to 0 and the area is empty.               *)
BelowTop(s) == s.load /\ align_down(s.vaddr + s.memsz + PAGE_SIZE - 1) < ADDRESS_SPACE

(* Executables none of whose segments wraps with its part in the file, in  *)
(* memory or in the file: in memory padzero would clear words at the       *)
(* bottom of the address space, whatever is mapped there; in the file the  *)
(* 32 bits of file_offset would wrap to its first words.                   *)
FilePartsFit(p) ==
  \A k \in DOMAIN p.segs :
    LET s == p.segs[k]
    IN  s.load => s.vaddr + s.filesz <= ADDRESS_SPACE /\ s.offset + s.filesz <= ADDRESS_SPACE

(* A program sees its image and nothing else: every word of every segment  *)
(* is in an area, and where its page is present it holds what the segment  *)
(* says, whatever was loaded, failed to load, or used the frame before.    *)
ImageCorrect ==
  pc = "user" /\ FilePartsFit(image) =>
    \A k \in DOMAIN image.segs : BelowTop(image.segs[k]) =>
      LET s == image.segs[k]
      IN  \A i \in 0..(s.memsz - 1) :
            LET a == s.vaddr + i
                f == pte[task_mm][PageOf(a)]
            IN  /\ find_vma(vmas[task_mm], a) # NULL
                /\ f # 0 => word[f][a % PAGE_SIZE] = SegmentWord(image, s, i)
=============================================================================
