------------------------------ MODULE VmProofs ------------------------------
(***************************************************************************)
(* Proofs about Vm, for every executable, every page size, every number of *)
(* address spaces and files and every size of the pools, in three parts    *)
(* that rest on one another:                                               *)
(*   - the type invariant, and that areas never overlap;                   *)
(*   - page directories, page tables, frames and files each have exactly   *)
(*     one owner, and CR3 always names a directory that is in use;         *)
(*   - a program sees its image and nothing else.                          *)
(***************************************************************************)
EXTENDS Vm, FiniteSetTheorems, SequenceTheorems, FunctionTheorems, WellFoundedInduction, TLAPS

----------------------------------------------------------------------------
(* Numbers and sequences.                                                  *)

(* A nonempty set of numbers has a minimum, which is in the set: what      *)
(* alloc_pd, alloc_pt and alloc_phys_frame find is an entry of the pool.   *)
LEMMA MinInSet ==
  ASSUME NEW S \in SUBSET Nat, S # {}
  PROVE  Min(S) \in S
<1>1. IsWellFoundedOn(OpToRel(<, Nat), Nat)
  BY NatLessThanWellFounded
<1>2. PICK x \in S : \A y \in S : ~(<<y, x>> \in OpToRel(<, Nat))
  BY <1>1, WFMin
<1>3. \A y \in S : ~(y < x)
  BY <1>2 DEF OpToRel
<1>4. \A y \in S : x =< y
  BY <1>3
<1> QED
  BY <1>4 DEF Min

(* align_down and align_up of mmap.c stay inside the address space.        *)
LEMMA AlignType ==
  /\ \A a \in Address : align_down(a) \in Address /\ align_down(a) <= a
  /\ \A a \in Nat : align_up(a) \in Address
<1>1. ASSUME NEW a \in Address
      PROVE  align_down(a) \in Address /\ align_down(a) <= a
  <2>1. a \in Nat /\ PAGE_SIZE \in Nat \ {0} /\ ADDRESS_SPACE \in Nat \ {0}
    BY VmaAssumption DEF Address
  <2>2. a % PAGE_SIZE \in Nat /\ a % PAGE_SIZE <= a
    BY <2>1
  <2> QED
    BY <2>1, <2>2 DEF align_down, Address
<1>2. ASSUME NEW a \in Nat
      PROVE  align_up(a) \in Address
  <2>1. (a + PAGE_SIZE - 1) % ADDRESS_SPACE \in Address
    BY VmaAssumption DEF Address
  <2> QED
    BY <2>1, <1>1 DEF align_up
<1> QED
  BY <1>1, <1>2

(* InsertAt puts one entry in front of position k and keeps the others.    *)
LEMMA InsertAtSeq ==
  ASSUME NEW S, NEW l \in Seq(S), NEW v \in S, NEW k \in 1..(Len(l) + 1)
  PROVE  /\ InsertAt(l, k, v) \in Seq(S)
         /\ Len(InsertAt(l, k, v)) = Len(l) + 1
         /\ \A i \in 1..(Len(l) + 1) :
              InsertAt(l, k, v)[i] = IF i < k THEN l[i] ELSE IF i = k THEN v ELSE l[i - 1]
<1> DEFINE a == SubSeq(l, 1, k - 1)
           b == SubSeq(l, k, Len(l))
<1>1. Len(l) \in Nat /\ k \in Nat
  OBVIOUS
<1>2. /\ a \in Seq(S) /\ Len(a) = k - 1
      /\ \A i \in 1..(k - 1) : a[i] = l[i]
  BY <1>1
<1>3. /\ b \in Seq(S) /\ Len(b) = Len(l) - k + 1
      /\ \A i \in 1..(Len(l) - k + 1) : b[i] = l[k + i - 1]
  BY <1>1
<1>4. /\ a \o <<v>> \in Seq(S) /\ Len(a \o <<v>>) = k
      /\ \A i \in 1..k : (a \o <<v>>)[i] = IF i < k THEN l[i] ELSE v
  <2> HIDE DEF a
  <2> QED BY <1>1, <1>2
<1>5. /\ (a \o <<v>>) \o b \in Seq(S) /\ Len((a \o <<v>>) \o b) = Len(l) + 1
      /\ \A i \in 1..(Len(l) + 1) : ((a \o <<v>>) \o b)[i] =
            IF i < k THEN l[i] ELSE IF i = k THEN v ELSE l[i - 1]
  <2> DEFINE c == a \o <<v>>
  <2>1. /\ c \in Seq(S) /\ Len(c) = k
        /\ \A i \in 1..k : c[i] = IF i < k THEN l[i] ELSE v
    BY <1>4
  <2> DEFINE d == c \o b
  <2> HIDE DEF a, b, c
  <2>c. /\ d \in Seq(S) /\ Len(d) = Len(c) + Len(b)
        /\ \A i \in 1..(Len(c) + Len(b)) :
             d[i] = IF i <= Len(c) THEN c[i] ELSE b[i - Len(c)]
    BY <1>3, <2>1, ConcatProperties
  <2> HIDE DEF d
  <2>2. d \in Seq(S) /\ Len(d) = Len(l) + 1
    BY <1>1, <1>3, <2>1, <2>c
  <2>3. ASSUME NEW i \in 1..(Len(l) + 1)
        PROVE  d[i] = IF i < k THEN l[i] ELSE IF i = k THEN v ELSE l[i - 1]
    <3>1. CASE i <= k
      BY <1>1, <1>3, <2>1, <2>c, <3>1
    <3>2. CASE i > k
      <4>1. i - k \in 1..(Len(l) - k + 1) /\ d[i] = b[i - k]
        <5>1. Len(c) = k /\ Len(b) = Len(l) - k + 1
          BY <1>3, <2>1
        <5>2. i \in 1..(Len(c) + Len(b)) /\ ~(i <= Len(c)) /\ i - k \in 1..(Len(l) - k + 1)
          BY <1>1, <3>2, <5>1
        <5> QED BY <2>c, <5>1, <5>2
      <4>2. b[i - k] = l[k + (i - k) - 1]
        BY <1>3, <4>1
      <4>3. k + (i - k) - 1 = i - 1 /\ ~(i < k) /\ i # k
        BY <1>1, <3>2
      <4>4. b[i - k] = l[i - 1]
        BY <4>2, <4>3
      <4> QED BY <4>1, <4>3, <4>4
    <3> QED BY <1>1, <3>1, <3>2
  <2> QED BY <2>2, <2>3 DEF c, d
<1> QED
  BY <1>5 DEF InsertAt

----------------------------------------------------------------------------
(* do_mmap.                                                                *)

(* The check of the two neighbours in do_mmap is enough: the new list is   *)
(* sorted and no two of its areas overlap.                                 *)
LEMMA InsertKeepsDisjoint ==
  ASSUME NEW l \in Seq(Vma), Disjoint(l), NEW v \in Vma, NEW k \in 1..(Len(l) + 1),
         StopsAt(l, v, k), ~Overlaps(l, v, k)
  PROVE  InsertAt(l, k, v) \in Seq(Vma) /\ Disjoint(InsertAt(l, k, v))
<1> DEFINE r == InsertAt(l, k, v)
<1>1. /\ r \in Seq(Vma) /\ Len(r) = Len(l) + 1
      /\ \A i \in 1..(Len(l) + 1) :
           r[i] = IF i < k THEN l[i] ELSE IF i = k THEN v ELSE l[i - 1]
  <2>1. /\ InsertAt(l, k, v) \in Seq(Vma)
        /\ Len(InsertAt(l, k, v)) = Len(l) + 1
    BY InsertAtSeq
  <2>2. ASSUME NEW i \in 1..(Len(l) + 1)
        PROVE  InsertAt(l, k, v)[i] = IF i < k THEN l[i] ELSE IF i = k THEN v ELSE l[i - 1]
    BY InsertAtSeq
  <2> QED BY <2>1, <2>2
<1> HIDE DEF r
<1>2. Len(l) \in Nat /\ k \in Nat /\ k >= 1 /\ k <= Len(l) + 1
  OBVIOUS
<1>3. /\ \A i \in 1..Len(l) : l[i].vm_start \in Nat /\ l[i].vm_end \in Nat
      /\ v.vm_start \in Nat /\ v.vm_end \in Nat
  <2>1. \A w \in Vma : w.vm_start \in Nat /\ w.vm_end \in Nat
    BY DEF Vma, Address
  <2>2. \A i \in 1..Len(l) : l[i] \in Vma
    OBVIOUS
  <2> QED BY <2>1, <2>2
<1>4. \A i, j \in 1..Len(l) : i < j =>
        l[i].vm_end <= l[j].vm_start /\ l[i].vm_start <= l[j].vm_start
  BY DEF Disjoint
<1>5. \A i \in 1..(k - 1) : l[i].vm_start < v.vm_start /\ l[i].vm_end <= v.vm_start
  <2> SUFFICES ASSUME NEW i \in 1..(k - 1)
               PROVE  l[i].vm_start < v.vm_start /\ l[i].vm_end <= v.vm_start
    OBVIOUS
  <2>1. k - 1 \in 1..Len(l) /\ i \in 1..Len(l)
    BY <1>2
  <2>2. l[i].vm_start < v.vm_start /\ l[k - 1].vm_start < v.vm_start
    BY <1>2, <2>1 DEF StopsAt
  <2>3. l[k - 1].vm_end <= v.vm_start
    BY <1>2, <1>3, <2>1 DEF Overlaps
  <2>4. CASE i = k - 1
    BY <2>2, <2>3, <2>4
  <2>5. CASE i < k - 1
    <3>1. l[i].vm_end <= l[k - 1].vm_start
      BY <1>4, <2>1, <2>5
    <3> QED BY <1>3, <2>1, <2>2, <3>1
  <2> QED BY <1>2, <2>4, <2>5
<1>6. \A j \in k..Len(l) : v.vm_end <= l[j].vm_start /\ v.vm_start <= l[j].vm_start
  <2> SUFFICES ASSUME NEW j \in k..Len(l)
               PROVE  v.vm_end <= l[j].vm_start /\ v.vm_start <= l[j].vm_start
    OBVIOUS
  <2>1. k \in 1..Len(l) /\ j \in 1..Len(l)
    BY <1>2
  <2>2. v.vm_start <= l[k].vm_start /\ v.vm_end <= l[k].vm_start
    BY <1>2, <1>3, <2>1 DEF StopsAt, Overlaps
  <2>3. l[k].vm_start <= l[j].vm_start
    BY <1>3, <1>4, <2>1
  <2> QED BY <1>3, <2>1, <2>2, <2>3
<1>7. ASSUME NEW i \in 1..Len(r), NEW j \in 1..Len(r), i < j
      PROVE  r[i].vm_end <= r[j].vm_start /\ r[i].vm_start <= r[j].vm_start
  <2>1. i \in 1..(Len(l) + 1) /\ j \in 1..(Len(l) + 1)
    BY <1>1
  <2>2. CASE j < k
    <3>1. r[i] = l[i] /\ r[j] = l[j] /\ i \in 1..Len(l) /\ j \in 1..Len(l)
      BY <1>1, <1>2, <1>7, <2>1, <2>2
    <3> QED BY <1>4, <1>7, <3>1
  <2>3. CASE j = k
    <3>1. r[i] = l[i] /\ r[j] = v /\ i \in 1..(k - 1)
      BY <1>1, <1>2, <1>7, <2>1, <2>3
    <3>2. l[i].vm_start < v.vm_start /\ l[i].vm_end <= v.vm_start /\ i \in 1..Len(l)
      BY <1>2, <1>5, <3>1
    <3> QED BY <1>3, <3>1, <3>2
  <2>4. CASE i = k
    <3>1. r[i] = v /\ r[j] = l[j - 1] /\ j - 1 \in k..Len(l)
      BY <1>1, <1>2, <1>7, <2>1, <2>4
    <3> QED BY <1>6, <3>1
  <2>5. CASE i > k
    <3>1. r[i] = l[i - 1] /\ r[j] = l[j - 1] /\ i - 1 \in 1..Len(l) /\ j - 1 \in 1..Len(l)
      BY <1>1, <1>2, <1>7, <2>1, <2>5
    <3> QED BY <1>4, <1>7, <3>1
  <2>6. CASE i < k /\ j > k
    <3>1. r[i] = l[i] /\ r[j] = l[j - 1] /\ i \in 1..Len(l) /\ j - 1 \in 1..Len(l) /\ i < j - 1
      BY <1>1, <1>2, <1>7, <2>1, <2>6
    <3> QED BY <1>4, <3>1
  <2> QED BY <1>2, <2>1, <2>2, <2>3, <2>4, <2>5, <2>6
<1> QED
  BY <1>1, <1>7 DEF r, Disjoint

(* What do_mmap fills in is an area of the address space, once it has      *)
(* refused an offset that the alignment would make negative.               *)
LEMMA NewVmaType ==
  ASSUME NEW addr \in Address, NEW length \in Nat, NEW f \in File \cup {NULL},
         NEW offset \in Address, f # NULL => offset >= addr - align_down(addr)
  PROVE  NewVma(addr, length, f, offset) \in Vma
<1>1. align_down(addr) \in Address /\ align_down(addr) <= addr
  BY AlignType
<1>2. (addr + length) % ADDRESS_SPACE \in Nat
  BY VmaAssumption DEF Address
<1>3. align_up((addr + length) % ADDRESS_SPACE) \in Address
  BY <1>2, AlignType
<1>4. f # NULL => offset - (addr - align_down(addr)) \in Address
  <2> DEFINE d == align_down(addr)
  <2>1. f # NULL => offset >= addr - d
    OBVIOUS
  <2>2. d \in Nat /\ d <= addr /\ addr \in Nat /\ offset \in Nat
    BY <1>1 DEF Address
  <2> HIDE DEF d
  <2>3. f # NULL => offset - (addr - d) \in Nat /\ offset - (addr - d) <= offset
    BY <2>1, <2>2
  <2>4. \A x \in Nat : x <= offset => x \in Address
    BY VmaAssumption DEF Address
  <2>5. f # NULL => offset - (addr - d) \in Address
    BY <2>3, <2>4
  <2> QED BY <2>5 DEF d
<1>5. 0 \in Address
  BY VmaAssumption DEF Address
<1> QED BY <1>1, <1>3, <1>4, <1>5 DEF NewVma, Vma

(* do_mmap turns a list of disjoint areas into a list of disjoint areas.   *)
LEMMA MmapKeepsDisjoint ==
  ASSUME NEW l \in Seq(Vma), Disjoint(l),
         NEW addr \in Address, NEW length \in Nat, NEW f \in File \cup {NULL},
         NEW offset \in Address, NEW r \in do_mmap(l, addr, length, f, offset)
  PROVE  r \in Seq(Vma) /\ Disjoint(r)
<1> DEFINE v == NewVma(addr, length, f, offset)
<1>1. PICK k \in 1..(Len(l) + 1) :
        /\ r = InsertAt(l, k, v)
        /\ f # NULL => offset >= addr - align_down(addr)
        /\ StopsAt(l, v, k)
        /\ ~Overlaps(l, v, k)
  BY DEF do_mmap
<1>2. v \in Vma
  BY <1>1, NewVmaType
<1> HIDE DEF v
<1> QED
  BY <1>1, <1>2, InsertKeepsDisjoint

----------------------------------------------------------------------------
(* The inductive invariant.                                                *)

(* What the loader and sys_execve rely on at each of their steps: the task *)
(* has its address space, the old one is kept until the call is decided,   *)
(* and the open file is an executable with the segment at hand.            *)
LoaderInv ==
  /\ pc \in {"spawn", "open"} => booting
  /\ pc = "fail" => ~booting
  /\ pc \notin {"spawn", "panic", "spin", "exited"} => task_mm \in Mm
  /\ pc \in {"stack", "header", "segment", "pad", "zero", "brk", "fail"} /\ ~booting =>
       old_mm \in Mm
  /\ pc \in {"create", "header", "segment", "pad", "zero", "brk"}
       \/ (pc = "stack" /\ ~booting) =>
       file \in File /\ fprog[file] \in Program
  /\ pc = "segment" => seg # 0
  /\ pc \in {"pad", "zero", "brk"} => seg \in 1..Len(fprog[file].segs)

Inv == TypeOK /\ AreasDisjoint /\ LoaderInv

(* The kernel starts in the address space of boot.asm with empty pools.    *)
LEMMA InitInv == Init => Inv
<1> SUFFICES ASSUME Init PROVE Inv
  OBVIOUS
<1>1. TypeOK
  BY VmAssumption DEF Init, TypeOK
<1>2. AreasDisjoint
  BY DEF Init, AreasDisjoint, Disjoint
<1>3. LoaderInv
  BY DEF Init, LoaderInv
<1> QED BY <1>1, <1>2, <1>3 DEF Inv

(* A step of do_mmap keeps the areas of all address spaces disjoint.       *)
LEMMA MapStep ==
  ASSUME Inv, NEW addr \in Address, NEW length \in Nat, NEW f \in File \cup {NULL},
         NEW offset \in Address, task_mm \in Mm,
         NEW l \in do_mmap(vmas[task_mm], addr, length, f, offset),
         vmas' = [vmas EXCEPT ![task_mm] = l]
  PROVE  vmas' \in [Mm -> Seq(Vma)] /\ AreasDisjoint'
<1>1. vmas[task_mm] \in Seq(Vma) /\ Disjoint(vmas[task_mm])
  BY DEF Inv, TypeOK, AreasDisjoint
<1>2. l \in Seq(Vma) /\ Disjoint(l)
  BY <1>1, MmapKeepsDisjoint
<1>3. vmas \in [Mm -> Seq(Vma)] /\ \A m \in Mm : Disjoint(vmas[m])
  BY DEF Inv, TypeOK, AreasDisjoint
<1>4. \A m \in Mm : vmas'[m] = IF m = task_mm THEN l ELSE vmas[m]
  BY <1>3
<1>5. vmas' \in [Mm -> Seq(Vma)]
  BY <1>2, <1>3
<1>6. \A m \in Mm : Disjoint(vmas'[m])
  BY <1>2, <1>3, <1>4
<1>7. \A m \in Mm : Disjoint(vmas[m])'
  BY <1>6 DEF Disjoint
<1> QED BY <1>5, <1>7 DEF AreasDisjoint

(* release_mm gives back memory and files and leaves the rest well typed.  *)
LEMMA ReleaseStep ==
  ASSUME Inv, NEW m \in Mm, release_mm(m)
  PROVE  /\ vmas' \in [Mm -> Seq(Vma)] /\ AreasDisjoint'
         /\ pgd' \in [Mm -> 0..PD_POOL]
         /\ pt' \in [Mm -> [Pde -> 0..PT_POOL]]
         /\ pte' \in [Mm -> [Page -> 0..FRAMES]]
         /\ pd_in_use' \subseteq 1..PD_POOL /\ pt_in_use' \subseteq 1..PT_POOL
         /\ frame_in_use' \subseteq 1..FRAMES
         /\ DOMAIN word' = 1..FRAMES /\ \A f \in 1..FRAMES : DOMAIN word'[f] = Offsets
         /\ ref' \in [File -> Int]
         /\ fprog' \in [File -> Program \cup {NULL}]
         /\ file' = NULL /\ leaked' \subseteq File
<1>1. TypeOK /\ AreasDisjoint
  BY DEF Inv
<1>2. /\ vmas' = [vmas EXCEPT ![m] = <<>>]
      /\ pgd' = [pgd EXCEPT ![m] = 0]
      /\ pt' = [pt EXCEPT ![m] = [i \in Pde |-> 0]]
      /\ pte' = [pte EXCEPT ![m] = [p \in Page |-> 0]]
      /\ pd_in_use' \subseteq pd_in_use /\ pt_in_use' \subseteq pt_in_use
      /\ frame_in_use' \subseteq frame_in_use
      /\ CloseFiles(m)
  BY DEF release_mm, FreeFrames
<1>3. vmas' \in [Mm -> Seq(Vma)] /\ \A n \in Mm : Disjoint(vmas'[n])
  <2>1. <<>> \in Seq(Vma) /\ Disjoint(<<>>)
    BY DEF Disjoint
  <2>2. vmas \in [Mm -> Seq(Vma)] /\ \A n \in Mm : Disjoint(vmas[n])
    BY <1>1 DEF TypeOK, AreasDisjoint
  <2>3. \A n \in Mm : vmas'[n] = IF n = m THEN <<>> ELSE vmas[n]
    BY <1>2, <2>2
  <2>4. vmas' \in [Mm -> Seq(Vma)]
    BY <1>2, <2>1, <2>2
  <2> QED BY <2>1, <2>2, <2>3, <2>4
<1>4. AreasDisjoint'
  BY <1>3 DEF AreasDisjoint, Disjoint
<1>5. /\ pgd' \in [Mm -> 0..PD_POOL]
      /\ pt' \in [Mm -> [Pde -> 0..PT_POOL]]
      /\ pte' \in [Mm -> [Page -> 0..FRAMES]]
  BY <1>1, <1>2, VmAssumption DEF TypeOK
<1>6. /\ pd_in_use' \subseteq 1..PD_POOL /\ pt_in_use' \subseteq 1..PT_POOL
      /\ frame_in_use' \subseteq 1..FRAMES
  BY <1>1, <1>2 DEF TypeOK
<1>7. DOMAIN word' = 1..FRAMES /\ \A f \in 1..FRAMES : DOMAIN word'[f] = Offsets
  BY <1>1 DEF TypeOK, release_mm, FreeFrames
<1>8. \A f \in File : Closes(m, f) \in Nat
  <2> SUFFICES ASSUME NEW f \in File PROVE Closes(m, f) \in Nat
    OBVIOUS
  <2> DEFINE C == {i \in DOMAIN vmas[m] :
               vmas[m][i].vm_file = f /\ \A j \in 1..(i - 1) : vmas[m][j].vm_file # f}
  <2>1. vmas[m] \in Seq(Vma) /\ Len(vmas[m]) \in Nat /\ DOMAIN vmas[m] = 1..Len(vmas[m])
    BY <1>1 DEF TypeOK
  <2>2. C \in SUBSET (1..Len(vmas[m]))
    BY <2>1
  <2>3. IsFiniteSet(1..Len(vmas[m]))
    BY <2>1, FS_Interval
  <2>4. IsFiniteSet(C)
    BY <2>2, <2>3, FS_Subset
  <2>5. Cardinality(C) \in Nat
    BY <2>4, FS_CardinalityType
  <2> QED BY <2>5 DEF Closes
<1>9. ref' \in [File -> Int]
  BY <1>1, <1>2, <1>8 DEF TypeOK, CloseFiles
<1>10. leaked' \subseteq File
  BY <1>1, <1>2 DEF TypeOK, CloseFiles
<1>11. fprog' \in [File -> Program \cup {NULL}] /\ file' = NULL
  BY <1>1, <1>2 DEF TypeOK, CloseFiles
<1> QED BY <1>3, <1>4, <1>5, <1>6, <1>7, <1>9, <1>10, <1>11


(* Areas that nobody touches stay disjoint.                                *)
LEMMA AreasUnchanged ==
  ASSUME Inv, UNCHANGED vmas
  PROVE  AreasDisjoint'
<1>1. \A m \in Mm : Disjoint(vmas[m])
  BY DEF Inv, AreasDisjoint
<1> QED BY <1>1 DEF AreasDisjoint, Disjoint

(* The segment at hand has addresses and sizes of the address space.       *)
LEMMA SegmentType ==
  ASSUME Inv, pc \in {"segment", "pad", "zero", "brk"}, seg <= Len(fprog[file].segs)
  PROVE  Segment \in Phdr /\ seg \in 1..Len(fprog[file].segs)
<1>1. file \in File /\ fprog[file] \in Program /\ seg \in Nat
  BY DEF Inv, LoaderInv, TypeOK
<1>2. fprog[file].segs \in Seq(Phdr) /\ Len(fprog[file].segs) \in Nat
  BY <1>1, ProgramAssumption
<1>3. seg # 0
  BY <1>1, <1>2 DEF Inv, LoaderInv
<1>4. seg \in 1..Len(fprog[file].segs)
  BY <1>1, <1>2, <1>3
<1> QED BY <1>2, <1>4 DEF Segment

(* A page fault: the frame and the table come from their pools.            *)
LEMMA PageFaultInv ==
  ASSUME Inv, NEW a \in Address, PageFault(a)
  PROVE  Inv'
<1> DEFINE F == Free(frame_in_use, FRAMES)
           T == Free(pt_in_use, PT_POOL)
<1>1. TypeOK /\ LoaderInv
  BY DEF Inv
<1>2. F # {} /\ Min(F) \in 1..FRAMES
  <2>1. F \in SUBSET Nat /\ F # {}
    BY VmAssumption DEF PageFault, HasMemory, Free
  <2>2. Min(F) \in F
    BY <2>1, MinInSet
  <2> QED BY <2>1, <2>2 DEF Free
<1>3. /\ pt_in_use' \subseteq 1..PT_POOL
      /\ pt' \in [Mm -> [Pde -> 0..PT_POOL]]
  <2>1. CASE NeedsTable(a)
    <3>1. T \in SUBSET Nat /\ T # {}
      BY <2>1, VmAssumption DEF PageFault, HasMemory, Free
    <3>2. Min(T) \in T
      BY <3>1, MinInSet
    <3>3. Min(T) \in 1..PT_POOL /\ Min(T) \in 0..PT_POOL
      BY <3>2, VmAssumption DEF Free
    <3>4. /\ pt_in_use' = pt_in_use \cup {Min(T)}
          /\ pt' = [pt EXCEPT ![task_mm][PdeIndex(PageOf(a))] = Min(T)]
      BY <2>1 DEF PageFault, AllocTable
    <3> HIDE DEF T
    <3> QED BY <1>1, <3>3, <3>4 DEF TypeOK
  <2>2. CASE ~NeedsTable(a)
    BY <1>1, <2>2 DEF TypeOK, PageFault, AllocTable
  <2> QED BY <2>1, <2>2
<1>4. /\ frame_in_use' = frame_in_use \cup {Min(F)}
      /\ pte' = [pte EXCEPT ![task_mm][PageOf(a)] = Min(F)]
  BY DEF PageFault
<1>5. DOMAIN word' = 1..FRAMES /\ \A f \in 1..FRAMES : DOMAIN word'[f] = Offsets
  <2>1. DOMAIN word = 1..FRAMES /\ \A f \in 1..FRAMES : DOMAIN word[f] = Offsets
    BY <1>1 DEF TypeOK
  <2> DEFINE v == find_vma(vmas[task_mm], a)
             w == IF v.vm_file = NULL THEN [o \in Offsets |-> Zero] ELSE FilePage(v, a)
  <2>2. word' = [word EXCEPT ![Min(F)] = w]
    BY DEF PageFault
  <2>3. DOMAIN w = Offsets
    BY DEF FilePage, file_offset
  <2> HIDE DEF F, w
  <2> QED BY <2>1, <2>2, <2>3
<1>6. UNCHANGED <<vmas, pgd, pd_in_use, cr3, task_mm, old_mm, ref, fprog, file, leaked, seg, pc,
                  booting, image>>
  BY DEF PageFault, files
<1> HIDE DEF F
<1>7. frame_in_use' \subseteq 1..FRAMES /\ pte' \in [Mm -> [Page -> 0..FRAMES]]
  <2>1. frame_in_use \subseteq 1..FRAMES /\ pte \in [Mm -> [Page -> 0..FRAMES]]
    BY <1>1 DEF TypeOK
  <2>2. Min(F) \in 0..FRAMES
    BY <1>2, VmAssumption
  <2>3. frame_in_use' \subseteq 1..FRAMES
    BY <1>2, <1>4, <2>1
  <2>4. pte' \in [Mm -> [Page -> 0..FRAMES]]
    BY <1>4, <2>1, <2>2
  <2> QED BY <2>3, <2>4
<1>8. TypeOK'
  BY <1>1, <1>3, <1>5, <1>6, <1>7 DEF TypeOK
<1>9. LoaderInv'
  BY <1>1, <1>6 DEF LoaderInv
<1>10. AreasDisjoint'
  BY <1>6, AreasUnchanged
<1> QED BY <1>8, <1>9, <1>10 DEF Inv

(* A page fault that ends in page_fault_panic.                             *)
LEMMA PanicInv ==
  ASSUME Inv, NEW a \in Address, PageFaultPanic(a) \/ PageFaultReadFails(a)
  PROVE  Inv'
<1>1. TypeOK
  BY DEF Inv
<1>2. CASE PageFaultPanic(a)
  <2>1. TypeOK'
    BY <1>1, <1>2 DEF TypeOK, PageFaultPanic, space, pools, files
  <2>2. LoaderInv'
    BY <1>2 DEF LoaderInv, PageFaultPanic
  <2>3. AreasDisjoint'
    BY <1>2, AreasUnchanged DEF PageFaultPanic, space
  <2> QED BY <2>1, <2>2, <2>3 DEF Inv
<1>3. CASE PageFaultReadFails(a)
  <2> DEFINE T == Free(pt_in_use, PT_POOL)
  <2>1. /\ pt_in_use' \subseteq 1..PT_POOL
        /\ pt' \in [Mm -> [Pde -> 0..PT_POOL]]
    <3>1. CASE NeedsTable(a)
      <4>1. T \in SUBSET Nat /\ T # {}
        BY <1>3, <3>1, VmAssumption DEF PageFaultReadFails, HasMemory, Free
      <4>2. Min(T) \in T
        BY <4>1, MinInSet
      <4>3. Min(T) \in 1..PT_POOL /\ Min(T) \in 0..PT_POOL
        BY <4>2, VmAssumption DEF Free
      <4>4. /\ pt_in_use' = pt_in_use \cup {Min(T)}
            /\ pt' = [pt EXCEPT ![task_mm][PdeIndex(PageOf(a))] = Min(T)]
        BY <1>3, <3>1 DEF PageFaultReadFails, AllocTable
      <4> HIDE DEF T
      <4> QED BY <1>1, <4>3, <4>4 DEF TypeOK
    <3>2. CASE ~NeedsTable(a)
      BY <1>1, <1>3, <3>2 DEF TypeOK, PageFaultReadFails, AllocTable
    <3> QED BY <3>1, <3>2
  <2>2. /\ pc' = "panic"
        /\ UNCHANGED <<vmas, pgd, pte, pd_in_use, frame_in_use, word, cr3, task_mm, old_mm, ref,
                       fprog, file, leaked, seg, booting, image>>
    BY <1>3 DEF PageFaultReadFails, files
  <2>3. TypeOK'
    BY <1>1, <2>1, <2>2 DEF TypeOK
  <2>4. LoaderInv'
    BY <2>2 DEF LoaderInv
  <2>5. AreasDisjoint'
    BY <2>2, AreasUnchanged
  <2> QED BY <2>3, <2>4, <2>5 DEF Inv
<1> QED BY <1>2, <1>3

(* A new page directory comes from its pool.                               *)
LEMMA CreateStep ==
  ASSUME Inv, NEW m \in Mm, create_task_mm(m)
  PROVE  pd_in_use' \subseteq 1..PD_POOL /\ pgd' \in [Mm -> 0..PD_POOL]
<1> DEFINE D == Free(pd_in_use, PD_POOL)
<1>1. D \in SUBSET Nat /\ D # {}
  BY VmAssumption DEF create_task_mm, Free
<1>2. Min(D) \in D
  BY <1>1, MinInSet
<1>3. Min(D) \in 1..PD_POOL /\ Min(D) \in 0..PD_POOL
  BY <1>2, VmAssumption DEF Free
<1>4. pd_in_use' = pd_in_use \cup {Min(D)} /\ pgd' = [pgd EXCEPT ![m] = Min(D)]
  BY DEF create_task_mm
<1> HIDE DEF D
<1> QED BY <1>3, <1>4 DEF Inv, TypeOK

(* The steps before the loader runs.                                       *)
LEMMA SpawnInv ==
  ASSUME Inv, NEW m \in Mm, SpawnProc1(m) \/ ExecveCreate(m)
  PROVE  Inv'
<1>1. TypeOK /\ LoaderInv
  BY DEF Inv
<1>2. create_task_mm(m) /\ UNCHANGED vmas
  BY DEF SpawnProc1, ExecveCreate
<1>3. pd_in_use' \subseteq 1..PD_POOL /\ pgd' \in [Mm -> 0..PD_POOL]
  BY <1>2, CreateStep
<1>4. AreasDisjoint'
  BY <1>2, AreasUnchanged
<1>5. TypeOK'
  <2>1. CASE SpawnProc1(m)
    BY <1>1, <1>3, <2>1 DEF TypeOK, SpawnProc1, files
  <2>2. CASE ExecveCreate(m)
    <3>1. cr3' \in 0..PD_POOL
      BY <1>3, <2>2 DEF ExecveCreate
    <3> QED BY <1>1, <1>3, <2>2, <3>1 DEF TypeOK, ExecveCreate, files
  <2> QED BY <2>1, <2>2
<1>6. LoaderInv'
  <2>1. CASE SpawnProc1(m)
    BY <1>1, <2>1 DEF LoaderInv, SpawnProc1
  <2>2. CASE ExecveCreate(m)
    BY <1>1, <2>2 DEF LoaderInv, ExecveCreate, files
  <2> QED BY <2>1, <2>2
<1> QED BY <1>4, <1>5, <1>6 DEF Inv

(* Opening an executable, and closing it when there is no memory.          *)
LEMMA OpenInv ==
  ASSUME Inv,
         (\E p \in Program, f \in File : OpenProc1(p, f) \/ ExecveOpen(p, f)) \/ ExecveNoMm
  PROVE  Inv'
<1>1. TypeOK /\ LoaderInv
  BY DEF Inv
<1>2. UNCHANGED <<vmas, pgd, pt, pte, pd_in_use, pt_in_use, frame_in_use, word, cr3, task_mm,
                  old_mm, leaked, seg, booting, image>>
  BY DEF OpenProc1, ExecveOpen, ExecveNoMm, space, pools
<1>3. AreasDisjoint'
  BY <1>2, AreasUnchanged
<1>4. CASE \E p \in Program, f \in File : OpenProc1(p, f) \/ ExecveOpen(p, f)
  <2>1. PICK p \in Program, f \in File : OpenProc1(p, f) \/ ExecveOpen(p, f)
    BY <1>4
  <2>2. /\ pc \in {"open", "user"} /\ pc' = IF pc = "open" THEN "header" ELSE "create"
        /\ ref' = [ref EXCEPT ![f] = 1] /\ fprog' = [fprog EXCEPT ![f] = p] /\ file' = f
    BY <2>1 DEF OpenProc1, ExecveOpen
  <2>3. TypeOK'
    BY <1>1, <1>2, <2>2 DEF TypeOK
  <2>4. file' \in File /\ fprog'[file'] \in Program
    BY <1>1, <2>2 DEF TypeOK
  <2>5. LoaderInv'
    BY <1>1, <1>2, <2>2, <2>4 DEF LoaderInv
  <2> QED BY <1>3, <2>3, <2>5 DEF Inv
<1>5. CASE ExecveNoMm
  <2>1. /\ pc = "create" /\ pc' = "user" /\ file' = NULL
        /\ ref' = [ref EXCEPT ![file] = @ - 1] /\ fprog' = [fprog EXCEPT ![file] = NULL]
    BY <1>5 DEF ExecveNoMm
  <2>a. ref \in [File -> Int] /\ fprog \in [File -> Program \cup {NULL}]
    BY <1>1 DEF TypeOK
  <2>b. ref' \in [File -> Int] /\ fprog' \in [File -> Program \cup {NULL}]
    <3>1. \A x \in File : ref[x] - 1 \in Int
      BY <2>a
    <3>2. ref' \in [File -> Int]
      BY <2>1, <2>a, <3>1
    <3> QED BY <2>1, <2>a, <3>2
  <2>2. TypeOK'
    BY <1>1, <1>2, <2>1, <2>b DEF TypeOK
  <2>3. LoaderInv'
    BY <1>1, <1>2, <2>1 DEF LoaderInv
  <2> QED BY <1>3, <2>2, <2>3 DEF Inv
<1> QED BY <1>4, <1>5


(* vm_brk_flags for the user's stack.                                      *)
LEMMA MapStackInv ==
  ASSUME Inv, MapStack
  PROVE  Inv'
<1>1. TypeOK /\ LoaderInv
  BY DEF Inv
<1>2. task_mm \in Mm
  BY <1>1 DEF LoaderInv, MapStack
<1>3. PICK l \in do_mmap(vmas[task_mm], USER_STACK_BASE, PAGE_SIZE, NULL, 0) :
        vmas' = [vmas EXCEPT ![task_mm] = l]
  BY DEF MapStack, vm_brk_flags
<1>4. 0 \in Address /\ USER_STACK_BASE \in Address /\ PAGE_SIZE \in Nat
  BY VmaAssumption, VmAssumption DEF Address
<1>5. vmas' \in [Mm -> Seq(Vma)] /\ AreasDisjoint'
  BY <1>2, <1>3, <1>4, MapStep
<1>6. TypeOK'
  BY <1>1, <1>5 DEF TypeOK, MapStack, pools, files
<1>7. LoaderInv'
  BY <1>1 DEF LoaderInv, MapStack, files
<1> QED BY <1>5, <1>6, <1>7 DEF Inv

(* The steps of elf32_load_exec that map nothing.                          *)
LEMMA LoadWalkInv ==
  ASSUME Inv, ReadHeaders \/ SkipSegment \/ PadEnter \/ PadZero \/ NoZeros \/ LoadFails
  PROVE  Inv'
<1>1. TypeOK /\ LoaderInv
  BY DEF Inv
<1>2. UNCHANGED <<vmas, pgd, pt, pte, pd_in_use, pt_in_use, frame_in_use, task_mm, old_mm, ref,
                  fprog, file, leaked, booting, image>>
  BY DEF ReadHeaders, SkipSegment, PadEnter, PadZero, NoZeros, LoadFails, loader, pools, files
<1>3. AreasDisjoint'
  BY <1>2, AreasUnchanged
<1>4. CASE ReadHeaders \/ SkipSegment \/ NoZeros
  <2>1. /\ seg' \in Nat \ {0} /\ pc' = "segment" /\ UNCHANGED <<word, cr3>>
        /\ pc \in {"header", "segment", "brk"}
    BY <1>1, <1>4 DEF ReadHeaders, SkipSegment, NoZeros, NextSegment, InLoop, TypeOK
  <2>2. TypeOK'
    BY <1>1, <1>2, <2>1 DEF TypeOK
  <2>3. LoaderInv'
    BY <1>1, <1>2, <2>1 DEF LoaderInv
  <2> QED BY <1>3, <2>2, <2>3 DEF Inv
<1>5. CASE PadEnter
  <2>1. pc = "pad" /\ pc' = "zero" /\ cr3' = pgd[task_mm] /\ UNCHANGED <<word, seg>>
    BY <1>5 DEF PadEnter
  <2>2. task_mm \in Mm /\ cr3' \in 0..PD_POOL
    BY <1>1, <2>1 DEF LoaderInv, TypeOK
  <2>3. TypeOK'
    BY <1>1, <1>2, <2>1, <2>2 DEF TypeOK
  <2>4. LoaderInv'
    BY <1>1, <1>2, <2>1 DEF LoaderInv
  <2> QED BY <1>3, <2>3, <2>4 DEF Inv
<1>6. CASE PadZero
  <2>1. pc = "zero" /\ pc' = "brk" /\ UNCHANGED seg
    BY <1>6 DEF PadZero
  <2>2. cr3' \in 0..PD_POOL
    BY <1>1, <1>6, VmAssumption DEF PadZero, TypeOK
  <2>3. DOMAIN word = 1..FRAMES /\ \A f \in 1..FRAMES : DOMAIN word[f] = Offsets
    BY <1>1 DEF TypeOK
  <2>4. DOMAIN word' = 1..FRAMES /\ \A f \in 1..FRAMES : DOMAIN word'[f] = Offsets
    <3>1. CASE FileEnd % PAGE_SIZE = 0
      BY <1>6, <2>3, <3>1 DEF PadZero
    <3>2. CASE FileEnd % PAGE_SIZE # 0
      <4> DEFINE g == pte[task_mm][PageOf(FileEnd)]
                 w == [o \in Offsets |-> IF o >= FileEnd % PAGE_SIZE THEN Zero ELSE word[g][o]]
      <4>1. word' = [word EXCEPT ![g] = w]
        BY <1>6, <3>2 DEF PadZero
      <4>2. DOMAIN w = Offsets
        OBVIOUS
      <4> HIDE DEF g, w
      <4> QED BY <2>3, <4>1, <4>2
    <3> QED BY <3>1, <3>2
  <2>5. TypeOK'
    BY <1>1, <1>2, <2>1, <2>2, <2>4 DEF TypeOK
  <2>6. LoaderInv'
    BY <1>1, <1>2, <2>1 DEF LoaderInv
  <2> QED BY <1>3, <2>5, <2>6 DEF Inv
<1>7. CASE LoadFails
  <2>1. /\ pc' \in {"spin", "fail", "panic"} /\ (pc' = "fail" => ~booting)
        /\ UNCHANGED <<word, cr3, seg>>
    BY <1>7 DEF LoadFails
  <2>2. pc' = "fail" => pc \in {"stack", "header", "segment", "brk"}
    BY <1>1, <1>7, <2>1 DEF LoadFails, MayFail, InLoop, LoaderInv
  <2>3. TypeOK'
    BY <1>1, <1>2, <2>1 DEF TypeOK
  <2>4. LoaderInv'
    BY <1>1, <1>2, <2>1, <2>2 DEF LoaderInv
  <2> QED BY <1>3, <2>3, <2>4 DEF Inv
<1> QED BY <1>4, <1>5, <1>6, <1>7

(* The steps of elf32_load_exec that map an area.                          *)
LEMMA LoadMapInv ==
  ASSUME Inv, MapZeroSegment \/ MapFileSegment \/ MapZeros
  PROVE  Inv'
<1>1. TypeOK /\ LoaderInv
  BY DEF Inv
<1>2. pc \in {"segment", "brk"}
  BY DEF MapZeroSegment, MapFileSegment, MapZeros, InLoop
<1>3. task_mm \in Mm /\ file \in File /\ fprog[file] \in Program /\ seg \in Nat
  BY <1>1, <1>2 DEF LoaderInv, TypeOK
<1>4. fprog[file].segs \in Seq(Phdr) /\ Len(fprog[file].segs) \in Nat
  BY <1>3, ProgramAssumption
<1>5. seg <= Len(fprog[file].segs)
  BY <1>1, <1>3, <1>4 DEF MapZeroSegment, MapFileSegment, MapZeros, InLoop, LoaderInv
<1>6. Segment \in Phdr /\ seg \in 1..Len(fprog[file].segs)
  BY <1>2, <1>5, SegmentType
<1>7. /\ Segment.vaddr \in Address /\ Segment.filesz \in Address
      /\ Segment.memsz \in Address /\ Segment.offset \in Address
  BY <1>6 DEF Phdr
<1>8. 0 \in Address /\ \A a \in Address : a \in Nat
  BY VmaAssumption DEF Address
<1>9. UNCHANGED <<pgd, pt, pte, pd_in_use, pt_in_use, frame_in_use, word, cr3, task_mm, old_mm,
                  ref, fprog, file, leaked, booting, image>>
  BY DEF MapZeroSegment, MapFileSegment, MapZeros, loader, pools, files
<1>10. vmas' \in [Mm -> Seq(Vma)] /\ AreasDisjoint'
  <2>1. CASE MapZeroSegment
    <3>1. PICK l \in do_mmap(vmas[task_mm], Segment.vaddr, Segment.memsz, NULL, 0) :
            vmas' = [vmas EXCEPT ![task_mm] = l]
      BY <2>1 DEF MapZeroSegment, vm_brk_flags
    <3> QED BY <1>3, <1>7, <1>8, <3>1, MapStep
  <2>2. CASE MapFileSegment
    <3>1. PICK l \in do_mmap(vmas[task_mm], Segment.vaddr, Segment.filesz, file, Segment.offset) :
            vmas' = [vmas EXCEPT ![task_mm] = l]
      BY <2>2 DEF MapFileSegment
    <3> QED BY <1>3, <1>7, <1>8, <3>1, MapStep
  <2>3. CASE MapZeros
    <3>1. PICK l \in do_mmap(vmas[task_mm], ZerosStart, ZerosEnd - ZerosStart, NULL, 0) :
            vmas' = [vmas EXCEPT ![task_mm] = l]
      BY <2>3 DEF MapZeros, vm_brk_flags
    <3>2. FileEnd \in Nat /\ ZerosEnd \in Nat
      BY <1>7, <1>8, VmaAssumption DEF FileEnd, ZerosEnd
    <3>3. ZerosStart \in Address /\ ZerosEnd > ZerosStart
      BY <2>3, <3>2, AlignType DEF ZerosStart, MapZeros
    <3>4. ZerosEnd - ZerosStart \in Nat
      BY <1>8, <3>2, <3>3
    <3> QED BY <1>3, <1>8, <3>1, <3>3, <3>4, MapStep
  <2> QED BY <2>1, <2>2, <2>3
<1>11. /\ seg' \in Nat
       /\ \/ pc' = "segment" /\ seg' # 0
          \/ pc' \in {"pad", "brk"} /\ seg' = seg
  BY <1>3, <1>6 DEF MapZeroSegment, MapFileSegment, MapZeros, NextSegment
<1>12. TypeOK'
  BY <1>1, <1>9, <1>10, <1>11 DEF TypeOK
<1>13. LoaderInv'
  BY <1>1, <1>2, <1>3, <1>6, <1>9, <1>11 DEF LoaderInv
<1> QED BY <1>10, <1>12, <1>13 DEF Inv

(* The end of a call, and the end of the task.                             *)
LEMMA EndInv ==
  ASSUME Inv, EnterProc1 \/ ExecveDone \/ ExecveFailed \/ Exit
  PROVE  Inv'
<1>1. TypeOK /\ LoaderInv
  BY DEF Inv
<1>2. CASE EnterProc1
  <2>1. task_mm \in Mm /\ file \in File /\ fprog[file] \in Program
    BY <1>1, <1>2 DEF EnterProc1, Loaded, LoaderInv
  <2>2. cr3' \in 0..PD_POOL /\ image' \in Program /\ leaked' \subseteq File
    BY <1>1, <1>2, <2>1 DEF EnterProc1, TypeOK
  <2>3. fprog' \in [File -> Program \cup {NULL}]
    BY <1>1, <1>2 DEF EnterProc1, TypeOK
  <2>4. TypeOK'
    BY <1>1, <1>2, <2>2, <2>3 DEF TypeOK, EnterProc1, space, pools
  <2>5. LoaderInv'
    BY <1>1, <1>2, <2>1 DEF LoaderInv, EnterProc1
  <2>6. AreasDisjoint'
    BY <1>2, AreasUnchanged DEF EnterProc1, space
  <2> QED BY <2>4, <2>5, <2>6 DEF Inv
<1>3. CASE ExecveDone
  <2>1. /\ task_mm \in Mm /\ old_mm \in Mm /\ fprog[file] \in Program
    BY <1>1, <1>3 DEF ExecveDone, Loaded, LoaderInv
  <2>2. release_mm(old_mm)
    BY <1>3 DEF ExecveDone
  <2>3. TypeOK' /\ AreasDisjoint'
    BY <1>1, <1>3, <2>1, <2>2, ReleaseStep DEF TypeOK, ExecveDone
  <2>4. LoaderInv'
    BY <1>3, <2>1 DEF LoaderInv, ExecveDone
  <2> QED BY <2>3, <2>4 DEF Inv
<1>4. CASE ExecveFailed
  <2>1. task_mm \in Mm /\ old_mm \in Mm /\ ~booting
    BY <1>1, <1>4 DEF ExecveFailed, LoaderInv
  <2>2. release_mm(task_mm)
    BY <1>4 DEF ExecveFailed
  <2>3. cr3' \in 0..PD_POOL
    BY <1>1, <1>4, <2>1 DEF ExecveFailed, TypeOK
  <2>4. TypeOK' /\ AreasDisjoint'
    BY <1>1, <1>4, <2>1, <2>2, <2>3, ReleaseStep DEF TypeOK, ExecveFailed
  <2>5. LoaderInv'
    BY <1>4, <2>1 DEF LoaderInv, ExecveFailed
  <2> QED BY <2>4, <2>5 DEF Inv
<1>5. CASE Exit
  <2>1. task_mm \in Mm
    BY <1>1, <1>5 DEF Exit, LoaderInv
  <2>2. release_mm(task_mm)
    BY <1>5 DEF Exit
  <2>3. TypeOK' /\ AreasDisjoint'
    <3>1. cr3' \in 0..PD_POOL
      BY <1>5, VmAssumption DEF Exit
    <3>2. /\ task_mm' = NULL /\ image' = NULL /\ pc' = "exited"
          /\ UNCHANGED <<old_mm, seg, booting>>
      BY <1>5 DEF Exit
    <3> QED BY <1>1, <2>1, <2>2, <3>1, <3>2, ReleaseStep DEF TypeOK
  <2>4. LoaderInv'
    BY <1>5 DEF LoaderInv, Exit
  <2> QED BY <2>3, <2>4 DEF Inv
<1> QED BY <1>2, <1>3, <1>4, <1>5

(* A step that changes nothing.                                            *)
LEMMA StutterInv ==
  ASSUME Inv, UNCHANGED vars
  PROVE  Inv'
<1>1. UNCHANGED <<vmas, pgd, pt, pte, pd_in_use, pt_in_use, frame_in_use, word, cr3, task_mm,
                  old_mm, ref, fprog, file, leaked, seg, pc, booting, image>>
  BY DEF vars, space, pools, files
<1>2. TypeOK'
  BY <1>1 DEF Inv, TypeOK
<1>3. LoaderInv'
  BY <1>1 DEF Inv, LoaderInv
<1>4. AreasDisjoint'
  BY <1>1, AreasUnchanged
<1> QED BY <1>2, <1>3, <1>4 DEF Inv

----------------------------------------------------------------------------
(* Inv holds in every reachable state, whatever the executables say and    *)
(* wherever memory or the disk fails.                                      *)
THEOREM Inductive == Spec => []Inv
<1>1. Inv /\ [Next]_vars => Inv'
  <2> SUFFICES ASSUME Inv, [Next]_vars PROVE Inv'
    OBVIOUS
  <2>1. CASE \E a \in Address : PageFault(a)
    BY <2>1, PageFaultInv
  <2>2. CASE \E a \in Address : PageFaultPanic(a) \/ PageFaultReadFails(a)
    BY <2>2, PanicInv
  <2>3. CASE \E m \in Mm : SpawnProc1(m) \/ ExecveCreate(m)
    BY <2>3, SpawnInv
  <2>4. CASE (\E p \in Program, f \in File : OpenProc1(p, f) \/ ExecveOpen(p, f)) \/ ExecveNoMm
    BY <2>4, OpenInv
  <2>5. CASE MapStack
    BY <2>5, MapStackInv
  <2>6. CASE ReadHeaders \/ SkipSegment \/ PadEnter \/ PadZero \/ NoZeros \/ LoadFails
    BY <2>6, LoadWalkInv
  <2>7. CASE MapZeroSegment \/ MapFileSegment \/ MapZeros
    BY <2>7, LoadMapInv
  <2>8. CASE EnterProc1 \/ ExecveDone \/ ExecveFailed \/ Exit
    BY <2>8, EndInv
  <2>9. CASE Stopped \/ UNCHANGED vars
    BY <2>9, StutterInv DEF Stopped
  <2> QED
    BY <2>1, <2>2, <2>3, <2>4, <2>5, <2>6, <2>7, <2>8, <2>9 DEF Next
<1> QED
  BY <1>1, InitInv, PTL DEF Spec

(* The variables of the address space keep their types: no step of the     *)
(* loader, of a fault or of a release leaves the pools or the 32 bits.     *)
THEOREM TypeCorrect == Spec => []TypeOK
<1>1. Inv => TypeOK
  BY DEF Inv
<1> QED BY <1>1, Inductive, PTL

(* No executable can make do_mmap build an address space whose areas       *)
(* overlap, whatever its program headers say.                              *)
THEOREM AreasNeverOverlap == Spec => []AreasDisjoint
<1>1. Inv => AreasDisjoint
  BY DEF Inv
<1> QED BY <1>1, Inductive, PTL

----------------------------------------------------------------------------
(***************************************************************************)
(* Owners of resources.                                                    *)
(***************************************************************************)

----------------------------------------------------------------------------
(* The invariants.                                                         *)

(* Which address spaces exist, and where sys_execve keeps the old one.     *)
SpaceInv ==
  /\ cr3 \in pd_in_use \cup {0}
  /\ Live \subseteq {task_mm, old_mm}
  /\ task_mm # NULL => task_mm \in Live
  /\ old_mm # NULL => old_mm \in Live /\ old_mm # task_mm
  /\ (task_mm # NULL /\ ~booting) => cr3 = pgd[task_mm]
  /\ pc = "spawn" => task_mm = NULL
  /\ (booting \/ pc \in {"user", "create"}) => old_mm = NULL
  /\ pc \in {"user", "create"} => ~booting

(* Every entry of a pool that is used is in one table, once.               *)
OneOwner(used, table, I) ==
  /\ 0 \notin used
  /\ \A u \in used : \E m \in Mm, i \in I : table[m][i] = u
  /\ \A m \in Mm, i \in I : table[m][i] # 0 => table[m][i] \in used
  /\ \A m, n \in Mm, i, j \in I :
       (table[m][i] = table[n][j] /\ table[m][i] # 0) => m = n /\ i = j

PoolInv ==
  /\ pd_in_use = {pgd[m] : m \in Live}
  /\ \A m, n \in Live : pgd[m] = pgd[n] => m = n
  /\ OneOwner(pt_in_use, pt, Pde)
  /\ OneOwner(frame_in_use, pte, Page)
  /\ \A m \in Mm, p \in Page : pte[m][p] # 0 => pt[m][PdeIndex(p)] # 0

(* A file is held by the call that opened it, by one address space, or by  *)
(* nobody; the address space that a call builds maps no other file.        *)
FileInv ==
  /\ FilesAccounted
  /\ \A m, n \in Mm : m # n => MappedFiles(m) \cap MappedFiles(n) = {}
  /\ \A m \in Mm : MappedFiles(m) \cap leaked = {}
  /\ file \notin leaked
  /\ \A m \in Mm : file \in MappedFiles(m) => m = task_mm /\ pc # "create"
  /\ pc \in {"user", "open", "spawn"} \/ (pc = "stack" /\ booting) => file = NULL

ResourceInv == SpaceInv /\ PoolInv /\ FileInv

----------------------------------------------------------------------------
(* Pools.                                                                  *)

(* A free entry that goes into an empty place of one table has one owner.  *)
LEMMA OwnerAlloc ==
  ASSUME NEW I, NEW used, NEW table \in [Mm -> [I -> Nat]], OneOwner(used, table, I),
         NEW x \in Nat \ {0}, x \notin used, NEW m \in Mm, NEW i \in I, table[m][i] = 0
  PROVE  OneOwner(used \cup {x}, [table EXCEPT ![m][i] = x], I)
<1> DEFINE t == [table EXCEPT ![m][i] = x]
<1>1. \A n \in Mm, j \in I : t[n][j] = IF n = m /\ j = i THEN x ELSE table[n][j]
  OBVIOUS
<1>2. \A n \in Mm, j \in I : table[n][j] # x
  BY DEF OneOwner
<1> HIDE DEF t
<1>3. /\ 0 \notin used \cup {x}
      /\ \A u \in used \cup {x} : \E n \in Mm, j \in I : t[n][j] = u
      /\ \A n \in Mm, j \in I : t[n][j] # 0 => t[n][j] \in used \cup {x}
  BY <1>1 DEF OneOwner
<1>4. \A n, o \in Mm, j, k \in I : (t[n][j] = t[o][k] /\ t[n][j] # 0) => n = o /\ j = k
  BY <1>1, <1>2 DEF OneOwner
<1>5. OneOwner(used \cup {x}, t, I)
  BY <1>3, <1>4 DEF OneOwner
<1> QED
  BY <1>5 DEF t

(* What one table holds is given back at once; the other tables keep what  *)
(* they have.                                                              *)
LEMMA OwnerFree ==
  ASSUME NEW I, NEW used, NEW table \in [Mm -> [I -> Nat]], OneOwner(used, table, I),
         NEW m \in Mm, NEW freed, \A i \in I : table[m][i] # 0 => table[m][i] \in freed,
         freed \subseteq {table[m][i] : i \in I}
  PROVE  OneOwner(used \ freed, [table EXCEPT ![m] = [i \in I |-> 0]], I)
<1> DEFINE t == [table EXCEPT ![m] = [i \in I |-> 0]]
<1>1. \A n \in Mm, j \in I : t[n][j] = IF n = m THEN 0 ELSE table[n][j]
  OBVIOUS
<1> HIDE DEF t
<1>2. /\ 0 \notin used \ freed
      /\ \A u \in used \ freed : \E n \in Mm, j \in I : t[n][j] = u
      /\ \A n \in Mm, j \in I : t[n][j] # 0 => t[n][j] \in used \ freed
  BY <1>1 DEF OneOwner
<1>3. \A n, o \in Mm, j, k \in I : (t[n][j] = t[o][k] /\ t[n][j] # 0) => n = o /\ j = k
  BY <1>1 DEF OneOwner
<1>4. OneOwner(used \ freed, t, I)
  BY <1>2, <1>3 DEF OneOwner
<1> QED
  BY <1>4 DEF t

(* A set that a function enumerates without repetition is as large as the  *)
(* function's domain.                                                      *)
LEMMA CountOnce ==
  ASSUME NEW X, NEW S, IsFiniteSet(S), NEW g \in [X -> S],
         \A y \in S : \E x \in X : g[x] = y,
         \A x, y \in X : g[x] = g[y] => x = y
  PROVE  Cardinality(S) = Cardinality(X)
<1>1. g \in Bijection(X, S)
  BY Fun_IsBij
<1>2. ExistsBijection(S, X)
  BY <1>1, Fun_ExistsBijSymmetric DEF ExistsBijection
<1> QED
  BY <1>2, FS_Bijection

(* The entries of the tables that are present.                             *)
Entries(table, I) == {x \in Mm \X I : table[x[1]][x[2]] # 0}

LEMMA OwnerCount ==
  ASSUME NEW I, NEW used, NEW table \in [Mm -> [I -> Nat]], OneOwner(used, table, I),
         IsFiniteSet(used)
  PROVE  /\ used = {table[x[1]][x[2]] : x \in Entries(table, I)}
         /\ Cardinality(used) = Cardinality(Entries(table, I))
<1> DEFINE X == {x \in Mm \X I : table[x[1]][x[2]] # 0}
           g == [x \in X |-> table[x[1]][x[2]]]
<1>1. ASSUME NEW y \in used PROVE \E x \in X : table[x[1]][x[2]] = y
  <2>1. PICK m \in Mm, i \in I : y = table[m][i] /\ y # 0
    BY DEF OneOwner
  <2>2. <<m, i>> \in X
    BY <2>1
  <2> QED
    BY <2>1, <2>2
<1>2. ASSUME NEW x \in X PROVE table[x[1]][x[2]] \in used
  BY DEF OneOwner
<1>3. ASSUME NEW x \in X, NEW y \in X, table[x[1]][x[2]] = table[y[1]][y[2]] PROVE x = y
  <2>1. x[1] = y[1] /\ x[2] = y[2]
    BY <1>3 DEF OneOwner
  <2> QED
    BY <2>1
<1>4. used = {table[x[1]][x[2]] : x \in X}
  BY <1>1, <1>2
<1>5. g \in [X -> used]
  BY <1>2
<1>6. \A y \in used : \E x \in X : g[x] = y
  BY <1>1
<1>7. \A x, y \in X : g[x] = g[y] => x = y
  BY <1>3
<1> HIDE DEF X, g
<1>8. Cardinality(used) = Cardinality(X)
  BY <1>5, <1>6, <1>7, CountOnce
<1> QED
  BY <1>4, <1>8 DEF X, Entries

----------------------------------------------------------------------------
(* Files.                                                                  *)

LEMMA FilesOf ==
  ASSUME Inv, NEW m \in Mm
  PROVE  /\ vmas[m] \in Seq(Vma) /\ Len(vmas[m]) \in Nat /\ DOMAIN vmas[m] = 1..Len(vmas[m])
         /\ \A f : f \in MappedFiles(m) <=>
              f # NULL /\ \E i \in DOMAIN vmas[m] : vmas[m][i].vm_file = f
         /\ MappedFiles(m) \subseteq File
<1>1. vmas[m] \in Seq(Vma) /\ Len(vmas[m]) \in Nat /\ DOMAIN vmas[m] = 1..Len(vmas[m])
  BY DEF Inv, TypeOK
<1>2. \A f : f \in MappedFiles(m) <=>
        f # NULL /\ \E i \in DOMAIN vmas[m] : vmas[m][i].vm_file = f
  BY DEF MappedFiles, ToSet
<1>3. \A i \in DOMAIN vmas[m] : vmas[m][i].vm_file \in File \cup {NULL}
  <2>1. \A w \in Vma : w.vm_file \in File \cup {NULL}
    BY DEF Vma
  <2>2. \A i \in DOMAIN vmas[m] : vmas[m][i] \in Vma
    BY <1>1
  <2> QED
    BY <2>1, <2>2
<1> QED
  BY <1>1, <1>2, <1>3

(* vma_file_seen: release_mm closes each file of an address space once,    *)
(* however many areas it has.                                              *)
LEMMA ClosesOnce ==
  ASSUME Inv, NEW m \in Mm, NEW f \in File
  PROVE  Closes(m, f) = IF f \in MappedFiles(m) THEN 1 ELSE 0
<1> DEFINE S == {i \in DOMAIN vmas[m] : vmas[m][i].vm_file = f}
           C == {i \in DOMAIN vmas[m] :
                   vmas[m][i].vm_file = f /\ \A j \in 1..(i - 1) : vmas[m][j].vm_file # f}
<1>1. f # NULL /\ Len(vmas[m]) \in Nat /\ DOMAIN vmas[m] = 1..Len(vmas[m])
  BY VmAssumption, FilesOf
<1>2. f \in MappedFiles(m) <=> S # {}
  BY <1>1, FilesOf
<1>3. CASE S = {}
  <2>1. C = {}
    BY <1>3
  <2>2. Cardinality(C) = 0
    BY <2>1, FS_EmptySet
  <2> QED
    BY <1>2, <1>3, <2>2 DEF Closes
<1>4. CASE S # {}
  <2>1. \E x \in S : \A y \in S : ~(y < x)
    <3>1. S \in SUBSET Nat
      BY <1>1
    <3> HIDE DEF S
    <3>2. PICK x \in S : \A y \in S : ~(<<y, x>> \in OpToRel(<, Nat))
      BY <1>4, <3>1, NatLessThanWellFounded, WFMin
    <3> QED
      BY <3>1, <3>2 DEF OpToRel
  <2>2. PICK k \in S : \A y \in S : ~(y < k)
    BY <2>1
  <2>3. C = {k}
    <3>1. ASSUME NEW i \in C PROVE i = k
      <4>1. i \in S /\ i \in 1..Len(vmas[m]) /\ k \in 1..Len(vmas[m])
        BY <1>1
      <4>2. ~(i < k)
        BY <2>2, <4>1
      <4>3. ~(k \in 1..(i - 1))
        OBVIOUS
      <4> QED
        BY <4>1, <4>2, <4>3, <1>1
    <3>2. k \in C
      <4>1. ASSUME NEW j \in 1..(k - 1) PROVE vmas[m][j].vm_file # f
        <5>1. j \in 1..Len(vmas[m]) /\ j < k
          BY <1>1
        <5> QED
          BY <1>1, <2>2, <5>1
      <4> QED
        BY <4>1
    <3> QED
      BY <3>1, <3>2
  <2>4. Cardinality(C) = 1
    BY <2>3, FS_Singleton
  <2> QED
    BY <1>2, <1>4, <2>4 DEF Closes
<1> QED
  BY <1>3, <1>4

(* do_mmap adds the file of the new area, if it has one.                   *)
LEMMA MapAddsFile ==
  ASSUME Inv, NEW addr \in Address, NEW length \in Nat, NEW f \in File \cup {NULL},
         NEW offset \in Address, task_mm \in Mm,
         NEW l \in do_mmap(vmas[task_mm], addr, length, f, offset),
         vmas' = [vmas EXCEPT ![task_mm] = l]
  PROVE  \A m \in Mm :
           MappedFiles(m)' = IF m = task_mm THEN MappedFiles(m) \cup ({f} \ {NULL})
                             ELSE MappedFiles(m)
<1> DEFINE v == NewVma(addr, length, f, offset)
           s == vmas[task_mm]
<1>1. s \in Seq(Vma) /\ Len(s) \in Nat /\ DOMAIN s = 1..Len(s)
  BY FilesOf
<1>2. PICK k \in 1..(Len(s) + 1) :
        /\ l = InsertAt(s, k, v)
        /\ f # NULL => offset >= addr - align_down(addr)
  BY DEF do_mmap
<1>3. v \in Vma /\ v.vm_file = f
  <2>1. v \in Vma
    BY <1>2, NewVmaType
  <2> QED
    BY <2>1 DEF NewVma
<1> HIDE DEF v, s
<1>4. /\ l \in Seq(Vma) /\ Len(l) = Len(s) + 1
      /\ \A i \in 1..(Len(s) + 1) : l[i] = IF i < k THEN s[i] ELSE IF i = k THEN v ELSE s[i - 1]
  <2>1. l \in Seq(Vma) /\ Len(l) = Len(s) + 1
    BY <1>1, <1>2, <1>3, InsertAtSeq
  <2>2. ASSUME NEW i \in 1..(Len(s) + 1)
        PROVE  l[i] = IF i < k THEN s[i] ELSE IF i = k THEN v ELSE s[i - 1]
    BY <1>1, <1>2, <1>3, InsertAtSeq
  <2> QED
    BY <2>1, <2>2
<1>5. DOMAIN l = 1..(Len(s) + 1)
  BY <1>4
<1>6. \A m \in Mm : vmas'[m] = IF m = task_mm THEN l ELSE vmas[m]
  BY DEF Inv, TypeOK
<1>7. ASSUME NEW m \in Mm, m = task_mm
      PROVE  MappedFiles(m)' = MappedFiles(m) \cup ({f} \ {NULL})
  <2>1. ASSUME NEW g, NEW i \in 1..Len(s), s[i].vm_file = g
        PROVE  \E j \in DOMAIN l : l[j].vm_file = g
    <3>1. CASE i < k
      <4>1. i \in 1..(Len(s) + 1)
        BY <1>1
      <4>2. l[i] = s[i]
        BY <1>4, <3>1, <4>1
      <4> QED
        BY <1>5, <2>1, <4>1, <4>2
    <3>2. CASE i >= k
      <4>1. i + 1 \in 1..(Len(s) + 1) /\ ~(i + 1 < k) /\ i + 1 # k /\ i + 1 - 1 = i
        BY <1>1, <3>2
      <4>2. l[i + 1] = s[i]
        BY <1>4, <4>1
      <4> QED
        BY <1>5, <2>1, <4>1, <4>2
    <3> QED
      BY <1>1, <3>1, <3>2
  <2>2. \E j \in DOMAIN l : l[j].vm_file = f
    <3>1. k \in DOMAIN l /\ l[k] = v
      BY <1>1, <1>4, <1>5
    <3> QED
      BY <1>3, <3>1
  <2>3. ASSUME NEW j \in DOMAIN l
        PROVE  l[j].vm_file = f \/ \E i \in DOMAIN s : s[i].vm_file = l[j].vm_file
    <3>1. CASE j < k
      <4>1. j \in 1..Len(s) /\ l[j] = s[j]
        BY <1>1, <1>4, <1>5, <3>1
      <4> QED
        BY <1>1, <4>1
    <3>2. CASE j = k
      BY <1>1, <1>3, <1>4, <1>5, <3>2
    <3>3. CASE j > k
      <4>1. j - 1 \in 1..Len(s) /\ l[j] = s[j - 1]
        BY <1>1, <1>4, <1>5, <3>3
      <4> QED
        BY <1>1, <4>1
    <3> QED
      BY <1>1, <1>5, <3>1, <3>2, <3>3
  <2>4. \A g : g \in MappedFiles(m)' <=> g # NULL /\ \E j \in DOMAIN l : l[j].vm_file = g
    BY <1>6, <1>7 DEF MappedFiles, ToSet
  <2>5. \A g : g \in MappedFiles(m) <=> g # NULL /\ \E i \in DOMAIN s : s[i].vm_file = g
    BY <1>7, FilesOf DEF s
  <2> QED
    BY <1>1, <2>1, <2>2, <2>3, <2>4, <2>5
<1>8. \A m \in Mm : m # task_mm => MappedFiles(m)' = MappedFiles(m)
  BY <1>6 DEF MappedFiles
<1> QED
  BY <1>7, <1>8

----------------------------------------------------------------------------
(* The steps.                                                              *)

LEMMA InitResource == Init => ResourceInv
<1> SUFFICES ASSUME Init PROVE ResourceInv
  OBVIOUS
<1>1. Live = {}
  BY DEF Init, Live
<1>2. SpaceInv
  BY <1>1 DEF Init, SpaceInv
<1>3. PoolInv
  BY <1>1 DEF Init, PoolInv, OneOwner
<1>4. \A m \in Mm : MappedFiles(m) = {}
  BY DEF Init, MappedFiles, ToSet
<1>5. FilesAccounted
  BY <1>4, VmAssumption DEF Init, FilesAccounted
<1>6. FileInv
  BY <1>4, <1>5 DEF Init, FileInv
<1> QED
  BY <1>2, <1>3, <1>6 DEF ResourceInv

(* Steps that leave the address spaces, the pools and the owners of the    *)
(* files alone.                                                            *)
LEMMA PoolFrame ==
  ASSUME PoolInv, UNCHANGED <<pgd, pt, pte, pd_in_use, pt_in_use, frame_in_use>>
  PROVE  PoolInv' /\ Live' = Live
<1>1. Live' = Live
  BY DEF Live
<1>2. OneOwner(pt_in_use, pt, Pde)' /\ OneOwner(frame_in_use, pte, Page)'
  BY DEF PoolInv, OneOwner
<1> QED
  BY <1>1, <1>2 DEF PoolInv

LEMMA FileFrame ==
  ASSUME FileInv, UNCHANGED <<vmas, ref, file, leaked>>,
         task_mm' = task_mm \/ pc = "create",
         pc' # "create",
         pc' \in {"user", "open", "spawn"} \/ (pc' = "stack" /\ booting') => file = NULL
  PROVE  FileInv'
<1>1. \A m \in Mm : MappedFiles(m)' = MappedFiles(m)
  BY DEF MappedFiles
<1>2. FilesAccounted'
  BY <1>1 DEF FileInv, FilesAccounted
<1> QED
  BY <1>1, <1>2 DEF FileInv

LEMMA PageOfType ==
  ASSUME NEW a \in Address
  PROVE  PageOf(a) \in Page
<1>1. /\ PAGE_SIZE \in Nat \ {0} /\ ADDRESS_SPACE \in Nat \ {0}
      /\ ADDRESS_SPACE % PAGE_SIZE = 0 /\ a \in 0..(ADDRESS_SPACE - 1)
  BY VmaAssumption DEF Address
<1> DEFINE q == ADDRESS_SPACE \div PAGE_SIZE
           r == a \div PAGE_SIZE
<1>2. q \in Nat /\ r \in Nat /\ ADDRESS_SPACE = PAGE_SIZE * q
  BY <1>1
<1>3. PAGE_SIZE * r <= a
  BY <1>1
<1> HIDE DEF q, r
<1>4. PAGE_SIZE * r < PAGE_SIZE * q
  BY <1>1, <1>2, <1>3
<1>5. r < q
  BY <1>1, <1>2, <1>4
<1> QED
  BY <1>2, <1>5 DEF q, r, PageOf, Page

(* A fault takes a free frame, and a free table where there is none.       *)
LEMMA AllocTableOwner ==
  ASSUME Inv, ResourceInv, task_mm \in Mm, NEW a \in Address, HasMemory(a), AllocTable(a)
  PROVE  /\ OneOwner(pt_in_use, pt, Pde)'
         /\ pt'[task_mm][PdeIndex(PageOf(a))] # 0
         /\ \A m \in Mm, i \in Pde : pt[m][i] # 0 => pt'[m][i] # 0
<1> DEFINE T == Free(pt_in_use, PT_POOL)
           i == PdeIndex(PageOf(a))
<1>1. i \in Pde
  BY PageOfType DEF Pde
<1>2. pt \in [Mm -> [Pde -> Nat]] /\ OneOwner(pt_in_use, pt, Pde)
  BY VmAssumption DEF Inv, TypeOK, ResourceInv, PoolInv
<1>3. CASE NeedsTable(a)
  <2>1. T \in SUBSET Nat /\ T # {}
    BY <1>3, VmAssumption DEF HasMemory, Free
  <2>2. Min(T) \in T
    BY <2>1, MinInSet
  <2>3. Min(T) \in Nat \ {0} /\ Min(T) \notin pt_in_use
    BY <2>2 DEF Free
  <2>4. /\ pt_in_use' = pt_in_use \cup {Min(T)}
        /\ pt' = [pt EXCEPT ![task_mm][i] = Min(T)]
    BY <1>3 DEF AllocTable
  <2>5. pt[task_mm][i] = 0
    BY <1>3 DEF NeedsTable
  <2> HIDE DEF T, i
  <2>6. OneOwner(pt_in_use \cup {Min(T)}, [pt EXCEPT ![task_mm][i] = Min(T)], Pde)
    BY <1>1, <1>2, <2>3, <2>5, OwnerAlloc
  <2>7. OneOwner(pt_in_use, pt, Pde)'
    BY <2>4, <2>6 DEF OneOwner
  <2>8. pt'[task_mm][i] # 0 /\ \A m \in Mm, j \in Pde : pt[m][j] # 0 => pt'[m][j] # 0
    BY <1>1, <1>2, <2>3, <2>4
  <2> QED
    BY <2>7, <2>8 DEF i
<1>4. CASE ~NeedsTable(a)
  <2>1. UNCHANGED <<pt, pt_in_use>> /\ pt[task_mm][i] # 0
    BY <1>4 DEF AllocTable, NeedsTable
  <2> QED
    BY <1>2, <2>1 DEF OneOwner
<1> QED
  BY <1>3, <1>4

LEMMA FaultResource ==
  ASSUME Inv, ResourceInv, NEW a \in Address,
         PageFault(a) \/ PageFaultPanic(a) \/ PageFaultReadFails(a)
  PROVE  ResourceInv'
<1>1. task_mm \in Mm /\ pte[task_mm][PageOf(a)] = 0 /\ pc \in {"user", "zero"}
  <2>1. a \in Touched
    BY DEF PageFault, PageFaultPanic, PageFaultReadFails
  <2>2. pc \in {"user", "zero"} /\ pte[task_mm][PageOf(a)] = 0
    BY <2>1 DEF Touched
  <2> QED
    BY <2>2 DEF Inv, LoaderInv
<1>2. /\ UNCHANGED <<vmas, pgd, pd_in_use, cr3, task_mm, old_mm, ref, file, leaked, booting>>
      /\ pc' = pc \/ pc' = "panic"
  BY DEF PageFault, PageFaultPanic, PageFaultReadFails, space, pools, files
<1>3. FileInv'
  BY <1>1, <1>2, FileFrame DEF ResourceInv, FileInv
<1>4. Live' = Live
  BY <1>2 DEF Live
<1>5. SpaceInv'
  BY <1>1, <1>2, <1>4 DEF ResourceInv, SpaceInv
<1>6. PoolInv'
  <2>1. CASE PageFaultPanic(a)
    BY <2>1, PoolFrame DEF PageFaultPanic, space, pools, ResourceInv
  <2>2. CASE PageFault(a) \/ PageFaultReadFails(a)
    <3>1. HasMemory(a) /\ AllocTable(a)
      BY <2>2 DEF PageFault, PageFaultReadFails
    <3>2. /\ OneOwner(pt_in_use, pt, Pde)'
          /\ pt'[task_mm][PdeIndex(PageOf(a))] # 0
          /\ \A m \in Mm, i \in Pde : pt[m][i] # 0 => pt'[m][i] # 0
      BY <1>1, <3>1, AllocTableOwner
    <3>3. OneOwner(frame_in_use, pte, Page) /\ PageOf(a) \in Page
      BY PageOfType DEF ResourceInv, PoolInv
    <3>4. \A p \in Page : PdeIndex(p) \in Pde
      BY DEF Pde
    <3>5. ASSUME OneOwner(frame_in_use, pte, Page)',
                 \A m \in Mm, p \in Page :
                   pte'[m][p] # 0 => pte[m][p] # 0 \/ (m = task_mm /\ p = PageOf(a))
          PROVE  PoolInv'
      <4>1. \A m \in Mm, p \in Page : pte'[m][p] # 0 => pt'[m][PdeIndex(p)] # 0
        BY <3>2, <3>4, <3>5 DEF ResourceInv, PoolInv
      <4> QED
        BY <1>2, <1>4, <3>2, <3>5, <4>1 DEF ResourceInv, PoolInv
    <3>6. CASE PageFaultReadFails(a)
      <4>1. UNCHANGED <<pte, frame_in_use>>
        BY <3>6 DEF PageFaultReadFails
      <4>2. OneOwner(frame_in_use, pte, Page)'
        BY <3>3, <4>1 DEF OneOwner
      <4> QED
        BY <3>5, <4>1, <4>2
    <3>7. CASE PageFault(a)
      <4> DEFINE F == Free(frame_in_use, FRAMES)
      <4>1. F \in SUBSET Nat /\ F # {}
        BY <3>1, VmAssumption DEF HasMemory, Free
      <4>2. Min(F) \in F
        BY <4>1, MinInSet
      <4>3. Min(F) \in Nat \ {0} /\ Min(F) \notin frame_in_use
        BY <4>2 DEF Free
      <4>4. /\ frame_in_use' = frame_in_use \cup {Min(F)}
            /\ pte' = [pte EXCEPT ![task_mm][PageOf(a)] = Min(F)]
        BY <3>7 DEF PageFault
      <4> HIDE DEF F
      <4>5. pte \in [Mm -> [Page -> Nat]]
        BY VmAssumption DEF Inv, TypeOK
      <4>6. OneOwner(frame_in_use \cup {Min(F)}, [pte EXCEPT ![task_mm][PageOf(a)] = Min(F)], Page)
        BY <1>1, <3>3, <4>3, <4>5, OwnerAlloc
      <4>7. OneOwner(frame_in_use, pte, Page)'
        BY <4>4, <4>6 DEF OneOwner
      <4>8. \A m \in Mm, p \in Page :
              pte'[m][p] # 0 => pte[m][p] # 0 \/ (m = task_mm /\ p = PageOf(a))
        BY <1>1, <3>3, <4>4, <4>5
      <4> QED
        BY <3>5, <4>7, <4>8
    <3> QED
      BY <2>2, <3>6, <3>7
  <2> QED
    BY <2>1, <2>2
<1> QED
  BY <1>3, <1>5, <1>6 DEF ResourceInv

(* create_task_mm takes a directory that no other address space has.       *)
LEMMA CreateResource ==
  ASSUME Inv, ResourceInv, NEW m \in Mm, SpawnProc1(m) \/ ExecveCreate(m)
  PROVE  ResourceInv'
<1> DEFINE D == Free(pd_in_use, PD_POOL)
<1>1. create_task_mm(m) /\ UNCHANGED <<vmas, pt, pte, pt_in_use, frame_in_use, ref, file, leaked, booting>>
  BY DEF SpawnProc1, ExecveCreate, files
<1>2. D \in SUBSET Nat /\ D # {}
  BY <1>1, VmAssumption DEF create_task_mm, Free
<1>3. Min(D) \in D
  BY <1>2, MinInSet
<1>4. Min(D) # 0 /\ Min(D) \notin pd_in_use
  BY <1>3 DEF Free
<1>5. /\ pd_in_use' = pd_in_use \cup {Min(D)} /\ pgd' = [pgd EXCEPT ![m] = Min(D)]
      /\ pgd[m] = 0
  BY <1>1 DEF create_task_mm
<1> HIDE DEF D
<1>6. \A n \in Mm : pgd'[n] = IF n = m THEN Min(D) ELSE pgd[n]
  BY <1>5 DEF Inv, TypeOK
<1>7. Live' = Live \cup {m} /\ m \notin Live
  BY <1>4, <1>5, <1>6 DEF Live
<1>8. PoolInv'
  <2>1. OneOwner(pt_in_use, pt, Pde)' /\ OneOwner(frame_in_use, pte, Page)'
    BY <1>1 DEF ResourceInv, PoolInv, OneOwner
  <2>2. pd_in_use' = {pgd'[n] : n \in Live'}
    BY <1>5, <1>6, <1>7 DEF ResourceInv, PoolInv, Live
  <2>3. \A n, o \in Live' : pgd'[n] = pgd'[o] => n = o
    BY <1>4, <1>5, <1>6, <1>7 DEF ResourceInv, PoolInv, Live
  <2> QED
    BY <1>1, <2>1, <2>2, <2>3 DEF ResourceInv, PoolInv
<1>9. m # NULL /\ NULL \notin Live
  BY VmAssumption DEF Live
<1>10. CASE SpawnProc1(m)
  <2>1. /\ pc = "spawn" /\ pc' = "stack" /\ task_mm' = m /\ UNCHANGED <<cr3, old_mm, booting>>
        /\ task_mm = NULL /\ old_mm = NULL /\ booting
    BY <1>10, <1>1 DEF SpawnProc1, ResourceInv, SpaceInv, Inv, LoaderInv
  <2>2. SpaceInv'
    BY <1>5, <1>7, <1>9, <2>1 DEF ResourceInv, SpaceInv
  <2>3. \A n \in Mm : MappedFiles(n)' = MappedFiles(n)
    BY <1>1 DEF MappedFiles
  <2>4. file = NULL /\ \A n \in Mm : NULL \notin MappedFiles(n)
    BY <2>1 DEF ResourceInv, FileInv, MappedFiles
  <2>5. FilesAccounted'
    BY <1>1, <2>3 DEF ResourceInv, FileInv, FilesAccounted
  <2>6. FileInv'
    BY <1>1, <2>1, <2>3, <2>4, <2>5 DEF ResourceInv, FileInv
  <2> QED
    BY <1>8, <2>2, <2>6 DEF ResourceInv
<1>11. CASE ExecveCreate(m)
  <2>1. /\ pc = "create" /\ pc' = "stack" /\ task_mm' = m /\ old_mm' = task_mm /\ cr3' = pgd'[m]
        /\ task_mm \in Mm /\ ~booting /\ old_mm = NULL /\ task_mm \in Live
    BY <1>11, VmAssumption DEF ExecveCreate, ResourceInv, SpaceInv, Inv, LoaderInv
  <2>2. SpaceInv'
    BY <1>1, <1>5, <1>6, <1>7, <1>9, <2>1 DEF ResourceInv, SpaceInv
  <2>3. FileInv'
    BY <1>1, <2>1, FileFrame DEF ResourceInv
  <2> QED
    BY <1>8, <2>2, <2>3 DEF ResourceInv
<1> QED
  BY <1>10, <1>11

(* Opening an executable, and closing it when there is no memory.          *)
LEMMA OpenResource ==
  ASSUME Inv, ResourceInv,
         (\E p \in Program, f \in File : OpenProc1(p, f) \/ ExecveOpen(p, f)) \/ ExecveNoMm
  PROVE  ResourceInv'
<1>1. UNCHANGED <<vmas, pgd, pt, pte, pd_in_use, pt_in_use, frame_in_use, cr3, task_mm, old_mm,
                  leaked, booting>>
  BY DEF OpenProc1, ExecveOpen, ExecveNoMm, space, pools
<1>2. PoolInv' /\ Live' = Live
  BY <1>1, PoolFrame DEF ResourceInv
<1>3. \A m \in Mm : MappedFiles(m)' = MappedFiles(m)
  BY <1>1 DEF MappedFiles
<1>4. NULL \notin File /\ \A m \in Mm : NULL \notin MappedFiles(m)
  BY VmAssumption DEF MappedFiles
<1>5. ref \in [File -> Int]
  BY DEF Inv, TypeOK
<1>6. CASE \E p \in Program, f \in File : OpenProc1(p, f) \/ ExecveOpen(p, f)
  <2>1. PICK p \in Program, f \in File : OpenProc1(p, f) \/ ExecveOpen(p, f)
    BY <1>6
  <2>2. /\ pc \in {"open", "user"} /\ pc' = IF pc = "open" THEN "header" ELSE "create"
        /\ ref[f] = 0 /\ ref' = [ref EXCEPT ![f] = 1] /\ file' = f
    BY <2>1 DEF OpenProc1, ExecveOpen
  <2>3. file = NULL
    BY <2>2 DEF ResourceInv, FileInv
  <2>4. f \notin leaked /\ \A m \in Mm : f \notin MappedFiles(m)
    BY <2>2 DEF ResourceInv, FileInv, FilesAccounted
  <2>5. SpaceInv'
    BY <1>1, <1>2, <2>2 DEF ResourceInv, SpaceInv
  <2>6. FilesAccounted'
    BY <1>1, <1>3, <1>4, <1>5, <2>2, <2>3, <2>4 DEF ResourceInv, FileInv, FilesAccounted
  <2>7. FileInv'
    BY <1>1, <1>3, <2>2, <2>4, <2>6 DEF ResourceInv, FileInv
  <2> QED
    BY <1>2, <2>5, <2>7 DEF ResourceInv
<1>7. CASE ExecveNoMm
  <2>1. pc = "create" /\ pc' = "user" /\ file' = NULL /\ ref' = [ref EXCEPT ![file] = @ - 1]
    BY <1>7 DEF ExecveNoMm
  <2>2. file \in File /\ \A m \in Mm : file \notin MappedFiles(m)
    BY <2>1 DEF Inv, LoaderInv, ResourceInv, FileInv
  <2>3. ref[file] = 1 /\ \A f \in File : ref'[f] = IF f = file THEN 0 ELSE ref[f]
    <3>1. ref[file] = 1
      BY <2>2 DEF ResourceInv, FileInv, FilesAccounted
    <3> QED
      BY <1>5, <2>1, <2>2, <3>1
  <2>4. FilesAccounted'
    BY <1>1, <1>3, <1>4, <2>1, <2>2, <2>3 DEF ResourceInv, FileInv, FilesAccounted
  <2>5. SpaceInv'
    BY <1>1, <1>2, <2>1 DEF ResourceInv, SpaceInv
  <2>6. FileInv'
    <3>1. NULL \notin leaked
      BY <1>4 DEF Inv, TypeOK
    <3> QED
      BY <1>1, <1>3, <1>4, <2>1, <2>4, <3>1 DEF ResourceInv, FileInv
  <2> QED
    BY <1>2, <2>5, <2>6 DEF ResourceInv
<1> QED
  BY <1>6, <1>7

(* A new area of the address space at hand refers to the open file, or to  *)
(* none.                                                                   *)
LEMMA MapKeepsFiles ==
  ASSUME Inv, ResourceInv, NEW addr \in Address, NEW length \in Nat, NEW f \in {file, NULL},
         f \in File \cup {NULL}, NEW offset \in Address, task_mm \in Mm,
         NEW l \in do_mmap(vmas[task_mm], addr, length, f, offset),
         vmas' = [vmas EXCEPT ![task_mm] = l],
         UNCHANGED <<ref, file, leaked, task_mm>>,
         pc \notin {"create", "user", "open", "spawn"},
         pc' \notin {"create", "user", "spawn"},
         (pc' = "open" \/ (pc' = "stack" /\ booting')) => file = NULL
  PROVE  FileInv'
<1>1. \A m \in Mm : MappedFiles(m)' = IF m = task_mm THEN MappedFiles(m) \cup ({f} \ {NULL})
                                      ELSE MappedFiles(m)
  BY MapAddsFile
<1>2. ASSUME NEW g \in File
      PROVE  g \in (leaked \cup {file} \cup UNION {MappedFiles(m) : m \in Mm})'
             <=> g \in leaked \cup {file} \cup UNION {MappedFiles(m) : m \in Mm}
  BY <1>1
<1>3. FilesAccounted'
  BY <1>2 DEF ResourceInv, FileInv, FilesAccounted
<1>4. \A m, n \in Mm : m # n => MappedFiles(m)' \cap MappedFiles(n)' = {}
  BY <1>1 DEF ResourceInv, FileInv
<1>5. \A m \in Mm : MappedFiles(m)' \cap leaked = {}
  BY <1>1 DEF ResourceInv, FileInv
<1> QED
  BY <1>1, <1>3, <1>4, <1>5 DEF ResourceInv, FileInv

LEMMA MapResource ==
  ASSUME Inv, ResourceInv, MapStack \/ MapZeroSegment \/ MapFileSegment \/ MapZeros
  PROVE  ResourceInv'
<1>1. UNCHANGED <<pgd, pt, pte, pd_in_use, pt_in_use, frame_in_use, cr3, task_mm, old_mm, ref,
                  file, leaked, booting>>
  BY DEF MapStack, MapZeroSegment, MapFileSegment, MapZeros, loader, pools, files
<1>2. PoolInv' /\ Live' = Live
  BY <1>1, PoolFrame DEF ResourceInv
<1>3. /\ pc \in {"stack", "segment", "brk"} /\ pc' \in {"open", "header", "segment", "pad", "brk"}
      /\ pc' = "open" => pc = "stack" /\ booting
  BY DEF MapStack, MapZeroSegment, MapFileSegment, MapZeros, InLoop, NextSegment
<1>4. SpaceInv'
  BY <1>1, <1>2, <1>3 DEF ResourceInv, SpaceInv
<1>5. task_mm \in Mm /\ (pc' = "open" => file = NULL)
  BY <1>3 DEF Inv, LoaderInv, ResourceInv, FileInv
<1>6. 0 \in Address /\ \A a \in Address : a \in Nat
  BY VmaAssumption DEF Address
<1>7. FileInv'
  <2>1. CASE MapStack
    <3>1. PICK l \in do_mmap(vmas[task_mm], USER_STACK_BASE, PAGE_SIZE, NULL, 0) :
            vmas' = [vmas EXCEPT ![task_mm] = l]
      BY <2>1 DEF MapStack, vm_brk_flags
    <3>2. USER_STACK_BASE \in Address /\ PAGE_SIZE \in Nat
      BY VmaAssumption, VmAssumption
    <3> QED
      BY <1>1, <1>3, <1>5, <1>6, <3>1, <3>2, MapKeepsFiles
  <2>2. CASE MapZeroSegment \/ MapFileSegment \/ MapZeros
    <3>1. file \in File /\ fprog[file] \in Program /\ seg \in Nat /\ pc \in {"segment", "brk"}
      BY <2>2 DEF MapZeroSegment, MapFileSegment, MapZeros, InLoop, Inv, LoaderInv, TypeOK
    <3>2. seg <= Len(fprog[file].segs)
      <4>1. fprog[file].segs \in Seq(Phdr) /\ Len(fprog[file].segs) \in Nat
        BY <3>1, ProgramAssumption
      <4> QED
        BY <2>2, <3>1, <4>1
           DEF MapZeroSegment, MapFileSegment, MapZeros, InLoop, Inv, LoaderInv
    <3>3. Segment \in Phdr
      BY <3>1, <3>2, SegmentType
    <3>4. /\ Segment.vaddr \in Address /\ Segment.filesz \in Address
          /\ Segment.memsz \in Address /\ Segment.offset \in Address
      BY <3>3 DEF Phdr
    <3>5. CASE MapZeroSegment
      <4>1. PICK l \in do_mmap(vmas[task_mm], Segment.vaddr, Segment.memsz, NULL, 0) :
              vmas' = [vmas EXCEPT ![task_mm] = l]
        BY <3>5 DEF MapZeroSegment, vm_brk_flags
      <4> QED
        BY <1>1, <1>3, <1>5, <1>6, <3>1, <3>4, <4>1, MapKeepsFiles
    <3>6. CASE MapFileSegment
      <4>1. PICK l \in do_mmap(vmas[task_mm], Segment.vaddr, Segment.filesz, file, Segment.offset) :
              vmas' = [vmas EXCEPT ![task_mm] = l]
        BY <3>6 DEF MapFileSegment
      <4> QED
        BY <1>1, <1>3, <1>5, <1>6, <3>1, <3>4, <4>1, MapKeepsFiles
    <3>7. CASE MapZeros
      <4>1. PICK l \in do_mmap(vmas[task_mm], ZerosStart, ZerosEnd - ZerosStart, NULL, 0) :
              vmas' = [vmas EXCEPT ![task_mm] = l]
        BY <3>7 DEF MapZeros, vm_brk_flags
      <4>2. FileEnd \in Nat /\ ZerosEnd \in Nat
        BY <1>6, <3>4, VmaAssumption DEF FileEnd, ZerosEnd
      <4>3. ZerosStart \in Address /\ ZerosEnd > ZerosStart
        BY <3>7, <4>2, AlignType DEF ZerosStart, MapZeros
      <4>4. ZerosEnd - ZerosStart \in Nat
        BY <1>6, <4>2, <4>3
      <4> QED
        BY <1>1, <1>3, <1>5, <1>6, <3>1, <4>1, <4>3, <4>4, MapKeepsFiles
    <3> QED
      BY <2>2, <3>5, <3>6, <3>7
  <2> QED
    BY <2>1, <2>2
<1> QED
  BY <1>2, <1>4, <1>7 DEF ResourceInv

(* The steps of elf32_load_exec that map nothing; padzero borrows CR3 for  *)
(* the loader at boot.                                                     *)
LEMMA WalkResource ==
  ASSUME Inv, ResourceInv, ReadHeaders \/ SkipSegment \/ PadEnter \/ PadZero \/ NoZeros \/ LoadFails
  PROVE  ResourceInv'
<1>1. UNCHANGED <<vmas, pgd, pt, pte, pd_in_use, pt_in_use, frame_in_use, task_mm, old_mm, ref,
                  file, leaked, booting>>
  BY DEF ReadHeaders, SkipSegment, PadEnter, PadZero, NoZeros, LoadFails, loader, pools, files
<1>2. PoolInv' /\ Live' = Live
  BY <1>1, PoolFrame DEF ResourceInv
<1>3. pc' \in {"segment", "zero", "brk", "spin", "fail", "panic"}
  BY DEF ReadHeaders, SkipSegment, PadEnter, PadZero, NoZeros, LoadFails, NextSegment
<1>4. FileInv'
  BY <1>1, <1>3, FileFrame DEF ResourceInv
<1>5. cr3' \in pd_in_use \cup {0} /\ ((task_mm # NULL /\ ~booting) => cr3' = pgd[task_mm])
  <2>1. CASE PadEnter
    <3>1. task_mm \in Mm /\ task_mm \in Live
      BY <2>1, VmAssumption DEF PadEnter, Inv, LoaderInv, ResourceInv, SpaceInv
    <3> QED
      BY <2>1, <3>1 DEF PadEnter, ResourceInv, PoolInv
  <2>2. CASE PadZero
    BY <2>2 DEF PadZero, ResourceInv, SpaceInv
  <2>3. CASE ReadHeaders \/ SkipSegment \/ NoZeros \/ LoadFails
    <3>1. cr3' = cr3
      BY <2>3 DEF ReadHeaders, SkipSegment, NoZeros, LoadFails
    <3> QED
      BY <3>1 DEF ResourceInv, SpaceInv
  <2> QED
    BY <2>1, <2>2, <2>3
<1>6. SpaceInv'
  BY <1>1, <1>2, <1>3, <1>5 DEF ResourceInv, SpaceInv
<1> QED
  BY <1>2, <1>4, <1>6 DEF ResourceInv

(* release_mm gives back all that one address space has, and nothing else. *)
LEMMA ReleasePools ==
  ASSUME Inv, ResourceInv, NEW m \in Live, release_mm(m)
  PROVE  PoolInv' /\ Live' = Live \ {m} /\ pd_in_use' = pd_in_use \ {pgd[m]}
<1>1. /\ pt_in_use' = pt_in_use \ {pt[m][i] : i \in Pde}
      /\ frame_in_use' = frame_in_use \ {pte[m][p] : p \in {p \in Page : pt[m][PdeIndex(p)] # 0}}
      /\ pd_in_use' = pd_in_use \ {pgd[m]}
      /\ pgd' = [pgd EXCEPT ![m] = 0]
      /\ pt' = [pt EXCEPT ![m] = [i \in Pde |-> 0]]
      /\ pte' = [pte EXCEPT ![m] = [p \in Page |-> 0]]
  BY DEF release_mm, FreeFrames
<1>2. m \in Mm /\ pgd[m] # 0
  BY DEF Live
<1>3. pt \in [Mm -> [Pde -> Nat]] /\ pte \in [Mm -> [Page -> Nat]] /\ pgd \in [Mm -> Nat]
  BY VmAssumption DEF Inv, TypeOK
<1>4. \A n \in Mm : pgd'[n] = IF n = m THEN 0 ELSE pgd[n]
  BY <1>1, <1>3
<1>5. Live' = Live \ {m}
  BY <1>4 DEF Live
<1>6. OneOwner(pt_in_use, pt, Pde)'
  <2> DEFINE freed == {pt[m][i] : i \in Pde}
  <2>1. /\ OneOwner(pt_in_use, pt, Pde) /\ freed \subseteq {pt[m][i] : i \in Pde}
        /\ \A i \in Pde : pt[m][i] # 0 => pt[m][i] \in freed
    BY DEF ResourceInv, PoolInv
  <2> HIDE DEF freed
  <2>2. OneOwner(pt_in_use \ freed, [pt EXCEPT ![m] = [i \in Pde |-> 0]], Pde)
    BY <1>2, <1>3, <2>1, OwnerFree
  <2>3. pt_in_use' = pt_in_use \ freed
    BY <1>1 DEF freed
  <2> QED
    BY <1>1, <2>2, <2>3 DEF OneOwner
<1>7. OneOwner(frame_in_use, pte, Page)'
  <2> DEFINE freed == {pte[m][p] : p \in {p \in Page : pt[m][PdeIndex(p)] # 0}}
  <2>1. /\ OneOwner(frame_in_use, pte, Page) /\ freed \subseteq {pte[m][p] : p \in Page}
        /\ \A p \in Page : pte[m][p] # 0 => pte[m][p] \in freed
    BY <1>2 DEF ResourceInv, PoolInv
  <2> HIDE DEF freed
  <2>2. OneOwner(frame_in_use \ freed, [pte EXCEPT ![m] = [p \in Page |-> 0]], Page)
    BY <1>2, <1>3, <2>1, OwnerFree
  <2>3. frame_in_use' = frame_in_use \ freed
    BY <1>1 DEF freed
  <2> QED
    BY <1>1, <2>2, <2>3 DEF OneOwner
<1>8. \A n \in Mm, p \in Page : pte'[n][p] # 0 => pt'[n][PdeIndex(p)] # 0
  <2>1. \A n \in Mm, p \in Page : pte'[n][p] = IF n = m THEN 0 ELSE pte[n][p]
    BY <1>1, <1>3
  <2>2. \A n \in Mm : n # m => pt'[n] = pt[n]
    BY <1>1, <1>3
  <2> QED
    BY <2>1, <2>2 DEF ResourceInv, PoolInv
<1>9. pd_in_use' = {pgd'[n] : n \in Live'}
  BY <1>1, <1>4, <1>5 DEF ResourceInv, PoolInv, Live
<1>10. \A n, o \in Live' : pgd'[n] = pgd'[o] => n = o
  BY <1>4, <1>5 DEF ResourceInv, PoolInv, Live
<1> QED
  BY <1>1, <1>5, <1>6, <1>7, <1>8, <1>9, <1>10 DEF PoolInv

(* A call that drops its file leaves it to the areas of the task, or to    *)
(* nobody.                                                                 *)
LEMMA DropFile ==
  ASSUME Inv, ResourceInv, file \in File \cup {NULL}, task_mm \in Mm, NEW gone,
         file' = NULL, leaked' = leaked \cup ({file} \ (MappedFiles(task_mm) \cup {NULL})),
         gone \in {{}} \cup {MappedFiles(m) : m \in Mm},
         \A m \in Mm : MappedFiles(m)' = MappedFiles(m) \ gone,
         \A f \in File : ref'[f] = ref[f] - (IF f \in gone THEN 1 ELSE 0)
  PROVE  FileInv'
<1>1. NULL \notin File /\ \A m \in Mm : NULL \notin MappedFiles(m) /\ MappedFiles(m) \subseteq File
  BY VmAssumption, FilesOf DEF MappedFiles
<1>2. \A m \in Mm : MappedFiles(m)' \subseteq MappedFiles(m)
  OBVIOUS
<1>3. FilesAccounted'
  <2> SUFFICES ASSUME NEW f \in File
               PROVE  ref'[f] = IF f \in leaked' \/ \E m \in Mm : f \in MappedFiles(m)' THEN 1 ELSE 0
    BY <1>1 DEF FilesAccounted
  <2>1. ref[f] = IF f \in leaked \/ f = file \/ \E m \in Mm : f \in MappedFiles(m) THEN 1 ELSE 0
    BY DEF ResourceInv, FileInv, FilesAccounted
  <2>2. CASE f \in gone
    <3>1. PICK m \in Mm : gone = MappedFiles(m)
      BY <2>2
    <3>2. f \notin leaked /\ \A n \in Mm : f \notin MappedFiles(n)'
      BY <2>2, <3>1 DEF ResourceInv, FileInv
    <3>3. f = file => f \in MappedFiles(task_mm)
      BY <2>2, <3>1 DEF ResourceInv, FileInv
    <3>4. ref[f] = 1
      BY <2>1, <2>2, <3>1
    <3> QED
      BY <2>2, <3>2, <3>3, <3>4
  <2>3. CASE f \notin gone
    <3>1. \A m \in Mm : f \in MappedFiles(m)' <=> f \in MappedFiles(m)
      BY <2>3
    <3>2. f \in leaked' <=> f \in leaked \/ (f = file /\ f \notin MappedFiles(task_mm))
      BY <1>1
    <3>3. ref'[f] = ref[f]
      <4>1. ref[f] \in Int
        BY <2>1
      <4> QED
        BY <2>3, <4>1
    <3> QED
      BY <2>1, <3>1, <3>2, <3>3
  <2> QED
    BY <2>2, <2>3
<1>4. \A m, n \in Mm : m # n => MappedFiles(m)' \cap MappedFiles(n)' = {}
  BY <1>2 DEF ResourceInv, FileInv
<1>5. \A m \in Mm : MappedFiles(m)' \cap leaked' = {}
  BY <1>2 DEF ResourceInv, FileInv
<1>6. file' \notin leaked' /\ \A m \in Mm : file' \notin MappedFiles(m)'
  BY <1>1, <1>2 DEF Inv, TypeOK
<1> QED
  BY <1>3, <1>4, <1>5, <1>6 DEF FileInv

LEMMA ReleaseFiles ==
  ASSUME Inv, ResourceInv, task_mm \in Mm, NEW m \in Mm, release_mm(m)
  PROVE  FileInv'
<1>1. CloseFiles(m) /\ vmas' = [vmas EXCEPT ![m] = <<>>]
  BY DEF release_mm
<1>2. file \in File \cup {NULL} /\ vmas \in [Mm -> Seq(Vma)]
  BY DEF Inv, TypeOK
<1>3. \A f \in File : ref'[f] = ref[f] - (IF f \in MappedFiles(m) THEN 1 ELSE 0)
  BY <1>1, ClosesOnce DEF CloseFiles
<1>4. \A n \in Mm : MappedFiles(n)' = MappedFiles(n) \ MappedFiles(m)
  <2>1. MappedFiles(m)' = {}
    <3>1. vmas'[m] = <<>>
      BY <1>1, <1>2
    <3> QED
      BY <3>1 DEF MappedFiles, ToSet
  <2>2. \A n \in Mm : n # m => MappedFiles(n)' = MappedFiles(n)
    BY <1>1, <1>2 DEF MappedFiles
  <2>3. \A n \in Mm : n # m => MappedFiles(n) \cap MappedFiles(m) = {}
    BY DEF ResourceInv, FileInv
  <2> QED
    BY <2>1, <2>2, <2>3
<1>5. file' = NULL /\ leaked' = leaked \cup ({file} \ (MappedFiles(task_mm) \cup {NULL}))
  BY <1>1 DEF CloseFiles
<1>6. MappedFiles(m) \in {{}} \cup {MappedFiles(n) : n \in Mm}
  OBVIOUS
<1> QED
  BY <1>2, <1>3, <1>4, <1>5, <1>6, DropFile

(* The end of a call, and the end of the task.                             *)
LEMMA EndResource ==
  ASSUME Inv, ResourceInv, EnterProc1 \/ ExecveDone \/ ExecveFailed \/ Exit
  PROVE  ResourceInv'
<1>1. NULL \notin Mm /\ NULL \notin Live
  BY VmAssumption DEF Live
<1>2. /\ task_mm \in Mm /\ task_mm \in Live
      /\ (ExecveDone \/ ExecveFailed) => old_mm \in Mm /\ old_mm \in Live /\ old_mm # task_mm /\ ~booting
  <2>1. task_mm \in Mm /\ (ExecveDone \/ ExecveFailed => old_mm \in Mm /\ ~booting)
    BY DEF EnterProc1, ExecveDone, ExecveFailed, Exit, Loaded, Inv, LoaderInv
  <2> QED
    BY <1>1, <2>1 DEF ResourceInv, SpaceInv
<1>3. CASE EnterProc1
  <2>1. /\ UNCHANGED <<vmas, pgd, pt, pte, pd_in_use, pt_in_use, frame_in_use, task_mm, old_mm, ref>>
        /\ cr3' = pgd[task_mm] /\ file' = NULL /\ leaked' = leaked \cup ({file} \ MappedFiles(task_mm))
        /\ booting /\ booting' = FALSE /\ pc' = "user" /\ file \in File
    BY <1>3 DEF EnterProc1, space, pools, Loaded, Inv, LoaderInv
  <2>2. PoolInv' /\ Live' = Live
    BY <2>1, PoolFrame DEF ResourceInv
  <2>3. SpaceInv'
    BY <1>2, <2>1, <2>2 DEF ResourceInv, SpaceInv, PoolInv
  <2> DEFINE gone == {}
  <2>4. \A m \in Mm : MappedFiles(m)' = MappedFiles(m) \ gone
    BY <2>1 DEF MappedFiles
  <2>5. /\ leaked' = leaked \cup ({file} \ (MappedFiles(task_mm) \cup {NULL}))
        /\ \A f \in File : ref'[f] = ref[f] - (IF f \in gone THEN 1 ELSE 0)
        /\ gone \in {{}} \cup {MappedFiles(m) : m \in Mm}
    BY <2>1, VmAssumption DEF Inv, TypeOK
  <2> HIDE DEF gone
  <2>6. FileInv'
    BY <1>2, <2>1, <2>4, <2>5, DropFile
  <2> QED
    BY <2>2, <2>3, <2>6 DEF ResourceInv
<1>4. CASE ExecveDone
  <2>1. release_mm(old_mm) /\ old_mm' = NULL /\ pc' = "user" /\ UNCHANGED <<cr3, task_mm, booting>>
    BY <1>4 DEF ExecveDone
  <2>2. PoolInv' /\ Live' = Live \ {old_mm} /\ pd_in_use' = pd_in_use \ {pgd[old_mm]}
    BY <1>2, <1>4, <2>1, ReleasePools
  <2>3. pgd[task_mm] # pgd[old_mm] /\ pgd[task_mm] \in pd_in_use /\ pgd'[task_mm] = pgd[task_mm]
    BY <1>2, <1>4, <2>1 DEF ResourceInv, PoolInv, release_mm, Inv, TypeOK
  <2>4. SpaceInv'
    BY <1>1, <1>2, <1>4, <2>1, <2>2, <2>3 DEF ResourceInv, SpaceInv
  <2>5. FileInv'
    BY <1>2, <1>4, <2>1, ReleaseFiles
  <2> QED
    BY <2>2, <2>4, <2>5 DEF ResourceInv
<1>5. CASE ExecveFailed
  <2>1. /\ release_mm(task_mm) /\ task_mm' = old_mm /\ old_mm' = NULL /\ pc' = "user"
        /\ cr3' = pgd[old_mm] /\ UNCHANGED booting
    BY <1>5 DEF ExecveFailed
  <2>2. PoolInv' /\ Live' = Live \ {task_mm} /\ pd_in_use' = pd_in_use \ {pgd[task_mm]}
    BY <1>2, <2>1, ReleasePools
  <2>3. pgd[task_mm] # pgd[old_mm] /\ pgd[old_mm] \in pd_in_use /\ pgd'[old_mm] = pgd[old_mm]
    BY <1>2, <1>5, <2>1 DEF ResourceInv, PoolInv, release_mm, Inv, TypeOK
  <2>4. SpaceInv'
    BY <1>1, <1>2, <1>5, <2>1, <2>2, <2>3 DEF ResourceInv, SpaceInv
  <2>5. FileInv'
    BY <1>2, <2>1, ReleaseFiles
  <2> QED
    BY <2>2, <2>4, <2>5 DEF ResourceInv
<1>6. CASE Exit
  <2>1. /\ release_mm(task_mm) /\ task_mm' = NULL /\ cr3' = 0 /\ pc = "user" /\ pc' = "exited"
        /\ UNCHANGED <<old_mm, booting>>
    BY <1>6 DEF Exit
  <2>2. PoolInv' /\ Live' = Live \ {task_mm}
    BY <1>2, <2>1, ReleasePools
  <2>3. SpaceInv'
    BY <1>1, <1>2, <2>1, <2>2 DEF ResourceInv, SpaceInv
  <2>4. FileInv'
    BY <1>2, <2>1, ReleaseFiles
  <2> QED
    BY <2>2, <2>3, <2>4 DEF ResourceInv
<1> QED
  BY <1>3, <1>4, <1>5, <1>6

LEMMA StutterResource ==
  ASSUME Inv, ResourceInv, UNCHANGED vars
  PROVE  ResourceInv'
<1>1. UNCHANGED <<vmas, pgd, pt, pte, pd_in_use, pt_in_use, frame_in_use, cr3, task_mm, old_mm,
                  ref, file, leaked, pc, booting>>
  BY DEF vars, space, pools, files
<1>2. PoolInv' /\ Live' = Live
  BY <1>1, PoolFrame DEF ResourceInv
<1>3. \A m \in Mm : MappedFiles(m)' = MappedFiles(m)
  BY <1>1 DEF MappedFiles
<1>4. FilesAccounted'
  BY <1>1, <1>3 DEF ResourceInv, FileInv, FilesAccounted
<1>5. FileInv'
  BY <1>1, <1>3, <1>4 DEF ResourceInv, FileInv
<1>6. SpaceInv'
  BY <1>1, <1>2 DEF ResourceInv, SpaceInv
<1> QED
  BY <1>2, <1>5, <1>6 DEF ResourceInv

----------------------------------------------------------------------------
(* The theorems.                                                           *)

(* Every resource of the address spaces has its owner in every reachable   *)
(* state, wherever a fault, a load or a call failed.                       *)
THEOREM ResourcesOwned == Spec => []ResourceInv
<1>1. Inv /\ ResourceInv /\ [Next]_vars => ResourceInv'
  <2> SUFFICES ASSUME Inv, ResourceInv, [Next]_vars PROVE ResourceInv'
    OBVIOUS
  <2>1. CASE \E a \in Address : PageFault(a) \/ PageFaultPanic(a) \/ PageFaultReadFails(a)
    BY <2>1, FaultResource
  <2>2. CASE \E m \in Mm : SpawnProc1(m) \/ ExecveCreate(m)
    BY <2>2, CreateResource
  <2>3. CASE (\E p \in Program, f \in File : OpenProc1(p, f) \/ ExecveOpen(p, f)) \/ ExecveNoMm
    BY <2>3, OpenResource
  <2>4. CASE MapStack \/ MapZeroSegment \/ MapFileSegment \/ MapZeros
    BY <2>4, MapResource
  <2>5. CASE ReadHeaders \/ SkipSegment \/ PadEnter \/ PadZero \/ NoZeros \/ LoadFails
    BY <2>5, WalkResource
  <2>6. CASE EnterProc1 \/ ExecveDone \/ ExecveFailed \/ Exit
    BY <2>6, EndResource
  <2>7. CASE Stopped \/ UNCHANGED vars
    BY <2>7, StutterResource DEF Stopped
  <2> QED
    BY <2>1, <2>2, <2>3, <2>4, <2>5, <2>6, <2>7 DEF Next
<1> QED
  BY <1>1, InitResource, Inductive, PTL DEF Spec

(* CR3 never names a page directory that release_mm gave back, and a       *)
(* program runs in its own.                                                *)
THEOREM Cr3AlwaysValid == Spec => []Cr3Valid
<1>1. Inv /\ ResourceInv => Cr3Valid
  <2> SUFFICES ASSUME Inv, ResourceInv PROVE Cr3Valid
    OBVIOUS
  <2>1. pc = "user" => Live = {task_mm}
    <3>1. NULL \notin Live
      BY VmAssumption DEF Live
    <3>2. pc = "user" => task_mm \in Mm /\ task_mm # NULL
      BY VmAssumption DEF Inv, LoaderInv
    <3> QED
      BY <3>1, <3>2 DEF ResourceInv, SpaceInv
  <2> QED
    BY <2>1 DEF ResourceInv, SpaceInv, Cr3Valid
<1> QED
  BY <1>1, Inductive, ResourcesOwned, PTL

(* A file is closed once, and not before the last area that needs it is    *)
(* gone.                                                                   *)
THEOREM FilesBalanced == Spec => []FilesAccounted
<1>1. ResourceInv => FilesAccounted
  BY DEF ResourceInv, FileInv
<1> QED
  BY <1>1, ResourcesOwned, PTL

(* No directory, table or frame is lost or shared.                         *)
THEOREM PoolsBalanced == Spec => []PoolsAccounted
<1>1. Inv /\ ResourceInv => PoolsAccounted
  <2> SUFFICES ASSUME Inv, ResourceInv PROVE PoolsAccounted
    OBVIOUS
  <2>1. pt \in [Mm -> [Pde -> Nat]] /\ pte \in [Mm -> [Page -> Nat]] /\ pgd \in [Mm -> Nat]
    BY VmAssumption DEF Inv, TypeOK
  <2>2. IsFiniteSet(pd_in_use) /\ IsFiniteSet(pt_in_use) /\ IsFiniteSet(frame_in_use)
    <3>1. IsFiniteSet(1..PD_POOL) /\ IsFiniteSet(1..PT_POOL) /\ IsFiniteSet(1..FRAMES)
      BY VmAssumption, FS_Interval
    <3> QED
      BY <3>1, FS_Subset DEF Inv, TypeOK
  <2>3. pd_in_use = {pgd[m] : m \in Live} /\ Cardinality(pd_in_use) = Cardinality(Live)
    <3> DEFINE g == [m \in Live |-> pgd[m]]
    <3>1. pd_in_use = {pgd[m] : m \in Live} /\ \A m, n \in Live : pgd[m] = pgd[n] => m = n
      BY DEF ResourceInv, PoolInv
    <3>2. /\ g \in [Live -> pd_in_use] /\ \A y \in pd_in_use : \E x \in Live : g[x] = y
          /\ \A x, y \in Live : g[x] = g[y] => x = y
      BY <3>1
    <3> HIDE DEF g
    <3> QED
      BY <2>2, <3>1, <3>2, CountOnce
  <2>a. OneOwner(pt_in_use, pt, Pde) /\ OneOwner(frame_in_use, pte, Page)
    BY DEF ResourceInv, PoolInv
  <2>4. /\ pt_in_use = {pt[x[1]][x[2]] : x \in Entries(pt, Pde)}
        /\ Cardinality(pt_in_use) = Cardinality(Entries(pt, Pde))
    BY <2>1, <2>2, <2>a, OwnerCount
  <2>5. /\ frame_in_use = {pte[x[1]][x[2]] : x \in Entries(pte, Page)}
        /\ Cardinality(frame_in_use) = Cardinality(Entries(pte, Page))
    BY <2>1, <2>2, <2>a, OwnerCount
  <2>6. \A x \in Entries(pte, Page) : pt[x[1]][PdeIndex(x[2])] # 0
    BY DEF ResourceInv, PoolInv, Entries
  <2> QED
    BY <2>3, <2>4, <2>5, <2>6 DEF PoolsAccounted, Entries
<1> QED
  BY <1>1, Inductive, ResourcesOwned, PTL

----------------------------------------------------------------------------
(***************************************************************************)
(* Images.                                                                 *)
(***************************************************************************)

(* Addresses and pages: what align_down and align_up of mmap.c compute.    *)
LEMMA PageArith ==
  ASSUME NEW a \in Nat
  PROVE  /\ a \div PAGE_SIZE \in Nat /\ a % PAGE_SIZE \in 0..(PAGE_SIZE - 1)
         /\ a = PAGE_SIZE * (a \div PAGE_SIZE) + (a % PAGE_SIZE)
         /\ align_down(a) = PAGE_SIZE * (a \div PAGE_SIZE)
         /\ align_down(a) \in Nat /\ align_down(a) <= a /\ a < align_down(a) + PAGE_SIZE
<1>1. PAGE_SIZE \in Nat \ {0}
  BY VmaAssumption
<1>a. a \div PAGE_SIZE \in Nat
  BY <1>1
<1>b. a % PAGE_SIZE \in 0..(PAGE_SIZE - 1)
  BY <1>1
<1>c. a = PAGE_SIZE * (a \div PAGE_SIZE) + (a % PAGE_SIZE)
  BY <1>1
<1>2. /\ a \div PAGE_SIZE \in Nat /\ a % PAGE_SIZE \in 0..(PAGE_SIZE - 1)
      /\ a = PAGE_SIZE * (a \div PAGE_SIZE) + (a % PAGE_SIZE)
  BY <1>a, <1>b, <1>c
<1>3. align_down(a) = a - (a % PAGE_SIZE)
  BY DEF align_down
<1> DEFINE q == a \div PAGE_SIZE
           r == a % PAGE_SIZE
           z == PAGE_SIZE * q
<1>4. q \in Nat /\ r \in 0..(PAGE_SIZE - 1) /\ a = z + r /\ align_down(a) = a - r
  BY <1>2, <1>3
<1>5. z \in Nat
  BY <1>1, <1>4
<1> HIDE DEF q, r, z
<1>6. align_down(a) = z /\ align_down(a) \in Nat /\ align_down(a) <= a /\ a < align_down(a) + PAGE_SIZE
  BY <1>1, <1>4, <1>5
<1> QED
  BY <1>2, <1>6 DEF z, q

(* A multiple of the page size lies at or before all of a page or behind it. *)
LEMMA SamePage ==
  ASSUME NEW s \in Nat, s % PAGE_SIZE = 0, NEW a \in Nat, NEW b \in Nat,
         a \div PAGE_SIZE = b \div PAGE_SIZE, s <= a
  PROVE  s <= b
<1>1. PAGE_SIZE \in Nat \ {0}
  BY VmaAssumption
<1> DEFINE q == s \div PAGE_SIZE
           r == a \div PAGE_SIZE
           x == a % PAGE_SIZE
           y == b % PAGE_SIZE
<1>2. q \in Nat /\ s = PAGE_SIZE * q
  BY <1>1
<1>3. r \in Nat /\ x \in 0..(PAGE_SIZE - 1) /\ a = PAGE_SIZE * r + x
  BY <1>1
<1>4. y \in 0..(PAGE_SIZE - 1) /\ b = PAGE_SIZE * r + y
  BY <1>1
<1> HIDE DEF q, r, x, y
<1>5. PAGE_SIZE * q < PAGE_SIZE * (r + 1)
  BY <1>1, <1>2, <1>3
<1>6. q < r + 1
  BY <1>1, <1>2, <1>3, <1>5
<1>7. q <= r
  BY <1>2, <1>3, <1>6
<1>8. PAGE_SIZE * q <= PAGE_SIZE * r
  BY <1>1, <1>2, <1>3, <1>7
<1>9. PAGE_SIZE * q \in Nat /\ PAGE_SIZE * r \in Nat
  BY <1>1, <1>2, <1>3
<1> QED
  BY <1>2, <1>4, <1>8, <1>9

(* Two addresses on one page align to the same address.                    *)
LEMMA SameAlign ==
  ASSUME NEW a \in Nat, NEW b \in Nat, a \div PAGE_SIZE = b \div PAGE_SIZE
  PROVE  align_down(a) = align_down(b)
<1>1. align_down(a) = PAGE_SIZE * (a \div PAGE_SIZE) /\ align_down(b) = PAGE_SIZE * (b \div PAGE_SIZE)
  BY PageArith
<1> QED
  BY <1>1

(* A multiple of the page size, and what is less than a page above it.     *)
LEMMA InPage ==
  ASSUME NEW s \in Nat, s % PAGE_SIZE = 0, NEW a \in Nat, s <= a, a < s + PAGE_SIZE
  PROVE  align_down(a) = s /\ a \div PAGE_SIZE = s \div PAGE_SIZE /\ a % PAGE_SIZE = a - s
<1>1. PAGE_SIZE \in Nat \ {0}
  BY VmaAssumption
<1>2. align_down(a) \in Nat /\ align_down(a) <= a /\ a < align_down(a) + PAGE_SIZE
  BY PageArith
<1>3. align_down(a) % PAGE_SIZE = 0
  <2>1. align_down(a) = PAGE_SIZE * (a \div PAGE_SIZE) /\ a \div PAGE_SIZE \in Nat
    BY PageArith
  <2> QED BY <1>1, <2>1
<1> DEFINE q == s \div PAGE_SIZE
           r == a \div PAGE_SIZE
<1>4. q \in Nat /\ s = PAGE_SIZE * q
  BY <1>1
<1>5. r \in Nat /\ align_down(a) = PAGE_SIZE * r
  BY PageArith
<1> HIDE DEF q, r
<1>6. PAGE_SIZE * q < PAGE_SIZE * (r + 1) /\ PAGE_SIZE * r < PAGE_SIZE * (q + 1)
  BY <1>1, <1>2, <1>4, <1>5
<1>7. q < r + 1 /\ r < q + 1
  BY <1>1, <1>4, <1>5, <1>6
<1>8. q = r
  BY <1>4, <1>5, <1>7
<1>9. align_down(a) = s /\ a \div PAGE_SIZE = s \div PAGE_SIZE
  BY <1>4, <1>5, <1>8 DEF q, r
<1>10. a % PAGE_SIZE \in Int /\ align_down(a) = a - (a % PAGE_SIZE)
  BY <1>1 DEF align_down
<1> QED
  BY <1>9, <1>10

(* align_up of an address that is not on the last page.                    *)
LEMMA AlignUp ==
  ASSUME NEW a \in Nat, a + PAGE_SIZE - 1 < ADDRESS_SPACE
  PROVE  /\ align_up(a) \in Nat /\ a <= align_up(a) /\ align_up(a) < a + PAGE_SIZE
         /\ align_up(a) % PAGE_SIZE = 0
         /\ align_up(a) = IF a % PAGE_SIZE = 0 THEN a ELSE align_down(a) + PAGE_SIZE
<1>1. PAGE_SIZE \in Nat \ {0} /\ ADDRESS_SPACE \in Nat \ {0}
  BY VmaAssumption
<1> DEFINE b == a + PAGE_SIZE - 1
<1>2. b \in Nat /\ b < ADDRESS_SPACE
  BY <1>1
<1>3. b % ADDRESS_SPACE = b
  BY <1>1, <1>2
<1>4. align_up(a) = align_down(b)
  BY <1>3 DEF align_up
<1>5. align_down(b) \in Nat /\ align_down(b) <= b /\ b < align_down(b) + PAGE_SIZE
  BY <1>2, PageArith
<1>6. align_down(b) % PAGE_SIZE = 0
  <2>1. align_down(b) = PAGE_SIZE * (b \div PAGE_SIZE) /\ b \div PAGE_SIZE \in Nat
    BY <1>2, PageArith
  <2> HIDE DEF b
  <2> QED BY <1>1, <2>1
<1>7. a <= align_down(b) /\ align_down(b) < a + PAGE_SIZE
  BY <1>1, <1>5
<1>8. CASE a % PAGE_SIZE = 0
  <2>1. a <= b /\ b < a + PAGE_SIZE
    BY <1>1
  <2>2. align_down(b) = a
    BY <1>2, <1>8, <2>1, InPage
  <2> QED BY <1>4, <1>5, <1>6, <1>7, <1>8, <2>2
<1>9. CASE a % PAGE_SIZE # 0
  <2> DEFINE s == align_down(a)
             t == s + PAGE_SIZE
  <2>1. s \in Nat /\ a % PAGE_SIZE \in 0..(PAGE_SIZE - 1) /\ s = a - (a % PAGE_SIZE)
    BY PageArith DEF align_down
  <2>2. t <= b /\ b < t + PAGE_SIZE /\ t \in Nat
    BY <1>1, <1>9, <2>1
  <2>3. t % PAGE_SIZE = 0
    <3>1. s = PAGE_SIZE * (a \div PAGE_SIZE) /\ a \div PAGE_SIZE \in Nat
      BY PageArith
    <3>2. t = PAGE_SIZE * (a \div PAGE_SIZE + 1)
      BY <1>1, <3>1
    <3> QED BY <1>1, <3>1, <3>2
  <2>4. align_down(b) = t
    BY <1>2, <2>2, <2>3, InPage
  <2> QED BY <1>4, <1>5, <1>6, <1>7, <1>9, <2>4
<1> QED
  BY <1>8, <1>9

(* Multiples of the page size in the address space leave room for a page.  *)
LEMMA LastPage ==
  ASSUME NEW s \in Address, s % PAGE_SIZE = 0
  PROVE  s + PAGE_SIZE <= ADDRESS_SPACE
<1>1. /\ PAGE_SIZE \in Nat \ {0} /\ ADDRESS_SPACE \in Nat \ {0} /\ ADDRESS_SPACE % PAGE_SIZE = 0
      /\ s \in Nat /\ s < ADDRESS_SPACE
  BY VmaAssumption DEF Address
<1> DEFINE q == s \div PAGE_SIZE
           r == ADDRESS_SPACE \div PAGE_SIZE
<1>2. q \in Nat /\ s = PAGE_SIZE * q
  BY <1>1
<1>3. r \in Nat /\ ADDRESS_SPACE = PAGE_SIZE * r
  BY <1>1
<1> HIDE DEF q, r
<1>4. PAGE_SIZE * q < PAGE_SIZE * r
  BY <1>1, <1>2, <1>3
<1>5. q < r
  BY <1>1, <1>2, <1>3, <1>4
<1>6. PAGE_SIZE * (q + 1) <= PAGE_SIZE * r
  BY <1>1, <1>2, <1>3, <1>5
<1> QED
  BY <1>1, <1>2, <1>3, <1>6

(* align_up gives a multiple of the page size, also where it wraps.        *)
LEMMA AlignedUp ==
  ASSUME NEW a \in Nat
  PROVE  align_up(a) \in Address /\ align_up(a) % PAGE_SIZE = 0 /\ align_down(a) % PAGE_SIZE = 0
<1>1. PAGE_SIZE \in Nat \ {0} /\ ADDRESS_SPACE \in Nat \ {0}
  BY VmaAssumption
<1>2. \A b \in Nat : align_down(b) % PAGE_SIZE = 0
  <2> SUFFICES ASSUME NEW b \in Nat PROVE align_down(b) % PAGE_SIZE = 0
    OBVIOUS
  <2>1. align_down(b) = PAGE_SIZE * (b \div PAGE_SIZE) /\ b \div PAGE_SIZE \in Nat
    BY PageArith
  <2> QED BY <1>1, <2>1
<1>3. (a + PAGE_SIZE - 1) % ADDRESS_SPACE \in Nat
  BY <1>1
<1>4. align_up(a) \in Address
  BY AlignType
<1> QED
  BY <1>2, <1>3, <1>4 DEF align_up

----------------------------------------------------------------------------
(* Areas.                                                                  *)

Aligned(l) == \A i \in DOMAIN l : l[i].vm_start % PAGE_SIZE = 0 /\ l[i].vm_end % PAGE_SIZE = 0

(* find_vma answers with an area of the list that holds the address, or    *)
(* there is none.                                                          *)
LEMMA FindVma ==
  ASSUME NEW l \in Seq(Vma), NEW a
  PROVE  \/ find_vma(l, a) = NULL /\ \A i \in 1..Len(l) : ~Holds(l[i], a)
         \/ find_vma(l, a) # NULL /\ \E i \in 1..Len(l) : Holds(l[i], a) /\ find_vma(l, a) = l[i]
<1> DEFINE I == {i \in 1..Len(l) : Holds(l[i], a)}
<1>1. find_vma(l, a) = LET at == IF I # {} THEN Min(I) ELSE 0
                       IN  IF at = 0 THEN NULL ELSE l[at]
  BY DEF find_vma, SelectInSeq
<1>2. CASE I = {}
  BY <1>1, <1>2
<1>3. CASE I # {}
  <2>1. I \in SUBSET Nat
    OBVIOUS
  <2>2. Min(I) \in I
    BY <1>3, <2>1, MinInSet
  <2>3. Min(I) \in 1..Len(l) /\ Holds(l[Min(I)], a) /\ Min(I) # 0
    BY <2>2
  <2> HIDE DEF I
  <2>4. find_vma(l, a) = l[Min(I)]
    BY <1>1, <1>3, <2>3
  <2>5. l[Min(I)] \in Vma
    BY <2>3
  <2>6. l[Min(I)] # NULL
    BY <2>5, VmAssumption
  <2> QED
    BY <2>3, <2>4, <2>6
<1> QED
  BY <1>2, <1>3

(* In a list of disjoint areas an address has one area.                    *)
LEMMA HoldsOnce ==
  ASSUME NEW l \in Seq(Vma), Disjoint(l), NEW a \in Nat,
         NEW i \in 1..Len(l), NEW j \in 1..Len(l), Holds(l[i], a), Holds(l[j], a)
  PROVE  i = j
<1>1. \A w \in Vma : w.vm_start \in Nat /\ w.vm_end \in Nat
  BY DEF Vma, Address
<1>2. l[i] \in Vma /\ l[j] \in Vma /\ Len(l) \in Nat
  OBVIOUS
<1>3. \A x, y \in 1..Len(l) : x < y => l[x].vm_end <= l[y].vm_start
  BY DEF Disjoint
<1>4. ~(i < j) /\ ~(j < i)
  BY <1>1, <1>2, <1>3 DEF Holds
<1> QED
  BY <1>2, <1>4

LEMMA FindHolds ==
  ASSUME NEW l \in Seq(Vma), Disjoint(l), NEW a \in Nat, NEW i \in 1..Len(l), Holds(l[i], a)
  PROVE  find_vma(l, a) = l[i] /\ find_vma(l, a) # NULL
<1>1. PICK j \in 1..Len(l) : find_vma(l, a) # NULL /\ Holds(l[j], a) /\ find_vma(l, a) = l[j]
  BY FindVma
<1>2. i = j
  BY <1>1, HoldsOnce
<1> QED
  BY <1>1, <1>2

(* The addresses of a page are all in the same area.                       *)
LEMMA FindPage ==
  ASSUME NEW l \in Seq(Vma), Disjoint(l), Aligned(l), NEW a \in Nat, NEW b \in Nat,
         PageOf(a) = PageOf(b)
  PROVE  find_vma(l, a) = find_vma(l, b)
<1>1. a \div PAGE_SIZE = b \div PAGE_SIZE
  BY DEF PageOf
<1>2. ASSUME NEW i \in 1..Len(l), NEW x \in Nat, NEW y \in Nat,
             x \div PAGE_SIZE = y \div PAGE_SIZE, Holds(l[i], x)
      PROVE  Holds(l[i], y)
  <2>1. \A w \in Vma : w.vm_start \in Nat /\ w.vm_end \in Nat
    BY DEF Vma, Address
  <2>2. l[i] \in Vma
    OBVIOUS
  <2>3. /\ l[i].vm_start \in Nat /\ l[i].vm_end \in Nat
        /\ l[i].vm_start % PAGE_SIZE = 0 /\ l[i].vm_end % PAGE_SIZE = 0
    BY <2>1, <2>2 DEF Aligned
  <2>4. l[i].vm_start <= x /\ x < l[i].vm_end
    BY <1>2 DEF Holds
  <2>5. l[i].vm_start <= y
    BY <1>2, <2>3, <2>4, SamePage
  <2>6. ~(l[i].vm_end <= y)
    <3>1. l[i].vm_end <= y => l[i].vm_end <= x
      BY <1>2, <2>3, SamePage
    <3> QED BY <2>3, <2>4, <3>1
  <2> QED BY <2>3, <2>5, <2>6 DEF Holds
<1>3. CASE find_vma(l, a) # NULL
  <2>1. PICK i \in 1..Len(l) : Holds(l[i], a) /\ find_vma(l, a) = l[i]
    BY <1>3, FindVma
  <2>2. Holds(l[i], b)
    BY <1>1, <1>2, <2>1
  <2> QED BY <2>1, <2>2, FindHolds
<1>4. CASE find_vma(l, a) = NULL
  <2>1. \A i \in 1..Len(l) : ~Holds(l[i], a)
    BY <1>4, FindVma
  <2>2. \A i \in 1..Len(l) : ~Holds(l[i], b)
    BY <1>1, <1>2, <2>1
  <2> QED BY <1>4, <2>2, FindVma
<1> QED
  BY <1>3, <1>4

LEMMA InsertEntry ==
  ASSUME NEW l \in Seq(Vma), NEW v \in Vma, NEW k \in 1..(Len(l) + 1)
  PROVE  \A i \in 1..(Len(l) + 1) :
           InsertAt(l, k, v)[i] = IF i < k THEN l[i] ELSE IF i = k THEN v ELSE l[i - 1]
  BY InsertAtSeq

(* do_mmap keeps the area of every address that has one; the addresses of  *)
(* the new area had none.                                                  *)
LEMMA FindInserted ==
  ASSUME NEW l \in Seq(Vma), Disjoint(l), Aligned(l),
         NEW addr \in Address, NEW length \in Nat, NEW f \in File \cup {NULL},
         NEW offset \in Address, NEW r \in do_mmap(l, addr, length, f, offset),
         NEW v, v = NewVma(addr, length, f, offset)
  PROVE  /\ v \in Vma /\ r \in Seq(Vma) /\ Disjoint(r) /\ Aligned(r)
         /\ \A a \in Nat : find_vma(l, a) # NULL => find_vma(r, a) = find_vma(l, a)
         /\ \A a \in Nat : Holds(v, a) =>
              find_vma(l, a) = NULL /\ find_vma(r, a) = v /\ find_vma(r, a) # NULL
<1>1. PICK k \in 1..(Len(l) + 1) :
        /\ r = InsertAt(l, k, v)
        /\ f # NULL => offset >= addr - align_down(addr)
  BY DEF do_mmap
<1>2. v \in Vma
  BY <1>1, NewVmaType
<1>3. r \in Seq(Vma) /\ Disjoint(r)
  BY MmapKeepsDisjoint
<1>4. v.vm_start % PAGE_SIZE = 0 /\ v.vm_end % PAGE_SIZE = 0
  <2>1. addr \in Nat /\ (addr + length) % ADDRESS_SPACE \in Nat
    BY VmaAssumption DEF Address
  <2> QED
    BY <2>1, AlignedUp DEF NewVma
<1>5. Len(l) \in Nat /\ k \in Nat
  OBVIOUS
<1>6. /\ Len(r) = Len(l) + 1
      /\ \A i \in 1..(Len(l) + 1) : r[i] = IF i < k THEN l[i] ELSE IF i = k THEN v ELSE l[i - 1]
  <2>1. Len(r) = Len(l) + 1
    BY <1>1, <1>2, InsertAtSeq
  <2>2. \A i \in 1..(Len(l) + 1) :
          InsertAt(l, k, v)[i] = IF i < k THEN l[i] ELSE IF i = k THEN v ELSE l[i - 1]
    BY <1>2, InsertEntry
  <2> QED BY <1>1, <2>1, <2>2
<1>7. ASSUME NEW i \in 1..Len(l) PROVE \E j \in 1..Len(r) : j # k /\ r[j] = l[i]
  <2>1. CASE i < k
    <3>1. i \in 1..Len(r) /\ i \in 1..(Len(l) + 1) /\ i # k
      BY <1>5, <1>6, <2>1
    <3> QED BY <1>6, <2>1, <3>1
  <2>2. CASE i >= k
    <3>1. /\ i + 1 \in 1..Len(r) /\ i + 1 \in 1..(Len(l) + 1) /\ i + 1 # k
          /\ ~(i + 1 < k) /\ i + 1 - 1 = i
      BY <1>5, <1>6, <2>2
    <3>2. r[i + 1] = l[i]
      BY <1>6, <3>1
    <3> QED BY <3>1, <3>2
  <2> QED BY <1>5, <2>1, <2>2
<1>8. k \in 1..Len(r) /\ r[k] = v
  BY <1>5, <1>6
<1>9. Aligned(r)
  <2> SUFFICES ASSUME NEW i \in 1..Len(r)
               PROVE  r[i].vm_start % PAGE_SIZE = 0 /\ r[i].vm_end % PAGE_SIZE = 0
    BY <1>3 DEF Aligned
  <2>1. r[i] = v \/ \E j \in 1..Len(l) : r[i] = l[j]
    <3>1. i \in 1..(Len(l) + 1)
      BY <1>6
    <3>2. CASE i < k
      <4>1. i \in 1..Len(l) /\ r[i] = l[i]
        BY <1>5, <1>6, <3>1, <3>2
      <4> QED BY <4>1
    <3>3. CASE i = k
      BY <1>8, <3>3
    <3>4. CASE i > k
      <4>1. i - 1 \in 1..Len(l) /\ r[i] = l[i - 1]
        BY <1>5, <1>6, <3>1, <3>4
      <4> QED BY <4>1
    <3> QED BY <1>5, <3>1, <3>2, <3>3, <3>4
  <2>2. \A j \in 1..Len(l) : l[j].vm_start % PAGE_SIZE = 0 /\ l[j].vm_end % PAGE_SIZE = 0
    BY DEF Aligned
  <2> QED BY <1>4, <2>1, <2>2
<1>10. ASSUME NEW a \in Nat, find_vma(l, a) # NULL PROVE find_vma(r, a) = find_vma(l, a)
  <2>1. PICK i \in 1..Len(l) : Holds(l[i], a) /\ find_vma(l, a) = l[i]
    BY <1>10, FindVma
  <2>2. PICK j \in 1..Len(r) : r[j] = l[i]
    BY <1>7
  <2>3. Holds(r[j], a)
    BY <2>1, <2>2
  <2>4. find_vma(r, a) = r[j]
    BY <1>3, <2>3, FindHolds
  <2> QED BY <2>1, <2>2, <2>4
<1>11. ASSUME NEW a \in Nat, Holds(v, a)
       PROVE  find_vma(l, a) = NULL /\ find_vma(r, a) = v /\ find_vma(r, a) # NULL
  <2>1. Holds(r[k], a)
    BY <1>8, <1>11
  <2>2. find_vma(r, a) = v /\ find_vma(r, a) # NULL
    BY <1>3, <1>8, <2>1, FindHolds
  <2>3. ASSUME NEW i \in 1..Len(l), Holds(l[i], a) PROVE FALSE
    <3>1. PICK j \in 1..Len(r) : j # k /\ r[j] = l[i]
      BY <1>7
    <3>2. Holds(r[j], a)
      BY <2>3, <3>1
    <3> QED BY <1>3, <1>8, <2>1, <3>1, <3>2, HoldsOnce
  <2>4. find_vma(l, a) = NULL
    BY <2>3, FindVma
  <2> QED BY <2>2, <2>4
<1> QED
  BY <1>2, <1>3, <1>9, <1>10, <1>11

----------------------------------------------------------------------------
(* What is in an address space.                                            *)

Mapped(m, a) == find_vma(vmas[m], a) # NULL

(* The word that a page fault would bring.                                 *)
Demand(m, a) ==
  LET v == find_vma(vmas[m], a)
  IN  IF v.vm_file = NULL THEN Zero ELSE FilePage(v, a)[a % PAGE_SIZE]

(* The word at an address, whether its page is present or not.             *)
Content(m, a) ==
  IF pte[m][PageOf(a)] # 0 THEN word[pte[m][PageOf(a)]][a % PAGE_SIZE] ELSE Demand(m, a)

(* A step changes no word of an address space.                             *)
Keeps(m) ==
  \A a \in Address : Mapped(m, a) => Mapped(m, a)' /\ Content(m, a)' = Content(m, a)

ShownWord(m, p, s, i) ==
  Mapped(m, s.vaddr + i) /\ Content(m, s.vaddr + i) = SegmentWord(p, s, i)

(* The first n segments of executable p are in address space m.            *)
Shows(m, p, n) ==
  FilePartsFit(p) =>
    \A k \in DOMAIN p.segs : (k <= n /\ BelowTop(p.segs[k])) =>
      \A i \in 0..(p.segs[k].memsz - 1) : ShownWord(m, p, p.segs[k], i)

(* Segment s is there up to address e.                                     *)
PartShown(m, p, s, e) ==
  (FilePartsFit(p) /\ BelowTop(s)) =>
    \A i \in 0..(s.memsz - 1) : s.vaddr + i < e => ShownWord(m, p, s, i)

(* None of the first n segments has a word on the page of a, which padzero *)
(* clears from a on.                                                       *)
Apart(p, n, a) ==
  (FilePartsFit(p) /\ a % PAGE_SIZE # 0) =>
    \A k \in DOMAIN p.segs : (k <= n /\ BelowTop(p.segs[k])) =>
      \A i \in 0..(p.segs[k].memsz - 1) : PageOf(p.segs[k].vaddr + i) # PageOf(a)

AreaInv ==
  \A m \in Mm : /\ Aligned(vmas[m])
                /\ \A a \in Address : pte[m][PageOf(a)] # 0 => Mapped(m, a)

RunsImage ==
  pc \in {"user", "create"} => image \in Program /\ Shows(task_mm, image, Len(image.segs))

OldImage ==
  old_mm # NULL => image \in Program /\ Shows(old_mm, image, Len(image.segs))

LoadedPart ==
  /\ pc \in {"segment", "pad", "zero", "brk"} => Shows(task_mm, fprog[file], seg - 1)
  /\ pc \in {"pad", "zero", "brk"} =>
       Segment.load /\ Segment.filesz > 0 /\ Segment.memsz >= Segment.filesz
  /\ pc \in {"pad", "zero"} =>
       /\ PartShown(task_mm, fprog[file], Segment, Segment.vaddr + Segment.filesz)
       /\ Apart(fprog[file], seg - 1, FileEnd)
  /\ pc = "brk" => PartShown(task_mm, fprog[file], Segment, ZerosStart)

ImageInv == AreaInv /\ RunsImage /\ OldImage /\ LoadedPart

(* The words of a segment below the top are at addresses, and its ends do  *)
(* not wrap.                                                               *)
LEMMA BelowTopBounds ==
  ASSUME NEW s \in Phdr, BelowTop(s)
  PROVE  /\ s.vaddr \in Nat /\ s.memsz \in Nat /\ s.filesz \in Nat /\ s.offset \in Nat
         /\ s.vaddr + s.memsz + PAGE_SIZE - 1 < ADDRESS_SPACE
         /\ \A i \in 0..(s.memsz - 1) : s.vaddr + i \in Address /\ s.vaddr + i \in Nat
<1>1. /\ s.vaddr \in Nat /\ s.memsz \in Nat /\ s.filesz \in Nat /\ s.offset \in Nat
      /\ PAGE_SIZE \in Nat \ {0} /\ ADDRESS_SPACE \in Nat \ {0} /\ ADDRESS_SPACE % PAGE_SIZE = 0
  BY VmaAssumption DEF Phdr, Address
<1> DEFINE e == s.vaddr + s.memsz + PAGE_SIZE - 1
<1>2. e \in Nat /\ align_down(e) < ADDRESS_SPACE
  BY <1>1 DEF BelowTop
<1>3. align_down(e) \in Nat /\ align_down(e) % PAGE_SIZE = 0 /\ e < align_down(e) + PAGE_SIZE
  BY <1>2, PageArith, AlignedUp
<1>4. align_down(e) \in Address
  BY <1>2, <1>3, <1>1 DEF Address
<1>5. align_down(e) + PAGE_SIZE <= ADDRESS_SPACE
  BY <1>3, <1>4, LastPage
<1>6. e < ADDRESS_SPACE
  BY <1>1, <1>2, <1>3, <1>5
<1>7. \A i \in 0..(s.memsz - 1) : s.vaddr + i \in Nat /\ s.vaddr + i < ADDRESS_SPACE
  BY <1>1, <1>6
<1>8. \A x \in Nat : x < ADDRESS_SPACE => x \in Address
  BY <1>1 DEF Address
<1> QED
  BY <1>1, <1>6, <1>7, <1>8

LEMMA KeepShows ==
  ASSUME NEW m \in Mm, NEW p \in Program, NEW n, Keeps(m), Shows(m, p, n)
  PROVE  Shows(m, p, n)'
<1> SUFFICES ASSUME FilePartsFit(p), NEW k \in DOMAIN p.segs, k <= n, BelowTop(p.segs[k]),
                    NEW i \in 0..(p.segs[k].memsz - 1)
             PROVE  ShownWord(m, p, p.segs[k], i)'
  BY DEF Shows
<1>1. p.segs[k] \in Phdr
  BY ProgramAssumption
<1>2. ShownWord(m, p, p.segs[k], i)
  BY DEF Shows
<1>3. p.segs[k].vaddr + i \in Address
  BY <1>1, BelowTopBounds
<1> QED
  BY <1>2, <1>3 DEF ShownWord, Keeps

LEMMA KeepPart ==
  ASSUME NEW m \in Mm, NEW p, NEW s \in Phdr, NEW e, Keeps(m), PartShown(m, p, s, e)
  PROVE  PartShown(m, p, s, e)'
<1> SUFFICES ASSUME FilePartsFit(p), BelowTop(s), NEW i \in 0..(s.memsz - 1), s.vaddr + i < e
             PROVE  ShownWord(m, p, s, i)'
  BY DEF PartShown
<1>1. ShownWord(m, p, s, i)
  BY DEF PartShown
<1>2. s.vaddr + i \in Address
  BY BelowTopBounds
<1> QED
  BY <1>1, <1>2 DEF ShownWord, Keeps

(* An address space whose areas, entries, frames and files a step leaves   *)
(* alone keeps its words.                                                  *)
LEMMA KeepFrame ==
  ASSUME Inv, NEW m \in Mm, vmas'[m] = vmas[m], pte'[m] = pte[m],
         \A p \in Page : pte[m][p] # 0 => word'[pte[m][p]] = word[pte[m][p]],
         \A f \in MappedFiles(m) : fprog'[f] = fprog[f]
  PROVE  Keeps(m)
<1> SUFFICES ASSUME NEW a \in Address, Mapped(m, a)
             PROVE  Mapped(m, a)' /\ Content(m, a)' = Content(m, a)
  BY DEF Keeps
<1>1. Mapped(m, a)'
  BY DEF Mapped
<1>2. PageOf(a) \in Page
  BY PageOfType
<1>3. PICK v : v = find_vma(vmas[m], a)
  OBVIOUS
<1>4. v = find_vma(vmas'[m], a)
  BY <1>3
<1>5. v.vm_file # NULL => v.vm_file \in MappedFiles(m)
  <2>1. vmas[m] \in Seq(Vma)
    BY FilesOf
  <2>2. PICK i \in 1..Len(vmas[m]) : v = vmas[m][i]
    BY <1>3, <2>1, FindVma DEF Mapped
  <2>3. i \in DOMAIN vmas[m]
    BY <2>1
  <2> QED
    BY <2>2, <2>3, FilesOf
<1>6. v.vm_file # NULL => fprog'[v.vm_file] = fprog[v.vm_file]
  BY <1>5
<1>7. v.vm_file # NULL => FilePage(v, a)' = FilePage(v, a)
  BY <1>6 DEF FilePage, file_offset
<1>8. Demand(m, a) = IF v.vm_file = NULL THEN Zero ELSE FilePage(v, a)[a % PAGE_SIZE]
  BY <1>3 DEF Demand
<1>9. Demand(m, a)' = IF v.vm_file = NULL THEN Zero ELSE FilePage(v, a)'[a % PAGE_SIZE]
  BY <1>4 DEF Demand
<1>10. Demand(m, a)' = Demand(m, a)
  BY <1>7, <1>8, <1>9
<1>11. Content(m, a)' = Content(m, a)
  BY <1>2, <1>10 DEF Content
<1> QED
  BY <1>1, <1>11

----------------------------------------------------------------------------
(* The steps that touch an address space.                                  *)

(* Demand paging cannot be seen: a page fault changes no word of any       *)
(* address space, it only makes words present.                             *)
LEMMA FaultKeeps ==
  ASSUME Inv, ResourceInv, AreaInv, NEW a \in Address, PageFault(a)
  PROVE  AreaInv' /\ \A m \in Mm : Keeps(m)
<1> DEFINE f == Min(Free(frame_in_use, FRAMES))
<1>1. task_mm \in Mm /\ pte[task_mm][PageOf(a)] = 0
  <2>1. pc \in {"user", "zero"} /\ pte[task_mm][PageOf(a)] = 0
    BY DEF PageFault, Touched
  <2> QED
    BY <2>1 DEF Inv, LoaderInv
<1>2. f \in 1..FRAMES /\ f # 0 /\ f \notin frame_in_use
  <2>1. Free(frame_in_use, FRAMES) \in SUBSET Nat /\ Free(frame_in_use, FRAMES) # {}
    BY VmAssumption DEF PageFault, HasMemory, Free
  <2>2. f \in Free(frame_in_use, FRAMES)
    BY <2>1, MinInSet
  <2> QED
    BY <2>2 DEF Free
<1>3. PICK v : v = find_vma(vmas[task_mm], a) /\ v # NULL
  BY DEF PageFault, HasMemory
<1>4. PICK c : c = IF v.vm_file = NULL THEN [o \in Offsets |-> Zero] ELSE FilePage(v, a)
  OBVIOUS
<1>5. /\ vmas' = vmas /\ fprog' = fprog
      /\ pte' = [pte EXCEPT ![task_mm][PageOf(a)] = f]
      /\ word' = [word EXCEPT ![f] = c]
  BY <1>3, <1>4 DEF PageFault, files
<1>6. PageOf(a) \in Page /\ a \in Nat
  BY PageOfType DEF Address
<1>7. pte \in [Mm -> [Page -> 0..FRAMES]] /\ DOMAIN word = 1..FRAMES
  BY DEF Inv, TypeOK
<1> HIDE DEF f
<1>8. \A m \in Mm, p \in Page :
        pte'[m][p] = IF m = task_mm /\ p = PageOf(a) THEN f ELSE pte[m][p]
  BY <1>1, <1>5, <1>6, <1>7
<1>9. \A g \in 1..FRAMES : word'[g] = IF g = f THEN c ELSE word[g]
  BY <1>2, <1>5, <1>7
<1>10. ASSUME NEW m \in Mm, NEW b \in Address
       PROVE  /\ Mapped(m, b)' <=> Mapped(m, b)
              /\ (m = task_mm /\ PageOf(b) = PageOf(a)) => Mapped(m, b)
  <2>1. Mapped(m, b)' <=> Mapped(m, b)
    BY <1>5 DEF Mapped
  <2>2. ASSUME m = task_mm, PageOf(b) = PageOf(a) PROVE Mapped(m, b)
    <3>1. b \in Nat /\ vmas[m] \in Seq(Vma) /\ Disjoint(vmas[m]) /\ Aligned(vmas[m])
      BY DEF Address, Inv, TypeOK, AreasDisjoint, AreaInv
    <3>2. find_vma(vmas[m], b) = find_vma(vmas[m], a)
      BY <1>6, <2>2, <3>1, FindPage
    <3> QED
      BY <1>3, <2>2, <3>2 DEF Mapped
  <2> QED
    BY <2>1, <2>2
<1>11. AreaInv'
  <2> SUFFICES ASSUME NEW m \in Mm
               PROVE  /\ Aligned(vmas[m])'
                      /\ \A b \in Address : pte'[m][PageOf(b)] # 0 => Mapped(m, b)'
    BY DEF AreaInv
  <2>1. Aligned(vmas[m])'
    BY <1>5 DEF AreaInv, Aligned
  <2>2. ASSUME NEW b \in Address, pte'[m][PageOf(b)] # 0 PROVE Mapped(m, b)'
    <3>1. PageOf(b) \in Page
      BY PageOfType
    <3>2. CASE m = task_mm /\ PageOf(b) = PageOf(a)
      BY <1>10, <3>2
    <3>3. CASE ~(m = task_mm /\ PageOf(b) = PageOf(a))
      <4>1. pte[m][PageOf(b)] # 0
        BY <1>8, <2>2, <3>1, <3>3
      <4> QED
        BY <1>10, <4>1 DEF AreaInv
    <3> QED
      BY <3>2, <3>3
  <2> QED
    BY <2>1, <2>2
<1>12. ASSUME NEW m \in Mm PROVE Keeps(m)
  <2> SUFFICES ASSUME NEW b \in Address, Mapped(m, b) PROVE Content(m, b)' = Content(m, b)
    BY <1>10 DEF Keeps
  <2>1. PageOf(b) \in Page /\ b \in Nat
    BY PageOfType DEF Address
  <2>2. PICK w : w = find_vma(vmas[m], b)
    OBVIOUS
  <2>3. w = find_vma(vmas'[m], b)
    BY <1>5, <2>2
  <2>4. FilePage(w, b)' = FilePage(w, b)
    BY <1>5 DEF FilePage, file_offset
  <2>5. Demand(m, b) = IF w.vm_file = NULL THEN Zero ELSE FilePage(w, b)[b % PAGE_SIZE]
    BY <2>2 DEF Demand
  <2>6. Demand(m, b)' = Demand(m, b)
    <3>1. Demand(m, b)' = IF w.vm_file = NULL THEN Zero ELSE FilePage(w, b)'[b % PAGE_SIZE]
      BY <2>3 DEF Demand
    <3> QED
      BY <2>4, <2>5, <3>1
  <2>7. CASE m = task_mm /\ PageOf(b) = PageOf(a)
    <3>1. vmas[m] \in Seq(Vma) /\ Disjoint(vmas[m]) /\ Aligned(vmas[m])
      BY DEF Inv, TypeOK, AreasDisjoint, AreaInv
    <3>2. w = v
      BY <1>3, <1>6, <2>1, <2>2, <2>7, <3>1, FindPage
    <3>3. align_down(a) = align_down(b)
      BY <1>6, <2>1, <2>7, SameAlign DEF PageOf
    <3>4. FilePage(w, b) = FilePage(v, a)
      BY <3>2, <3>3 DEF FilePage, file_offset
    <3>5. b % PAGE_SIZE \in Offsets
      BY <2>1, PageArith DEF Offsets
    <3>6. c[b % PAGE_SIZE] = Demand(m, b)
      BY <1>4, <2>5, <3>2, <3>4, <3>5
    <3>7. Content(m, b) = Demand(m, b)
      BY <1>1, <2>7 DEF Content
    <3>8. pte'[m][PageOf(b)] = f
      BY <1>8, <2>1, <2>7
    <3>9. Content(m, b)' = c[b % PAGE_SIZE]
      BY <1>2, <1>9, <3>8 DEF Content
    <3> QED
      BY <3>6, <3>7, <3>9
  <2>8. CASE ~(m = task_mm /\ PageOf(b) = PageOf(a))
    <3>1. pte'[m][PageOf(b)] = pte[m][PageOf(b)]
      BY <1>8, <2>1, <2>8
    <3>2. pte[m][PageOf(b)] # 0 =>
            word'[pte[m][PageOf(b)]] = word[pte[m][PageOf(b)]]
      <4>1. pte[m][PageOf(b)] # 0 => pte[m][PageOf(b)] \in frame_in_use
        BY <2>1 DEF ResourceInv, PoolInv, OneOwner
      <4>2. frame_in_use \subseteq 1..FRAMES
        BY DEF Inv, TypeOK
      <4> QED
        BY <1>2, <1>9, <4>1, <4>2
    <3> QED
      BY <2>6, <3>1, <3>2 DEF Content
  <2> QED
    BY <2>7, <2>8
<1> QED
  BY <1>11, <1>12

(* do_mmap changes no word that was there, and the new area shows what it  *)
(* was asked for: zeros, or the file from the offset on, as far as that    *)
(* does not wrap.                                                          *)
LEMMA MapShows ==
  ASSUME Inv, AreaInv, NEW addr \in Address, NEW length \in Nat, NEW f \in File \cup {NULL},
         NEW offset \in Address, NEW m \in Mm, NEW l,
         l \in do_mmap(vmas[m], addr, length, f, offset),
         vmas' = [vmas EXCEPT ![m] = l], UNCHANGED <<pte, word, fprog>>
  PROVE  /\ AreaInv' /\ \A n \in Mm : Keeps(n)
         /\ \A a \in Address : Holds(NewVma(addr, length, f, offset), a) =>
              /\ ~Mapped(m, a) /\ Mapped(m, a)'
              /\ (f = NULL \/ offset + (a - addr) < ADDRESS_SPACE) =>
                   Content(m, a)' =
                     IF f # NULL /\ offset + (a - addr) < fprog[f].size
                     THEN <<fprog[f].name, offset + (a - addr)>> ELSE Zero
<1>1. vmas \in [Mm -> Seq(Vma)]
  BY DEF Inv, TypeOK
<1>2. vmas[m] \in Seq(Vma) /\ Disjoint(vmas[m]) /\ Aligned(vmas[m])
  BY <1>1 DEF Inv, AreasDisjoint, AreaInv
<1>3. \A n \in Mm : vmas'[n] = IF n = m THEN l ELSE vmas[n]
  BY <1>1
<1> DEFINE v == NewVma(addr, length, f, offset)
<1>4. /\ v \in Vma /\ l \in Seq(Vma) /\ Disjoint(l) /\ Aligned(l)
      /\ \A a \in Nat : find_vma(vmas[m], a) # NULL => find_vma(l, a) = find_vma(vmas[m], a)
      /\ \A a \in Nat : Holds(v, a) =>
           find_vma(vmas[m], a) = NULL /\ find_vma(l, a) = v /\ find_vma(l, a) # NULL
  <2>1. PICK s : s = vmas[m]
    OBVIOUS
  <2>2. s \in Seq(Vma) /\ Disjoint(s) /\ Aligned(s) /\ l \in do_mmap(s, addr, length, f, offset)
    BY <1>2, <2>1
  <2>3. /\ v \in Vma /\ l \in Seq(Vma) /\ Disjoint(l) /\ Aligned(l)
        /\ \A a \in Nat : find_vma(s, a) # NULL => find_vma(l, a) = find_vma(s, a)
        /\ \A a \in Nat : Holds(v, a) =>
             find_vma(s, a) = NULL /\ find_vma(l, a) = v /\ find_vma(l, a) # NULL
    <3> HIDE DEF v
    <3>1. v = NewVma(addr, length, f, offset)
      BY DEF v
    <3> QED
      BY <2>2, <3>1, FindInserted
  <2> QED
    BY <2>1, <2>3
<1>5. v.vm_start = align_down(addr) /\ v.vm_file = f
      /\ (f # NULL => v.vm_offset = offset - (addr - align_down(addr)))
  BY DEF NewVma
<1> HIDE DEF v
<1>6. \A a \in Address : a \in Nat
  BY DEF Address
<1>7. ASSUME NEW n \in Mm, NEW a \in Address, Mapped(n, a)
      PROVE  Mapped(n, a)' /\ Content(n, a)' = Content(n, a)
  <2>1. PICK w : w = find_vma(vmas[n], a) /\ w # NULL
    BY <1>7 DEF Mapped
  <2>2. w = find_vma(vmas'[n], a)
    BY <1>3, <1>4, <1>6, <2>1
  <2>3. Mapped(n, a)'
    BY <2>1, <2>2 DEF Mapped
  <2>4. FilePage(w, a)' = FilePage(w, a)
    BY DEF FilePage, file_offset
  <2>5. Demand(n, a) = IF w.vm_file = NULL THEN Zero ELSE FilePage(w, a)[a % PAGE_SIZE]
    BY <2>1 DEF Demand
  <2>6. Demand(n, a)' = IF w.vm_file = NULL THEN Zero ELSE FilePage(w, a)'[a % PAGE_SIZE]
    BY <2>2 DEF Demand
  <2>7. Demand(n, a)' = Demand(n, a)
    BY <2>4, <2>5, <2>6
  <2>8. Content(n, a)' = Content(n, a)
    BY <2>7 DEF Content
  <2> QED
    BY <2>3, <2>8
<1>8. AreaInv'
  <2> SUFFICES ASSUME NEW n \in Mm
               PROVE  /\ Aligned(vmas[n])'
                      /\ \A b \in Address : pte'[n][PageOf(b)] # 0 => Mapped(n, b)'
    BY DEF AreaInv
  <2>1. Aligned(vmas[n])'
    <3>1. Aligned(vmas[n]) /\ Aligned(l)
      BY <1>4 DEF AreaInv
    <3>2. vmas'[n] = l \/ vmas'[n] = vmas[n]
      BY <1>3
    <3> QED
      BY <3>1, <3>2 DEF Aligned
  <2> QED
    BY <1>7, <2>1 DEF AreaInv
<1>9. ASSUME NEW a \in Address, Holds(v, a)
      PROVE  /\ ~Mapped(m, a) /\ Mapped(m, a)'
             /\ (f = NULL \/ offset + (a - addr) < ADDRESS_SPACE) =>
                  Content(m, a)' =
                    IF f # NULL /\ offset + (a - addr) < fprog[f].size
                    THEN <<fprog[f].name, offset + (a - addr)>> ELSE Zero
  <2>1. ~Mapped(m, a) /\ Mapped(m, a)' /\ v = find_vma(vmas'[m], a)
    BY <1>3, <1>4, <1>6, <1>9 DEF Mapped
  <2>2. pte'[m][PageOf(a)] = 0
    BY <2>1 DEF AreaInv
  <2>3. Content(m, a)' = IF v.vm_file = NULL THEN Zero ELSE FilePage(v, a)'[a % PAGE_SIZE]
    BY <2>1, <2>2 DEF Content, Demand
  <2>4. CASE f = NULL
    BY <1>5, <2>1, <2>3, <2>4
  <2>5. CASE f # NULL /\ offset + (a - addr) < ADDRESS_SPACE
    <3> DEFINE d == v.vm_offset + (align_down(a) - v.vm_start)
    <3>1. a % PAGE_SIZE \in Offsets /\ a \in Nat
      BY <1>6, PageArith DEF Offsets
    <3>2. /\ align_down(a) = a - (a % PAGE_SIZE) /\ a % PAGE_SIZE \in Nat
          /\ align_down(addr) \in Nat /\ addr \in Nat /\ offset \in Nat
      BY <1>6, <3>1, PageArith DEF align_down, Offsets
    <3>3. d + (a % PAGE_SIZE) = offset + (a - addr)
      BY <1>5, <2>5, <3>1, <3>2
    <3>6. d \in Nat /\ d < ADDRESS_SPACE
      <4>1. align_down(a) >= v.vm_start /\ align_down(a) \in Nat /\ v.vm_start \in Nat
        <5>1. PICK b, s : b = align_down(a) /\ s = v.vm_start
          OBVIOUS
        <5>2. b \in Nat /\ b <= a /\ a < b + PAGE_SIZE /\ b = PAGE_SIZE * (a \div PAGE_SIZE)
          BY <3>1, <5>1, PageArith
        <5>3. s \in Nat /\ s % PAGE_SIZE = 0 /\ b % PAGE_SIZE = 0
          <6>1. ASSUME NEW x \in Nat PROVE align_down(x) \in Nat /\ align_down(x) % PAGE_SIZE = 0
            <7>1. align_down(x) = PAGE_SIZE * (x \div PAGE_SIZE) /\ x \div PAGE_SIZE \in Nat
              BY PageArith
            <7> QED BY <7>1, VmaAssumption
          <6> QED BY <1>5, <1>6, <3>1, <5>1, <6>1
        <5>4. a \div PAGE_SIZE = b \div PAGE_SIZE
          BY <3>1, <5>2, <5>3, InPage
        <5>5. s <= a
          BY <1>9, <5>1 DEF Holds
        <5>6. s <= b
          BY <3>1, <5>2, <5>3, <5>4, <5>5, SamePage
        <5> QED BY <5>1, <5>2, <5>3, <5>6
      <4>2. v.vm_offset \in Nat
        BY <1>4 DEF Vma, Address
      <4>3. d \in Nat
        BY <4>1, <4>2
      <4> HIDE DEF d
      <4> QED BY <2>5, <3>1, <3>2, <3>3, <4>3, VmaAssumption
    <3>7. file_offset(v, a)' = d
      <4>1. file_offset(v, a)' = d % ADDRESS_SPACE
        BY DEF file_offset
      <4> HIDE DEF d
      <4>2. d % ADDRESS_SPACE = d
        BY <3>6, VmaAssumption
      <4> QED BY <4>1, <4>2
    <3>4. FilePage(v, a)' =
            [o \in Offsets |-> IF d + o < fprog[f].size THEN <<fprog[f].name, d + o>> ELSE Zero]
      <4> HIDE DEF d
      <4> QED BY <1>5, <3>7 DEF FilePage
    <3> HIDE DEF d
    <3>5. FilePage(v, a)'[a % PAGE_SIZE] =
            IF d + (a % PAGE_SIZE) < fprog[f].size
            THEN <<fprog[f].name, d + (a % PAGE_SIZE)>> ELSE Zero
      BY <3>1, <3>4
    <3> QED
      BY <1>5, <2>1, <2>3, <2>5, <3>3, <3>5
  <2> QED
    BY <2>1, <2>4, <2>5
<1> QED
  BY <1>7, <1>8, <1>9 DEF Keeps, v

(* padzero clears the rest of the page behind the part in the file, in the *)
(* address space that is being loaded and in no other.                     *)
LEMMA PadClears ==
  ASSUME Inv, ResourceInv, AreaInv, PadZero, NEW m \in Mm, m = task_mm, NEW e \in Address, e = FileEnd
  PROVE  /\ AreaInv' /\ \A n \in Mm : n # m => Keeps(n)
         /\ \A a \in Address :
              /\ Mapped(m, a)' <=> Mapped(m, a)
              /\ Mapped(m, a) =>
                   Content(m, a)' = IF e % PAGE_SIZE # 0 /\ PageOf(a) = PageOf(e) /\ a % PAGE_SIZE >= e % PAGE_SIZE
                                    THEN Zero ELSE Content(m, a)
<1>1. UNCHANGED <<vmas, pte, fprog>>
  BY DEF PadZero, loader, files
<1>2. PageOf(e) \in Page /\ \A a \in Address : PageOf(a) \in Page
  BY PageOfType
<1>3. pte \in [Mm -> [Page -> 0..FRAMES]] /\ DOMAIN word = 1..FRAMES
  BY DEF Inv, TypeOK
<1> DEFINE g == pte[m][PageOf(e)]
<1>4. e % PAGE_SIZE # 0 => g \in 1..FRAMES
  BY <1>2, <1>3, VmAssumption DEF PadZero
<1>5. \A f \in 1..FRAMES : word'[f] =
        IF e % PAGE_SIZE # 0 /\ f = g
        THEN [o \in Offsets |-> IF o >= e % PAGE_SIZE THEN Zero ELSE word[f][o]] ELSE word[f]
  BY <1>3, <1>4 DEF PadZero
<1>6. \A n \in Mm, p \in Page : (pte[n][p] # 0 /\ pte[n][p] = g) => n = m /\ p = PageOf(e)
  BY <1>2 DEF ResourceInv, PoolInv, OneOwner
<1> HIDE DEF g
<1>7. \A n \in Mm, p \in Page : pte[n][p] # 0 => pte[n][p] \in 1..FRAMES
  BY <1>3, VmAssumption
<1>8. ASSUME NEW n \in Mm, NEW a \in Address
      PROVE  (Mapped(n, a)' <=> Mapped(n, a)) /\ Demand(n, a)' = Demand(n, a)
  <2>1. Mapped(n, a)' <=> Mapped(n, a)
    BY <1>1 DEF Mapped
  <2>2. Demand(n, a)' = Demand(n, a)
    BY <1>1 DEF Demand, FilePage
  <2> QED BY <2>1, <2>2
<1>9. AreaInv'
  <2> SUFFICES ASSUME NEW n \in Mm
               PROVE  /\ Aligned(vmas[n])'
                      /\ \A b \in Address : pte'[n][PageOf(b)] # 0 => Mapped(n, b)'
    BY DEF AreaInv
  <2>1. Aligned(vmas[n])'
    BY <1>1 DEF AreaInv, Aligned
  <2> QED
    BY <1>1, <1>8, <2>1 DEF AreaInv
<1>10. ASSUME NEW n \in Mm, n # m PROVE Keeps(n)
  <2>1. \A p \in Page : pte[n][p] # 0 => word'[pte[n][p]] = word[pte[n][p]]
    BY <1>5, <1>6, <1>7, <1>10
  <2> QED
    BY <1>1, <2>1, KeepFrame
<1>11. ASSUME NEW a \in Address
       PROVE  Content(m, a)' =
                IF pte[m][PageOf(a)] # 0 /\ e % PAGE_SIZE # 0 /\ PageOf(a) = PageOf(e)
                   /\ a % PAGE_SIZE >= e % PAGE_SIZE
                THEN Zero ELSE Content(m, a)
  <2>1. a \in Nat /\ a % PAGE_SIZE \in Offsets /\ PageOf(a) \in Page
    BY <1>2, PageArith DEF Address, Offsets
  <2>2. CASE pte[m][PageOf(a)] = 0
    BY <1>1, <1>8, <2>2 DEF Content
  <2>3. CASE pte[m][PageOf(a)] # 0
    <3> DEFINE h == pte[m][PageOf(a)]
    <3>1. Content(m, a)' = word'[h][a % PAGE_SIZE] /\ Content(m, a) = word[h][a % PAGE_SIZE]
      BY <1>1, <2>3 DEF Content
    <3>2. h \in 1..FRAMES /\ (h = g <=> PageOf(a) = PageOf(e))
      BY <1>6, <1>7, <2>1, <2>3 DEF g
    <3> HIDE DEF h
    <3> QED
      BY <1>5, <2>1, <2>3, <3>1, <3>2
  <2> QED
    BY <2>2, <2>3
<1>12. ASSUME e % PAGE_SIZE # 0, NEW a \in Address, PageOf(a) = PageOf(e)
       PROVE  pte[m][PageOf(a)] # 0
  BY <1>12 DEF PadZero
<1> QED
  BY <1>8, <1>9, <1>10, <1>11, <1>12

(* release_mm of one address space changes no word of another, although it *)
(* frees frames and closes files.                                          *)
LEMMA ReleaseKeeps ==
  ASSUME Inv, ResourceInv, AreaInv, NEW d \in Mm, release_mm(d), FileInv'
  PROVE  AreaInv' /\ \A n \in Mm : n # d => Keeps(n)
<1>1. /\ vmas' = [vmas EXCEPT ![d] = <<>>]
      /\ pte' = [pte EXCEPT ![d] = [p \in Page |-> 0]]
      /\ FreeFrames({pte[d][p] : p \in {p \in Page : pt[d][PdeIndex(p)] # 0}})
      /\ fprog' = [f \in File |-> IF ref'[f] = 0 \/ f \in leaked' THEN NULL ELSE fprog[f]]
  BY DEF release_mm, CloseFiles
<1>2. /\ pte \in [Mm -> [Page -> 0..FRAMES]] /\ vmas \in [Mm -> Seq(Vma)]
      /\ DOMAIN word = 1..FRAMES
  BY DEF Inv, TypeOK
<1>3. /\ \A n \in Mm : vmas'[n] = IF n = d THEN <<>> ELSE vmas[n]
      /\ \A n \in Mm : n # d => pte'[n] = pte[n]
      /\ \A p \in Page : pte'[d][p] = 0
  BY <1>1, <1>2
<1>4. ASSUME NEW n \in Mm, n # d PROVE Keeps(n)
  <2>1. ASSUME NEW p \in Page, pte[n][p] # 0 PROVE word'[pte[n][p]] = word[pte[n][p]]
    <3>1. pte[n][p] \in 1..FRAMES
      BY <1>2, <2>1, VmAssumption
    <3>2. \A q \in Page : pte[n][p] # pte[d][q]
      BY <1>4, <2>1 DEF ResourceInv, PoolInv, OneOwner
    <3>3. pte[n][p] \notin {pte[d][q] : q \in {q \in Page : pt[d][PdeIndex(q)] # 0}}
      BY <3>2
    <3> QED
      BY <1>1, <3>1, <3>3 DEF FreeFrames
  <2>2. ASSUME NEW f \in MappedFiles(n) PROVE fprog'[f] = fprog[f]
    <3>1. f \in File
      BY FilesOf
    <3>2. MappedFiles(n)' = MappedFiles(n)
      BY <1>3, <1>4 DEF MappedFiles
    <3>3. f \in MappedFiles(n)' /\ f \notin leaked'
      BY <3>2 DEF FileInv
    <3>4. ref'[f] = 1
      BY <3>1, <3>3 DEF FileInv, FilesAccounted
    <3> QED
      BY <1>1, <3>1, <3>3, <3>4
  <2> QED
    BY <1>3, <1>4, <2>1, <2>2, KeepFrame
<1>5. AreaInv'
  <2> SUFFICES ASSUME NEW n \in Mm
               PROVE  /\ Aligned(vmas[n])'
                      /\ \A b \in Address : pte'[n][PageOf(b)] # 0 => Mapped(n, b)'
    BY DEF AreaInv
  <2>1. CASE n = d
    <3>1. Aligned(vmas[n])'
      BY <1>3, <2>1 DEF Aligned
    <3> QED
      BY <1>3, <2>1, <3>1, PageOfType
  <2>2. CASE n # d
    <3>1. Aligned(vmas[n])'
      BY <1>3, <2>2 DEF Aligned, AreaInv
    <3>2. \A b \in Address : Mapped(n, b) => Mapped(n, b)'
      BY <1>4, <2>2 DEF Keeps
    <3> QED
      BY <1>3, <2>2, <3>1, <3>2 DEF AreaInv
  <2> QED
    BY <2>1, <2>2
<1> QED
  BY <1>4, <1>5

----------------------------------------------------------------------------
(* Every step keeps the invariant.                                         *)

LEMMA OldKept ==
  ASSUME Inv, OldImage, UNCHANGED <<old_mm, image>>, \A m \in Mm : m = old_mm => Keeps(m)
  PROVE  OldImage'
<1> SUFFICES ASSUME old_mm # NULL PROVE image' \in Program /\ Shows(old_mm, image, Len(image.segs))'
  BY DEF OldImage
<1>1. image \in Program /\ Shows(old_mm, image, Len(image.segs)) /\ old_mm \in Mm
  BY DEF OldImage, Inv, TypeOK
<1>2. PICK m \in Mm, p \in Program, n \in Nat : m = old_mm /\ p = image /\ n = Len(image.segs)
  BY <1>1, ProgramAssumption
<1>3. Shows(m, p, n)'
  BY <1>1, <1>2, KeepShows
<1> QED
  BY <1>1, <1>2, <1>3 DEF Shows

(* The program that runs keeps its image in a step that keeps its words.   *)
LEMMA RunKept ==
  ASSUME Inv, RunsImage, UNCHANGED <<task_mm, image>>, \A m \in Mm : m = task_mm => Keeps(m),
         pc' \in {"user", "create"} => pc \in {"user", "create"}
  PROVE  RunsImage'
<1> SUFFICES ASSUME pc \in {"user", "create"}
             PROVE  image' \in Program /\ Shows(task_mm, image, Len(image.segs))'
  BY DEF RunsImage
<1>1. image \in Program /\ Shows(task_mm, image, Len(image.segs)) /\ task_mm \in Mm
  BY DEF RunsImage, Inv, LoaderInv
<1>2. PICK m \in Mm, p \in Program, n \in Nat : m = task_mm /\ p = image /\ n = Len(image.segs)
  BY <1>1, ProgramAssumption
<1>3. Shows(m, p, n)'
  BY <1>1, <1>2, KeepShows
<1> QED
  BY <1>1, <1>2, <1>3 DEF Shows

(* Steps that leave areas, entries and frames alone, and the files of the  *)
(* areas.                                                                  *)
LEMMA QuietKeeps ==
  ASSUME Inv, AreaInv, UNCHANGED <<vmas, pte, word>>,
         \A m \in Mm : \A f \in MappedFiles(m) : fprog'[f] = fprog[f]
  PROVE  AreaInv' /\ \A m \in Mm : Keeps(m)
<1>1. \A m \in Mm : Keeps(m)
  BY KeepFrame
<1>2. ASSUME NEW n \in Mm
      PROVE  /\ Aligned(vmas[n])'
             /\ \A b \in Address : pte'[n][PageOf(b)] # 0 => Mapped(n, b)'
  <2>1. Aligned(vmas[n])'
    BY DEF AreaInv, Aligned
  <2>2. \A b \in Address : Mapped(n, b) => Mapped(n, b)'
    BY <1>1 DEF Keeps
  <2> QED
    BY <2>1, <2>2 DEF AreaInv
<1> QED
  BY <1>1, <1>2 DEF AreaInv

(* What the loader has at hand.                                            *)
LEMMA AtHand ==
  ASSUME Inv, pc \in {"segment", "pad", "zero", "brk"}, seg <= Len(fprog[file].segs)
  PROVE  \E m \in Mm, p \in Program, s \in Phdr, k \in Nat :
           /\ m = task_mm /\ p = fprog[file] /\ s = Segment /\ k = seg
           /\ p.segs \in Seq(Phdr) /\ k \in 1..Len(p.segs) /\ k \in DOMAIN p.segs /\ s = p.segs[k]
<1>1. task_mm \in Mm /\ fprog[file] \in Program /\ seg \in Nat
  BY DEF Inv, LoaderInv, TypeOK
<1>2. Segment \in Phdr /\ seg \in 1..Len(fprog[file].segs)
  BY SegmentType
<1>3. fprog[file].segs \in Seq(Phdr)
  BY <1>1, ProgramAssumption
<1>4. Segment = fprog[file].segs[seg] /\ seg \in DOMAIN fprog[file].segs
  BY <1>2, <1>3 DEF Segment
<1> QED
  BY <1>1, <1>2, <1>3, <1>4

(* The loader goes on to the next segment once this one is all there.      *)
LEMMA LoadedNext ==
  ASSUME NEW m \in Mm, NEW p \in Program, NEW s \in Phdr, NEW k \in Nat,
         p.segs \in Seq(Phdr), k \in DOMAIN p.segs, s = p.segs[k],
         Shows(m, p, k - 1), Keeps(m),
         (FilePartsFit(p) /\ BelowTop(s)) => \A i \in 0..(s.memsz - 1) : ShownWord(m, p, s, i)',
         task_mm' = m, fprog'[file'] = p, seg' = k + 1, pc' = "segment"
  PROVE  LoadedPart'
<1>1. Shows(m, p, k - 1)'
  BY KeepShows
<1>2. Shows(m, p, k)'
  <2> SUFFICES ASSUME FilePartsFit(p), NEW j \in DOMAIN p.segs, j <= k, BelowTop(p.segs[j]),
                      NEW i \in 0..(p.segs[j].memsz - 1)
               PROVE  ShownWord(m, p, p.segs[j], i)'
    BY DEF Shows
  <2>1. j \in Nat
    OBVIOUS
  <2>2. CASE j = k
    BY <2>2
  <2>3. CASE j <= k - 1
    BY <1>1, <2>3 DEF Shows
  <2> QED
    BY <2>1, <2>2, <2>3
<1>3. seg' - 1 = k
  OBVIOUS
<1>4. Shows(task_mm, fprog[file], seg - 1)'
  BY <1>2, <1>3 DEF Shows
<1> QED
  BY <1>4 DEF LoadedPart

(* A page fault, of the program or of padzero, and stuttering.             *)
LEMMA CarryImage ==
  ASSUME Inv, ImageInv, AreaInv', \A m \in Mm : Keeps(m),
         UNCHANGED <<pc, seg, file, fprog, image, task_mm, old_mm>>
  PROVE  ImageInv'
<1>1. RunsImage' /\ OldImage'
  BY RunKept, OldKept DEF ImageInv
<1>2. LoadedPart'
  <2>1. CASE pc \notin {"segment", "pad", "zero", "brk"}
    BY <2>1 DEF LoadedPart
  <2>2. CASE pc \in {"segment", "pad", "zero", "brk"}
    <3>1. PICK m \in Mm, p \in Program, n \in Int : m = task_mm /\ p = fprog[file] /\ n = seg - 1
      BY <2>2 DEF Inv, LoaderInv, TypeOK
    <3>2. Shows(m, p, n)
      BY <2>2, <3>1 DEF ImageInv, LoadedPart
    <3>3. Shows(m, p, n)'
      BY <3>2, KeepShows
    <3>4. Shows(task_mm, fprog[file], seg - 1)'
      BY <3>1, <3>3 DEF Shows
    <3>5. CASE pc = "segment"
      BY <3>4, <3>5 DEF LoadedPart
    <3>6. CASE pc \in {"pad", "zero", "brk"}
      <4>1. Segment \in Phdr
        <5>1. seg <= Len(fprog[file].segs)
          BY <2>2, <3>1, <3>6, ProgramAssumption DEF Inv, LoaderInv
        <5> QED
          BY <3>6, <5>1, SegmentType
      <4>a. PICK e, z : e = Segment.vaddr + Segment.filesz /\ z = ZerosStart
        OBVIOUS
      <4>2. PICK s \in Phdr : s = Segment /\ e = Segment.vaddr + Segment.filesz /\ z = ZerosStart
        BY <4>1, <4>a
      <4>3. /\ Segment' = Segment /\ (Segment.vaddr + Segment.filesz)' = e
            /\ ZerosStart' = z /\ FileEnd' = FileEnd
        BY <4>2 DEF Segment, ZerosStart, FileEnd
      <4>4. s.load /\ s.filesz > 0 /\ s.memsz >= s.filesz
        BY <3>6, <4>2 DEF ImageInv, LoadedPart
      <4>5. pc \in {"pad", "zero"} => PartShown(m, p, s, e) /\ Apart(p, n, FileEnd)
        BY <3>1, <4>2 DEF ImageInv, LoadedPart
      <4>6. pc = "brk" => PartShown(m, p, s, z)
        BY <3>1, <4>2 DEF ImageInv, LoadedPart
      <4>7. /\ pc \in {"pad", "zero"} => PartShown(m, p, s, e)'
            /\ pc = "brk" => PartShown(m, p, s, z)'
        BY <4>5, <4>6, KeepPart
      <4>8. /\ pc \in {"pad", "zero"} => PartShown(task_mm, fprog[file], Segment, Segment.vaddr + Segment.filesz)'
            /\ pc = "brk" => PartShown(task_mm, fprog[file], Segment, ZerosStart)'
        <5> HIDE DEF PartShown
        <5> QED
          BY <3>1, <4>2, <4>3, <4>7 DEF PartShown
      <4>9. pc \in {"pad", "zero"} => Apart(fprog[file], seg - 1, FileEnd)'
        BY <3>1, <4>3, <4>5 DEF Apart
      <4> QED
        BY <3>4, <4>2, <4>3, <4>4, <4>8, <4>9 DEF LoadedPart
    <3> QED
      BY <2>2, <3>5, <3>6
  <2> QED
    BY <2>1, <2>2
<1> QED
  BY <1>1, <1>2 DEF ImageInv

LEMMA FaultImage ==
  ASSUME Inv, ResourceInv, ImageInv, NEW a \in Address, PageFault(a)
  PROVE  ImageInv'
<1>1. AreaInv' /\ \A m \in Mm : Keeps(m)
  BY FaultKeeps DEF ImageInv
<1>2. UNCHANGED <<pc, seg, file, fprog, image, task_mm, old_mm>>
  BY DEF PageFault, files
<1> QED
  BY <1>1, <1>2, CarryImage

(* The steps that give up, and those before the loader has read a header.  *)
LEMMA AsideImage ==
  ASSUME Inv, ResourceInv, ImageInv,
         \/ \E a \in Address : PageFaultPanic(a) \/ PageFaultReadFails(a)
         \/ LoadFails
         \/ \E m \in Mm : SpawnProc1(m)
  PROVE  ImageInv'
<1>1. UNCHANGED <<vmas, pte, word, fprog, old_mm, image>>
  BY DEF PageFaultPanic, PageFaultReadFails, LoadFails, SpawnProc1, space, files, loader
<1>2. pc' \in {"panic", "spin", "fail", "stack"}
  BY DEF PageFaultPanic, PageFaultReadFails, LoadFails, SpawnProc1
<1>3. AreaInv' /\ \A m \in Mm : Keeps(m)
  BY <1>1, QuietKeeps DEF ImageInv
<1>4. OldImage'
  BY <1>1, <1>3, OldKept DEF ImageInv
<1>5. RunsImage' /\ LoadedPart'
  BY <1>2 DEF RunsImage, LoadedPart
<1> QED
  BY <1>3, <1>4, <1>5 DEF ImageInv

(* vfs_open takes a file that no area refers to, and sys_execve that finds *)
(* no memory closes one.                                                   *)
LEMMA OpenImage ==
  ASSUME Inv, ResourceInv, ImageInv,
         (\E p \in Program, f \in File : OpenProc1(p, f) \/ ExecveOpen(p, f)) \/ ExecveNoMm
  PROVE  ImageInv'
<1>1. UNCHANGED <<vmas, pte, word, old_mm, image, task_mm>>
  BY DEF OpenProc1, ExecveOpen, ExecveNoMm, space
<1>2. \A m \in Mm : \A f \in MappedFiles(m) : fprog'[f] = fprog[f]
  <2> SUFFICES ASSUME NEW m \in Mm, NEW g \in MappedFiles(m) PROVE fprog'[g] = fprog[g]
    OBVIOUS
  <2>1. g \in File /\ fprog \in [File -> Program \cup {NULL}]
    BY FilesOf DEF Inv, TypeOK
  <2>2. ref[g] = 1
    BY <2>1 DEF ResourceInv, FileInv, FilesAccounted
  <2>3. CASE \E p \in Program, f \in File : OpenProc1(p, f) \/ ExecveOpen(p, f)
    <3>1. PICK p \in Program, f \in File : ref[f] = 0 /\ fprog' = [fprog EXCEPT ![f] = p]
      BY <2>3 DEF OpenProc1, ExecveOpen
    <3> QED
      BY <2>1, <2>2, <3>1
  <2>4. CASE ExecveNoMm
    <3>1. pc = "create" /\ fprog' = [fprog EXCEPT ![file] = NULL]
      BY <2>4 DEF ExecveNoMm
    <3>2. g # file
      BY <3>1 DEF ResourceInv, FileInv
    <3> QED
      BY <2>1, <3>1, <3>2
  <2> QED
    BY <2>3, <2>4
<1>3. AreaInv' /\ \A m \in Mm : Keeps(m)
  BY <1>1, <1>2, QuietKeeps DEF ImageInv
<1>4. OldImage'
  BY <1>1, <1>3, OldKept DEF ImageInv
<1>5. /\ pc' \in {"user", "create"} => pc \in {"user", "create"}
      /\ pc' \notin {"segment", "pad", "zero", "brk"}
  BY DEF OpenProc1, ExecveOpen, ExecveNoMm
<1>6. RunsImage'
  BY <1>1, <1>3, <1>5, RunKept DEF ImageInv
<1> QED
  BY <1>3, <1>4, <1>5, <1>6 DEF ImageInv, LoadedPart

(* sys_execve keeps the old address space, with the image that runs.       *)
LEMMA CreateImage ==
  ASSUME Inv, ResourceInv, ImageInv, NEW m \in Mm, ExecveCreate(m)
  PROVE  ImageInv'
<1>1. UNCHANGED <<vmas, pte, word, fprog, image>> /\ old_mm' = task_mm /\ pc = "create" /\ pc' = "stack"
  BY DEF ExecveCreate, files
<1>2. AreaInv' /\ \A n \in Mm : Keeps(n)
  BY <1>1, QuietKeeps DEF ImageInv
<1>3. image \in Program /\ Shows(task_mm, image, Len(image.segs)) /\ task_mm \in Mm
  BY <1>1 DEF ImageInv, RunsImage, Inv, LoaderInv
<1>4. PICK t \in Mm, p \in Program, n \in Nat : t = task_mm /\ p = image /\ n = Len(image.segs)
  BY <1>3, ProgramAssumption
<1>5. Shows(t, p, n)'
  BY <1>2, <1>3, <1>4, KeepShows
<1>6. OldImage'
  BY <1>1, <1>3, <1>4, <1>5 DEF OldImage, Shows
<1> QED
  BY <1>1, <1>2, <1>6 DEF ImageInv, RunsImage, LoadedPart

(* The ends of a segment below the top do not wrap.                        *)
LEMMA SegmentEnds ==
  ASSUME NEW s \in Phdr, s = Segment, BelowTop(s), s.memsz >= s.filesz
  PROVE  /\ FileEnd = s.vaddr + s.filesz /\ FileEnd \in Nat
         /\ FileEnd + PAGE_SIZE - 1 < ADDRESS_SPACE
         /\ ZerosEnd = s.vaddr + s.memsz /\ ZerosEnd \in Nat
         /\ ZerosEnd + PAGE_SIZE - 1 < ADDRESS_SPACE
<1>1. /\ s.vaddr \in Nat /\ s.memsz \in Nat /\ s.filesz \in Nat
      /\ s.vaddr + s.memsz + PAGE_SIZE - 1 < ADDRESS_SPACE
  BY BelowTopBounds
<1>2. PAGE_SIZE \in Nat \ {0} /\ ADDRESS_SPACE \in Nat \ {0}
  BY VmaAssumption
<1>3. PICK x \in Nat, y \in Nat : x = s.vaddr + s.filesz /\ y = s.vaddr + s.memsz
  BY <1>1
<1>4. /\ x < ADDRESS_SPACE /\ y < ADDRESS_SPACE
      /\ x + PAGE_SIZE - 1 < ADDRESS_SPACE /\ y + PAGE_SIZE - 1 < ADDRESS_SPACE
  BY <1>1, <1>2, <1>3
<1>5. x % ADDRESS_SPACE = x /\ y % ADDRESS_SPACE = y
  BY <1>2, <1>4
<1> QED
  BY <1>3, <1>4, <1>5 DEF FileEnd, ZerosEnd

(* The steps of the loader that map nothing and clear nothing.             *)
LEMMA WalkImage ==
  ASSUME Inv, ResourceInv, ImageInv, ReadHeaders \/ SkipSegment \/ PadEnter \/ NoZeros
  PROVE  ImageInv'
<1>1. UNCHANGED <<vmas, pte, word, fprog, file, old_mm, image, task_mm>>
  BY DEF ReadHeaders, SkipSegment, PadEnter, NoZeros, loader, files
<1>2. AreaInv' /\ \A n \in Mm : Keeps(n)
  BY <1>1, QuietKeeps DEF ImageInv
<1>3. OldImage'
  BY <1>1, <1>2, OldKept DEF ImageInv
<1>4. pc' \in {"segment", "zero"}
  BY DEF ReadHeaders, SkipSegment, PadEnter, NoZeros, NextSegment
<1>5. RunsImage'
  BY <1>4 DEF RunsImage
<1>6. CASE ReadHeaders
  <2>1. seg' = 1 /\ pc = "header" /\ pc' = "segment"
    BY <1>6 DEF ReadHeaders
  <2>2. PICK p \in Program : p = fprog[file]
    BY <2>1 DEF Inv, LoaderInv
  <2>3. \A k \in DOMAIN p.segs : ~(k <= 0)
    BY ProgramAssumption
  <2>4. Shows(task_mm, fprog[file], seg - 1)'
    BY <1>1, <2>1, <2>2, <2>3 DEF Shows
  <2> QED
    BY <1>2, <1>3, <1>5, <2>1, <2>4 DEF ImageInv, LoadedPart
<1>7. CASE SkipSegment \/ NoZeros
  <2>1. pc \in {"segment", "brk"} /\ seg' = seg + 1 /\ pc' = "segment"
    BY <1>7 DEF SkipSegment, InLoop, NoZeros, NextSegment
  <2>2. seg <= Len(fprog[file].segs)
    <3>1. fprog[file] \in Program
      BY <2>1 DEF Inv, LoaderInv
    <3> QED
      BY <1>7, <3>1, ProgramAssumption DEF SkipSegment, InLoop, NoZeros, Inv, LoaderInv
  <2>3. PICK m \in Mm, p \in Program, s \in Phdr, k \in Nat :
          /\ m = task_mm /\ p = fprog[file] /\ s = Segment /\ k = seg
          /\ p.segs \in Seq(Phdr) /\ k \in 1..Len(p.segs) /\ k \in DOMAIN p.segs /\ s = p.segs[k]
    BY <2>1, <2>2, AtHand
  <2>4. Shows(m, p, k - 1)
    BY <2>1, <2>3 DEF ImageInv, LoadedPart
  <2>5. ASSUME FilePartsFit(p), BelowTop(s), NEW i \in 0..(s.memsz - 1)
        PROVE  ShownWord(m, p, s, i)'
    <3>1. s.vaddr \in Nat /\ s.memsz \in Nat /\ s.filesz \in Nat /\ s.vaddr + i \in Address
      BY <2>5, BelowTopBounds
    <3>2. CASE SkipSegment
      BY <2>3, <2>5, <3>1, <3>2 DEF SkipSegment, BelowTop
    <3>3. CASE NoZeros
      <4>1. pc = "brk" /\ ZerosEnd <= ZerosStart
        BY <3>3 DEF NoZeros
      <4>2. s.memsz >= s.filesz /\ PartShown(m, p, s, ZerosStart)
        BY <2>3, <4>1 DEF ImageInv, LoadedPart
      <4>3. ZerosEnd = s.vaddr + s.memsz /\ FileEnd \in Nat
        BY <2>3, <2>5, <4>2, SegmentEnds
      <4>4. ZerosStart \in Nat
        BY <4>3, AlignType DEF ZerosStart, Address
      <4>5. s.vaddr + i < ZerosStart
        BY <3>1, <4>1, <4>3, <4>4
      <4>6. ShownWord(m, p, s, i)
        BY <2>5, <4>2, <4>5 DEF PartShown
      <4> QED
        BY <1>2, <3>1, <4>6 DEF ShownWord, Keeps
    <3> QED
      BY <1>7, <3>2, <3>3
  <2>6. Keeps(m) /\ task_mm' = m /\ fprog'[file'] = p /\ seg' = k + 1
    BY <1>1, <1>2, <2>1, <2>3
  <2>7. LoadedPart'
    BY <2>1, <2>3, <2>4, <2>5, <2>6, LoadedNext
  <2> QED
    BY <1>2, <1>3, <1>5, <2>7 DEF ImageInv
<1>8. CASE PadEnter
  <2>1. pc = "pad" /\ pc' = "zero" /\ seg' = seg
    BY <1>8 DEF PadEnter
  <2>2. seg <= Len(fprog[file].segs)
    <3>1. fprog[file] \in Program
      BY <2>1 DEF Inv, LoaderInv
    <3> QED
      BY <2>1, <3>1, ProgramAssumption DEF Inv, LoaderInv
  <2>3. PICK m \in Mm, p \in Program, s \in Phdr, k \in Nat :
          /\ m = task_mm /\ p = fprog[file] /\ s = Segment /\ k = seg
          /\ p.segs \in Seq(Phdr) /\ k \in 1..Len(p.segs) /\ k \in DOMAIN p.segs /\ s = p.segs[k]
    BY <2>1, <2>2, AtHand
  <2>4. PICK e, g : e = s.vaddr + s.filesz /\ g = FileEnd
    OBVIOUS
  <2>5. /\ Shows(m, p, k - 1) /\ PartShown(m, p, s, e) /\ Apart(p, k - 1, g)
        /\ s.load /\ s.filesz > 0 /\ s.memsz >= s.filesz
    BY <2>1, <2>3, <2>4 DEF ImageInv, LoadedPart
  <2>6. Shows(m, p, k - 1)' /\ PartShown(m, p, s, e)'
    BY <1>2, <2>5, KeepShows, KeepPart
  <2>7. Segment' = s /\ FileEnd' = g /\ task_mm' = m /\ fprog'[file'] = p /\ seg' = k
    BY <1>1, <2>1, <2>3, <2>4 DEF Segment, FileEnd
  <2>8. Shows(task_mm, fprog[file], seg - 1)'
    BY <2>6, <2>7 DEF Shows
  <2>9. PartShown(task_mm, fprog[file], Segment, Segment.vaddr + Segment.filesz)'
    BY <2>4, <2>6, <2>7 DEF PartShown
  <2>10. Apart(fprog[file], seg - 1, FileEnd)'
    BY <2>5, <2>7 DEF Apart
  <2>11. LoadedPart'
    BY <2>1, <2>5, <2>7, <2>8, <2>9, <2>10 DEF LoadedPart
  <2> QED
    BY <1>2, <1>3, <1>5, <2>11 DEF ImageInv
<1> QED
  BY <1>6, <1>7, <1>8

(* The area that do_mmap makes for a range that does not reach the last    *)
(* page holds the range, to the end of its last page.                      *)
LEMMA HoldsRange ==
  ASSUME NEW addr \in Address, NEW length \in Nat, addr + length + PAGE_SIZE - 1 < ADDRESS_SPACE,
         NEW f, NEW offset, NEW a \in Nat, addr <= a, a < align_up(addr + length)
  PROVE  Holds(NewVma(addr, length, f, offset), a)
<1>1. addr \in Nat /\ PAGE_SIZE \in Nat \ {0} /\ ADDRESS_SPACE \in Nat \ {0}
  BY VmaAssumption DEF Address
<1>2. PICK x \in Nat : x = addr + length
  BY <1>1
<1>3. x < ADDRESS_SPACE
  BY <1>1, <1>2
<1>4. x % ADDRESS_SPACE = x
  BY <1>1, <1>3
<1>5. align_down(addr) \in Nat /\ align_down(addr) <= addr
  BY <1>1, PageArith
<1>6. align_down(addr) <= a
  BY <1>1, <1>5
<1> QED
  BY <1>2, <1>4, <1>6 DEF Holds, NewVma

(* The stack of a new address space.                                       *)
LEMMA StackImage ==
  ASSUME Inv, ResourceInv, ImageInv, MapStack
  PROVE  ImageInv'
<1>1. /\ UNCHANGED <<pte, word, fprog, old_mm, image>>
      /\ pc = "stack" /\ pc' \in {"open", "header"}
  BY DEF MapStack, files
<1>2. PICK m \in Mm : m = task_mm
  BY <1>1 DEF Inv, LoaderInv
<1>3. PICK l : /\ l \in do_mmap(vmas[m], USER_STACK_BASE, PAGE_SIZE, NULL, 0)
               /\ vmas' = [vmas EXCEPT ![m] = l]
  BY <1>2 DEF MapStack, vm_brk_flags
<1>4. USER_STACK_BASE \in Address /\ PAGE_SIZE \in Nat /\ 0 \in Address /\ NULL \in File \cup {NULL}
  BY VmaAssumption, VmAssumption DEF Address
<1>5. PICK none, zero : none = NULL /\ zero = 0
  OBVIOUS
<1>6. AreaInv' /\ \A n \in Mm : Keeps(n)
  BY <1>1, <1>3, <1>4, <1>5, MapShows DEF ImageInv
<1>7. OldImage'
  BY <1>1, <1>6, OldKept DEF ImageInv
<1> QED
  BY <1>1, <1>6, <1>7 DEF ImageInv, RunsImage, LoadedPart

(* A segment, or the end of one, that has only zeros.                      *)
LEMMA ZerosImage ==
  ASSUME Inv, ResourceInv, ImageInv, MapZeroSegment \/ MapZeros
  PROVE  ImageInv'
<1>1. /\ UNCHANGED <<pte, word, fprog, file, old_mm, image, task_mm>>
      /\ pc \in {"segment", "brk"} /\ pc' = "segment" /\ seg' = seg + 1
  BY DEF MapZeroSegment, MapZeros, InLoop, NextSegment, loader, files
<1>2. seg <= Len(fprog[file].segs)
  <2>1. fprog[file] \in Program
    BY <1>1 DEF Inv, LoaderInv
  <2> QED
    BY <2>1, ProgramAssumption DEF MapZeroSegment, InLoop, MapZeros, Inv, LoaderInv
<1>3. PICK m \in Mm, p \in Program, s \in Phdr, k \in Nat :
        /\ m = task_mm /\ p = fprog[file] /\ s = Segment /\ k = seg
        /\ p.segs \in Seq(Phdr) /\ k \in 1..Len(p.segs) /\ k \in DOMAIN p.segs /\ s = p.segs[k]
  BY <1>1, <1>2, AtHand
<1>4. Shows(m, p, k - 1)
  BY <1>1, <1>3 DEF ImageInv, LoadedPart
<1>5. /\ s.vaddr \in Address /\ s.memsz \in Address /\ s.filesz \in Address
      /\ \A x \in Address : x \in Nat
  BY DEF Phdr, Address
<1>6. PICK none \in File \cup {NULL}, zero \in Address : none = NULL /\ zero = 0
  BY VmaAssumption DEF Address
<1>7. \E addr \in Address, length \in Nat :
        /\ \E l \in do_mmap(vmas[m], addr, length, none, zero) : vmas' = [vmas EXCEPT ![m] = l]
        /\ MapZeroSegment => addr = s.vaddr /\ length = s.memsz
        /\ MapZeros => addr = ZerosStart /\ length = ZerosEnd - ZerosStart /\ ZerosEnd > ZerosStart
        /\ MapZeroSegment \/ MapZeros
  <2>1. CASE MapZeroSegment
    <3>1. pc = "segment" /\ ~MapZeros
      BY <2>1 DEF MapZeroSegment, InLoop, MapZeros
    <3>2. PICK l : l \in do_mmap(vmas[m], s.vaddr, s.memsz, none, zero) /\ vmas' = [vmas EXCEPT ![m] = l]
      BY <1>3, <1>6, <2>1 DEF MapZeroSegment, vm_brk_flags
    <3> QED
      BY <1>5, <2>1, <3>1, <3>2
  <2>2. CASE MapZeros
    <3>1. pc = "brk" /\ ~MapZeroSegment /\ ZerosEnd > ZerosStart
      BY <2>2 DEF MapZeroSegment, InLoop, MapZeros
    <3>2. PICK l : /\ l \in do_mmap(vmas[m], ZerosStart, ZerosEnd - ZerosStart, none, zero)
                   /\ vmas' = [vmas EXCEPT ![m] = l]
      BY <1>3, <1>6, <2>2 DEF MapZeros, vm_brk_flags
    <3>3. FileEnd \in Nat /\ ZerosEnd \in Nat
      <4>1. PICK x \in Nat, y \in Nat : x = s.vaddr + s.filesz /\ y = s.vaddr + s.memsz
        BY <1>5
      <4>2. x % ADDRESS_SPACE \in Nat /\ y % ADDRESS_SPACE \in Nat
        BY VmaAssumption
      <4> QED
        BY <1>3, <4>1, <4>2 DEF FileEnd, ZerosEnd
    <3>4. ZerosStart \in Address
      BY <3>3, AlignType DEF ZerosStart
    <3>5. ZerosEnd - ZerosStart \in Nat
      BY <1>5, <3>1, <3>3, <3>4
    <3> QED
      BY <2>2, <3>1, <3>2, <3>4, <3>5
  <2> QED
    BY <2>1, <2>2
<1>8. PICK addr \in Address, length \in Nat :
        /\ \E l \in do_mmap(vmas[m], addr, length, none, zero) : vmas' = [vmas EXCEPT ![m] = l]
        /\ MapZeroSegment => addr = s.vaddr /\ length = s.memsz
        /\ MapZeros => addr = ZerosStart /\ length = ZerosEnd - ZerosStart /\ ZerosEnd > ZerosStart
        /\ MapZeroSegment \/ MapZeros
  BY <1>7
<1>b. PICK l : /\ l \in do_mmap(vmas[m], addr, length, none, zero)
               /\ vmas' = [vmas EXCEPT ![m] = l]
  BY <1>8
<1>9. /\ AreaInv' /\ \A n \in Mm : Keeps(n)
      /\ \A a \in Address : Holds(NewVma(addr, length, none, zero), a) =>
           Mapped(m, a)' /\ Content(m, a)' = Zero
  <2>1. AreaInv' /\ \A n \in Mm : Keeps(n)
    BY <1>1, <1>b, MapShows DEF ImageInv
  <2>2. \A a \in Address : Holds(NewVma(addr, length, none, zero), a) =>
          /\ ~Mapped(m, a) /\ Mapped(m, a)'
          /\ (none = NULL \/ zero + (a - addr) < ADDRESS_SPACE) =>
               Content(m, a)' =
                 IF none # NULL /\ zero + (a - addr) < fprog[none].size
                 THEN <<fprog[none].name, zero + (a - addr)>> ELSE Zero
    BY <1>1, <1>b, MapShows DEF ImageInv
  <2> QED
    BY <1>6, <2>1, <2>2
<1>10. ASSUME FilePartsFit(p), BelowTop(s), NEW i \in 0..(s.memsz - 1)
       PROVE  ShownWord(m, p, s, i)'
  <2>1. /\ s.vaddr \in Nat /\ s.memsz \in Nat /\ s.filesz \in Nat
        /\ s.vaddr + s.memsz + PAGE_SIZE - 1 < ADDRESS_SPACE
        /\ s.vaddr + i \in Address /\ s.vaddr + i \in Nat
    BY <1>10, BelowTopBounds
  <2>2. ASSUME addr + length = s.vaddr + s.memsz, addr <= s.vaddr + i, ~(i < s.filesz)
        PROVE  ShownWord(m, p, s, i)'
    <3>1. addr + length \in Nat /\ addr + length + PAGE_SIZE - 1 < ADDRESS_SPACE
      BY <2>1, <2>2
    <3>2. s.vaddr + i < align_up(addr + length)
      <4>1. PICK x \in Nat : x = addr + length
        BY <3>1
      <4>2. x <= align_up(x) /\ align_up(x) \in Nat
        BY <3>1, <4>1, AlignUp
      <4> QED
        BY <2>1, <2>2, <4>1, <4>2
    <3>3. Holds(NewVma(addr, length, none, zero), s.vaddr + i)
      BY <2>1, <2>2, <3>1, <3>2, HoldsRange
    <3>4. SegmentWord(p, s, i) = Zero
      BY <2>2 DEF SegmentWord
    <3> QED
      BY <1>9, <2>1, <3>3, <3>4 DEF ShownWord
  <2>3. CASE MapZeroSegment
    <3>1. addr = s.vaddr /\ length = s.memsz /\ s.filesz = 0
      BY <1>3, <1>8, <2>3 DEF MapZeroSegment
    <3> QED
      BY <2>1, <2>2, <3>1
  <2>4. CASE MapZeros
    <3>1. pc = "brk" /\ addr = ZerosStart /\ length = ZerosEnd - ZerosStart
      BY <1>8, <2>4 DEF MapZeros
    <3>2. s.memsz >= s.filesz /\ PartShown(m, p, s, addr)
      BY <1>3, <3>1 DEF ImageInv, LoadedPart
    <3>3. /\ ZerosEnd = s.vaddr + s.memsz /\ FileEnd = s.vaddr + s.filesz /\ FileEnd \in Nat
          /\ FileEnd + PAGE_SIZE - 1 < ADDRESS_SPACE
      BY <1>3, <1>10, <3>2, SegmentEnds
    <3>4. addr >= s.vaddr + s.filesz
      BY <3>1, <3>3, AlignUp DEF ZerosStart
    <3>5. CASE s.vaddr + i < addr
      <4>1. ShownWord(m, p, s, i)
        BY <1>10, <3>2, <3>5 DEF PartShown
      <4> QED
        BY <1>9, <2>1, <4>1 DEF ShownWord, Keeps
    <3>6. CASE ~(s.vaddr + i < addr)
      <4>1. addr + length = s.vaddr + s.memsz /\ addr <= s.vaddr + i /\ ~(i < s.filesz)
        BY <1>5, <2>1, <3>1, <3>3, <3>4, <3>6
      <4> QED
        BY <2>2, <4>1
    <3> QED
      BY <3>5, <3>6
  <2> QED
    BY <1>8, <2>3, <2>4
<1>11. LoadedPart'
  <2>1. Keeps(m) /\ task_mm' = m /\ fprog'[file'] = p /\ seg' = k + 1
    BY <1>1, <1>3, <1>9
  <2> QED
    BY <1>1, <1>3, <1>4, <1>10, <2>1, LoadedNext
<1>12. OldImage'
  BY <1>1, <1>9, OldKept DEF ImageInv
<1> QED
  BY <1>1, <1>9, <1>11, <1>12 DEF ImageInv, RunsImage

(* Where the part of a segment in the file ends inside a page, do_mmap has *)
(* made that page part of the new area, or the page is the last one: no    *)
(* earlier segment has a word there.                                       *)
LEMMA MappedApart ==
  ASSUME Inv, AreaInv, NEW m \in Mm, NEW p \in Program, NEW k \in Nat, Shows(m, p, k),
         NEW s \in Phdr, s.filesz > 0, s.vaddr + s.filesz <= ADDRESS_SPACE,
         NEW f, NEW offset, NEW e, e = (s.vaddr + s.filesz) % ADDRESS_SPACE,
         \A a \in Address : Holds(NewVma(s.vaddr, s.filesz, f, offset), a) => ~Mapped(m, a)
  PROVE  Apart(p, k, e)
<1> SUFFICES ASSUME FilePartsFit(p), e % PAGE_SIZE # 0, NEW j \in DOMAIN p.segs, j <= k,
                    BelowTop(p.segs[j]), NEW i \in 0..(p.segs[j].memsz - 1),
                    PageOf(p.segs[j].vaddr + i) = PageOf(e)
             PROVE  FALSE
  BY DEF Apart
<1>1. p.segs[j] \in Phdr
  BY ProgramAssumption
<1>2. PICK b \in Nat : b = p.segs[j].vaddr + i
  BY <1>1, BelowTopBounds
<1>3. b \in Address /\ Mapped(m, b)
  BY <1>1, <1>2, BelowTopBounds DEF Shows, ShownWord
<1>4. b + PAGE_SIZE < ADDRESS_SPACE
  <2>1. /\ p.segs[j].vaddr \in Nat /\ p.segs[j].memsz \in Nat
        /\ p.segs[j].vaddr + p.segs[j].memsz + PAGE_SIZE - 1 < ADDRESS_SPACE
    BY <1>1, BelowTopBounds
  <2> QED
    BY <1>2, <2>1, VmaAssumption
<1>5. s.vaddr \in Address /\ s.vaddr \in Nat /\ s.filesz \in Nat
      /\ PAGE_SIZE \in Nat \ {0} /\ ADDRESS_SPACE \in Nat \ {0} /\ ADDRESS_SPACE % PAGE_SIZE = 0
  BY VmaAssumption DEF Phdr, Address
<1>6. PICK x \in Nat : x = s.vaddr + s.filesz
  BY <1>5
<1>7. x # ADDRESS_SPACE
  <2>1. ADDRESS_SPACE % ADDRESS_SPACE = 0 /\ 0 % PAGE_SIZE = 0
    BY <1>5
  <2> QED
    BY <1>6, <2>1
<1>8. x < ADDRESS_SPACE /\ e = x /\ e \in Nat /\ e \in Address
  <2>1. x < ADDRESS_SPACE
    BY <1>5, <1>6, <1>7
  <2>2. x % ADDRESS_SPACE = x
    BY <1>5, <2>1
  <2> QED
    BY <1>5, <1>6, <2>1, <2>2 DEF Address
<1>9. align_down(b) = align_down(e) /\ align_down(e) \in Nat /\ e < align_down(e) + PAGE_SIZE
      /\ align_down(b) <= b /\ align_down(e) <= e
  BY <1>2, <1>8, SameAlign, PageArith DEF PageOf
<1>10. e + PAGE_SIZE - 1 < ADDRESS_SPACE
  <2>1. align_down(e) % PAGE_SIZE = 0 /\ align_down(e) + PAGE_SIZE \in Nat
    BY <1>5, <1>8, <1>9, AlignedUp
  <2>2. PICK t \in Nat : t = align_down(e) + PAGE_SIZE
    BY <2>1
  <2>3. t % PAGE_SIZE = 0
    <3>1. align_down(e) = PAGE_SIZE * (e \div PAGE_SIZE) /\ e \div PAGE_SIZE \in Nat
      BY <1>8, PageArith
    <3>2. t = PAGE_SIZE * (e \div PAGE_SIZE + 1)
      BY <1>5, <2>2, <3>1
    <3> QED
      BY <1>5, <3>1, <3>2
  <2>4. t \in Address
    BY <1>4, <1>5, <1>9, <2>2 DEF Address
  <2>5. t + PAGE_SIZE <= ADDRESS_SPACE
    BY <2>3, <2>4, LastPage
  <2> QED
    BY <1>5, <1>8, <1>9, <2>2, <2>5
<1>11. s.vaddr <= e /\ e < align_up(s.vaddr + s.filesz)
  <2>1. align_up(e) = align_down(e) + PAGE_SIZE
    BY <1>8, <1>10, AlignUp
  <2> QED
    BY <1>5, <1>6, <1>8, <1>9, <2>1
<1>12. Holds(NewVma(s.vaddr, s.filesz, f, offset), e)
  <2>1. s.vaddr + s.filesz + PAGE_SIZE - 1 < ADDRESS_SPACE
    BY <1>5, <1>6, <1>8, <1>10
  <2> QED
    BY <1>5, <1>8, <1>11, <2>1, HoldsRange
<1>13. ~Mapped(m, e)
  BY <1>8, <1>12
<1>14. vmas[m] \in Seq(Vma) /\ Disjoint(vmas[m]) /\ Aligned(vmas[m])
  BY DEF Inv, TypeOK, AreasDisjoint, AreaInv
<1>15. find_vma(vmas[m], b) = find_vma(vmas[m], e)
  BY <1>2, <1>8, <1>14, FindPage
<1> QED
  BY <1>3, <1>13, <1>15 DEF Mapped

(* The part of a segment that is in the file.                              *)
LEMMA FileImage ==
  ASSUME Inv, ResourceInv, ImageInv, MapFileSegment
  PROVE  ImageInv'
<1>1. /\ UNCHANGED <<pte, word, fprog, file, old_mm, image, task_mm, seg>>
      /\ pc = "segment" /\ pc' \in {"pad", "brk"}
  BY DEF MapFileSegment, InLoop, loader, files
<1>2. seg <= Len(fprog[file].segs)
  BY DEF MapFileSegment, InLoop
<1>3. PICK m \in Mm, p \in Program, s \in Phdr, k \in Nat :
        /\ m = task_mm /\ p = fprog[file] /\ s = Segment /\ k = seg
        /\ p.segs \in Seq(Phdr) /\ k \in 1..Len(p.segs) /\ k \in DOMAIN p.segs /\ s = p.segs[k]
  BY <1>1, <1>2, AtHand
<1>4. /\ s.load /\ s.filesz > 0 /\ s.memsz >= s.filesz
      /\ pc' = IF s.memsz > s.filesz THEN "pad" ELSE "brk"
  BY <1>3 DEF MapFileSegment
<1>5. Shows(m, p, k - 1)
  BY <1>1, <1>3 DEF ImageInv, LoadedPart
<1>6. /\ s.vaddr \in Address /\ s.memsz \in Address /\ s.filesz \in Address /\ s.offset \in Address
      /\ \A x \in Address : x \in Nat
  BY DEF Phdr, Address
<1>a. PICK f \in File : f = file
  BY <1>1 DEF Inv, LoaderInv
<1>7. PICK l :
        /\ f = file /\ l \in do_mmap(vmas[m], s.vaddr, s.filesz, f, s.offset)
        /\ vmas' = [vmas EXCEPT ![m] = l]
  BY <1>3, <1>a DEF MapFileSegment
<1>8. f \in File \cup {NULL} /\ f # NULL /\ fprog[f] = p
  BY <1>3, <1>7, VmAssumption
<1>9. PICK addr \in Address, length \in Nat, offset \in Address :
        addr = s.vaddr /\ length = s.filesz /\ offset = s.offset
  BY <1>6
<1>10. l \in do_mmap(vmas[m], addr, length, f, offset)
  BY <1>7, <1>9
<1>11. /\ AreaInv' /\ \A n \in Mm : Keeps(n)
       /\ \A a \in Address : Holds(NewVma(addr, length, f, offset), a) =>
            /\ ~Mapped(m, a) /\ Mapped(m, a)'
            /\ offset + (a - addr) < ADDRESS_SPACE =>
                 Content(m, a)' =
                   IF offset + (a - addr) < p.size THEN <<p.name, offset + (a - addr)>> ELSE Zero
  <2>1. AreaInv' /\ \A n \in Mm : Keeps(n)
    BY <1>1, <1>7, <1>8, <1>10, MapShows DEF ImageInv
  <2>2. \A a \in Address : Holds(NewVma(addr, length, f, offset), a) =>
          /\ ~Mapped(m, a) /\ Mapped(m, a)'
          /\ offset + (a - addr) < ADDRESS_SPACE =>
               Content(m, a)' =
                 IF f # NULL /\ offset + (a - addr) < fprog[f].size
                 THEN <<fprog[f].name, offset + (a - addr)>> ELSE Zero
    BY <1>1, <1>7, <1>8, <1>10, MapShows DEF ImageInv
  <2> QED
    BY <1>8, <2>1, <2>2
<1>12. ASSUME FilePartsFit(p), BelowTop(s), NEW i \in Nat, i < s.filesz
       PROVE  ShownWord(m, p, s, i)'
  <2>1. /\ s.vaddr \in Nat /\ s.memsz \in Nat /\ s.filesz \in Nat /\ s.offset \in Nat
        /\ s.vaddr + s.memsz + PAGE_SIZE - 1 < ADDRESS_SPACE
    BY <1>12, BelowTopBounds
  <2>2. s.vaddr + i \in Address /\ s.vaddr + i \in Nat
    <3>1. i \in 0..(s.memsz - 1)
      BY <1>4, <1>12, <2>1
    <3> QED
      BY <1>12, <3>1, BelowTopBounds
  <2>3. addr + length + PAGE_SIZE - 1 < ADDRESS_SPACE
    BY <1>4, <1>9, <2>1, VmaAssumption
  <2>4. s.vaddr + i < align_up(addr + length)
    <3>1. PICK x \in Nat : x = addr + length
      BY <1>9, <2>1
    <3>2. x <= align_up(x) /\ align_up(x) \in Nat
      BY <2>3, <3>1, AlignUp
    <3> QED
      BY <1>9, <1>12, <2>1, <3>1, <3>2
  <2>5. Holds(NewVma(addr, length, f, offset), s.vaddr + i)
    <3>1. addr <= s.vaddr + i
      BY <1>9, <2>1
    <3> QED
      BY <2>2, <2>3, <2>4, <3>1, HoldsRange
  <2>6. SegmentWord(p, s, i) = IF s.offset + i < p.size THEN <<p.name, s.offset + i>> ELSE Zero
    BY <1>12 DEF SegmentWord
  <2>7. PICK a \in Address, c \in Int : a = s.vaddr + i /\ c = offset + (a - addr)
    BY <1>9, <2>1, <2>2
  <2>9. c = s.offset + i /\ c < ADDRESS_SPACE
    <3>1. c = s.offset + i
      BY <1>9, <2>1, <2>7
    <3>2. s.offset + s.filesz <= ADDRESS_SPACE
      BY <1>3, <1>4, <1>12 DEF FilePartsFit
    <3> QED BY <1>12, <2>1, <3>1, <3>2, VmaAssumption
  <2>8. /\ Mapped(m, a)'
        /\ Content(m, a)' = IF c < p.size THEN <<p.name, c>> ELSE Zero
    BY <1>11, <2>5, <2>7, <2>9
  <2>10. Mapped(m, a)' /\ Content(m, a)' = SegmentWord(p, s, i)
    BY <2>6, <2>8, <2>9
  <2> QED
    BY <2>7, <2>10 DEF ShownWord
<1>13. PICK e : e = FileEnd /\ e = (s.vaddr + s.filesz) % ADDRESS_SPACE
  BY <1>3 DEF FileEnd
<1>14. pc' = "pad" => Apart(p, k - 1, e)
  <2>1. CASE s.vaddr + s.filesz <= ADDRESS_SPACE
    <3>1. \A a \in Address : Holds(NewVma(s.vaddr, s.filesz, f, offset), a) => ~Mapped(m, a)
      BY <1>9, <1>11
    <3>2. k - 1 \in Nat
      BY <1>3
    <3> QED
      BY <1>4, <1>5, <1>13, <2>1, <3>1, <3>2, MappedApart DEF ImageInv
  <2>2. CASE ~(s.vaddr + s.filesz <= ADDRESS_SPACE)
    <3>1. ~FilePartsFit(p)
      BY <1>3, <1>4, <2>2 DEF FilePartsFit
    <3> QED
      BY <3>1 DEF Apart
  <2> QED
    BY <2>1, <2>2
<1>15. /\ Segment' = s /\ FileEnd' = e /\ task_mm' = m /\ fprog'[file'] = p /\ seg' = k
       /\ ZerosStart' = align_up(e)
  BY <1>1, <1>3, <1>13 DEF Segment, FileEnd, ZerosStart
<1>16. Shows(task_mm, fprog[file], seg - 1)'
  <2>1. Shows(m, p, k - 1)'
    BY <1>5, <1>11, KeepShows
  <2> QED
    BY <1>15, <2>1 DEF Shows
<1>17. PartShown(m, p, s, s.vaddr + s.filesz)'
  <2> SUFFICES ASSUME FilePartsFit(p), BelowTop(s), NEW i \in 0..(s.memsz - 1),
                      s.vaddr + i < s.vaddr + s.filesz
               PROVE  ShownWord(m, p, s, i)'
    BY DEF PartShown
  <2>1. i \in Nat /\ i < s.filesz
    BY <1>6
  <2> QED
    BY <1>12, <2>1
<1>18. pc' = "brk" => PartShown(m, p, s, align_up(e))'
  <2> SUFFICES ASSUME pc' = "brk", FilePartsFit(p), BelowTop(s), NEW i \in 0..(s.memsz - 1)
               PROVE  ShownWord(m, p, s, i)'
    BY DEF PartShown
  <2>1. i \in Nat /\ i < s.filesz
    BY <1>4, <1>6
  <2> QED
    BY <1>12, <2>1
<1>19. LoadedPart'
  <2>1. pc' = "pad" =>
          /\ PartShown(task_mm, fprog[file], Segment, Segment.vaddr + Segment.filesz)'
          /\ Apart(fprog[file], seg - 1, FileEnd)'
    BY <1>14, <1>15, <1>17 DEF PartShown, Apart
  <2>2. pc' = "brk" => PartShown(task_mm, fprog[file], Segment, ZerosStart)'
    BY <1>15, <1>18 DEF PartShown
  <2> QED
    BY <1>1, <1>4, <1>15, <1>16, <2>1, <2>2 DEF LoadedPart
<1>20. OldImage'
  BY <1>1, <1>11, OldKept DEF ImageInv
<1> QED
  BY <1>1, <1>11, <1>19, <1>20 DEF ImageInv, RunsImage

(* padzero clears no word of an earlier segment and none of the part in    *)
(* the file, and behind that leaves only zeros on its page.                *)
LEMMA PadImage ==
  ASSUME Inv, ResourceInv, ImageInv, PadZero
  PROVE  ImageInv'
<1>1. UNCHANGED <<fprog, file, old_mm, image, task_mm, seg>> /\ pc = "zero" /\ pc' = "brk"
  BY DEF PadZero, loader, files
<1>2. seg <= Len(fprog[file].segs)
  <2>1. fprog[file] \in Program
    BY <1>1 DEF Inv, LoaderInv
  <2> QED
    BY <1>1, <2>1, ProgramAssumption DEF Inv, LoaderInv
<1>3. PICK m \in Mm, p \in Program, s \in Phdr, k \in Nat :
        /\ m = task_mm /\ p = fprog[file] /\ s = Segment /\ k = seg
        /\ p.segs \in Seq(Phdr) /\ k \in 1..Len(p.segs) /\ k \in DOMAIN p.segs /\ s = p.segs[k]
  BY <1>1, <1>2, AtHand
<1>4. PICK e \in Address : e = FileEnd
  <2>1. s.vaddr \in Nat /\ s.filesz \in Nat
    BY DEF Phdr, Address
  <2>2. PICK x \in Nat : x = s.vaddr + s.filesz
    BY <2>1
  <2>3. x % ADDRESS_SPACE \in Address
    BY VmaAssumption DEF Address
  <2> QED
    BY <1>3, <2>2, <2>3 DEF FileEnd
<1>5. /\ AreaInv' /\ \A n \in Mm : n # m => Keeps(n)
      /\ \A a \in Address :
           /\ Mapped(m, a)' <=> Mapped(m, a)
           /\ Mapped(m, a) =>
                Content(m, a)' = IF e % PAGE_SIZE # 0 /\ PageOf(a) = PageOf(e)
                                    /\ a % PAGE_SIZE >= e % PAGE_SIZE
                                 THEN Zero ELSE Content(m, a)
  BY <1>3, <1>4, PadClears DEF ImageInv
<1>6. /\ Shows(m, p, k - 1) /\ PartShown(m, p, s, s.vaddr + s.filesz) /\ Apart(p, k - 1, e)
      /\ s.load /\ s.filesz > 0 /\ s.memsz >= s.filesz
  BY <1>1, <1>3, <1>4 DEF ImageInv, LoadedPart
<1>7. Shows(m, p, k - 1)'
  <2> SUFFICES ASSUME FilePartsFit(p), NEW j \in DOMAIN p.segs, j <= k - 1, BelowTop(p.segs[j]),
                      NEW i \in 0..(p.segs[j].memsz - 1)
               PROVE  ShownWord(m, p, p.segs[j], i)'
    BY DEF Shows
  <2>1. p.segs[j] \in Phdr
    BY <1>3
  <2>2. PICK a \in Address : a = p.segs[j].vaddr + i
    BY <2>1, BelowTopBounds
  <2>3. Mapped(m, a) /\ Content(m, a) = SegmentWord(p, p.segs[j], i)
    BY <1>6, <2>2 DEF Shows, ShownWord
  <2>4. e % PAGE_SIZE # 0 => PageOf(a) # PageOf(e)
    BY <1>6, <2>2 DEF Apart
  <2>5. Mapped(m, a)' /\ Content(m, a)' = SegmentWord(p, p.segs[j], i)
    BY <1>5, <2>3, <2>4
  <2> QED
    BY <2>2, <2>5 DEF ShownWord
<1>8. PartShown(m, p, s, align_up(e))'
  <2> SUFFICES ASSUME FilePartsFit(p), BelowTop(s), NEW i \in 0..(s.memsz - 1),
                      s.vaddr + i < align_up(e)
               PROVE  ShownWord(m, p, s, i)'
    BY DEF PartShown
  <2>1. /\ s.vaddr \in Nat /\ s.memsz \in Nat /\ s.filesz \in Nat
        /\ s.vaddr + i \in Address /\ s.vaddr + i \in Nat
    BY BelowTopBounds
  <2>2. PICK a \in Address : a = s.vaddr + i /\ a \in Nat
    BY <2>1
  <2>3. e = s.vaddr + s.filesz /\ e \in Nat /\ e + PAGE_SIZE - 1 < ADDRESS_SPACE
    BY <1>3, <1>4, <1>6, SegmentEnds
  <2>4. PAGE_SIZE \in Nat \ {0}
    BY VmaAssumption
  <2>5. /\ align_down(e) \in Nat /\ align_down(e) <= e /\ align_down(e) % PAGE_SIZE = 0
        /\ e % PAGE_SIZE \in Nat /\ align_down(e) = e - (e % PAGE_SIZE)
        /\ e < align_down(e) + PAGE_SIZE
    <3>1. align_down(e) \in Nat /\ align_down(e) <= e /\ e < align_down(e) + PAGE_SIZE
      BY <2>3, PageArith
    <3>2. align_down(e) % PAGE_SIZE = 0
      BY <2>3, AlignedUp
    <3>3. e % PAGE_SIZE \in Nat
      BY <2>3, <2>4
    <3> QED
      BY <3>1, <3>2, <3>3 DEF align_down
  <2>6. align_up(e) = IF e % PAGE_SIZE = 0 THEN e ELSE align_down(e) + PAGE_SIZE
    BY <2>3, AlignUp
  <2>7. CASE i < s.filesz
    <3>1. ShownWord(m, p, s, i)
      BY <1>6, <2>1, <2>7 DEF PartShown
    <3>2. Mapped(m, a) /\ Content(m, a) = SegmentWord(p, s, i)
      BY <2>2, <3>1 DEF ShownWord
    <3>3. a < e
      BY <2>1, <2>2, <2>3, <2>7
    <3>4. PageOf(a) = PageOf(e) => a % PAGE_SIZE < e % PAGE_SIZE
      <4>1. PageOf(a) = PageOf(e) => align_down(a) = align_down(e)
        BY <2>2, <2>3, SameAlign DEF PageOf
      <4>2. align_down(a) = a - (a % PAGE_SIZE) /\ a % PAGE_SIZE \in Nat
        BY <2>2, <2>4 DEF align_down
      <4> QED
        BY <2>2, <2>3, <2>5, <3>3, <4>1, <4>2
    <3>5. a % PAGE_SIZE \in Nat
      BY <2>2, <2>4
    <3>6. Mapped(m, a)' /\ Content(m, a)' = Content(m, a)
      BY <1>5, <2>5, <3>2, <3>4, <3>5
    <3> QED
      BY <2>2, <3>2, <3>6 DEF ShownWord
  <2>8. CASE ~(i < s.filesz)
    <3>1. e <= a /\ a < align_up(e)
      BY <2>1, <2>2, <2>3, <2>8
    <3>2. e % PAGE_SIZE # 0 /\ a < align_down(e) + PAGE_SIZE
      BY <2>2, <2>3, <2>6, <3>1
    <3>3. /\ a \div PAGE_SIZE = align_down(e) \div PAGE_SIZE /\ a % PAGE_SIZE = a - align_down(e)
          /\ e \div PAGE_SIZE = align_down(e) \div PAGE_SIZE
      <4>1. align_down(e) <= a /\ e < align_down(e) + PAGE_SIZE
        BY <2>2, <2>3, <2>5, <3>1
      <4> QED
        BY <2>2, <2>3, <2>5, <3>2, <4>1, InPage
    <3>4. PageOf(a) = PageOf(e) /\ a % PAGE_SIZE >= e % PAGE_SIZE
      BY <2>2, <2>3, <2>5, <3>1, <3>3 DEF PageOf
    <3>5. Mapped(m, a)
      <4>1. PICK b \in Nat : b + 1 = e /\ b = s.vaddr + (s.filesz - 1)
        BY <1>6, <2>1, <2>3
      <4>2. s.filesz - 1 \in 0..(s.memsz - 1) /\ s.vaddr + (s.filesz - 1) < s.vaddr + s.filesz
        BY <1>6, <2>1
      <4>3. Mapped(m, b)
        BY <1>6, <4>1, <4>2 DEF PartShown, ShownWord
      <4>4. align_down(e) <= b /\ b < align_down(e) + PAGE_SIZE
        <5>1. PICK d \in Nat, r \in Nat : d = align_down(e) /\ r = e % PAGE_SIZE
          BY <2>5
        <5>2. d = e - r /\ r # 0 /\ e < d + PAGE_SIZE
          BY <2>5, <3>2, <5>1
        <5> QED
          BY <2>3, <2>4, <4>1, <5>1, <5>2
      <4>5. PageOf(b) = PageOf(a)
        BY <2>5, <3>3, <4>4, InPage DEF PageOf
      <4>6. vmas[m] \in Seq(Vma) /\ Disjoint(vmas[m]) /\ Aligned(vmas[m])
        BY DEF Inv, TypeOK, AreasDisjoint, ImageInv, AreaInv
      <4>7. find_vma(vmas[m], b) = find_vma(vmas[m], a)
        BY <2>2, <4>5, <4>6, FindPage
      <4> QED
        BY <4>3, <4>7 DEF Mapped
    <3>6. Mapped(m, a)' /\ Content(m, a)' = Zero
      BY <1>5, <3>2, <3>4, <3>5
    <3>7. SegmentWord(p, s, i) = Zero
      BY <2>8 DEF SegmentWord
    <3> QED
      BY <2>2, <3>6, <3>7 DEF ShownWord
  <2> QED
    BY <2>7, <2>8
<1>9. /\ Segment' = s /\ FileEnd' = e /\ task_mm' = m /\ fprog'[file'] = p /\ seg' = k
      /\ ZerosStart' = align_up(e)
  BY <1>1, <1>3, <1>4 DEF Segment, FileEnd, ZerosStart
<1>10. LoadedPart'
  <2>1. Shows(task_mm, fprog[file], seg - 1)'
    BY <1>7, <1>9 DEF Shows
  <2>2. PartShown(task_mm, fprog[file], Segment, ZerosStart)'
    BY <1>8, <1>9 DEF PartShown
  <2> QED
    BY <1>1, <1>6, <1>9, <2>1, <2>2 DEF LoadedPart
<1>11. OldImage'
  <2>1. \A n \in Mm : n = old_mm => Keeps(n)
    <3>1. old_mm \in Mm => old_mm # task_mm
      BY VmAssumption DEF ResourceInv, SpaceInv
    <3> QED
      BY <1>3, <1>5, <3>1
  <2> QED
    BY <1>1, <2>1, OldKept DEF ImageInv
<1> QED
  BY <1>1, <1>5, <1>10, <1>11 DEF ImageInv, RunsImage

(* The new program starts with all its segments; after a failed load the   *)
(* old one goes on with all of its own.                                    *)
LEMMA EndImage ==
  ASSUME Inv, ResourceInv, ImageInv, ResourceInv', EnterProc1 \/ ExecveDone \/ ExecveFailed \/ Exit
  PROVE  ImageInv'
<1>1. CASE EnterProc1 \/ ExecveDone
  <2>1. /\ pc = "segment" /\ seg > Len(fprog[file].segs) /\ pc' = "user"
        /\ image' = fprog[file] /\ task_mm' = task_mm
    BY <1>1 DEF EnterProc1, ExecveDone, Loaded
  <2>2. PICK m \in Mm, p \in Program : m = task_mm /\ p = fprog[file]
    BY <2>1 DEF Inv, LoaderInv
  <2>3. seg \in Nat /\ Len(p.segs) \in Nat /\ DOMAIN p.segs = 1..Len(p.segs)
    BY ProgramAssumption DEF Inv, TypeOK
  <2>4. PICK n : n = Len(p.segs)
    OBVIOUS
  <2>5. Shows(m, p, n)
    <3>1. Shows(m, p, seg - 1)
      BY <2>1, <2>2 DEF ImageInv, LoadedPart
    <3>2. n <= seg - 1
      BY <2>1, <2>2, <2>3, <2>4
    <3>3. \A k \in DOMAIN p.segs : k <= n => k <= seg - 1
      BY <2>3, <2>4, <3>2
    <3> QED
      BY <3>1, <3>3 DEF Shows
  <2>6. AreaInv' /\ Keeps(m) /\ old_mm' = NULL
    <3>1. CASE EnterProc1
      <4>1. UNCHANGED <<vmas, pte, word, old_mm>> /\ booting
        BY <3>1 DEF EnterProc1, space
      <4>2. ASSUME NEW d \in Mm, NEW f \in MappedFiles(d) PROVE fprog'[f] = fprog[f]
        <5>1. f \in File
          BY FilesOf
        <5>2. MappedFiles(d)' = MappedFiles(d)
          BY <4>1 DEF MappedFiles
        <5>3. f \notin leaked'
          BY <5>2 DEF ResourceInv, FileInv
        <5> QED
          BY <3>1, <5>1, <5>3 DEF EnterProc1
      <4> QED
        BY <4>1, <4>2, QuietKeeps DEF ImageInv, ResourceInv, SpaceInv
    <3>2. CASE ExecveDone
      <4>1. old_mm \in Mm /\ old_mm # task_mm /\ release_mm(old_mm) /\ old_mm' = NULL
        BY <2>1, <3>2, VmAssumption DEF ExecveDone, Inv, LoaderInv, ResourceInv, SpaceInv
      <4>2. PICK d \in Mm : d = old_mm
        BY <4>1
      <4> QED
        BY <2>2, <4>1, <4>2, ReleaseKeeps DEF ImageInv, ResourceInv
    <3> QED
      BY <1>1, <3>1, <3>2
  <2>7. Shows(m, p, n)'
    BY <2>5, <2>6, KeepShows
  <2>8. RunsImage'
    BY <2>1, <2>2, <2>4, <2>7 DEF RunsImage, Shows
  <2> QED
    BY <2>1, <2>6, <2>8 DEF ImageInv, OldImage, LoadedPart
<1>2. CASE ExecveFailed
  <2>1. /\ pc = "fail" /\ pc' = "user" /\ image' = image /\ task_mm' = old_mm /\ old_mm' = NULL
        /\ release_mm(task_mm)
    BY <1>2 DEF ExecveFailed
  <2>2. task_mm \in Mm /\ old_mm \in Mm /\ old_mm # task_mm /\ old_mm # NULL
    BY <2>1, VmAssumption DEF Inv, LoaderInv, ResourceInv, SpaceInv
  <2>3. image \in Program /\ Shows(old_mm, image, Len(image.segs))
    BY <2>2 DEF ImageInv, OldImage
  <2>4. PICK d \in Mm, m \in Mm, p \in Program, n \in Nat :
          d = task_mm /\ m = old_mm /\ p = image /\ n = Len(image.segs)
    BY <2>2, <2>3, ProgramAssumption
  <2>5. AreaInv' /\ Keeps(m)
    BY <2>1, <2>2, <2>4, ReleaseKeeps DEF ImageInv, ResourceInv
  <2>6. Shows(m, p, n)'
    BY <2>3, <2>4, <2>5, KeepShows
  <2>7. RunsImage'
    BY <2>1, <2>4, <2>6 DEF RunsImage, Shows
  <2> QED
    BY <2>1, <2>5, <2>7 DEF ImageInv, OldImage, LoadedPart
<1>3. CASE Exit
  <2>1. pc = "user" /\ pc' = "exited" /\ old_mm' = old_mm /\ release_mm(task_mm)
    BY <1>3 DEF Exit
  <2>2. task_mm \in Mm /\ old_mm = NULL
    BY <2>1 DEF Inv, LoaderInv, ResourceInv, SpaceInv
  <2>3. PICK d \in Mm : d = task_mm
    BY <2>2
  <2>4. AreaInv'
    BY <2>1, <2>3, ReleaseKeeps DEF ImageInv, ResourceInv
  <2> QED
    BY <2>1, <2>2, <2>4 DEF ImageInv, RunsImage, OldImage, LoadedPart
<1> QED
  BY <1>1, <1>2, <1>3

LEMMA InitImage == Init => ImageInv
<1> SUFFICES ASSUME Init PROVE ImageInv
  OBVIOUS
<1>1. AreaInv
  <2> SUFFICES ASSUME NEW m \in Mm
               PROVE  /\ Aligned(vmas[m])
                      /\ \A a \in Address : pte[m][PageOf(a)] # 0 => Mapped(m, a)
    BY DEF AreaInv
  <2>1. Aligned(vmas[m])
    BY DEF Init, Aligned
  <2>2. \A a \in Address : pte[m][PageOf(a)] = 0
    BY PageOfType DEF Init
  <2> QED
    BY <2>1, <2>2
<1> QED
  BY <1>1 DEF Init, ImageInv, RunsImage, OldImage, LoadedPart

(* In every reachable state the address spaces hold what their executables *)
(* say, as far as these are loaded.                                        *)
THEOREM ImagesHeld == Spec => []ImageInv
<1>1. Inv /\ ResourceInv /\ ResourceInv' /\ ImageInv /\ [Next]_vars => ImageInv'
  <2> SUFFICES ASSUME Inv, ResourceInv, ResourceInv', ImageInv, [Next]_vars PROVE ImageInv'
    OBVIOUS
  <2>1. CASE \E a \in Address : PageFault(a)
    BY <2>1, FaultImage
  <2>2. CASE \/ \E a \in Address : PageFaultPanic(a) \/ PageFaultReadFails(a)
             \/ LoadFails \/ \E m \in Mm : SpawnProc1(m)
    BY <2>2, AsideImage
  <2>3. CASE (\E p \in Program, f \in File : OpenProc1(p, f) \/ ExecveOpen(p, f)) \/ ExecveNoMm
    BY <2>3, OpenImage
  <2>4. CASE \E m \in Mm : ExecveCreate(m)
    BY <2>4, CreateImage
  <2>5. CASE MapStack \/ MapZeroSegment \/ MapZeros \/ MapFileSegment
    BY <2>5, StackImage, ZerosImage, FileImage
  <2>6. CASE ReadHeaders \/ SkipSegment \/ PadEnter \/ NoZeros \/ PadZero
    BY <2>6, WalkImage, PadImage
  <2>7. CASE EnterProc1 \/ ExecveDone \/ ExecveFailed \/ Exit
    BY <2>7, EndImage
  <2>8. CASE Stopped \/ UNCHANGED vars
    <3>1. UNCHANGED <<vmas, pte, word, pc, seg, file, fprog, image, task_mm, old_mm>>
      BY <2>8 DEF Stopped, vars, space, files
    <3>2. AreaInv' /\ \A m \in Mm : Keeps(m)
      BY <3>1, QuietKeeps DEF ImageInv
    <3> QED
      BY <3>1, <3>2, CarryImage
  <2> QED
    BY <2>1, <2>2, <2>3, <2>4, <2>5, <2>6, <2>7, <2>8 DEF Next
<1> QED
  BY <1>1, InitImage, Inductive, ResourcesOwned, PTL DEF Spec

(* A program sees its image and nothing else, whatever was loaded before,  *)
(* which loads failed, and in which order its pages came in.               *)
THEOREM ProgramsSeeTheirImage == Spec => []ImageCorrect
<1>1. Inv /\ ImageInv => ImageCorrect
  <2> SUFFICES ASSUME Inv, ImageInv, pc = "user", FilePartsFit(image),
                      NEW k \in DOMAIN image.segs, BelowTop(image.segs[k]),
                      NEW i \in 0..(image.segs[k].memsz - 1)
               PROVE  LET a == image.segs[k].vaddr + i
                          f == pte[task_mm][PageOf(a)]
                      IN  /\ find_vma(vmas[task_mm], a) # NULL
                          /\ f # 0 => word[f][a % PAGE_SIZE] = SegmentWord(image, image.segs[k], i)
    BY DEF ImageCorrect
  <2>1. image \in Program /\ Shows(task_mm, image, Len(image.segs))
    BY DEF ImageInv, RunsImage
  <2>2. k <= Len(image.segs)
    BY <2>1, ProgramAssumption
  <2>3. ShownWord(task_mm, image, image.segs[k], i)
    BY <2>1, <2>2 DEF Shows
  <2> QED
    BY <2>3 DEF ShownWord, Mapped, Content
<1> QED
  BY <1>1, Inductive, ImagesHeld, PTL

(* Demand paging cannot be seen: a page fault brings in a page, and no     *)
(* word of any address space changes, of those that are present and of     *)
(* those that are not.                                                     *)
THEOREM FaultsUnseen ==
  Spec => [][\A a \in Address, m \in Mm : PageFault(a) => Keeps(m)]_vars
<1>1. Inv /\ ResourceInv /\ ImageInv /\ [Next]_vars =>
        [\A a \in Address, m \in Mm : PageFault(a) => Keeps(m)]_vars
  <2> SUFFICES ASSUME Inv, ResourceInv, ImageInv, NEW a \in Address, NEW m \in Mm, PageFault(a)
               PROVE  Keeps(m)
    OBVIOUS
  <2> QED
    BY FaultKeeps DEF ImageInv
<1> QED
  BY <1>1, Inductive, ResourcesOwned, ImagesHeld, PTL DEF Spec
=============================================================================
