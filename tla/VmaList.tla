------------------------------ MODULE VmaList ------------------------------
(***************************************************************************)
(* The list of memory areas of an address space: do_mmap and find_vma of   *)
(* kernel/mmap.c and kernel/fault.c.  The doubly linked list is a sequence *)
(* in list order.  Addresses are unsigned and wrap at ADDRESS_SPACE.       *)
(***************************************************************************)
EXTENDS Naturals, SequencesExt

CONSTANTS
  PAGE_SIZE,
  ADDRESS_SPACE,  \* 2^32 in the kernel; a multiple of the page size
  NULL            \* no file, no memory

ASSUME VmaAssumption ==
  /\ PAGE_SIZE \in Nat \ {0}
  /\ ADDRESS_SPACE \in Nat \ {0}
  /\ ADDRESS_SPACE % PAGE_SIZE = 0

Address == 0..(ADDRESS_SPACE - 1)

align_down(a) == a - (a % PAGE_SIZE)

align_up(a) == align_down((a + PAGE_SIZE - 1) % ADDRESS_SPACE)

(* The vm_area_t that do_mmap fills in.                                    *)
NewVma(addr, length, file, offset) ==
  [vm_start |-> align_down(addr),
   vm_end |-> align_up((addr + length) % ADDRESS_SPACE),
   vm_file |-> file,
   vm_offset |-> IF file = NULL THEN 0 ELSE offset - (addr - align_down(addr))]

(* The loop of do_mmap stops in front of entry k.                          *)
StopsAt(l, v, k) ==
  /\ \A i \in 1..(k - 1) : l[i].vm_start < v.vm_start
  /\ k <= Len(l) => l[k].vm_start >= v.vm_start

(* Mutant of Overlaps: only the area below is looked at.                   *)
OverlapsBelow(l, v, k) == k > 1 /\ l[k - 1].vm_end > v.vm_start

(* The area overlaps its neighbour on either side.                         *)
Overlaps(l, v, k) ==
  \/ k > 1 /\ l[k - 1].vm_end > v.vm_start
  \/ k <= Len(l) /\ v.vm_end > l[k].vm_start

(* do_mmap on the list l: the set of the resulting list, or of none when   *)
(* it returns 0.                                                           *)
do_mmap(l, addr, length, file, offset) ==
  LET v == NewVma(addr, length, file, offset)
  IN  {InsertAt(l, k, v) : k \in {k \in 1..(Len(l) + 1) :
         /\ file # NULL => offset >= addr - align_down(addr)
         /\ StopsAt(l, v, k)
         /\ ~Overlaps(l, v, k)}}

vm_brk_flags(l, addr, length) == do_mmap(l, addr, length, NULL, 0)

(* find_vma: the first area that holds the address.                        *)
Holds(v, a) == v.vm_start <= a /\ a < v.vm_end
find_vma(l, a) ==
  LET at == SelectInSeq(l, LAMBDA v : Holds(v, a))
  IN  IF at = 0 THEN NULL ELSE l[at]

(* No area reaches into a later one; for areas that do not wrap round the  *)
(* end of the address space this means that no address is in two areas.    *)
Disjoint(l) ==
  \A i, j \in DOMAIN l : i < j =>
    l[i].vm_end <= l[j].vm_start /\ l[i].vm_start <= l[j].vm_start
=============================================================================
