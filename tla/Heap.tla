-------------------------------- MODULE Heap --------------------------------
(***************************************************************************)
(* The kernel heap of kernel/heap.c: a first-fit allocator on a static     *)
(* array, with a header in front of each block and the blocks in a singly  *)
(* linked list.  Sizes and addresses are in units of 4 bytes, which divide *)
(* the header (12 bytes), the alignment of sizes (8) and the heap.  The    *)
(* kernel's code calls kfree only with what kmalloc returned, once.        *)
(***************************************************************************)
EXTENDS Naturals, SequencesExt

CONSTANTS
  KERNEL_HEAP_SIZE,  \* the size of the heap
  HEADER,            \* sizeof(heap_block_t)
  ALIGN,             \* sizes are rounded up to a multiple of it
  Request            \* the sizes that callers ask for

ASSUME HeapAssumption ==
  /\ HEADER \in Nat \ {0} /\ ALIGN \in Nat \ {0}
  /\ KERNEL_HEAP_SIZE \in Nat /\ KERNEL_HEAP_SIZE > HEADER
  /\ Request \subseteq Nat

VARIABLES
  heap,   \* the blocks in list order, each with its address
  owned   \* what callers hold: pointers, with the sizes asked for

vars == <<heap, owned>>

Block(a, n, f) == [addr |-> a, size |-> n, is_free |-> f]

(* init_heap *)
Init ==
  /\ heap = <<Block(0, KERNEL_HEAP_SIZE - HEADER, TRUE)>>
  /\ owned = {}

----------------------------------------------------------------------------
align_up(n) == ((n + ALIGN - 1) \div ALIGN) * ALIGN

(* Mutant of split_block: the new block forgets the size of its header.    *)
split_no_header(h, i, n) ==
  LET b == h[i]
  IN  IF b.size < n + HEADER + ALIGN THEN h
      ELSE InsertAt(ReplaceAt(h, i, Block(b.addr, n, b.is_free)), i + 1,
                    Block(b.addr + HEADER + n, b.size - n, TRUE))

(* split_block: the rest of block i becomes a block of its own, unless it  *)
(* is too small for a header and 8 bytes.                                  *)
split_block(h, i, n) ==
  LET b == h[i]
  IN  IF b.size < n + HEADER + ALIGN THEN h
      ELSE InsertAt(ReplaceAt(h, i, Block(b.addr, n, b.is_free)), i + 1,
                    Block(b.addr + HEADER + n, b.size - n - HEADER, TRUE))

(* coalesce_free_blocks: one pass that lets each free block swallow its    *)
(* free, adjacent successors.                                              *)
Swallow(done, b) ==
  LET l == Last(done)
  IN  IF done # <<>> /\ l.is_free /\ b.is_free /\ l.addr + HEADER + l.size = b.addr
      THEN ReplaceAt(done, Len(done), Block(l.addr, l.size + HEADER + b.size, TRUE))
      ELSE Append(done, b)

(* Mutant of coalesce_free_blocks: the pass stops after one pair.          *)
coalesce_first_pair(h) ==
  LET pairs == {i \in 1..(Len(h) - 1) : h[i].is_free /\ h[i + 1].is_free}
      i == Min(pairs)
  IN  IF pairs = {} THEN h
      ELSE RemoveAt(ReplaceAt(h, i, Block(h[i].addr, h[i].size + HEADER + h[i + 1].size, TRUE)),
                    i + 1)

coalesce_free_blocks(h) ==
  LET pass[k \in 0..Len(h)] == IF k = 0 THEN <<>> ELSE Swallow(pass[k - 1], h[k])
  IN  pass[Len(h)]

----------------------------------------------------------------------------
Fits(n) == {i \in DOMAIN heap : heap[i].is_free /\ heap[i].size >= align_up(n)}

(* Mutant of kmalloc: the block is not marked as used.                     *)
kmalloc_forgets(n) ==
  /\ Fits(n) # {}
  /\ LET i == Min(Fits(n))
     IN  /\ heap' = split_block(heap, i, align_up(n))
         /\ owned' = owned \cup {[ptr |-> heap[i].addr + HEADER, size |-> n]}

(* kmalloc when some block fits: the first one is split and taken.         *)
kmalloc(n) ==
  /\ Fits(n) # {}
  /\ LET i == Min(Fits(n))
         h == split_block(heap, i, align_up(n))
     IN  /\ heap' = ReplaceAt(h, i, Block(h[i].addr, h[i].size, FALSE))
         /\ owned' = owned \cup {[ptr |-> heap[i].addr + HEADER, size |-> n]}

(* kmalloc when none fits: it returns 0.                                   *)
kmalloc_fails(n) ==
  /\ Fits(n) = {}
  /\ UNCHANGED vars

(* kfree marks the block whose header lies before the pointer.             *)
kfree(o) ==
  /\ o \in owned
  /\ \E i \in DOMAIN heap :
       /\ heap[i].addr = o.ptr - HEADER
       /\ heap' = coalesce_free_blocks(
                    ReplaceAt(heap, i, Block(heap[i].addr, heap[i].size, TRUE)))
  /\ owned' = owned \ {o}

Next ==
  \/ \E n \in Request : kmalloc(n)
  \/ \E n \in Request : kmalloc_fails(n)
  \/ \E o \in owned : kfree(o)

Spec == Init /\ [][Next]_vars
----------------------------------------------------------------------------
(* Properties.                                                             *)

End(b) == b.addr + HEADER + b.size

(* The blocks, headers included, cover the heap exactly, in the order of   *)
(* the list: no split or merge ever loses a byte or counts one twice.      *)
Tiling ==
  /\ heap # <<>>
  /\ heap[1].addr = 0
  /\ \A i \in 1..(Len(heap) - 1) : heap[i + 1].addr = End(heap[i])
  /\ End(Last(heap)) = KERNEL_HEAP_SIZE

(* Callers hold exactly the blocks that are in use, and each of them has   *)
(* all the room it asked for, clear of the next header.                    *)
OwnersHaveTheirBlocks ==
  /\ \A o \in owned : \E i \in DOMAIN heap :
       /\ heap[i].addr + HEADER = o.ptr
       /\ ~heap[i].is_free
       /\ o.ptr + o.size <= End(heap[i])
  /\ \A i \in DOMAIN heap : ~heap[i].is_free =>
       \E o \in owned : o.ptr = heap[i].addr + HEADER
  /\ \A o, p \in owned : o.ptr = p.ptr => o = p

(* After any kmalloc and kfree, split and merge the list of blocks is a    *)
(* partition of the heap, and nobody's memory reaches into another block   *)
(* or a header.                                                            *)
HeapSound == Tiling /\ OwnersHaveTheirBlocks

(* One pass of coalesce_free_blocks is enough: no two free blocks are ever *)
(* neighbours, so kmalloc fails only when no free stretch is long enough,  *)
(* and the heap is one block again when everything is freed.               *)
FullyCoalesced ==
  /\ \A i \in 1..(Len(heap) - 1) : ~(heap[i].is_free /\ heap[i + 1].is_free)
  /\ owned = {} => Len(heap) = 1

(* kmalloc and kfree leave the blocks of all other callers as they were.   *)
OthersUntouched ==
  [][\A o \in owned \cap owned' : \E i \in DOMAIN heap, j \in DOMAIN heap' :
       heap[i].addr + HEADER = o.ptr /\ heap'[j] = heap[i]]_vars
=============================================================================
