-------------------------------- MODULE MCVm --------------------------------
(* Vm with pages of two words, tables of three pages and a few executables. *)
EXTENDS Vm, TLC

Seg(v, fs, ms, o) == [load |-> TRUE, vaddr |-> v, filesz |-> fs, memsz |-> ms, offset |-> o]
Note == [load |-> FALSE, vaddr |-> 0, filesz |-> 1, memsz |-> 1, offset |-> 0]

Programs == {
  \* text of three words that starts inside a page, then data with zeros
  \* behind it, in its own last page and in a further one
  [name |-> "shell", size |-> 6, segs |-> <<Note, Seg(1, 3, 3, 1), Seg(4, 1, 4, 4)>>],
  \* data before text, a file that is shorter than its segments
  [name |-> "hello", size |-> 2, segs |-> <<Seg(4, 2, 3, 1), Seg(0, 1, 1, 0)>>],
  \* the second segment starts in the last page of the first
  [name |-> "overlap", size |-> 6, segs |-> <<Seg(2, 2, 3, 2), Seg(5, 1, 1, 3)>>],
  \* nothing in the file
  [name |-> "zeros", size |-> 2, segs |-> <<Seg(2, 0, 3, 0)>>],
  \* less memory than file
  [name |-> "short", size |-> 6, segs |-> <<Seg(0, 1, 2, 0), Seg(4, 2, 1, 2)>>],
  \* at the top of the address space
  [name |-> "top", size |-> 6, segs |-> <<Seg(10, 1, 1, 1)>>],
  \* at the top with zeros behind its part in the file
  [name |-> "toppad", size |-> 6, segs |-> <<Seg(2, 1, 3, 0), Seg(9, 2, 3, 2)>>],
  \* the second segment wraps round the end of the address space
  [name |-> "wrap", size |-> 6, segs |-> <<Seg(0, 2, 2, 0), Seg(11, 2, 3, 2)>>],
  \* the part in the file starts behind its end, and its second page wraps
  \* to the first word of the file
  [name |-> "late", size |-> 2, segs |-> <<Seg(3, 2, 2, 11)>>],
  \* no program header
  [name |-> "empty", size |-> 2, segs |-> <<>>]}

Symmetry == Permutations(Mm) \cup Permutations(File)
=============================================================================
