--------------------------------- MODULE Fs ---------------------------------
(***************************************************************************)
(* The Minix file system of kernel/fs.c, which only reads: paths, inodes,  *)
(* directories, the tree of zones of a file, and the two ways in which the *)
(* kernel reads a file (read_elf of kernel/elf.c and the page fault        *)
(* handler).  The loops of fs.c are recursive functions.                   *)
(*                                                                         *)
(* A block is a function on the offsets of its entries: words of a file,   *)
(* zone numbers, or inodes.  A directory entry is two words, an inode      *)
(* number and the characters of its name; a path is a sequence of          *)
(* characters.  A block that cannot be read makes every call return 0 and  *)
(* changes nothing.  vfs_read returns the words, and none when it fails.   *)
(***************************************************************************)
EXTENDS Naturals, SequencesExt

CONSTANTS
  FS_BLOCK_SIZE, PAGE_SIZE,         \* in words
  INODES_PER_BLOCK, DIRECT_ZONES, POINTERS_PER_ZONE,
  PATH_COMPONENTS, MINIX_MAX_NAME_LENGTH,  \* the array of vfs_open
  UINT,     \* unsigned numbers wrap here (2^32 in the kernel)
  Image,    \* disks: the counts of the super block and the blocks
  Path,     \* the paths that callers open
  Offset, Count,  \* the parts of a file that callers read
  Zero,     \* a cleared word
  NUL,      \* the end of a name
  NULL

DIR_ENTRY_SIZE == 2

ASSUME FsAssumption ==
  /\ FS_BLOCK_SIZE \in Nat \ {0} /\ FS_BLOCK_SIZE % DIR_ENTRY_SIZE = 0
  /\ INODES_PER_BLOCK \in Nat \ {0}
  /\ DIRECT_ZONES \in Nat /\ POINTERS_PER_ZONE \in Nat \ {0}
  /\ PATH_COMPONENTS \in Nat \ {0} /\ MINIX_MAX_NAME_LENGTH \in Nat \ {0}
  /\ PAGE_SIZE \in Nat \ {0} /\ UINT \in Nat \ {0}
  /\ FS_BLOCK_SIZE * (DIRECT_ZONES + POINTERS_PER_ZONE + POINTERS_PER_ZONE * POINTERS_PER_ZONE) <= UINT
  /\ Offset \cup Count \subseteq 0..(UINT - 1)
  /\ \A p \in Path : p \in Seq(Range(p)) /\ NUL \notin Range(p)

VARIABLES
  image,    \* the disk
  f_inode,  \* the inode of the open file, or NULL
  last,     \* history: the last call and its arguments
  out       \* history: whether it succeeded, and the words it read

vars == <<image, f_inode, last, out>>

ROOT_INODE == 1

----------------------------------------------------------------------------
(* Inodes and zones.                                                       *)

read_block(b) == image.block[b]

(* read_inode: the inode table lies behind the two bitmaps.                *)
read_inode(n) ==
  read_block(2 + image.s_imap_blocks + image.s_zmap_blocks + (n - 1) \div INODES_PER_BLOCK)
            [(n - 1) % INODES_PER_BLOCK]

(* Mutant of map_file_block: the second level is indexed from the start of *)
(* the first.                                                              *)
map_file_block_level2(inode, idx) ==
  LET i == idx - DIRECT_ZONES
      j == i - POINTERS_PER_ZONE
  IN  IF idx < DIRECT_ZONES THEN inode.zone[idx]
      ELSE IF i < POINTERS_PER_ZONE THEN read_block(inode.zone[DIRECT_ZONES])[i]
      ELSE IF j < POINTERS_PER_ZONE * POINTERS_PER_ZONE
      THEN read_block(read_block(inode.zone[DIRECT_ZONES + 1])[j % POINTERS_PER_ZONE])
                     [j \div POINTERS_PER_ZONE]
      ELSE 0

(* map_file_block: direct, indirect, double indirect, or 0 for failure.    *)
(* A missing indirect zone makes it read block 0.                          *)
map_file_block(inode, idx) ==
  LET i == idx - DIRECT_ZONES
      j == i - POINTERS_PER_ZONE
  IN  IF idx < DIRECT_ZONES THEN inode.zone[idx]
      ELSE IF i < POINTERS_PER_ZONE THEN read_block(inode.zone[DIRECT_ZONES])[i]
      ELSE IF j < POINTERS_PER_ZONE * POINTERS_PER_ZONE
      THEN read_block(read_block(inode.zone[DIRECT_ZONES + 1])[j \div POINTERS_PER_ZONE])
                     [j % POINTERS_PER_ZONE]
      ELSE 0

(* vfs_read at position pos: the words, none when a block is missing.  The *)
(* rest of the file is computed without a check.                           *)
vfs_read(inode, pos, count) ==
  LET max == Min({(inode.size + UINT - pos) % UINT, count})
      from[read \in 0..max] ==
        LET offset == (pos + read) % FS_BLOCK_SIZE
            chunk == Min({FS_BLOCK_SIZE - offset, max - read})
            b == map_file_block(inode, (pos + read) \div FS_BLOCK_SIZE)
        IN  IF read = max \/ b = 0 \/ (read + chunk # max /\ from[read + chunk] = <<>>) THEN <<>>
            ELSE [i \in 1..chunk |-> read_block(b)[offset + i - 1]] \o from[read + chunk]
  IN  from[0]

----------------------------------------------------------------------------
(* Directories and paths.                                                  *)

(* Mutant of name_equal: only as many characters as an entry has.          *)
name_equal_short(name1, name2) ==
  \/ \A i \in 0..(MINIX_MAX_NAME_LENGTH - 1) : name1[i] = name2[i]
  \/ \E n \in 0..MINIX_MAX_NAME_LENGTH :
       name1[n] = NUL /\ \A i \in 0..n : name1[i] = name2[i]

(* name_equal: two arrays agree up to an end of both.                      *)
name_equal(name1, name2) ==
  \E n \in 0..MINIX_MAX_NAME_LENGTH :
    name1[n] = NUL /\ \A i \in 0..n : name1[i] = name2[i]

(* entry_name of get_child_inode_num, which sets an end.                   *)
entry_name(name) ==
  [i \in 0..MINIX_MAX_NAME_LENGTH |-> IF i = MINIX_MAX_NAME_LENGTH THEN NUL ELSE name[i + 1]]

(* The entries of a piece of a directory that name a file, as positions.   *)
Entries(words, name) ==
  {k \in 0..((Len(words) \div DIR_ENTRY_SIZE) - 1) :
     /\ words[k * DIR_ENTRY_SIZE + 1] # 0
     /\ name_equal(entry_name(words[k * DIR_ENTRY_SIZE + 2]), name)}

(* get_child_inode_num: block by block; 0 when there is none.              *)
get_child_inode_num(dir, name) ==
  LET find[pos \in 0..dir.size] ==
        LET words == vfs_read(dir, pos, Min({dir.size - pos, FS_BLOCK_SIZE}))
        IN  IF pos = dir.size \/ words = <<>> THEN 0
            ELSE IF Entries(words, name) # {}
            THEN words[Min(Entries(words, name)) * DIR_ENTRY_SIZE + 1]
            ELSE find[pos + Len(words)]
  IN  IF dir.dir THEN find[0] ELSE 0

(* components: rows of one array.  A name that is too long runs on into    *)
(* the next row, which the next name overwrites.                           *)
ROW == MINIX_MAX_NAME_LENGTH + 1
Row(cells, i) == [j \in 0..MINIX_MAX_NAME_LENGTH |-> cells[i * ROW + j]]
Rows(s) == [i \in 1..s.name_i |-> Row(s.cells, i - 1)]

(* One character of split_path; a slash, or the end of the path, ends the  *)
(* name in front of it, if there is one.                                   *)
Split(s, c) ==
  LET at == s.name_i * ROW + s.char_i
  IN  IF c # "/" THEN [s EXCEPT !.cells[at] = c, !.char_i = @ + 1]
      ELSE IF s.char_i = 0 THEN s
      ELSE [s EXCEPT !.cells[at] = NUL, !.name_i = @ + 1, !.char_i = 0]

(* split_path: no component at all unless the path starts with a slash.    *)
(* Cells that were not written are NULL.                                   *)
split_path(path) ==
  LET none == [cells |-> [i \in 0..(PATH_COMPONENTS * ROW - 1) |-> NULL], name_i |-> 0, char_i |-> 0]
      chars == path \o <<"/">>
      after[k \in 0..Len(chars)] == IF k = 0 THEN none ELSE Split(after[k - 1], chars[k])
  IN  IF path = <<>> \/ path[1] # "/" THEN <<>> ELSE Rows(after[Len(chars)])

(* The loop of vfs_open.                                                   *)
Descend(inode, name) ==
  LET n == IF inode = NULL THEN 0 ELSE get_child_inode_num(inode, name)
  IN  IF n = 0 THEN NULL ELSE read_inode(n)

Walk(path) ==
  LET names == split_path(path)
      inode[k \in 0..Len(names)] ==
        IF k = 0 THEN read_inode(ROOT_INODE) ELSE Descend(inode[k - 1], names[k])
  IN  inode[Len(names)]

----------------------------------------------------------------------------
(* References: what a Minix file and a path are, without arithmetic.       *)

(* The zones of an inode in the order of the file, missing ones as 0: the  *)
(* leaves of a tree of three levels.                                       *)
Leaves(zone) ==
  IF zone = 0 THEN [i \in 1..POINTERS_PER_ZONE |-> 0]
  ELSE [i \in 1..POINTERS_PER_ZONE |-> read_block(zone)[i - 1]]

Zones(inode) ==
  [i \in 1..DIRECT_ZONES |-> inode.zone[i - 1]]
  \o Leaves(inode.zone[DIRECT_ZONES])
  \o FlattenSeq([i \in 1..POINTERS_PER_ZONE |-> Leaves(Leaves(inode.zone[DIRECT_ZONES + 1])[i])])

(* The first n words in the zones of an inode, the missing ones NULL, and  *)
(* the words of its file.                                                  *)
Words(inode, n) ==
  LET In(zone) == [i \in 1..FS_BLOCK_SIZE |-> IF zone = 0 THEN NULL ELSE read_block(zone)[i - 1]]
      zones == Zones(inode)
      all == FlattenSeq([i \in DOMAIN zones |-> In(zones[i])])
  IN  [i \in 1..n |-> IF i <= Len(all) THEN all[i] ELSE NULL]

Contents(inode) == Words(inode, inode.size)

(* The number of the first entry of a directory with a name, or 0.  The    *)
(* name of an entry fills it, or ends at a NUL.                            *)
Has(entry, name) ==
  /\ Len(name) <= MINIX_MAX_NAME_LENGTH /\ SubSeq(entry, 1, Len(name)) = name
  /\ Len(name) < MINIX_MAX_NAME_LENGTH => entry[Len(name) + 1] = NUL

Child(dir, name) ==
  LET words == Contents(dir)
      hits == {k \in 1..(dir.size \div 2) : words[2 * k - 1] # 0 /\ Has(words[2 * k], name)}
  IN  IF dir.dir /\ hits # {} THEN words[2 * Min(hits) - 1] ELSE 0

(* The names of a path: what is between slashes.                           *)
Start(path, i) == path[i] # "/" /\ (i = 1 \/ path[i - 1] = "/")

NameAt(path, i) ==
  SubSeq(path, i, Max({j \in i..Len(path) : \A k \in i..j : path[k] # "/"}))

Names(path) ==
  LET names[k \in 0..Len(path)] ==
        IF k = 0 THEN <<>>
        ELSE IF Start(path, k) THEN Append(names[k - 1], NameAt(path, k)) ELSE names[k - 1]
  IN  IF path = <<>> \/ path[1] # "/" THEN <<>> ELSE names[Len(path)]

(* The number of the inode that a path names, or 0.                        *)
Named(path) ==
  LET names == Names(path)
      reach[k \in 0..Len(names)] ==
        IF k = 0 THEN ROOT_INODE
        ELSE IF reach[k - 1] = 0 THEN 0 ELSE Child(read_inode(reach[k - 1]), names[k])
  IN  reach[Len(names)]

(* What mkfs.minix and the system that fills the disk leave: an empty boot *)
(* block, inodes whose zones are blocks of words, and directories without  *)
(* holes, whose entries have numbers of inodes, or 0.                      *)
Consistent ==
  /\ image.s_ninodes \in Nat \ {0} /\ image.s_imap_blocks \in Nat /\ image.s_zmap_blocks \in Nat
  /\ \A i \in 0..(POINTERS_PER_ZONE - 1) : read_block(0)[i] = 0
  /\ \A n \in 1..image.s_ninodes :
       LET inode == read_inode(n)
       IN  /\ inode # NULL /\ inode.dir \in BOOLEAN /\ inode.size \in 0..(UINT - 1)
           /\ \A z \in DOMAIN Zones(inode) : Zones(inode)[z] # 0 =>
                \A i \in 0..(FS_BLOCK_SIZE - 1) : read_block(Zones(inode)[z])[i] # NULL
           /\ inode.dir => \A k \in 1..inode.size :
                /\ Contents(inode)[k] # NULL
                /\ k % DIR_ENTRY_SIZE = 1 => Contents(inode)[k] \in 0..image.s_ninodes

----------------------------------------------------------------------------
Failed == [ok |-> FALSE, words |-> <<>>]
Success(words) == [ok |-> TRUE, words |-> words]

Init ==
  /\ image \in Image /\ Consistent
  /\ f_inode = NULL
  /\ last = [call |-> "init"]
  /\ out = Failed

(* Limit of the model: split_path stays inside the array.                  *)
StaysInside(path) ==
  \A i \in DOMAIN Names(path) :
    (i - 1) * ROW + Len(Names(path)[i]) < PATH_COMPONENTS * ROW

(* vfs_open on a file_t that is not open; set_inode copies the inode.      *)
vfs_open(path) ==
  /\ f_inode = NULL
  /\ StaysInside(path)
  /\ f_inode' = Walk(path)
  /\ last' = [call |-> "open", path |-> path]
  /\ out' = Failed
  /\ UNCHANGED image

(* read_elf: a short read is a failure; the position is restored.          *)
read_elf(offset, count) ==
  /\ f_inode # NULL
  /\ LET words == vfs_read(f_inode, offset, count)
     IN  out' = IF Len(words) = count THEN Success(words) ELSE Failed
  /\ last' = [call |-> "read", offset |-> offset, count |-> count]
  /\ UNCHANGED <<image, f_inode>>

(* The part of page_fault_handler that fills a page from offset on, which  *)
(* was cleared before.                                                     *)
page_in(offset) ==
  /\ f_inode # NULL
  /\ offset < f_inode.size
  /\ LET count == Min({f_inode.size - offset, PAGE_SIZE})
         words == vfs_read(f_inode, offset, count)
     IN  out' = IF Len(words) # count THEN Failed
                ELSE Success([i \in 1..PAGE_SIZE |-> IF i <= count THEN words[i] ELSE Zero])
  /\ last' = [call |-> "page", offset |-> offset]
  /\ UNCHANGED <<image, f_inode>>

(* The disk fails during any of the three.                                 *)
ReadFails ==
  /\ last' = [call |-> "disk_error"]
  /\ out' = Failed
  /\ UNCHANGED <<image, f_inode>>

vfs_close ==
  /\ f_inode # NULL
  /\ f_inode' = NULL
  /\ last' = [call |-> "close"]
  /\ out' = Failed
  /\ UNCHANGED image

Next ==
  \/ \E p \in Path : vfs_open(p)
  \/ \E o \in Offset, n \in Count : read_elf(o, n)
  \/ \E o \in Offset : page_in(o)
  \/ ReadFails
  \/ vfs_close

Spec == Init /\ [][Next]_vars
----------------------------------------------------------------------------
(* Properties.                                                             *)

(* read_elf and the page fault handler get the words of the file at their  *)
(* offset, over all boundaries of blocks and levels of zones, or fail: on  *)
(* a missing zone, on a file that ends too early, on an error of the disk. *)
(* From an offset behind the end, where vfs_read subtracts below 0, they   *)
(* get what lies in the file's own zones, or fail.                         *)
ReadsReturnTheFile ==
  last.call \in {"read", "page"} =>
    LET behind == last.offset > f_inode.size
        end == IF last.call = "read" THEN last.offset + last.count
               ELSE Min({last.offset + PAGE_SIZE, f_inode.size})
        words == SubSeq(Words(f_inode, end), last.offset + 1, end)
        fits == (behind \/ end <= f_inode.size) /\ \A i \in DOMAIN words : words[i] # NULL
    IN  /\ out.ok = fits
        /\ fits => /\ SubSeq(out.words, 1, Len(words)) = words
                   /\ \A i \in (Len(words) + 1)..Len(out.words) : out.words[i] = Zero

(* vfs_open finds the inode that the path names in the tree of             *)
(* directories, past deleted entries, over several blocks of a directory,  *)
(* never through a file, and fails when there is none; a name too long for *)
(* its row neither matches an entry nor spoils the names that follow it.   *)
OpenFollowsThePath ==
  last.call = "open" =>
    f_inode = IF Named(last.path) = 0 THEN NULL ELSE read_inode(Named(last.path))
=============================================================================
