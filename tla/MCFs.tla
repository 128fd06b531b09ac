-------------------------------- MODULE MCFs --------------------------------
(* Fs with blocks of four words, two zones per pointer block, and disks     *)
(* with two directories and two files.                                      *)
EXTENDS Fs

Inode(dir, size, zones) ==
  [dir |-> dir, size |-> size, zone |-> [i \in 0..3 |-> zones[i + 1]]]
Block(w) == [i \in 0..(Len(w) - 1) |-> w[i + 1]]

\* Blocks 4 and 5 are the inode table; 6, 7 and 23 (through 22) the root
\* directory, with deleted entries and two entries for "a"; 8 and 9 the
\* directory "db", which ends inside an entry; 10 to 17 the blocks of the
\* large file, 18 its indirect zone, 19 to 21 its double indirect zones; 24
\* the small file.  One zone of the large file may be missing.
Disk(size, hole) ==
  LET Z(z) == IF z = hole THEN 0 ELSE z
  IN  [s_ninodes |-> 4, s_imap_blocks |-> 1, s_zmap_blocks |-> 1,
       block |-> [b \in 0..24 |->
         CASE b = 0 -> Block(<<0, 0, 0, 0>>)
           [] b = 4 -> Block(<<Inode(TRUE, 10, <<6, 7, 22, 0>>), Inode(TRUE, 5, <<8, 9, 0, 0>>)>>)
           [] b = 5 -> Block(<<Inode(FALSE, size, <<10, Z(11), Z(18), Z(19)>>),
                               Inode(FALSE, 1, <<24, 0, 0, 0>>)>>)
           [] b = 6 -> Block(<<2, <<"d", "b">>, 0, <<"a", NUL>>>>)
           [] b = 7 -> Block(<<4, <<"b", NUL>>, 0, <<"c", NUL>>>>)
           [] b = 23 -> Block(<<3, <<"a", NUL>>, 4, <<"a", NUL>>>>)
           [] b = 8 -> Block(<<4, <<"a", NUL>>, 3, <<"d", "b">>>>)
           [] b = 9 -> Block(<<3, <<"b", NUL>>, 0, <<"a", NUL>>>>)
           [] b = 18 -> Block(<<12, Z(13)>>)
           [] b = 19 -> Block(<<20, Z(21)>>)
           [] b = 20 -> Block(<<14, 15>>)
           [] b = 21 -> Block(<<16, 17>>)
           [] b = 22 -> Block(<<23, 0>>)
           [] OTHER -> [i \in 0..3 |-> <<b, i>>]]]

Disks == {Disk(n, h) : n \in {0, 1, 4, 7, 8, 13, 16, 17, 24, 31, 32, 33},
                       h \in {0, 11, 13, 18, 19, 21}}

Paths == {<<>>, <<"a">>, <<"/">>, <<"/", "a">>, <<"/", "b", "/">>, <<"/", "c">>,
          <<"/", "d", "b", "/", "a">>, <<"/", "/", "d", "b", "/", "/", "d", "b">>,
          <<"/", "d", "b", "/", "b">>, <<"/", "a", "/", "a">>, <<"/", "d", "/", "b">>,
          \* names that are too long for a row, and for two
          <<"/", "d", "b", "a">>, <<"/", "d", "b", "a", "/", "a">>, <<"/", "d", "b", "a", "a">>,
          <<"/", "d", "b", "/", "a", "b", "a", "b", "a">>, <<"/", "d", "b", "d", "d", "b", "/", "a">>}
=============================================================================
