----------------------------- MODULE HeapProofs -----------------------------
(***************************************************************************)
(* Proofs about Heap, for every size of heap, header and alignment and all *)
(* requests.  The passes over the list of blocks are followed by induction *)
(* on their length, as a search for the least counterexample.              *)
(***************************************************************************)
EXTENDS Heap, SequenceTheorems, WellFoundedInduction, TLAPS

----------------------------------------------------------------------------
(* The invariant, of lists of blocks.                                      *)

Blk == [addr : Nat, size : Nat, is_free : BOOLEAN]

(* The blocks of h cover the addresses up to n, in order and without gaps. *)
Tiles(h, n) ==
  /\ h \in Seq(Blk) /\ h # <<>>
  /\ h[1].addr = 0
  /\ \A i \in 1..(Len(h) - 1) : h[i + 1].addr = End(h[i])
  /\ End(h[Len(h)]) = n
  /\ \A i, j \in 1..Len(h) : i < j => End(h[i]) <= h[j].addr

(* No two neighbours are free.                                             *)
Merged(h) == \A i \in 1..(Len(h) - 1) : ~(h[i].is_free /\ h[i + 1].is_free)

(* The blocks in use among the first k of h.                               *)
UsedUpTo(h, k) == {b \in {h[i] : i \in 1..k} : ~b.is_free}
Used(h) == UsedUpTo(h, Len(h))

Owner == [ptr : Nat, size : Nat]

(* The callers in own hold the blocks in u, one each, with enough room.    *)
Holds(own, u) ==
  /\ \A o \in own : \E b \in u : b.addr + HEADER = o.ptr /\ o.size <= b.size
  /\ \A b \in u : \E o \in own : o.ptr = b.addr + HEADER
  /\ \A o, p \in own : o.ptr = p.ptr => o = p

Inv ==
  /\ Tiles(heap, KERNEL_HEAP_SIZE)
  /\ Merged(heap)
  /\ owned \subseteq Owner
  /\ Holds(owned, Used(heap))

----------------------------------------------------------------------------
(* Numbers and sequences.                                                  *)

(* A set of numbers that is not empty has a least one.                     *)
LEMMA Least ==
  ASSUME NEW S \in SUBSET Nat, S # {}
  PROVE  \E x \in S : \A y \in S : x <= y
<1>1. IsWellFoundedOn(OpToRel(<, Nat), Nat)
  BY NatLessThanWellFounded
<1>2. PICK x \in S : \A y \in S : ~(<<y, x>> \in OpToRel(<, Nat))
  BY <1>1, WFMin
<1>3. \A y \in S : ~(y < x)
  BY <1>2 DEF OpToRel
<1> QED
  BY <1>3

(* What kmalloc finds first is one of those that fit.                      *)
LEMMA MinIn ==
  ASSUME NEW S \in SUBSET Nat, S # {}
  PROVE  Min(S) \in S
<1>1. \E x \in S : \A y \in S : x <= y
  BY Least
<1> QED BY <1>1, Zenon DEF Min

(* align_up never rounds down.                                             *)
LEMMA AlignUp ==
  ASSUME NEW n \in Nat
  PROVE  align_up(n) \in Nat /\ align_up(n) >= n
<1>1. ALIGN \in Nat \ {0}
  BY HeapAssumption
<1> DEFINE m == n + ALIGN - 1
           q == m \div ALIGN
<1>2. m \in Nat
  BY <1>1
<1> HIDE DEF m
<1>3. q \in Nat /\ ALIGN * q = q * ALIGN
  BY <1>1, <1>2
<1>4. m < ALIGN * q + ALIGN
  BY <1>1, <1>2
<1> HIDE DEF q
<1> DEFINE p == ALIGN * q
<1>5. p \in Nat
  BY <1>1, <1>3
<1> HIDE DEF p
<1>6. n + ALIGN - 1 < p + ALIGN
  BY <1>4 DEF m, p
<1>7. p >= n
  BY <1>1, <1>5, <1>6
<1> QED BY <1>3, <1>5, <1>7 DEF align_up, q, m, p

(* InsertAt puts one entry in front of position k and keeps the others.    *)
LEMMA InsertAtSeq ==
  ASSUME NEW S, NEW l \in Seq(S), NEW v \in S, NEW k \in 1..(Len(l) + 1)
  PROVE  /\ InsertAt(l, k, v) \in Seq(S)
         /\ Len(InsertAt(l, k, v)) = Len(l) + 1
         /\ \A i \in 1..(Len(l) + 1) :
              InsertAt(l, k, v)[i] = IF i < k THEN l[i] ELSE IF i = k THEN v ELSE l[i - 1]
<1> DEFINE a == SubSeq(l, 1, k - 1)
           b == SubSeq(l, k, Len(l))
<1>1. Len(l) \in Nat /\ k \in Nat
  OBVIOUS
<1>2. /\ a \in Seq(S) /\ Len(a) = k - 1
      /\ \A i \in 1..(k - 1) : a[i] = l[i]
  BY <1>1
<1>3. /\ b \in Seq(S) /\ Len(b) = Len(l) - k + 1
      /\ \A i \in 1..(Len(l) - k + 1) : b[i] = l[k + i - 1]
  BY <1>1
<1>4. /\ a \o <<v>> \in Seq(S) /\ Len(a \o <<v>>) = k
      /\ \A i \in 1..k : (a \o <<v>>)[i] = IF i < k THEN l[i] ELSE v
  <2> HIDE DEF a
  <2> QED BY <1>1, <1>2
<1>5. /\ (a \o <<v>>) \o b \in Seq(S) /\ Len((a \o <<v>>) \o b) = Len(l) + 1
      /\ \A i \in 1..(Len(l) + 1) : ((a \o <<v>>) \o b)[i] =
            IF i < k THEN l[i] ELSE IF i = k THEN v ELSE l[i - 1]
  <2> DEFINE c == a \o <<v>>
  <2>1. /\ c \in Seq(S) /\ Len(c) = k
        /\ \A i \in 1..k : c[i] = IF i < k THEN l[i] ELSE v
    BY <1>4
  <2> DEFINE d == c \o b
  <2> HIDE DEF a, b, c
  <2>c. /\ d \in Seq(S) /\ Len(d) = Len(c) + Len(b)
        /\ \A i \in 1..(Len(c) + Len(b)) :
             d[i] = IF i <= Len(c) THEN c[i] ELSE b[i - Len(c)]
    BY <1>3, <2>1, ConcatProperties
  <2> HIDE DEF d
  <2>2. d \in Seq(S) /\ Len(d) = Len(l) + 1
    BY <1>1, <1>3, <2>1, <2>c
  <2>3. ASSUME NEW i \in 1..(Len(l) + 1)
        PROVE  d[i] = IF i < k THEN l[i] ELSE IF i = k THEN v ELSE l[i - 1]
    <3>1. CASE i <= k
      BY <1>1, <1>3, <2>1, <2>c, <3>1
    <3>2. CASE i > k
      <4>1. i - k \in 1..(Len(l) - k + 1) /\ d[i] = b[i - k]
        <5>1. Len(c) = k /\ Len(b) = Len(l) - k + 1
          BY <1>3, <2>1
        <5>2. i \in 1..(Len(c) + Len(b)) /\ ~(i <= Len(c)) /\ i - k \in 1..(Len(l) - k + 1)
          BY <1>1, <3>2, <5>1
        <5> QED BY <2>c, <5>1, <5>2
      <4>2. b[i - k] = l[k + (i - k) - 1]
        BY <1>3, <4>1
      <4>3. k + (i - k) - 1 = i - 1 /\ ~(i < k) /\ i # k
        BY <1>1, <3>2
      <4>4. b[i - k] = l[i - 1]
        BY <4>2, <4>3
      <4> QED BY <4>1, <4>3, <4>4
    <3> QED BY <1>1, <3>1, <3>2
  <2> QED BY <2>2, <2>3 DEF c, d
<1> QED
  BY <1>5 DEF InsertAt

(* ReplaceAt changes one entry.                                            *)
LEMMA ReplaceAtSeq ==
  ASSUME NEW S, NEW l \in Seq(S), NEW v \in S, NEW k \in 1..Len(l)
  PROVE  /\ ReplaceAt(l, k, v) \in Seq(S)
         /\ Len(ReplaceAt(l, k, v)) = Len(l)
         /\ \A i \in 1..Len(l) : ReplaceAt(l, k, v)[i] = IF i = k THEN v ELSE l[i]
BY ExceptSeq DEF ReplaceAt

----------------------------------------------------------------------------
(* Lists of blocks.                                                        *)

(* A block is of the type that Block builds.                               *)
LEMMA BlockType ==
  ASSUME NEW a \in Nat, NEW n \in Nat, NEW f \in BOOLEAN
  PROVE  /\ Block(a, n, f) \in Blk
         /\ Block(a, n, f).addr = a /\ Block(a, n, f).size = n /\ Block(a, n, f).is_free = f
         /\ End(Block(a, n, f)) = a + HEADER + n
BY DEF Block, Blk, End

LEMMA EndType ==
  ASSUME NEW b \in Blk
  PROVE  /\ b.addr \in Nat /\ b.size \in Nat /\ b.is_free \in BOOLEAN
         /\ End(b) \in Nat /\ End(b) = b.addr + HEADER + b.size /\ End(b) > b.addr
BY HeapAssumption DEF Blk, End

(* What the entries of a list that tiles are.                              *)
LEMMA TilesType ==
  ASSUME NEW h, NEW n, Tiles(h, n)
  PROVE  /\ Len(h) \in Nat \ {0} /\ DOMAIN h = 1..Len(h)
         /\ \A i \in 1..Len(h) : h[i] \in Blk
BY DEF Tiles

(* No two blocks have one address.                                         *)
LEMMA TilesInjective ==
  ASSUME NEW h, NEW n, Tiles(h, n),
         NEW i \in 1..Len(h), NEW j \in 1..Len(h), h[i].addr = h[j].addr
  PROVE  i = j
<1>1. Len(h) \in Nat /\ h[i] \in Blk /\ h[j] \in Blk
  BY TilesType
<1>2. End(h[i]) > h[i].addr /\ End(h[j]) > h[j].addr /\ End(h[i]) \in Nat /\ End(h[j]) \in Nat
      /\ h[i].addr \in Nat /\ h[j].addr \in Nat
  BY <1>1, EndType
<1>3. ~(i < j) /\ ~(j < i)
  BY <1>2 DEF Tiles
<1> QED BY <1>1, <1>3

(* What is in Used, by index.                                              *)
LEMMA UsedIs ==
  ASSUME NEW h, NEW k, NEW b
  PROVE  b \in UsedUpTo(h, k) <=> (\E i \in 1..k : h[i] = b) /\ ~b.is_free
BY DEF UsedUpTo

(* Swallow, one step of coalesce_free_blocks.                              *)
LEMMA SwallowStep ==
  ASSUME NEW h, NEW n, Tiles(h, n), Merged(h), NEW b \in Blk, b.addr = n
  PROVE  /\ Tiles(Swallow(h, b), End(b)) /\ Merged(Swallow(h, b))
         /\ Used(Swallow(h, b)) = Used(h) \cup {c \in {b} : ~c.is_free}
         /\ Swallow(h, b)[Len(Swallow(h, b))].is_free = b.is_free
<1> DEFINE m == Len(h)
           l == h[m]
           r == Swallow(h, b)
<1>1. /\ m \in Nat \ {0} /\ h \in Seq(Blk) /\ h # <<>> /\ h[1].addr = 0
      /\ \A i \in 1..m : h[i] \in Blk
      /\ \A i \in 1..(m - 1) : h[i + 1].addr = End(h[i])
      /\ \A i, j \in 1..m : i < j => End(h[i]) <= h[j].addr
      /\ l \in Blk /\ End(l) = n
  BY TilesType DEF Tiles
<1>2. /\ l.addr \in Nat /\ l.size \in Nat /\ l.is_free \in BOOLEAN
      /\ End(l) = l.addr + HEADER + l.size /\ n \in Nat
  BY <1>1, EndType
<1>3. b.addr \in Nat /\ b.size \in Nat /\ b.is_free \in BOOLEAN /\ End(b) = b.addr + HEADER + b.size
  BY EndType
<1>4. HEADER \in Nat \ {0}
  BY HeapAssumption
<1>5. \A i \in 1..m : End(h[i]) \in Nat /\ h[i].addr \in Nat /\ End(h[i]) <= n
  <2>1. ASSUME NEW i \in 1..m
        PROVE  End(h[i]) \in Nat /\ h[i].addr \in Nat /\ End(h[i]) <= n
    <3>1. h[i] \in Blk
      BY <1>1
    <3>2. End(h[i]) \in Nat /\ h[i].addr \in Nat
      BY <3>1, EndType
    <3>3. End(h[i]) <= n
      <4>1. CASE i = m
        BY <1>1, <1>2, <4>1
      <4>2. CASE i < m
        <5>1. End(h[i]) <= l.addr
          BY <1>1, <4>2
        <5>2. l.addr <= n
          BY <1>1, <1>2, <1>4
        <5> QED BY <1>2, <3>2, <5>1, <5>2
      <4> QED BY <1>1, <4>1, <4>2
    <3> QED BY <3>2, <3>3
  <2> QED BY <2>1
<1>6. CASE l.is_free /\ b.is_free
  <2> DEFINE v == Block(l.addr, l.size + HEADER + b.size, TRUE)
  <2>1. r = ReplaceAt(h, m, v)
    BY <1>1, <1>2, <1>3, <1>6 DEF Swallow, Last
  <2>2. /\ v \in Blk /\ v.addr = l.addr /\ v.is_free = TRUE
        /\ End(v) = l.addr + HEADER + (l.size + HEADER + b.size)
    <3>1. l.size + HEADER + b.size \in Nat
      BY <1>2, <1>3, <1>4
    <3>2. PICK a \in Nat, k \in Nat : a = l.addr /\ k = l.size + HEADER + b.size
      BY <1>2, <3>1
    <3> HIDE DEF l
    <3>3. /\ Block(a, k, TRUE) \in Blk /\ Block(a, k, TRUE).addr = a
          /\ Block(a, k, TRUE).is_free = TRUE /\ End(Block(a, k, TRUE)) = a + HEADER + k
      BY DEF Block, Blk, End
    <3> QED BY <3>2, <3>3
  <2>3. End(v) = End(b)
    <3>1. End(b) = (l.addr + HEADER + l.size) + HEADER + b.size
      BY <1>1, <1>2, <1>3
    <3>2. End(v) = (l.addr + HEADER + l.size) + HEADER + b.size
      <4> HIDE DEF l, v
      <4> QED BY <1>2, <1>3, <1>4, <2>2
    <3> QED BY <3>1, <3>2
  <2> HIDE DEF v
  <2>4. /\ r \in Seq(Blk) /\ Len(r) = m
        /\ \A i \in 1..m : r[i] = IF i = m THEN v ELSE h[i]
    <3>1. m \in 1..Len(h)
      BY <1>1
    <3> QED BY <1>1, <2>1, <2>2, <3>1, ReplaceAtSeq
  <2> HIDE DEF r
  <2>5. \A i \in 1..m : r[i].addr = h[i].addr /\ (i # m => End(r[i]) = End(h[i]))
                        /\ (r[i].is_free <=> h[i].is_free)
    BY <1>2, <1>6, <2>2, <2>4
  <2>6. Tiles(r, End(b))
    <3>1. r # <<>> /\ r[1].addr = 0
      BY <1>1, <2>4, <2>5
    <3>2. ASSUME NEW i \in 1..(m - 1)
          PROVE  r[i + 1].addr = End(r[i])
      <4>1. i \in 1..m /\ i + 1 \in 1..m /\ i # m
        BY <1>1
      <4> QED BY <1>1, <2>5, <4>1
    <3>3. End(r[m]) = End(b)
      BY <1>1, <2>3, <2>4
    <3>4. ASSUME NEW i \in 1..m, NEW j \in 1..m, i < j
          PROVE  End(r[i]) <= r[j].addr
      <4>1. i # m
        BY <1>1, <3>4
      <4> QED BY <1>1, <2>5, <3>4, <4>1
    <3> QED BY <2>4, <3>1, <3>2, <3>3, <3>4 DEF Tiles
  <2>7. Merged(r)
    <3>1. ASSUME NEW i \in 1..(m - 1)
          PROVE  ~(r[i].is_free /\ r[i + 1].is_free)
      <4>1. i \in 1..m /\ i + 1 \in 1..m
        BY <1>1
      <4> QED BY <2>5, <4>1 DEF Merged
    <3> QED BY <2>4, <3>1 DEF Merged
  <2>8. Used(r) = Used(h)
    <3>1. ASSUME NEW c, ~c.is_free
          PROVE  (\E i \in 1..m : r[i] = c) <=> (\E i \in 1..m : h[i] = c)
      BY <1>6, <2>2, <2>4, <3>1
    <3>2. ASSUME NEW c
          PROVE  c \in Used(r) <=> c \in Used(h)
      <4>1. c \in Used(r) <=> (\E i \in 1..m : r[i] = c) /\ ~c.is_free
        BY <2>4, UsedIs DEF Used
      <4>2. c \in Used(h) <=> (\E i \in 1..m : h[i] = c) /\ ~c.is_free
        BY UsedIs DEF Used
      <4> QED BY <3>1, <4>1, <4>2
    <3> QED BY <3>2
  <2>9. r[Len(r)].is_free = b.is_free
    <3>1. r[m] = v
      BY <1>1, <2>4
    <3>2. v.is_free = b.is_free
      BY <1>3, <1>6, <2>2
    <3> QED BY <2>4, <3>1, <3>2
  <2> QED BY <1>6, <2>6, <2>7, <2>8, <2>9 DEF r
<1>7. CASE ~(l.is_free /\ b.is_free)
  <2>1. r = Append(h, b)
    BY <1>1, <1>7 DEF Swallow, Last
  <2>2. /\ r \in Seq(Blk) /\ Len(r) = m + 1
        /\ \A i \in 1..m : r[i] = h[i]
        /\ r[m + 1] = b
    BY <1>1, <2>1, AppendProperties
  <2> HIDE DEF r
  <2>3. Tiles(r, End(b))
    <3>1. r # <<>> /\ r[1].addr = 0
      BY <1>1, <2>2
    <3>2. ASSUME NEW i \in 1..m
          PROVE  r[i + 1].addr = End(r[i])
      <4>1. CASE i = m
        BY <1>1, <2>2, <4>1
      <4>2. CASE i # m
        <5>1. i \in 1..(m - 1) /\ i + 1 \in 1..m
          BY <1>1, <4>2
        <5> QED BY <1>1, <2>2, <5>1
      <4> QED BY <4>1, <4>2
    <3>3. ASSUME NEW i \in 1..(m + 1), NEW j \in 1..(m + 1), i < j
          PROVE  End(r[i]) <= r[j].addr
      <4>1. i \in 1..m
        BY <1>1, <3>3
      <4>2. CASE j = m + 1
        BY <1>5, <2>2, <4>1, <4>2
      <4>3. CASE j # m + 1
        <5>1. j \in 1..m
          BY <1>1, <4>3
        <5> QED BY <1>1, <2>2, <3>3, <4>1, <5>1
      <4> QED BY <4>2, <4>3
    <3>4. Len(r) - 1 = m /\ End(r[Len(r)]) = End(b)
      BY <1>1, <2>2
    <3> QED BY <2>2, <3>1, <3>2, <3>3, <3>4 DEF Tiles
  <2>4. Merged(r)
    <3>1. ASSUME NEW i \in 1..m
          PROVE  ~(r[i].is_free /\ r[i + 1].is_free)
      <4>1. CASE i = m
        BY <1>1, <1>7, <2>2, <4>1
      <4>2. CASE i # m
        <5>1. i \in 1..(m - 1) /\ i + 1 \in 1..m
          BY <1>1, <4>2
        <5> QED BY <1>1, <2>2, <5>1 DEF Merged
      <4> QED BY <4>1, <4>2
    <3>2. Len(r) - 1 = m
      BY <1>1, <2>2
    <3> QED BY <3>1, <3>2 DEF Merged
  <2>5. Used(r) = Used(h) \cup {c \in {b} : ~c.is_free}
    <3>1. ASSUME NEW c
          PROVE  (\E i \in 1..(m + 1) : r[i] = c) <=> (\E i \in 1..m : h[i] = c) \/ c = b
      <4>1. \A i \in 1..(m + 1) : i \in 1..m \/ i = m + 1
        BY <1>1
      <4>2. \A i \in 1..m : i \in 1..(m + 1)
        BY <1>1
      <4>3. m + 1 \in 1..(m + 1)
        BY <1>1
      <4> QED BY <2>2, <4>1, <4>2, <4>3
    <3>2. ASSUME NEW c
          PROVE  c \in Used(r) <=> c \in Used(h) \/ (c = b /\ ~c.is_free)
      BY <2>2, <3>1, UsedIs DEF Used
    <3> QED BY <3>2
  <2>6. r[Len(r)].is_free = b.is_free
    BY <2>2
  <2> QED BY <2>3, <2>4, <2>5, <2>6 DEF r
<1> QED BY <1>6, <1>7

----------------------------------------------------------------------------
(* The pass of coalesce_free_blocks.                                       *)

(* g is the pass over the first k blocks of h.                             *)
IsPass(g, h, k) ==
  g = [j \in 0..k |-> IF j = 0 THEN <<>> ELSE Swallow(g[j - 1], h[j])]

(* The pass can be made over any number of blocks: the least k for which   *)
(* there is none has a predecessor with one, which goes one block further. *)
LEMMA PassExists ==
  ASSUME NEW h, NEW n \in Nat
  PROVE  \E g : IsPass(g, h, n)
<1> DEFINE T == {k \in Nat : ~\E g : IsPass(g, h, k)}
<1>1. SUFFICES T = {}
  OBVIOUS
<1>2. SUFFICES ASSUME T # {} PROVE FALSE
  OBVIOUS
<1>3. PICK k \in T : \A j \in T : k <= j
  BY <1>2, Least
<1>4. k \in Nat /\ ~\E g : IsPass(g, h, k)
  OBVIOUS
<1>5. CASE k = 0
  <2> DEFINE g == [j \in 0..0 |-> <<>>]
  <2>1. IsPass(g, h, 0)
    <3>1. ASSUME NEW j \in 0..0
          PROVE  <<>> = IF j = 0 THEN <<>> ELSE Swallow(g[j - 1], h[j])
      OBVIOUS
    <3> QED BY <3>1 DEF IsPass
  <2> QED BY <1>4, <1>5, <2>1
<1>6. CASE k # 0
  <2>1. k - 1 \in Nat /\ k - 1 \notin T
    BY <1>3, <1>4, <1>6
  <2>2. PICK g : IsPass(g, h, k - 1)
    BY <2>1
  <2> DEFINE f == [j \in 0..k |-> IF j = k THEN Swallow(g[k - 1], h[k]) ELSE g[j]]
  <2>3. ASSUME NEW j \in 0..k
        PROVE  f[j] = IF j = 0 THEN <<>> ELSE Swallow(f[j - 1], h[j])
    <3>1. CASE j = k
      <4>1. k - 1 \in 0..k /\ k - 1 # k
        BY <1>4, <1>6
      <4>2. f[k - 1] = g[k - 1]
        BY <4>1
      <4>3. f[j] = Swallow(g[k - 1], h[k])
        BY <3>1
      <4> QED BY <1>6, <3>1, <4>2, <4>3
    <3>2. CASE j # k /\ j # 0
      <4>1. j \in 0..(k - 1) /\ j - 1 \in 0..k /\ j - 1 # k
        BY <1>4, <3>2
      <4>2. g[j] = Swallow(g[j - 1], h[j])
        BY <2>2, <3>2, <4>1 DEF IsPass
      <4>3. f[j] = g[j] /\ f[j - 1] = g[j - 1]
        BY <3>2, <4>1
      <4> QED BY <3>2, <4>2, <4>3
    <3>3. CASE j = 0
      <4>1. 0 \in 0..(k - 1)
        BY <1>4, <1>6
      <4>2. g[0] = <<>>
        BY <2>2, <4>1 DEF IsPass
      <4> QED BY <1>6, <3>3, <4>2
    <3> QED BY <3>1, <3>2, <3>3
  <2>4. IsPass(f, h, k)
    <3>1. f = [j \in 0..k |-> f[j]]
      OBVIOUS
    <3> HIDE DEF f
    <3> QED BY <2>3, <3>1 DEF IsPass
  <2> QED BY <1>4, <2>4
<1> QED BY <1>5, <1>6

(* So coalesce_free_blocks is the end of a pass.                           *)
LEMMA CoalesceIsPass ==
  ASSUME NEW h, Len(h) \in Nat
  PROVE  \E g : IsPass(g, h, Len(h)) /\ coalesce_free_blocks(h) = g[Len(h)]
<1> DEFINE pass == CHOOSE g : IsPass(g, h, Len(h))
<1>1. IsPass(pass, h, Len(h))
  BY PassExists
<1>2. coalesce_free_blocks(h) = pass[Len(h)]
  BY DEF coalesce_free_blocks, IsPass
<1> QED BY <1>1, <1>2

(* What the pass has done after k blocks: they are merged, up to the end   *)
(* of the last one, and the blocks in use are as they were.                *)
AfterPass(r, h, k) ==
  /\ Tiles(r, End(h[k])) /\ Merged(r)
  /\ Used(r) = UsedUpTo(h, k)

LEMMA PassStep ==
  ASSUME NEW h, NEW n, Tiles(h, n), NEW k \in 1..(Len(h) - 1), NEW r, AfterPass(r, h, k)
  PROVE  AfterPass(Swallow(r, h[k + 1]), h, k + 1)
<1>1. /\ Len(h) \in Nat /\ k \in Nat /\ k \in 1..Len(h) /\ k + 1 \in 1..Len(h)
      /\ h[k] \in Blk /\ h[k + 1] \in Blk
  BY TilesType
<1>2. h[k + 1].addr = End(h[k])
  BY DEF Tiles
<1> DEFINE s == Swallow(r, h[k + 1])
<1>3. /\ Tiles(s, End(h[k + 1])) /\ Merged(s)
      /\ Used(s) = Used(r) \cup {c \in {h[k + 1]} : ~c.is_free}
  BY <1>1, <1>2, SwallowStep DEF AfterPass
<1> HIDE DEF s
<1>4. Used(s) = UsedUpTo(h, k + 1)
  <2>1. ASSUME NEW c
        PROVE  c \in Used(s) <=> c \in UsedUpTo(h, k + 1)
    <3>1. c \in Used(s) <=> ((\E i \in 1..k : h[i] = c) \/ c = h[k + 1]) /\ ~c.is_free
      BY <1>3, UsedIs DEF AfterPass
    <3>2. c \in UsedUpTo(h, k + 1) <=> (\E i \in 1..(k + 1) : h[i] = c) /\ ~c.is_free
      BY UsedIs
    <3>3. (\E i \in 1..(k + 1) : h[i] = c) <=> (\E i \in 1..k : h[i] = c) \/ c = h[k + 1]
      <4>1. \A i \in 1..(k + 1) : i \in 1..k \/ i = k + 1
        BY <1>1
      <4>2. (\A i \in 1..k : i \in 1..(k + 1)) /\ k + 1 \in 1..(k + 1)
        BY <1>1
      <4> QED BY <4>1, <4>2
    <3> QED BY <3>1, <3>2, <3>3
  <2> QED BY <2>1
<1> QED BY <1>3, <1>4 DEF AfterPass, s

(* One pass merges everything: no two free neighbours are left, nothing is *)
(* lost, and no block in use is touched.                                   *)
LEMMA CoalesceMerges ==
  ASSUME NEW h, NEW n, Tiles(h, n)
  PROVE  /\ Tiles(coalesce_free_blocks(h), n) /\ Merged(coalesce_free_blocks(h))
         /\ Used(coalesce_free_blocks(h)) = Used(h)
<1>1. Len(h) \in Nat \ {0} /\ \A i \in 1..Len(h) : h[i] \in Blk
  BY TilesType
<1>2. PICK g : IsPass(g, h, Len(h)) /\ coalesce_free_blocks(h) = g[Len(h)]
  BY <1>1, CoalesceIsPass
<1>3. /\ g[0] = <<>>
      /\ \A j \in 1..Len(h) : g[j] = Swallow(g[j - 1], h[j])
  BY <1>1, <1>2 DEF IsPass
<1>4. AfterPass(g[1], h, 1)
  <2>1. 1 \in 1..Len(h) /\ h[1] \in Blk /\ h[1].addr = 0
    BY <1>1 DEF Tiles
  <2>2. g[1] = Swallow(<<>>, h[1])
    BY <1>3, <2>1
  <2>3. g[1] = <<h[1]>>
    BY <2>1, <2>2 DEF Swallow
  <2> DEFINE r == <<h[1]>>
  <2>4. r \in Seq(Blk) /\ Len(r) = 1 /\ r[1] = h[1]
    BY <2>1
  <2> HIDE DEF r
  <2>5. Tiles(r, End(h[1])) /\ Merged(r)
    <3>1. 1..(Len(r) - 1) = {} /\ 1..Len(r) = {1} /\ r # <<>>
      BY <2>4
    <3>2. ~(1 < 1)
      OBVIOUS
    <3> QED BY <2>1, <2>4, <3>1, <3>2 DEF Tiles, Merged
  <2>6. Used(r) = UsedUpTo(h, 1)
    BY <2>4 DEF Used, UsedUpTo
  <2> QED BY <2>3, <2>5, <2>6 DEF AfterPass, r
<1> DEFINE T == {k \in 1..Len(h) : ~AfterPass(g[k], h, k)}
<1>5. T = {}
  <2>1. SUFFICES ASSUME T # {} PROVE FALSE
    OBVIOUS
  <2>2. T \subseteq Nat
    BY <1>1
  <2>3. PICK k \in T : \A j \in T : k <= j
    <3> HIDE DEF T
    <3> QED BY <2>1, <2>2, Least
  <2>4. k \in 1..Len(h) /\ k \in Nat /\ ~AfterPass(g[k], h, k)
    BY <1>1
  <2>5. k # 1
    BY <1>4, <2>4
  <2>6. PICK j \in Nat : j + 1 = k /\ j \in 1..(Len(h) - 1) /\ j \in 1..Len(h)
    <3>1. k - 1 \in Nat /\ (k - 1) + 1 = k /\ k - 1 \in 1..(Len(h) - 1) /\ k - 1 \in 1..Len(h)
      BY <1>1, <2>4, <2>5
    <3> QED BY <3>1
  <2>7. j \notin T
    BY <2>3, <2>6
  <2>8. AfterPass(g[j], h, j)
    BY <2>6, <2>7
  <2>9. g[k] = Swallow(g[j], h[j + 1])
    <3>1. k - 1 = j
      BY <2>4, <2>6
    <3> QED BY <1>3, <2>4, <2>6, <3>1
  <2>10. AfterPass(g[k], h, k)
    BY <2>6, <2>8, <2>9, PassStep
  <2> QED BY <2>4, <2>10
<1>6. AfterPass(g[Len(h)], h, Len(h))
  BY <1>1, <1>5
<1>7. End(h[Len(h)]) = n
  BY DEF Tiles
<1> QED BY <1>2, <1>6, <1>7 DEF AfterPass, Used

----------------------------------------------------------------------------
(* Taking a block and giving it back.                                      *)

(* One block of the list is marked: nothing moves.                         *)
LEMMA MarkTiles ==
  ASSUME NEW h, NEW n, Tiles(h, n), NEW i \in 1..Len(h), NEW f \in BOOLEAN
  PROVE  LET r == ReplaceAt(h, i, Block(h[i].addr, h[i].size, f))
         IN  /\ Tiles(r, n) /\ Len(r) = Len(h)
             /\ \A j \in 1..Len(h) :
                  r[j] = IF j = i THEN Block(h[i].addr, h[i].size, f) ELSE h[j]
<1> DEFINE b == Block(h[i].addr, h[i].size, f)
           r == ReplaceAt(h, i, b)
           m == Len(h)
<1>1. m \in Nat \ {0} /\ h \in Seq(Blk) /\ \A j \in 1..m : h[j] \in Blk
  BY TilesType DEF Tiles
<1>2. b \in Blk /\ b.addr = h[i].addr /\ End(b) = End(h[i])
  <2>1. h[i].addr \in Nat /\ h[i].size \in Nat /\ End(h[i]) = h[i].addr + HEADER + h[i].size
    BY <1>1, EndType
  <2> QED BY <2>1, BlockType
<1> HIDE DEF b
<1>3. r \in Seq(Blk) /\ Len(r) = m /\ \A j \in 1..m : r[j] = IF j = i THEN b ELSE h[j]
  BY <1>1, <1>2, ReplaceAtSeq
<1> HIDE DEF r
<1>4. \A j \in 1..m : r[j].addr = h[j].addr /\ End(r[j]) = End(h[j])
  BY <1>2, <1>3
<1>5. Tiles(r, n)
  <2>1. r # <<>> /\ r[1].addr = 0 /\ End(r[m]) = n
    BY <1>1, <1>3, <1>4 DEF Tiles
  <2>2. ASSUME NEW j \in 1..(m - 1)
        PROVE  r[j + 1].addr = End(r[j])
    <3>1. j \in 1..m /\ j + 1 \in 1..m
      BY <1>1
    <3> QED BY <1>4, <3>1 DEF Tiles
  <2>3. ASSUME NEW j \in 1..m, NEW k \in 1..m, j < k
        PROVE  End(r[j]) <= r[k].addr
    BY <1>4, <2>3 DEF Tiles
  <2> QED BY <1>3, <2>1, <2>2, <2>3 DEF Tiles
<1> QED BY <1>3, <1>5 DEF b, r

(* kfree, before the pass: one block fewer is in use.                      *)
LEMMA FreeTiles ==
  ASSUME NEW h, NEW n, Tiles(h, n), NEW i \in 1..Len(h)
  PROVE  LET r == ReplaceAt(h, i, Block(h[i].addr, h[i].size, TRUE))
         IN  Tiles(r, n) /\ Used(r) = Used(h) \ {h[i]}
<1> DEFINE b == Block(h[i].addr, h[i].size, TRUE)
           r == ReplaceAt(h, i, b)
<1>1. /\ Tiles(r, n) /\ Len(r) = Len(h)
      /\ \A j \in 1..Len(h) : r[j] = IF j = i THEN b ELSE h[j]
  BY MarkTiles
<1>2. b.is_free
  BY DEF Block
<1> HIDE DEF b, r
<1>3. ASSUME NEW j \in 1..Len(h), h[j] = h[i]
      PROVE  j = i
  BY <1>3, TilesInjective
<1>4. ASSUME NEW c
      PROVE  c \in Used(r) <=> c \in Used(h) \ {h[i]}
  <2>1. c \in Used(r) <=> (\E j \in 1..Len(h) : r[j] = c) /\ ~c.is_free
    BY <1>1, UsedIs DEF Used
  <2>2. c \in Used(h) <=> (\E j \in 1..Len(h) : h[j] = c) /\ ~c.is_free
    BY UsedIs DEF Used
  <2>3. ASSUME ~c.is_free
        PROVE  (\E j \in 1..Len(h) : r[j] = c) <=> (\E j \in 1..Len(h) : h[j] = c) /\ c # h[i]
    BY <1>1, <1>2, <1>3, <2>3
  <2> QED BY <2>1, <2>2, <2>3
<1>5. Used(r) = Used(h) \ {h[i]}
  BY <1>4
<1> QED BY <1>1, <1>5 DEF b, r

(* The list after kmalloc took m units of block i.                         *)
Taken(h, i, m) ==
  LET s == split_block(h, i, m) IN ReplaceAt(s, i, Block(s[i].addr, s[i].size, FALSE))

(* r is h with block i in use, by at least m units.                        *)
IsTaken(r, h, n, i, m) ==
  /\ Tiles(r, n) /\ Merged(r)
  /\ \E b \in Blk : /\ b.addr = h[i].addr /\ b.size >= m
                    /\ Used(r) = Used(h) \cup {b}

(* split_block cuts block i in two and moves none of the others.           *)
LEMMA SplitTiles ==
  ASSUME NEW h, NEW n, Tiles(h, n), Merged(h), NEW i \in 1..Len(h), h[i].is_free,
         NEW m \in Nat, h[i].size >= m + HEADER + ALIGN
  PROVE  IsTaken(Taken(h, i, m), h, n, i, m)
<1> DEFINE N == Len(h)
           a == h[i].addr
           z == h[i].size
           f == Block(a, m, h[i].is_free)
           u == Block(a, m, FALSE)
           v == Block(a + HEADER + m, z - m - HEADER, TRUE)
           g == ReplaceAt(h, i, f)
           s == InsertAt(g, i + 1, v)
           r == ReplaceAt(s, i, Block(s[i].addr, s[i].size, FALSE))
<1>1. /\ N \in Nat \ {0} /\ h \in Seq(Blk) /\ i \in Nat /\ i \in 1..N
      /\ \A j \in 1..N : h[j] \in Blk
  BY TilesType DEF Tiles
<1>2. /\ HEADER \in Nat \ {0} /\ ALIGN \in Nat \ {0}
      /\ a \in Nat /\ z \in Nat /\ h[i].is_free \in BOOLEAN /\ z - m - HEADER \in Nat
      /\ a + HEADER + m \in Nat
      /\ End(h[i]) = a + HEADER + z
  <2>1. HEADER \in Nat \ {0} /\ ALIGN \in Nat \ {0}
    BY HeapAssumption
  <2>2. a \in Nat /\ z \in Nat /\ h[i].is_free \in BOOLEAN /\ End(h[i]) = a + HEADER + z
    BY <1>1, EndType
  <2> HIDE DEF a
  <2>3. z >= m + HEADER + ALIGN
    OBVIOUS
  <2> HIDE DEF z
  <2> QED BY <2>1, <2>2, <2>3
<1>3. Taken(h, i, m) = r
  <2>1. split_block(h, i, m) = s
    <3>1. ~(h[i].size < m + HEADER + ALIGN)
      BY <1>2
    <3> QED BY <3>1 DEF split_block
  <2> QED BY <2>1 DEF Taken
<1>4. /\ f \in Blk /\ f.addr = a /\ f.size = m
      /\ u \in Blk /\ u.addr = a /\ u.size = m /\ ~u.is_free /\ End(u) = a + HEADER + m
      /\ v \in Blk /\ v.addr = a + HEADER + m /\ v.is_free
  <2> HIDE DEF a, z
  <2>1. f \in Blk /\ f.addr = a /\ f.size = m
    <3>1. a \in Nat /\ m \in Nat /\ h[i].is_free \in BOOLEAN
      BY <1>2
    <3> QED BY <3>1, Zenon DEF Block, Blk
  <2>2. u \in Blk /\ u.addr = a /\ u.size = m /\ End(u) = a + HEADER + m
    <3>1. a \in Nat /\ m \in Nat /\ FALSE \in BOOLEAN
      BY <1>2
    <3> QED BY <3>1 DEF Block, Blk, End
  <2>3. v \in Blk /\ v.addr = a + HEADER + m
    BY <1>2 DEF Block, Blk, End
  <2>4. ~u.is_free /\ v.is_free
    BY DEF Block
  <2> QED BY <2>1, <2>2, <2>3, <2>4
<1>5. End(v) = End(h[i])
  <2>1. End(v) = (a + HEADER + m) + HEADER + (z - m - HEADER)
    BY <1>2 DEF Block, End
  <2> HIDE DEF a, z, v
  <2> QED BY <1>2, <2>1
<1> HIDE DEF f, v, a, z
<1>6. g \in Seq(Blk) /\ Len(g) = N /\ \A j \in 1..N : g[j] = IF j = i THEN f ELSE h[j]
  BY <1>1, <1>4, ReplaceAtSeq
<1> HIDE DEF g
<1>7. /\ s \in Seq(Blk) /\ Len(s) = N + 1
      /\ \A j \in 1..(N + 1) : s[j] = IF j < i + 1 THEN g[j] ELSE IF j = i + 1 THEN v ELSE g[j - 1]
  <2>1. i + 1 \in 1..(Len(g) + 1)
    BY <1>1, <1>6
  <2> QED BY <1>4, <1>6, <2>1, InsertAtSeq
<1> HIDE DEF s
<1>8. s[i] = f
  <2>1. i \in 1..(N + 1) /\ i < i + 1
    BY <1>1
  <2> QED BY <1>1, <1>6, <1>7, <2>1
<1>9. r = ReplaceAt(s, i, u)
  BY <1>4, <1>8
<1>10. /\ r \in Seq(Blk) /\ Len(r) = N + 1
       /\ \A j \in 1..(N + 1) : r[j] = IF j = i THEN u ELSE s[j]
  <2>1. i \in 1..Len(s)
    BY <1>1, <1>7
  <2> HIDE DEF r, u
  <2> QED BY <1>4, <1>7, <1>9, <2>1, ReplaceAtSeq
<1> HIDE DEF r, u
(* The entries of r.                                                       *)
<1>11. /\ r[i] = u /\ r[i + 1] = v
       /\ \A j \in 1..N : (j < i => r[j] = h[j]) /\ (j > i => r[j + 1] = h[j])
  <2>1. i \in 1..(N + 1) /\ i + 1 \in 1..(N + 1) /\ ~(i + 1 < i + 1) /\ i + 1 # i
    BY <1>1
  <2>2. r[i] = u /\ r[i + 1] = v
    BY <1>7, <1>10, <2>1
  <2>3. ASSUME NEW j \in 1..N, j < i
        PROVE  r[j] = h[j]
    <3>1. j \in 1..(N + 1) /\ j < i + 1 /\ j # i
      BY <1>1, <2>3
    <3> QED BY <1>6, <1>7, <1>10, <3>1
  <2>4. ASSUME NEW j \in 1..N, j > i
        PROVE  r[j + 1] = h[j]
    <3>1. /\ j + 1 \in 1..(N + 1) /\ ~(j + 1 < i + 1) /\ j + 1 # i + 1 /\ j + 1 # i /\ j # i
          /\ (j + 1) - 1 = j
      BY <1>1, <2>4
    <3>2. r[j + 1] = s[j + 1]
      BY <1>10, <3>1
    <3>3. s[j + 1] = g[(j + 1) - 1]
      BY <1>7, <3>1
    <3> QED BY <1>6, <3>1, <3>2, <3>3
  <2> QED BY <2>2, <2>3, <2>4
<1>12. ASSUME NEW k \in 1..(N + 1)
       PROVE  \/ k = i /\ r[k] = u
              \/ k = i + 1 /\ r[k] = v
              \/ k < i /\ k \in 1..N /\ r[k] = h[k]
              \/ \E j \in 1..N : j > i /\ k = j + 1 /\ r[k] = h[j]
  <2>1. CASE k > i + 1
    <3>1. k - 1 \in 1..N /\ k - 1 > i /\ k = (k - 1) + 1
      BY <1>1, <2>1
    <3> QED BY <1>11, <3>1
  <2>2. CASE k < i
    <3>1. k \in 1..N
      BY <1>1, <2>2
    <3> QED BY <1>11, <2>2, <3>1
  <2>3. CASE k = i \/ k = i + 1
    BY <1>11, <2>3
  <2> QED BY <1>1, <2>1, <2>2, <2>3
(* Where a block of r begins and ends, in terms of h.                      *)
<1>13. /\ \A j \in 1..N : j <= i => r[j].addr = h[j].addr
       /\ \A j \in 1..N : j > i => r[j + 1].addr = h[j].addr
       /\ \A j \in 1..N : j < i => End(r[j]) = End(h[j])
       /\ \A j \in 1..N : j >= i => End(r[j + 1]) = End(h[j])
       /\ End(r[i]) = r[i + 1].addr /\ End(r[i]) <= End(h[i]) /\ End(r[i]) \in Nat
       /\ h[i].addr <= End(r[i])
  <2>1. \A j \in 1..N : j <= i => r[j].addr = h[j].addr
    <3>1. \A j \in 1..N : j <= i => j < i \/ j = i
      BY <1>1
    <3> QED BY <1>4, <1>11, <3>1 DEF a
  <2>2. \A j \in 1..N : j >= i => End(r[j + 1]) = End(h[j])
    <3>1. \A j \in 1..N : j >= i => j > i \/ j = i
      BY <1>1
    <3> QED BY <1>5, <1>11, <3>1
  <2>3. End(r[i]) = a + HEADER + m /\ r[i + 1].addr = a + HEADER + m
    BY <1>4, <1>11
  <2>4. a + HEADER + m <= a + HEADER + z /\ a <= a + HEADER + m
    BY <1>2
  <2>5. h[i].addr = a
    BY DEF a
  <2> QED BY <1>2, <1>11, <2>1, <2>2, <2>3, <2>4, <2>5
<1>14. /\ \A j \in 1..N : h[j].addr \in Nat /\ End(h[j]) \in Nat
       /\ \A j \in 1..(N - 1) : h[j + 1].addr = End(h[j])
       /\ \A j, k \in 1..N : j < k => End(h[j]) <= h[k].addr
       /\ h[1].addr = 0 /\ End(h[N]) = n
  BY <1>1, EndType DEF Tiles
<1>15. ASSUME NEW k \in 1..N
       PROVE  r[k + 1].addr = End(r[k])
  <2>1. CASE k < i
    <3>1. k + 1 \in 1..N /\ k + 1 <= i /\ k \in 1..(N - 1)
      BY <1>1, <2>1
    <3> QED BY <1>13, <1>14, <2>1, <3>1
  <2>2. CASE k = i
    BY <1>13, <2>2
  <2>3. CASE k > i
    <3>1. PICK j \in Nat : j + 1 = k /\ j \in 1..N /\ j \in 1..(N - 1) /\ j >= i
      <4>1. k - 1 \in Nat /\ (k - 1) + 1 = k /\ k - 1 \in 1..N /\ k - 1 \in 1..(N - 1) /\ k - 1 >= i
        BY <1>1, <2>3
      <4> QED BY <4>1
    <3>2. End(r[k]) = End(h[j])
      BY <1>13, <3>1
    <3>3. r[k + 1].addr = h[k].addr
      BY <1>13, <2>3
    <3> QED BY <1>14, <3>1, <3>2, <3>3
  <2> QED BY <1>1, <2>1, <2>2, <2>3
<1>16. ASSUME NEW j \in 1..(N + 1), NEW k \in 1..(N + 1), j < k
       PROVE  End(r[j]) <= r[k].addr
  <2>1. \/ j = i
        \/ j < i /\ j \in 1..N /\ End(r[j]) = End(h[j])
        \/ \E x \in 1..N : x >= i /\ j = x + 1 /\ End(r[j]) = End(h[x])
    <3>1. CASE j > i
      <4>1. j - 1 \in 1..N /\ j - 1 >= i /\ j = (j - 1) + 1
        BY <1>1, <3>1
      <4> QED BY <1>13, <4>1
    <3>2. CASE j < i
      <4>1. j \in 1..N
        BY <1>1, <3>2
      <4> QED BY <1>13, <3>2, <4>1
    <3> QED BY <1>1, <3>1, <3>2
  <2>2. CASE k <= i
    <3>1. k \in 1..N /\ j < i /\ j \in 1..N
      BY <1>1, <1>16, <2>2
    <3>2. r[k].addr = h[k].addr /\ End(r[j]) = End(h[j])
      BY <1>13, <2>2, <3>1
    <3> QED BY <1>14, <1>16, <3>1, <3>2
  <2>3. CASE k = i + 1
    <3>1. CASE j = i
      BY <1>13, <2>3, <3>1
    <3>2. CASE j # i
      <4>1. j < i /\ j \in 1..N
        BY <1>1, <1>16, <2>3, <3>2
      <4>2. End(r[j]) = End(h[j]) /\ End(h[j]) <= h[i].addr
        BY <1>1, <1>13, <1>14, <4>1
      <4>3. End(h[j]) \in Nat /\ h[i].addr \in Nat
        BY <1>1, <1>14, <4>1
      <4>4. r[k].addr \in Nat /\ h[i].addr <= r[k].addr
        BY <1>13, <2>3
      <4> QED BY <4>2, <4>3, <4>4
    <3> QED BY <3>1, <3>2
  <2>4. CASE k > i + 1
    <3>1. PICK y \in Nat : y + 1 = k /\ y \in 1..N /\ y > i
      <4>1. k - 1 \in Nat /\ (k - 1) + 1 = k /\ k - 1 \in 1..N /\ k - 1 > i
        BY <1>1, <2>4
      <4> QED BY <4>1
    <3>2. r[k].addr = h[y].addr
      BY <1>13, <3>1
    <3>3. CASE j = i
      <4>1. End(h[i]) <= h[y].addr /\ End(h[i]) \in Nat /\ h[y].addr \in Nat
        BY <1>1, <1>14, <3>1
      <4> QED BY <1>13, <3>2, <3>3, <4>1
    <3>4. CASE j < i /\ j \in 1..N /\ End(r[j]) = End(h[j])
      <4>1. j < y
        BY <1>1, <3>1, <3>4
      <4> QED BY <1>14, <3>1, <3>2, <3>4, <4>1
    <3>5. CASE \E x \in 1..N : x >= i /\ j = x + 1 /\ End(r[j]) = End(h[x])
      <4>1. PICK x \in 1..N : x >= i /\ j = x + 1 /\ End(r[j]) = End(h[x])
        BY <3>5
      <4>2. x < y
        BY <1>1, <1>16, <3>1, <4>1
      <4> QED BY <1>14, <3>1, <3>2, <4>1, <4>2
    <3> QED BY <2>1, <3>3, <3>4, <3>5
  <2> QED BY <1>1, <2>2, <2>3, <2>4
<1>17. Tiles(r, n)
  <2>1. r # <<>> /\ Len(r) - 1 = N
    BY <1>1, <1>10
  <2>2. r[1].addr = 0
    <3>1. 1 \in 1..N /\ 1 <= i
      BY <1>1
    <3> QED BY <1>13, <1>14, <3>1
  <2>3. End(r[Len(r)]) = n
    <3>1. N \in 1..N /\ N >= i
      BY <1>1
    <3> QED BY <1>10, <1>13, <1>14, <3>1
  <2> QED BY <1>10, <1>15, <1>16, <2>1, <2>2, <2>3 DEF Tiles
<1>18. Merged(r)
  <2>1. ASSUME NEW k \in 1..N, r[k].is_free, r[k + 1].is_free
        PROVE  FALSE
    <3>1. k # i
      BY <1>4, <1>11, <2>1
    <3>2. CASE k < i
      <4>1. k + 1 = i \/ (k + 1 < i /\ k + 1 \in 1..N /\ k \in 1..(N - 1))
        BY <1>1, <3>2
      <4>2. CASE k + 1 = i
        BY <1>4, <1>11, <2>1, <4>2
      <4>3. CASE k + 1 < i /\ k + 1 \in 1..N /\ k \in 1..(N - 1)
        BY <1>11, <2>1, <3>2, <4>3 DEF Merged
      <4> QED BY <4>1, <4>2, <4>3
    <3>3. CASE k > i
      <4>1. r[k + 1] = h[k]
        BY <1>11, <3>3
      <4>2. PICK j \in Nat : j + 1 = k /\ j \in 1..(N - 1) /\ j \in 1..N /\ j >= i
        <5>1. k - 1 \in Nat /\ (k - 1) + 1 = k /\ k - 1 \in 1..(N - 1) /\ k - 1 \in 1..N /\ k - 1 >= i
          BY <1>1, <3>3
        <5> QED BY <5>1
      <4>3. h[j].is_free
        <5>1. CASE j = i
          BY <5>1
        <5>2. CASE j > i
          BY <1>11, <2>1, <4>2, <5>2
        <5> QED BY <1>1, <4>2, <5>1, <5>2
      <4> QED BY <2>1, <4>1, <4>2, <4>3 DEF Merged
    <3> QED BY <1>1, <3>1, <3>2, <3>3
  <2>2. Len(r) - 1 = N
    BY <1>1, <1>10
  <2> QED BY <2>1, <2>2 DEF Merged
<1>19. Used(r) = Used(h) \cup {u}
  <2>1. ASSUME NEW c, ~c.is_free
        PROVE  (\E k \in 1..(N + 1) : r[k] = c) <=> (\E k \in 1..N : h[k] = c) \/ c = u
    <3>1. ASSUME NEW k \in 1..(N + 1), r[k] = c
          PROVE  (\E j \in 1..N : h[j] = c) \/ c = u
      BY <1>4, <1>12, <2>1, <3>1
    <3>2. ASSUME NEW k \in 1..N, h[k] = c
          PROVE  \E j \in 1..(N + 1) : r[j] = c
      <4>1. k # i
        BY <2>1, <3>2
      <4>2. k \in 1..(N + 1) /\ k + 1 \in 1..(N + 1) /\ (k < i \/ k > i)
        BY <1>1, <4>1
      <4> QED BY <1>11, <3>2, <4>2
    <3>3. i \in 1..(N + 1)
      BY <1>1
    <3> QED BY <1>11, <3>1, <3>2, <3>3
  <2>2. ASSUME NEW c
        PROVE  c \in Used(r) <=> c \in Used(h) \/ c = u
    <3>1. c \in Used(r) <=> (\E j \in 1..(N + 1) : r[j] = c) /\ ~c.is_free
      BY <1>10, UsedIs DEF Used
    <3>2. c \in Used(h) <=> (\E j \in 1..N : h[j] = c) /\ ~c.is_free
      BY UsedIs DEF Used
    <3>3. c = u => ~c.is_free
      BY <1>4
    <3> QED BY <2>1, <3>1, <3>2, <3>3
  <2> QED BY <2>2
<1>20. u \in Blk /\ u.addr = h[i].addr /\ u.size >= m
  BY <1>4 DEF a
<1> QED BY <1>3, <1>17, <1>18, <1>19, <1>20 DEF IsTaken

(* kmalloc without a split: block i is taken as it is.                     *)
LEMMA TakeTiles ==
  ASSUME NEW h, NEW n, Tiles(h, n), Merged(h), NEW i \in 1..Len(h), h[i].is_free,
         NEW m \in Nat, h[i].size >= m
  PROVE  IsTaken(Taken(h, i, m), h, n, i, m)
<1>1. /\ Len(h) \in Nat \ {0} /\ h[i] \in Blk
      /\ h[i].size \in Nat /\ h[i].addr \in Nat /\ HEADER \in Nat /\ ALIGN \in Nat
  BY TilesType, EndType, HeapAssumption
<1>2. CASE h[i].size >= m + HEADER + ALIGN
  BY <1>2, SplitTiles
<1>3. CASE h[i].size < m + HEADER + ALIGN
  <2> DEFINE u == Block(h[i].addr, h[i].size, FALSE)
             r == ReplaceAt(h, i, u)
  <2>1. Taken(h, i, m) = r
    BY <1>3 DEF Taken, split_block
  <2>2. /\ Tiles(r, n) /\ Len(r) = Len(h)
        /\ \A j \in 1..Len(h) : r[j] = IF j = i THEN u ELSE h[j]
    BY MarkTiles
  <2>3. u \in Blk /\ u.addr = h[i].addr /\ u.size = h[i].size /\ ~u.is_free
    <3>1. u \in Blk /\ u.addr = h[i].addr /\ u.size = h[i].size
      BY <1>1 DEF Block, Blk
    <3>2. ~u.is_free
      BY DEF Block
    <3> QED BY <3>1, <3>2
  <2> HIDE DEF u, r
  <2>4. Merged(r)
    <3>1. ASSUME NEW k \in 1..(Len(h) - 1), r[k].is_free, r[k + 1].is_free
          PROVE  FALSE
      <4>1. k \in 1..Len(h) /\ k + 1 \in 1..Len(h)
        BY <1>1
      <4>2. k # i /\ k + 1 # i
        BY <2>2, <2>3, <3>1, <4>1
      <4> QED BY <2>2, <3>1, <4>1, <4>2 DEF Merged
    <3> QED BY <2>2, <3>1 DEF Merged
  <2>5. Used(r) = Used(h) \cup {u}
    <3>1. ASSUME NEW c
          PROVE  c \in Used(r) <=> c \in Used(h) \/ c = u
      <4>1. c \in Used(r) <=> (\E j \in 1..Len(h) : r[j] = c) /\ ~c.is_free
        BY <2>2, UsedIs DEF Used
      <4>2. c \in Used(h) <=> (\E j \in 1..Len(h) : h[j] = c) /\ ~c.is_free
        BY UsedIs DEF Used
      <4> QED BY <2>2, <2>3, <4>1, <4>2
    <3> QED BY <3>1
  <2> QED BY <2>1, <2>2, <2>3, <2>4, <2>5 DEF IsTaken
<1> QED BY <1>1, <1>2, <1>3

----------------------------------------------------------------------------
(* The steps.                                                              *)

(* kmalloc, on the list and on the owners.                                 *)
LEMMA KmallocStep ==
  ASSUME Inv, NEW n \in Request, kmalloc(n)
  PROVE  Inv' /\ Used(heap) \subseteq Used(heap')
<1> DEFINE i == Min(Fits(n))
           m == align_up(n)
           o == [ptr |-> heap[i].addr + HEADER, size |-> n]
<1>1. n \in Nat /\ HEADER \in Nat /\ m \in Nat /\ m >= n
  BY HeapAssumption, AlignUp
<1>2. Len(heap) \in Nat \ {0} /\ DOMAIN heap = 1..Len(heap) /\ \A j \in 1..Len(heap) : heap[j] \in Blk
  BY TilesType DEF Inv
<1>3. i \in 1..Len(heap) /\ heap[i].is_free /\ heap[i].size >= m
  <2>1. Fits(n) \in SUBSET Nat /\ Fits(n) # {}
    BY <1>2 DEF Fits, kmalloc
  <2>2. i \in Fits(n)
    BY <2>1, MinIn
  <2> QED BY <1>2, <2>2 DEF Fits
<1>4. heap' = Taken(heap, i, m) /\ owned' = owned \cup {o}
  BY DEF kmalloc, Taken
<1> HIDE DEF i, m
<1>5. IsTaken(heap', heap, KERNEL_HEAP_SIZE, i, m)
  BY <1>1, <1>3, <1>4, TakeTiles DEF Inv
<1>6. PICK b \in Blk : /\ b.addr = heap[i].addr /\ b.size >= m
                       /\ Used(heap') = Used(heap) \cup {b}
  BY <1>5 DEF IsTaken
<1>7. b.size \in Nat /\ b.addr \in Nat /\ n <= b.size
  <2>1. b.size \in Nat /\ b.addr \in Nat
    BY EndType
  <2> QED BY <1>1, <1>6, <2>1
<1>8. o \in Owner /\ o.ptr = b.addr + HEADER /\ o.size = n
  BY <1>1, <1>6, <1>7 DEF Owner
<1> HIDE DEF o
(* The block was free, and so nobody holds it yet.                         *)
<1>9. ASSUME NEW p \in owned, p.ptr = o.ptr
      PROVE  FALSE
  <2>1. PICK c \in Used(heap) : c.addr + HEADER = p.ptr
    BY DEF Inv, Holds
  <2>2. PICK j \in 1..Len(heap) : heap[j] = c /\ ~c.is_free
    BY UsedIs DEF Used
  <2>3. c.addr \in Nat
    BY <1>2, <2>2, EndType
  <2>4. heap[j].addr = heap[i].addr
    BY <1>1, <1>6, <1>7, <1>8, <1>9, <2>1, <2>2, <2>3
  <2>5. j = i
    BY <1>3, <2>4, TilesInjective DEF Inv
  <2> QED BY <1>3, <2>2, <2>5
<1>10. Holds(owned', Used(heap'))
  <2>1. ASSUME NEW p \in owned'
        PROVE  \E c \in Used(heap') : c.addr + HEADER = p.ptr /\ p.size <= c.size
    <3>1. CASE p = o
      BY <1>6, <1>7, <1>8, <3>1
    <3>2. CASE p \in owned
      BY <1>6, <3>2 DEF Inv, Holds
    <3> QED BY <1>4, <3>1, <3>2
  <2>2. ASSUME NEW c \in Used(heap')
        PROVE  \E p \in owned' : p.ptr = c.addr + HEADER
    <3>1. CASE c = b
      BY <1>4, <1>8, <3>1
    <3>2. CASE c \in Used(heap)
      BY <1>4, <3>2 DEF Inv, Holds
    <3> QED BY <1>6, <3>1, <3>2
  <2>3. ASSUME NEW p \in owned', NEW q \in owned', p.ptr = q.ptr
        PROVE  p = q
    BY <1>4, <1>9, <2>3 DEF Inv, Holds
  <2> QED BY <2>1, <2>2, <2>3 DEF Holds
<1> QED BY <1>4, <1>5, <1>6, <1>8, <1>10 DEF Inv, IsTaken

(* kfree, on the list and on the owners.                                   *)
LEMMA KfreeStep ==
  ASSUME Inv, NEW o \in owned, kfree(o)
  PROVE  Inv' /\ \A b \in Used(heap) : b.addr + HEADER # o.ptr => b \in Used(heap')
<1>1. PICK i \in DOMAIN heap :
        /\ heap[i].addr = o.ptr - HEADER
        /\ heap' = coalesce_free_blocks(
                     ReplaceAt(heap, i, Block(heap[i].addr, heap[i].size, TRUE)))
  BY DEF kfree
<1>2. owned' = owned \ {o}
  BY DEF kfree
<1>3. /\ Len(heap) \in Nat \ {0} /\ DOMAIN heap = 1..Len(heap)
      /\ \A j \in 1..Len(heap) : heap[j] \in Blk
  BY TilesType DEF Inv
<1>4. i \in 1..Len(heap)
  BY <1>1, <1>3
<1>5. heap[i].addr \in Nat /\ o.ptr \in Nat /\ HEADER \in Nat
  BY <1>3, <1>4, EndType, HeapAssumption DEF Inv, Owner
<1>6. heap[i].addr + HEADER = o.ptr
  BY <1>1, <1>5
<1> DEFINE r == ReplaceAt(heap, i, Block(heap[i].addr, heap[i].size, TRUE))
<1>7. Tiles(r, KERNEL_HEAP_SIZE) /\ Used(r) = Used(heap) \ {heap[i]}
  BY <1>4, FreeTiles DEF Inv
<1>8. heap' = coalesce_free_blocks(r)
  BY <1>1
<1> HIDE DEF r
<1>9. Tiles(heap', KERNEL_HEAP_SIZE) /\ Merged(heap') /\ Used(heap') = Used(heap) \ {heap[i]}
  BY <1>7, <1>8, CoalesceMerges
(* The other blocks in use have other addresses.                           *)
<1>10. ASSUME NEW b \in Used(heap), b.addr + HEADER = o.ptr
       PROVE  b = heap[i]
  <2>1. PICK j \in 1..Len(heap) : heap[j] = b
    BY UsedIs DEF Used
  <2>2. heap[j].addr \in Nat
    BY <1>3, <2>1, EndType
  <2>3. heap[j].addr = heap[i].addr
    BY <1>5, <1>6, <1>10, <2>1, <2>2
  <2>4. j = i
    BY <1>4, <2>3, TilesInjective DEF Inv
  <2> QED BY <2>1, <2>4
<1>11. Holds(owned', Used(heap'))
  <2>1. ASSUME NEW p \in owned'
        PROVE  \E c \in Used(heap') : c.addr + HEADER = p.ptr /\ p.size <= c.size
    <3>1. p \in owned /\ p # o
      BY <1>2
    <3>2. PICK c \in Used(heap) : c.addr + HEADER = p.ptr /\ p.size <= c.size
      BY <3>1 DEF Inv, Holds
    <3>3. c # heap[i]
      BY <1>6, <3>1, <3>2 DEF Inv, Holds
    <3> QED BY <1>9, <3>2, <3>3
  <2>2. ASSUME NEW c \in Used(heap')
        PROVE  \E p \in owned' : p.ptr = c.addr + HEADER
    <3>1. c \in Used(heap) /\ c # heap[i]
      BY <1>9
    <3>2. PICK p \in owned : p.ptr = c.addr + HEADER
      BY <3>1 DEF Inv, Holds
    <3>3. p # o
      BY <1>10, <3>1, <3>2
    <3> QED BY <1>2, <3>2, <3>3
  <2>3. ASSUME NEW p \in owned', NEW q \in owned', p.ptr = q.ptr
        PROVE  p = q
    BY <1>2, <2>3 DEF Inv, Holds
  <2> QED BY <2>1, <2>2, <2>3 DEF Holds
<1>12. owned' \subseteq Owner
  BY <1>2 DEF Inv
<1>13. Inv'
  BY <1>9, <1>11, <1>12 DEF Inv
<1>14. ASSUME NEW b \in Used(heap), b.addr + HEADER # o.ptr
       PROVE  b \in Used(heap')
  BY <1>6, <1>9, <1>14
<1> QED BY <1>13, <1>14

----------------------------------------------------------------------------
(* The theorems.                                                           *)

LEMMA InitInv == Init => Inv
<1> SUFFICES ASSUME Init PROVE Inv
  OBVIOUS
<1> DEFINE b == Block(0, KERNEL_HEAP_SIZE - HEADER, TRUE)
<1>1. HEADER \in Nat /\ KERNEL_HEAP_SIZE - HEADER \in Nat /\ KERNEL_HEAP_SIZE \in Nat
  BY HeapAssumption
<1>2. b \in Blk /\ b.addr = 0 /\ End(b) = 0 + HEADER + (KERNEL_HEAP_SIZE - HEADER) /\ b.is_free
  BY <1>1 DEF Block, Blk, End
<1>3. heap = <<b>> /\ owned = {}
  BY DEF Init
<1> HIDE DEF b
<1>4. heap \in Seq(Blk) /\ Len(heap) = 1 /\ heap[1] = b
  BY <1>2, <1>3
<1>5. 1..(Len(heap) - 1) = {} /\ 1..Len(heap) = {1} /\ heap # <<>> /\ ~(1 < 1)
  BY <1>4
<1>6. End(b) = KERNEL_HEAP_SIZE
  BY <1>1, <1>2
<1>7. Tiles(heap, KERNEL_HEAP_SIZE) /\ Merged(heap)
  BY <1>2, <1>4, <1>5, <1>6 DEF Tiles, Merged
<1>8. Used(heap) = {}
  <2>1. ASSUME NEW c \in Used(heap) PROVE FALSE
    BY <1>2, <1>4, <1>5, UsedIs DEF Used
  <2> QED BY <2>1
<1> QED BY <1>3, <1>7, <1>8 DEF Inv, Holds

(* The list of blocks stays a partition of the heap, merged, and callers   *)
(* hold exactly the blocks in use, through split_block in kmalloc and      *)
(* coalesce_free_blocks in kfree.                                          *)
THEOREM Inductive == Spec => []Inv
<1>1. Inv /\ [Next]_vars => Inv'
  <2> SUFFICES ASSUME Inv, [Next]_vars PROVE Inv'
    OBVIOUS
  <2>1. ASSUME NEW n \in Request, kmalloc(n) PROVE Inv'
    BY <2>1, KmallocStep
  <2>2. ASSUME NEW n \in Request, kmalloc_fails(n) PROVE Inv'
    BY <2>2 DEF kmalloc_fails, vars, Inv
  <2>3. ASSUME NEW o \in owned, kfree(o) PROVE Inv'
    BY <2>3, KfreeStep
  <2>4. CASE UNCHANGED vars
    BY <2>4 DEF vars, Inv
  <2> QED BY <2>1, <2>2, <2>3, <2>4 DEF Next
<1> QED
  BY <1>1, InitInv, PTL DEF Spec

(* For every heap and all requests: split_block and coalesce_free_blocks   *)
(* never lose or double a byte, and every caller of kmalloc has its room.  *)
THEOREM HeapAlwaysSound == Spec => []HeapSound
<1>1. Inv => HeapSound
  <2> SUFFICES ASSUME Inv PROVE HeapSound
    OBVIOUS
  <2>1. /\ Len(heap) \in Nat \ {0} /\ DOMAIN heap = 1..Len(heap)
        /\ \A j \in 1..Len(heap) : heap[j] \in Blk
    BY TilesType DEF Inv
  <2>2. Tiling
    BY DEF Inv, Tiles, Tiling, Last
  <2>3. ASSUME NEW o \in owned
        PROVE  \E i \in DOMAIN heap : /\ heap[i].addr + HEADER = o.ptr
                                      /\ ~heap[i].is_free
                                      /\ o.ptr + o.size <= End(heap[i])
    <3>1. PICK b \in Used(heap) : b.addr + HEADER = o.ptr /\ o.size <= b.size
      BY DEF Inv, Holds
    <3>2. PICK i \in 1..Len(heap) : heap[i] = b /\ ~b.is_free
      BY UsedIs DEF Used
    <3>3. b.addr \in Nat /\ b.size \in Nat /\ End(b) = b.addr + HEADER + b.size
      BY <2>1, <3>2, EndType
    <3>4. o.size \in Nat /\ HEADER \in Nat
      BY HeapAssumption DEF Inv, Owner
    <3>5. o.ptr + o.size <= End(b)
      BY <3>1, <3>3, <3>4
    <3> QED BY <2>1, <3>1, <3>2, <3>5
  <2>4. ASSUME NEW i \in DOMAIN heap, ~heap[i].is_free
        PROVE  \E o \in owned : o.ptr = heap[i].addr + HEADER
    <3>1. heap[i] \in Used(heap)
      BY <2>1, <2>4, UsedIs DEF Used
    <3> QED BY <3>1 DEF Inv, Holds
  <2>5. \A o, p \in owned : o.ptr = p.ptr => o = p
    BY DEF Inv, Holds
  <2> QED BY <2>2, <2>3, <2>4, <2>5 DEF HeapSound, OwnersHaveTheirBlocks
<1> QED
  BY <1>1, Inductive, PTL

(* The one pass of coalesce_free_blocks is enough for lists of any length. *)
THEOREM AlwaysCoalesced == Spec => []FullyCoalesced
<1>1. Inv => FullyCoalesced
  <2> SUFFICES ASSUME Inv PROVE FullyCoalesced
    OBVIOUS
  <2>1. Len(heap) \in Nat \ {0}
    BY TilesType DEF Inv
  <2>2. \A i \in 1..(Len(heap) - 1) : ~(heap[i].is_free /\ heap[i + 1].is_free)
    BY DEF Inv, Merged
  <2>3. ASSUME owned = {}, Len(heap) # 1
        PROVE  FALSE
    <3>1. 1 \in 1..Len(heap) /\ 2 \in 1..Len(heap) /\ 1 \in 1..(Len(heap) - 1) /\ 1 + 1 = 2
      <4>1. PICK l \in Nat \ {0, 1} : l = Len(heap)
        BY <2>1, <2>3
      <4>2. 1 \in 1..l /\ 2 \in 1..l /\ 1 \in 1..(l - 1) /\ 1 + 1 = 2
        BY <4>1
      <4> QED BY <4>1, <4>2
    <3>2. Used(heap) = {}
      BY <2>3 DEF Inv, Holds
    <3>3. \A i \in 1..Len(heap) : heap[i].is_free
      BY <3>2, UsedIs DEF Used
    <3> QED BY <2>2, <3>1, <3>3
  <2> QED BY <2>2, <2>3 DEF FullyCoalesced
<1> QED
  BY <1>1, Inductive, PTL

(* kmalloc and kfree touch no block of another caller.                     *)
THEOREM OthersAlwaysUntouched == Spec => OthersUntouched
<1> DEFINE Kept == \A o \in owned \cap owned' : \E i \in DOMAIN heap, j \in DOMAIN heap' :
                     heap[i].addr + HEADER = o.ptr /\ heap'[j] = heap[i]
<1>1. Inv /\ Inv' /\ [Next]_vars => [Kept]_vars
  <2> SUFFICES ASSUME Inv, Inv', Next PROVE Kept
    BY DEF vars
  <2>1. /\ DOMAIN heap = 1..Len(heap) /\ DOMAIN heap' = 1..Len(heap')
    <3>1. \A h : Tiles(h, KERNEL_HEAP_SIZE) => DOMAIN h = 1..Len(h)
      BY TilesType
    <3> QED BY <3>1 DEF Inv
  <2>2. ASSUME NEW o \in owned, o \in owned'
        PROVE  \E b \in Used(heap) : b.addr + HEADER = o.ptr /\ b \in Used(heap')
    <3>1. PICK b \in Used(heap) : b.addr + HEADER = o.ptr
      BY DEF Inv, Holds
    <3>2. ASSUME NEW n \in Request, kmalloc(n) PROVE b \in Used(heap')
      BY <3>2, KmallocStep
    <3>3. ASSUME NEW n \in Request, kmalloc_fails(n) PROVE b \in Used(heap')
      BY <3>3 DEF kmalloc_fails, vars
    <3>4. ASSUME NEW p \in owned, kfree(p) PROVE b \in Used(heap')
      <4>1. p # o
        BY <2>2, <3>4 DEF kfree
      <4>2. p.ptr # o.ptr
        BY <4>1 DEF Inv, Holds
      <4> QED BY <3>1, <3>4, <4>2, KfreeStep
    <3> QED BY <3>1, <3>2, <3>3, <3>4 DEF Next
  <2>3. ASSUME NEW b \in Used(heap), b \in Used(heap')
        PROVE  \E i \in DOMAIN heap, j \in DOMAIN heap' : heap[i] = b /\ heap'[j] = b
    BY <2>1, <2>3, UsedIs DEF Used
  <2> QED BY <2>2, <2>3
<1> QED
  BY <1>1, Inductive, PTL DEF OthersUntouched, Spec
=============================================================================
