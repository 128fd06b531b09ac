------------------------------ MODULE FsProofs ------------------------------
(***************************************************************************)
(* What the loops of fs.c compute, for every consistent disk and all sizes *)
(* of blocks, names and paths: reads return the words of the file, and     *)
(* vfs_open finds the inode that the path names.                           *)
(***************************************************************************)
EXTENDS Fs, Integers, SequenceTheorems, WellFoundedInduction, TLAPS

----------------------------------------------------------------------------
(* Numbers.                                                                *)

LEMMA Least ==
  ASSUME NEW S \in SUBSET Nat, S # {}
  PROVE  \E x \in S : \A y \in S : x <= y
<1>1. IsWellFoundedOn(OpToRel(<, Nat), Nat)
  BY NatLessThanWellFounded
<1>2. PICK x \in S : \A y \in S : ~(<<y, x>> \in OpToRel(<, Nat))
  BY <1>1, WFMin
<1>3. \A y \in S : ~(y < x)
  BY <1>2 DEF OpToRel
<1> QED
  BY <1>3

(* The smaller of two numbers.                                             *)
LEMMA MinOfTwo ==
  ASSUME NEW a \in Nat, NEW b \in Nat
  PROVE  Min({a, b}) = IF a <= b THEN a ELSE b
BY DEF Min

(* The least of a set.                                                     *)
LEMMA MinIs ==
  ASSUME NEW S \in SUBSET Nat, S # {}
  PROVE  Min(S) \in S /\ \A y \in S : Min(S) <= y
BY Least DEF Min

(* Quotient and rest, which division by w computes.                        *)
LEMMA Division ==
  ASSUME NEW w \in Nat, w > 0, NEW a \in Nat
  PROVE  /\ a \div w \in Nat /\ a % w \in Nat /\ a % w < w
         /\ a = w * (a \div w) + (a % w)
<1>1. a \div w \in Nat /\ a % w \in Nat /\ a % w < w
  OBVIOUS
<1>2. a = w * (a \div w) + (a % w)
  OBVIOUS
<1> QED BY <1>1, <1>2

Parts(a, w, q, r) == q \in Nat /\ r \in Nat /\ r < w /\ a = w * q + r

LEMMA Quotient ==
  ASSUME NEW w \in Nat, w > 0, NEW a \in Nat, NEW q, NEW r, Parts(a, w, q, r)
  PROVE  a \div w = q /\ a % w = r
<1>0. q \in Nat /\ r \in Nat /\ r < w /\ a = w * q + r
  BY DEF Parts
<1> USE <1>0
<1>1. PICK p \in Nat, s \in Nat : p = a \div w /\ s = a % w /\ s < w /\ a = w * p + s
  BY Division
<1>2. w * q + r = w * p + s
  BY <1>1
<1>3. ~(q < p)
  <2>1. ASSUME q < p PROVE FALSE
    <3>1. PICK d \in Nat : p = q + 1 + d
      <4>1. p - (q + 1) \in Nat /\ p = q + 1 + (p - (q + 1))
        BY <2>1
      <4> QED BY <4>1
    <3>2. w * p = w * q + w + w * d
      BY <3>1
    <3>3. w * d \in Nat /\ w * q \in Nat
      OBVIOUS
    <3>4. PICK x \in Nat, y \in Nat : x = w * q /\ y = w * d
      BY <3>3
    <3>5. x + r = x + w + y + s
      BY <1>2, <3>2, <3>4
    <3> QED BY <1>1, <3>4, <3>5
  <2> QED BY <2>1
<1>4. ~(p < q)
  <2>1. ASSUME p < q PROVE FALSE
    <3>1. PICK d \in Nat : q = p + 1 + d
      <4>1. q - (p + 1) \in Nat /\ q = p + 1 + (q - (p + 1))
        BY <2>1
      <4> QED BY <4>1
    <3>2. w * q = w * p + w + w * d
      BY <3>1
    <3>3. w * d \in Nat /\ w * p \in Nat
      OBVIOUS
    <3>4. PICK x \in Nat, y \in Nat : x = w * p /\ y = w * d
      BY <3>3
    <3>5. x + s = x + w + y + r
      BY <1>2, <3>2, <3>4
    <3> QED BY <1>1, <3>4, <3>5
  <2> QED BY <2>1
<1>5. q = p
  BY <1>3, <1>4
<1>6. w * q \in Nat /\ w * p = w * q
  BY <1>5
<1>7. r = s
  BY <1>2, <1>6
<1> QED BY <1>1, <1>5, <1>7

(* Below w times n are the numbers with quotients below n.                 *)
LEMMA QuotientBelow ==
  ASSUME NEW w \in Nat, w > 0, NEW n \in Nat, NEW a \in Nat
  PROVE  a < w * n <=> a \div w < n
<1>1. PICK p \in Nat, s \in Nat : p = a \div w /\ s = a % w /\ s < w /\ a = w * p + s
  BY Division
<1>2. CASE p < n
  <2>1. PICK d \in Nat : n = p + 1 + d
    <3>1. n - (p + 1) \in Nat /\ n = p + 1 + (n - (p + 1))
      BY <1>2
    <3> QED BY <3>1
  <2>2. w * n = w * p + w + w * d
    BY <2>1
  <2>3. PICK x \in Nat, y \in Nat : x = w * p /\ y = w * d
    <3>1. w * p \in Nat /\ w * d \in Nat
      OBVIOUS
    <3> QED BY <3>1
  <2>4. w * n = x + w + y
    BY <2>2, <2>3
  <2> QED BY <1>1, <1>2, <2>3, <2>4
<1>3. CASE ~(p < n)
  <2>1. PICK d \in Nat : p = n + d
    <3>1. p - n \in Nat /\ p = n + (p - n)
      BY <1>3
    <3> QED BY <3>1
  <2>2. w * p = w * n + w * d
    BY <2>1
  <2>3. PICK x \in Nat, y \in Nat : x = w * n /\ y = w * d
    <3>1. w * n \in Nat /\ w * d \in Nat
      OBVIOUS
    <3> QED BY <3>1
  <2>4. a = x + y + s
    BY <1>1, <2>2, <2>3
  <2> QED BY <1>1, <1>3, <2>3, <2>4
<1> QED BY <1>2, <1>3

----------------------------------------------------------------------------
(* FlattenSeq of n sequences of length w.                                  *)

Flat(s, w, n) == [k \in 1..(w * n) |-> s[(k - 1) \div w + 1][((k - 1) % w) + 1]]

IsFlat(g, s) == g = [i \in 1..Len(s) |-> IF i = 1 THEN s[i] ELSE g[i - 1] \o s[i]]

LEMMA FlatType ==
  ASSUME NEW S, NEW w \in Nat, w > 0, NEW n \in Nat, NEW m \in Nat, m <= n,
         NEW s \in [1..n -> [1..w -> S]]
  PROVE  Flat(s, w, m) \in [1..(w * m) -> S] /\ w * m \in Nat
<1>1. w * m \in Nat
  OBVIOUS
<1>2. ASSUME NEW k \in 1..(w * m)
      PROVE  s[(k - 1) \div w + 1][((k - 1) % w) + 1] \in S
  <2>1. PICK a \in Nat : a = k - 1 /\ a < w * m
    BY <1>1
  <2>2. a \div w \in Nat /\ a % w \in Nat /\ a % w < w /\ a \div w < m
    BY <2>1, Division, QuotientBelow
  <2>3. a \div w + 1 \in 1..n /\ (a % w) + 1 \in 1..w
    BY <2>2
  <2> QED BY <2>1, <2>3
<1> QED BY <1>1, <1>2 DEF Flat

(* The first one.                                                          *)
LEMMA FlatOne ==
  ASSUME NEW S, NEW w \in Nat, w > 0, NEW n \in Nat, n > 0,
         NEW s \in [1..n -> [1..w -> S]]
  PROVE  Flat(s, w, 1) = s[1]
<1>1. w * 1 = w
  OBVIOUS
<1>2. ASSUME NEW k \in 1..w
      PROVE  s[(k - 1) \div w + 1][((k - 1) % w) + 1] = s[1][k]
  <2>1. PICK a \in Nat, z \in Nat : a = k - 1 /\ a < w /\ z = 0
    OBVIOUS
  <2>2. Parts(a, w, z, a)
    BY <2>1 DEF Parts
  <2>3. a \div w = z /\ a % w = a
    BY <2>1, <2>2, Quotient
  <2> QED BY <2>1, <2>3
<1>3. s[1] = [k \in 1..w |-> s[1][k]]
  BY SMT
<1> QED BY <1>1, <1>2, <1>3 DEF Flat

(* And one more.                                                           *)
Joined(c, a, b) == c = a \o b

LEMMA FlatMore ==
  ASSUME NEW S, NEW w \in Nat, w > 0, NEW n \in Nat, NEW m \in Nat, m < n,
         NEW s \in [1..n -> [1..w -> S]]
  PROVE  Joined(Flat(s, w, m + 1), Flat(s, w, m), s[m + 1])
<1>1. PICK u \in Nat : u = w * m
  <2>1. w * m \in Nat
    OBVIOUS
  <2> QED BY <2>1
<1>2. w * (m + 1) = u + w
  <2>1. w * (m + 1) = w * m + w
    OBVIOUS
  <2> QED BY <1>1, <2>1
<1>3. PICK a, b : a = Flat(s, w, m) /\ b = s[m + 1]
  OBVIOUS
<1>4. a \in [1..u -> S] /\ b \in [1..w -> S]
  <2>1. m + 1 \in 1..n /\ m <= n
    OBVIOUS
  <2>2. Flat(s, w, m) \in [1..(w * m) -> S]
    BY <2>1, FlatType
  <2> QED BY <1>1, <1>3, <2>1, <2>2
<1>5. a \in Seq(S) /\ b \in Seq(S) /\ Len(a) = u /\ Len(b) = w
  BY <1>4
<1>6. PICK c : c = a \o b
  OBVIOUS
<1>7. /\ c \in Seq(S) /\ Len(c) = u + w
      /\ \A k \in 1..(u + w) : c[k] = IF k <= u THEN a[k] ELSE b[k - u]
  BY <1>5, <1>6, ConcatProperties
<1>8. ASSUME NEW k \in 1..(u + w)
      PROVE  s[(k - 1) \div w + 1][((k - 1) % w) + 1] = c[k]
  <2>1. CASE k <= u
    <3>1. k \in 1..(w * m)
      BY <1>1, <2>1
    <3>2. Flat(s, w, m)[k] = s[(k - 1) \div w + 1][((k - 1) % w) + 1]
      BY <3>1 DEF Flat
    <3> QED BY <1>3, <1>7, <2>1, <3>2
  <2>2. CASE k > u
    <3>1. PICK r \in Nat, e \in Nat : r = k - u - 1 /\ r < w /\ e = k - 1
      BY <2>2
    <3>2. Parts(e, w, m, r)
      BY <1>1, <3>1 DEF Parts
    <3>3. e \div w = m /\ e % w = r
      BY <3>1, <3>2, Quotient
    <3>4. c[k] = b[k - u] /\ k - u = r + 1
      BY <1>7, <2>2, <3>1
    <3> QED BY <1>3, <3>1, <3>3, <3>4
  <2> QED BY <2>1, <2>2
<1>9. c = [k \in 1..(u + w) |-> c[k]]
  BY <1>7
<1>10. Flat(s, w, m + 1) = c
  BY <1>2, <1>8, <1>9 DEF Flat
<1> QED BY <1>3, <1>6, <1>10, Zenon DEF Joined

LEMMA FlattenIs ==
  ASSUME NEW S, NEW w \in Nat, w > 0, NEW n \in Nat, n > 0,
         NEW s \in [1..n -> [1..w -> S]]
  PROVE  FlattenSeq(s) = Flat(s, w, n)
<1>1. s \in Seq([1..w -> S]) /\ Len(s) = n
  OBVIOUS
<1> DEFINE g == [i \in 1..n |-> Flat(s, w, i)]
<1>2. IsFlat(g, s)
  <2>1. ASSUME NEW i \in 1..n
        PROVE  g[i] = IF i = 1 THEN s[i] ELSE g[i - 1] \o s[i]
    <3>1. CASE i = 1
      <4>1. Flat(s, w, 1) = s[1]
        BY FlatOne
      <4> QED BY <3>1, <4>1
    <3>2. CASE i # 1
      <4>1. PICK m \in Nat : m = i - 1 /\ m < n /\ m \in 1..n /\ i = m + 1
        BY <3>2
      <4>2. Flat(s, w, m + 1) = Flat(s, w, m) \o s[m + 1]
        <5>1. Joined(Flat(s, w, m + 1), Flat(s, w, m), s[m + 1])
          BY <4>1, FlatMore
        <5> QED BY <5>1, Zenon DEF Joined
      <4>3. g[i] = Flat(s, w, m + 1) /\ g[m] = Flat(s, w, m)
        BY <4>1
      <4> HIDE DEF g
      <4> QED BY <3>2, <4>1, <4>2, <4>3, Zenon
    <3> QED BY <3>1, <3>2
  <2>2. g = [i \in 1..n |-> g[i]]
    OBVIOUS
  <2> HIDE DEF g
  <2> QED BY <1>1, <2>1, <2>2 DEF IsFlat
<1>3. PICK f : f = CHOOSE u : IsFlat(u, s)
  OBVIOUS
<1>4. IsFlat(f, s)
  <2> HIDE DEF g
  <2> QED BY <1>2, <1>3, Zenon
<1>5. FlattenSeq(s) = f[n]
  BY <1>1, <1>3 DEF FlattenSeq, IsFlat
<1>6. ASSUME NEW i \in 1..n
      PROVE  f[i] = IF i = 1 THEN s[i] ELSE f[i - 1] \o s[i]
  BY <1>1, <1>4 DEF IsFlat
<1>7. \A i \in 1..n : f[i] = Flat(s, w, i)
  <2> DEFINE T == {i \in 1..n : f[i] # Flat(s, w, i)}
  <2>1. SUFFICES ASSUME T # {} PROVE FALSE
    OBVIOUS
  <2>2. T \in SUBSET Nat
    OBVIOUS
  <2>3. PICK i \in T : \A j \in T : i <= j
    BY <2>1, <2>2, Least
  <2>4. i \in 1..n /\ f[i] # Flat(s, w, i)
    OBVIOUS
  <2>5. CASE i = 1
    BY <1>6, <2>4, <2>5, FlatOne
  <2>6. CASE i # 1
    <3>1. PICK m \in Nat : m = i - 1 /\ m < n /\ m \in 1..n /\ i = m + 1
      BY <2>4, <2>6
    <3>2. m \notin T
      BY <2>3, <3>1
    <3>3. f[m] = Flat(s, w, m)
      BY <3>1, <3>2
    <3>4. Flat(s, w, m + 1) = Flat(s, w, m) \o s[m + 1]
      <4>1. Joined(Flat(s, w, m + 1), Flat(s, w, m), s[m + 1])
        BY <3>1, FlatMore
      <4> QED BY <4>1, Zenon DEF Joined
    <3>5. f[i] = f[m] \o s[m + 1]
      BY <1>6, <2>4, <2>6, <3>1
    <3>6. f[i] = Flat(s, w, i)
      BY <3>1, <3>3, <3>4, <3>5, Zenon
    <3> QED BY <2>4, <3>6
  <2> QED BY <2>5, <2>6
<1> QED BY <1>5, <1>7
----------------------------------------------------------------------------
(* The zones of an inode by their number.                                  *)

TOTAL == DIRECT_ZONES + POINTERS_PER_ZONE + POINTERS_PER_ZONE * POINTERS_PER_ZONE

ZoneAt(inode, j) ==
  IF j < DIRECT_ZONES THEN inode.zone[j]
  ELSE IF j - DIRECT_ZONES < POINTERS_PER_ZONE
  THEN Leaves(inode.zone[DIRECT_ZONES])[j - DIRECT_ZONES + 1]
  ELSE Leaves(Leaves(inode.zone[DIRECT_ZONES + 1])
                [(j - DIRECT_ZONES - POINTERS_PER_ZONE) \div POINTERS_PER_ZONE + 1])
             [((j - DIRECT_ZONES - POINTERS_PER_ZONE) % POINTERS_PER_ZONE) + 1]

(* The sizes.                                                              *)
LEMMA Sizes ==
  /\ FS_BLOCK_SIZE \in Nat /\ FS_BLOCK_SIZE > 0 /\ DIRECT_ZONES \in Nat
  /\ POINTERS_PER_ZONE \in Nat /\ POINTERS_PER_ZONE > 0
  /\ POINTERS_PER_ZONE * POINTERS_PER_ZONE \in Nat /\ TOTAL \in Nat /\ TOTAL > 0
  /\ UINT \in Nat /\ UINT > 0 /\ FS_BLOCK_SIZE * TOTAL \in Nat /\ FS_BLOCK_SIZE * TOTAL <= UINT
<1>1. /\ FS_BLOCK_SIZE \in Nat /\ FS_BLOCK_SIZE > 0 /\ DIRECT_ZONES \in Nat
      /\ POINTERS_PER_ZONE \in Nat /\ POINTERS_PER_ZONE > 0 /\ UINT \in Nat /\ UINT > 0
  BY FsAssumption
<1>2. POINTERS_PER_ZONE * POINTERS_PER_ZONE \in Nat
  BY <1>1
<1>3. TOTAL \in Nat /\ TOTAL > 0
  BY <1>1, <1>2 DEF TOTAL
<1>4. FS_BLOCK_SIZE * TOTAL \in Nat
  BY <1>1, <1>3
<1>5. FS_BLOCK_SIZE * TOTAL <= UINT
  BY FsAssumption DEF TOTAL
<1> QED BY <1>1, <1>2, <1>3, <1>4, <1>5

(* A missing pointer block reads as the empty boot block.                  *)
LEMMA LeafIs ==
  ASSUME \A i \in 0..(POINTERS_PER_ZONE - 1) : read_block(0)[i] = 0,
         NEW z, NEW i \in 0..(POINTERS_PER_ZONE - 1)
  PROVE  read_block(z)[i] = Leaves(z)[i + 1]
<1>1. i + 1 \in 1..POINTERS_PER_ZONE /\ (i + 1) - 1 = i
  BY Sizes
<1>2. CASE z = 0
  BY <1>1, <1>2 DEF Leaves
<1>3. CASE z # 0
  BY <1>1, <1>3 DEF Leaves
<1> QED BY <1>2, <1>3

(* The leaves of the second level.                                         *)
Second(inode) == [i \in 1..POINTERS_PER_ZONE |-> Leaves(Leaves(inode.zone[DIRECT_ZONES + 1])[i])]

LEMMA LeavesType ==
  ASSUME NEW z
  PROVE  Leaves(z) \in [1..POINTERS_PER_ZONE -> {Leaves(z)[i] : i \in 1..POINTERS_PER_ZONE}]
<1>1. CASE z = 0
  BY <1>1 DEF Leaves
<1>2. CASE z # 0
  BY <1>2 DEF Leaves
<1> QED BY <1>1, <1>2

LEMMA ZonesIs ==
  ASSUME NEW inode
  PROVE  /\ DOMAIN Zones(inode) = 1..TOTAL
         /\ \A j \in 0..(TOTAL - 1) : Zones(inode)[j + 1] = ZoneAt(inode, j)
<1>1. PICK d \in Nat, p \in Nat, q \in Nat :
        d = DIRECT_ZONES /\ p = POINTERS_PER_ZONE /\ q = p * p /\ p > 0 /\ TOTAL = d + p + q
  BY Sizes DEF TOTAL
<1>2. PICK a, b, c : /\ a = [i \in 1..d |-> inode.zone[i - 1]] /\ b = Leaves(inode.zone[d])
                     /\ c = FlattenSeq(Second(inode))
  OBVIOUS
<1>3. PICK z, y : z = inode.zone[d + 1] /\ y = Second(inode)
  OBVIOUS
<1>4. PICK S2 : y \in [1..p -> [1..p -> S2]]
  <2>1. ASSUME NEW i \in 1..p
        PROVE  Leaves(Leaves(z)[i]) \in [1..p -> UNION {{Leaves(Leaves(z)[k])[j] : j \in 1..p} : k \in 1..p}]
    <3>1. Leaves(Leaves(z)[i]) \in [1..p -> {Leaves(Leaves(z)[i])[j] : j \in 1..p}]
      BY <1>1, LeavesType
    <3> QED BY <3>1
  <2>2. y = [i \in 1..p |-> Leaves(Leaves(z)[i])]
    BY <1>1, <1>3 DEF Second
  <2>3. y \in [1..p -> [1..p -> UNION {{Leaves(Leaves(z)[i])[j] : j \in 1..p} : i \in 1..p}]]
    BY <2>1, <2>2
  <2> QED BY <2>3
<1>5. c = Flat(y, p, p)
  <2>0. p \in Nat /\ p > 0
    BY <1>1
  <2>1. FlattenSeq(y) = Flat(y, p, p)
    BY <1>4, <2>0, FlattenIs
  <2> QED BY <1>2, <1>3, <2>1, Zenon
<1>6. c \in [1..q -> S2]
  <2>1. Flat(y, p, p) \in [1..(p * p) -> S2]
    BY <1>1, <1>4, FlatType
  <2> QED BY <1>1, <1>5, <2>1
<1>7. PICK S : a \in [1..d -> S] /\ b \in [1..p -> S] /\ c \in [1..q -> S]
  <2> DEFINE S0 == {inode.zone[i - 1] : i \in 1..d}
             S1 == {b[i] : i \in 1..p}
  <2>1. a \in [1..d -> S0]
    BY <1>2
  <2>2. b \in [1..p -> S1]
    BY <1>1, <1>2, LeavesType
  <2> HIDE DEF S0, S1
  <2> DEFINE U == S0 \cup S1 \cup S2
  <2>3. a \in [1..d -> U] /\ b \in [1..p -> U] /\ c \in [1..q -> U]
    BY <1>6, <2>1, <2>2
  <2> QED BY <2>3
<1>8. a \in Seq(S) /\ b \in Seq(S) /\ c \in Seq(S) /\ Len(a) = d /\ Len(b) = p /\ Len(c) = q
  BY <1>7
<1>9. PICK e : e = a \o b
  OBVIOUS
<1>10. /\ e \in Seq(S) /\ Len(e) = d + p
       /\ \A k \in 1..(d + p) : e[k] = IF k <= d THEN a[k] ELSE b[k - d]
  BY <1>8, <1>9, ConcatProperties
<1>11. PICK f : f = e \o c
  OBVIOUS
<1>12. /\ f \in Seq(S) /\ Len(f) = d + p + q
       /\ \A k \in 1..(d + p + q) : f[k] = IF k <= d + p THEN e[k] ELSE c[k - (d + p)]
  BY <1>8, <1>10, <1>11, ConcatProperties
<1>13. f = Zones(inode)
  BY <1>1, <1>2, <1>9, <1>11, Zenon DEF Zones, Second
<1>14. ASSUME NEW j \in 0..(TOTAL - 1)
       PROVE  f[j + 1] = ZoneAt(inode, j)
  <2>1. j \in Nat /\ j + 1 \in 1..(d + p + q)
    BY <1>1, <1>14
  <2>2. CASE j < d
    <3>1. f[j + 1] = a[j + 1] /\ j + 1 \in 1..d
      BY <1>10, <1>12, <2>1, <2>2
    <3>2. a[j + 1] = inode.zone[j]
      BY <1>2, <3>1
    <3> QED BY <1>1, <2>2, <3>1, <3>2 DEF ZoneAt
  <2>3. CASE j >= d /\ j - d < p
    <3>1. f[j + 1] = e[j + 1] /\ e[j + 1] = b[(j + 1) - d] /\ (j + 1) - d = (j - d) + 1
      BY <1>10, <1>12, <2>1, <2>3
    <3>2. ~(j < d)
      BY <2>1, <2>3
    <3> QED BY <1>1, <1>2, <2>3, <3>1, <3>2 DEF ZoneAt
  <2>4. CASE j >= d + p
    <3>1. PICK r \in Nat : r = j - d - p /\ r < q
      BY <2>1, <2>4
    <3>2. f[j + 1] = c[(j + 1) - (d + p)] /\ (j + 1) - (d + p) = r + 1 /\ r + 1 \in 1..q
      BY <1>12, <2>1, <2>4, <3>1
    <3>3. c[r + 1] = y[r \div p + 1][(r % p) + 1]
      <4>1. r + 1 \in 1..(p * p) /\ (r + 1) - 1 = r
        BY <1>1, <3>1, <3>2
      <4> QED BY <1>5, <4>1 DEF Flat
    <3>4. r \div p \in Nat /\ r \div p < p
      BY <1>1, <3>1, Division, QuotientBelow
    <3>5. r \div p + 1 \in 1..p
      BY <3>4
    <3>6. y[r \div p + 1] = Leaves(Leaves(z)[r \div p + 1])
      BY <1>1, <1>3, <3>5 DEF Second
    <3>7. ~(j < d) /\ ~(j - d < p)
      BY <2>1, <2>4
    <3> QED BY <1>1, <1>3, <3>1, <3>2, <3>3, <3>6, <3>7 DEF ZoneAt
  <2> QED BY <2>1, <2>2, <2>3, <2>4
<1>15. DOMAIN f = 1..TOTAL
  BY <1>1, <1>12
<1> QED BY <1>13, <1>14, <1>15

(* map_file_block finds the zone, or none behind the largest file.         *)
LEMMA MapIs ==
  ASSUME \A i \in 0..(POINTERS_PER_ZONE - 1) : read_block(0)[i] = 0,
         NEW inode, NEW j \in Nat
  PROVE  map_file_block(inode, j) = IF j < TOTAL THEN ZoneAt(inode, j) ELSE 0
<1>1. PICK d \in Nat, p \in Nat, q \in Nat :
        d = DIRECT_ZONES /\ p = POINTERS_PER_ZONE /\ q = p * p /\ p > 0 /\ TOTAL = d + p + q
  BY Sizes DEF TOTAL
<1>2. CASE j < d
  <2>1. j < TOTAL
    BY <1>1, <1>2
  <2> QED BY <1>1, <1>2, <2>1 DEF map_file_block, ZoneAt
<1>3. CASE ~(j < d) /\ j - d < p
  <2>1. j < TOTAL /\ j - d \in 0..(p - 1)
    BY <1>1, <1>3
  <2>2. read_block(inode.zone[d])[j - d] = Leaves(inode.zone[d])[j - d + 1]
    BY <1>1, <2>1, LeafIs
  <2> QED BY <1>1, <1>3, <2>1, <2>2 DEF map_file_block, ZoneAt
<1>4. CASE ~(j < d) /\ ~(j - d < p) /\ j - d - p < q
  <2>1. PICK r \in Nat : r = j - d - p /\ r < q /\ j < TOTAL
    BY <1>1, <1>4
  <2>2. r \div p \in Nat /\ r \div p < p /\ r % p \in Nat /\ r % p < p
    BY <1>1, <2>1, Division, QuotientBelow
  <2>3. r \div p \in 0..(p - 1) /\ r % p \in 0..(p - 1)
    BY <1>1, <2>2
  <2>4. PICK x, k : x = inode.zone[d + 1] /\ k = r \div p
    OBVIOUS
  <2>5. read_block(x)[k] = Leaves(x)[k + 1]
    BY <1>1, <2>3, <2>4, LeafIs
  <2>6. PICK y, l : y = Leaves(x)[k + 1] /\ l = r % p
    OBVIOUS
  <2>7. read_block(y)[l] = Leaves(y)[l + 1]
    BY <1>1, <2>3, <2>6, LeafIs
  <2>8. map_file_block(inode, j) = read_block(read_block(x)[k])[l]
    BY <1>1, <1>4, <2>1, <2>4, <2>6 DEF map_file_block
  <2>9. ZoneAt(inode, j) = Leaves(Leaves(x)[k + 1])[l + 1]
    BY <1>1, <1>4, <2>1, <2>4, <2>6 DEF ZoneAt
  <2> QED BY <2>1, <2>5, <2>6, <2>7, <2>8, <2>9
<1>5. CASE ~(j < d) /\ ~(j - d < p) /\ ~(j - d - p < q)
  <2>1. ~(j < TOTAL)
    BY <1>1, <1>5
  <2> QED BY <1>1, <1>5, <2>1 DEF map_file_block
<1> QED BY <1>1, <1>2, <1>3, <1>4, <1>5

----------------------------------------------------------------------------
(* The words of a file by their number, NULL where there is none.          *)

WordAt(inode, p) ==
  IF p \div FS_BLOCK_SIZE < TOTAL /\ ZoneAt(inode, p \div FS_BLOCK_SIZE) # 0
  THEN read_block(ZoneAt(inode, p \div FS_BLOCK_SIZE))[p % FS_BLOCK_SIZE]
  ELSE NULL

(* The words of all zones, block by block, as in Words.                    *)
Blocks(zones) ==
  [i \in DOMAIN zones |->
     [k \in 1..FS_BLOCK_SIZE |-> IF zones[i] = 0 THEN NULL ELSE read_block(zones[i])[k - 1]]]

LEMMA BlocksFlat ==
  ASSUME NEW zones, NEW t \in Nat, t > 0, DOMAIN zones = 1..t
  PROVE  FlattenSeq(Blocks(zones)) = Flat(Blocks(zones), FS_BLOCK_SIZE, t)
         /\ Len(FlattenSeq(Blocks(zones))) = FS_BLOCK_SIZE * t
<1>1. PICK w \in Nat : w = FS_BLOCK_SIZE /\ w > 0
  BY Sizes
<1>2. PICK s : s = Blocks(zones)
  OBVIOUS
<1>3. PICK S : s \in [1..t -> [1..w -> S]]
  <2> DEFINE E(i, k) == IF zones[i] = 0 THEN NULL ELSE read_block(zones[i])[k - 1]
  <2>1. s = [i \in 1..t |-> [k \in 1..w |-> E(i, k)]]
    BY <1>1, <1>2 DEF Blocks
  <2> HIDE DEF E
  <2>2. s \in [1..t -> [1..w -> UNION {{E(i, k) : k \in 1..w} : i \in 1..t}]]
    BY <2>1
  <2> QED BY <2>2
<1>a. w > 0 /\ t > 0 /\ t <= t
  BY <1>1
<1>4. FlattenSeq(s) = Flat(s, w, t)
  BY <1>3, <1>a, FlattenIs
<1>5. Flat(s, w, t) \in [1..(w * t) -> S] /\ w * t \in Nat
  BY <1>3, <1>a, FlatType
<1>b. PICK n \in Nat : n = w * t
  BY <1>5
<1>6. PICK f : f = Flat(s, w, t)
  OBVIOUS
<1>7. Len(f) = n
  <2>1. f \in [1..n -> S]
    BY <1>5, <1>6, <1>b
  <2> QED BY <2>1
<1> QED BY <1>1, <1>2, <1>4, <1>6, <1>7, <1>b

LEMMA WordsIs ==
  ASSUME NEW inode, NEW n \in Nat
  PROVE  Words(inode, n) = [i \in 1..n |-> WordAt(inode, i - 1)]
<1>1. PICK w \in Nat, t \in Nat : w = FS_BLOCK_SIZE /\ w > 0 /\ t = TOTAL /\ t > 0
  BY Sizes
<1>2. PICK zones : zones = Zones(inode)
  OBVIOUS
<1>3. DOMAIN zones = 1..t /\ \A j \in 0..(t - 1) : zones[j + 1] = ZoneAt(inode, j)
  BY <1>1, <1>2, ZonesIs
<1>4. PICK s, all : s = Blocks(zones) /\ all = FlattenSeq(s)
  OBVIOUS
<1>5. all = Flat(s, w, t) /\ Len(all) = w * t
  BY <1>1, <1>3, <1>4, BlocksFlat
<1>6. Words(inode, n) = [i \in 1..n |-> IF i <= Len(all) THEN all[i] ELSE NULL]
  BY <1>2, <1>4, Zenon DEF Words, Blocks
<1>7. ASSUME NEW i \in 1..n
      PROVE  (IF i <= Len(all) THEN all[i] ELSE NULL) = WordAt(inode, i - 1)
  <2>1. PICK p \in Nat, m \in Nat : p = i - 1 /\ m = w * t
    <3>1. w * t \in Nat /\ i - 1 \in Nat
      BY <1>1
    <3> QED BY <3>1
  <2>2. PICK q \in Nat, r \in Nat : q = p \div w /\ r = p % w /\ r < w /\ (p < m <=> q < t)
    BY <1>1, <2>1, Division, QuotientBelow
  <2>3. WordAt(inode, p) = IF q < t /\ ZoneAt(inode, q) # 0 THEN read_block(ZoneAt(inode, q))[r] ELSE NULL
    BY <1>1, <2>2 DEF WordAt
  <2>4. CASE i <= m
    <3>1. q < t /\ q + 1 \in 1..t /\ q \in 0..(t - 1)
      BY <2>1, <2>2, <2>4
    <3>2. all[i] = s[q + 1][r + 1]
      <4>1. i \in 1..(w * t)
        BY <2>1, <2>4
      <4> QED BY <1>5, <2>1, <2>2, <4>1 DEF Flat
    <3>3. r + 1 \in 1..w /\ (r + 1) - 1 = r
      BY <2>2
    <3>4. zones[q + 1] = ZoneAt(inode, q)
      BY <1>3, <3>1
    <3>5. s[q + 1][r + 1] = IF zones[q + 1] = 0 THEN NULL ELSE read_block(zones[q + 1])[r]
      BY <1>1, <1>3, <1>4, <3>1, <3>3 DEF Blocks
    <3> QED BY <1>5, <2>1, <2>3, <2>4, <3>1, <3>2, <3>4, <3>5
  <2>5. CASE ~(i <= m)
    <3>1. ~(q < t)
      BY <2>1, <2>2, <2>5
    <3> QED BY <1>5, <2>1, <2>3, <2>5, <3>1
  <2> QED BY <2>4, <2>5
<1> QED BY <1>6, <1>7

----------------------------------------------------------------------------
(* vfs_read.                                                               *)

(* n words from position a on, and what a read of them gets.               *)
Piece(inode, a, n) == [i \in 1..n |-> WordAt(inode, a + i - 1)]
There(inode, a, n) == \A i \in 1..n : WordAt(inode, a + i - 1) # NULL
Got(inode, a, n) == IF There(inode, a, n) THEN Piece(inode, a, n) ELSE <<>>

(* The disk as Consistent has it for one inode.                            *)
Sound(inode) ==
  /\ \A i \in 0..(POINTERS_PER_ZONE - 1) : read_block(0)[i] = 0
  /\ \A j \in 0..(TOTAL - 1) : ZoneAt(inode, j) # 0 =>
       \A i \in 0..(FS_BLOCK_SIZE - 1) : read_block(ZoneAt(inode, j))[i] # NULL

LEMMA PieceType ==
  ASSUME NEW inode, NEW a \in Nat, NEW n \in Nat
  PROVE  /\ \E S : Piece(inode, a, n) \in Seq(S)
         /\ Len(Piece(inode, a, n)) = n /\ DOMAIN Piece(inode, a, n) = 1..n
         /\ \A i \in 1..n : Piece(inode, a, n)[i] = WordAt(inode, a + i - 1)
<1>1. Piece(inode, a, n) \in [1..n -> {WordAt(inode, a + i - 1) : i \in 1..n}]
  BY DEF Piece
<1>2. PICK s, S : s = Piece(inode, a, n) /\ s \in [1..n -> S]
  BY <1>1
<1>3. s \in Seq(S) /\ Len(s) = n /\ DOMAIN s = 1..n
  BY <1>2
<1>4. \A i \in 1..n : Piece(inode, a, n)[i] = WordAt(inode, a + i - 1)
  BY DEF Piece
<1> QED BY <1>2, <1>3, <1>4

(* Two pieces, one behind the other.                                       *)
LEMMA PieceJoin ==
  ASSUME NEW inode, NEW a \in Nat, NEW c \in Nat, NEW m \in Nat
  PROVE  Joined(Piece(inode, a, c + m), Piece(inode, a, c), Piece(inode, a + c, m))
<1>1. PICK x, y, z : x = Piece(inode, a, c) /\ y = Piece(inode, a + c, m) /\ z = Piece(inode, a, c + m)
  OBVIOUS
<1>2. PICK S : x \in Seq(S) /\ y \in Seq(S)
  <2>1. a + c \in Nat
    OBVIOUS
  <2>2. PICK S1 : x \in Seq(S1)
    BY <1>1, PieceType
  <2>3. PICK S2 : y \in Seq(S2)
    BY <1>1, <2>1, PieceType
  <2>4. x \in Seq(S1 \cup S2) /\ y \in Seq(S1 \cup S2)
    BY <2>2, <2>3
  <2> QED BY <2>4
<1>3. Len(x) = c /\ Len(y) = m
  <2>1. a + c \in Nat
    OBVIOUS
  <2> QED BY <1>1, <2>1, PieceType
<1>4. PICK u : u = x \o y
  OBVIOUS
<1>5. /\ u \in Seq(S) /\ Len(u) = c + m
      /\ \A k \in 1..(c + m) : u[k] = IF k <= c THEN x[k] ELSE y[k - c]
  BY <1>2, <1>3, <1>4, ConcatProperties
<1>6. ASSUME NEW k \in 1..(c + m)
      PROVE  u[k] = WordAt(inode, a + k - 1)
  <2>1. CASE k <= c
    <3>1. k \in 1..c
      BY <2>1
    <3>2. x[k] = WordAt(inode, a + k - 1)
      BY <1>1, <3>1 DEF Piece
    <3> QED BY <1>5, <2>1, <3>2
  <2>2. CASE ~(k <= c)
    <3>1. PICK j \in 1..m : j = k - c /\ a + c + j - 1 = a + k - 1
      <4>1. k - c \in 1..m /\ a + c + (k - c) - 1 = a + k - 1
        BY <2>2
      <4> QED BY <4>1
    <3>2. y[j] = WordAt(inode, a + c + j - 1)
      BY <1>1 DEF Piece
    <3> QED BY <1>5, <2>2, <3>1, <3>2
  <2> QED BY <2>1, <2>2
<1>7. u = [k \in 1..(c + m) |-> u[k]]
  BY <1>5
<1>8. u = z
  BY <1>1, <1>6, <1>7 DEF Piece
<1> QED BY <1>1, <1>4, <1>8, Zenon DEF Joined

(* No words.                                                               *)
LEMMA PieceNone ==
  ASSUME NEW inode, NEW a \in Nat
  PROVE  Piece(inode, a, 0) = <<>> /\ There(inode, a, 0)
<1>1. There(inode, a, 0)
  BY DEF There
<1>2. PICK z \in Nat : z = 0
  OBVIOUS
<1>3. PICK s, S : s = Piece(inode, a, z) /\ s \in Seq(S) /\ Len(s) = z
  <2>1. (\E S : Piece(inode, a, z) \in Seq(S)) /\ Len(Piece(inode, a, z)) = z
    BY PieceType
  <2> QED BY <2>1
<1>4. s = <<>>
  BY <1>2, <1>3, EmptySeq
<1> QED BY <1>1, <1>2, <1>3, <1>4

(* Some words are not none.                                                *)
LEMMA PieceSome ==
  ASSUME NEW inode, NEW a \in Nat, NEW n \in Nat, n > 0
  PROVE  Piece(inode, a, n) # <<>>
<1>1. Len(Piece(inode, a, n)) = n
  BY PieceType
<1> QED BY <1>1

(* The words of one block.                                                 *)
LEMMA InBlock ==
  ASSUME NEW inode, NEW a \in Nat, NEW i \in Nat, (a % FS_BLOCK_SIZE) + i < FS_BLOCK_SIZE, Sound(inode)
  PROVE  LET b == map_file_block(inode, a \div FS_BLOCK_SIZE)
         IN  /\ b = 0 => WordAt(inode, a + i) = NULL
             /\ b # 0 => /\ WordAt(inode, a + i) = read_block(b)[(a % FS_BLOCK_SIZE) + i]
                         /\ WordAt(inode, a + i) # NULL
<1>1. PICK w \in Nat, t \in Nat : w = FS_BLOCK_SIZE /\ w > 0 /\ t = TOTAL
  BY Sizes
<1>2. PICK q \in Nat, r \in Nat : q = a \div w /\ r = a % w /\ r < w /\ a = w * q + r
  BY <1>1, Division
<1>3. PICK p \in Nat, x \in Nat : p = a + i /\ x = r + i /\ x < w
  BY <1>1, <1>2
<1>4. Parts(p, w, q, x)
  <2>1. w * q \in Nat
    OBVIOUS
  <2> QED BY <1>2, <1>3, <2>1 DEF Parts
<1>5. p \div w = q /\ p % w = x
  BY <1>1, <1>4, Quotient
<1>6. WordAt(inode, p) = IF q < t /\ ZoneAt(inode, q) # 0 THEN read_block(ZoneAt(inode, q))[x] ELSE NULL
  BY <1>1, <1>5 DEF WordAt
<1>7. PICK b : b = map_file_block(inode, q) /\ b = IF q < t THEN ZoneAt(inode, q) ELSE 0
  BY <1>1, MapIs DEF Sound
<1>8. b # 0 => read_block(b)[x] # NULL
  <2>1. ASSUME b # 0 PROVE read_block(b)[x] # NULL
    <3>1. q \in 0..(TOTAL - 1) /\ x \in 0..(FS_BLOCK_SIZE - 1) /\ b = ZoneAt(inode, q)
      BY <1>1, <1>3, <1>7, <2>1
    <3> QED BY <2>1, <3>1 DEF Sound
  <2> QED BY <2>1
<1>9. /\ b = 0 => WordAt(inode, p) = NULL
      /\ b # 0 => WordAt(inode, p) = read_block(b)[x] /\ WordAt(inode, p) # NULL
  BY <1>6, <1>7, <1>8
<1> QED BY <1>1, <1>2, <1>3, <1>7, <1>9

(* One turn of the loop of vfs_read, the rest of the words from g.         *)
Turn(g, inode, pos, max, read) ==
  LET offset == (pos + read) % FS_BLOCK_SIZE
      chunk == Min({FS_BLOCK_SIZE - offset, max - read})
      b == map_file_block(inode, (pos + read) \div FS_BLOCK_SIZE)
  IN  IF read = max \/ b = 0 \/ (read + chunk # max /\ g[read + chunk] = <<>>) THEN <<>>
      ELSE [i \in 1..chunk |-> read_block(b)[offset + i - 1]] \o g[read + chunk]

IsRead(g, inode, pos, max) == g = [read \in 0..max |-> Turn(g, inode, pos, max, read)]

(* g is right behind read.                                                 *)
Behind(g, inode, pos, max, read) ==
  \A k \in (read + 1)..max : g[k] = Got(inode, pos + k, max - k)

(* The words still to be read, in two parts.                               *)
LEMMA TurnStep ==
  ASSUME NEW g, NEW inode, Sound(inode), NEW pos \in Nat, NEW max \in Nat, NEW read \in 0..max,
         Behind(g, inode, pos, max, read)
  PROVE  Turn(g, inode, pos, max, read) = Got(inode, pos + read, max - read)
<1>1. PICK a \in Nat, n \in Nat, w \in Nat : a = pos + read /\ n = max - read /\ w = FS_BLOCK_SIZE /\ w > 0
  BY Sizes
<1>2. PICK r \in Nat : r = a % w /\ r < w
  BY <1>1, Division
<1>3. PICK c \in Nat : c = Min({w - r, n}) /\ c <= n /\ r + c <= w /\ (n > 0 => c > 0)
  <2>1. w - r \in Nat /\ w - r > 0
    BY <1>2
  <2> QED BY <2>1, MinOfTwo
<1>4. PICK b : b = map_file_block(inode, a \div w)
  OBVIOUS
<1>5. Turn(g, inode, pos, max, read) =
        IF read = max \/ b = 0 \/ (read + c # max /\ g[read + c] = <<>>) THEN <<>>
        ELSE [i \in 1..c |-> read_block(b)[r + i - 1]] \o g[read + c]
  BY <1>1, <1>2, <1>3, <1>4, Zenon DEF Turn
<1>6. CASE n = 0
  <2>1. read = max
    BY <1>1, <1>6
  <2>2. Turn(g, inode, pos, max, read) = <<>>
    BY <1>5, <2>1, Zenon
  <2>3. Got(inode, a, 0) = <<>>
    BY PieceNone DEF Got
  <2> QED BY <1>1, <1>6, <2>2, <2>3
<1>7. CASE n > 0 /\ b = 0
  <2>1. Turn(g, inode, pos, max, read) = <<>>
    BY <1>5, <1>7, Zenon
  <2>2. PICK z \in Nat : z = 0 /\ (a % FS_BLOCK_SIZE) + z < FS_BLOCK_SIZE
    BY <1>1, <1>2
  <2>3. WordAt(inode, a + z) = NULL
    BY <1>1, <1>4, <1>7, <2>2, InBlock
  <2>4. 1 \in 1..n /\ a + 1 - 1 = a + z
    BY <1>7, <2>2
  <2>5. ~There(inode, a, n)
    BY <2>3, <2>4 DEF There
  <2> QED BY <1>1, <2>1, <2>5 DEF Got
<1>8. CASE n > 0 /\ b # 0
  <2>1. ASSUME NEW i \in 1..c
        PROVE  /\ WordAt(inode, a + i - 1) = read_block(b)[r + i - 1]
               /\ WordAt(inode, a + i - 1) # NULL
    <3>1. PICK k \in Nat : k = i - 1 /\ (a % FS_BLOCK_SIZE) + k < FS_BLOCK_SIZE
      BY <1>1, <1>2, <1>3
    <3>2. /\ WordAt(inode, a + k) = read_block(b)[(a % FS_BLOCK_SIZE) + k]
          /\ WordAt(inode, a + k) # NULL
      BY <1>1, <1>4, <1>8, <3>1, InBlock
    <3>3. a + k = a + i - 1 /\ (a % FS_BLOCK_SIZE) + k = r + i - 1
      BY <1>1, <1>2, <3>1
    <3> QED BY <3>2, <3>3
  <2>2. [i \in 1..c |-> read_block(b)[r + i - 1]] = Piece(inode, a, c)
    BY <2>1 DEF Piece
  <2>3. PICK m \in Nat : m = n - c /\ n = c + m
    BY <1>3
  <2>4. PICK e \in Nat, k \in Nat : e = a + c /\ k = read + c
    BY <1>3
  <2>5. g[k] = Got(inode, e, m)
    <3>1. k \in (read + 1)..max /\ pos + k = e /\ max - k = m
      BY <1>1, <1>3, <1>8, <2>3, <2>4
    <3> QED BY <3>1 DEF Behind
  <2>6. There(inode, a, n) <=> There(inode, e, m)
    <3>1. ASSUME There(inode, a, n), NEW i \in 1..m
          PROVE  WordAt(inode, e + i - 1) # NULL
      <4>1. c + i \in 1..n /\ a + (c + i) - 1 = e + i - 1
        BY <2>3, <2>4
      <4> QED BY <3>1, <4>1 DEF There
    <3>2. ASSUME There(inode, e, m), NEW i \in 1..n
          PROVE  WordAt(inode, a + i - 1) # NULL
      <4>1. CASE i <= c
        BY <2>1, <4>1
      <4>2. CASE ~(i <= c)
        <5>1. i - c \in 1..m /\ e + (i - c) - 1 = a + i - 1
          BY <2>3, <2>4, <4>2
        <5> QED BY <3>2, <5>1 DEF There
      <4> QED BY <4>1, <4>2
    <3> QED BY <3>1, <3>2 DEF There
  <2>7. k # max <=> m > 0
    BY <1>1, <2>3, <2>4
  <2>8. read # max
    BY <1>1, <1>8
  <2>9. CASE There(inode, e, m)
    <3>1. g[k] = Piece(inode, e, m) /\ Got(inode, a, n) = Piece(inode, a, n)
      BY <2>5, <2>6, <2>9 DEF Got
    <3>2. ~(k # max /\ g[k] = <<>>)
      BY <2>7, <3>1, PieceSome
    <3>3. Turn(g, inode, pos, max, read) = Piece(inode, a, c) \o Piece(inode, e, m)
      BY <1>5, <1>8, <2>2, <2>4, <2>8, <3>1, <3>2, Zenon
    <3>4. Joined(Piece(inode, a, c + m), Piece(inode, a, c), Piece(inode, a + c, m))
      BY PieceJoin
    <3>5. Piece(inode, a, n) = Piece(inode, a, c) \o Piece(inode, e, m)
      BY <2>3, <2>4, <3>4, Zenon DEF Joined
    <3> QED BY <1>1, <3>1, <3>3, <3>5, Zenon
  <2>10. CASE ~There(inode, e, m)
    <3>1. m # 0
      BY <2>4, <2>10, PieceNone
    <3>2. k # max /\ g[k] = <<>>
      BY <2>5, <2>7, <2>10, <3>1 DEF Got
    <3>3. Turn(g, inode, pos, max, read) = <<>>
      BY <1>5, <2>4, <3>2, Zenon
    <3> QED BY <1>1, <2>6, <2>10, <3>3 DEF Got
  <2> QED BY <2>9, <2>10
<1> QED BY <1>6, <1>7, <1>8

(* The loop has one outcome: the words asked for, when all are there.      *)
LEMMA LoopIs ==
  ASSUME NEW inode, Sound(inode), NEW pos \in Nat, NEW max \in Nat
  PROVE  /\ \E g : IsRead(g, inode, pos, max)
         /\ \A g : IsRead(g, inode, pos, max) => g[0] = Got(inode, pos, max)
<1> DEFINE h == [read \in 0..max |-> Got(inode, pos + read, max - read)]
<1>1. IsRead(h, inode, pos, max)
  <2>1. ASSUME NEW read \in 0..max
        PROVE  h[read] = Turn(h, inode, pos, max, read)
    <3>1. \A k \in (read + 1)..max : h[k] = Got(inode, pos + k, max - k)
      OBVIOUS
    <3>2. h[read] = Got(inode, pos + read, max - read)
      OBVIOUS
    <3> HIDE DEF h
    <3>3. PICK f : f = h
      OBVIOUS
    <3>4. Behind(f, inode, pos, max, read)
      BY <3>1, <3>3 DEF Behind
    <3>5. Turn(f, inode, pos, max, read) = Got(inode, pos + read, max - read)
      BY <3>4, TurnStep
    <3> QED BY <3>2, <3>3, <3>5
  <2>2. h = [read \in 0..max |-> h[read]]
    OBVIOUS
  <2> HIDE DEF h
  <2> QED BY <2>1, <2>2 DEF IsRead
<1>2. ASSUME NEW g, IsRead(g, inode, pos, max)
      PROVE  g[0] = Got(inode, pos, max)
  <2>1. \A k \in 0..max : g[k] = Turn(g, inode, pos, max, k)
    BY <1>2 DEF IsRead
  <2> DEFINE T == {d \in 0..max : g[max - d] # Got(inode, pos + (max - d), d)}
  <2>2. T = {}
    <3>1. SUFFICES ASSUME T # {} PROVE FALSE
      OBVIOUS
    <3>2. T \in SUBSET Nat
      OBVIOUS
    <3>3. PICK d \in T : \A y \in T : d <= y
      BY <3>1, <3>2, Least
    <3>4. PICK read \in 0..max : read = max - d /\ d = max - read
      <4>1. max - d \in 0..max /\ d = max - (max - d)
        OBVIOUS
      <4> QED BY <4>1
    <3>5. ASSUME NEW k \in (read + 1)..max
          PROVE  g[k] = Got(inode, pos + k, max - k)
      <4>1. max - k \in 0..max /\ max - k < d /\ max - (max - k) = k
        BY <3>4
      <4>2. max - k \notin T
        BY <3>3, <4>1
      <4> QED BY <4>1, <4>2
    <3>6. Turn(g, inode, pos, max, read) = Got(inode, pos + read, max - read)
      <4>1. Behind(g, inode, pos, max, read)
        BY <3>5 DEF Behind
      <4> QED BY <4>1, TurnStep
    <3>7. g[read] = Got(inode, pos + read, max - read)
      BY <2>1, <3>6
    <3> QED BY <3>3, <3>4, <3>7
  <2>3. max \in 0..max /\ max - max = 0 /\ pos + 0 = pos
    OBVIOUS
  <2>4. max \notin T
    BY <2>2
  <2> QED BY <2>3, <2>4
<1> HIDE DEF h
<1> QED BY <1>1, <1>2

(* What is left of the file, in numbers that wrap.                         *)
Rest(inode, pos, count) == Min({(inode.size + UINT - pos) % UINT, count})

RestOk(m, z, pos, count) ==
  /\ m <= count
  /\ pos <= z => (count <= z - pos => m = count) /\ (count > z - pos => m = z - pos)
  /\ pos > z => (count <= z + UINT - pos => m = count) /\ (count > z + UINT - pos => m < count)

LEMMA RestIs ==
  ASSUME NEW inode, inode.size \in 0..(UINT - 1), NEW pos \in 0..(UINT - 1), NEW count \in Nat
  PROVE  Rest(inode, pos, count) \in Nat /\ RestOk(Rest(inode, pos, count), inode.size, pos, count)
<1>1. PICK u \in Nat, z \in Nat : u = UINT /\ z = inode.size /\ z < u /\ pos < u /\ u > 0
  <2>1. UINT \in Nat /\ UINT > 0
    BY FsAssumption
  <2>2. inode.size \in Nat /\ inode.size < UINT /\ pos < UINT
    BY <2>1
  <2> QED BY <2>1, <2>2
<1>2. PICK a \in Nat : a = z + u - pos
  BY <1>1
<1>3. CASE pos <= z
  <2>1. PICK o \in Nat, r \in Nat : o = 1 /\ r = z - pos
    BY <1>3
  <2>2. Parts(a, u, o, r)
    BY <1>1, <1>2, <1>3, <2>1 DEF Parts
  <2>3. a % u = r
    BY <1>1, <2>2, Quotient
  <2>4. Rest(inode, pos, count) = IF r <= count THEN r ELSE count
    BY <1>1, <1>2, <2>3, MinOfTwo DEF Rest
  <2>5. PICK m \in Nat : m = Rest(inode, pos, count) /\ m = IF r <= count THEN r ELSE count
    BY <2>4
  <2>6. RestOk(m, z, pos, count)
    BY <1>1, <1>3, <2>1, <2>5 DEF RestOk
  <2> QED BY <1>1, <2>5, <2>6
<1>4. CASE pos > z
  <2>1. PICK o \in Nat : o = 0
    OBVIOUS
  <2>2. Parts(a, u, o, a)
    BY <1>1, <1>2, <1>4, <2>1 DEF Parts
  <2>3. a % u = a
    BY <1>1, <2>2, Quotient
  <2>4. Rest(inode, pos, count) = IF a <= count THEN a ELSE count
    BY <1>1, <1>2, <2>3, MinOfTwo DEF Rest
  <2>5. PICK m \in Nat : m = Rest(inode, pos, count) /\ m = IF a <= count THEN a ELSE count
    BY <2>4
  <2>6. RestOk(m, z, pos, count)
    BY <1>1, <1>2, <1>4, <2>5 DEF RestOk
  <2> QED BY <1>1, <2>5, <2>6
<1> QED BY <1>1, <1>3, <1>4

LEMMA ReadIs ==
  ASSUME NEW inode, Sound(inode), NEW pos \in Nat, NEW count, Rest(inode, pos, count) \in Nat
  PROVE  vfs_read(inode, pos, count) = Got(inode, pos, Rest(inode, pos, count))
<1>1. PICK max \in Nat : max = Rest(inode, pos, count)
  OBVIOUS
<1>2. PICK g : g = CHOOSE u : IsRead(u, inode, pos, max)
  OBVIOUS
<1>3. IsRead(g, inode, pos, max)
  <2>1. \E f : IsRead(f, inode, pos, max)
    BY LoopIs
  <2> QED BY <1>2, <2>1, Zenon
<1>4. g[0] = Got(inode, pos, max)
  BY <1>3, LoopIs
<1>5. vfs_read(inode, pos, count) = g[0]
  BY <1>1, <1>2, Zenon DEF vfs_read, IsRead, Turn, Rest
<1> QED BY <1>1, <1>4, <1>5

----------------------------------------------------------------------------
(* Inodes.                                                                 *)

(* What Consistent says of an inode, by the numbers of zones and words.    *)
Ok(inode) ==
  /\ inode # NULL /\ inode.dir \in BOOLEAN /\ inode.size \in 0..(UINT - 1)
  /\ Sound(inode)
  /\ inode.dir => \A p \in 0..(inode.size - 1) :
       /\ WordAt(inode, p) # NULL
       /\ p % 2 = 0 => WordAt(inode, p) \in 0..image.s_ninodes

LEMMA InodeOk ==
  ASSUME Consistent, NEW n \in 1..image.s_ninodes
  PROVE  Ok(read_inode(n))
<1>1. PICK inode : inode = read_inode(n)
  OBVIOUS
<1>2. /\ inode # NULL /\ inode.dir \in BOOLEAN /\ inode.size \in 0..(UINT - 1)
      /\ \A z \in DOMAIN Zones(inode) : Zones(inode)[z] # 0 =>
           \A i \in 0..(FS_BLOCK_SIZE - 1) : read_block(Zones(inode)[z])[i] # NULL
      /\ inode.dir => \A k \in 1..inode.size :
           /\ Contents(inode)[k] # NULL
           /\ k % DIR_ENTRY_SIZE = 1 => Contents(inode)[k] \in 0..image.s_ninodes
  BY <1>1, Zenon DEF Consistent
<1>3. PICK t \in Nat, z \in Nat : t = TOTAL /\ z = inode.size
  <2>1. UINT \in Nat
    BY FsAssumption
  <2>2. inode.size \in Nat
    BY <1>2, <2>1
  <2> QED BY <2>2, Sizes
<1>4. Sound(inode)
  <2>1. \A i \in 0..(POINTERS_PER_ZONE - 1) : read_block(0)[i] = 0
    BY DEF Consistent
  <2>2. ASSUME NEW j \in 0..(t - 1), ZoneAt(inode, j) # 0, NEW i \in 0..(FS_BLOCK_SIZE - 1)
        PROVE  read_block(ZoneAt(inode, j))[i] # NULL
    <3>1. PICK k \in 1..t : k = j + 1
      BY <1>3
    <3>2. k \in DOMAIN Zones(inode) /\ Zones(inode)[k] = ZoneAt(inode, j)
      BY <1>3, <3>1, ZonesIs
    <3> QED BY <1>2, <2>2, <3>2
  <2> QED BY <1>3, <2>1, <2>2 DEF Sound
<1>5. ASSUME inode.dir, NEW p \in 0..(z - 1)
      PROVE  /\ WordAt(inode, p) # NULL
             /\ p % 2 = 0 => WordAt(inode, p) \in 0..image.s_ninodes
  <2>1. PICK k \in 1..z : k = p + 1 /\ k - 1 = p /\ (p % 2 = 0 => k % 2 = 1)
    BY <1>3
  <2>2. Contents(inode)[k] = WordAt(inode, p)
    <3>1. Contents(inode) = [i \in 1..z |-> WordAt(inode, i - 1)]
      BY <1>3, WordsIs DEF Contents
    <3> QED BY <2>1, <3>1
  <2> QED BY <1>2, <1>3, <1>5, <2>1, <2>2 DEF DIR_ENTRY_SIZE
<1> QED BY <1>1, <1>2, <1>3, <1>4, <1>5 DEF Ok

----------------------------------------------------------------------------
(* get_child_inode_num.                                                    *)

(* The entry at position p has the name; the entries from pos on that do;  *)
(* the number of the first.                                                *)
Entry(dir, name, p) ==
  WordAt(dir, p) # 0 /\ name_equal(entry_name(WordAt(dir, p + 1)), name)
Hits(dir, name, pos) == {k \in Nat : pos + 2 * k + 2 <= dir.size /\ Entry(dir, name, pos + 2 * k)}
First(dir, name, pos) ==
  IF Hits(dir, name, pos) = {} THEN 0 ELSE WordAt(dir, pos + 2 * Min(Hits(dir, name, pos)))

(* One turn of its loop, the rest of the directory from g.                 *)
Look(g, dir, name, pos) ==
  LET words == vfs_read(dir, pos, Min({dir.size - pos, FS_BLOCK_SIZE}))
  IN  IF pos = dir.size \/ words = <<>> THEN 0
      ELSE IF Entries(words, name) # {}
      THEN words[Min(Entries(words, name)) * DIR_ENTRY_SIZE + 1]
      ELSE g[pos + Len(words)]

IsFind(g, dir, name) == g = [pos \in 0..dir.size |-> Look(g, dir, name, pos)]

(* What is read of a directory without holes.                              *)
LEMMA DirRead ==
  ASSUME NEW dir, Ok(dir), dir.dir, NEW pos \in 0..dir.size, NEW n \in Nat, pos + n <= dir.size
  PROVE  vfs_read(dir, pos, n) = Piece(dir, pos, n)
<1>1. PICK z \in Nat : z = dir.size /\ z \in 0..(UINT - 1) /\ pos \in Nat /\ pos <= z
  <2>1. UINT \in Nat
    BY FsAssumption
  <2> QED BY <2>1 DEF Ok
<1>2. pos \in 0..(UINT - 1) /\ n <= z - pos
  BY <1>1, Sizes
<1>3. Rest(dir, pos, n) = n
  <2>1. PICK m \in Nat : m = Rest(dir, pos, n) /\ RestOk(m, z, pos, n)
    BY <1>1, <1>2, RestIs
  <2> QED BY <1>1, <1>2, <2>1 DEF RestOk
<1>4. There(dir, pos, n)
  <2>1. ASSUME NEW i \in 1..n PROVE WordAt(dir, pos + i - 1) # NULL
    <3>1. pos + i - 1 \in 0..(dir.size - 1)
      BY <1>1, <1>2
    <3> QED BY <3>1 DEF Ok
  <2> QED BY <2>1 DEF There
<1> QED BY <1>1, <1>3, <1>4, ReadIs DEF Ok, Got

(* The entries of a piece are those of the directory.                      *)
LEMMA EntriesAre ==
  ASSUME NEW dir, NEW name, NEW pos \in Nat, NEW n \in Nat
  PROVE  Entries(Piece(dir, pos, n), name) = {k \in Nat : 2 * k + 2 <= n /\ Entry(dir, name, pos + 2 * k)}
<1>1. PICK w : w = Piece(dir, pos, n)
  OBVIOUS
<1>2. Len(w) = n /\ \A i \in 1..n : w[i] = WordAt(dir, pos + i - 1)
  BY <1>1, PieceType
<1>3. ASSUME NEW k \in Nat, 2 * k + 2 <= n
      PROVE  w[k * 2 + 1] = WordAt(dir, pos + 2 * k) /\ w[k * 2 + 2] = WordAt(dir, pos + 2 * k + 1)
  <2>1. PICK i \in 1..n, j \in 1..n : i = k * 2 + 1 /\ j = k * 2 + 2
    BY <1>3
  <2>2. pos + i - 1 = pos + 2 * k /\ pos + j - 1 = pos + 2 * k + 1
    BY <2>1
  <2> QED BY <1>2, <2>1, <2>2
<1>4. \A k : k \in 0..((n \div 2) - 1) <=> k \in Nat /\ 2 * k + 2 <= n
  OBVIOUS
<1>5. Entries(w, name) = {k \in 0..((n \div 2) - 1) : /\ w[k * 2 + 1] # 0
                                                      /\ name_equal(entry_name(w[k * 2 + 2]), name)}
  BY <1>2 DEF Entries, DIR_ENTRY_SIZE
<1>6. ASSUME NEW k \in Nat, 2 * k + 2 <= n
      PROVE  (w[k * 2 + 1] # 0 /\ name_equal(entry_name(w[k * 2 + 2]), name)) <=> Entry(dir, name, pos + 2 * k)
  BY <1>3, <1>6 DEF Entry
<1> QED BY <1>1, <1>4, <1>5, <1>6

(* The least of a set is the only one.                                     *)
LEMMA MinOnly ==
  ASSUME NEW S \in SUBSET Nat, NEW m \in S, \A y \in S : m <= y
  PROVE  Min(S) = m
<1>1. PICK x \in S : x = Min(S) /\ \A y \in S : x <= y
  BY MinIs
<1>2. x <= m /\ m <= x /\ x \in Nat /\ m \in Nat
  BY <1>1
<1>3. x = m
  BY <1>2
<1> QED BY <1>1, <1>3

(* The number of the first hit.                                            *)
LEMMA FirstIs ==
  ASSUME NEW dir, NEW name, NEW pos \in Nat, NEW m \in Hits(dir, name, pos),
         \A y \in Hits(dir, name, pos) : m <= y
  PROVE  First(dir, name, pos) = WordAt(dir, pos + 2 * m)
<1>1. PICK S : S = Hits(dir, name, pos)
  OBVIOUS
<1>2. S \in SUBSET Nat
  BY <1>1 DEF Hits
<1>3. Min(S) = m
  BY <1>1, <1>2, MinOnly
<1> QED BY <1>1, <1>3 DEF First

(* g is right behind pos.                                                  *)
Beyond(g, dir, name, pos) == \A p \in (pos + 1)..dir.size : g[p] = First(dir, name, p)

LEMMA LookStep ==
  ASSUME NEW g, NEW dir, NEW name, Ok(dir), dir.dir, NEW pos \in 0..dir.size, Beyond(g, dir, name, pos)
  PROVE  Look(g, dir, name, pos) = First(dir, name, pos)
<1>1. PICK z \in Nat, w \in Nat : z = dir.size /\ w = FS_BLOCK_SIZE /\ w > 0 /\ pos \in Nat /\ pos <= z
  <2>1. dir.size \in Nat
    BY Sizes DEF Ok
  <2> QED BY <2>1, Sizes
<1>2. PICK h \in Nat : w = 2 * h
  <2>1. w % 2 = 0
    BY <1>1, FsAssumption DEF DIR_ENTRY_SIZE
  <2>2. w \div 2 \in Nat /\ w = 2 * (w \div 2)
    BY <2>1
  <2> QED BY <2>2
<1>3. PICK n \in Nat : n = Min({z - pos, w}) /\ (n = z - pos \/ n = w) /\ pos + n <= z
  <2>1. PICK d \in Nat : d = z - pos /\ pos + d = z
    <3>1. z - pos \in Nat /\ pos + (z - pos) = z
      BY <1>1
    <3> QED BY <3>1
  <2>2. PICK n \in Nat : n = IF d <= w THEN d ELSE w
    OBVIOUS
  <2>3. n = Min({d, w})
    BY <2>2, MinOfTwo
  <2>4. pos + n <= z /\ (n = d \/ n = w)
    BY <1>1, <2>1, <2>2
  <2> QED BY <2>1, <2>3, <2>4
<1>4. PICK s : s = Piece(dir, pos, n)
  OBVIOUS
<1>5. vfs_read(dir, pos, n) = s
  <2>1. pos + n <= dir.size
    BY <1>1, <1>3
  <2> QED BY <1>4, <2>1, DirRead
<1>6. Look(g, dir, name, pos) =
        IF pos = z \/ s = <<>> THEN 0
        ELSE IF Entries(s, name) # {} THEN s[Min(Entries(s, name)) * 2 + 1]
        ELSE g[pos + Len(s)]
  BY <1>1, <1>3, <1>5, Zenon DEF Look, DIR_ENTRY_SIZE
<1>7. PICK H : H = Hits(dir, name, pos) /\ H \in SUBSET Nat
  BY DEF Hits
<1>8. \A k \in Nat : k \in H <=> pos + 2 * k + 2 <= z /\ Entry(dir, name, pos + 2 * k)
  BY <1>1, <1>7 DEF Hits
<1>9. PICK E : E = Entries(s, name) /\ E \in SUBSET Nat
               /\ \A k \in Nat : k \in E <=> 2 * k + 2 <= n /\ Entry(dir, name, pos + 2 * k)
  BY <1>1, <1>4, EntriesAre
<1>10. Len(s) = n /\ \A i \in 1..n : s[i] = WordAt(dir, pos + i - 1)
  BY <1>1, <1>4, PieceType
<1>11. CASE pos = z
  <2>1. H = {}
    <3>1. \A k \in Nat : ~(pos + 2 * k + 2 <= z)
      BY <1>1, <1>11
    <3> QED BY <1>7, <1>8, <3>1
  <2>2. Look(g, dir, name, pos) = 0
    BY <1>6, <1>11, Zenon
  <2> QED BY <1>7, <2>1, <2>2 DEF First
<1>12. CASE pos # z /\ E # {}
  <2>1. PICK m \in E : m = Min(E) /\ \A y \in E : m <= y
    BY <1>9, <1>12, MinIs
  <2>2. m \in Nat /\ 2 * m + 2 <= n /\ Entry(dir, name, pos + 2 * m)
    BY <1>9, <2>1
  <2>3. m \in H
    <3>1. pos + 2 * m + 2 <= z
      BY <1>1, <1>3, <2>2
    <3> QED BY <1>8, <2>2, <3>1
  <2>4. ASSUME NEW y \in H PROVE m <= y
    <3>1. y \in Nat /\ Entry(dir, name, pos + 2 * y)
      BY <1>7, <1>8
    <3>2. CASE 2 * y + 2 <= n
      BY <1>9, <2>1, <3>1, <3>2
    <3>3. CASE ~(2 * y + 2 <= n)
      BY <2>2, <3>1, <3>3
    <3> QED BY <3>2, <3>3
  <2>5. First(dir, name, pos) = WordAt(dir, pos + 2 * m)
    BY <1>1, <1>7, <2>3, <2>4, FirstIs
  <2>6. PICK i \in 1..n : i = m * 2 + 1 /\ pos + i - 1 = pos + 2 * m
    BY <1>1, <2>2
  <2>7. s # <<>>
    BY <1>10, <2>6
  <2>8. Look(g, dir, name, pos) = s[i]
    BY <1>6, <1>9, <1>12, <2>1, <2>6, <2>7, Zenon
  <2> QED BY <1>10, <2>5, <2>6, <2>8
<1>13. CASE pos # z /\ E = {}
  <2>1. n > 0
    BY <1>1, <1>3, <1>13
  <2>2. s # <<>>
    BY <1>10, <2>1
  <2>3. PICK e \in Nat : e = pos + n /\ e \in (pos + 1)..z
    BY <1>1, <1>3, <2>1
  <2>4. Look(g, dir, name, pos) = g[e]
    BY <1>6, <1>9, <1>10, <1>13, <2>2, <2>3, Zenon
  <2>5. g[e] = First(dir, name, e)
    BY <1>1, <2>3 DEF Beyond
  <2>6. PICK F : F = Hits(dir, name, e) /\ F \in SUBSET Nat
    BY DEF Hits
  <2>7. \A k \in Nat : k \in F <=> e + 2 * k + 2 <= z /\ Entry(dir, name, e + 2 * k)
    BY <1>1, <2>6 DEF Hits
  <2>8. \A k \in H : k \in Nat /\ pos + 2 * k + 2 <= z /\ Entry(dir, name, pos + 2 * k) /\ 2 * k + 2 > n
    BY <1>7, <1>8, <1>9, <1>13
  <2>9. CASE n = z - pos
    <3>1. H = {}
      <4>1. \A k \in Nat : ~(pos + 2 * k + 2 <= z /\ 2 * k + 2 > n)
        BY <1>1, <2>9
      <4> QED BY <2>8, <4>1
    <3>2. F = {}
      <4>1. \A k \in Nat : ~(e + 2 * k + 2 <= z)
        BY <1>1, <2>3, <2>9
      <4> QED BY <2>6, <2>7, <4>1
    <3> QED BY <1>7, <2>4, <2>5, <2>6, <3>1, <3>2 DEF First
  <2>10. CASE n = w
    <3>1. ASSUME NEW k \in H PROVE k \in Nat /\ k - h \in F
      <4>1. k \in Nat /\ pos + 2 * k + 2 <= z /\ Entry(dir, name, pos + 2 * k) /\ 2 * k + 2 > n
        BY <2>8
      <4>2. PICK j \in Nat : j = k - h /\ e + 2 * j = pos + 2 * k
        <5>1. k - h \in Nat /\ e + 2 * (k - h) = pos + 2 * k
          BY <1>2, <2>3, <2>10, <4>1
        <5> QED BY <5>1
      <4>3. e + 2 * j + 2 <= z /\ Entry(dir, name, e + 2 * j)
        BY <4>1, <4>2
      <4> QED BY <2>7, <4>1, <4>2, <4>3
    <3>2. ASSUME NEW j \in F PROVE j \in Nat /\ j + h \in H /\ e + 2 * j = pos + 2 * (j + h)
      <4>1. j \in Nat /\ e + 2 * j + 2 <= z /\ Entry(dir, name, e + 2 * j)
        BY <2>6, <2>7
      <4>2. PICK k \in Nat : k = j + h /\ e + 2 * j = pos + 2 * k
        BY <1>2, <2>3, <2>10, <4>1
      <4>3. pos + 2 * k + 2 <= z /\ Entry(dir, name, pos + 2 * k)
        BY <4>1, <4>2
      <4> QED BY <1>8, <4>1, <4>2, <4>3
    <3>3. CASE F = {}
      <4>1. H = {}
        BY <3>1, <3>3
      <4> QED BY <1>7, <2>4, <2>5, <2>6, <3>3, <4>1 DEF First
    <3>4. CASE F # {}
      <4>1. PICK j \in F : \A y \in F : j <= y
        BY <2>6, <3>4, Least
      <4>2. First(dir, name, e) = WordAt(dir, e + 2 * j)
        BY <2>6, <4>1, FirstIs
      <4>3. PICK k \in H : k = j + h /\ e + 2 * j = pos + 2 * k
        BY <3>2
      <4>4. ASSUME NEW y \in H PROVE k <= y
        <5>1. y \in Nat /\ j \in Nat /\ y - h \in F
          BY <2>6, <3>1
        <5>2. j <= y - h
          BY <4>1, <5>1
        <5> QED BY <4>3, <5>1, <5>2
      <4>5. First(dir, name, pos) = WordAt(dir, pos + 2 * k)
        BY <1>1, <1>7, <4>4, FirstIs
      <4> QED BY <2>4, <2>5, <4>2, <4>3, <4>5
    <3> QED BY <3>3, <3>4
  <2> QED BY <1>3, <2>9, <2>10
<1> QED BY <1>11, <1>12, <1>13

(* The loop has one outcome: the first entry with the name.                *)
LEMMA FindIs ==
  ASSUME NEW dir, NEW name, Ok(dir), dir.dir
  PROVE  /\ \E g : IsFind(g, dir, name)
         /\ \A g : IsFind(g, dir, name) => g[0] = First(dir, name, 0)
<1>1. PICK z \in Nat : z = dir.size
  <2>1. dir.size \in Nat
    BY Sizes DEF Ok
  <2> QED BY <2>1
<1> DEFINE h == [pos \in 0..z |-> First(dir, name, pos)]
<1>2. IsFind(h, dir, name)
  <2>1. ASSUME NEW pos \in 0..z
        PROVE  h[pos] = Look(h, dir, name, pos)
    <3>1. \A k \in (pos + 1)..z : h[k] = First(dir, name, k)
      OBVIOUS
    <3>2. h[pos] = First(dir, name, pos)
      OBVIOUS
    <3> HIDE DEF h
    <3>3. PICK f : f = h
      OBVIOUS
    <3>4. Beyond(f, dir, name, pos)
      BY <1>1, <3>1, <3>3 DEF Beyond
    <3>5. Look(f, dir, name, pos) = First(dir, name, pos)
      BY <1>1, <3>4, LookStep
    <3> QED BY <3>2, <3>3, <3>5
  <2>2. h = [pos \in 0..z |-> h[pos]]
    OBVIOUS
  <2> HIDE DEF h
  <2> QED BY <1>1, <2>1, <2>2 DEF IsFind
<1>3. ASSUME NEW g, IsFind(g, dir, name)
      PROVE  g[0] = First(dir, name, 0)
  <2>1. \A k \in 0..z : g[k] = Look(g, dir, name, k)
    BY <1>1, <1>3 DEF IsFind
  <2> DEFINE T == {d \in 0..z : g[z - d] # First(dir, name, z - d)}
  <2>2. T = {}
    <3>1. SUFFICES ASSUME T # {} PROVE FALSE
      OBVIOUS
    <3>2. T \in SUBSET Nat
      OBVIOUS
    <3>3. PICK d \in T : \A y \in T : d <= y
      BY <3>1, <3>2, Least
    <3>4. PICK pos \in 0..z : pos = z - d /\ d = z - pos
      <4>1. z - d \in 0..z /\ d = z - (z - d)
        OBVIOUS
      <4> QED BY <4>1
    <3>5. ASSUME NEW k \in (pos + 1)..z
          PROVE  g[k] = First(dir, name, k)
      <4>1. z - k \in 0..z /\ z - k < d /\ z - (z - k) = k
        BY <3>4
      <4>2. z - k \notin T
        BY <3>3, <4>1
      <4> QED BY <4>1, <4>2
    <3>6. Look(g, dir, name, pos) = First(dir, name, pos)
      <4>1. Beyond(g, dir, name, pos)
        BY <1>1, <3>5 DEF Beyond
      <4> QED BY <1>1, <4>1, LookStep
    <3>7. g[pos] = First(dir, name, pos)
      BY <2>1, <3>6
    <3> QED BY <3>3, <3>4, <3>7
  <2>3. z \in 0..z /\ z - z = 0
    OBVIOUS
  <2>4. z \notin T
    BY <2>2
  <2> QED BY <2>3, <2>4
<1> HIDE DEF h
<1> QED BY <1>2, <1>3

(* What get_child_inode_num returns: the number of an inode, or 0.         *)
LEMMA ChildIs ==
  ASSUME NEW dir, NEW name, Ok(dir), image.s_ninodes \in Nat
  PROVE  /\ get_child_inode_num(dir, name) = IF dir.dir THEN First(dir, name, 0) ELSE 0
         /\ get_child_inode_num(dir, name) \in 0..image.s_ninodes
<1>1. CASE ~dir.dir
  <2>1. get_child_inode_num(dir, name) = 0
    BY <1>1, Zenon DEF get_child_inode_num
  <2> QED BY <1>1, <2>1
<1>2. CASE dir.dir
  <2>1. PICK g : g = CHOOSE u : IsFind(u, dir, name)
    OBVIOUS
  <2>2. IsFind(g, dir, name)
    <3>1. \E f : IsFind(f, dir, name)
      BY <1>2, FindIs
    <3> QED BY <2>1, <3>1, Zenon
  <2>3. g[0] = First(dir, name, 0)
    BY <1>2, <2>2, FindIs
  <2>4. get_child_inode_num(dir, name) = g[0]
    BY <1>2, <2>1, Zenon DEF get_child_inode_num, IsFind, Look
  <2>5. PICK z \in Nat, o \in Nat, v \in Nat : z = dir.size /\ o = 0 /\ v = image.s_ninodes
    <3>1. dir.size \in Nat
      BY Sizes DEF Ok
    <3> QED BY <3>1
  <2>6. First(dir, name, o) \in 0..v
    <3>1. PICK H : H = Hits(dir, name, o) /\ H \in SUBSET Nat
      BY DEF Hits
    <3>2. CASE H = {}
      <4>1. First(dir, name, o) = 0
        BY <3>1, <3>2 DEF First
      <4> QED BY <4>1
    <3>3. CASE H # {}
      <4>1. PICK m \in H : \A y \in H : m <= y
        BY <3>1, <3>3, Least
      <4>2. First(dir, name, o) = WordAt(dir, o + 2 * m)
        BY <3>1, <4>1, FirstIs
      <4>3. m \in Nat /\ o + 2 * m + 2 <= z
        BY <2>5, <3>1 DEF Hits
      <4>4. PICK p \in 0..(z - 1) : p = o + 2 * m /\ p % 2 = 0
        BY <2>5, <4>3
      <4>5. WordAt(dir, p) \in 0..image.s_ninodes
        BY <1>2, <2>5, <4>4 DEF Ok
      <4> QED BY <2>5, <4>2, <4>4, <4>5
    <3> QED BY <3>2, <3>3
  <2> QED BY <1>2, <2>3, <2>4, <2>5, <2>6
<1> QED BY <1>1, <1>2 DEF Ok

----------------------------------------------------------------------------
(* The loop of vfs_open.                                                   *)

(* The inode of a number, or none.                                         *)
Inode(n) == IF n = 0 THEN NULL ELSE read_inode(n)

(* One name further, as a number.                                          *)
Down(n, name) ==
  IF n # 0 /\ read_inode(n).dir THEN First(read_inode(n), name, 0) ELSE 0

(* A disk whose inodes are all sound, as a consistent one.                 *)
Healthy ==
  /\ image.s_ninodes \in Nat \ {0}
  /\ \A n \in 1..image.s_ninodes : Ok(read_inode(n))

LEMMA ConsistentHealthy ==
  ASSUME Consistent PROVE Healthy
<1>1. image.s_ninodes \in Nat \ {0}
  BY DEF Consistent
<1> QED BY <1>1, InodeOk DEF Healthy

LEMMA DownIs ==
  ASSUME Healthy, NEW n \in 0..image.s_ninodes, NEW name
  PROVE  Down(n, name) \in 0..image.s_ninodes /\ Descend(Inode(n), name) = Inode(Down(n, name))
<1>1. PICK v \in Nat : v = image.s_ninodes
  BY DEF Healthy
<1>2. CASE n = 0
  <2>1. Down(n, name) = 0 /\ Inode(n) = NULL
    BY <1>2 DEF Down, Inode
  <2>2. Descend(NULL, name) = NULL
    BY Zenon DEF Descend
  <2> QED BY <1>1, <1>2, <2>1, <2>2 DEF Inode
<1>3. CASE n # 0
  <2>1. n \in 1..image.s_ninodes
    BY <1>1, <1>3
  <2>2. PICK dir : dir = read_inode(n) /\ Ok(dir)
    BY <2>1 DEF Healthy
  <2>3. PICK c : /\ c = get_child_inode_num(dir, name) /\ c \in 0..image.s_ninodes
                 /\ c = IF dir.dir THEN First(dir, name, 0) ELSE 0
    BY <1>1, <2>2, ChildIs
  <2>4. Inode(n) = dir /\ Down(n, name) = c /\ dir # NULL
    BY <1>3, <2>2, <2>3 DEF Inode, Down, Ok
  <2>5. Descend(dir, name) = Inode(c)
    BY <2>3, <2>4, Zenon DEF Descend, Inode
  <2> QED BY <2>3, <2>4, <2>5
<1> QED BY <1>2, <1>3

----------------------------------------------------------------------------
(* Recursive functions on 0..n that go one step at a time.                 *)

Run(f, a, step, n) == f[0] = a /\ \A k \in 1..n : f[k] = step[k][f[k - 1]]

LEMMA RunExists ==
  ASSUME NEW S, NEW a \in S, NEW n \in Nat, NEW step \in [1..n -> [S -> S]]
  PROVE  \E f \in [0..n -> S] : Run(f, a, step, n)
<1> DEFINE T == {k \in 0..n : ~\E f \in [0..k -> S] : Run(f, a, step, k)}
<1>1. T \in SUBSET Nat
  OBVIOUS
<1>2. T = {}
  <2>1. SUFFICES ASSUME T # {} PROVE FALSE
    OBVIOUS
  <2>2. PICK k \in T : \A j \in T : k <= j
    BY <1>1, <2>1, Least
  <2>3. k \in Nat /\ k <= n /\ ~\E f \in [0..k -> S] : Run(f, a, step, k)
    OBVIOUS
  <2>4. CASE k = 0
    <3> DEFINE f == [j \in 0..k |-> a]
    <3>1. f \in [0..k -> S] /\ f[0] = a /\ 1..k = {}
      BY <2>3, <2>4
    <3>2. Run(f, a, step, k)
      BY <3>1 DEF Run
    <3> QED BY <2>3, <3>1, <3>2
  <2>5. CASE k # 0
    <3>1. PICK m \in Nat : m = k - 1 /\ m \in 0..n /\ m < k /\ m + 1 = k /\ k \in 1..n
      <4>1. k - 1 \in 0..n /\ k - 1 < k /\ k \in 1..n /\ k - 1 + 1 = k
        BY <2>3, <2>5
      <4> QED BY <4>1
    <3>2. m \notin T
      BY <2>2, <2>3, <3>1
    <3>3. PICK g \in [0..m -> S] : Run(g, a, step, m)
      BY <3>1, <3>2
    <3> DEFINE f == [j \in 0..k |-> IF j = k THEN step[k][g[m]] ELSE g[j]]
    <3>4. f \in [0..k -> S]
      <4>1. ASSUME NEW j \in 0..k PROVE (IF j = k THEN step[k][g[m]] ELSE g[j]) \in S
        <5>1. CASE j = k
          <6>1. g[m] \in S /\ step[k] \in [S -> S]
            BY <3>1
          <6> QED BY <5>1, <6>1
        <5>2. CASE j # k
          <6>1. j \in 0..m
            BY <2>3, <3>1, <5>2
          <6> QED BY <5>2, <6>1
        <5> QED BY <5>1, <5>2
      <4> QED BY <4>1
    <3>5. f[0] = a
      <4>1. 0 \in 0..k /\ 0 # k
        BY <2>3, <2>5
      <4> QED BY <3>3, <4>1 DEF Run
    <3>6. ASSUME NEW j \in 1..k PROVE f[j] = step[j][f[j - 1]]
      <4>1. j \in 0..k /\ j - 1 \in 0..k /\ j - 1 # k
        BY <2>3
      <4>2. CASE j = k
        BY <3>1, <4>1, <4>2
      <4>3. CASE j # k
        <5>1. j \in 1..m
          BY <2>3, <3>1, <4>3
        <5>2. g[j] = step[j][g[j - 1]]
          BY <3>3, <5>1 DEF Run
        <5> QED BY <4>1, <4>3, <5>2
      <4> QED BY <4>2, <4>3
    <3>7. Run(f, a, step, k)
      <4> HIDE DEF f
      <4> QED BY <3>5, <3>6 DEF Run
    <3> QED BY <2>3, <3>4, <3>7
  <2> QED BY <2>4, <2>5
<1>3. n \notin T
  BY <1>2
<1> QED BY <1>3

(* What holds at 0 and at every next number holds up to n.                 *)
Steps(P, n) == 0 \in P /\ \A k \in 1..n : k - 1 \in P => k \in P

LEMMA Climb ==
  ASSUME NEW P, NEW n \in Nat, Steps(P, n)
  PROVE  0..n \subseteq P
<1> DEFINE T == {k \in 0..n : k \notin P}
<1>1. T \in SUBSET Nat
  OBVIOUS
<1>2. T = {}
  <2>1. SUFFICES ASSUME T # {} PROVE FALSE
    OBVIOUS
  <2>2. PICK k \in T : \A j \in T : k <= j
    BY <1>1, <2>1, Least
  <2>3. k \in Nat /\ k <= n /\ k \notin P
    OBVIOUS
  <2>4. k # 0
    BY <2>3 DEF Steps
  <2>5. k \in 1..n /\ k - 1 \in 0..n /\ k - 1 < k
    BY <2>3, <2>4
  <2>6. k - 1 \in P
    BY <2>2, <2>3, <2>5
  <2> QED BY <2>3, <2>5, <2>6 DEF Steps
<1> QED BY <1>2

----------------------------------------------------------------------------
(* split_path.                                                             *)

CELLS == PATH_COMPONENTS * ROW
Blank == [cells |-> [i \in 0..(CELLS - 1) |-> NULL], name_i |-> 0, char_i |-> 0]
State(V) == [cells : [0..(CELLS - 1) -> V], name_i : Nat, char_i : Nat]

(* Both numbers after a character.                                         *)
LEMMA SplitType ==
  ASSUME NEW V, NUL \in V, NEW s \in State(V), NEW c \in V
  PROVE  Split(s, c) \in State(V)
<1>1. PICK a : a = s.name_i * ROW + s.char_i
  OBVIOUS
<1>2. CASE c # "/"
  <2>1. Split(s, c) = [s EXCEPT !.cells[a] = c, !.char_i = @ + 1]
    BY <1>1, <1>2, Zenon DEF Split
  <2>2. Split(s, c) = [cells |-> [s.cells EXCEPT ![a] = c], name_i |-> s.name_i, char_i |-> s.char_i + 1]
    BY <2>1 DEF State
  <2>3. [s.cells EXCEPT ![a] = c] \in [0..(CELLS - 1) -> V]
    BY DEF State
  <2>4. s.name_i \in Nat /\ s.char_i + 1 \in Nat
    BY DEF State
  <2> QED BY <2>2, <2>3, <2>4 DEF State
<1>3. CASE c = "/" /\ s.char_i = 0
  <2>1. Split(s, c) = s
    BY <1>3, Zenon DEF Split
  <2> QED BY <2>1
<1>4. CASE c = "/" /\ s.char_i # 0
  <2>1. Split(s, c) = [s EXCEPT !.cells[a] = NUL, !.name_i = @ + 1, !.char_i = 0]
    BY <1>1, <1>4, Zenon DEF Split
  <2>2. Split(s, c) = [cells |-> [s.cells EXCEPT ![a] = NUL], name_i |-> s.name_i + 1, char_i |-> 0]
    BY <2>1 DEF State
  <2>3. [s.cells EXCEPT ![a] = NUL] \in [0..(CELLS - 1) -> V]
    BY DEF State
  <2>4. s.name_i + 1 \in Nat
    BY DEF State
  <2> QED BY <2>2, <2>3, <2>4 DEF State
<1> QED BY <1>2, <1>3, <1>4

(* g has the state after 0 to n characters.                                *)
IsSplit(g, chars) ==
  g = [k \in 0..Len(chars) |-> IF k = 0 THEN Blank ELSE Split(g[k - 1], chars[k])]

LEMMA SplitExists ==
  ASSUME NEW V, NUL \in V, NULL \in V, NEW chars \in Seq(V)
  PROVE  \E g \in [0..Len(chars) -> State(V)] : IsSplit(g, chars)
<1>1. PICK n \in Nat : n = Len(chars)
  OBVIOUS
<1>2. PICK S : S = State(V)
  OBVIOUS
<1>3. Blank \in S
  BY <1>2 DEF Blank, State
<1> DEFINE step == [k \in 1..n |-> [x \in S |-> Split(x, chars[k])]]
<1>4. step \in [1..n -> [S -> S]]
  <2>1. ASSUME NEW k \in 1..n, NEW x \in S PROVE Split(x, chars[k]) \in S
    <3>1. PICK c \in V : c = chars[k]
      BY <1>1
    <3> QED BY <1>2, <3>1, SplitType
  <2> QED BY <2>1
<1>5. \A k \in 1..n : \A x \in S : step[k][x] = Split(x, chars[k])
  OBVIOUS
<1> HIDE DEF step
<1>6. PICK t : t = step
  OBVIOUS
<1>7. PICK b \in S : b = Blank
  BY <1>3
<1>8. PICK g \in [0..n -> S] : Run(g, b, t, n)
  BY <1>4, <1>6, RunExists
<1>9. ASSUME NEW k \in 0..n PROVE g[k] = IF k = 0 THEN Blank ELSE Split(g[k - 1], chars[k])
  <2>1. CASE k = 0
    BY <1>7, <1>8, <2>1 DEF Run
  <2>2. CASE k # 0
    <3>1. k \in 1..n /\ k - 1 \in 0..n
      BY <2>2
    <3>2. g[k] = t[k][g[k - 1]] /\ g[k - 1] \in S
      BY <1>8, <3>1 DEF Run
    <3> QED BY <1>5, <1>6, <2>2, <3>1, <3>2
  <2> QED BY <2>1, <2>2
<1>10. g = [k \in 0..n |-> g[k]]
  OBVIOUS
<1>11. IsSplit(g, chars)
  BY <1>1, <1>9, <1>10 DEF IsSplit
<1> QED BY <1>1, <1>2, <1>11

(* Every g is of the type, and starts at Blank.                            *)
LEMMA SplitTyped ==
  ASSUME NEW V, NUL \in V, NULL \in V, NEW chars \in Seq(V), NEW g, IsSplit(g, chars)
  PROVE  /\ g \in [0..Len(chars) -> State(V)] /\ g[0] = Blank
         /\ \A k \in 1..Len(chars) : g[k] = Split(g[k - 1], chars[k])
<1>1. PICK n \in Nat : n = Len(chars)
  OBVIOUS
<1>2. DOMAIN g = 0..n /\ g[0] = Blank /\ \A k \in 1..n : g[k] = Split(g[k - 1], chars[k])
  BY <1>1 DEF IsSplit
<1>3. PICK P : P = {k \in 0..n : g[k] \in State(V)}
  OBVIOUS
<1>4. 0 \in P
  <2>1. Blank \in State(V)
    BY DEF Blank, State
  <2> QED BY <1>2, <1>3, <2>1
<1>5. ASSUME NEW k \in 1..n, k - 1 \in P PROVE k \in P
  <2>1. PICK c \in V, x \in State(V) : c = chars[k] /\ x = g[k - 1]
    BY <1>1, <1>3, <1>5
  <2>2. Split(x, c) \in State(V)
    BY SplitType
  <2> QED BY <1>2, <1>3, <2>1, <2>2
<1>6. 0..n \subseteq P
  BY <1>4, <1>5, Climb DEF Steps
<1>7. g = [k \in 0..n |-> g[k]]
  BY <1>1 DEF IsSplit
<1> QED BY <1>1, <1>2, <1>3, <1>6, <1>7

LEMMA SplitPathIs ==
  ASSUME NEW V, NUL \in V, NULL \in V, NEW path, path \o <<"/">> \in Seq(V)
  PROVE  \E g : /\ IsSplit(g, path \o <<"/">>)
                /\ split_path(path) = IF path = <<>> \/ path[1] # "/" THEN <<>>
                                      ELSE Rows(g[Len(path \o <<"/">>)])
<1>1. PICK g : g = CHOOSE u : IsSplit(u, path \o <<"/">>)
  OBVIOUS
<1>2. IsSplit(g, path \o <<"/">>)
  <2>1. PICK chars : chars = path \o <<"/">>
    OBVIOUS
  <2>2. \E f : IsSplit(f, chars)
    BY <2>1, SplitExists
  <2>3. \E f : IsSplit(f, path \o <<"/">>)
    BY <2>1, <2>2, Zenon
  <2> QED BY <1>1, <2>3, Zenon
<1>3. split_path(path) = IF path = <<>> \/ path[1] # "/" THEN <<>> ELSE Rows(g[Len(path \o <<"/">>)])
  <2>1. CASE path = <<>> \/ path[1] # "/"
    BY <2>1, Zenon DEF split_path
  <2>2. CASE ~(path = <<>> \/ path[1] # "/")
    <3>1. split_path(path) = Rows(g[Len(path \o <<"/">>)])
      BY <1>1, <2>2, Zenon DEF split_path, Blank, IsSplit, CELLS
    <3> QED BY <2>2, <3>1, Zenon
  <2> QED BY <2>1, <2>2
<1> QED BY <1>2, <1>3, Zenon

----------------------------------------------------------------------------
(* Walk.                                                                   *)

IsWalk(g, names) ==
  g = [k \in 0..Len(names) |->
         IF k = 0 THEN read_inode(ROOT_INODE) ELSE Descend(g[k - 1], names[k])]

(* The numbers of the inodes on the way.                                   *)
Way(r, names) == r[0] = ROOT_INODE /\ \A k \in 1..Len(names) : r[k] = Down(r[k - 1], names[k])

LEMMA WayExists ==
  ASSUME Healthy, NEW names, Len(names) \in Nat
  PROVE  \E r \in [0..Len(names) -> 0..image.s_ninodes] : Way(r, names)
<1>1. PICK n \in Nat, v \in Nat : n = Len(names) /\ v = image.s_ninodes /\ v > 0
  BY DEF Healthy
<1>2. PICK S : S = 0..v
  OBVIOUS
<1>3. PICK b \in S : b = ROOT_INODE
  BY <1>1, <1>2 DEF ROOT_INODE
<1> DEFINE step == [k \in 1..n |-> [x \in S |-> Down(x, names[k])]]
<1>4. step \in [1..n -> [S -> S]]
  <2>1. ASSUME NEW k \in 1..n, NEW x \in S PROVE Down(x, names[k]) \in S
    <3>1. PICK name : name = names[k]
      OBVIOUS
    <3> QED BY <1>1, <1>2, <3>1, DownIs
  <2> QED BY <2>1
<1>5. \A k \in 1..n : \A x \in S : step[k][x] = Down(x, names[k])
  OBVIOUS
<1> HIDE DEF step
<1>6. PICK t : t = step
  OBVIOUS
<1>7. PICK r \in [0..n -> S] : Run(r, b, t, n)
  BY <1>4, <1>6, RunExists
<1>8. ASSUME NEW k \in 1..n PROVE r[k] = Down(r[k - 1], names[k])
  <2>1. r[k] = t[k][r[k - 1]] /\ r[k - 1] \in S
    BY <1>7 DEF Run
  <2> QED BY <1>5, <1>6, <2>1
<1>9. Way(r, names)
  BY <1>1, <1>3, <1>7, <1>8 DEF Way, Run
<1> QED BY <1>1, <1>2, <1>9

(* One step of the loop.                                                   *)
LEMMA WalkStep ==
  ASSUME Healthy, NEW names, Len(names) \in Nat,
         NEW r \in [0..Len(names) -> 0..image.s_ninodes], Way(r, names), NEW k \in 1..Len(names)
  PROVE  Inode(r[k]) = Descend(Inode(r[k - 1]), names[k])
<1>1. PICK x \in 0..image.s_ninodes, name \in {names[k]} : x = r[k - 1] /\ name = names[k]
  OBVIOUS
<1>2. r[k] = Down(x, name)
  BY <1>1 DEF Way
<1> QED BY <1>1, <1>2, DownIs

LEMMA WalkIs ==
  ASSUME Healthy, NEW path, NEW names, names = split_path(path), Len(names) \in Nat,
         NEW r \in [0..Len(names) -> 0..image.s_ninodes], Way(r, names)
  PROVE  Walk(path) = Inode(r[Len(names)])
<1>1. PICK n \in Nat : n = Len(names)
  OBVIOUS
<1>2. Inode(r[0]) = read_inode(ROOT_INODE)
  BY DEF Way, Inode, ROOT_INODE
<1>3. ASSUME NEW k \in 1..n PROVE Inode(r[k]) = Descend(Inode(r[k - 1]), names[k])
  BY <1>1, WalkStep
<1> DEFINE h == [k \in 0..n |-> Inode(r[k])]
<1>4. IsWalk(h, names)
  <2>1. ASSUME NEW k \in 0..n
        PROVE  h[k] = IF k = 0 THEN read_inode(ROOT_INODE) ELSE Descend(h[k - 1], names[k])
    <3>1. CASE k = 0
      BY <1>2, <3>1
    <3>2. CASE k # 0
      <4>1. k \in 1..n /\ k - 1 \in 0..n
        BY <3>2
      <4>2. h[k] = Inode(r[k]) /\ h[k - 1] = Inode(r[k - 1])
        BY <4>1
      <4> HIDE DEF h
      <4> QED BY <1>3, <3>2, <4>1, <4>2
    <3> QED BY <3>1, <3>2
  <2>2. h = [k \in 0..n |-> h[k]]
    OBVIOUS
  <2> HIDE DEF h
  <2> QED BY <1>1, <2>1, <2>2 DEF IsWalk
<1> HIDE DEF h
<1>5. PICK g : g = CHOOSE u : IsWalk(u, names)
  OBVIOUS
<1>6. IsWalk(g, names)
  BY <1>4, <1>5, Zenon
<1>7. g[0] = read_inode(ROOT_INODE) /\ \A k \in 1..n : g[k] = Descend(g[k - 1], names[k])
  BY <1>1, <1>6 DEF IsWalk
<1>8. PICK P : P = {k \in 0..n : g[k] = Inode(r[k])}
  OBVIOUS
<1>9. 0 \in P
  BY <1>2, <1>7, <1>8
<1>10. ASSUME NEW k \in 1..n, k - 1 \in P PROVE k \in P
  BY <1>3, <1>7, <1>8, <1>10
<1>11. n \in P
  <2>1. 0..n \subseteq P
    BY <1>9, <1>10, Climb DEF Steps
  <2> QED BY <2>1
<1>12. Walk(path) = g[n]
  BY <1>1, <1>5, Zenon DEF Walk, IsWalk
<1> QED BY <1>1, <1>8, <1>11, <1>12

(* A path leads to an inode of the disk, or to none.                       *)
LEMMA Wherever ==
  ASSUME Healthy, NEW path \in Path
  PROVE  \E n \in 0..image.s_ninodes : Walk(path) = Inode(n)
<1>1. PICK S : path \in Seq(S)
  BY FsAssumption
<1>2. PICK V : V = S \cup {"/", NUL, NULL}
  OBVIOUS
<1>3. PICK chars : chars = path \o <<"/">>
  OBVIOUS
<1>4. chars \in Seq(V)
  <2>1. path \in Seq(V) /\ <<"/">> \in Seq(V)
    BY <1>1, <1>2
  <2> QED BY <1>3, <2>1, ConcatProperties
<1>5. PICK g : /\ IsSplit(g, chars)
               /\ split_path(path) = IF path = <<>> \/ path[1] # "/" THEN <<>> ELSE Rows(g[Len(chars)])
  BY <1>2, <1>3, <1>4, SplitPathIs
<1>6. g \in [0..Len(chars) -> State(V)]
  BY <1>2, <1>4, <1>5, SplitTyped
<1>7. PICK s \in State(V) : s = g[Len(chars)]
  <2>1. Len(chars) \in 0..Len(chars)
    BY <1>4
  <2> QED BY <1>6, <2>1
<1>8. PICK names : names = split_path(path) /\ (names = <<>> \/ names = Rows(s))
  BY <1>5, <1>7, Zenon
<1>9. Len(names) \in Nat
  <2>1. Len(Rows(s)) \in Nat
    BY DEF Rows, State
  <2> QED BY <1>8, <2>1
<1>10. PICK r \in [0..Len(names) -> 0..image.s_ninodes] : Way(r, names)
  BY <1>9, WayExists
<1>11. Walk(path) = Inode(r[Len(names)])
  BY <1>8, <1>9, <1>10, WalkIs
<1>12. r[Len(names)] \in 0..image.s_ninodes
  BY <1>9
<1> QED BY <1>11, <1>12

----------------------------------------------------------------------------
(* ReadsReturnTheFile.                                                     *)

(* What it says of an inode, a call and an outcome.                        *)
Right(inode, l, o) ==
  LET behind == l.offset > inode.size
      end == IF l.call = "read" THEN l.offset + l.count ELSE Min({l.offset + PAGE_SIZE, inode.size})
      words == SubSeq(Words(inode, end), l.offset + 1, end)
      fits == (behind \/ end <= inode.size) /\ \A i \in DOMAIN words : words[i] # NULL
  IN  /\ o.ok = fits
      /\ fits => /\ SubSeq(o.words, 1, Len(words)) = words
                 /\ \A i \in (Len(words) + 1)..Len(o.words) : o.words[i] = Zero

(* The same with the words of a piece.                                     *)
Fits(inode, a, n) == (a > inode.size \/ a + n <= inode.size) /\ There(inode, a, n)
Exact(inode, a, n, o) ==
  /\ o.ok = Fits(inode, a, n)
  /\ Fits(inode, a, n) => /\ SubSeq(o.words, 1, n) = Piece(inode, a, n)
                          /\ \A i \in (n + 1)..Len(o.words) : o.words[i] = Zero

LEMMA PieceIs ==
  ASSUME NEW inode, NEW a \in Nat, NEW n \in Nat
  PROVE  SubSeq(Words(inode, a + n), a + 1, a + n) = Piece(inode, a, n)
<1>1. PICK e \in Nat : e = a + n
  OBVIOUS
<1>2. PICK w : w = Words(inode, e) /\ w = [i \in 1..e |-> WordAt(inode, i - 1)]
  BY WordsIs
<1>3. SubSeq(w, a + 1, e) = [i \in 1..n |-> w[i + (a + 1) - 1]]
  <2>1. e - (a + 1) + 1 = n /\ 1..(e - (a + 1) + 1) = 1..n
    BY <1>1
  <2>2. SubSeq(w, a + 1, e) = [i \in 1..(1 + e - (a + 1)) |-> w[i + (a + 1) - 1]]
    BY <1>1
  <2> QED BY <1>1, <2>1, <2>2
<1>4. ASSUME NEW i \in 1..n PROVE w[i + (a + 1) - 1] = WordAt(inode, a + i - 1)
  <2>1. PICK k \in 1..e : k = i + (a + 1) - 1 /\ k - 1 = a + i - 1
    BY <1>1
  <2> QED BY <1>2, <2>1
<1> QED BY <1>1, <1>2, <1>3, <1>4 DEF Piece

LEMMA RightIs ==
  ASSUME NEW inode, NEW l, NEW o, NEW a \in Nat, NEW n \in Nat, l.offset = a,
         a + n = IF l.call = "read" THEN l.offset + l.count ELSE Min({l.offset + PAGE_SIZE, inode.size}),
         Exact(inode, a, n, o)
  PROVE  Right(inode, l, o)
<1>1. PICK e : e = a + n
  OBVIOUS
<1>2. PICK p : p = Piece(inode, a, n)
  OBVIOUS
<1>3. p = SubSeq(Words(inode, e), l.offset + 1, e)
  BY <1>1, <1>2, PieceIs
<1>4. Len(p) = n /\ DOMAIN p = 1..n /\ \A i \in 1..n : p[i] = WordAt(inode, a + i - 1)
  BY <1>2, PieceType
<1>5. Fits(inode, a, n) <=> (l.offset > inode.size \/ e <= inode.size) /\ \A i \in DOMAIN p : p[i] # NULL
  BY <1>1, <1>4 DEF Fits, There
<1>6. PICK fits : fits = Fits(inode, a, n)
  OBVIOUS
<1>7. fits = ((l.offset > inode.size \/ e <= inode.size) /\ \A i \in DOMAIN p : p[i] # NULL)
  BY <1>5, <1>6, Zenon DEF Fits
<1>8. o.ok = fits /\ (fits => /\ SubSeq(o.words, 1, Len(p)) = p
                              /\ \A i \in (Len(p) + 1)..Len(o.words) : o.words[i] = Zero)
  BY <1>2, <1>4, <1>6, Zenon DEF Exact
<1>9. e = IF l.call = "read" THEN l.offset + l.count ELSE Min({l.offset + PAGE_SIZE, inode.size})
  BY <1>1
<1> QED BY <1>7, <1>8, <1>9, <1>3, Zenon DEF Right

(* No zone reaches the place where numbers wrap.                           *)
LEMMA NothingThere ==
  ASSUME NEW inode PROVE WordAt(inode, UINT) = NULL
<1>1. PICK w \in Nat, t \in Nat, u \in Nat : w = FS_BLOCK_SIZE /\ w > 0 /\ t = TOTAL /\ u = UINT
                                             /\ ~(u < w * t)
  <2>1. PICK x \in Nat : x = FS_BLOCK_SIZE * TOTAL
    BY Sizes
  <2>2. UINT \in Nat /\ ~(UINT < x)
    BY <2>1, Sizes
  <2> QED BY <2>1, <2>2, Sizes
<1>2. ~(u \div w < t)
  BY <1>1, QuotientBelow
<1> QED BY <1>1, <1>2 DEF WordAt

(* A read of n words that gets fewer, or none.                             *)
LEMMA GotLen ==
  ASSUME NEW inode, NEW a \in Nat, NEW n \in Nat, NEW m \in Nat, m <= n
  PROVE  Len(Got(inode, a, m)) = n <=> m = n /\ There(inode, a, n)
<1>1. Len(Piece(inode, a, m)) = m
  BY PieceType
<1>2. CASE There(inode, a, m)
  BY <1>1, <1>2 DEF Got
<1>3. CASE ~There(inode, a, m)
  <2>1. m # 0
    BY <1>3, PieceNone
  <2>2. Len(Got(inode, a, m)) = 0
    BY <1>3 DEF Got
  <2> QED BY <1>3, <2>1, <2>2
<1> QED BY <1>2, <1>3

(* What read_elf gets.                                                     *)
LEMMA ReadRight ==
  ASSUME NEW inode, Ok(inode), NEW a \in 0..(UINT - 1), NEW n \in Nat, NEW o,
         o = IF Len(vfs_read(inode, a, n)) = n THEN Success(vfs_read(inode, a, n)) ELSE Failed
  PROVE  Exact(inode, a, n, o)
<1>1. PICK u \in Nat, z \in Nat : u = UINT /\ z = inode.size /\ z < u /\ a < u /\ a \in Nat /\ u > 0
  <2>1. UINT \in Nat /\ UINT > 0
    BY Sizes
  <2>2. inode.size \in Nat /\ inode.size < UINT /\ a < UINT /\ a \in Nat
    BY <2>1 DEF Ok
  <2> QED BY <2>1, <2>2
<1>2. inode.size \in 0..(UINT - 1) /\ Sound(inode)
  BY DEF Ok
<1>3. PICK m \in Nat : m = Rest(inode, a, n) /\ RestOk(m, z, a, n)
  BY <1>1, <1>2, RestIs
<1>4. m <= n
  BY <1>3 DEF RestOk
<1>5. /\ a <= z => (n <= z - a => m = n) /\ (n > z - a => m = z - a)
      /\ a > z => (n <= z + u - a => m = n) /\ (n > z + u - a => m < n)
  BY <1>1, <1>3 DEF RestOk
<1>6. PICK s : s = vfs_read(inode, a, n) /\ s = Got(inode, a, m)
  BY <1>1, <1>2, <1>3, ReadIs
<1>7. Len(s) = n <=> m = n /\ There(inode, a, n)
  <2>1. Len(Got(inode, a, m)) = n <=> m = n /\ There(inode, a, n)
    BY <1>1, <1>4, GotLen
  <2> QED BY <1>6, <2>1
<1>8. Fits(inode, a, n) <=> m = n /\ There(inode, a, n)
  <2>1. CASE a <= z
    <3>1. m = n <=> a + n <= z
      BY <1>1, <1>5, <2>1
    <3> QED BY <1>1, <2>1, <3>1 DEF Fits
  <2>2. CASE a > z /\ n <= z + u - a
    BY <1>1, <1>5, <2>2 DEF Fits
  <2>3. CASE a > z /\ n > z + u - a
    <3>1. PICK i \in 1..n : i = u - a + 1 /\ a + i - 1 = UINT
      <4>1. u - a + 1 \in 1..n /\ a + (u - a + 1) - 1 = u
        BY <1>1, <2>3
      <4> QED BY <1>1, <4>1
    <3>2. ~There(inode, a, n)
      BY <3>1, NothingThere DEF There
    <3> QED BY <3>2 DEF Fits
  <2> QED BY <1>1, <2>1, <2>2, <2>3
<1>9. CASE Fits(inode, a, n)
  <2>1. m = n /\ There(inode, a, n) /\ Len(s) = n
    BY <1>7, <1>8, <1>9
  <2>2. s = Piece(inode, a, n) /\ o = Success(s)
    BY <1>6, <2>1, Zenon DEF Got
  <2>3. o.ok = TRUE /\ o.words = s
    BY <2>2 DEF Success
  <2>4. PICK S : s \in Seq(S)
    BY <1>1, <2>2, PieceType
  <2>5. SubSeq(s, 1, n) = s
    BY <2>1, <2>4
  <2>6. \A i \in (n + 1)..Len(s) : s[i] = Zero
    BY <2>1
  <2>7. o.ok = Fits(inode, a, n)
    BY <1>9, <2>3, Zenon DEF Fits, There
  <2> QED BY <2>2, <2>3, <2>5, <2>6, <2>7 DEF Exact
<1>10. CASE ~Fits(inode, a, n)
  <2>1. o = Failed
    BY <1>6, <1>7, <1>8, <1>10, Zenon
  <2>2. o.ok = FALSE
    BY <2>1 DEF Failed
  <2>3. o.ok = Fits(inode, a, n)
    BY <1>10, <2>2, Zenon DEF Fits, There
  <2> QED BY <1>10, <2>3 DEF Exact
<1> QED BY <1>9, <1>10

(* What the page fault handler gets.                                       *)
LEMMA PageRight ==
  ASSUME NEW inode, Ok(inode), NEW a \in 0..(UINT - 1), a < inode.size, NEW n \in Nat, n <= PAGE_SIZE,
         a + n <= inode.size, NEW s, s = vfs_read(inode, a, n), NEW o,
         o = IF Len(s) # n THEN Failed
             ELSE Success([i \in 1..PAGE_SIZE |-> IF i <= n THEN s[i] ELSE Zero])
  PROVE  Exact(inode, a, n, o)
<1>1. a \in Nat /\ PAGE_SIZE \in Nat
  BY Sizes, FsAssumption
<1>2. PICK r : r = IF Len(s) = n THEN Success(s) ELSE Failed
  OBVIOUS
<1>3. Exact(inode, a, n, r)
  BY <1>2, ReadRight
<1>4. CASE Len(s) = n
  <2>1. r = Success(s)
    BY <1>2, <1>4
  <2>2. r.ok = TRUE /\ r.words = s
    BY <2>1 DEF Success
  <2>3. PICK w : w = [i \in 1..PAGE_SIZE |-> IF i <= n THEN s[i] ELSE Zero]
    OBVIOUS
  <2>4. o = Success(w)
    BY <1>4, <2>3, Zenon
  <2>5. o.ok = TRUE /\ o.words = w
    BY <2>4 DEF Success
  <2>6. o.ok = Fits(inode, a, n) /\ Fits(inode, a, n)
    BY <1>3, <2>2, <2>5, Zenon DEF Exact
  <2>7. SubSeq(s, 1, n) = Piece(inode, a, n)
    BY <1>3, <2>2, <2>6, Zenon DEF Exact
  <2>8. SubSeq(w, 1, n) = SubSeq(s, 1, n)
    <3>1. \A i \in 1..n : w[i] = s[i]
      BY <1>1, <2>3
    <3>2. SubSeq(w, 1, n) = [i \in 1..n |-> w[i]] /\ SubSeq(s, 1, n) = [i \in 1..n |-> s[i]]
      OBVIOUS
    <3> QED BY <3>1, <3>2
  <2>9. ASSUME NEW i \in (n + 1)..Len(w) PROVE w[i] = Zero
    <3>1. Len(w) = PAGE_SIZE
      BY <1>1, <2>3
    <3>2. i \in 1..PAGE_SIZE /\ ~(i <= n)
      BY <1>1, <3>1
    <3> QED BY <2>3, <3>2
  <2> QED BY <2>5, <2>6, <2>7, <2>8, <2>9, Zenon DEF Exact
<1>5. CASE Len(s) # n
  <2>1. r = Failed /\ o = Failed
    BY <1>2, <1>5, Zenon
  <2> QED BY <1>3, <2>1
<1> QED BY <1>4, <1>5

(* A disk that does not change keeps its words.                            *)
LEMMA SameWords ==
  ASSUME image' = image, NEW inode
  PROVE  /\ \A j : ZoneAt(inode, j)' = ZoneAt(inode, j)
         /\ \A p : WordAt(inode, p)' = WordAt(inode, p)
<1>1. ASSUME NEW z PROVE Leaves(z)' = Leaves(z)
  BY DEF Leaves, read_block
<1>2. ASSUME NEW j PROVE ZoneAt(inode, j)' = ZoneAt(inode, j)
  <2>1. PICK d, e, k, m, n :
           /\ d = (j < DIRECT_ZONES) /\ e = (j - DIRECT_ZONES < POINTERS_PER_ZONE) /\ k = j - DIRECT_ZONES + 1
           /\ m = (j - DIRECT_ZONES - POINTERS_PER_ZONE) \div POINTERS_PER_ZONE + 1
           /\ n = ((j - DIRECT_ZONES - POINTERS_PER_ZONE) % POINTERS_PER_ZONE) + 1
    OBVIOUS
  <2>2. PICK y, z : y = inode.zone[DIRECT_ZONES] /\ z = inode.zone[DIRECT_ZONES + 1]
    OBVIOUS
  <2>3. PICK x : x = Leaves(z)[m] /\ x = Leaves(z)'[m]
    BY <1>1
  <2>4. ZoneAt(inode, j) = IF d THEN inode.zone[j] ELSE IF e THEN Leaves(y)[k] ELSE Leaves(x)[n]
    BY <2>1, <2>2, <2>3, Zenon DEF ZoneAt
  <2>5. ZoneAt(inode, j)' = IF d THEN inode.zone[j] ELSE IF e THEN Leaves(y)'[k] ELSE Leaves(x)'[n]
    <3>1. CASE d
      BY <2>1, <3>1, Zenon DEF ZoneAt
    <3>2. CASE ~d /\ e
      <4>1. ZoneAt(inode, j)' = Leaves(y)'[k]
        BY <2>1, <2>2, <3>2, Zenon DEF ZoneAt, Leaves, read_block
      <4> QED BY <3>2, <4>1, Zenon
    <3>3. CASE ~d /\ ~e
      <4>1. ZoneAt(inode, j)' = Leaves(x)'[n]
        <5>1. ZoneAt(inode, j)' =
                (Leaves(Leaves(inode.zone[DIRECT_ZONES + 1])
                          [(j - DIRECT_ZONES - POINTERS_PER_ZONE) \div POINTERS_PER_ZONE + 1]))'[n]
          BY <2>1, <3>3, Zenon DEF ZoneAt, Leaves, read_block
        <5>2. x = Leaves(inode.zone[DIRECT_ZONES + 1])'
                    [(j - DIRECT_ZONES - POINTERS_PER_ZONE) \div POINTERS_PER_ZONE + 1]
          BY <2>1, <2>2, <2>3
        <5>3. (Leaves(Leaves(inode.zone[DIRECT_ZONES + 1])
                        [(j - DIRECT_ZONES - POINTERS_PER_ZONE) \div POINTERS_PER_ZONE + 1]))' = Leaves(x)'
          BY <5>2 DEF Leaves, read_block
        <5> QED BY <5>1, <5>3, Zenon
      <4> QED BY <3>3, <4>1, Zenon
    <3> QED BY <3>1, <3>2, <3>3
  <2> QED BY <1>1, <2>4, <2>5
<1>3. ASSUME NEW p PROVE WordAt(inode, p)' = WordAt(inode, p)
  <2>1. PICK q, r : q = p \div FS_BLOCK_SIZE /\ r = p % FS_BLOCK_SIZE
    OBVIOUS
  <2>2. PICK z : z = ZoneAt(inode, q) /\ z = ZoneAt(inode, q)'
    BY <1>2
  <2>3. WordAt(inode, p) = IF q < TOTAL /\ z # 0 THEN read_block(z)[r] ELSE NULL
    BY <2>1, <2>2, Zenon DEF WordAt
  <2>4. WordAt(inode, p)' = IF q < TOTAL /\ z # 0 THEN image'.block[z][r] ELSE NULL
    BY <2>1, <2>2, Zenon DEF WordAt, read_block
  <2> QED BY <2>3, <2>4 DEF read_block
<1> QED BY <1>2, <1>3

(* So its inodes stay as they are.                                         *)
LEMMA SameOk ==
  ASSUME image' = image, NEW inode, Ok(inode)
  PROVE  Ok(inode)'
<1>1. Sound(inode)'
  <2>1. \A i \in 0..(POINTERS_PER_ZONE - 1) : image'.block[0][i] = 0
    BY DEF Ok, Sound, read_block
  <2>2. ASSUME NEW j \in 0..(TOTAL - 1), ZoneAt(inode, j)' # 0, NEW i \in 0..(FS_BLOCK_SIZE - 1)
        PROVE  image'.block[ZoneAt(inode, j)'][i] # NULL
    <3>1. PICK z : z = ZoneAt(inode, j) /\ z = ZoneAt(inode, j)'
      BY SameWords
    <3> QED BY <2>2, <3>1 DEF Ok, Sound, read_block
  <2> QED BY <2>1, <2>2 DEF Sound, read_block
<1>2. \A p : WordAt(inode, p)' = WordAt(inode, p)
  BY SameWords
<1> QED BY <1>1, <1>2 DEF Ok

(* The open file is an inode of the disk.                                  *)
Opened == \E n \in 0..image.s_ninodes : f_inode = Inode(n)

LEMMA InodeIs ==
  ASSUME Healthy, Opened, f_inode # NULL
  PROVE  Ok(f_inode)
<1>1. PICK n \in 0..image.s_ninodes : f_inode = Inode(n)
  BY DEF Opened
<1>2. image.s_ninodes \in Nat /\ n # 0
  BY <1>1 DEF Inode, Healthy
<1>3. n \in 1..image.s_ninodes /\ f_inode = read_inode(n)
  BY <1>1, <1>2 DEF Inode
<1> QED BY <1>3 DEF Healthy

LEMMA SameDisk ==
  ASSUME image' = image
  PROVE  /\ Healthy => Healthy'
         /\ \A n : Inode(n)' = Inode(n)
<1>1. ASSUME NEW n PROVE read_inode(n)' = read_inode(n)
  BY DEF read_inode, read_block
<1>2. ASSUME Healthy PROVE Healthy'
  <2>1. ASSUME NEW n \in 1..image.s_ninodes PROVE Ok(read_inode(n))'
    <3>1. PICK inode : inode = read_inode(n) /\ inode = read_inode(n)'
      BY <1>1
    <3>2. Ok(inode)
      BY <1>2, <3>1 DEF Healthy
    <3>3. Ok(inode)'
      BY <3>2, SameOk
    <3> QED BY <3>1, <3>3, Zenon DEF Ok, Sound, WordAt, ZoneAt, read_block
  <2> QED BY <1>2, <2>1 DEF Healthy
<1>3. \A n : Inode(n)' = Inode(n)
  BY <1>1 DEF Inode
<1> QED BY <1>2, <1>3

(* The last call was for n words from a on.                                *)
Asked(a, n) ==
  /\ last.offset = a
  /\ a + n = IF last.call = "read" THEN last.offset + last.count
             ELSE Min({last.offset + PAGE_SIZE, f_inode.size})

(* The last read or page got the words that it asked for, or failed.       *)
Exactly ==
  last.call \in {"read", "page"} => \E a, n \in Nat : Asked(a, n) /\ Exact(f_inode, a, n, out)

ReadInv == Healthy /\ Opened /\ Exactly

LEMMA ExactRight ==
  ASSUME Exactly PROVE ReadsReturnTheFile
<1>1. CASE last.call \notin {"read", "page"}
  BY <1>1, Zenon DEF ReadsReturnTheFile
<1>2. CASE last.call \in {"read", "page"}
  <2>1. PICK a \in Nat, n \in Nat : Asked(a, n) /\ Exact(f_inode, a, n, out)
    BY <1>2 DEF Exactly
  <2>2. PICK inode, l, o : inode = f_inode /\ l = last /\ o = out
    OBVIOUS
  <2>3. Exact(inode, a, n, o)
    BY <2>1, <2>2
  <2>4. Right(inode, l, o)
    <3>1. l.offset = a
      BY <2>1, <2>2 DEF Asked
    <3>2. a + n = IF l.call = "read" THEN l.offset + l.count ELSE Min({l.offset + PAGE_SIZE, inode.size})
      BY <2>1, <2>2, Zenon DEF Asked
    <3> QED BY <2>3, <3>1, <3>2, RightIs
  <2>5. Right(f_inode, last, out)
    BY <2>2, <2>4
  <2> QED BY <2>5, Zenon DEF ReadsReturnTheFile, Right
<1> QED BY <1>1, <1>2

(* A call that gets what it asked for, and leaves the disk and the file.   *)
LEMMA ExactNext ==
  ASSUME image' = image, f_inode' = f_inode, NEW a \in Nat, NEW n \in Nat,
         Asked(a, n)', NEW o, out' = o, Exact(f_inode, a, n, o)
  PROVE  Exactly'
<1>1. PICK inode : inode = f_inode /\ inode = f_inode'
  OBVIOUS
<1>2. Exact(inode, a, n, o)
  BY <1>1
<1>3. Exact(inode, a, n, o)'
  <2>1. \A p : WordAt(inode, p)' = WordAt(inode, p)
    BY SameWords
  <2>2. There(inode, a, n)' <=> There(inode, a, n)
    BY <2>1 DEF There
  <2>3. Piece(inode, a, n)' = Piece(inode, a, n)
    BY <2>1 DEF Piece
  <2>4. Fits(inode, a, n)' = Fits(inode, a, n)
    BY <2>2, Zenon DEF Fits, There
  <2> QED BY <1>2, <2>3, <2>4 DEF Exact
<1>4. Exact(f_inode, a, n, out)'
  BY <1>1, <1>3, Zenon DEF Exact, Fits, There, Piece
<1> QED BY <1>4 DEF Exactly

(* Only the two calls that read leave something to show.                   *)
LEMMA NoRead ==
  ASSUME last'.call \notin {"read", "page"}
  PROVE  Exactly'
BY DEF Exactly

LEMMA ReadStep ==
  ASSUME ReadInv, [Next]_vars
  PROVE  ReadInv'
<1> USE DEF ReadInv
<1>1. image' = image
  BY DEF Next, vfs_open, read_elf, page_in, ReadFails, vfs_close, vars
<1>2. Healthy'
  BY <1>1, SameDisk
<1>3. \A n : Inode(n)' = Inode(n)
  BY <1>1, SameDisk
<1>4. f_inode' = f_inode => Opened'
  BY <1>1, <1>3 DEF Opened
<1>5. ASSUME NEW p \in Path, vfs_open(p) PROVE Opened' /\ Exactly'
  <2>1. PICK n \in 0..image.s_ninodes : Walk(p) = Inode(n)
    BY Wherever
  <2>2. f_inode' = Inode(n)
    BY <1>5, <2>1 DEF vfs_open
  <2>3. Opened'
    BY <1>1, <1>3, <2>2 DEF Opened
  <2>4. last'.call = "open"
    BY <1>5 DEF vfs_open
  <2> QED BY <2>3, <2>4, NoRead
<1>6. ASSUME NEW a \in Offset, NEW n \in Count, read_elf(a, n) PROVE Exactly'
  <2>1. a \in 0..(UINT - 1) /\ n \in 0..(UINT - 1)
    BY FsAssumption
  <2>2. a \in Nat /\ n \in Nat
    BY <2>1, Sizes
  <2>3. PICK inode : inode = f_inode /\ Ok(inode)
    BY <1>6, InodeIs DEF read_elf
  <2>4. PICK o : o = IF Len(vfs_read(inode, a, n)) = n THEN Success(vfs_read(inode, a, n)) ELSE Failed
    OBVIOUS
  <2>5. out' = o
    BY <1>6, <2>3, <2>4, Zenon DEF read_elf
  <2>6. Exact(inode, a, n, o)
    BY <2>1, <2>2, <2>3, <2>4, ReadRight
  <2>7. f_inode' = f_inode /\ last' = [call |-> "read", offset |-> a, count |-> n]
    BY <1>6 DEF read_elf
  <2>8. Asked(a, n)'
    BY <2>7 DEF Asked
  <2> QED BY <1>1, <2>2, <2>3, <2>5, <2>6, <2>7, <2>8, ExactNext
<1>7. ASSUME NEW a \in Offset, page_in(a) PROVE Exactly'
  <2>1. a \in 0..(UINT - 1) /\ PAGE_SIZE \in Nat
    BY FsAssumption
  <2>2. a \in Nat
    BY <2>1, Sizes
  <2>3. PICK inode : inode = f_inode /\ Ok(inode)
    BY <1>7, InodeIs DEF page_in
  <2>4. PICK z \in Nat : z = inode.size /\ a < z
    <3>1. inode.size \in Nat
      BY <2>3, Sizes DEF Ok
    <3> QED BY <1>7, <2>3, <3>1 DEF page_in
  <2>5. PICK n \in Nat : n = Min({z - a, PAGE_SIZE}) /\ n <= PAGE_SIZE /\ a + n <= z
                         /\ a + n = Min({a + PAGE_SIZE, z})
    <3>1. PICK d \in Nat, g \in Nat : d = z - a /\ g = PAGE_SIZE
      BY <2>1, <2>2, <2>4
    <3>2. PICK n \in Nat : n = IF d <= g THEN d ELSE g
      OBVIOUS
    <3>3. n = Min({d, g})
      BY <3>2, MinOfTwo
    <3>4. PICK e \in Nat : e = a + g
      BY <2>2
    <3>5. e = a + g /\ Min({e, z}) = IF e <= z THEN e ELSE z
      BY <3>4, MinOfTwo
    <3>6. n <= g /\ a + n <= z /\ a + n = IF e <= z THEN e ELSE z
      BY <2>2, <2>4, <3>1, <3>2, <3>5
    <3> QED BY <3>1, <3>3, <3>5, <3>6
  <2>6. PICK s : s = vfs_read(inode, a, n)
    OBVIOUS
  <2>7. PICK o : o = IF Len(s) # n THEN Failed
                     ELSE Success([i \in 1..PAGE_SIZE |-> IF i <= n THEN s[i] ELSE Zero])
    OBVIOUS
  <2>8. out' = o
    <3>1. n = Min({f_inode.size - a, PAGE_SIZE}) /\ s = vfs_read(f_inode, a, n)
      BY <2>3, <2>4, <2>5, <2>6
    <3> QED BY <1>7, <2>7, <3>1 DEF page_in
  <2>9. Exact(inode, a, n, o)
    BY <2>1, <2>3, <2>4, <2>5, <2>6, <2>7, PageRight
  <2>10. f_inode' = f_inode /\ last' = [call |-> "page", offset |-> a]
    BY <1>7 DEF page_in
  <2>11. Asked(a, n)'
    BY <2>3, <2>4, <2>5, <2>10 DEF Asked
  <2> QED BY <1>1, <2>2, <2>3, <2>8, <2>9, <2>10, <2>11, ExactNext
<1>8. CASE ReadFails
  <2>1. f_inode' = f_inode /\ last'.call = "disk_error"
    BY <1>8 DEF ReadFails
  <2> QED BY <1>2, <1>4, <2>1, NoRead
<1>9. CASE vfs_close
  <2>1. f_inode' = NULL /\ last'.call = "close"
    BY <1>9 DEF vfs_close
  <2>2. 0 \in 0..image'.s_ninodes /\ Inode(0)' = NULL
    BY <1>2 DEF Healthy, Inode
  <2>3. Opened'
    BY <2>1, <2>2 DEF Opened
  <2> QED BY <1>2, <2>1, <2>3, NoRead
<1>10. CASE UNCHANGED vars
  <2>1. f_inode' = f_inode /\ last' = last /\ out' = out
    BY <1>10 DEF vars
  <2>2. Exactly'
    <3>1. CASE last.call \in {"read", "page"}
      <4>1. PICK a \in Nat, n \in Nat : Asked(a, n) /\ Exact(f_inode, a, n, out)
        BY <3>1 DEF Exactly
      <4>2. Asked(a, n)'
        BY <2>1, <4>1 DEF Asked
      <4>3. PICK o : o = out /\ o = out'
        BY <2>1
      <4>4. Exact(f_inode, a, n, o)
        BY <4>1, <4>3
      <4> QED BY <1>1, <2>1, <4>2, <4>3, <4>4, ExactNext
    <3>2. CASE last.call \notin {"read", "page"}
      BY <2>1, <3>2, NoRead
    <3> QED BY <3>1, <3>2
  <2> QED BY <1>2, <1>4, <2>1, <2>2
<1>11. ASSUME NEW a \in Offset, NEW n \in Count, read_elf(a, n) PROVE f_inode' = f_inode
  BY <1>11 DEF read_elf
<1>12. ASSUME NEW a \in Offset, page_in(a) PROVE f_inode' = f_inode
  BY <1>12 DEF page_in
<1> QED BY <1>2, <1>4, <1>5, <1>6, <1>7, <1>8, <1>9, <1>10, <1>11, <1>12 DEF Next

(* read_elf and page_fault_handler get the words of the file, or fail:     *)
(* ReadsReturnTheFile, for all disks, files, offsets and counts.           *)
THEOREM ReadsReturnFiles == Spec => []ReadsReturnTheFile
<1>1. Init => ReadInv
  <2>1. SUFFICES ASSUME Init PROVE ReadInv
    OBVIOUS
  <2>2. Healthy
    BY <2>1, ConsistentHealthy DEF Init
  <2>3. Opened
    <3>1. 0 \in 0..image.s_ninodes /\ f_inode = Inode(0)
      BY <2>1, <2>2 DEF Init, Healthy, Inode
    <3> QED BY <3>1 DEF Opened
  <2>4. Exactly
    BY <2>1 DEF Init, Exactly
  <2> QED BY <2>2, <2>3, <2>4 DEF ReadInv
<1>2. ReadInv /\ [Next]_vars => ReadInv'
  BY ReadStep
<1>3. ReadInv => ReadsReturnTheFile
  BY ExactRight DEF ReadInv
<1> QED BY <1>1, <1>2, <1>3, PTL DEF Spec

----------------------------------------------------------------------------
(* What a path names.                                                      *)

(* A row of the array of vfs_open stands for a name: it matches the        *)
(* entries that have the name.                                             *)
Match(row, name) == \A e : name_equal(entry_name(e), row) <=> Has(e, name)

(* Then the first such entry is the child.                                 *)
LEMMA ChildFirst ==
  ASSUME NEW dir, Ok(dir), dir.dir, NEW row, NEW name, Match(row, name)
  PROVE  Child(dir, name) = First(dir, row, 0)
<1>1. PICK z \in Nat, o \in Nat : z = dir.size /\ o = 0
  <2>1. dir.size \in Nat
    BY Sizes DEF Ok
  <2> QED BY <2>1
<1>2. PICK w : w = Contents(dir) /\ w = [i \in 1..z |-> WordAt(dir, i - 1)]
  BY <1>1, WordsIs DEF Contents
<1>3. PICK K : K = {k \in 1..(z \div 2) : w[2 * k - 1] # 0 /\ Has(w[2 * k], name)}
  OBVIOUS
<1>4. K \in SUBSET Nat
  BY <1>3
<1>5. Child(dir, name) = IF K # {} THEN w[2 * Min(K) - 1] ELSE 0
  <2>1. K = {k \in 1..(dir.size \div 2) : w[2 * k - 1] # 0 /\ Has(w[2 * k], name)}
    BY <1>1, <1>3
  <2>2. CASE K # {}
    <3>1. Child(dir, name) = w[2 * Min(K) - 1]
      BY <1>2, <2>1, <2>2, Zenon DEF Child
    <3> QED BY <2>2, <3>1, Zenon
  <2>3. CASE K = {}
    <3>1. Child(dir, name) = 0
      BY <1>2, <2>1, <2>3, Zenon DEF Child
    <3> QED BY <2>3, <3>1, Zenon
  <2> QED BY <2>2, <2>3
<1>6. PICK H : H = Hits(dir, row, o) /\ H \in SUBSET Nat
  BY DEF Hits
<1>7. ASSUME NEW k \in Nat
      PROVE  /\ k \in H <=> k + 1 \in K
             /\ k + 1 \in K => w[2 * (k + 1) - 1] = WordAt(dir, o + 2 * k)
  <2>1. k + 1 \in 1..(z \div 2) <=> o + 2 * k + 2 <= z
    BY <1>1
  <2>2. CASE ~(o + 2 * k + 2 <= z)
    BY <1>1, <1>3, <1>6, <2>1, <2>2 DEF Hits
  <2>3. CASE o + 2 * k + 2 <= z
    <3>1. PICK i \in 1..z, j \in 1..z : /\ i = 2 * (k + 1) - 1 /\ i - 1 = o + 2 * k
                                        /\ j = 2 * (k + 1) /\ j - 1 = o + 2 * k + 1
      <4>1. /\ 2 * (k + 1) - 1 \in 1..z /\ 2 * (k + 1) - 1 - 1 = o + 2 * k
            /\ 2 * (k + 1) \in 1..z /\ 2 * (k + 1) - 1 = o + 2 * k + 1
        BY <1>1, <2>3
      <4> QED BY <4>1
    <3>2. w[i] = WordAt(dir, o + 2 * k) /\ w[j] = WordAt(dir, o + 2 * k + 1)
      BY <1>2, <3>1
    <3>3. k \in H <=> Entry(dir, row, o + 2 * k)
      BY <1>1, <1>6, <2>3 DEF Hits
    <3>4. k + 1 \in K <=> w[i] # 0 /\ Has(w[j], name)
      BY <1>3, <2>1, <2>3, <3>1
    <3>5. PICK x, y : x = WordAt(dir, o + 2 * k) /\ y = WordAt(dir, o + 2 * k + 1)
      OBVIOUS
    <3>6. Entry(dir, row, o + 2 * k) <=> x # 0 /\ name_equal(entry_name(y), row)
      BY <3>5 DEF Entry
    <3>7. name_equal(entry_name(y), row) <=> Has(y, name)
      BY DEF Match
    <3> QED BY <3>1, <3>2, <3>3, <3>4, <3>5, <3>6, <3>7
  <2> QED BY <2>2, <2>3
<1>8. ASSUME NEW y \in K PROVE y - 1 \in Nat /\ y - 1 \in H
  <2>1. PICK k \in Nat : k = y - 1 /\ k + 1 = y
    <3>1. y - 1 \in Nat /\ (y - 1) + 1 = y
      BY <1>3
    <3> QED BY <3>1
  <2> QED BY <1>7, <2>1
<1>9. CASE H = {}
  <2>1. K = {}
    BY <1>8, <1>9
  <2> QED BY <1>1, <1>5, <1>6, <1>9, <2>1 DEF First
<1>10. CASE H # {}
  <2>1. PICK m \in H : \A y \in H : m <= y
    BY <1>6, <1>10, Least
  <2>2. First(dir, row, o) = WordAt(dir, o + 2 * m)
    BY <1>6, <2>1, FirstIs
  <2>3. PICK k \in K : k = m + 1 /\ w[2 * k - 1] = WordAt(dir, o + 2 * m)
    BY <1>6, <1>7, <2>1
  <2>4. ASSUME NEW y \in K PROVE k <= y
    <3>1. y - 1 \in H /\ y \in Nat /\ m \in Nat
      BY <1>4, <1>6, <1>8
    <3>2. m <= y - 1
      BY <2>1, <3>1
    <3> QED BY <2>3, <3>1, <3>2
  <2>5. Min(K) = k
    BY <1>4, <2>4, MinOnly
  <2> QED BY <1>1, <1>5, <2>2, <2>3, <2>5
<1> QED BY <1>9, <1>10

(* One name further, in the directories and in the code.                   *)
LEMMA ReachStep ==
  ASSUME Healthy, NEW n \in 0..image.s_ninodes, NEW row, NEW name, Match(row, name)
  PROVE  Down(n, row) = IF n = 0 THEN 0 ELSE Child(read_inode(n), name)
<1>1. CASE n = 0
  BY <1>1 DEF Down
<1>2. CASE n # 0
  <2>1. n \in 1..image.s_ninodes
    BY <1>2 DEF Healthy
  <2>2. PICK dir : dir = read_inode(n) /\ Ok(dir)
    BY <2>1 DEF Healthy
  <2>3. CASE dir.dir
    BY <1>2, <2>2, <2>3, ChildFirst DEF Down
  <2>4. CASE ~dir.dir
    <3>1. Child(dir, name) = 0
      BY <2>4, Zenon DEF Child
    <3> QED BY <1>2, <2>2, <2>4, <3>1 DEF Down
  <2> QED BY <2>3, <2>4
<1> QED BY <1>1, <1>2

(* The rows and the names of a path, one for one.                          *)
Matched(rows, names) ==
  /\ Len(rows) \in Nat /\ Len(names) = Len(rows)
  /\ \A k \in 1..Len(rows) : Match(rows[k], names[k])

IsReach(g, names) ==
  g = [k \in 0..Len(names) |->
         IF k = 0 THEN ROOT_INODE
         ELSE IF g[k - 1] = 0 THEN 0 ELSE Child(read_inode(g[k - 1]), names[k])]

LEMMA NamedIs ==
  ASSUME Healthy, NEW path, NEW names, names = Names(path), NEW rows, Matched(rows, names),
         NEW r \in [0..Len(rows) -> 0..image.s_ninodes], Way(r, rows)
  PROVE  Named(path) = r[Len(rows)]
<1>1. PICK n \in Nat : n = Len(rows) /\ n = Len(names)
  BY DEF Matched
<1>2. r[0] = ROOT_INODE
  BY DEF Way
<1>3. ASSUME NEW k \in 1..n
      PROVE  r[k] = IF r[k - 1] = 0 THEN 0 ELSE Child(read_inode(r[k - 1]), names[k])
  <2>1. PICK x \in 0..image.s_ninodes : x = r[k - 1]
    BY <1>1
  <2>2. PICK row, name : row = rows[k] /\ name = names[k]
    OBVIOUS
  <2>3. Match(row, name)
    BY <1>1, <2>2 DEF Matched
  <2>4. r[k] = Down(x, row)
    BY <1>1, <2>1, <2>2 DEF Way
  <2>5. Down(x, row) = IF x = 0 THEN 0 ELSE Child(read_inode(x), name)
    BY <2>3, ReachStep
  <2> QED BY <2>1, <2>2, <2>4, <2>5
<1>4. IsReach(r, names)
  <2>1. r = [k \in 0..n |-> r[k]]
    BY <1>1
  <2>2. ASSUME NEW k \in 0..n
        PROVE  r[k] = IF k = 0 THEN ROOT_INODE
                      ELSE IF r[k - 1] = 0 THEN 0 ELSE Child(read_inode(r[k - 1]), names[k])
    <3>1. k # 0 => k \in 1..n
      OBVIOUS
    <3> QED BY <1>2, <1>3, <3>1
  <2> QED BY <1>1, <2>1, <2>2 DEF IsReach
<1>5. PICK g : g = CHOOSE u : IsReach(u, names)
  OBVIOUS
<1>6. IsReach(g, names)
  BY <1>4, <1>5, Zenon
<1>7. /\ g[0] = ROOT_INODE
      /\ \A k \in 1..n : g[k] = IF g[k - 1] = 0 THEN 0 ELSE Child(read_inode(g[k - 1]), names[k])
  BY <1>1, <1>6 DEF IsReach
<1>8. PICK P : P = {k \in 0..n : g[k] = r[k]}
  OBVIOUS
<1>9. 0 \in P
  BY <1>2, <1>7, <1>8
<1>10. ASSUME NEW k \in 1..n, k - 1 \in P PROVE k \in P
  <2>1. PICK x : x = g[k - 1] /\ x = r[k - 1]
    BY <1>8, <1>10
  <2>2. g[k] = IF x = 0 THEN 0 ELSE Child(read_inode(x), names[k])
    BY <1>7, <2>1, Zenon
  <2>3. r[k] = IF x = 0 THEN 0 ELSE Child(read_inode(x), names[k])
    BY <1>3, <2>1, Zenon
  <2> QED BY <1>8, <2>2, <2>3
<1>11. n \in P
  <2>1. 0..n \subseteq P
    BY <1>9, <1>10, Climb DEF Steps
  <2> QED BY <2>1
<1>12. Named(path) = g[n]
  BY <1>1, <1>5, Zenon DEF Named, IsReach
<1> QED BY <1>1, <1>8, <1>11, <1>12

(* A row holds a name when it starts with its characters and its end, as   *)
(* far as they fit.                                                        *)
Held(row, name) ==
  /\ \A j \in 0..MINIX_MAX_NAME_LENGTH : j < Len(name) => row[j] = name[j + 1]
  /\ Len(name) <= MINIX_MAX_NAME_LENGTH => row[Len(name)] = NUL

LEMMA HeldMatch ==
  ASSUME NEW S, NEW name \in Seq(S), NUL \notin Range(name), NEW row, Held(row, name)
  PROVE  Match(row, name)
<1>1. PICK m \in Nat, n \in Nat : m = MINIX_MAX_NAME_LENGTH /\ n = Len(name)
  <2>1. MINIX_MAX_NAME_LENGTH \in Nat
    BY FsAssumption
  <2>2. Len(name) \in Nat
    OBVIOUS
  <2> QED BY <2>1, <2>2
<1>2. /\ \A j \in 0..m : j < n => row[j] = name[j + 1]
      /\ n <= m => row[n] = NUL
  BY <1>1 DEF Held
<1>3. \A j \in 1..n : name[j] # NUL
  BY <1>1 DEF Range
<1>4. name = [i \in 1..n |-> name[i]]
  BY <1>1
<1>5. ASSUME NEW e
      PROVE  name_equal(entry_name(e), row) <=> Has(e, name)
  <2>1. PICK x : x = entry_name(e)
    OBVIOUS
  <2>2. x[m] = NUL /\ \A i \in 0..(m - 1) : x[i] = e[i + 1]
    BY <1>1, <2>1 DEF entry_name
  <2>3. name_equal(x, row) <=> \E k \in 0..m : x[k] = NUL /\ \A i \in 0..k : x[i] = row[i]
    BY <1>1 DEF name_equal
  <2>4. SubSeq(e, 1, n) = [i \in 1..n |-> e[i]]
    OBVIOUS
  <2>5. SubSeq(e, 1, n) = name <=> \A i \in 1..n : e[i] = name[i]
    BY <1>4, <2>4
  <2>6. Has(e, name) <=> n <= m /\ (\A i \in 1..n : e[i] = name[i]) /\ (n < m => e[n + 1] = NUL)
    BY <1>1, <2>5 DEF Has
  <2>7. ASSUME NEW k \in 0..m, x[k] = NUL, \A i \in 0..k : x[i] = row[i]
        PROVE  n <= m /\ (\A i \in 1..n : e[i] = name[i]) /\ (n < m => e[n + 1] = NUL)
    <3>1. n <= k
      <4>1. SUFFICES ASSUME k < n PROVE FALSE
        OBVIOUS
      <4>2. row[k] = name[k + 1] /\ k + 1 \in 1..n
        BY <1>2, <4>1
      <4>3. row[k] = NUL
        BY <2>7
      <4> QED BY <1>3, <4>2, <4>3
    <3>2. n <= m /\ n \in 0..k
      BY <3>1
    <3>3. x[n] = NUL
      BY <1>2, <2>7, <3>2
    <3>4. n < m => e[n + 1] = NUL
      BY <2>2, <3>3
    <3>5. ASSUME NEW i \in 1..n PROVE e[i] = name[i]
      <4>1. PICK j \in 0..(m - 1) : j = i - 1 /\ j + 1 = i /\ j \in 0..k /\ j \in 0..m /\ j < n
        <5>1. i - 1 \in 0..(m - 1) /\ (i - 1) + 1 = i /\ i - 1 \in 0..k /\ i - 1 \in 0..m /\ i - 1 < n
          BY <3>2
        <5> QED BY <5>1
      <4> QED BY <1>2, <2>2, <2>7, <4>1
    <3> QED BY <3>2, <3>4, <3>5
  <2>8. ASSUME n <= m, \A i \in 1..n : e[i] = name[i], n < m => e[n + 1] = NUL
        PROVE  \E k \in 0..m : x[k] = NUL /\ \A i \in 0..k : x[i] = row[i]
    <3>1. x[n] = NUL
      <4>1. CASE n = m
        BY <2>2, <4>1
      <4>2. CASE n < m
        <5>1. n \in 0..(m - 1)
          BY <4>2
        <5> QED BY <2>2, <2>8, <4>2, <5>1
      <4> QED BY <2>8, <4>1, <4>2
    <3>2. ASSUME NEW i \in 0..n PROVE x[i] = row[i]
      <4>1. CASE i = n
        BY <1>2, <2>8, <3>1, <4>1
      <4>2. CASE i < n
        <5>1. i \in 0..(m - 1) /\ i \in 0..m /\ i + 1 \in 1..n
          BY <2>8, <4>2
        <5> QED BY <1>2, <2>2, <2>8, <4>2, <5>1
      <4> QED BY <4>1, <4>2
    <3>3. n \in 0..m
      BY <2>8
    <3> QED BY <3>1, <3>2, <3>3
  <2> QED BY <2>1, <2>3, <2>6, <2>7, <2>8
<1> QED BY <1>5 DEF Match

----------------------------------------------------------------------------
(* The names of a path.                                                    *)

(* Whether a name goes from i to j at least.                               *)
Within(path, i, j) == \A k \in i..j : path[k] # "/"

(* The name that starts at i: it has the characters of the path from i on, *)
(* goes on as long as there is no slash, and ends in front of one.         *)
LEMMA NameAtIs ==
  ASSUME NEW S, NEW path \in Seq(S), NEW i \in 1..Len(path), path[i] # "/"
  PROVE  /\ NameAt(path, i) \in Seq(S)
         /\ i + Len(NameAt(path, i)) - 1 \in i..Len(path)
         /\ \A j \in 1..Len(NameAt(path, i)) : NameAt(path, i)[j] = path[i + j - 1]
         /\ \A j \in i..Len(path) : Within(path, i, j) <=> j <= i + Len(NameAt(path, i)) - 1
<1>1. PICK n \in Nat : n = Len(path) /\ i \in Nat /\ i <= n /\ i >= 1
  OBVIOUS
<1>2. PICK J : J = {j \in i..n : Within(path, i, j)}
  OBVIOUS
<1>3. i \in J
  <2>1. Within(path, i, i)
    BY <1>1 DEF Within
  <2> QED BY <1>1, <1>2, <2>1
<1>4. PICK e \in J : \A j \in J : j <= e
  <2>1. PICK D : D = {n - j : j \in J}
    OBVIOUS
  <2>2. D \in SUBSET Nat
    BY <1>1, <1>2, <2>1
  <2>3. n - i \in D
    BY <1>3, <2>1
  <2>4. PICK d \in D : \A y \in D : d <= y
    BY <2>2, <2>3, Least
  <2>5. PICK e \in J : d = n - e
    BY <2>1, <2>4
  <2>6. ASSUME NEW j \in J PROVE j <= e
    <3>1. n - j \in D /\ n - e <= n - j
      BY <2>1, <2>4, <2>5
    <3> QED BY <1>1, <1>2, <3>1
  <2> QED BY <2>6
<1>5. e \in i..n /\ Within(path, i, e)
  BY <1>2
<1>6. Max(J) = e
  <2>1. \A x \in J : (\A y \in J : x >= y) => x = e
    BY <1>1, <1>2, <1>4
  <2>2. \A y \in J : e >= y
    BY <1>1, <1>2, <1>4
  <2> QED BY <2>1, <2>2 DEF Max
<1>7. NameAt(path, i) = SubSeq(path, i, e)
  BY <1>1, <1>2, <1>6, Zenon DEF NameAt, Within
<1>8. PICK s : s = NameAt(path, i) /\ s = SubSeq(path, i, e)
  BY <1>7
<1>9. s \in Seq(S) /\ Len(s) = e - i + 1 /\ \A j \in 1..(e - i + 1) : s[j] = path[i + j - 1]
  <2>1. i \in 1..(Len(path) + 1) /\ e \in (i - 1)..Len(path)
    BY <1>1, <1>5
  <2> QED BY <1>1, <1>5, <1>8, <2>1, SubSeqProperties
<1>10. ASSUME NEW j \in i..n PROVE Within(path, i, j) <=> j <= e
  <2>1. Within(path, i, j) => j <= e
    BY <1>2, <1>4
  <2>2. ASSUME j <= e PROVE Within(path, i, j)
    BY <1>5, <2>2 DEF Within
  <2> QED BY <2>1, <2>2 DEF Within
<1>11. i + Len(s) - 1 = e
  BY <1>1, <1>5, <1>9
<1> QED BY <1>1, <1>5, <1>8, <1>9, <1>10, <1>11

(* c is a and one more element.                                            *)
Longer(c, a, x) == Len(c) = Len(a) + 1 /\ c[Len(a) + 1] = x /\ \A i \in 1..Len(a) : c[i] = a[i]

LEMMA AppendIs ==
  ASSUME NEW S, NEW a \in Seq(S), NEW x \in S
  PROVE  Append(a, x) \in Seq(S) /\ Longer(Append(a, x), a, x)
<1>1. PICK c : c = Append(a, x)
  OBVIOUS
<1>2. /\ c \in Seq(S) /\ Len(c) = Len(a) + 1 /\ c[Len(a) + 1] = x
      /\ \A i \in 1..Len(a) : c[i] = a[i]
  BY <1>1, AppendProperties
<1> QED BY <1>1, <1>2 DEF Longer

(* One character further: a name more, or the same names.                  *)
Further(b, a, path, k) ==
  /\ Start(path, k) => Longer(b, a, NameAt(path, k))
  /\ ~Start(path, k) => b = a

IsNames(g, path) ==
  g = [k \in 0..Len(path) |->
         IF k = 0 THEN <<>>
         ELSE IF Start(path, k) THEN Append(g[k - 1], NameAt(path, k)) ELSE g[k - 1]]

(* The names so far, for every number of characters.                       *)
Growing(g, path) == g[0] = <<>> /\ \A k \in 1..Len(path) : Further(g[k], g[k - 1], path, k)

LEMMA NameType ==
  ASSUME NEW S, NEW path \in Seq(S), NEW k \in 1..Len(path), Start(path, k)
  PROVE  NameAt(path, k) \in Seq(S)
<1>1. path[k] # "/"
  BY DEF Start
<1> QED BY <1>1, NameAtIs

LEMMA NamesExists ==
  ASSUME NEW S, NEW path \in Seq(S)
  PROVE  \E g : IsNames(g, path)
<1>1. PICK n \in Nat, T \in {Seq(Seq(S))} : n = Len(path) /\ T = Seq(Seq(S))
  OBVIOUS
<1>2. PICK b \in T : b = <<>>
  <2>1. PICK Q : Q = Seq(S)
    OBVIOUS
  <2>2. <<>> \in Seq(Q)
    BY EmptySeq
  <2> QED BY <1>1, <2>1, <2>2
<1> DEFINE next(k, x) == IF Start(path, k) THEN Append(x, NameAt(path, k)) ELSE x
<1> DEFINE step == [k \in 1..n |-> [x \in T |-> next(k, x)]]
<1>3. step \in [1..n -> [T -> T]]
  <2>1. ASSUME NEW k \in 1..n, NEW x \in T PROVE next(k, x) \in T
    <3>1. CASE Start(path, k)
      <4>1. PICK y, Q : y = NameAt(path, k) /\ Q = Seq(S) /\ y \in Q
        BY <1>1, <3>1, NameType
      <4>2. Append(x, y) \in Seq(Q)
        BY <1>1, <4>1, AppendProperties
      <4> QED BY <1>1, <3>1, <4>1, <4>2
    <3>2. CASE ~Start(path, k)
      BY <3>2
    <3> QED BY <3>1, <3>2
  <2> HIDE DEF next
  <2> QED BY <2>1
<1>4. \A k \in 1..n : \A x \in T : step[k][x] = next(k, x)
  OBVIOUS
<1> HIDE DEF step
<1>5. PICK t : t = step
  OBVIOUS
<1>6. PICK g \in [0..n -> T] : Run(g, b, t, n)
  BY <1>3, <1>5, RunExists
<1>7. ASSUME NEW k \in 0..n PROVE g[k] = IF k = 0 THEN <<>> ELSE next(k, g[k - 1])
  <2> HIDE DEF next
  <2>1. CASE k = 0
    BY <1>2, <1>6, <2>1 DEF Run
  <2>2. CASE k # 0
    <3>1. k \in 1..n /\ k - 1 \in 0..n
      BY <2>2
    <3>2. g[k] = t[k][g[k - 1]] /\ g[k - 1] \in T
      BY <1>6, <3>1 DEF Run
    <3>3. g[k] = next(k, g[k - 1])
      BY <1>4, <1>5, <3>1, <3>2
    <3> QED BY <2>2, <3>3
  <2> QED BY <2>1, <2>2
<1>8. g = [k \in 0..n |-> IF k = 0 THEN <<>> ELSE next(k, g[k - 1])]
  <2> HIDE DEF next
  <2>1. g = [k \in 0..n |-> g[k]]
    OBVIOUS
  <2> QED BY <1>7, <2>1
<1>9. IsNames(g, path)
  BY <1>1, <1>8, Zenon DEF IsNames
<1> QED BY <1>9

LEMMA NamesGrow ==
  ASSUME NEW S, NEW path \in Seq(S), NEW g, IsNames(g, path)
  PROVE  Growing(g, path) /\ \A k \in 0..Len(path) : g[k] \in Seq(Seq(S))
<1>1. PICK n \in Nat, T \in {Seq(S)} : n = Len(path) /\ T = Seq(S)
  OBVIOUS
<1>2. /\ g[0] = <<>>
      /\ \A k \in 1..n : g[k] = IF Start(path, k) THEN Append(g[k - 1], NameAt(path, k)) ELSE g[k - 1]
  <2>1. \A k \in 0..n : g[k] = IF k = 0 THEN <<>> ELSE IF Start(path, k)
                               THEN Append(g[k - 1], NameAt(path, k)) ELSE g[k - 1]
    BY <1>1, Zenon DEF IsNames
  <2>2. 0 \in 0..n /\ \A k \in 1..n : k \in 0..n /\ k # 0
    OBVIOUS
  <2> QED BY <2>1, <2>2, Zenon
<1>3. PICK P : P = {k \in 0..n : g[k] \in Seq(T)}
  OBVIOUS
<1>4. ASSUME NEW k \in 1..n, k - 1 \in P
      PROVE  k \in P /\ Further(g[k], g[k - 1], path, k)
  <2>1. PICK a \in Seq(T), b \in {g[k]} : a = g[k - 1] /\ b = g[k]
    BY <1>3, <1>4
  <2>2. CASE Start(path, k)
    <3>1. PICK y \in T : y = NameAt(path, k)
      BY <1>1, <2>2, NameType
    <3>2. b = Append(a, y)
      BY <1>2, <2>1, <2>2, <3>1, Zenon
    <3>3. b \in Seq(T) /\ Longer(b, a, y)
      BY <3>2, AppendIs
    <3> QED BY <1>3, <2>1, <2>2, <3>1, <3>3 DEF Further
  <2>3. CASE ~Start(path, k)
    <3>1. b = a
      BY <1>2, <2>1, <2>3, Zenon
    <3>2. k \in 0..n /\ g[k] \in Seq(T)
      BY <2>1, <3>1
    <3>3. Further(g[k], g[k - 1], path, k)
      BY <2>1, <2>3, <3>1, Zenon DEF Further
    <3> QED BY <1>3, <3>2, <3>3
  <2> QED BY <2>2, <2>3
<1>5. 0 \in P
  <2>1. <<>> \in Seq(T)
    BY EmptySeq
  <2>2. g[0] \in Seq(T)
    BY <1>2, <2>1, Zenon
  <2>3. 0 \in 0..n
    OBVIOUS
  <2> QED BY <1>3, <2>2, <2>3, Zenon
<1>6. 0..n \subseteq P
  BY <1>4, <1>5, Climb DEF Steps
<1>7. \A k \in 1..n : Further(g[k], g[k - 1], path, k)
  BY <1>4, <1>6
<1> QED BY <1>1, <1>2, <1>3, <1>6, <1>7 DEF Growing

(* What is named once stays.                                               *)
Begins(a, b) == Len(a) <= Len(b) /\ \A i \in 1..Len(a) : a[i] = b[i]

LEMMA NamesStay ==
  ASSUME NEW S, NEW path \in Seq(S), NEW g, Growing(g, path),
         \A k \in 0..Len(path) : g[k] \in Seq(Seq(S)), NEW k \in 0..Len(path)
  PROVE  Begins(g[k], g[Len(path)])
<1>1. PICK n \in Nat, m \in Nat : n = Len(path) /\ m = n - k
  BY LenProperties
<1>2. PICK P : P = {d \in 0..m : Begins(g[k], g[k + d])}
  OBVIOUS
<1>3. 0 \in P
  <2>1. Len(g[k]) \in Nat /\ k + 0 = k
    BY LenProperties
  <2>2. Begins(g[k], g[k + 0])
    BY <2>1 DEF Begins
  <2> QED BY <1>2, <2>2
<1>4. ASSUME NEW d \in 1..m, d - 1 \in P PROVE d \in P
  <2>1. PICK j \in 1..n : j = k + d /\ j - 1 = k + (d - 1)
    BY <1>1
  <2>2. PICK a, b, c : a = g[k] /\ b = g[j - 1] /\ c = g[j]
    OBVIOUS
  <2>3. Len(a) \in Nat /\ Len(b) \in Nat
    BY <1>1, <2>2, LenProperties
  <2>4. Begins(a, b)
    BY <1>2, <1>4, <2>1, <2>2
  <2>5. Further(c, b, path, j)
    BY <1>1, <2>2 DEF Growing
  <2>6. Begins(a, c)
    BY <2>3, <2>4, <2>5 DEF Begins, Further, Longer
  <2> QED BY <1>2, <2>1, <2>2, <2>6
<1>5. m \in P
  <2>1. 0..m \subseteq P
    BY <1>3, <1>4, Climb DEF Steps
  <2> QED BY <2>1
<1>6. k + m = n
  BY <1>1
<1> QED BY <1>1, <1>2, <1>5, <1>6

LEMMA NamesIs ==
  ASSUME NEW S, NEW path \in Seq(S), path # <<>>, path[1] = "/"
  PROVE  \E g : IsNames(g, path) /\ Names(path) = g[Len(path)]
<1>1. PICK g : g = CHOOSE u : IsNames(u, path)
  OBVIOUS
<1>2. IsNames(g, path)
  <2>1. \E f : IsNames(f, path)
    BY NamesExists
  <2> QED BY <1>1, <2>1, Zenon
<1>3. Names(path) = g[Len(path)]
  BY <1>1, Zenon DEF Names, IsNames
<1> QED BY <1>2, <1>3

----------------------------------------------------------------------------
(* split_path writes the names of the path into the rows.                  *)

(* Where a row starts.                                                     *)
Base(i) == i * ROW

LEMMA RowSize ==
  ROW \in Nat /\ ROW = MINIX_MAX_NAME_LENGTH + 1 /\ MINIX_MAX_NAME_LENGTH \in Nat /\ CELLS \in Nat
<1>1. MINIX_MAX_NAME_LENGTH \in Nat /\ PATH_COMPONENTS \in Nat
  BY FsAssumption
<1>2. ROW \in Nat /\ ROW = MINIX_MAX_NAME_LENGTH + 1
  BY <1>1 DEF ROW
<1>3. PICK p \in Nat, w \in Nat : p = PATH_COMPONENTS /\ w = ROW
  BY <1>1, <1>2
<1>4. p * w \in Nat
  OBVIOUS
<1> QED BY <1>1, <1>2, <1>3, <1>4 DEF CELLS

(* Rows lie one behind the other.                                          *)
LEMMA BaseStep ==
  ASSUME NEW i \in Nat, NEW k \in Nat, i < k
  PROVE  Base(i) \in Nat /\ Base(k) \in Nat /\ Base(i) + ROW <= Base(k)
<1>1. PICK w \in Nat : w = ROW
  BY RowSize
<1>2. PICK d \in Nat : k = i + 1 + d
  <2>1. k - i - 1 \in Nat /\ k = i + 1 + (k - i - 1)
    OBVIOUS
  <2> QED BY <2>1
<1>3. i * w \in Nat /\ d * w \in Nat /\ k * w = i * w + w + d * w
  BY <1>2
<1> QED BY <1>1, <1>3 DEF Base

LEMMA BaseType ==
  ASSUME NEW i \in Nat PROVE Base(i) \in Nat
<1>1. PICK w \in Nat : w = ROW
  BY RowSize
<1>2. i * w \in Nat
  OBVIOUS
<1> QED BY <1>1, <1>2 DEF Base

(* t is s with c in one cell.                                              *)
Wrote(t, s, at, c) == \A x \in 0..(CELLS - 1) : t.cells[x] = IF x = at THEN c ELSE s.cells[x]

(* What a character that is not a slash does, and the end of a name.       *)
LEMMA SplitChar ==
  ASSUME NEW V, NEW s \in State(V), NEW c, c # "/"
  PROVE  /\ Split(s, c).name_i = s.name_i /\ Split(s, c).char_i = s.char_i + 1
         /\ Wrote(Split(s, c), s, Base(s.name_i) + s.char_i, c)
<1>1. PICK a, t : a = Base(s.name_i) + s.char_i /\ t = Split(s, c)
  OBVIOUS
<1>2. t = [s EXCEPT !.cells[a] = c, !.char_i = @ + 1]
  BY <1>1, Zenon DEF Split, Base
<1>3. t = [cells |-> [s.cells EXCEPT ![a] = c], name_i |-> s.name_i, char_i |-> s.char_i + 1]
  BY <1>2 DEF State
<1>4. Wrote(t, s, a, c)
  BY <1>3 DEF Wrote, State
<1> QED BY <1>1, <1>3, <1>4

LEMMA SplitEnd ==
  ASSUME NEW V, NEW s \in State(V), s.char_i # 0
  PROVE  /\ Split(s, "/").name_i = s.name_i + 1 /\ Split(s, "/").char_i = 0
         /\ Wrote(Split(s, "/"), s, Base(s.name_i) + s.char_i, NUL)
<1>1. PICK a, t : a = Base(s.name_i) + s.char_i /\ t = Split(s, "/")
  OBVIOUS
<1>2. t = [s EXCEPT !.cells[a] = NUL, !.name_i = @ + 1, !.char_i = 0]
  BY <1>1, Zenon DEF Split, Base
<1>3. t = [cells |-> [s.cells EXCEPT ![a] = NUL], name_i |-> s.name_i + 1, char_i |-> 0]
  BY <1>2 DEF State
<1>4. Wrote(t, s, a, NUL)
  BY <1>3 DEF Wrote, State
<1> QED BY <1>1, <1>3, <1>4

(* A name in row i, as far as it fits.                                     *)
HeldAt(cells, i, name) ==
  /\ \A j \in 0..MINIX_MAX_NAME_LENGTH : j < Len(name) => cells[Base(i) + j] = name[j + 1]
  /\ Len(name) <= MINIX_MAX_NAME_LENGTH => cells[Base(i) + Len(name)] = NUL

RowsHeld(s, names) == \A i \in 1..s.name_i : HeldAt(s.cells, i - 1, names[i])

(* After k characters split_path is between two names, or inside one: all  *)
(* names that ended are in their rows, and what there is of the last one.  *)
Between(s, names, path, k) ==
  s.char_i = 0 /\ Len(names) = s.name_i /\ (k = 0 \/ path[k] = "/")

Inside(s, names, path, k, i) ==
  /\ i \in 1..k /\ s.char_i = k - i + 1
  /\ Len(names) = s.name_i + 1 /\ names[s.name_i + 1] = NameAt(path, i)
  /\ Within(path, i, k)
  /\ \A j \in 0..(s.char_i - 1) : s.cells[Base(s.name_i) + j] = path[i + j]

Progress(s, names, path, k) ==
  RowsHeld(s, names) /\ (Between(s, names, path, k) \/ \E i \in Nat : Inside(s, names, path, k, i))

(* The names fit into the array.                                           *)
AllFit(names) == \A i \in 1..Len(names) : Base(i - 1) + Len(names[i]) < CELLS

(* A character behind the rows that are full leaves them.                  *)
LEMMA RowsKept ==
  ASSUME NEW V, NEW s \in State(V), NEW t \in State(V), NEW c, NEW S, NEW names \in Seq(Seq(S)), NEW more,
         RowsHeld(s, names), Base(s.name_i) + s.char_i < CELLS,
         Wrote(t, s, Base(s.name_i) + s.char_i, c),
         s.name_i <= Len(names), Begins(names, more)
  PROVE  \A i \in 1..s.name_i : HeldAt(t.cells, i - 1, more[i])
<1>1. SUFFICES ASSUME NEW i \in 1..s.name_i PROVE HeldAt(t.cells, i - 1, more[i])
  OBVIOUS
<1>2. PICK n \in Nat, q \in Nat, at \in Nat, e \in Nat :
         n = s.name_i /\ q = s.char_i /\ at = Base(n) + q /\ at >= Base(n) /\ at < e /\ e = CELLS
  <2>1. PICK n \in Nat, q \in Nat : n = s.name_i /\ q = s.char_i
    BY DEF State
  <2>2. PICK a \in Nat, e \in Nat : a = Base(n) /\ e = CELLS
    BY BaseType, RowSize
  <2>3. PICK at \in Nat : at = a + q /\ at >= a /\ at < e
    BY <2>1, <2>2
  <2> QED BY <2>1, <2>2, <2>3
<1>3. PICK p \in Nat, b \in Nat, m \in Nat : p = i - 1 /\ b = Base(p) /\ m = MINIX_MAX_NAME_LENGTH
                                             /\ b + m < at
  <2>1. PICK p \in Nat : p = i - 1 /\ p < n
    BY <1>2
  <2>2. Base(p) \in Nat /\ Base(n) \in Nat /\ Base(p) + ROW <= Base(n)
    BY <2>1, BaseStep
  <2>3. Base(p) + MINIX_MAX_NAME_LENGTH < at
    BY <1>2, <2>2, RowSize
  <2> QED BY <2>1, <2>2, <2>3, RowSize
<1>4. \A j \in 0..m : t.cells[b + j] = s.cells[b + j]
  <2>1. at < e /\ b + m < at
    BY <1>2, <1>3
  <2>2. ASSUME NEW j \in 0..m PROVE b + j \in 0..(e - 1) /\ b + j # at
    BY <2>1
  <2>3. \A x \in 0..(e - 1) : t.cells[x] = IF x = at THEN c ELSE s.cells[x]
    BY <1>2 DEF Wrote
  <2> QED BY <2>2, <2>3
<1>5. PICK name : name = names[i] /\ name = more[i]
  <2>1. i \in 1..Len(names)
    BY <1>2, LenProperties
  <2> QED BY <2>1 DEF Begins
<1>6. HeldAt(s.cells, p, name)
  BY <1>3, <1>5 DEF RowsHeld
<1>7. Len(name) \in Nat
  <2>1. i \in 1..Len(names)
    BY <1>2, LenProperties
  <2>2. PICK Q : Q = Seq(S) /\ names \in Seq(Q)
    OBVIOUS
  <2>3. name \in Q
    BY <1>5, <2>1, <2>2, ElementOfSeq
  <2> QED BY <2>2, <2>3, LenProperties
<1>8. HeldAt(t.cells, p, name)
  <2>1. ASSUME NEW j \in 0..m, j < Len(name) PROVE t.cells[b + j] = name[j + 1]
    BY <1>3, <1>4, <1>6, <2>1 DEF HeldAt
  <2>2. ASSUME Len(name) <= m PROVE t.cells[b + Len(name)] = NUL
    <3>1. Len(name) \in 0..m
      BY <1>7, <2>2
    <3> QED BY <1>3, <1>4, <1>6, <2>2, <3>1 DEF HeldAt
  <2> QED BY <1>3, <2>1, <2>2 DEF HeldAt
<1> QED BY <1>3, <1>5, <1>8

(* The place that the next character goes to is in the array.              *)
LEMMA PlaceFits ==
  ASSUME NEW names, AllFit(names), NEW n \in Nat, NEW q \in Nat, n + 1 <= Len(names), Len(names) \in Nat,
         Len(names[n + 1]) \in Nat, q <= Len(names[n + 1])
  PROVE  Base(n) + q < CELLS
<1>1. PICK i \in 1..Len(names) : i = n + 1 /\ i - 1 = n
  OBVIOUS
<1>2. PICK l \in Nat, b \in Nat, e \in Nat : l = Len(names[i]) /\ b = Base(n) /\ e = CELLS
  BY <1>1, BaseType, RowSize
<1>3. b + l < e
  BY <1>1, <1>2 DEF AllFit
<1>4. q <= l
  BY <1>1, <1>2
<1>5. b + q < e
  BY <1>3, <1>4
<1> QED BY <1>2, <1>5

(* A character of a name.                                                  *)
LEMMA CharStep ==
  ASSUME NEW V, NUL \in V, NEW S \in SUBSET V, NEW path \in Seq(S), NEW s \in State(V),
         NEW names \in Seq(Seq(S)), NEW more \in Seq(Seq(S)), NEW m \in 1..Len(path), path[m] # "/",
         Progress(s, names, path, m - 1), Further(more, names, path, m), AllFit(more)
  PROVE  Progress(Split(s, path[m]), more, path, m)
<1>1. PICK n \in Nat, q \in Nat : n = s.name_i /\ q = s.char_i
  BY DEF State
<1>2. PICK c \in V : c = path[m]
  BY ElementOfSeq
<1>3. PICK t \in State(V) : t = Split(s, c)
  BY SplitType
<1>4. t.name_i = n /\ t.char_i = q + 1 /\ Wrote(t, s, Base(n) + q, c)
  BY <1>1, <1>2, <1>3, SplitChar
<1>5. PICK b \in Nat, e \in Nat, k \in Nat, f \in Nat : b = Base(n) /\ e = CELLS /\ k = Len(names) /\ f = Len(path)
  BY BaseType, RowSize, LenProperties
<1>6. m \in Nat /\ m >= 1 /\ m <= f
  BY <1>5
<1>7. \A x \in 0..(e - 1) : t.cells[x] = IF x = b + q THEN c ELSE s.cells[x]
  BY <1>4, <1>5 DEF Wrote
<1>8. RowsHeld(s, names)
  BY DEF Progress
<1>9. CASE Between(s, names, path, m - 1)
  <2>1. q = 0 /\ k = n /\ (m - 1 = 0 \/ path[m - 1] = "/")
    BY <1>1, <1>5, <1>9 DEF Between
  <2>2. Start(path, m)
    BY <1>6, <2>1 DEF Start
  <2>3. Len(more) = n + 1 /\ more[n + 1] = NameAt(path, m) /\ \A i \in 1..k : more[i] = names[i]
    BY <1>5, <2>1, <2>2 DEF Further, Longer
  <2>4. PICK l \in Nat : l = Len(NameAt(path, m))
    BY NameAtIs, LenProperties
  <2>5. b + q < e
    <3>1. n + 1 <= Len(more) /\ Len(more) \in Nat /\ Len(more[n + 1]) \in Nat /\ q <= Len(more[n + 1])
      BY <2>1, <2>3, <2>4
    <3> QED BY <1>5, <3>1, PlaceFits
  <2>6. Begins(names, more)
    BY <1>5, <2>1, <2>3 DEF Begins
  <2>7. RowsHeld(t, more)
    <3>1. s.name_i <= Len(names) /\ Base(s.name_i) + s.char_i < CELLS
      BY <1>1, <1>5, <2>1, <2>5
    <3>2. \A i \in 1..s.name_i : HeldAt(t.cells, i - 1, more[i])
      BY <1>1, <1>4, <1>8, <2>6, <3>1, RowsKept
    <3> QED BY <1>1, <1>4, <3>2 DEF RowsHeld
  <2>8. Inside(t, more, path, m, m)
    <3>1. m \in 1..m /\ q + 1 = m - m + 1
      BY <1>6, <2>1
    <3>2. Within(path, m, m)
      BY <1>6 DEF Within
    <3>3. ASSUME NEW j \in 0..(q + 1 - 1) PROVE t.cells[b + j] = path[m + j]
      <4>1. j = 0 /\ b + j = b + q /\ m + j = m /\ b + q \in 0..(e - 1)
        BY <1>6, <2>1, <2>5
      <4>2. t.cells[b + q] = c
        BY <1>7, <4>1
      <4> QED BY <1>2, <4>1, <4>2
    <3> QED BY <1>4, <1>5, <2>3, <3>1, <3>2, <3>3 DEF Inside
  <2> QED BY <1>2, <1>3, <1>6, <2>7, <2>8 DEF Progress
<1>10. CASE \E i \in Nat : Inside(s, names, path, m - 1, i)
  <2>1. PICK i \in Nat : Inside(s, names, path, m - 1, i)
    BY <1>10
  <2>2. /\ i \in 1..(m - 1) /\ q = (m - 1) - i + 1
        /\ k = n + 1 /\ names[n + 1] = NameAt(path, i)
        /\ Within(path, i, m - 1)
        /\ \A j \in 0..(q - 1) : s.cells[b + j] = path[i + j]
    BY <1>1, <1>5, <2>1 DEF Inside
  <2>3. i \in 1..f /\ q = m - i /\ i < m
    BY <1>6, <2>2
  <2>4. path[i] # "/" /\ path[m - 1] # "/" /\ m # 1
    BY <1>6, <2>2 DEF Within
  <2>5. more = names
    BY <2>4 DEF Further, Start
  <2>6. Within(path, i, m)
    <3>1. ASSUME NEW x \in i..m PROVE path[x] # "/"
      <4>1. x = m \/ x \in i..(m - 1)
        BY <1>6, <2>3
      <4> QED BY <2>2, <4>1 DEF Within
    <3> QED BY <3>1 DEF Within
  <2>7. PICK l \in Nat : l = Len(NameAt(path, i)) /\ (Within(path, i, m) <=> m <= i + l - 1)
    <3>1. NameAt(path, i) \in Seq(S)
      BY <1>5, <2>3, <2>4, NameAtIs
    <3>2. m \in i..Len(path)
      BY <1>5, <1>6, <2>3
    <3> QED BY <1>5, <2>3, <2>4, <3>1, <3>2, NameAtIs, LenProperties
  <2>8. b + q < e
    <3>1. q <= l
      BY <1>6, <2>3, <2>6, <2>7
    <3>2. n + 1 <= Len(more) /\ Len(more) \in Nat /\ Len(more[n + 1]) \in Nat /\ q <= Len(more[n + 1])
      <4>1. Len(more) = k /\ Len(more[n + 1]) = l
        BY <1>5, <2>2, <2>5, <2>7, Zenon
      <4>2. n + 1 <= k
        BY <2>2
      <4> QED BY <3>1, <4>1, <4>2
    <3> QED BY <1>5, <3>2, PlaceFits
  <2>9. RowsHeld(t, more)
    <3>1. s.name_i <= Len(names) /\ Base(s.name_i) + s.char_i < CELLS
      BY <1>1, <1>5, <2>2, <2>8
    <3>2. Begins(names, more)
      BY <1>5, <2>5 DEF Begins
    <3>3. \A x \in 1..s.name_i : HeldAt(t.cells, x - 1, more[x])
      BY <1>1, <1>4, <1>8, <3>1, <3>2, RowsKept
    <3> QED BY <1>1, <1>4, <3>3 DEF RowsHeld
  <2>10. Inside(t, more, path, m, i)
    <3>1. i \in 1..m /\ q + 1 = m - i + 1
      BY <1>6, <2>3
    <3>2. ASSUME NEW j \in 0..(q + 1 - 1) PROVE t.cells[b + j] = path[i + j]
      <4>1. CASE j = q
        <5>1. b + j = b + q /\ i + j = m /\ b + q \in 0..(e - 1)
          BY <1>6, <2>3, <2>8, <4>1
        <5>2. t.cells[b + q] = c
          BY <1>7, <5>1
        <5> QED BY <1>2, <5>1, <5>2
      <4>2. CASE j # q
        <5>1. j \in 0..(q - 1) /\ b + j # b + q /\ b + j \in 0..(e - 1)
          BY <2>8, <4>2
        <5> QED BY <1>7, <2>2, <5>1
      <4> QED BY <4>1, <4>2
    <3>3. Len(more) = n + 1 /\ more[n + 1] = NameAt(path, i)
      BY <1>5, <2>2, <2>5
    <3> QED BY <1>4, <1>5, <2>6, <3>1, <3>2, <3>3 DEF Inside
  <2> QED BY <1>2, <1>3, <2>9, <2>10 DEF Progress
<1> QED BY <1>9, <1>10 DEF Progress

(* The end of a name, at a slash or at the end of the path.                *)
Ended(t, names) == RowsHeld(t, names) /\ t.char_i = 0 /\ Len(names) = t.name_i

LEMMA EndStep ==
  ASSUME NEW V, NUL \in V, NEW S \in SUBSET V, "/" \in V, NEW path \in Seq(S), NEW s \in State(V),
         NEW names \in Seq(Seq(S)), NEW k \in 0..Len(path), Progress(s, names, path, k), AllFit(names),
         \A i \in Nat : Inside(s, names, path, k, i) => Len(NameAt(path, i)) = s.char_i
  PROVE  Ended(Split(s, "/"), names)
<1>1. PICK n \in Nat, q \in Nat : n = s.name_i /\ q = s.char_i
  BY DEF State
<1>2. RowsHeld(s, names)
  BY DEF Progress
<1>3. CASE Between(s, names, path, k)
  <2>1. s.char_i = 0 /\ Len(names) = s.name_i
    BY <1>3 DEF Between
  <2>2. Split(s, "/") = s
    BY <2>1, Zenon DEF Split
  <2> QED BY <1>2, <2>1, <2>2 DEF Ended
<1>4. CASE \E i \in Nat : Inside(s, names, path, k, i)
  <2>1. PICK i \in Nat : Inside(s, names, path, k, i)
    BY <1>4
  <2>2. PICK b \in Nat, e \in Nat, m \in Nat, f \in Nat :
           b = Base(n) /\ e = CELLS /\ m = MINIX_MAX_NAME_LENGTH /\ f = Len(path)
    BY BaseType, RowSize, LenProperties
  <2>3. /\ i \in 1..k /\ q = k - i + 1
        /\ Len(names) = n + 1 /\ names[n + 1] = NameAt(path, i)
        /\ Within(path, i, k)
        /\ \A j \in 0..(q - 1) : s.cells[b + j] = path[i + j]
    BY <1>1, <2>1, <2>2 DEF Inside
  <2>4. i \in 1..f /\ q # 0 /\ k \in Nat
    BY <2>2, <2>3
  <2>5. path[i] # "/"
    BY <2>3, <2>4 DEF Within
  <2>6. PICK name : name = NameAt(path, i) /\ name = names[n + 1]
    BY <2>3
  <2>7. Len(name) = q /\ \A j \in 1..q : name[j] = path[i + j - 1]
    <3>1. Len(name) = q
      BY <1>1, <2>1, <2>6
    <3>2. \A j \in 1..Len(NameAt(path, i)) : NameAt(path, i)[j] = path[i + j - 1]
      BY <2>2, <2>4, <2>5, NameAtIs
    <3> QED BY <2>6, <3>1, <3>2, Zenon
  <2>8. PICK t \in State(V) : t = Split(s, "/")
    BY SplitType
  <2>9. t.name_i = n + 1 /\ t.char_i = 0 /\ Wrote(t, s, Base(n) + q, NUL)
    BY <1>1, <2>4, <2>8, SplitEnd
  <2>10. \A x \in 0..(e - 1) : t.cells[x] = IF x = b + q THEN NUL ELSE s.cells[x]
    BY <2>2, <2>9 DEF Wrote
  <2>11. b + q < e
    <3>1. Len(names) \in Nat /\ n + 1 <= Len(names)
      BY <2>3
    <3>2. Len(names[n + 1]) \in Nat /\ q <= Len(names[n + 1])
      BY <2>6, <2>7
    <3> QED BY <2>2, <3>1, <3>2, PlaceFits
  <2>12. \A x \in 1..n : HeldAt(t.cells, x - 1, names[x])
    <3>1. s.name_i <= Len(names) /\ Base(s.name_i) + s.char_i < CELLS
      BY <1>1, <2>2, <2>3, <2>11
    <3>2. Begins(names, names)
      BY <2>3 DEF Begins
    <3> QED BY <1>1, <1>2, <2>9, <3>1, <3>2, RowsKept
  <2>13. HeldAt(t.cells, n, name)
    <3>1. ASSUME NEW j \in 0..m, j < q PROVE t.cells[b + j] = name[j + 1]
      <4>1. j \in 0..(q - 1) /\ b + j # b + q /\ b + j \in 0..(e - 1) /\ j + 1 \in 1..q
            /\ i + (j + 1) - 1 = i + j
        BY <2>11, <3>1
      <4>2. t.cells[b + j] = path[i + j]
        BY <2>3, <2>10, <4>1
      <4>3. name[j + 1] = path[i + j]
        BY <2>7, <4>1
      <4> QED BY <4>2, <4>3
    <3>2. t.cells[b + q] = NUL
      <4>1. b + q \in 0..(e - 1)
        BY <2>11
      <4> QED BY <2>10, <4>1
    <3> QED BY <2>2, <2>7, <3>1, <3>2 DEF HeldAt
  <2>14. RowsHeld(t, names)
    <3>1. ASSUME NEW x \in 1..(n + 1) PROVE HeldAt(t.cells, x - 1, names[x])
      <4>1. CASE x = n + 1
        <5>1. x - 1 = n
          BY <4>1
        <5> QED BY <2>6, <2>13, <4>1, <5>1
      <4>2. CASE x # n + 1
        <5>1. x \in 1..n
          BY <4>2
        <5> QED BY <2>12, <5>1
      <4> QED BY <4>1, <4>2
    <3> QED BY <2>9, <3>1 DEF RowsHeld
  <2> QED BY <2>3, <2>8, <2>9, <2>14 DEF Ended
<1> QED BY <1>3, <1>4 DEF Progress

(* A slash in the path.                                                    *)
LEMMA SlashStep ==
  ASSUME NEW V, NUL \in V, NEW S \in SUBSET V, "/" \in V, NEW path \in Seq(S), NEW s \in State(V),
         NEW names \in Seq(Seq(S)), NEW more, NEW m \in 1..Len(path), path[m] = "/",
         Progress(s, names, path, m - 1), Further(more, names, path, m), AllFit(more)
  PROVE  Progress(Split(s, path[m]), more, path, m)
<1>1. PICK f \in Nat, k \in 0..Len(path) : f = Len(path) /\ k = m - 1 /\ m \in Nat /\ m >= 1 /\ m <= f
  BY LenProperties
<1>2. more = names
  BY DEF Further, Start
<1>3. ASSUME NEW i \in Nat, Inside(s, names, path, k, i)
      PROVE  Len(NameAt(path, i)) = s.char_i
  <2>1. i \in 1..k /\ s.char_i = k - i + 1 /\ Within(path, i, k)
    BY <1>3 DEF Inside
  <2>2. i \in 1..f /\ k \in i..f /\ m \in i..f
    BY <1>1, <2>1
  <2>3. path[i] # "/"
    BY <2>1, <2>2 DEF Within
  <2>4. ~Within(path, i, m)
    <3>1. m \in i..m
      BY <2>2
    <3> QED BY <3>1 DEF Within
  <2>5. PICK l \in Nat : /\ l = Len(NameAt(path, i))
                         /\ (Within(path, i, m) <=> m <= i + l - 1)
                         /\ (Within(path, i, k) <=> k <= i + l - 1)
    <3>1. Len(NameAt(path, i)) \in Nat
      BY <1>1, <2>2, <2>3, NameAtIs, LenProperties
    <3>2. \A j \in i..Len(path) : Within(path, i, j) <=> j <= i + Len(NameAt(path, i)) - 1
      BY <1>1, <2>2, <2>3, NameAtIs
    <3> QED BY <1>1, <2>2, <3>1, <3>2
  <2>6. ~(m <= i + l - 1) /\ k <= i + l - 1
    BY <2>1, <2>4, <2>5
  <2>7. l = k - i + 1
    BY <1>1, <2>6
  <2> QED BY <2>1, <2>5, <2>7
<1>4. Ended(Split(s, "/"), names)
  BY <1>1, <1>2, <1>3, EndStep
<1>5. PICK t : t = Split(s, path[m]) /\ Ended(t, names)
  BY <1>4
<1>6. Between(t, more, path, m)
  BY <1>2, <1>5 DEF Ended, Between
<1>7. RowsHeld(t, more)
  BY <1>2, <1>5 DEF Ended
<1> QED BY <1>5, <1>6, <1>7 DEF Progress

(* The end of the path.                                                    *)
LEMMA LastStep ==
  ASSUME NEW V, NUL \in V, NEW S \in SUBSET V, "/" \in V, NEW path \in Seq(S), NEW s \in State(V),
         NEW names \in Seq(Seq(S)), Progress(s, names, path, Len(path)), AllFit(names)
  PROVE  Ended(Split(s, "/"), names)
<1>1. PICK f \in 0..Len(path) : f = Len(path) /\ f \in Nat
  BY LenProperties
<1>2. ASSUME NEW i \in Nat, Inside(s, names, path, f, i)
      PROVE  Len(NameAt(path, i)) = s.char_i
  <2>1. i \in 1..f /\ s.char_i = f - i + 1 /\ Within(path, i, f)
    BY <1>2 DEF Inside
  <2>2. f \in i..f
    BY <1>1, <2>1
  <2>3. path[i] # "/"
    BY <2>1, <2>2 DEF Within
  <2>4. PICK l \in Nat : /\ l = Len(NameAt(path, i)) /\ i + l - 1 \in i..f
                         /\ (Within(path, i, f) <=> f <= i + l - 1)
    <3>1. Len(NameAt(path, i)) \in Nat /\ i + Len(NameAt(path, i)) - 1 \in i..f
      BY <1>1, <2>1, <2>3, NameAtIs, LenProperties
    <3>2. \A j \in i..Len(path) : Within(path, i, j) <=> j <= i + Len(NameAt(path, i)) - 1
      BY <1>1, <2>1, <2>3, NameAtIs
    <3> QED BY <1>1, <2>2, <3>1, <3>2
  <2> QED BY <1>1, <2>1, <2>4
<1> QED BY <1>1, <1>2, EndStep

(* A row that holds a name matches its entries.                            *)
LEMMA RowMatch ==
  ASSUME NEW S, NUL \notin S, NEW name \in Seq(S), NEW cells, NEW i, HeldAt(cells, i, name)
  PROVE  Match(Row(cells, i), name)
<1>1. PICK row : row = Row(cells, i)
  OBVIOUS
<1>2. PICK m \in Nat, n \in Nat : m = MINIX_MAX_NAME_LENGTH /\ n = Len(name)
  BY RowSize, LenProperties
<1>3. \A j \in 0..m : row[j] = cells[Base(i) + j]
  BY <1>1, <1>2 DEF Row, Base
<1>4. Held(row, name)
  <2>1. ASSUME NEW j \in 0..m, j < n PROVE row[j] = name[j + 1]
    BY <1>2, <1>3, <2>1 DEF HeldAt
  <2>2. ASSUME n <= m PROVE row[n] = NUL
    <3>1. n \in 0..m
      BY <2>2
    <3> QED BY <1>2, <1>3, <2>2, <3>1 DEF HeldAt
  <2> QED BY <1>2, <2>1, <2>2 DEF Held
<1>5. NUL \notin Range(name)
  <2>1. \A j \in DOMAIN name : name[j] \in S
    BY LenProperties
  <2> QED BY <2>1 DEF Range
<1> QED BY <1>1, <1>4, <1>5, HeldMatch

LEMMA RowsMatch ==
  ASSUME NEW path \in Path, StaysInside(path)
  PROVE  Matched(split_path(path), Names(path))
<1>1. PICK S : path \in Seq(S) /\ NUL \notin S
  BY FsAssumption
<1>2. PICK V : S \in SUBSET V /\ NUL \in V /\ NULL \in V /\ "/" \in V
  <2>1. PICK V : V = S \cup {"/", NUL, NULL}
    OBVIOUS
  <2>2. S \in SUBSET V /\ NUL \in V /\ NULL \in V /\ "/" \in V
    BY <2>1
  <2> QED BY <2>2
<1>3. PICK n \in Nat, chars \in {path \o <<"/">>} : n = Len(path) /\ chars = path \o <<"/">>
  BY <1>1, LenProperties
<1>4. /\ chars \in Seq(V) /\ Len(chars) = n + 1 /\ chars[n + 1] = "/"
      /\ \A k \in 1..n : chars[k] = path[k]
  <2>1. PICK y : y = <<"/">> /\ y \in Seq(V) /\ Len(y) = 1 /\ y[1] = "/"
    <3>1. <<"/">> \in Seq(V)
      BY <1>2
    <3>2. Len(<<"/">>) = 1 /\ <<"/">>[1] = "/"
      OBVIOUS
    <3> QED BY <3>1, <3>2, Zenon
  <2>2. path \in Seq(V)
    BY <1>1, <1>2
  <2>3. chars = path \o y
    BY <1>3, <2>1, Zenon
  <2>4. /\ chars \in Seq(V) /\ Len(chars) = n + 1
        /\ \A k \in 1..(n + 1) : chars[k] = IF k <= n THEN path[k] ELSE y[k - n]
    BY <1>3, <2>1, <2>2, <2>3, ConcatProperties
  <2>5. n + 1 \in 1..(n + 1) /\ ~(n + 1 <= n) /\ n + 1 - n = 1
    OBVIOUS
  <2> QED BY <2>1, <2>4, <2>5
<1>5. PICK g : /\ IsSplit(g, chars)
               /\ split_path(path) = IF path = <<>> \/ path[1] # "/" THEN <<>> ELSE Rows(g[Len(chars)])
  BY <1>2, <1>3, <1>4, SplitPathIs
<1>6. CASE path = <<>> \/ path[1] # "/"
  <2>1. split_path(path) = <<>>
    BY <1>5, <1>6, Zenon
  <2>2. Names(path) = <<>>
    BY <1>6, Zenon DEF Names
  <2>3. Matched(<<>>, <<>>)
    BY DEF Matched
  <2> QED BY <2>1, <2>2, <2>3
<1>7. CASE ~(path = <<>> \/ path[1] # "/")
  <2>1. PICK rows, t : rows = split_path(path) /\ t = g[n + 1] /\ rows = Rows(t)
    BY <1>4, <1>5, <1>7, Zenon
  <2>2. PICK h : IsNames(h, path) /\ Names(path) = h[n]
    BY <1>1, <1>3, <1>7, NamesIs
  <2>3. Growing(h, path) /\ \A k \in 0..n : h[k] \in Seq(Seq(S))
    BY <1>1, <1>3, <2>2, NamesGrow
  <2>4. PICK names : names = Names(path) /\ names = h[n]
    BY <2>2
  <2>5. /\ \A k \in 0..(n + 1) : g[k] \in State(V)
        /\ g[0] = Blank /\ \A k \in 1..(n + 1) : g[k] = Split(g[k - 1], chars[k])
    <3>1. /\ g \in [0..Len(chars) -> State(V)] /\ g[0] = Blank
          /\ \A k \in 1..Len(chars) : g[k] = Split(g[k - 1], chars[k])
      BY <1>2, <1>4, <1>5, SplitTyped
    <3>2. g \in [0..(n + 1) -> State(V)] /\ \A k \in 1..(n + 1) : g[k] = Split(g[k - 1], chars[k])
      BY <1>4, <3>1, Zenon
    <3> QED BY <3>1, <3>2
  <2>6. ASSUME NEW k \in 0..n PROVE AllFit(h[k])
    <3>1. Begins(h[k], names)
      BY <1>1, <1>3, <2>3, <2>4, NamesStay
    <3>2. \A i \in DOMAIN names : (i - 1) * ROW + Len(names[i]) < PATH_COMPONENTS * ROW
      BY <2>4, Zenon DEF StaysInside
    <3>3. \A i \in DOMAIN names : Base(i - 1) + Len(names[i]) < CELLS
      BY <3>2, Zenon DEF Base, CELLS
    <3>4. PICK Q : Q = Seq(S) /\ names \in Seq(Q) /\ h[k] \in Seq(Q)
      BY <2>3, <2>4
    <3>5. DOMAIN names = 1..Len(names) /\ Len(names) \in Nat /\ Len(h[k]) \in Nat
      BY <3>4, LenProperties
    <3>6. ASSUME NEW i \in 1..Len(h[k]) PROVE i \in DOMAIN names /\ h[k][i] = names[i]
      BY <3>1, <3>5 DEF Begins
    <3> QED BY <3>3, <3>6 DEF AllFit
  <2>7. PICK P : P = {k \in 0..n : Progress(g[k], h[k], path, k)}
    OBVIOUS
  <2>8. 0 \in P
    <3>1. PICK s : s = g[0] /\ s.name_i = 0 /\ s.char_i = 0
      BY <2>5 DEF Blank
    <3>2. PICK x : x = h[0] /\ Len(x) = 0
      <4>1. h[0] = <<>>
        BY <2>3 DEF Growing
      <4> QED BY <4>1
    <3>3. RowsHeld(s, x)
      BY <3>1 DEF RowsHeld
    <3>4. Between(s, x, path, 0)
      BY <3>1, <3>2 DEF Between
    <3>5. Progress(g[0], h[0], path, 0)
      BY <3>1, <3>2, <3>3, <3>4 DEF Progress
    <3> QED BY <2>7, <3>5
  <2>9. ASSUME NEW k \in 1..n, k - 1 \in P PROVE k \in P
    <3>1. k - 1 \in 0..n /\ k \in 0..n /\ k - 1 \in 0..(n + 1) /\ k \in 1..(n + 1)
      OBVIOUS
    <3>2. PICK s \in State(V), a \in Seq(Seq(S)), b \in Seq(Seq(S)) : s = g[k - 1] /\ a = h[k - 1] /\ b = h[k]
      BY <2>3, <2>5, <3>1
    <3>3. Progress(s, a, path, k - 1)
      BY <2>7, <2>9, <3>2
    <3>4. Further(b, a, path, k)
      BY <1>3, <2>3, <3>2 DEF Growing
    <3>5. AllFit(b)
      BY <2>6, <3>1, <3>2
    <3>6. Progress(Split(s, path[k]), b, path, k)
      <4>1. k \in 1..Len(path)
        BY <1>3
      <4>2. CASE path[k] # "/"
        BY <1>1, <1>2, <3>3, <3>4, <3>5, <4>1, <4>2, CharStep
      <4>3. CASE path[k] = "/"
        BY <1>1, <1>2, <3>3, <3>4, <3>5, <4>1, <4>3, SlashStep
      <4> QED BY <4>2, <4>3
    <3>7. g[k] = Split(s, path[k])
      BY <1>4, <2>5, <3>1, <3>2
    <3> QED BY <2>7, <3>1, <3>2, <3>6, <3>7
  <2>10. n \in P
    <3>1. 0..n \subseteq P
      BY <2>8, <2>9, Climb DEF Steps
    <3> QED BY <3>1
  <2>11. PICK s \in State(V) : s = g[n]
    BY <2>5
  <2>12. names \in Seq(Seq(S)) /\ AllFit(names) /\ Progress(s, names, path, Len(path))
    BY <1>3, <2>3, <2>4, <2>6, <2>7, <2>10, <2>11
  <2>13. t = Split(s, "/")
    <3>1. n + 1 \in 1..(n + 1) /\ n + 1 - 1 = n
      OBVIOUS
    <3> QED BY <1>4, <2>1, <2>5, <2>11, <3>1
  <2>14. Ended(t, names)
    BY <1>1, <1>2, <2>12, <2>13, LastStep
  <2>15. PICK m \in Nat : m = t.name_i /\ m = Len(names)
    <3>1. Len(names) \in Nat
      BY <2>12, LenProperties
    <3> QED BY <2>14, <3>1 DEF Ended
  <2>16. Len(rows) = m /\ \A i \in 1..m : rows[i] = Row(t.cells, i - 1)
    BY <2>1, <2>15 DEF Rows
  <2>17. ASSUME NEW i \in 1..m PROVE Match(rows[i], names[i])
    <3>1. PICK name, p, c : name = names[i] /\ p = i - 1 /\ c = t.cells
      OBVIOUS
    <3>2. HeldAt(c, p, name)
      BY <2>14, <2>15, <3>1 DEF Ended, RowsHeld
    <3>3. name \in Seq(S)
      <4>1. PICK Q : Q = Seq(S) /\ names \in Seq(Q)
        BY <2>12
      <4>2. name \in Q
        BY <2>15, <3>1, <4>1, ElementOfSeq
      <4> QED BY <4>1, <4>2
    <3>4. Match(Row(c, p), name)
      BY <1>1, <3>2, <3>3, RowMatch
    <3> QED BY <2>16, <3>1, <3>4
  <2>18. Matched(rows, names)
    BY <2>15, <2>16, <2>17 DEF Matched
  <2> QED BY <2>1, <2>4, <2>18
<1> QED BY <1>6, <1>7

----------------------------------------------------------------------------
(* OpenFollowsThePath.                                                     *)

(* A disk that does not change keeps its directories.                      *)
LEMMA SameDown ==
  ASSUME image' = image, NEW n, NEW name
  PROVE  Down(n, name)' = Down(n, name)
<1>1. PICK dir : dir = read_inode(n) /\ dir = read_inode(n)'
  BY DEF read_inode, read_block
<1>2. ASSUME NEW p PROVE WordAt(read_inode(n), p)' = WordAt(dir, p)
  <2>1. WordAt(dir, p)' = WordAt(dir, p)
    BY SameWords
  <2>2. WordAt(read_inode(n), p)' = WordAt(dir, p)'
    BY <1>1, Zenon DEF WordAt, ZoneAt, read_block
  <2> QED BY <2>1, <2>2
<1>3. ASSUME NEW p PROVE Entry(read_inode(n), name, p)' <=> Entry(dir, name, p)
  <2>1. PICK x, y, q : q = p + 1 /\ x = WordAt(dir, p) /\ y = WordAt(dir, q)
    OBVIOUS
  <2>2. x = WordAt(read_inode(n), p)' /\ y = WordAt(read_inode(n), q)'
    BY <1>2, <2>1
  <2>3. Entry(dir, name, p) <=> x # 0 /\ name_equal(entry_name(y), name)
    BY <2>1, Zenon DEF Entry
  <2>4. Entry(read_inode(n), name, p)' <=> x # 0 /\ name_equal(entry_name(y), name)
    BY <2>1, <2>2, Zenon DEF Entry, name_equal, entry_name
  <2> QED BY <2>3, <2>4
<1>4. PICK H : H = Hits(dir, name, 0) /\ H = Hits(read_inode(n), name, 0)'
  BY <1>1, <1>3 DEF Hits
<1>5. First(dir, name, 0) = IF H = {} THEN 0 ELSE WordAt(dir, 0 + 2 * Min(H))
  BY <1>4, Zenon DEF First
<1>6. First(read_inode(n), name, 0)' = IF H = {} THEN 0 ELSE WordAt(read_inode(n), 0 + 2 * Min(H))'
  BY <1>4, Zenon DEF First
<1>7. First(read_inode(n), name, 0)' = First(dir, name, 0)
  BY <1>2, <1>5, <1>6
<1>8. Down(n, name) = IF n # 0 /\ dir.dir THEN First(dir, name, 0) ELSE 0
  BY <1>1 DEF Down
<1>9. Down(n, name)' = IF n # 0 /\ dir.dir THEN First(read_inode(n), name, 0)' ELSE 0
  BY <1>1, Zenon DEF Down
<1> QED BY <1>7, <1>8, <1>9

(* The way that the last vfs_open went.                                    *)
Went(p, r) ==
  /\ StaysInside(p) /\ last.path = p
  /\ r \in [0..Len(split_path(p)) -> 0..image.s_ninodes] /\ Way(r, split_path(p))
  /\ f_inode = Inode(r[Len(split_path(p))])

Found == last.call = "open" => \E p \in Path : \E r : Went(p, r)
PathInv == Healthy /\ Found

LEMMA FoundFollows ==
  ASSUME Healthy, Found PROVE OpenFollowsThePath
<1>1. SUFFICES ASSUME last.call = "open"
               PROVE  f_inode = IF Named(last.path) = 0 THEN NULL ELSE read_inode(Named(last.path))
  BY DEF OpenFollowsThePath
<1>2. PICK p \in Path : \E r : Went(p, r)
  BY <1>1 DEF Found
<1>3. PICK r : Went(p, r)
  BY <1>2
<1>4. PICK rows, names : rows = split_path(p) /\ names = Names(p)
  OBVIOUS
<1>5. Matched(rows, names)
  BY <1>3, <1>4, RowsMatch DEF Went
<1>6. r \in [0..Len(rows) -> 0..image.s_ninodes] /\ Way(r, rows) /\ f_inode = Inode(r[Len(rows)])
  BY <1>3, <1>4, Zenon DEF Went
<1>7. Named(p) = r[Len(rows)]
  BY <1>4, <1>5, <1>6, NamedIs
<1>8. last.path = p
  BY <1>3 DEF Went
<1> QED BY <1>6, <1>7, <1>8, Zenon DEF Inode

LEMMA FoundOpen ==
  ASSUME Healthy, image' = image, NEW p \in Path, StaysInside(p), last'.path = p, f_inode' = Walk(p)
  PROVE  Found'
<1>1. PICK rows : rows = split_path(p)
  OBVIOUS
<1>2. Len(rows) \in Nat
  BY <1>1, RowsMatch DEF Matched
<1>3. PICK r \in [0..Len(rows) -> 0..image.s_ninodes] : Way(r, rows)
  BY <1>2, WayExists
<1>4. Walk(p) = Inode(r[Len(rows)])
  BY <1>1, <1>2, <1>3, WalkIs
<1>5. Way(r, rows)'
  BY <1>3, SameDown DEF Way
<1>6. PICK x : x = r[Len(rows)]
  OBVIOUS
<1>7. f_inode' = Inode(x)'
  BY <1>4, <1>6, SameDisk
<1>8. Went(p, r)'
  BY <1>1, <1>3, <1>5, <1>6, <1>7, Zenon DEF Went, Inode, Way
<1> QED BY <1>8 DEF Found

LEMMA FoundStays ==
  ASSUME Found, image' = image, f_inode' = f_inode, last' = last
  PROVE  Found'
<1>1. SUFFICES ASSUME last.call = "open" PROVE \E p \in Path : \E r : Went(p, r)'
  BY DEF Found
<1>2. PICK p \in Path : \E r : Went(p, r)
  BY <1>1 DEF Found
<1>3. PICK r : Went(p, r)
  BY <1>2
<1>4. PICK rows, x : rows = split_path(p) /\ x = r[Len(rows)]
  OBVIOUS
<1>5. StaysInside(p) /\ last.path = p /\ r \in [0..Len(rows) -> 0..image.s_ninodes] /\ Way(r, rows)
      /\ f_inode = Inode(x)
  BY <1>3, <1>4, Zenon DEF Went
<1>6. Way(r, rows)'
  BY <1>5, SameDown DEF Way
<1>7. f_inode' = Inode(x)'
  BY <1>5, SameDisk
<1>8. Went(p, r)'
  BY <1>4, <1>5, <1>6, <1>7, Zenon DEF Went, Inode, Way
<1> QED BY <1>8

LEMMA PathStep ==
  ASSUME PathInv, [Next]_vars
  PROVE  PathInv'
<1> USE DEF PathInv
<1>1. image' = image
  BY DEF Next, vfs_open, read_elf, page_in, ReadFails, vfs_close, vars
<1>2. Healthy'
  BY <1>1, SameDisk
<1>3. ASSUME NEW p \in Path, vfs_open(p) PROVE Found'
  <2>1. StaysInside(p) /\ last'.path = p /\ f_inode' = Walk(p)
    BY <1>3 DEF vfs_open
  <2> QED BY <1>1, <2>1, FoundOpen
<1>4. ASSUME last'.call # "open" PROVE Found'
  BY <1>4 DEF Found
<1>5. ASSUME NEW a \in Offset, NEW n \in Count, read_elf(a, n) PROVE last'.call # "open"
  BY <1>5 DEF read_elf
<1>6. ASSUME NEW a \in Offset, page_in(a) PROVE last'.call # "open"
  BY <1>6 DEF page_in
<1>7. ASSUME ReadFails \/ vfs_close PROVE last'.call # "open"
  BY <1>7 DEF ReadFails, vfs_close
<1>8. ASSUME UNCHANGED vars PROVE Found'
  BY <1>1, <1>8, FoundStays DEF vars
<1> QED BY <1>2, <1>3, <1>4, <1>5, <1>6, <1>7, <1>8 DEF Next

(* vfs_open finds the inode that the path names, and none when the path    *)
(* names none: OpenFollowsThePath, for all directories, names and paths    *)
(* that stay inside the array of components.                               *)
THEOREM PathsAreFollowed == Spec => []OpenFollowsThePath
<1>1. Init => PathInv
  <2>1. SUFFICES ASSUME Init PROVE PathInv
    OBVIOUS
  <2>2. Healthy
    BY <2>1, ConsistentHealthy DEF Init
  <2>3. Found
    BY <2>1 DEF Init, Found
  <2> QED BY <2>2, <2>3 DEF PathInv
<1>2. PathInv /\ [Next]_vars => PathInv'
  BY PathStep
<1>3. PathInv => OpenFollowsThePath
  BY FoundFollows DEF PathInv
<1> QED BY <1>1, <1>2, <1>3, PTL DEF Spec
=============================================================================
