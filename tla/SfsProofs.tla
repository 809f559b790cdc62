----------------------------- MODULE SfsProofs -----------------------------
(***************************************************************************)
(* Proofs about SfsFile, for any number of files, descriptors and blocks,  *)
(* any size of a block and any size of a file.                             *)
(*                                                                         *)
(* An operation works on a view of one file; what is said of a view (Fits) *)
(* leaves room for the blocks of the other files, so that the block map is *)
(* followed through GetDirect, GetEntry, Load, Drop, TruncFile and IoBlock *)
(* without them.  Cells of a file are compared (Cell) and not the blocks   *)
(* that hold them.  The invariant (SfsInv) puts the views together: every  *)
(* block is free or in one place of one file, the cells behind the end of  *)
(* a file are zero, and an inode is in memory and dirty or as on disk.     *)
(*                                                                         *)
(* From it follow the properties of SfsFile, and that every step is one of *)
(* FlatFile: a cell is a byte (ContentIs), and so what an operation did to *)
(* the cells is what FlatFile says of the bytes.                           *)
(***************************************************************************)
EXTENDS SfsFile, Sequences, FiniteSetTheorems, TLAPS

\* Every set of numbers that is not empty has a smallest one.
LEMMA Smallest ==
  ASSUME NEW S, S \subseteq Nat, S # {}
  PROVE  \E x \in S : \A y \in S : x <= y
  <1>1. PICK x \in S : \A y \in S : ~(<<y, x>> \in OpToRel(<, Nat))
    BY NatLessThanWellFounded, WFMin
  <1>2. \A y \in S : ~(y < x)
    BY <1>1 DEF OpToRel
  <1> QED BY <1>2

\* Round after round.
LEMMA Rounds ==
  ASSUME NEW n \in Nat, NEW B, 0 \in B, \A k \in 1..n : k - 1 \in B => k \in B
  PROVE  \A k \in 0..n : k \in B
  <1> SUFFICES ASSUME ~ \A k \in 0..n : k \in B PROVE FALSE
    OBVIOUS
  <1> DEFINE Out == {k \in 0..n : k \notin B}
  <1>1. Out \subseteq Nat /\ Out # {}
    OBVIOUS
  <1>2. PICK k \in Out : \A l \in Out : k <= l
    BY <1>1, Smallest
  <1>3. k \in 0..n /\ k # 0 /\ k - 1 \in 0..n /\ ~(k <= k - 1)
    BY <1>2
  <1>4. k - 1 \in B
    BY <1>2, <1>3
  <1> QED BY <1>2, <1>3, <1>4

\* The numbers that a block, and a file of several blocks, begin with.
LEMMA Sizes ==
  /\ BlkSize \in Nat \ {0} /\ NDirect \in Nat \ {0} /\ NEntry = BlkSize /\ Cells = 0..BlkSize-1
  /\ Indirect \in Nat /\ Indirect = NDirect + BlkSize
  /\ 0 \notin Blocks /\ Blocks \subseteq Nat /\ IsFiniteSet(Blocks)
  /\ MaxSize \in Nat \ {0} /\ MaxLen \in Nat \ {0} /\ MaxLen <= BlkSize
  BY SfsAssumption DEF NEntry, Cells, Indirect

\* Blocks lie behind each other.
LEMMA Multiples ==
  ASSUME NEW i \in Nat, NEW j \in Nat
  PROVE  /\ i * BlkSize \in Nat /\ (i + 1) * BlkSize = i * BlkSize + BlkSize
         /\ i < j => i * BlkSize + BlkSize <= j * BlkSize
         /\ i <= j => i * BlkSize <= j * BlkSize
  <1>1. BlkSize \in Nat \ {0}
    BY Sizes
  <1> DEFINE B == BlkSize
  <1>2. i * B \in Nat /\ (i + 1) * B = i * B + B
    BY <1>1
  <1>3. ASSUME i < j PROVE i * B + B <= j * B
    <2>1. PICK k \in Nat : j = i + 1 + k
      <3>1. j - i - 1 \in Nat /\ j = i + 1 + (j - i - 1)
        BY <1>3
      <3> QED BY <3>1
    <2>2. k * B \in Nat
      BY <1>1
    <2>3. j * B = i * B + B + k * B
      BY <1>1, <2>1
    <2> DEFINE p == i * B
               q == k * B
               r == j * B
    <2>4. p \in Nat /\ q \in Nat /\ r = p + B + q /\ B \in Nat
      BY <1>1, <1>2, <2>2, <2>3
    <2> HIDE DEF p, q, r, B
    <2>5. p + B <= r
      BY <2>4
    <2> QED BY <2>5 DEF p, r
  <1> HIDE DEF B
  <1>4. ASSUME i <= j PROVE i * B <= j * B
    BY <1>1, <1>2, <1>3, <1>4 DEF B
  <1> QED BY <1>2, <1>3, <1>4 DEF B

\* A position is a block and a cell.
LEMMA Position ==
  ASSUME NEW n \in Nat
  PROVE  \E i \in Nat, c \in Cells : i = n \div BlkSize /\ c = n % BlkSize /\ n = i * BlkSize + c
  <1>1. BlkSize \in Nat /\ BlkSize > 0 /\ Cells = 0..BlkSize-1
    BY Sizes
  <1> DEFINE i == n \div BlkSize
             c == n % BlkSize
  <1>2. i \in Int /\ c \in 0..BlkSize-1 /\ i >= 0
    BY <1>1
  <1>3. i = n \div BlkSize /\ c = n % BlkSize
    OBVIOUS
  <1> HIDE DEF i, c
  <1>4. n = i * BlkSize + c
    BY <1>1, <1>3
  <1> QED BY <1>1, <1>2, <1>3, <1>4

\* And only one.
LEMMA OnePosition ==
  ASSUME NEW i \in Nat, NEW j \in Nat, NEW c \in Cells, NEW e \in Cells,
         i * BlkSize + c = j * BlkSize + e
  PROVE  i = j /\ c = e
  <1>1. c \in Nat /\ e \in Nat /\ c < BlkSize /\ e < BlkSize /\ BlkSize \in Nat
    BY Sizes
  <1>2. i * BlkSize \in Nat /\ j * BlkSize \in Nat
    BY Multiples
  <1>3. ~(i < j)
    BY <1>1, <1>2, Multiples
  <1>4. ~(j < i)
    BY <1>1, <1>2, Multiples
  <1>5. i = j
    BY <1>3, <1>4
  <1> QED BY <1>1, <1>2, <1>5

\* The number of blocks for n bytes.
LEMMA CeilOK ==
  ASSUME NEW n \in Nat
  PROVE  /\ Ceil(n) \in Nat /\ n <= Ceil(n) * BlkSize /\ Ceil(n) * BlkSize < n + BlkSize
  <1>1. BlkSize \in Nat /\ BlkSize > 0
    BY Sizes
  <1>2. n + BlkSize - 1 \in Nat /\ Ceil(n) = (n + BlkSize - 1) \div BlkSize
    BY <1>1 DEF Ceil
  <1>3. PICK i \in Nat, c \in Cells : i = (n + BlkSize - 1) \div BlkSize /\ n + BlkSize - 1 = i * BlkSize + c
    BY <1>2, Position
  <1>4. c \in Nat /\ c < BlkSize /\ i * BlkSize \in Nat
    BY <1>3, Sizes, Multiples
  <1>5. Ceil(n) = i
    BY <1>2, <1>3
  <1>6. n <= i * BlkSize /\ i * BlkSize < n + BlkSize
    BY <1>1, <1>3, <1>4
  <1> QED BY <1>5, <1>6

\* No block for no byte.
LEMMA CeilOfNone == Ceil(0) = 0
  <1>1. Ceil(0) \in Nat /\ Ceil(0) * BlkSize < BlkSize /\ BlkSize \in Nat
    <2>1. 0 + BlkSize = BlkSize /\ BlkSize \in Nat
      BY Sizes
    <2> QED BY <2>1, CeilOK
  <1>2. 0 * BlkSize = 0
    BY <1>1
  <1>3. ~(0 < Ceil(0))
    BY <1>1, <1>2, Multiples
  <1> QED BY <1>1, <1>3

\* Block i is needed for n bytes if it begins before their end.
LEMMA CeilBelow ==
  ASSUME NEW n \in Nat, NEW i \in Nat
  PROVE  /\ i < Ceil(n) <=> i * BlkSize < n
         /\ \A c \in Cells : i * BlkSize + c < n => i < Ceil(n)
  <1>1. Ceil(n) \in Nat /\ n <= Ceil(n) * BlkSize /\ Ceil(n) * BlkSize < n + BlkSize
    BY CeilOK
  <1>2. BlkSize \in Nat /\ i * BlkSize \in Nat /\ Ceil(n) * BlkSize \in Nat
    BY <1>1, Sizes, Multiples
  <1>3. i < Ceil(n) => i * BlkSize + BlkSize <= Ceil(n) * BlkSize
    BY <1>1, Multiples
  <1>4. Ceil(n) <= i => Ceil(n) * BlkSize <= i * BlkSize
    BY <1>1, Multiples
  <1>5. i < Ceil(n) <=> i * BlkSize < n
    <2> HIDE DEF Ceil
    <2> QED BY <1>1, <1>2, <1>3, <1>4
  <1>6. ASSUME NEW c \in Cells, i * BlkSize + c < n PROVE i < Ceil(n)
    <2>1. c \in Nat
      BY Sizes
    <2> QED BY <1>2, <1>5, <1>6, <2>1
  <1> QED BY <1>5, <1>6

\* No fewer blocks for more bytes.
LEMMA CeilOrder ==
  ASSUME NEW m \in Nat, NEW n \in Nat, m <= n
  PROVE  Ceil(m) <= Ceil(n)
  <1>1. Ceil(m) \in Nat /\ Ceil(n) \in Nat
    BY CeilOK
  <1>2. CASE Ceil(n) < Ceil(m)
    <2>1. Ceil(n) * BlkSize < m
      BY <1>1, <1>2, CeilBelow
    <2>2. n <= Ceil(n) * BlkSize /\ Ceil(n) * BlkSize \in Nat
      BY <1>1, CeilOK, Multiples
    <2> QED BY <2>1, <2>2
  <1> QED BY <1>1, <1>2

-----------------------------------------------------------------------------
(* What is said of a view. *)

\* An inode, with any size.
InodeType ==
  [size : Nat, blocks : 0..Indirect, direct : [0..NDirect-1 -> Blocks \cup {0}], indirect : Blocks \cup {0}]

\* The blocks on disk.
DataType == [Blocks -> [Cells -> Nat]]

\* A view of a file and the disk, on the way.
ViewType ==
  [ino : InodeType, free : SUBSET Blocks, super : BOOLEAN, data : DataType, dirty : BOOLEAN,
   err : {"none", "no_space"} \cup Panics, done : Nat]

\* The block at place x of the map, of which the last is the indirect block itself.
At(ino, d, x) == IF x = Indirect THEN ino.indirect ELSE BlockAt(ino, d, x)

\* The places of a map, and those of them that are for blocks of the file.
Places == 0..Indirect
Indexes == 0..Indirect-1

\* The blocks of an inode: those below its number of blocks are there, and no others.
MapOK(ino, d) ==
  /\ \A x \in Places : At(ino, d, x) \in Blocks \cup {0}
  /\ \A i \in Indexes : At(ino, d, i) # 0 <=> i < ino.blocks
  /\ \A x, y \in Places : At(ino, d, x) = At(ino, d, y) /\ At(ino, d, x) # 0 => x = y

\* Every block is free, in X or in the map of s, and only one of these; those of X are as in d.
Fits(s, X, d) ==
  /\ s \in ViewType
  /\ MapOK(s.ino, s.data)
  /\ \A b \in X : b \in Blocks /\ b \notin s.free /\ s.data[b] = d[b]
  /\ \A x \in Places : At(s.ino, s.data, x) \notin X /\ At(s.ino, s.data, x) \notin s.free
  /\ \A b \in Blocks : b \in X \/ b \in s.free \/ \E x \in Places : At(s.ino, s.data, x) = b

\* Cell c of block i of the file.
Cell(s, i, c) == IF i < s.ino.blocks THEN s.data[At(s.ino, s.data, i)][c] ELSE 0

\* The file reads the same in s and in t.
SameCells(s, t) == \A i \in Indexes, c \in Cells : Cell(t, i, c) = Cell(s, i, c)

\* The free blocks that are left once the file has its indirect block, and its blocks.
Room(s) == Cardinality(s.free) + s.ino.blocks - (IF s.ino.indirect = 0 THEN 1 ELSE 0)

-----------------------------------------------------------------------------
(* The block map. *)

\* bitmap_alloc.
LEMMA FirstFreeIn ==
  ASSUME NEW s \in ViewType, s.free # {}
  PROVE  FirstFree(s) \in s.free
  <1>1. s.free \subseteq Nat
    BY Sizes DEF ViewType
  <1>2. \E b \in s.free : \A c \in s.free : b <= c
    BY <1>1, Smallest
  <1> QED BY <1>2 DEF FirstFree

\* The places of a map, and what is found there.
LEMMA Where ==
  /\ Indirect \in Places /\ Indexes \subseteq Places /\ \A x \in Places : x \in Indexes \/ x = Indirect
  /\ \A x \in Places : x \in Nat
  /\ \A x \in Indexes : x \in Nat /\ x < Indirect /\ x # Indirect
  /\ \A x \in Nat : x < Indirect => x \in Indexes
  /\ \A ino, d : At(ino, d, Indirect) = ino.indirect
  <1>1. /\ Indirect \in Nat /\ Indirect = NDirect + BlkSize /\ NDirect \in Nat \ {0}
        /\ BlkSize \in Nat \ {0}
    BY Sizes
  <1>2. \A ino, d : At(ino, d, Indirect) = ino.indirect
    BY DEF At
  <1> QED BY <1>1, <1>2 DEF Places, Indexes

\* The fields of a view.
LEMMA Fields ==
  ASSUME NEW s \in ViewType
  PROVE  /\ s.ino \in InodeType /\ s.free \in SUBSET Blocks /\ s.free \subseteq Blocks
         /\ s.super \in BOOLEAN /\ s.data \in DataType /\ s.dirty \in BOOLEAN
         /\ s.err \in {"none", "no_space"} \cup Panics /\ s.done \in Nat
         /\ s.ino.size \in Nat /\ s.ino.blocks \in Nat /\ s.ino.blocks \in 0..Indirect
         /\ s.ino.blocks <= Indirect
         /\ s.ino.direct \in [0..NDirect-1 -> Blocks \cup {0}]
         /\ s.ino.indirect \in Blocks \cup {0}
         /\ IsFiniteSet(s.free) /\ Cardinality(s.free) \in Nat
  <1>1. /\ s.ino \in InodeType /\ s.free \in SUBSET Blocks /\ s.free \subseteq Blocks
        /\ s.super \in BOOLEAN /\ s.data \in DataType /\ s.dirty \in BOOLEAN
        /\ s.err \in {"none", "no_space"} \cup Panics /\ s.done \in Nat
    BY DEF ViewType
  <1>2. /\ s.ino.size \in Nat /\ s.ino.blocks \in 0..Indirect
        /\ s.ino.direct \in [0..NDirect-1 -> Blocks \cup {0}]
        /\ s.ino.indirect \in Blocks \cup {0}
    BY <1>1 DEF InodeType
  <1>3. s.ino.blocks \in Nat /\ s.ino.blocks <= Indirect
    BY <1>2, Sizes
  <1>4. IsFiniteSet(s.free) /\ Cardinality(s.free) \in Nat
    BY <1>1, Sizes, FS_Subset, FS_CardinalityType
  <1> QED BY <1>1, <1>2, <1>3, <1>4

\* View t is s with block b as the next of the file, and e as its indirect block if it had
\* none; these are the blocks N.
Entered(s, t, b, e, N) ==
  /\ b \in s.free /\ t.data[b] = Zero
  /\ \/ e = s.ino.indirect /\ N = {b}
     \/ s.ino.indirect = 0 /\ e \in s.free /\ e # b /\ N = {b, e}
  /\ s.ino.blocks < Indirect /\ t.ino.blocks = s.ino.blocks + 1 /\ t.free = s.free \ N
  /\ \A x \in Places : At(t.ino, t.data, x) = IF x = s.ino.blocks THEN b
                                              ELSE IF x = Indirect THEN e
                                              ELSE At(s.ino, s.data, x)
  /\ \A c \in Blocks : c \notin N /\ c # e => t.data[c] = s.data[c]

\* Then every block is in its place, and the file reads the same.
LEMMA Added ==
  ASSUME NEW s, NEW t, NEW X, NEW d, NEW b, NEW e, NEW N,
         Fits(s, X, d), t \in ViewType, Entered(s, t, b, e, N)
  PROVE  Fits(t, X, d) /\ SameCells(s, t)
  <1> USE DEF Entered
  <1> DEFINE A(x) == At(s.ino, s.data, x)
             B(x) == At(t.ino, t.data, x)
             i == s.ino.blocks
  <1>1. /\ i \in Nat /\ i < Indirect /\ i \in Indexes /\ i \in Places /\ Indirect \in Places
        /\ Indexes \subseteq Places /\ \A x \in Places : x \in Indexes \/ x = Indirect
        /\ \A x \in Indexes : x \in Nat /\ x # Indirect
    <2>1. s \in ViewType
      BY DEF Fits
    <2>2. s.ino \in InodeType
      BY <2>1 DEF ViewType
    <2>3. i \in 0..Indirect
      BY <2>2 DEF InodeType
    <2> QED BY <2>3, Sizes DEF Indexes, Places
  <1>2. /\ \A x \in Places : A(x) \in Blocks \cup {0}
        /\ \A x \in Indexes : A(x) # 0 <=> x < i
        /\ \A x, y \in Places : A(x) = A(y) /\ A(x) # 0 => x = y
        /\ A(Indirect) = s.ino.indirect /\ A(i) = 0
    BY <1>1 DEF Fits, MapOK, At
  <1>3. /\ s.free \subseteq Blocks /\ b # 0 /\ b \in Blocks
        /\ \A x \in Places : A(x) \notin X /\ A(x) \notin s.free
        /\ \A c \in X : c \in Blocks /\ c \notin s.free /\ s.data[c] = d[c]
        /\ \A c \in Blocks : c \in X \/ c \in s.free \/ \E x \in Places : A(x) = c
    BY Sizes DEF Fits, ViewType
  <1>4. \A x \in Places : B(x) = IF x = i THEN b ELSE IF x = Indirect THEN e ELSE A(x)
    OBVIOUS
  <1>5. /\ e = A(Indirect) \/ (A(Indirect) = 0 /\ e \in s.free /\ e # b)
        /\ N \subseteq s.free /\ b \in N /\ (e \in s.free => e \in N) /\ \A c \in N : c = b \/ c = e
        /\ e # b
    BY <1>1, <1>2, <1>3
  <1> HIDE DEF A, B, i
  <1>6. /\ \A x \in Places : B(x) \in Blocks \cup {0}
        /\ \A x \in Indexes : B(x) # 0 <=> x < i + 1
    BY <1>1, <1>2, <1>3, <1>4, <1>5
  <1>7. \A x, y \in Places : B(x) = B(y) /\ B(x) # 0 => x = y
    BY <1>1, <1>2, <1>3, <1>4, <1>5
  <1>8. MapOK(t.ino, t.data)
    BY <1>6, <1>7 DEF MapOK, B, i
  <1>9. \A x \in Places : B(x) \notin X /\ B(x) \notin t.free
    <2> SUFFICES ASSUME NEW x \in Places PROVE B(x) \notin X /\ B(x) \notin t.free
      OBVIOUS
    <2>1. b \notin X /\ b \notin t.free
      BY <1>3, <1>5
    <2>2. e \notin X /\ e \notin t.free
      BY <1>1, <1>3, <1>5
    <2>3. A(x) \notin X /\ A(x) \notin t.free
      BY <1>3
    <2> QED BY <1>4, <2>1, <2>2, <2>3
  <1>10. \A c \in X : c \in Blocks /\ c \notin t.free /\ t.data[c] = d[c]
    <2> SUFFICES ASSUME NEW c \in X PROVE c \in Blocks /\ c \notin t.free /\ t.data[c] = d[c]
      OBVIOUS
    <2>1. c \notin N /\ c # e
      BY <1>1, <1>3, <1>5
    <2> QED BY <1>3, <2>1
  <1>11. \A c \in Blocks : c \in X \/ c \in t.free \/ \E x \in Places : B(x) = c
    <2> SUFFICES ASSUME NEW c \in Blocks, c \notin X, c \notin t.free
                 PROVE  \E x \in Places : B(x) = c
      OBVIOUS
    <2>1. CASE c \in N
      BY <1>1, <1>4, <1>5, <2>1
    <2>2. CASE c \notin N
      <3>1. PICK x \in Places : A(x) = c
        BY <1>3, <2>2
      <3>2. x # i /\ c # 0
        BY <1>2, <1>3, <3>1, Sizes DEF i
      <3> QED BY <1>2, <1>4, <1>5, <3>1, <3>2
    <2> QED BY <2>1, <2>2
  <1>12. Fits(t, X, d)
    BY <1>8, <1>9, <1>10, <1>11 DEF Fits, B
  <1>13. SameCells(s, t)
    <2> SUFFICES ASSUME NEW j \in Indexes, NEW c \in Cells PROVE Cell(t, j, c) = Cell(s, j, c)
      BY DEF SameCells
    <2>1. CASE j < i
      <3>1. j # i /\ j < i + 1 /\ A(j) # 0 /\ A(j) \in Blocks /\ j \in Places
        BY <1>1, <1>2, <2>1
      <3>2. A(j) \notin N /\ A(j) # e
        BY <1>1, <1>2, <1>3, <1>5, <3>1
      <3>3. B(j) = A(j) /\ t.data[A(j)] = s.data[A(j)]
        BY <1>1, <1>4, <3>1, <3>2
      <3> QED BY <2>1, <3>1, <3>3 DEF Cell, A, B, i
    <2>2. CASE j = i
      <3>1. B(j) = b /\ t.data[b] = Zero /\ j < i + 1 /\ ~(j < i)
        BY <1>1, <1>4, <2>2
      <3> QED BY <3>1 DEF Cell, B, i, Zero
    <2>3. CASE i < j
      BY <1>1, <2>3 DEF Cell, i
    <2> QED BY <1>1, <2>1, <2>2, <2>3
  <1> QED BY <1>12, <1>13

\* What an operation that gives a file blocks does not change.
Grows(s, t) ==
  /\ t.ino.size = s.ino.size /\ t.done = s.done
  /\ s.super => t.super
  /\ t.super \/ t.free = s.free
  /\ SameCells(s, t)

\* The view after block number s.ino.blocks has been entered by t.
Counted(s, t) == [t EXCEPT !.ino.blocks = s.ino.blocks + 1]

\* The direct part of sfs_bmap_get_nolock, for the next block of a file.
LEMMA GetDirectOK ==
  ASSUME NEW s, NEW X, NEW d, Fits(s, X, d), s.err = "none", s.ino.blocks < NDirect, s.free # {},
         NEW t, t = GetDirect(s, s.ino.blocks), NEW u, u = Counted(s, t)
  PROVE  /\ t.err = "none" /\ t.ino.blocks = s.ino.blocks
         /\ u.err = "none" /\ u.ino.blocks = s.ino.blocks + 1 /\ Fits(u, X, d) /\ Grows(s, u) /\ Room(u) = Room(s)
  <1> DEFINE i == s.ino.blocks
             b == FirstFree(s)
  <1>1. s \in ViewType /\ MapOK(s.ino, s.data)
    BY DEF Fits
  <1>2. i \in 0..NDirect-1 /\ i \in Nat /\ i < Indirect /\ i \in Indexes /\ i \in Places /\ i # Indirect
    <2>1. i \in Nat
      BY <1>1, Fields
    <2>2. i \in 0..NDirect-1 /\ i < Indirect
      BY <2>1, Sizes
    <2> QED BY <2>1, <2>2, Where
  <1>3. s.ino.direct[i] = 0
    <2>1. At(s.ino, s.data, i) = 0
      BY <1>1, <1>2 DEF MapOK
    <2> QED BY <1>2, <2>1 DEF At, BlockAt
  <1>4. b \in s.free /\ b \in Blocks /\ b # 0
    BY <1>1, Fields, FirstFreeIn, Sizes
  <1>5. t = [[s EXCEPT !.free = @ \ {b}, !.super = TRUE, !.data[b] = Zero]
               EXCEPT !.ino.direct[i] = b, !.dirty = TRUE]
    BY <1>3 DEF GetDirect, BlockAlloc
  <1>6. Zero \in [Cells -> Nat]
    BY DEF Zero
  <1> HIDE DEF b
  <1>7. /\ t.err = "none" /\ t.free = s.free \ {b} /\ t.super = TRUE /\ t.dirty = TRUE
        /\ t.data = [s.data EXCEPT ![b] = Zero] /\ t.done = s.done
        /\ t.ino = [s.ino EXCEPT !.direct[i] = b]
        /\ t = [ino |-> t.ino, free |-> t.free, super |-> t.super, data |-> t.data,
                dirty |-> t.dirty, err |-> t.err, done |-> t.done]
    BY <1>1, <1>5 DEF ViewType
  <1>8. /\ u.err = "none" /\ u.free = s.free \ {b} /\ u.super = TRUE /\ u.dirty = TRUE
        /\ u.data = [s.data EXCEPT ![b] = Zero] /\ u.done = s.done
        /\ u.ino = [[s.ino EXCEPT !.direct[i] = b] EXCEPT !.blocks = i + 1]
        /\ u = [ino |-> u.ino, free |-> u.free, super |-> u.super, data |-> u.data,
                dirty |-> u.dirty, err |-> u.err, done |-> u.done]
    BY <1>7 DEF Counted
  <1>9. /\ u.ino.direct = [s.ino.direct EXCEPT ![i] = b] /\ u.ino.indirect = s.ino.indirect
        /\ u.ino.blocks = i + 1 /\ u.ino.size = s.ino.size /\ t.ino.blocks = i
        /\ u.ino = [size |-> u.ino.size, blocks |-> u.ino.blocks, direct |-> u.ino.direct,
                    indirect |-> u.ino.indirect]
    <2>1. s.ino \in InodeType
      BY <1>1, Fields
    <2> QED BY <1>7, <1>8, <2>1 DEF InodeType
  <1>10. u \in ViewType
    <2>1. u.ino.direct \in [0..NDirect-1 -> Blocks \cup {0}]
      <3>1. s.ino.direct \in [0..NDirect-1 -> Blocks \cup {0}] /\ b \in Blocks \cup {0}
        BY <1>1, <1>4, Fields
      <3> QED BY <1>9, <3>1
    <2>2. u.ino.blocks \in 0..Indirect
      BY <1>2, <1>9, Sizes
    <2>3. u.ino \in InodeType
      BY <1>1, <1>9, <2>1, <2>2, Fields DEF InodeType
    <2>4. u.data \in DataType
      BY <1>1, <1>4, <1>6, <1>8, Fields DEF DataType
    <2>5. u.free \in SUBSET Blocks
      BY <1>1, <1>8, Fields
    <2> QED BY <1>1, <1>8, <2>3, <2>4, <2>5, Fields DEF ViewType
  <1>11. s.ino.indirect # b
    BY <1>4, Where DEF Fits
  <1>12. \A c \in Blocks : c # b => u.data[c] = s.data[c]
    BY <1>1, <1>8, Fields DEF DataType
  <1>13. u.data[b] = Zero
    BY <1>1, <1>4, <1>8, Fields DEF DataType
  <1>14. \A x \in Places : At(u.ino, u.data, x) = IF x = i THEN b ELSE IF x = Indirect THEN s.ino.indirect
                                                  ELSE At(s.ino, s.data, x)
    <2> SUFFICES ASSUME NEW x \in Places
                 PROVE  At(u.ino, u.data, x) = IF x = i THEN b ELSE IF x = Indirect THEN s.ino.indirect
                                               ELSE At(s.ino, s.data, x)
      OBVIOUS
    <2>1. CASE x = Indirect
      BY <1>2, <1>9, <2>1 DEF At
    <2>2. CASE x # Indirect /\ x < NDirect
      <3>1. x \in 0..NDirect-1
        BY <2>2, Where, Sizes
      <3>2. u.ino.direct[x] = IF x = i THEN b ELSE s.ino.direct[x]
        BY <1>1, <1>9, <3>1, Fields
      <3> QED BY <2>2, <3>2 DEF At, BlockAt
    <2>3. CASE x # Indirect /\ ~(x < NDirect)
      <3>1. x # i
        BY <2>3
      <3>2. s.ino.indirect # 0 => u.data[s.ino.indirect] = s.data[s.ino.indirect]
        BY <1>1, <1>11, <1>12, Fields
      <3> QED BY <1>9, <2>3, <3>1, <3>2 DEF At, BlockAt
    <2> QED BY <2>1, <2>2, <2>3
  <1>15. Fits(u, X, d) /\ SameCells(s, u)
    <2> DEFINE N == {b}
               e == s.ino.indirect
    <2>1. u.free = s.free \ N /\ N = {b}
      BY <1>8
    <2>2. \A c \in Blocks : c \notin N /\ c # e => u.data[c] = s.data[c]
      BY <1>12
    <2> HIDE DEF N
    <2>3. Entered(s, u, b, e, N)
      BY <1>2, <1>4, <1>9, <1>13, <1>14, <2>1, <2>2 DEF Entered
    <2> HIDE DEF e, i
    <2>4. u \in ViewType /\ Entered(s, u, b, e, N)
      BY <1>10, <2>3
    <2> QED BY <2>4, Added
  <1>16. Room(u) = Room(s)
    <2>1. Cardinality(u.free) = Cardinality(s.free) - 1 /\ Cardinality(s.free) \in Nat
      <3>1. IsFiniteSet(s.free) /\ Cardinality(s.free) \in Nat
        BY <1>1, Fields
      <3> QED BY <1>4, <1>8, <3>1, FS_RemoveElement
    <2> QED BY <1>2, <1>9, <2>1 DEF Room
  <1> QED BY <1>7, <1>8, <1>9, <1>15, <1>16 DEF Grows

\* sfs_bmap_get_sub_nolock, for the next block of a file: it is there, or what was taken has
\* been given back.
LEMMA GetEntryOK ==
  ASSUME NEW s, NEW X, NEW d, Fits(s, X, d), s.err = "none",
         ~(s.ino.blocks < NDirect), s.ino.blocks < Indirect,
         NEW t, t = GetEntry(s, s.ino.blocks - NDirect), NEW u, u = Counted(s, t)
  PROVE  \/ /\ t.err = "none" /\ t.ino.blocks = s.ino.blocks
            /\ u.err = "none" /\ u.ino.blocks = s.ino.blocks + 1 /\ Fits(u, X, d) /\ Grows(s, u) /\ Room(u) = Room(s)
         \/ /\ t.err = "no_space"
            /\ Fits(t, X, d) /\ Grows(s, t) /\ Room(s) <= s.ino.blocks
  <1> DEFINE i == s.ino.blocks
             e == i - NDirect
             fresh == s.ino.indirect = 0
             a == IF fresh THEN BlockAlloc(s) ELSE s
             ent == IF fresh THEN FirstFree(s) ELSE s.ino.indirect
  <1>1. s \in ViewType /\ MapOK(s.ino, s.data)
    BY DEF Fits
  <1>2. e \in Cells /\ i \in Nat /\ i < Indirect /\ i \in Indexes /\ i \in Places /\ i # Indirect
    <2>1. i \in Nat
      BY <1>1, Fields
    <2>2. e \in Cells /\ i < Indirect
      BY <2>1, Sizes
    <2> QED BY <2>1, <2>2, Where
  <1>3. ~fresh => s.data[s.ino.indirect][e] = 0
    <2>1. At(s.ino, s.data, i) = 0
      BY <1>1, <1>2 DEF MapOK
    <2> QED BY <1>2, <2>1 DEF At, BlockAt
  <1>4. IsFiniteSet(s.free) /\ Cardinality(s.free) \in Nat /\ s.free \subseteq Blocks
    BY <1>1, Fields
  <1>5. Zero \in [Cells -> Nat] /\ Stale \in [Cells -> Nat]
    BY DEF Zero, Stale
  <1>6. t = IF s.free = {} THEN Failed(s, "no_space")
            ELSE IF a.free = {} THEN Failed(IF fresh THEN BlockFree(a, ent) ELSE s, "no_space")
            ELSE [BlockAlloc(a) EXCEPT !.data[ent][e] = FirstFree(a), !.ino.indirect = ent,
                                       !.dirty = @ \/ fresh]
    BY <1>3 DEF GetEntry
  <1>7. s.ino.indirect \notin s.free /\ s.ino.indirect \notin X
    BY Where DEF Fits
  <1>a. /\ s = [ino |-> s.ino, free |-> s.free, super |-> s.super, data |-> s.data,
                dirty |-> s.dirty, err |-> s.err, done |-> s.done]
        /\ s.ino = [size |-> s.ino.size, blocks |-> s.ino.blocks, direct |-> s.ino.direct,
                    indirect |-> s.ino.indirect]
    <2>1. s.ino \in InodeType
      BY <1>1, Fields
    <2> QED BY <1>1, <2>1 DEF ViewType, InodeType
  <1>8. CASE s.free = {}
    <2>1. t = [s EXCEPT !.err = "no_space"]
      BY <1>6, <1>8 DEF Failed
    <2>2. /\ t.err = "no_space" /\ t.ino = s.ino /\ t.free = s.free /\ t.super = s.super
          /\ t.data = s.data /\ t.dirty = s.dirty /\ t.done = s.done
          /\ t = [ino |-> t.ino, free |-> t.free, super |-> t.super, data |-> t.data,
                  dirty |-> t.dirty, err |-> t.err, done |-> t.done]
      BY <1>a, <2>1
    <2>3. t \in ViewType
      BY <1>1, <2>2, Fields DEF ViewType
    <2>4. Fits(t, X, d)
      BY <2>2, <2>3 DEF Fits
    <2>5. Grows(s, t)
      BY <2>2 DEF Grows, SameCells, Cell
    <2>6. Cardinality(s.free) = 0
      BY <1>8, FS_EmptySet
    <2>7. Room(s) <= i
      BY <1>2, <2>6 DEF Room
    <2> QED BY <2>2, <2>4, <2>5, <2>7
  <1>9. ASSUME s.free # {}, a.free = {}
        PROVE  t.err = "no_space" /\ Fits(t, X, d) /\ Grows(s, t) /\ Room(s) <= i
    <2>1. fresh
      BY <1>9
    <2>2. ent \in s.free /\ ent \in Blocks
      BY <1>1, <1>4, <1>9, <2>1, FirstFreeIn
    <2>3. a = [s EXCEPT !.free = @ \ {ent}, !.super = TRUE, !.data[ent] = Zero]
      BY <2>1 DEF BlockAlloc
    <2>4. t = [[a EXCEPT !.free = @ \cup {ent}, !.super = TRUE, !.data[ent] = Stale] EXCEPT !.err = "no_space"]
      BY <1>6, <1>9, <2>1 DEF BlockFree, Failed
    <2>a. a.free = {}
      BY <1>9
    <2> HIDE DEF ent, a
    <2>5. /\ a.free = s.free \ {ent} /\ a.super = TRUE /\ a.done = s.done
          /\ a.data = [s.data EXCEPT ![ent] = Zero] /\ a.ino = s.ino /\ a.dirty = s.dirty
          /\ a = [ino |-> a.ino, free |-> a.free, super |-> a.super, data |-> a.data,
                  dirty |-> a.dirty, err |-> a.err, done |-> a.done]
      BY <1>a, <2>3
    <2>b. /\ t.free = a.free \cup {ent} /\ t.super = TRUE /\ t.ino = s.ino /\ t.done = s.done
          /\ t.data = [a.data EXCEPT ![ent] = Stale] /\ t.err = "no_space" /\ t.dirty = s.dirty
          /\ t = [ino |-> t.ino, free |-> t.free, super |-> t.super, data |-> t.data,
                  dirty |-> t.dirty, err |-> t.err, done |-> t.done]
      BY <2>4, <2>5
    <2>c. s.data \in DataType
      BY <1>1, Fields
    <2>6. t.free = s.free /\ t.data = [s.data EXCEPT ![ent] = Stale] /\ t.data \in DataType
      <3>1. t.free = s.free
        BY <2>2, <2>5, <2>b
      <3>2. t.data = [s.data EXCEPT ![ent] = Stale]
        BY <2>2, <2>5, <2>b, <2>c DEF DataType
      <3>3. t.data \in DataType
        BY <1>5, <2>2, <2>c, <3>2 DEF DataType
      <3> QED BY <3>1, <3>2, <3>3
    <2>d. t \in ViewType
      BY <1>1, <2>b, <2>6, Fields DEF ViewType
    <2>7. \A x \in Places : At(t.ino, t.data, x) = At(s.ino, s.data, x)
      BY <2>1, <2>b DEF At, BlockAt
    <2>8. \A c \in Blocks : c \notin s.free => t.data[c] = s.data[c]
      BY <2>2, <2>6, <2>c DEF DataType
    <2>9. Fits(t, X, d)
      <3>1. MapOK(t.ino, t.data)
        <4>1. \A x \in Places : At(s.ino, t.data, x) = At(s.ino, s.data, x)
          BY <2>7, <2>b
        <4> QED BY <1>1, <2>b, <4>1, Where DEF MapOK
      <3>2. \A c \in X : c \in Blocks /\ c \notin t.free /\ t.data[c] = d[c]
        BY <2>6, <2>8 DEF Fits
      <3>3. \A x \in Places : At(t.ino, t.data, x) \notin X /\ At(t.ino, t.data, x) \notin t.free
        BY <2>6, <2>7 DEF Fits
      <3>4. \A c \in Blocks : c \in X \/ c \in t.free \/ \E x \in Places : At(t.ino, t.data, x) = c
        BY <2>6, <2>7 DEF Fits
      <3> QED BY <2>d, <3>1, <3>2, <3>3, <3>4 DEF Fits
    <2>10. SameCells(s, t)
      <3> SUFFICES ASSUME NEW j \in Indexes, NEW c \in Cells PROVE Cell(t, j, c) = Cell(s, j, c)
        BY DEF SameCells
      <3>1. j \in Places
        BY Where
      <3>2. j < i => At(s.ino, s.data, j) \in Blocks /\ At(s.ino, s.data, j) \notin s.free
        BY <1>1, <3>1 DEF Fits, MapOK
      <3>3. At(t.ino, t.data, j) = At(s.ino, s.data, j) /\ t.ino.blocks = i
        BY <2>7, <2>b, <3>1
      <3> QED BY <2>8, <3>2, <3>3 DEF Cell
    <2>11. Room(s) <= i
      <3>1. s.free = {ent}
        BY <2>2, <2>5, <2>a
      <3>2. Cardinality(s.free) = 1
        BY <3>1, FS_Singleton
      <3> QED BY <1>2, <2>1, <3>2 DEF Room
    <2> QED BY <2>b, <2>6, <2>9, <2>10, <2>11 DEF Grows
  <1>10. ASSUME s.free # {}, a.free # {}
         PROVE  /\ t.err = "none" /\ t.ino.blocks = i
                /\ u.err = "none" /\ u.ino.blocks = s.ino.blocks + 1 /\ Fits(u, X, d) /\ Grows(s, u) /\ Room(u) = Room(s)
    <2> DEFINE b == FirstFree(a)
               N == IF fresh THEN {b, ent} ELSE {b}
    <2>1. fresh => ent \in s.free
      BY <1>1, <1>10, FirstFreeIn
    <2>2. ent \in Blocks
      BY <1>1, <1>4, <2>1, Fields
    <2>a. s.data \in DataType
      BY <1>1, Fields
    <2>3. /\ a \in ViewType /\ a.free = (IF fresh THEN s.free \ {ent} ELSE s.free) /\ a.err = "none"
          /\ a.data = (IF fresh THEN [s.data EXCEPT ![ent] = Zero] ELSE s.data) /\ a.ino = s.ino
          /\ a.done = s.done
      <3>1. CASE ~fresh
        BY <1>1, <3>1
      <3>2. CASE fresh
        <4>1. a = [s EXCEPT !.free = @ \ {ent}, !.super = TRUE, !.data[ent] = Zero]
          BY <3>2 DEF BlockAlloc
        <4> HIDE DEF ent, a
        <4>2. /\ a.free = s.free \ {ent} /\ a.super = TRUE /\ a.done = s.done /\ a.err = s.err
              /\ a.data = [s.data EXCEPT ![ent] = Zero] /\ a.ino = s.ino /\ a.dirty = s.dirty
              /\ a = [ino |-> a.ino, free |-> a.free, super |-> a.super, data |-> a.data,
                      dirty |-> a.dirty, err |-> a.err, done |-> a.done]
          BY <1>a, <4>1
        <4>3. a.data \in DataType
          BY <1>5, <2>2, <2>a, <4>2 DEF DataType
        <4>4. a.free \in SUBSET Blocks
          BY <1>4, <4>2
        <4>5. a \in ViewType
          BY <1>1, <4>2, <4>3, <4>4, Fields DEF ViewType
        <4> QED BY <3>2, <4>2, <4>5
      <3> QED BY <3>1, <3>2
    <2>4. t = [[a EXCEPT !.free = @ \ {b}, !.super = TRUE, !.data[b] = Zero]
                 EXCEPT !.data[ent][e] = b, !.ino.indirect = ent, !.dirty = @ \/ fresh]
      BY <1>6, <1>10 DEF BlockAlloc
    <2>5. b \in a.free /\ b \in s.free /\ b \in Blocks /\ b # 0 /\ b # ent
      <3>1. b \in a.free
        BY <1>10, <2>3, FirstFreeIn
      <3> HIDE DEF b, a
      <3>2. b \in s.free /\ (fresh => b # ent)
        BY <2>3, <3>1
      <3>3. ~fresh => b # ent
        BY <1>7, <3>2
      <3> QED BY <1>4, <3>1, <3>2, <3>3, Sizes
    <2> DEFINE q == ent
    <2>b. a = [ino |-> a.ino, free |-> a.free, super |-> a.super, data |-> a.data,
               dirty |-> a.dirty, err |-> a.err, done |-> a.done]
      BY <2>3 DEF ViewType
    <2> HIDE DEF a, b, ent
    <2>6. /\ t.err = "none" /\ t.free = a.free \ {b} /\ t.super = TRUE /\ t.done = s.done
          /\ t.data = [[a.data EXCEPT ![b] = Zero] EXCEPT ![ent][e] = b]
          /\ t.ino = [s.ino EXCEPT !.indirect = ent] /\ t.dirty = (a.dirty \/ fresh)
          /\ t = [ino |-> t.ino, free |-> t.free, super |-> t.super, data |-> t.data,
                  dirty |-> t.dirty, err |-> t.err, done |-> t.done]
      <3>1. a.ino = s.ino /\ a.done = s.done /\ a.err = "none"
        BY <2>3
      <3>2. /\ t.err = a.err /\ t.free = a.free \ {b} /\ t.super = TRUE /\ t.done = a.done
            /\ t.data = [[a.data EXCEPT ![b] = Zero] EXCEPT ![ent][e] = b]
            /\ t.ino = [a.ino EXCEPT !.indirect = ent] /\ t.dirty = (a.dirty \/ fresh)
            /\ t = [ino |-> t.ino, free |-> t.free, super |-> t.super, data |-> t.data,
                    dirty |-> t.dirty, err |-> t.err, done |-> t.done]
        <4> HIDE DEF fresh, e
        <4> QED BY <2>4, <2>b
      <3> QED BY <3>1, <3>2
    <2>7. /\ u.err = "none" /\ u.free = a.free \ {b} /\ u.super = TRUE /\ u.done = s.done
          /\ u.data = [[a.data EXCEPT ![b] = Zero] EXCEPT ![ent][e] = b]
          /\ u.ino = [[s.ino EXCEPT !.indirect = ent] EXCEPT !.blocks = i + 1]
          /\ u.dirty = (a.dirty \/ fresh)
          /\ u = [ino |-> u.ino, free |-> u.free, super |-> u.super, data |-> u.data,
                  dirty |-> u.dirty, err |-> u.err, done |-> u.done]
      BY <2>6 DEF Counted
    <2>c. /\ u.ino.direct = s.ino.direct /\ u.ino.indirect = ent
          /\ u.ino.blocks = i + 1 /\ u.ino.size = s.ino.size /\ t.ino.blocks = i
          /\ u.ino = [size |-> u.ino.size, blocks |-> u.ino.blocks, direct |-> u.ino.direct,
                      indirect |-> u.ino.indirect]
      BY <1>a, <2>6, <2>7
    <2>8. u.free = s.free \ N
      BY <2>3, <2>7
    <2>d. a.data \in DataType
      BY <2>3, Fields
    <2>9. /\ u.data[b] = Zero
          /\ u.data[ent][e] = b
          /\ \A c \in Cells : c # e => u.data[ent][c] = IF fresh THEN 0 ELSE s.data[s.ino.indirect][c]
          /\ \A c \in Blocks : c # b /\ c # ent => u.data[c] = s.data[c]
          /\ u.data \in DataType
      <3>2. u.data[b] = Zero /\ u.data[ent] = [a.data[ent] EXCEPT ![e] = b]
        BY <2>2, <2>5, <2>7, <2>d DEF DataType
      <3>3. a.data[ent] = (IF fresh THEN Zero ELSE s.data[s.ino.indirect]) /\ a.data[ent] \in [Cells -> Nat]
        <4>1. a.data[ent] \in [Cells -> Nat]
          BY <2>2, <2>d DEF DataType
        <4>2. CASE fresh
          BY <2>2, <2>3, <2>a, <4>1, <4>2 DEF DataType
        <4>3. CASE ~fresh
          BY <2>3, <4>1, <4>3 DEF ent
        <4> QED BY <4>1, <4>2, <4>3
      <3>4. \A c \in Blocks : c # b /\ c # ent => u.data[c] = a.data[c]
        BY <2>2, <2>5, <2>7, <2>d DEF DataType
      <3>5. \A c \in Blocks : c # b /\ c # ent => a.data[c] = s.data[c]
        BY <2>2, <2>3, <2>a DEF DataType
      <3>6. b \in Nat /\ b \in Blocks
        BY <2>5, Sizes
      <3>7. u.data \in DataType
        <4>1. [a.data EXCEPT ![b] = Zero] \in [Blocks -> [Cells -> Nat]]
          BY <1>5, <2>d DEF DataType
        <4>2. [a.data[ent] EXCEPT ![e] = b] \in [Cells -> Nat]
          BY <3>3, <3>6
        <4>3. u.data = [[a.data EXCEPT ![b] = Zero] EXCEPT ![ent] = u.data[ent]]
          BY <2>2, <2>7, <4>1
        <4>4. u.data[ent] \in [Cells -> Nat]
          BY <3>2, <4>2
        <4> HIDE DEF e
        <4> QED BY <2>2, <4>1, <4>3, <4>4 DEF DataType
      <3>8. u.data[ent][e] = b
        BY <1>2, <3>2, <3>3
      <3>9. \A c \in Cells : c # e => u.data[ent][c] = IF fresh THEN 0 ELSE s.data[s.ino.indirect][c]
        BY <3>2, <3>3 DEF Zero
      <3> QED BY <3>2, <3>4, <3>5, <3>7, <3>8, <3>9
    <2>e. u \in ViewType
      <3>1. u.ino.blocks \in 0..Indirect
        BY <1>2, <2>c, Sizes
      <3>2. u.ino.indirect \in Blocks \cup {0}
        BY <2>2, <2>c
      <3>3. u.ino \in InodeType
        BY <1>1, <2>c, <3>1, <3>2, Fields DEF InodeType
      <3>4. u.free \in SUBSET Blocks
        BY <1>4, <2>8
      <3>5. u.dirty \in BOOLEAN
        BY <2>7
      <3> QED BY <1>1, <2>7, <2>9, <3>3, <3>4, <3>5, Fields DEF ViewType
    <2>10. \A x \in Places : At(u.ino, u.data, x) = IF x = i THEN b ELSE IF x = Indirect THEN ent
                                                   ELSE At(s.ino, s.data, x)
      <3> SUFFICES ASSUME NEW x \in Places
                   PROVE  At(u.ino, u.data, x) = IF x = i THEN b ELSE IF x = Indirect THEN ent
                                                 ELSE At(s.ino, s.data, x)
        OBVIOUS
      <3>1. CASE x = Indirect
        BY <1>2, <2>c, <3>1 DEF At
      <3>2. CASE x # Indirect /\ x < NDirect
        BY <2>c, <3>2 DEF At, BlockAt
      <3>3. CASE x # Indirect /\ ~(x < NDirect)
        <4>1. x - NDirect \in Cells /\ (x = i <=> x - NDirect = e)
          <5>1. x \in Nat /\ x < Indirect /\ NDirect <= x
            BY <3>3, Where, Sizes
          <5> QED BY <1>2, <5>1, Sizes
        <4>2. At(u.ino, u.data, x) = u.data[ent][x - NDirect]
          BY <2>2, <2>c, <3>3, Sizes DEF At, BlockAt
        <4>3. At(s.ino, s.data, x) = IF fresh THEN 0 ELSE s.data[s.ino.indirect][x - NDirect]
          BY <3>3 DEF At, BlockAt
        <4> HIDE DEF e, fresh
        <4>4. CASE x = i
          BY <2>9, <4>1, <4>2, <4>4
        <4>5. CASE x # i
          BY <2>9, <3>3, <4>1, <4>2, <4>3, <4>5
        <4> QED BY <4>4, <4>5
      <3> QED BY <3>1, <3>2, <3>3
    <2>11. \/ ent = s.ino.indirect /\ N = {b}
           \/ s.ino.indirect = 0 /\ ent \in s.free /\ ent # b /\ N = {b, ent}
      BY <2>1, <2>5 DEF ent
    <2>12. \A c \in Blocks : c \notin N /\ c # ent => u.data[c] = s.data[c]
      <3>1. b \in N
        OBVIOUS
      <3> HIDE DEF N
      <3> QED BY <2>9, <3>1
    <2>f. ASSUME ~fresh PROVE Room(u) = Room(s)
      <3>1. Cardinality(u.free) = Cardinality(s.free) - 1
        <4>1. u.free = s.free \ {b}
          BY <2>8, <2>f
        <4> QED BY <1>4, <2>5, <4>1, FS_RemoveElement
      <3>2. ent # 0
        BY <2>2, Sizes
      <3> QED BY <1>2, <1>4, <2>c, <2>f, <3>1, <3>2 DEF Room
    <2>g. ASSUME fresh PROVE Room(u) = Room(s)
      <3>1. Cardinality(a.free) = Cardinality(s.free) - 1 /\ IsFiniteSet(a.free)
        <4>1. a.free = s.free \ {ent} /\ ent \in s.free
          BY <2>1, <2>3, <2>g
        <4> QED BY <1>4, <4>1, FS_RemoveElement
      <3>2. Cardinality(u.free) = Cardinality(a.free) - 1
        BY <2>5, <2>7, <3>1, FS_RemoveElement
      <3>3. ent # 0
        BY <2>2, Sizes
      <3> QED BY <1>2, <1>4, <2>c, <2>g, <3>1, <3>2, <3>3 DEF Room
    <2>h. Entered(s, u, b, ent, N)
      <3>1. s.ino.blocks < Indirect /\ u.ino.blocks = s.ino.blocks + 1
        BY <2>c
      <3> HIDE DEF N
      <3> QED BY <2>5, <2>8, <2>9, <2>10, <2>11, <2>12, <3>1 DEF Entered
    <2> HIDE DEF N
    <2>13. Fits(u, X, d) /\ SameCells(s, u)
      BY <2>e, <2>h, Added
    <2>15. Grows(s, u)
      BY <2>7, <2>c, <2>13 DEF Grows
    <2> QED BY <2>6, <2>7, <2>c, <2>13, <2>15, <2>f, <2>g
  <1> QED BY <1>8, <1>9, <1>10

\* To do nothing changes nothing.
LEMMA GrowsSelf ==
  ASSUME NEW s
  PROVE  Grows(s, s)
  BY DEF Grows, SameCells

\* A file that grows twice has grown.
LEMMA GrowsOn ==
  ASSUME NEW s, NEW t, NEW u, Grows(s, t), Grows(t, u)
  PROVE  Grows(s, u)
  BY DEF Grows, SameCells

\* sfs_bmap_load_nolock: the block is there, or there was no room for it.
LEMMA LoadOK ==
  ASSUME NEW s, NEW X, NEW d, Fits(s, X, d), s.err = "none", NEW i \in Nat, NEW t, t = Load(s, i)
  PROVE  \/ t.err \in Panics
         \/ /\ Fits(t, X, d) /\ Grows(s, t)
            /\ \/ /\ t.err = "none" /\ i < Indirect /\ i < t.ino.blocks /\ Room(t) = Room(s)
                  /\ t.ino.blocks = IF i < s.ino.blocks THEN s.ino.blocks ELSE i + 1
               \/ t.err = "no_space" /\ i < Indirect /\ i = s.ino.blocks /\ Room(s) <= i
  <1> DEFINE r == IF i < NDirect THEN GetDirect(s, i) ELSE GetEntry(s, i - NDirect)
  <1>1. s.ino.blocks \in Nat /\ s.ino.blocks <= Indirect /\ s \in ViewType
    BY Fields DEF Fits
  <1>2. t = IF i > s.ino.blocks THEN Failed(s, "index_beyond_blocks")
            ELSE IF i >= NDirect + NEntry THEN Failed(s, "index_out_of_range")
            ELSE IF i < s.ino.blocks THEN s
            ELSE IF r.err # "none" THEN r
            ELSE [r EXCEPT !.ino.blocks = @ + 1]
    BY DEF Load
  <1>a. s = [ino |-> s.ino, free |-> s.free, super |-> s.super, data |-> s.data,
             dirty |-> s.dirty, err |-> s.err, done |-> s.done]
    BY <1>1 DEF ViewType
  <1>b. \A z : Failed(s, z).err = z
    BY <1>a DEF Failed
  <1> HIDE DEF r
  <1>3. CASE i > s.ino.blocks
    BY <1>2, <1>3, <1>b DEF Panics
  <1>4. CASE ~(i > s.ino.blocks) /\ i >= NDirect + NEntry
    BY <1>2, <1>4, <1>b DEF Panics
  <1>5. CASE ~(i > s.ino.blocks) /\ ~(i >= NDirect + NEntry) /\ i < s.ino.blocks
    <2>1. t = s
      BY <1>2, <1>5
    <2>2. i < Indirect
      BY <1>1, <1>5, Sizes
    <2> QED BY <1>1, <1>5, <2>1, <2>2, GrowsSelf
  <1>6. CASE ~(i > s.ino.blocks) /\ ~(i >= NDirect + NEntry) /\ ~(i < s.ino.blocks)
    <2>1. i = s.ino.blocks /\ i < Indirect
      BY <1>1, <1>6, Sizes
    <2>2. t = IF r.err # "none" THEN r ELSE [r EXCEPT !.ino.blocks = @ + 1]
      BY <1>2, <1>6
    <2>3. CASE i < NDirect /\ s.free = {}
      <3>1. r = IF s.ino.direct[i] # 0 THEN s ELSE Failed(s, "no_space")
        BY <2>3 DEF r, GetDirect
      <3>2. s.ino.direct[i] = 0
        <4>1. At(s.ino, s.data, i) = 0
          BY <2>1, <1>1, Where DEF Fits, MapOK
        <4>2. i # Indirect
          BY <2>1, Where
        <4> QED BY <2>3, <4>1, <4>2 DEF At, BlockAt
      <3>3. r = [s EXCEPT !.err = "no_space"]
        BY <3>1, <3>2 DEF Failed
      <3>4. /\ r.err = "no_space" /\ r.ino = s.ino /\ r.free = s.free /\ r.super = s.super
            /\ r.data = s.data /\ r.dirty = s.dirty /\ r.done = s.done
            /\ r = [ino |-> r.ino, free |-> r.free, super |-> r.super, data |-> r.data,
                    dirty |-> r.dirty, err |-> r.err, done |-> r.done]
        BY <1>a, <3>3
      <3>5. r \in ViewType
        BY <1>1, <3>4, Fields DEF ViewType
      <3>6. Fits(r, X, d)
        BY <3>4, <3>5 DEF Fits
      <3>7. Grows(s, r)
        BY <3>4 DEF Grows, SameCells, Cell
      <3>8. Cardinality(s.free) = 0
        BY <2>3, FS_EmptySet
      <3>9. Room(s) <= i
        BY <1>1, <2>1, <3>8 DEF Room
      <3>10. t = r
        BY <2>2, <3>4
      <3> QED BY <2>1, <3>4, <3>6, <3>7, <3>9, <3>10
    <2>4. CASE i < NDirect /\ s.free # {}
      <3>1. r = GetDirect(s, s.ino.blocks)
        BY <2>1, <2>4 DEF r
      <3> DEFINE u == Counted(s, r)
      <3>2. /\ r.err = "none" /\ r.ino.blocks = s.ino.blocks
            /\ u.err = "none" /\ u.ino.blocks = s.ino.blocks + 1 /\ Fits(u, X, d) /\ Grows(s, u) /\ Room(u) = Room(s)
        BY <2>1, <2>4, <3>1, GetDirectOK
      <3>3. t = u
        BY <2>2, <3>2 DEF Counted
      <3> HIDE DEF u
      <3> QED BY <1>1, <2>1, <3>2, <3>3
    <2>5. CASE ~(i < NDirect)
      <3>1. r = GetEntry(s, s.ino.blocks - NDirect)
        BY <2>1, <2>5 DEF r
      <3> DEFINE u == Counted(s, r)
      <3>2. \/ /\ r.err = "none" /\ r.ino.blocks = s.ino.blocks
               /\ u.err = "none" /\ u.ino.blocks = s.ino.blocks + 1 /\ Fits(u, X, d) /\ Grows(s, u) /\ Room(u) = Room(s)
            \/ /\ r.err = "no_space"
               /\ Fits(r, X, d) /\ Grows(s, r) /\ Room(s) <= s.ino.blocks
        BY <2>1, <2>5, <3>1, GetEntryOK
      <3>3. CASE r.err = "no_space"
        BY <2>1, <2>2, <3>2, <3>3
      <3>4. CASE r.err = "none"
        <4>1. t = u
          BY <2>2, <3>2, <3>4 DEF Counted
        <4> HIDE DEF u
        <4> QED BY <1>1, <2>1, <3>2, <3>4, <4>1
      <3> QED BY <3>2, <3>3, <3>4
    <2> QED BY <2>3, <2>4, <2>5
  <1> QED BY <1>3, <1>4, <1>5, <1>6

\* sfs_bmap_truncate_nolock: the last block goes, and nothing else changes.
LEMMA DropOK ==
  ASSUME NEW s, NEW X, NEW d, Fits(s, X, d), s.err = "none", s.ino.blocks # 0, NEW t, t = Drop(s)
  PROVE  /\ Fits(t, X, d) /\ t.err = "none" /\ t.super = TRUE /\ t.done = s.done
         /\ t.ino.size = s.ino.size /\ t.ino.blocks = s.ino.blocks - 1
         /\ \A j \in Indexes, c \in Cells :
              Cell(t, j, c) = IF j < t.ino.blocks THEN Cell(s, j, c) ELSE 0
  <1> DEFINE i == s.ino.blocks - 1
             b == BlockAt(s.ino, s.data, i)
             q == s.ino.indirect
  <1>1. s \in ViewType /\ MapOK(s.ino, s.data)
    BY DEF Fits
  <1>2. /\ i \in Nat /\ i < Indirect /\ i \in Indexes /\ i \in Places /\ i # Indirect
        /\ i < s.ino.blocks /\ s.ino.blocks = i + 1
    <2>1. i \in Nat /\ i < Indirect /\ i < s.ino.blocks /\ s.ino.blocks = i + 1
      <3>1. s.ino.blocks \in Nat /\ s.ino.blocks <= Indirect
        BY <1>1, Fields
      <3> QED BY <3>1, Sizes
    <2> QED BY <2>1, Where
  <1>3. b = At(s.ino, s.data, i) /\ b \in Blocks /\ b # 0 /\ b \notin s.free /\ b \notin X
    <2>1. b = At(s.ino, s.data, i)
      BY <1>2 DEF At
    <2>2. At(s.ino, s.data, i) # 0 /\ At(s.ino, s.data, i) \in Blocks \cup {0}
      BY <1>1, <1>2 DEF MapOK
    <2>3. At(s.ino, s.data, i) \notin s.free /\ At(s.ino, s.data, i) \notin X
      BY <1>2 DEF Fits
    <2> QED BY <2>1, <2>2, <2>3
  <1>4. b # q
    <2>1. At(s.ino, s.data, Indirect) = q /\ Indirect \in Places
      BY Where
    <2> QED BY <1>1, <1>2, <1>3, <2>1 DEF MapOK
  <1>5. /\ s = [ino |-> s.ino, free |-> s.free, super |-> s.super, data |-> s.data,
                dirty |-> s.dirty, err |-> s.err, done |-> s.done]
        /\ s.ino = [size |-> s.ino.size, blocks |-> s.ino.blocks, direct |-> s.ino.direct,
                    indirect |-> s.ino.indirect]
        /\ s.data \in DataType /\ s.free \subseteq Blocks /\ q \in Blocks \cup {0}
        /\ s.ino.direct \in [0..NDirect-1 -> Blocks \cup {0}]
    <2>1. s.ino \in InodeType
      BY <1>1, Fields
    <2> QED BY <1>1, <2>1, Fields DEF ViewType, InodeType
  <1> DEFINE r == [[s EXCEPT !.free = @ \cup {b}, !.super = TRUE, !.data[b] = Stale]
                     EXCEPT !.ino.blocks = i, !.dirty = TRUE]
  <1>6. t = IF i < NDirect THEN [r EXCEPT !.ino.direct[i] = 0]
            ELSE [r EXCEPT !.data[q][i - NDirect] = 0]
    BY DEF Drop, BlockFree
  <1> HIDE DEF b, i
  <1>7. /\ r.free = s.free \cup {b} /\ r.super = TRUE /\ r.data = [s.data EXCEPT ![b] = Stale]
        /\ r.ino = [s.ino EXCEPT !.blocks = i] /\ r.dirty = TRUE /\ r.err = s.err /\ r.done = s.done
        /\ r = [ino |-> r.ino, free |-> r.free, super |-> r.super, data |-> r.data,
                dirty |-> r.dirty, err |-> r.err, done |-> r.done]
    <2>1. s = [ino |-> s.ino, free |-> s.free, super |-> s.super, data |-> s.data,
               dirty |-> s.dirty, err |-> s.err, done |-> s.done]
      BY <1>5
    <2> DEFINE z == [s EXCEPT !.free = @ \cup {b}, !.super = TRUE, !.data[b] = Stale]
    <2>a. z = [s EXCEPT !.free = @ \cup {b}, !.super = TRUE, !.data[b] = Stale]
      OBVIOUS
    <2>b. r = [z EXCEPT !.ino.blocks = i, !.dirty = TRUE]
      BY DEF r
    <2> HIDE DEF z, r
    <2>2. /\ z.free = s.free \cup {b} /\ z.super = TRUE /\ z.data = [s.data EXCEPT ![b] = Stale]
          /\ z.ino = s.ino /\ z.dirty = s.dirty /\ z.err = s.err /\ z.done = s.done
          /\ z = [ino |-> z.ino, free |-> z.free, super |-> z.super, data |-> z.data,
                  dirty |-> z.dirty, err |-> z.err, done |-> z.done]
      BY <2>1, <2>a
    <2>3. /\ r.free = z.free /\ r.super = z.super /\ r.data = z.data
          /\ r.ino = [z.ino EXCEPT !.blocks = i] /\ r.dirty = TRUE /\ r.err = z.err /\ r.done = z.done
          /\ r = [ino |-> r.ino, free |-> r.free, super |-> r.super, data |-> r.data,
                  dirty |-> r.dirty, err |-> r.err, done |-> r.done]
      BY <2>2, <2>b
    <2> QED BY <2>2, <2>3
  <1> HIDE DEF r
  <1>8. Stale \in [Cells -> Nat]
    BY DEF Stale
  <1>9. r.data \in DataType
    BY <1>3, <1>5, <1>7, <1>8 DEF DataType
  <1>a. i >= NDirect => q \in Blocks
    <2>1. i >= NDirect => q # 0
      <3>1. i >= NDirect => ~(i < NDirect)
        BY <1>2, Sizes
      <3> QED BY <1>3, <3>1 DEF b, BlockAt
    <2> QED BY <1>5, <2>1
  <1>10. /\ t.free = s.free \cup {b} /\ t.super = TRUE /\ t.dirty = TRUE /\ t.err = s.err /\ t.done = s.done
         /\ t = [ino |-> t.ino, free |-> t.free, super |-> t.super, data |-> t.data,
                 dirty |-> t.dirty, err |-> t.err, done |-> t.done]
    BY <1>6, <1>7
  <1>11. /\ t.ino.size = s.ino.size /\ t.ino.blocks = i /\ t.ino.indirect = q
         /\ t.ino.direct = IF i < NDirect THEN [s.ino.direct EXCEPT ![i] = 0] ELSE s.ino.direct
         /\ t.ino = [size |-> t.ino.size, blocks |-> t.ino.blocks, direct |-> t.ino.direct,
                     indirect |-> t.ino.indirect]
    <2>1. CASE i < NDirect
      <3>1. t.ino = [[s.ino EXCEPT !.blocks = i] EXCEPT !.direct[i] = 0]
        BY <1>6, <1>7, <2>1
      <3> QED BY <1>5, <2>1, <3>1
    <2>2. CASE ~(i < NDirect)
      <3>1. t.ino = [s.ino EXCEPT !.blocks = i]
        BY <1>6, <1>7, <2>2
      <3> QED BY <1>5, <2>2, <3>1
    <2> QED BY <2>1, <2>2
  <1>12. t.data = IF i < NDirect THEN r.data ELSE [r.data EXCEPT ![q][i - NDirect] = 0]
    BY <1>6, <1>7
  <1>13. /\ t.data \in DataType
         /\ \A c \in Blocks : c # b /\ (i < NDirect \/ c # q) => t.data[c] = s.data[c]
         /\ ~(i < NDirect) => /\ t.data[q][i - NDirect] = 0
                              /\ \A c \in Cells : c # i - NDirect => t.data[q][c] = s.data[q][c]
    <2>1. \A c \in Blocks : c # b => r.data[c] = s.data[c]
      BY <1>5, <1>7 DEF DataType
    <2>2. CASE i < NDirect
      BY <1>9, <1>12, <2>1, <2>2
    <2>3. CASE ~(i < NDirect)
      <3>1. q \in Blocks /\ q # b
        BY <1>2, <1>4, <1>a, <2>3, Sizes
      <3>2. i - NDirect \in Cells
        BY <1>2, <2>3, Sizes
      <3> DEFINE e == i - NDirect
      <3>3. t.data = [r.data EXCEPT ![q][e] = 0]
        BY <1>12, <2>3
      <3>4. r.data[q] = s.data[q] /\ r.data[q] \in [Cells -> Nat]
        BY <1>9, <2>1, <3>1 DEF DataType
      <3>5. e \in Cells
        BY <3>2
      <3> HIDE DEF e
      <3>6. t.data[q] = [r.data[q] EXCEPT ![e] = 0]
        BY <1>9, <3>1, <3>3 DEF DataType
      <3>7. \A c \in Blocks : c # q => t.data[c] = r.data[c]
        BY <1>9, <3>1, <3>3 DEF DataType
      <3>8. t.data \in DataType
        <4>1. t.data[q] \in [Cells -> Nat]
          <5> DEFINE g == r.data[q]
          <5>1. g \in [Cells -> Nat]
            BY <3>4
          <5>2. t.data[q] = [g EXCEPT ![e] = 0]
            BY <3>6
          <5> HIDE DEF g
          <5>3. [g EXCEPT ![e] = 0] \in [Cells -> Nat]
            BY <5>1
          <5> QED BY <5>2, <5>3
        <4>2. t.data = [r.data EXCEPT ![q] = t.data[q]]
          BY <1>9, <3>1, <3>3, <3>6 DEF DataType
        <4> QED BY <1>9, <3>1, <4>1, <4>2 DEF DataType
      <3>9. t.data[q][e] = 0 /\ \A c \in Cells : c # e => t.data[q][c] = s.data[q][c]
        BY <3>4, <3>5, <3>6
      <3>10. \A c \in Blocks : c # b /\ (i < NDirect \/ c # q) => t.data[c] = s.data[c]
        BY <2>1, <2>3, <3>7
      <3> QED BY <3>8, <3>9, <3>10 DEF e
    <2> QED BY <2>2, <2>3
  <1>14. t \in ViewType
    <2>1. t.ino.direct \in [0..NDirect-1 -> Blocks \cup {0}]
      BY <1>5, <1>11
    <2>2. t.ino.blocks \in 0..Indirect
      BY <1>2, <1>11, Sizes
    <2>3. t.ino \in InodeType
      BY <1>1, <1>5, <1>11, <2>1, <2>2, Fields DEF InodeType
    <2>4. t.free \in SUBSET Blocks
      BY <1>3, <1>5, <1>10
    <2> QED BY <1>1, <1>10, <1>13, <2>3, <2>4, Fields DEF ViewType
  <1>15. \A x \in Places : At(t.ino, t.data, x) = IF x = i THEN 0 ELSE At(s.ino, s.data, x)
    <2> SUFFICES ASSUME NEW x \in Places
                 PROVE  At(t.ino, t.data, x) = IF x = i THEN 0 ELSE At(s.ino, s.data, x)
      OBVIOUS
    <2>0. x \in Nat /\ x <= Indirect /\ NDirect \in Nat
      BY Where, Sizes DEF Places
    <2>1. CASE x = Indirect
      BY <1>2, <1>11, <2>1 DEF At
    <2>2. CASE x # Indirect /\ x < NDirect
      <3>1. x \in 0..NDirect-1
        BY <2>0, <2>2
      <3>2. t.ino.direct[x] = IF x = i THEN 0 ELSE s.ino.direct[x]
        BY <1>2, <1>5, <1>11, <2>2, <3>1
      <3> QED BY <2>2, <3>2 DEF At, BlockAt
    <2>3. CASE x # Indirect /\ ~(x < NDirect)
      <3>1. x - NDirect \in Cells /\ x < Indirect
        BY <2>0, <2>3, Sizes
      <3>2. At(t.ino, t.data, x) = IF q = 0 THEN 0 ELSE t.data[q][x - NDirect]
        BY <1>11, <2>3 DEF At, BlockAt
      <3>3. At(s.ino, s.data, x) = IF q = 0 THEN 0 ELSE s.data[q][x - NDirect]
        BY <2>3 DEF At, BlockAt
      <3>4. CASE q = 0
        <4>1. x # i
          BY <1>2, <1>a, <2>3, <3>4, Sizes
        <4> QED BY <3>2, <3>3, <3>4, <4>1
      <3>5. CASE q # 0 /\ i < NDirect
        <4>1. t.data[q] = s.data[q]
          BY <1>4, <1>5, <1>13, <3>5
        <4>2. x # i
          BY <2>3, <3>5
        <4> QED BY <3>2, <3>3, <3>5, <4>1, <4>2
      <3>6. CASE q # 0 /\ ~(i < NDirect)
        <4>1. x = i <=> x - NDirect = i - NDirect
          BY <1>2, <2>0
        <4> QED BY <1>13, <3>1, <3>2, <3>3, <3>6, <4>1
      <3> QED BY <3>4, <3>5, <3>6
    <2> QED BY <2>1, <2>2, <2>3
  <1> DEFINE A(x) == At(s.ino, s.data, x)
             B(x) == At(t.ino, t.data, x)
  <1>16. /\ \A x \in Places : A(x) \in Blocks \cup {0}
         /\ \A x \in Indexes : A(x) # 0 <=> x < i + 1
         /\ \A x, y \in Places : A(x) = A(y) /\ A(x) # 0 => x = y
         /\ \A x \in Places : A(x) \notin X /\ A(x) \notin s.free
         /\ \A c \in Blocks : c \in X \/ c \in s.free \/ \E x \in Places : A(x) = c
         /\ \A c \in X : c \in Blocks /\ c \notin s.free /\ s.data[c] = d[c]
         /\ A(Indirect) = q /\ A(i) = b
         /\ \A x \in Places : B(x) = IF x = i THEN 0 ELSE A(x)
    BY <1>1, <1>2, <1>3, <1>15, Where DEF Fits, MapOK
  <1> HIDE DEF A, B, q
  <1>b. 0 \notin Blocks
    BY Sizes
  <1>17. MapOK(t.ino, t.data)
    <2>1. \A x \in Places : B(x) \in Blocks \cup {0}
      BY <1>16
    <2>2. \A x \in Indexes : B(x) # 0 <=> x < i
      <3> SUFFICES ASSUME NEW x \in Indexes PROVE B(x) # 0 <=> x < i
        OBVIOUS
      <3>1. x \in Places /\ x \in Nat
        BY Where
      <3>2. A(x) # 0 <=> x < i + 1
        BY <1>16
      <3>3. B(x) = IF x = i THEN 0 ELSE A(x)
        BY <1>16, <3>1
      <3> QED BY <1>2, <3>1, <3>2, <3>3
    <2>3. \A x, y \in Places : B(x) = B(y) /\ B(x) # 0 => x = y
      BY <1>16
    <2> QED BY <1>11, <2>1, <2>2, <2>3 DEF MapOK, B
  <1>18. \A c \in X : c \in Blocks /\ c \notin t.free /\ t.data[c] = d[c]
    <2> SUFFICES ASSUME NEW c \in X PROVE c \in Blocks /\ c \notin t.free /\ t.data[c] = d[c]
      OBVIOUS
    <2>1. c # b /\ c # q
      BY <1>2, <1>16, Where
    <2> QED BY <1>10, <1>13, <1>16, <2>1
  <1>19. \A x \in Places : B(x) \notin X /\ B(x) \notin t.free
    <2> SUFFICES ASSUME NEW x \in Places PROVE B(x) \notin X /\ B(x) \notin t.free
      OBVIOUS
    <2>1. 0 \notin X /\ 0 \notin t.free
      BY <1>3, <1>5, <1>10, <1>16, <1>b
    <2>2. CASE x = i
      BY <1>16, <2>1, <2>2
    <2>3. CASE x # i
      <3>1. B(x) = A(x) /\ A(x) \notin X /\ A(x) \notin s.free
        BY <1>16, <2>3
      <3>2. A(x) # b
        <4>1. i \in Places
          BY <1>2
        <4> QED BY <1>3, <1>16, <2>3, <4>1
      <3> QED BY <1>10, <3>1, <3>2
    <2> QED BY <2>2, <2>3
  <1>20. \A c \in Blocks : c \in X \/ c \in t.free \/ \E x \in Places : B(x) = c
    <2> SUFFICES ASSUME NEW c \in Blocks, c \notin X, c \notin t.free PROVE \E x \in Places : B(x) = c
      OBVIOUS
    <2>1. c \notin s.free /\ c # b
      BY <1>10
    <2>2. PICK x \in Places : A(x) = c
      BY <1>16, <2>1
    <2> QED BY <1>16, <2>1, <2>2
  <1>21. Fits(t, X, d)
    BY <1>14, <1>17, <1>18, <1>19, <1>20 DEF Fits, B
  <1>22. \A j \in Indexes, c \in Cells :
           Cell(t, j, c) = IF j < t.ino.blocks THEN Cell(s, j, c) ELSE 0
    <2> SUFFICES ASSUME NEW j \in Indexes, NEW c \in Cells
                 PROVE  Cell(t, j, c) = IF j < t.ino.blocks THEN Cell(s, j, c) ELSE 0
      OBVIOUS
    <2>1. CASE j < i
      <3>1. j \in Places /\ j # i /\ j < i + 1 /\ j # Indirect
        <4>1. j \in Places /\ j \in Nat /\ j # Indirect
          BY Where
        <4> QED BY <1>2, <2>1, <4>1
      <3>2. A(j) # 0 /\ A(j) \in Blocks /\ B(j) = A(j)
        BY <1>16, <3>1
      <3>3. A(j) # b /\ A(j) # q
        BY <1>2, <1>16, <3>1, <3>2, Where
      <3>4. t.data[A(j)] = s.data[A(j)]
        BY <1>13, <3>2, <3>3
      <3>5. t.ino.blocks = i /\ j < s.ino.blocks
        BY <1>2, <1>11, <3>1
      <3> QED BY <2>1, <3>2, <3>4, <3>5 DEF Cell, A, B
    <2>2. CASE ~(j < i)
      BY <1>11, <2>2 DEF Cell
    <2> QED BY <2>1, <2>2
  <1> QED BY <1>2, <1>10, <1>11, <1>21, <1>22 DEF i

-----------------------------------------------------------------------------
(* The loops. *)

\* A round of a loop that makes a file longer, of one that makes it shorter, and of one
\* that reads or writes.
Turn(kind, s, i, pos, end, write, v) ==
  IF kind = "grow" THEN Load(s, i)
  ELSE IF kind = "shrink" THEN Drop(s)
  ELSE IoBlock(s, i, pos, end, write, v)

\* What there is after each of n rounds.
Turns(kind, s, first, n, pos, end, write, v, u) ==
  u = [k \in 0..n |-> IF k = 0 THEN s
                      ELSE Turn(kind, u[k - 1], first + (k - 1), pos, end, write, v)]

\* They can be carried out.
LEMMA TurnsExist ==
  ASSUME NEW kind, NEW s, NEW first, NEW n \in Nat, NEW pos, NEW end, NEW write, NEW v
  PROVE  \E u : Turns(kind, s, first, n, pos, end, write, v, u)
  <1> DEFINE Is(k, u) == Turns(kind, s, first, k, pos, end, write, v, u)
             B == {k \in 0..n : \E u : Is(k, u)}
             Do(x, k) == Turn(kind, x, first + (k - 1), pos, end, write, v)
  <1>1. 0 \in B
    <2>1. Is(0, [k \in 0..0 |-> s])
      BY DEF Turns
    <2> HIDE DEF Is
    <2> QED BY <2>1
  <1>2. ASSUME NEW k \in 1..n, k - 1 \in B PROVE k \in B
    <2>1. PICK a : Is(k - 1, a)
      BY <1>2
    <2> DEFINE d == [l \in 0..k |-> IF l = k THEN Do(a[k - 1], k) ELSE a[l]]
               Right(l) == d[l] = IF l = 0 THEN s ELSE Do(d[l - 1], l)
    <2>2. \A l \in 0..(k - 1) : a[l] = IF l = 0 THEN s ELSE Do(a[l - 1], l)
      BY <2>1 DEF Turns
    <2> HIDE DEF Do
    <2>3. ASSUME NEW l \in 0..k PROVE Right(l)
      <3>1. l # 0 => l - 1 \in 0..k /\ d[l - 1] = a[l - 1]
        BY <1>2
      <3>2. CASE l = k
        BY <1>2, <3>1, <3>2
      <3>3. CASE l # k
        <4>1. l \in 0..(k - 1) /\ d[l] = a[l]
          BY <1>2, <3>3
        <4> QED BY <2>2, <3>1, <4>1
      <3> QED BY <3>2, <3>3
    <2>4. Is(k, d)
      <3>1. d = [l \in 0..k |-> d[l]]
        OBVIOUS
      <3> HIDE DEF d
      <3> QED BY <2>3, <3>1 DEF Turns, Do
    <2> HIDE DEF Is, d
    <2> QED BY <1>2, <2>4
  <1>3. \A k \in 0..n : k \in B
    <2> HIDE DEF B
    <2> QED BY <1>1, <1>2, Rounds
  <1>4. n \in B
    <2> HIDE DEF B
    <2> QED BY <1>3
  <1>5. \E u : Is(n, u)
    BY <1>4
  <1> QED BY <1>5 DEF Is

\* The loop of sfs_truncfile that adds blocks.
GrowAll(s, first, n) == Loop(s, n, LAMBDA x, k : Load(x, first + k))

\* What sfs_truncfile has after each round when the file grows.
GrowLoop(s, first, n, u) ==
  u = [k \in 0..n |-> IF k = 0 THEN s ELSE Load(u[k - 1], first + (k - 1))]

\* It is there, whatever the number of rounds.
LEMMA GrowLoopIs ==
  ASSUME NEW s, NEW first, NEW n \in Nat
  PROVE  \E u : /\ GrowAll(s, first, n) = u[n]
                /\ \A k \in 0..n : u[k] = IF k = 0 THEN s ELSE Load(u[k - 1], first + (k - 1))
  <1> DEFINE u == CHOOSE x : GrowLoop(s, first, n, x)
  <1>1. PICK x : Turns("grow", s, first, n, 0, 0, FALSE, 0, x)
    BY TurnsExist
  <1>2. GrowLoop(s, first, n, x)
    BY <1>1 DEF Turns, Turn, GrowLoop
  <1>3. GrowLoop(s, first, n, u)
    <2>1. \E y : GrowLoop(s, first, n, y)
      BY <1>2
    <2> QED BY ONLY <2>1
  <1>4. GrowAll(s, first, n) = u[n]
    BY DEF GrowAll, Loop, GrowLoop
  <1> HIDE DEF u
  <1>5. \A k \in 0..n : u[k] = IF k = 0 THEN s ELSE Load(u[k - 1], first + (k - 1))
    BY <1>3 DEF GrowLoop
  <1> QED BY <1>4, <1>5

\* The one that removes blocks.
ShrinkAll(s, n) == Loop(s, n, LAMBDA x, k : Drop(x))

\* What sfs_truncfile has after each round when the file gets shorter.
ShrinkLoop(s, n, u) == u = [k \in 0..n |-> IF k = 0 THEN s ELSE Drop(u[k - 1])]

\* It is there.
LEMMA ShrinkLoopIs ==
  ASSUME NEW s, NEW n \in Nat
  PROVE  \E u : /\ ShrinkAll(s, n) = u[n]
                /\ \A k \in 0..n : u[k] = IF k = 0 THEN s ELSE Drop(u[k - 1])
  <1> DEFINE u == CHOOSE x : ShrinkLoop(s, n, x)
  <1>1. PICK x : Turns("shrink", s, 0, n, 0, 0, FALSE, 0, x)
    BY TurnsExist
  <1>2. ShrinkLoop(s, n, x)
    BY <1>1 DEF Turns, Turn, ShrinkLoop
  <1>3. ShrinkLoop(s, n, u)
    <2>1. \E y : ShrinkLoop(s, n, y)
      BY <1>2
    <2> QED BY ONLY <2>1
  <1>4. ShrinkAll(s, n) = u[n]
    BY DEF ShrinkAll, Loop, ShrinkLoop
  <1> HIDE DEF u
  <1>5. \A k \in 0..n : u[k] = IF k = 0 THEN s ELSE Drop(u[k - 1])
    BY <1>3 DEF ShrinkLoop
  <1> QED BY <1>4, <1>5

\* The loop of sfs_io_nolock.
IoAll(s, first, n, pos, end, write, v) ==
  Loop(s, n, LAMBDA x, k : IoBlock(x, first + k, pos, end, write, v))

\* What sfs_io_nolock has after each block.
IoLoop(s, first, n, pos, end, write, v, u) ==
  u = [k \in 0..n |-> IF k = 0 THEN s ELSE IoBlock(u[k - 1], first + (k - 1), pos, end, write, v)]

\* The loop, round by round.
IoRounds(s, first, n, pos, end, write, v, u) ==
  /\ IoAll(s, first, n, pos, end, write, v) = u[n]
  /\ \A k \in 0..n : u[k] = IF k = 0 THEN s
                            ELSE IoBlock(u[k - 1], first + (k - 1), pos, end, write, v)

\* It is there.
LEMMA IoLoopIs ==
  ASSUME NEW s, NEW first, NEW n \in Nat, NEW pos, NEW end, NEW write, NEW v
  PROVE  \E u : IoRounds(s, first, n, pos, end, write, v, u)
  <1> DEFINE u == CHOOSE x : IoLoop(s, first, n, pos, end, write, v, x)
  <1>1. PICK x : Turns("io", s, first, n, pos, end, write, v, x)
    BY TurnsExist
  <1>2. IoLoop(s, first, n, pos, end, write, v, x)
    BY <1>1 DEF Turns, Turn, IoLoop
  <1>3. IoLoop(s, first, n, pos, end, write, v, u)
    <2>1. \E y : IoLoop(s, first, n, pos, end, write, v, y)
      BY <1>2
    <2> QED BY ONLY <2>1
  <1>4. IoAll(s, first, n, pos, end, write, v) = u[n]
    BY DEF IoAll, Loop, IoLoop
  <1> HIDE DEF u
  <1>5. \A k \in 0..n : u[k] = IF k = 0 THEN s
                               ELSE IoBlock(u[k - 1], first + (k - 1), pos, end, write, v)
    BY <1>3 DEF IoLoop
  <1>6. IoRounds(s, first, n, pos, end, write, v, u)
    BY <1>4, <1>5 DEF IoRounds
  <1> QED BY <1>6

\* Whoever takes or frees a block marks the superblock.
Marks(s, t) == (s.super => t.super) /\ (t.super \/ t.free = s.free)

\* The size of a file changes nothing in its map.
WithSize(s, n) == [s EXCEPT !.ino.size = n, !.dirty = TRUE]

SizeSet(s, t, X, d, n) ==
  /\ Fits(t, X, d) /\ t.ino.size = n /\ t.ino.blocks = s.ino.blocks /\ SameCells(s, t)
  /\ t.err = s.err /\ t.done = s.done /\ t.super = s.super /\ t.free = s.free

\* The map is right for any size.
LEMMA Resized ==
  ASSUME NEW s, NEW X, NEW d, Fits(s, X, d), NEW n \in Nat,
         NEW t, t = WithSize(s, n)
  PROVE  SizeSet(s, t, X, d, n)
  <1> USE DEF SizeSet
  <1>1. s \in ViewType /\ s.ino \in InodeType
    BY Fields DEF Fits
  <1>2. /\ s = [ino |-> s.ino, free |-> s.free, super |-> s.super, data |-> s.data,
                dirty |-> s.dirty, err |-> s.err, done |-> s.done]
        /\ s.ino = [size |-> s.ino.size, blocks |-> s.ino.blocks, direct |-> s.ino.direct,
                    indirect |-> s.ino.indirect]
    BY <1>1 DEF ViewType, InodeType
  <1>3. /\ t.err = s.err /\ t.done = s.done /\ t.super = s.super /\ t.free = s.free
        /\ t.data = s.data /\ t.dirty = TRUE /\ t.ino = [s.ino EXCEPT !.size = n]
        /\ t = [ino |-> t.ino, free |-> t.free, super |-> t.super, data |-> t.data,
                dirty |-> t.dirty, err |-> t.err, done |-> t.done]
    BY <1>2 DEF WithSize
  <1>4. /\ t.ino.size = n /\ t.ino.blocks = s.ino.blocks /\ t.ino.direct = s.ino.direct
        /\ t.ino.indirect = s.ino.indirect
        /\ t.ino = [size |-> t.ino.size, blocks |-> t.ino.blocks, direct |-> t.ino.direct,
                    indirect |-> t.ino.indirect]
    BY <1>2, <1>3
  <1>5. t \in ViewType
    <2>1. t.ino \in InodeType
      BY <1>1, <1>4, Fields DEF InodeType
    <2> QED BY <1>1, <1>3, <2>1, Fields DEF ViewType
  <1>6. \A x : At(t.ino, t.data, x) = At(s.ino, s.data, x)
    BY <1>3, <1>4 DEF At, BlockAt
  <1>7. Fits(t, X, d)
    <2>1. MapOK(t.ino, t.data)
      BY <1>4, <1>6 DEF Fits, MapOK
    <2>2. \A b \in X : b \in Blocks /\ b \notin t.free /\ t.data[b] = d[b]
      BY <1>3 DEF Fits
    <2>3. \A x \in Places : At(t.ino, t.data, x) \notin X /\ At(t.ino, t.data, x) \notin t.free
      BY <1>3, <1>6 DEF Fits
    <2>4. \A b \in Blocks : b \in X \/ b \in t.free \/ \E x \in Places : At(t.ino, t.data, x) = b
      BY <1>3, <1>6 DEF Fits
    <2> QED BY <1>5, <2>1, <2>2, <2>3, <2>4 DEF Fits
  <1>8. SameCells(s, t)
    BY <1>3, <1>4, <1>6 DEF SameCells, Cell
  <1> QED BY <1>3, <1>4, <1>7, <1>8

\* The rounds of sfs_truncfile that add blocks.
LEMMA Growing ==
  ASSUME NEW s, NEW X, NEW d, Fits(s, X, d), s.err = "none", NEW m \in Nat, s.ino.blocks < m,
         NEW t, t = GrowAll(s, s.ino.blocks, m - s.ino.blocks)
  PROVE  \/ t.err \in Panics
         \/ /\ Fits(t, X, d) /\ Grows(s, t)
            /\ \/ t.err = "none" /\ t.ino.blocks = m
               \/ t.err = "no_space" /\ Room(s) < m
  <1> DEFINE first == s.ino.blocks
             n == m - first
  <1>1. first \in Nat /\ n \in Nat /\ n # 0
    <2>1. first \in Nat
      BY Fields DEF Fits
    <2> QED BY <2>1
  <1>2. PICK u : /\ GrowAll(s, first, n) = u[n]
                 /\ \A k \in 0..n : u[k] = IF k = 0 THEN s ELSE Load(u[k - 1], first + (k - 1))
    BY <1>1, GrowLoopIs
  <1> DEFINE Good(x, k) == \/ x.err \in Panics
                           \/ /\ Fits(x, X, d) /\ Grows(s, x)
                              /\ \/ x.err = "none" /\ x.ino.blocks = first + k /\ Room(x) = Room(s)
                                 \/ x.err = "no_space" /\ Room(s) < m
             B == {k \in 0..n : Good(u[k], k)}
  <1>a. Room(s) \in Int
    <2>1. s \in ViewType
      BY DEF Fits
    <2>2. Cardinality(s.free) \in Nat /\ s.ino.blocks \in Nat
      BY <2>1, Fields
    <2> QED BY <2>2 DEF Room
  <1>3. 0 \in B
    <2>1. u[0] = s
      BY <1>1, <1>2
    <2>2. Good(s, 0)
      BY <1>1, GrowsSelf
    <2> HIDE DEF Good
    <2> QED BY <1>1, <2>1, <2>2
  <1>4. ASSUME NEW k \in 1..n, k - 1 \in B PROVE k \in B
    <2> DEFINE x == u[k - 1]
               y == u[k]
               i == first + (k - 1)
    <2>1. Good(x, k - 1)
      BY <1>4
    <2>2. y = Load(x, i)
      BY <1>2
    <2>3. i \in Nat /\ i < m /\ i + 1 = first + k
      BY <1>1
    <2> HIDE DEF x, y, i
    <2>4. CASE x.err # "none"
      <3>1. y = x
        BY <2>2, <2>4 DEF Load
      <3>2. Good(y, k)
        BY <2>1, <2>4, <3>1
      <3> HIDE DEF Good
      <3> QED BY <3>2 DEF y
    <2>5. CASE x.err = "none"
      <3>1. Fits(x, X, d) /\ Grows(s, x) /\ x.ino.blocks = i /\ Room(x) = Room(s)
        BY <2>1, <2>5 DEF Panics, i
      <3>2. \/ y.err \in Panics
            \/ /\ Fits(y, X, d) /\ Grows(x, y)
               /\ \/ /\ y.err = "none" /\ i < Indirect /\ i < y.ino.blocks /\ Room(y) = Room(x)
                     /\ y.ino.blocks = IF i < x.ino.blocks THEN x.ino.blocks ELSE i + 1
                  \/ y.err = "no_space" /\ i < Indirect /\ i = x.ino.blocks /\ Room(x) <= i
        BY <2>2, <2>3, <2>5, <3>1, LoadOK
      <3>3. Grows(x, y) => Grows(s, y)
        BY <3>1, GrowsOn
      <3>4. Good(y, k)
        <4>1. CASE y.err \in Panics
          BY <4>1
        <4>2. CASE Fits(y, X, d) /\ Grows(x, y) /\ y.err = "none" /\ i < y.ino.blocks /\ Room(y) = Room(x)
                   /\ y.ino.blocks = IF i < x.ino.blocks THEN x.ino.blocks ELSE i + 1
          <5>1. y.ino.blocks = first + k
            BY <2>3, <3>1, <4>2
          <5> QED BY <3>1, <3>3, <4>2, <5>1
        <4>3. CASE Fits(y, X, d) /\ Grows(x, y) /\ y.err = "no_space" /\ Room(x) <= i
          <5>1. Room(s) < m
            BY <1>a, <2>3, <3>1, <4>3
          <5> QED BY <3>3, <4>3, <5>1
        <4> QED BY <3>2, <4>1, <4>2, <4>3
      <3> HIDE DEF Good
      <3> QED BY <3>4 DEF y
    <2> QED BY <2>4, <2>5
  <1>5. n \in B
    <2>1. \A k \in 0..n : k \in B
      <3> HIDE DEF B
      <3> QED BY <1>1, <1>3, <1>4, Rounds
    <2> HIDE DEF B
    <2> QED BY <1>1, <2>1
  <1>6. t = u[n]
    BY <1>2
  <1>7. Good(t, n) /\ first + n = m
    BY <1>1, <1>5, <1>6
  <1> QED BY <1>7

\* The view of a file that was cut to its first m blocks.
Cut(s, t, m) ==
  /\ t.err = "none" /\ t.done = s.done /\ t.ino.size = s.ino.size /\ t.ino.blocks = m /\ Marks(s, t)
  /\ \A j \in Indexes, c \in Cells : Cell(t, j, c) = IF j < m THEN Cell(s, j, c) ELSE 0

\* The rounds of sfs_truncfile that remove blocks.
LEMMA Shrinking ==
  ASSUME NEW s, NEW X, NEW d, Fits(s, X, d), s.err = "none", NEW m \in Nat, m <= s.ino.blocks,
         NEW t, t = ShrinkAll(s, s.ino.blocks - m)
  PROVE  Fits(t, X, d) /\ Cut(s, t, m)
  <1> DEFINE first == s.ino.blocks
             n == first - m
  <1>1. first \in Nat /\ n \in Nat
    <2>1. first \in Nat
      BY Fields DEF Fits
    <2> QED BY <2>1
  <1>2. PICK u : /\ ShrinkAll(s, n) = u[n]
                 /\ \A k \in 0..n : u[k] = IF k = 0 THEN s ELSE Drop(u[k - 1])
    BY <1>1, ShrinkLoopIs
  <1> DEFINE Good(x, k) == Fits(x, X, d) /\ Cut(s, x, first - k)
             B == {k \in 0..n : Good(u[k], k)}
  <1>3. 0 \in B
    <2>1. u[0] = s
      BY <1>1, <1>2
    <2>2. \A j \in Indexes, c \in Cells : Cell(s, j, c) = IF j < first THEN Cell(s, j, c) ELSE 0
      BY DEF Cell
    <2>3. first - 0 = first
      BY <1>1
    <2>4. Good(s, 0)
      BY <2>2, <2>3 DEF Cut, Marks
    <2> HIDE DEF Good
    <2> QED BY <1>1, <2>1, <2>4
  <1>4. ASSUME NEW k \in 1..n, k - 1 \in B PROVE k \in B
    <2> DEFINE x == u[k - 1]
               y == u[k]
    <2>1. Good(x, k - 1)
      BY <1>4
    <2>2. y = Drop(x)
      BY <1>2
    <2> DEFINE i == first - (k - 1)
    <2>3. i \in Nat /\ i # 0 /\ i - 1 = first - k /\ i - 1 \in Nat
      BY <1>1
    <2>4. x.err = "none" /\ x.ino.blocks = i
      BY <2>1 DEF Cut
    <2> HIDE DEF x, y, i
    <2>5. /\ Fits(y, X, d) /\ y.err = "none" /\ y.super = TRUE /\ y.done = x.done
          /\ y.ino.size = x.ino.size /\ y.ino.blocks = x.ino.blocks - 1
          /\ \A j \in Indexes, c \in Cells :
               Cell(y, j, c) = IF j < y.ino.blocks THEN Cell(x, j, c) ELSE 0
      BY <2>1, <2>2, <2>3, <2>4, DropOK
    <2>6. \A j \in Indexes, c \in Cells : Cell(x, j, c) = IF j < i THEN Cell(s, j, c) ELSE 0
      BY <2>1 DEF Cut, i
    <2>7. \A j \in Indexes, c \in Cells : Cell(y, j, c) = IF j < i - 1 THEN Cell(s, j, c) ELSE 0
      <3> SUFFICES ASSUME NEW j \in Indexes, NEW c \in Cells
                   PROVE  Cell(y, j, c) = IF j < i - 1 THEN Cell(s, j, c) ELSE 0
        OBVIOUS
      <3>1. Cell(y, j, c) = IF j < i - 1 THEN Cell(x, j, c) ELSE 0
        BY <2>4, <2>5
      <3>2. Cell(x, j, c) = IF j < i THEN Cell(s, j, c) ELSE 0
        BY <2>6
      <3>3. j \in Nat
        BY Where
      <3>4. j < i - 1 => j < i
        BY <2>3, <3>3
      <3> QED BY <3>1, <3>2, <3>4
    <2>8. Cut(s, y, i - 1)
      <3>1. x.done = s.done /\ x.ino.size = s.ino.size
        BY <2>1 DEF Cut
      <3>2. y.ino.blocks = i - 1
        BY <2>4, <2>5
      <3> QED BY <2>5, <2>7, <3>1, <3>2 DEF Cut, Marks
    <2>9. Good(y, k)
      BY <2>3, <2>5, <2>8
    <2> HIDE DEF Good
    <2> QED BY <2>9 DEF y
  <1>5. n \in B
    <2>1. \A k \in 0..n : k \in B
      <3> HIDE DEF B
      <3> QED BY <1>1, <1>3, <1>4, Rounds
    <2> HIDE DEF B
    <2> QED BY <1>1, <2>1
  <1>6. t = u[n]
    BY <1>2
  <1>7. Good(t, n)
    BY <1>5, <1>6
  <1>8. first - n = m
    BY <1>1
  <1> QED BY <1>7, <1>8

\* sfs_truncfile: the file has the length it is to have, and what is new in it is zero; or
\* there was no room.
Resizes(s, t, len) ==
  /\ t.err = "none" /\ t.ino.size = len /\ t.ino.blocks = Ceil(len)
  /\ \A j \in Indexes, c \in Cells : Cell(t, j, c) = IF j < Ceil(len) THEN Cell(s, j, c) ELSE 0

\* sfs_truncfile does this.
LEMMA TruncFileOK ==
  ASSUME NEW s, NEW X, NEW d, Fits(s, X, d), s.err = "none", NEW len \in Nat,
         NEW t, t = TruncFile(s, len)
  PROVE  \/ t.err \in Panics
         \/ /\ Fits(t, X, d) /\ Marks(s, t) /\ t.done = s.done
            /\ \/ Resizes(s, t, len)
               \/ /\ t.err = "no_space" /\ t.ino.size = s.ino.size /\ s.ino.size # len /\ SameCells(s, t)
                  /\ s.ino.blocks < Ceil(len) /\ Room(s) < Ceil(len)
  <1> DEFINE n == s.ino.blocks
             m == Ceil(len)
             r == IF n < m THEN GrowAll(s, n, m - n) ELSE ShrinkAll(s, n - m)
  <1>1. n \in Nat /\ m \in Nat /\ s \in ViewType
    BY Fields, CeilOK DEF Fits
  <1>2. t = IF s.ino.size = len
              THEN IF n = m THEN s ELSE Failed(s, "blocks_not_of_size")
            ELSE IF r.err # "none" THEN r
            ELSE [r EXCEPT !.ino.size = len, !.dirty = TRUE]
    BY DEF TruncFile, GrowAll, ShrinkAll
  <1>3. s = [ino |-> s.ino, free |-> s.free, super |-> s.super, data |-> s.data,
             dirty |-> s.dirty, err |-> s.err, done |-> s.done]
    BY <1>1 DEF ViewType
  <1>4. \A j \in Indexes, c \in Cells : Cell(s, j, c) = IF j < n THEN Cell(s, j, c) ELSE 0
    BY DEF Cell
  <1> HIDE DEF r, m
  <1>5. CASE s.ino.size = len /\ n = m
    <2>1. t = s
      BY <1>2, <1>5
    <2> QED BY <1>4, <1>5, <2>1 DEF Marks, Resizes, m
  <1>6. CASE s.ino.size = len /\ n # m
    <2>1. t = [s EXCEPT !.err = "blocks_not_of_size"]
      BY <1>2, <1>6 DEF Failed
    <2> QED BY <1>3, <2>1 DEF Panics
  <1>7. CASE s.ino.size # len /\ n < m
    <2>1. r = GrowAll(s, n, m - n)
      BY <1>7 DEF r
    <2>2. \/ r.err \in Panics
          \/ /\ Fits(r, X, d) /\ Grows(s, r)
             /\ \/ r.err = "none" /\ r.ino.blocks = m
                \/ r.err = "no_space" /\ Room(s) < m
      BY <1>1, <1>7, <2>1, Growing
    <2>3. t = IF r.err # "none" THEN r ELSE [r EXCEPT !.ino.size = len, !.dirty = TRUE]
      BY <1>2, <1>7
    <2>4. CASE r.err \in Panics
      <3>1. r.err # "none"
        BY <2>4 DEF Panics
      <3> QED BY <2>3, <2>4, <3>1
    <2>5. CASE Fits(r, X, d) /\ Grows(s, r) /\ r.err = "no_space" /\ Room(s) < m
      <3>1. t = r
        BY <2>3, <2>5
      <3> QED BY <1>7, <2>5, <3>1 DEF Grows, Marks, m
    <2>6. CASE Fits(r, X, d) /\ Grows(s, r) /\ r.err = "none" /\ r.ino.blocks = m
      <3>1. t = WithSize(r, len)
        BY <2>3, <2>6 DEF WithSize
      <3>2. /\ Fits(t, X, d) /\ t.ino.size = len /\ t.ino.blocks = r.ino.blocks /\ SameCells(r, t)
            /\ t.err = r.err /\ t.done = r.done /\ t.super = r.super /\ t.free = r.free
        BY <2>6, <3>1, Resized DEF SizeSet
      <3>3. \A j \in Indexes, c \in Cells : Cell(t, j, c) = Cell(s, j, c)
        BY <2>6, <3>2 DEF Grows, SameCells
      <3>4. t.ino.blocks = m
        BY <2>6, <3>2
      <3>5. \A j \in Indexes, c \in Cells : Cell(t, j, c) = IF j < m THEN Cell(s, j, c) ELSE 0
        BY <3>3, <3>4 DEF Cell
      <3>6. Resizes(s, t, len)
        BY <2>6, <3>2, <3>4, <3>5 DEF Resizes, m
      <3>7. Marks(s, t) /\ t.done = s.done
        BY <2>6, <3>2 DEF Grows, Marks
      <3> QED BY <3>2, <3>6, <3>7
    <2> QED BY <2>2, <2>4, <2>5, <2>6
  <1>8. CASE s.ino.size # len /\ ~(n < m)
    <2>1. r = ShrinkAll(s, n - m) /\ m <= n
      BY <1>1, <1>8 DEF r
    <2>2. Fits(r, X, d) /\ Cut(s, r, m)
      BY <1>1, <2>1, Shrinking
    <2>3. t = WithSize(r, len)
      BY <1>2, <1>8, <2>2 DEF Cut, WithSize
    <2>4. /\ Fits(t, X, d) /\ t.ino.size = len /\ t.ino.blocks = r.ino.blocks /\ SameCells(r, t)
          /\ t.err = r.err /\ t.done = r.done /\ t.super = r.super /\ t.free = r.free
      BY <2>2, <2>3, Resized DEF SizeSet
    <2>5. Resizes(s, t, len)
      BY <2>2, <2>4 DEF Cut, SameCells, Resizes, m
    <2>6. Marks(s, t) /\ t.done = s.done
      BY <2>2, <2>4 DEF Cut, Marks
    <2> QED BY <2>4, <2>5, <2>6
  <1> QED BY <1>5, <1>6, <1>7, <1>8

\* One block is written, and n bytes have been moved.
WithBlock(s, i, w, n) == [s EXCEPT !.done = n, !.data[BlockAt(s.ino, s.data, i)] = w]

\* Bytes stored in a block change nothing but this block.
LEMMA Stored ==
  ASSUME NEW s, NEW X, NEW d, Fits(s, X, d), NEW i \in Nat, i < s.ino.blocks,
         NEW w \in [Cells -> Nat], NEW n \in Nat, NEW t, t = WithBlock(s, i, w, n)
  PROVE  /\ Fits(t, X, d) /\ t.ino = s.ino /\ t.free = s.free /\ t.super = s.super /\ t.err = s.err
         /\ t.done = n
         /\ \A j \in Indexes, c \in Cells : Cell(t, j, c) = IF j = i THEN w[c] ELSE Cell(s, j, c)
  <1> DEFINE b == BlockAt(s.ino, s.data, i)
  <1>1. s \in ViewType /\ MapOK(s.ino, s.data) /\ s.data \in DataType
    BY Fields DEF Fits
  <1>2. i < Indirect /\ i \in Indexes /\ i \in Places /\ i # Indirect
    <2>1. s.ino.blocks \in Nat /\ s.ino.blocks <= Indirect
      BY <1>1, Fields
    <2>2. i < Indirect
      BY <2>1, Sizes
    <2> QED BY <2>2, Where
  <1>3. b = At(s.ino, s.data, i) /\ b # 0 /\ b \in Blocks /\ b \notin s.free /\ b \notin X
    <2>1. b = At(s.ino, s.data, i)
      BY <1>2 DEF At
    <2>2. At(s.ino, s.data, i) # 0 /\ At(s.ino, s.data, i) \in Blocks \cup {0}
      BY <1>1, <1>2 DEF MapOK
    <2>3. At(s.ino, s.data, i) \notin s.free /\ At(s.ino, s.data, i) \notin X
      BY <1>2 DEF Fits
    <2> QED BY <2>1, <2>2, <2>3
  <1>4. t = [s EXCEPT !.done = n, !.data[b] = w]
    BY DEF WithBlock
  <1> HIDE DEF b
  <1>5. /\ t.ino = s.ino /\ t.free = s.free /\ t.super = s.super /\ t.err = s.err /\ t.dirty = s.dirty
        /\ t.done = n /\ t.data = [s.data EXCEPT ![b] = w]
        /\ t = [ino |-> t.ino, free |-> t.free, super |-> t.super, data |-> t.data,
                dirty |-> t.dirty, err |-> t.err, done |-> t.done]
    <2>1. s = [ino |-> s.ino, free |-> s.free, super |-> s.super, data |-> s.data,
               dirty |-> s.dirty, err |-> s.err, done |-> s.done]
      BY <1>1 DEF ViewType
    <2> QED BY <1>4, <2>1
  <1>6. t.data \in DataType /\ t.data[b] = w /\ \A c \in Blocks : c # b => t.data[c] = s.data[c]
    BY <1>1, <1>3, <1>5 DEF DataType
  <1>7. t \in ViewType
    BY <1>1, <1>5, <1>6, Fields DEF ViewType
  <1>8. b # s.ino.indirect
    <2>1. At(s.ino, s.data, Indirect) = s.ino.indirect /\ Indirect \in Places
      BY Where
    <2> QED BY <1>1, <1>2, <1>3, <2>1 DEF MapOK
  <1>9. \A x \in Places : At(t.ino, t.data, x) = At(s.ino, s.data, x)
    <2>1. s.ino.indirect # 0 => t.data[s.ino.indirect] = s.data[s.ino.indirect]
      <3>1. s.ino.indirect \in Blocks \cup {0}
        BY <1>1, Fields
      <3> QED BY <1>6, <1>8, <3>1
    <2> QED BY <1>5, <2>1 DEF At, BlockAt
  <1>10. Fits(t, X, d)
    <2>1. MapOK(t.ino, t.data)
      BY <1>1, <1>5, <1>9, Where DEF MapOK
    <2>2. \A c \in X : c \in Blocks /\ c \notin t.free /\ t.data[c] = d[c]
      BY <1>3, <1>5, <1>6 DEF Fits
    <2>3. \A x \in Places : At(t.ino, t.data, x) \notin X /\ At(t.ino, t.data, x) \notin t.free
      BY <1>5, <1>9 DEF Fits
    <2>4. \A c \in Blocks : c \in X \/ c \in t.free \/ \E x \in Places : At(t.ino, t.data, x) = c
      BY <1>5, <1>9 DEF Fits
    <2> QED BY <1>7, <2>1, <2>2, <2>3, <2>4 DEF Fits
  <1>11. ASSUME NEW j \in Indexes, NEW c \in Cells
         PROVE  Cell(t, j, c) = IF j = i THEN w[c] ELSE Cell(s, j, c)
    <2>0. j \in Places
      BY Where
    <2>1. CASE j = i
      BY <1>3, <1>5, <1>6, <1>9, <2>0, <2>1 DEF Cell
    <2>2. CASE j # i /\ j < s.ino.blocks
      <3>1. At(s.ino, s.data, j) # 0 /\ At(s.ino, s.data, j) \in Blocks \cup {0}
        BY <1>1, <2>0, <2>2 DEF MapOK
      <3>2. At(s.ino, s.data, j) # b
        BY <1>1, <1>2, <1>3, <2>0, <2>2 DEF MapOK
      <3>3. t.data[At(s.ino, s.data, j)] = s.data[At(s.ino, s.data, j)]
        BY <1>6, <3>1, <3>2
      <3> QED BY <1>5, <1>9, <2>0, <2>2, <3>3 DEF Cell
    <2>3. CASE j # i /\ ~(j < s.ino.blocks)
      BY <1>5, <2>3 DEF Cell
    <2> QED BY <2>1, <2>2, <2>3
  <1> QED BY <1>5, <1>10, <1>11

\* The bytes from pos to before the position to were read, or written with v.
Moved(s, t, pos, to, write, v) ==
  /\ t.ino.size = s.ino.size /\ t.done = to - pos /\ Marks(s, t)
  /\ \A j \in Indexes, c \in Cells :
       Cell(t, j, c) = IF write /\ pos <= j * BlkSize + c /\ j * BlkSize + c < to THEN v ELSE Cell(s, j, c)

\* How far the first k rounds get.
Reached(first, k, pos, end) == IF k = 0 THEN pos ELSE Least(end, (first + k) * BlkSize)

\* Block i follows the bytes that have been moved before.
LEMMA NextBlock ==
  ASSUME NEW pos \in Nat, NEW end \in Nat, pos < end, NEW first \in Nat, NEW k \in Nat \ {0},
         first * BlkSize <= pos, pos < first * BlkSize + BlkSize,
         first + (k - 1) < Ceil(end)
  PROVE  LET i    == first + (k - 1)
             to   == Reached(first, k - 1, pos, end)
             upTo == Least(end, (i + 1) * BlkSize)
         IN  /\ upTo = Reached(first, k, pos, end) /\ upTo \in Nat /\ pos <= to /\ to <= upTo /\ upTo <= end
             /\ i < Indirect => upTo <= Indirect * BlkSize
             /\ \A j \in Nat, c \in Cells :
                  /\ j # i => (pos <= j * BlkSize + c /\ j * BlkSize + c < upTo
                                <=> pos <= j * BlkSize + c /\ j * BlkSize + c < to)
                  /\ j = i => ~(pos <= j * BlkSize + c /\ j * BlkSize + c < to)
  <1> DEFINE i    == first + (k - 1)
             to   == Reached(first, k - 1, pos, end)
             upTo == Least(end, (i + 1) * BlkSize)
             p    == i * BlkSize
  <1>1. i \in Nat /\ i + 1 = first + k /\ k - 1 \in Nat /\ BlkSize \in Nat /\ first <= i
    BY Sizes
  <1>2. p \in Nat /\ (i + 1) * BlkSize = p + BlkSize
    BY <1>1, Multiples
  <1>3. upTo = Reached(first, k, pos, end)
    BY <1>1 DEF Reached
  <1>4. upTo = IF end < p + BlkSize THEN end ELSE p + BlkSize
    BY <1>2 DEF Least
  <1>5. p < end
    BY <1>1, CeilBelow
  <1>6. to = IF k = 1 THEN pos ELSE IF end < p THEN end ELSE p
    BY <1>1 DEF Reached, Least
  <1>7. k = 1 => p <= pos /\ pos < p + BlkSize
    <2>1. k = 1 => i = first
      BY <1>1
    <2> QED BY <2>1
  <1>8. k # 1 => pos < p
    <2> DEFINE q == first * BlkSize
    <2>1. first < i => q + BlkSize <= p /\ q \in Nat
      BY <1>1, Multiples
    <2>2. k # 1 => first < i
      BY <1>1
    <2>3. pos < q + BlkSize
      OBVIOUS
    <2> HIDE DEF q, p, i
    <2> QED BY <1>1, <1>2, <2>1, <2>2, <2>3
  <1>9. i < Indirect => p + BlkSize <= Indirect * BlkSize /\ Indirect * BlkSize \in Nat
    <2>1. Indirect \in Nat
      BY Sizes
    <2> QED BY <1>1, <2>1, Multiples
  <1>10. ASSUME NEW j \in Nat, NEW c \in Cells
         PROVE  /\ j # i => (pos <= j * BlkSize + c /\ j * BlkSize + c < upTo
                               <=> pos <= j * BlkSize + c /\ j * BlkSize + c < to)
                /\ j = i => ~(pos <= j * BlkSize + c /\ j * BlkSize + c < to)
    <2> DEFINE q == j * BlkSize
    <2>1. q \in Nat /\ c \in Nat /\ c < BlkSize
      BY Sizes, Multiples
    <2>2. /\ j < i => q + BlkSize <= p
          /\ i < j => p + BlkSize <= q
          /\ j = i => q = p
      BY <1>1, Multiples
    <2>3. j < i \/ i < j \/ j = i
      BY <1>1
    <2> HIDE DEF q, p, i, to, upTo
    <2>4. CASE j = i
      BY <1>1, <1>2, <1>4, <1>5, <1>6, <1>7, <1>8, <2>1, <2>2, <2>4
    <2>5. CASE j < i
      BY <1>1, <1>2, <1>4, <1>5, <1>6, <1>7, <1>8, <2>1, <2>2, <2>5
    <2>6. CASE i < j
      BY <1>1, <1>2, <1>4, <1>5, <1>6, <1>7, <1>8, <2>1, <2>2, <2>6
    <2> QED BY <2>3, <2>4, <2>5, <2>6
  <1>11. upTo \in Nat /\ pos <= to /\ to <= upTo /\ upTo <= end /\ (i < Indirect => upTo <= Indirect * BlkSize)
    <2> DEFINE z == Indirect * BlkSize
    <2> HIDE DEF p, i, to, upTo, z
    <2>1. upTo \in Nat /\ pos <= to /\ to <= upTo /\ upTo <= end
      BY <1>1, <1>2, <1>4, <1>5, <1>6, <1>7, <1>8
    <2>2. i < Indirect => upTo <= z
      BY <1>1, <1>2, <1>4, <1>9, <2>1 DEF z
    <2> QED BY <2>1, <2>2 DEF z
  <1> QED BY <1>3, <1>10, <1>11

\* A round of sfs_io_nolock: block i is there, and its part of the bytes has been moved.
IoRound(s, t, X, d, i, pos, upTo, write, v) ==
  \/ t.err \in Panics
  \/ /\ Fits(t, X, d) /\ Marks(s, t) /\ t.ino.size = s.ino.size /\ i < Indirect
     /\ \/ /\ t.err = "none" /\ Room(t) = Room(s) /\ t.done = upTo - pos
           /\ \A j \in Indexes, c \in Cells :
                Cell(t, j, c) = IF j = i /\ write /\ pos <= j * BlkSize + c /\ j * BlkSize + c < upTo
                                  THEN v ELSE Cell(s, j, c)
        \/ t.err = "no_space" /\ Room(s) <= i /\ t.done = s.done /\ SameCells(s, t)

\* One block more is read or written, or there is no room for it.
LEMMA IoBlockOK ==
  ASSUME NEW s, NEW X, NEW d, Fits(s, X, d), s.err = "none", NEW i \in Nat,
         NEW pos \in Nat, NEW end \in Nat, NEW upTo \in Nat, upTo = Least(end, (i + 1) * BlkSize), pos <= upTo,
         NEW write \in BOOLEAN, NEW v \in Nat, NEW t, t = IoBlock(s, i, pos, end, write, v)
  PROVE  IoRound(s, t, X, d, i, pos, upTo, write, v)
  <1> USE DEF IoRound
  <1> DEFINE r == Load(s, i)
             b == BlockAt(r.ino, r.data, i)
             w == [c \in Cells |-> IF write /\ i * BlkSize + c \in pos..upTo-1 THEN v ELSE r.data[b][c]]
  <1>1. t = IF r.err # "none" THEN r ELSE WithBlock(r, i, w, upTo - pos)
    BY DEF IoBlock, WithBlock
  <1>2. \/ r.err \in Panics
        \/ /\ Fits(r, X, d) /\ Grows(s, r)
           /\ \/ /\ r.err = "none" /\ i < Indirect /\ i < r.ino.blocks /\ Room(r) = Room(s)
                 /\ r.ino.blocks = IF i < s.ino.blocks THEN s.ino.blocks ELSE i + 1
              \/ r.err = "no_space" /\ i < Indirect /\ i = s.ino.blocks /\ Room(s) <= i
    <2> HIDE DEF r
    <2>1. r = Load(s, i)
      BY DEF r
    <2> QED BY <2>1, LoadOK
  <1> HIDE DEF r
  <1>3. CASE r.err \in Panics
    <2>1. r.err # "none"
      BY <1>3 DEF Panics
    <2>2. t = r
      BY <1>1, <2>1
    <2> QED BY <1>3, <2>2
  <1>4. CASE Fits(r, X, d) /\ Grows(s, r) /\ r.err = "no_space" /\ i < Indirect /\ Room(s) <= i
    <2>1. t = r
      BY <1>1, <1>4
    <2> QED BY <1>4, <2>1 DEF Grows, Marks
  <1>5. CASE Fits(r, X, d) /\ Grows(s, r) /\ r.err = "none" /\ i < Indirect /\ i < r.ino.blocks /\ Room(r) = Room(s)
    <2>1. r \in ViewType /\ r.data \in DataType /\ r.ino.blocks \in Nat /\ r.ino.blocks <= Indirect
      <3>1. r \in ViewType
        BY <1>5 DEF Fits
      <3> QED BY <3>1, Fields
    <2>2. i \in Indexes /\ i \in Places /\ i # Indirect
      BY <1>5, Where
    <2>3. b = At(r.ino, r.data, i) /\ b \in Blocks
      <3>1. b = At(r.ino, r.data, i)
        BY <2>2 DEF At
      <3>2. At(r.ino, r.data, i) # 0 /\ At(r.ino, r.data, i) \in Blocks \cup {0}
        BY <1>5, <2>2 DEF Fits, MapOK
      <3> QED BY <3>1, <3>2
    <2>4. w \in [Cells -> Nat]
      <3> HIDE DEF b
      <3>1. \A c \in Cells : r.data[b][c] \in Nat
        BY <2>1, <2>3 DEF DataType
      <3>2. \A c \in Cells : (IF write /\ i * BlkSize + c \in pos..upTo-1 THEN v ELSE r.data[b][c]) \in Nat
        BY <3>1
      <3> QED BY <3>2
    <2> DEFINE n == upTo - pos
    <2>5. n \in Nat
      OBVIOUS
    <2>6. t = WithBlock(r, i, w, n)
      BY <1>1, <1>5
    <2>7. \A c \in Cells : w[c] = IF write /\ pos <= i * BlkSize + c /\ i * BlkSize + c < upTo
                                    THEN v ELSE Cell(r, i, c)
      <3> SUFFICES ASSUME NEW c \in Cells
                   PROVE  w[c] = IF write /\ pos <= i * BlkSize + c /\ i * BlkSize + c < upTo
                                   THEN v ELSE Cell(r, i, c)
        OBVIOUS
      <3>1. Cell(r, i, c) = r.data[b][c]
        BY <1>5, <2>3 DEF Cell
      <3> DEFINE z == i * BlkSize + c
      <3>2. z \in Nat
        <4>1. i * BlkSize \in Nat /\ c \in Nat
          BY Multiples, Sizes
        <4> QED BY <4>1
      <3>3. w[c] = IF write /\ z \in pos..upTo-1 THEN v ELSE r.data[b][c]
        OBVIOUS
      <3> HIDE DEF z, b, w
      <3>4. w[c] = IF write /\ pos <= z /\ z < upTo THEN v ELSE Cell(r, i, c)
        BY <3>1, <3>2, <3>3
      <3> QED BY <3>4 DEF z
    <2> HIDE DEF b, w, n
    <2>8. /\ Fits(t, X, d) /\ t.ino = r.ino /\ t.free = r.free /\ t.super = r.super /\ t.err = r.err
          /\ t.done = n
          /\ \A j \in Indexes, c \in Cells : Cell(t, j, c) = IF j = i THEN w[c] ELSE Cell(r, j, c)
      BY <1>5, <2>4, <2>5, <2>6, Stored
    <2>9. Room(t) = Room(r)
      BY <2>8 DEF Room
    <2>10. Marks(s, t) /\ t.ino.size = s.ino.size
      BY <1>5, <2>8 DEF Grows, Marks
    <2>11. ASSUME NEW j \in Indexes, NEW c \in Cells
           PROVE  Cell(t, j, c) = IF j = i /\ write /\ pos <= j * BlkSize + c /\ j * BlkSize + c < upTo
                                    THEN v ELSE Cell(s, j, c)
      <3>1. Cell(r, j, c) = Cell(s, j, c)
        BY <1>5 DEF Grows, SameCells
      <3> QED BY <2>7, <2>8, <3>1
    <2> QED BY <1>5, <2>8, <2>9, <2>10, <2>11 DEF n
  <1> QED BY <1>2, <1>3, <1>4, <1>5

\* All rounds of sfs_io_nolock.
IoDone(s, t, X, d, pos, end, write, v) ==
  \/ t.err \in Panics
  \/ /\ Fits(t, X, d)
     /\ \E to \in Nat : /\ pos <= to /\ to <= end /\ to <= Indirect * BlkSize
                        /\ Moved(s, t, pos, to, write, v)
                        /\ \/ t.err = "none" /\ to = end
                           \/ t.err = "no_space" /\ Room(s) < Ceil(end)

\* All of them, or as many as there is room for.
LEMMA IoBlocksOK ==
  ASSUME NEW s, NEW X, NEW d, Fits(s, X, d), s.err = "none", s.done = 0,
         NEW pos \in Nat, NEW end \in Nat, pos < end, pos <= Indirect * BlkSize,
         NEW write \in BOOLEAN, NEW v \in Nat, NEW t, t = IoBlocks(s, pos, end, write, v)
  PROVE  IoDone(s, t, X, d, pos, end, write, v)
  <1> USE DEF IoDone
  <1>0. PICK first \in Nat, cell \in Cells : first = pos \div BlkSize /\ pos = first * BlkSize + cell
    BY Position
  <1> DEFINE m == Ceil(end)
             n == m - first
  <1>1. /\ m \in Nat /\ n \in Nat /\ n # 0 /\ first \in Nat /\ first + n = m
        /\ first * BlkSize <= pos /\ pos < first * BlkSize + BlkSize
    <2>1. first * BlkSize \in Nat /\ cell \in Nat /\ cell < BlkSize /\ BlkSize \in Nat
      BY Multiples, Sizes
    <2>2. first * BlkSize <= pos /\ pos < first * BlkSize + BlkSize
      BY <1>0, <2>1
    <2>3. first < m
      <3>1. first * BlkSize < end
        BY <2>1, <2>2
      <3> QED BY <3>1, CeilBelow
    <2>4. m \in Nat
      BY CeilOK
    <2> HIDE DEF m
    <2> QED BY <2>2, <2>3, <2>4
  <1>a. PICK u : IoRounds(s, first, n, pos, end, write, v, u)
    <2>1. n \in Nat
      BY <1>1
    <2> HIDE DEF n
    <2> QED BY <2>1, IoLoopIs
  <1>2. /\ IoAll(s, first, n, pos, end, write, v) = u[n]
        /\ \A k \in 0..n : u[k] = IF k = 0 THEN s
                                  ELSE IoBlock(u[k - 1], first + (k - 1), pos, end, write, v)
    BY <1>a DEF IoRounds
  <1>3. t = u[n]
    <2>1. IoBlocks(s, pos, end, write, v) =
            IoAll(s, pos \div BlkSize, Ceil(end) - (pos \div BlkSize), pos, end, write, v)
      BY DEF IoBlocks, IoAll
    <2> QED BY <1>0, <1>2, <2>1
  <1>4. Room(s) \in Int
    <2>1. s \in ViewType
      BY DEF Fits
    <2>2. Cardinality(s.free) \in Nat /\ s.ino.blocks \in Nat
      BY <2>1, Fields
    <2> QED BY <2>2 DEF Room
  <1> DEFINE R(k) == Reached(first, k, pos, end)
             So(x, to) == pos <= to /\ to <= end /\ to <= Indirect * BlkSize /\ Moved(s, x, pos, to, write, v)
             Good(x, k) == \/ x.err \in Panics
                           \/ /\ Fits(x, X, d)
                              /\ \/ x.err = "none" /\ R(k) \in Nat /\ So(x, R(k)) /\ Room(x) = Room(s)
                                 \/ x.err = "no_space" /\ (\E to \in Nat : So(x, to)) /\ Room(s) < m
             B == {k \in 0..n : Good(u[k], k)}
  <1> HIDE DEF m
  <1>5. 0 \in B
    <2>1. u[0] = s
      BY <1>1, <1>2
    <2>2. R(0) = pos
      BY DEF Reached
    <2>3. Moved(s, s, pos, pos, write, v)
      <3>1. \A j \in Indexes, c \in Cells : ~(pos <= j * BlkSize + c /\ j * BlkSize + c < pos)
        <4> SUFFICES ASSUME NEW j \in Indexes, NEW c \in Cells
                     PROVE  ~(pos <= j * BlkSize + c /\ j * BlkSize + c < pos)
          OBVIOUS
        <4>1. j \in Nat /\ c \in Nat
          BY Where, Sizes
        <4> DEFINE z == j * BlkSize
        <4>2. z \in Nat
          BY <4>1, Multiples
        <4> HIDE DEF z
        <4>3. ~(pos <= z + c /\ z + c < pos)
          BY <4>1, <4>2
        <4> QED BY <4>3 DEF z
      <3>2. s.done = pos - pos
        OBVIOUS
      <3> QED BY <3>1, <3>2 DEF Moved, Marks
    <2>4. So(s, pos)
      BY <2>3
    <2> HIDE DEF R, So
    <2>5. Good(s, 0)
      BY <2>2, <2>4
    <2> HIDE DEF Good
    <2> QED BY <1>1, <2>1, <2>5
  <1>6. ASSUME NEW k \in 1..n, k - 1 \in B PROVE k \in B
    <2> DEFINE x == u[k - 1]
               y == u[k]
               i == first + (k - 1)
               to == R(k - 1)
               upTo == Least(end, (i + 1) * BlkSize)
    <2>1. Good(x, k - 1)
      BY <1>6
    <2>2. y = IoBlock(x, i, pos, end, write, v)
      BY <1>2
    <2>3. i \in Nat /\ i < m /\ k \in Nat \ {0}
      BY <1>1
    <2>4. /\ upTo = R(k) /\ upTo \in Nat /\ pos <= to /\ to <= upTo /\ upTo <= end
          /\ i < Indirect => upTo <= Indirect * BlkSize
          /\ \A j \in Nat, c \in Cells :
               /\ j # i => (pos <= j * BlkSize + c /\ j * BlkSize + c < upTo
                             <=> pos <= j * BlkSize + c /\ j * BlkSize + c < to)
               /\ j = i => ~(pos <= j * BlkSize + c /\ j * BlkSize + c < to)
      BY <1>1, <2>3, NextBlock DEF m
    <2>a. upTo = Least(end, (i + 1) * BlkSize)
      OBVIOUS
    <2> HIDE DEF R, x, y, i, to, upTo
    <2>5. CASE x.err # "none"
      <3>1. y = x
        BY <2>2, <2>5 DEF IoBlock, Load
      <3> HIDE DEF So
      <3>2. Good(y, k)
        BY <2>1, <2>5, <3>1
      <3> HIDE DEF Good
      <3> QED BY <3>2 DEF y
    <2>6. CASE x.err = "none"
      <3>1. Fits(x, X, d) /\ So(x, to) /\ Room(x) = Room(s) /\ to \in Nat
        <4> HIDE DEF So
        <4> QED BY <2>1, <2>6 DEF Panics, to
      <3>b. pos <= upTo
        BY <2>4, <3>1
      <3>2. \/ y.err \in Panics
            \/ /\ Fits(y, X, d) /\ Marks(x, y) /\ y.ino.size = x.ino.size /\ i < Indirect
               /\ \/ /\ y.err = "none" /\ Room(y) = Room(x) /\ y.done = upTo - pos
                     /\ \A j \in Indexes, c \in Cells :
                          Cell(y, j, c) = IF j = i /\ write /\ pos <= j * BlkSize + c /\ j * BlkSize + c < upTo
                                            THEN v ELSE Cell(x, j, c)
                  \/ y.err = "no_space" /\ Room(x) <= i /\ y.done = x.done /\ SameCells(x, y)
        <4> HIDE DEF So
        <4>1. upTo \in Nat
          BY <2>4
        <4>2. /\ Fits(x, X, d) /\ x.err = "none" /\ i \in Nat /\ pos \in Nat /\ end \in Nat /\ upTo \in Nat
              /\ upTo = Least(end, (i + 1) * BlkSize) /\ pos <= upTo /\ write \in BOOLEAN /\ v \in Nat
              /\ y = IoBlock(x, i, pos, end, write, v)
          BY <2>2, <2>3, <2>6, <2>a, <3>1, <3>b, <4>1
        <4>3. IoRound(x, y, X, d, i, pos, upTo, write, v)
          BY ONLY <4>2, IoBlockOK
        <4> QED BY <4>3 DEF IoRound
      <3>3. Moved(s, x, pos, to, write, v)
        BY <3>1
      <3>4. CASE y.err \in Panics
        BY <3>4 DEF y
      <3>5. CASE /\ Fits(y, X, d) /\ Marks(x, y) /\ y.ino.size = x.ino.size /\ i < Indirect
                 /\ y.err = "none" /\ Room(y) = Room(x) /\ y.done = upTo - pos
                 /\ \A j \in Indexes, c \in Cells :
                      Cell(y, j, c) = IF j = i /\ write /\ pos <= j * BlkSize + c /\ j * BlkSize + c < upTo
                                        THEN v ELSE Cell(x, j, c)
        <4>1. ASSUME NEW j \in Indexes, NEW c \in Cells
              PROVE  Cell(y, j, c) = IF write /\ pos <= j * BlkSize + c /\ j * BlkSize + c < upTo
                                       THEN v ELSE Cell(s, j, c)
          <5> DEFINE z == j * BlkSize + c
          <5>1. Cell(y, j, c) = IF j = i /\ write /\ pos <= z /\ z < upTo THEN v ELSE Cell(x, j, c)
            BY <3>5
          <5>2. Cell(x, j, c) = IF write /\ pos <= z /\ z < to THEN v ELSE Cell(s, j, c)
            BY <3>3 DEF Moved
          <5>3. /\ j # i => (pos <= z /\ z < upTo <=> pos <= z /\ z < to)
                /\ j = i => ~(pos <= z /\ z < to)
            <6>1. j \in Nat
              BY Where
            <6> QED BY <2>4, <6>1
          <5> HIDE DEF z
          <5>4. Cell(y, j, c) = IF write /\ pos <= z /\ z < upTo THEN v ELSE Cell(s, j, c)
            BY <5>1, <5>2, <5>3
          <5> QED BY <5>4 DEF z
        <4>2. Moved(s, y, pos, upTo, write, v)
          <5>1. y.ino.size = s.ino.size /\ Marks(s, y)
            BY <3>3, <3>5 DEF Moved, Marks
          <5> QED BY <3>5, <4>1, <5>1 DEF Moved
        <4>3. So(y, upTo)
          <5>1. pos <= upTo /\ upTo <= end /\ upTo <= Indirect * BlkSize
            BY <2>4, <3>b, <3>5
          <5> QED BY ONLY <4>2, <5>1
        <4> HIDE DEF So
        <4>4. Good(y, k)
          BY <2>4, <3>1, <3>5, <4>3
        <4> HIDE DEF Good
        <4> QED BY <4>4 DEF y
      <3>6. CASE /\ Fits(y, X, d) /\ Marks(x, y) /\ y.ino.size = x.ino.size /\ i < Indirect
                 /\ y.err = "no_space" /\ Room(x) <= i /\ y.done = x.done /\ SameCells(x, y)
        <4>1. Moved(s, y, pos, to, write, v)
          BY <3>3, <3>6 DEF Moved, Marks, SameCells
        <4>2. So(y, to)
          BY <3>1, <4>1
        <4>3. Room(s) < m
          <5> HIDE DEF So
          <5> QED BY <1>1, <1>4, <2>3, <3>1, <3>6
        <4> HIDE DEF So
        <4>4. \E z \in Nat : So(y, z)
          BY <3>1, <4>2
        <4>5. Good(y, k)
          BY <3>6, <4>3, <4>4
        <4> HIDE DEF Good
        <4> QED BY <4>5 DEF y
      <3> QED BY <3>2, <3>4, <3>5, <3>6
    <2> QED BY <2>5, <2>6
  <1>7. n \in B
    <2>1. \A k \in 0..n : k \in B
      <3> HIDE DEF B
      <3> QED BY <1>1, <1>5, <1>6, Rounds
    <2> HIDE DEF B
    <2> QED BY <1>1, <2>1
  <1>8. Good(t, n)
    BY <1>3, <1>7
  <1>9. R(n) = end
    <2>1. R(n) = IF end < m * BlkSize THEN end ELSE m * BlkSize
      BY <1>1 DEF Reached, Least
    <2>2. end <= m * BlkSize /\ m * BlkSize \in Nat
      BY <1>1, CeilOK, Multiples DEF m
    <2> HIDE DEF R
    <2> QED BY <2>1, <2>2
  <1> HIDE DEF R
  <1> QED BY <1>8, <1>9 DEF m

\* sfs_io_nolock, reading: nothing changes but that missing blocks are there, and all that
\* is asked for and there has been read if there was room for these.
HasRead(s, t, pos, len) ==
  /\ Marks(s, t) /\ t.ino.size = s.ino.size /\ SameCells(s, t) /\ t.done \in Nat
  /\ IF pos >= s.ino.size THEN t.done = 0
     ELSE /\ pos + t.done <= Least(pos + len, s.ino.size)
          /\ pos + t.done = Least(pos + len, s.ino.size) \/ Room(s) < Ceil(s.ino.size)

\* sfs_io_nolock does this when it reads.
LEMMA ReadAtOK ==
  ASSUME NEW s, NEW X, NEW d, Fits(s, X, d), s.err = "none", s.done = 0,
         s.ino.size <= Indirect * BlkSize,
         NEW pos \in Nat, NEW len \in Nat \ {0}, NEW t, t = ReadAt(s, pos, len)
  PROVE  \/ t.err \in Panics
         \/ Fits(t, X, d) /\ HasRead(s, t, pos, len)
  <1>1. s \in ViewType /\ s.ino.size \in Nat
    BY Fields DEF Fits
  <1>a. Room(s) \in Int
    <2>1. Cardinality(s.free) \in Nat /\ s.ino.blocks \in Nat
      BY <1>1, Fields
    <2> QED BY <2>1 DEF Room
  <1>b. Indirect * BlkSize \in Nat
    <2>1. Indirect \in Nat
      BY Sizes
    <2> QED BY <2>1, Multiples
  <1>2. CASE pos >= s.ino.size
    <2>1. t = s
      BY <1>2 DEF ReadAt
    <2> QED BY <1>2, <2>1 DEF HasRead, Marks, SameCells
  <1>3. CASE ~(pos >= s.ino.size)
    <2> DEFINE end == Least(pos + len, s.ino.size)
    <2>1. end \in Nat /\ pos < end /\ end <= s.ino.size
      BY <1>1, <1>3 DEF Least
    <2>2. t = IoBlocks(s, pos, end, FALSE, 0)
      BY <1>3 DEF ReadAt
    <2> HIDE DEF end
    <2>3. pos <= Indirect * BlkSize
      <3> DEFINE z == Indirect * BlkSize
      <3>1. z \in Nat /\ s.ino.size <= z
        BY <1>b
      <3> HIDE DEF z
      <3>2. pos <= z
        BY <1>1, <1>3, <3>1
      <3> QED BY <3>2 DEF z
    <2>4. \/ t.err \in Panics
          \/ /\ Fits(t, X, d)
             /\ \E to \in Nat : /\ pos <= to /\ to <= end /\ to <= Indirect * BlkSize
                                /\ Moved(s, t, pos, to, FALSE, 0)
                                /\ \/ t.err = "none" /\ to = end
                                   \/ t.err = "no_space" /\ Room(s) < Ceil(end)
      <3>1. /\ Fits(s, X, d) /\ s.err = "none" /\ s.done = 0 /\ pos \in Nat /\ end \in Nat /\ pos < end
            /\ pos <= Indirect * BlkSize /\ FALSE \in BOOLEAN /\ 0 \in Nat
            /\ t = IoBlocks(s, pos, end, FALSE, 0)
        BY <2>1, <2>2, <2>3
      <3>2. IoDone(s, t, X, d, pos, end, FALSE, 0)
        BY ONLY <3>1, IoBlocksOK
      <3> QED BY <3>2 DEF IoDone
    <2>5. CASE t.err \in Panics
      BY <2>5
    <2>6. ASSUME Fits(t, X, d), NEW to \in Nat, pos <= to, to <= end,
                 Moved(s, t, pos, to, FALSE, 0), to = end \/ Room(s) < Ceil(end)
          PROVE  HasRead(s, t, pos, len)
      <3>1. Marks(s, t) /\ t.ino.size = s.ino.size /\ SameCells(s, t) /\ t.done = to - pos
        BY <2>6 DEF Moved, SameCells
      <3>2. t.done \in Nat /\ pos + t.done = to
        BY <2>6, <3>1
      <3>3. Ceil(end) <= Ceil(s.ino.size) /\ Ceil(end) \in Nat /\ Ceil(s.ino.size) \in Nat
        BY <1>1, <2>1, CeilOrder, CeilOK
      <3>4. to = end \/ Room(s) < Ceil(s.ino.size)
        BY <1>a, <2>6, <3>3
      <3> QED BY <1>3, <2>6, <3>1, <3>2, <3>4 DEF HasRead, end
    <2> QED BY <2>4, <2>5, <2>6
  <1> QED BY <1>2, <1>3

\* sfs_io_nolock, writing: n bytes are in the file from pos, all or as many as there was
\* room for.
HasWritten(s, t, pos, len, v) ==
  /\ Marks(s, t) /\ t.done \in Nat /\ pos + t.done <= Indirect * BlkSize
  /\ IF pos >= MaxSize THEN t = s
     ELSE /\ pos + t.done <= Least(pos + len, MaxSize)
          /\ pos + t.done = Least(pos + len, MaxSize) \/ Room(s) < Ceil(MaxSize)
          /\ t.ino.size = IF pos + t.done > s.ino.size THEN pos + t.done ELSE s.ino.size
          /\ \A j \in Indexes, c \in Cells :
               Cell(t, j, c) = IF pos <= j * BlkSize + c /\ j * BlkSize + c < pos + t.done
                                 THEN v ELSE Cell(s, j, c)

\* sfs_io_nolock does this when it writes.
LEMMA WriteAtOK ==
  ASSUME NEW s, NEW X, NEW d, Fits(s, X, d), s.err = "none", s.done = 0,
         NEW pos \in Nat, pos <= Indirect * BlkSize, NEW len \in Nat \ {0}, NEW v \in Nat,
         NEW t, t = WriteAt(s, pos, len, v)
  PROVE  \/ t.err \in Panics
         \/ Fits(t, X, d) /\ HasWritten(s, t, pos, len, v)
  <1>1. s \in ViewType /\ s.ino.size \in Nat /\ MaxSize \in Nat
    BY Fields, Sizes DEF Fits
  <1>a. Room(s) \in Int
    <2>1. Cardinality(s.free) \in Nat /\ s.ino.blocks \in Nat
      BY <1>1, Fields
    <2> QED BY <2>1 DEF Room
  <1> DEFINE end == Least(pos + len, MaxSize)
             r == IoBlocks(s, pos, end, TRUE, v)
             z == Indirect * BlkSize
  <1>2. t = IF pos >= MaxSize THEN s
            ELSE IF pos + r.done > r.ino.size
              THEN [r EXCEPT !.ino.size = pos + r.done, !.dirty = TRUE]
            ELSE r
    BY DEF WriteAt
  <1>b. r = IoBlocks(s, pos, end, TRUE, v)
    OBVIOUS
  <1> HIDE DEF r
  <1>3. CASE pos >= MaxSize
    <2>1. t = s
      BY <1>2, <1>3
    <2>2. pos + 0 = pos
      OBVIOUS
    <2> QED BY <1>3, <2>1, <2>2 DEF HasWritten, Marks
  <1>4. CASE ~(pos >= MaxSize)
    <2>1. end \in Nat /\ pos < end /\ end <= MaxSize
      BY <1>1, <1>4 DEF Least
    <2> HIDE DEF end
    <2>2. \/ r.err \in Panics
          \/ /\ Fits(r, X, d)
             /\ \E to \in Nat : /\ pos <= to /\ to <= end /\ to <= z
                                /\ Moved(s, r, pos, to, TRUE, v)
                                /\ \/ r.err = "none" /\ to = end
                                   \/ r.err = "no_space" /\ Room(s) < Ceil(end)
      <3>1. /\ Fits(s, X, d) /\ s.err = "none" /\ s.done = 0 /\ pos \in Nat /\ end \in Nat /\ pos < end
            /\ pos <= Indirect * BlkSize /\ TRUE \in BOOLEAN /\ v \in Nat
            /\ r = IoBlocks(s, pos, end, TRUE, v)
        BY <1>b, <2>1
      <3>2. IoDone(s, r, X, d, pos, end, TRUE, v)
        BY ONLY <3>1, IoBlocksOK
      <3> QED BY <3>2 DEF IoDone
    <2> HIDE DEF z
    <2>3. CASE r.err \in Panics
      <3>1. r = IF pos + r.done > r.ino.size THEN r ELSE r
        OBVIOUS
      <3>2. t.err = r.err
        <4> DEFINE q == [r EXCEPT !.ino.size = pos + r.done, !.dirty = TRUE]
        <4>1. t = r \/ t = q
          BY <1>2, <1>4
        <4>2. q.err = r.err
          BY ONLY TRUE DEF q
        <4> HIDE DEF q
        <4> QED BY <4>1, <4>2
      <3> QED BY <2>3, <3>2
    <2>4. ASSUME Fits(r, X, d), NEW to \in Nat, pos <= to, to <= end, to <= z,
                 Moved(s, r, pos, to, TRUE, v), to = end \/ Room(s) < Ceil(end)
          PROVE  Fits(t, X, d) /\ HasWritten(s, t, pos, len, v)
      <3>1. r.done = to - pos /\ Marks(s, r) /\ r.ino.size = s.ino.size
        BY <2>4 DEF Moved
      <3>2. r.done \in Nat /\ pos + r.done = to
        BY <2>4, <3>1
      <3>3. t = IF to > r.ino.size THEN WithSize(r, to) ELSE r
        BY <1>2, <1>4, <3>2 DEF WithSize
      <3>4. /\ Fits(t, X, d) /\ SameCells(r, t) /\ t.done = r.done /\ t.super = r.super /\ t.free = r.free
            /\ t.ino.size = IF to > s.ino.size THEN to ELSE s.ino.size
        <4>1. CASE to > r.ino.size
          <5>1. t = WithSize(r, to)
            BY <3>3, <4>1
          <5>2. /\ Fits(t, X, d) /\ t.ino.size = to /\ t.ino.blocks = r.ino.blocks /\ SameCells(r, t)
                /\ t.err = r.err /\ t.done = r.done /\ t.super = r.super /\ t.free = r.free
            <6>1. Fits(r, X, d) /\ to \in Nat /\ t = WithSize(r, to)
              BY <2>4, <5>1
            <6>2. SizeSet(r, t, X, d, to)
              BY ONLY <6>1, Resized
            <6> QED BY ONLY <6>2 DEF SizeSet
          <5> QED BY <3>1, <4>1, <5>2
        <4>2. CASE ~(to > r.ino.size)
          <5>1. t = r
            BY <3>3, <4>2
          <5> QED BY <2>4, <3>1, <4>2, <5>1 DEF SameCells
        <4> QED BY <4>1, <4>2
      <3>5. Ceil(end) <= Ceil(MaxSize) /\ Ceil(end) \in Nat /\ Ceil(MaxSize) \in Nat
        BY <1>1, <2>1, CeilOrder, CeilOK
      <3>6. to = end \/ Room(s) < Ceil(MaxSize)
        BY <1>a, <2>4, <3>5
      <3>7. Marks(s, t)
        BY <3>1, <3>4 DEF Marks
      <3>8. pos + t.done = to /\ t.done \in Nat
        BY <3>2, <3>4
      <3>9. \A j \in Indexes, c \in Cells :
              Cell(t, j, c) = IF pos <= j * BlkSize + c /\ j * BlkSize + c < to THEN v ELSE Cell(s, j, c)
        BY <2>4, <3>4 DEF Moved, SameCells
      <3>10. pos + t.done <= Indirect * BlkSize
        BY <2>4, <3>8 DEF z
      <3>11. /\ pos + t.done <= Least(pos + len, MaxSize)
             /\ pos + t.done = Least(pos + len, MaxSize) \/ Room(s) < Ceil(MaxSize)
        BY <2>4, <3>6, <3>8 DEF end
      <3>12. t.ino.size = IF pos + t.done > s.ino.size THEN pos + t.done ELSE s.ino.size
        BY <3>4, <3>8
      <3>13. \A j \in Indexes, c \in Cells :
               Cell(t, j, c) = IF pos <= j * BlkSize + c /\ j * BlkSize + c < pos + t.done
                                 THEN v ELSE Cell(s, j, c)
        BY <3>8, <3>9
      <3> QED BY <1>4, <3>4, <3>7, <3>8, <3>10, <3>11, <3>12, <3>13 DEF HasWritten
    <2> QED BY <2>2, <2>3, <2>4
  <1> QED BY <1>3, <1>4

-----------------------------------------------------------------------------
(* The files, the free map and the descriptors together. *)

\* The block at place x of file f, and cell c of its block i.
Of(f, x) == At(din[f], data, x)
CellOf(f, i, c) == IF i < din[f].blocks THEN data[Of(f, i)][c] ELSE 0

\* Every block is free or in one place of one file.
BlocksOK ==
  /\ \A f \in Files : MapOK(din[f], data)
  /\ \A f \in Files, x \in Places : Of(f, x) \notin free
  /\ \A f, g \in Files, x, y \in Places : f # g /\ Of(f, x) # 0 => Of(f, x) # Of(g, y)
  /\ \A b \in Blocks : b \in free \/ \E f \in Files, x \in Places : Of(f, x) = b

\* There is nothing but zeros behind the end of a file.
ZerosOK ==
  \A f \in Files, i \in Indexes, c \in Cells : din[f].size <= i * BlkSize + c => CellOf(f, i, c) = 0

\* How long a file can be.
SizesOK == \A f \in Files : din[f].size <= MaxSize /\ din[f].size <= Indirect * BlkSize

\* An entry of a descriptor table in use.
OpenType == [file : Files, pos : 0..MaxSize, readable : BOOLEAN, writable : BOOLEAN]

\* Its position is one that the block map reaches, and it is open for something.
OpenOK(e) == e \in OpenType /\ e.pos <= Indirect * BlkSize /\ (e.readable \/ e.writable)

\* The tables, now or after an operation.
FdsFit(t) == t \in [Fds -> OpenType \cup {Closed}] /\ \A d \in Fds : t[d] = Closed \/ OpenOK(t[d])

\* The tables, now.
FdsOK == FdsFit(fds)

\* What the variables hold.
TypesOK ==
  /\ free \in SUBSET Blocks /\ map \in SUBSET Blocks /\ super_dirty \in BOOLEAN /\ data \in DataType
  /\ din \in [Files -> InodeType] /\ disk \in [Files -> InodeType] /\ dirty \in SUBSET Files
  /\ panic \in Panics \cup {"none"}
  /\ \A f \in Files : disk[f].size <= MaxSize

\* The inode is dirty only while the file is open, and not dirty if it is as on disk; the free
\* map on disk is the right one unless the superblock is marked.
SavedOK ==
  /\ dirty \subseteq {fds[d].file : d \in Fds}
  /\ DirtyIfModified
  /\ super_dirty \/ map = free

\* The inductive invariant.
SfsInv == TypesOK /\ BlocksOK /\ ZerosOK /\ SizesOK /\ FdsOK /\ SavedOK

\* The blocks of the other files.
Others(f) == {b \in Blocks : \E g \in Files \ {f}, x \in Places : Of(g, x) = b}

\* An operation begins with the file as it is.
LEMMA ViewOK ==
  ASSUME TypesOK, BlocksOK, NEW f \in Files
  PROVE  /\ Fits(View(f), Others(f), data) /\ View(f).err = "none" /\ View(f).done = 0
         /\ View(f).ino = din[f] /\ View(f).free = free /\ View(f).super = super_dirty
         /\ View(f).data = data
         /\ \A i \in Indexes, c \in Cells : Cell(View(f), i, c) = CellOf(f, i, c)
  <1> DEFINE s == View(f)
  <1>1. /\ s.err = "none" /\ s.done = 0 /\ s.ino = din[f] /\ s.free = free /\ s.super = super_dirty
        /\ s.data = data /\ s.dirty = (f \in dirty)
        /\ s = [ino |-> s.ino, free |-> s.free, super |-> s.super, data |-> s.data,
                dirty |-> s.dirty, err |-> s.err, done |-> s.done]
    BY DEF View
  <1> HIDE DEF s
  <1>2. s \in ViewType
    <2>1. din[f] \in InodeType /\ free \in SUBSET Blocks /\ super_dirty \in BOOLEAN /\ data \in DataType
      BY DEF TypesOK
    <2>2. s.dirty \in BOOLEAN
      BY <1>1
    <2>3. /\ s.ino \in InodeType /\ s.free \in SUBSET Blocks /\ s.super \in BOOLEAN /\ s.data \in DataType
          /\ s.err \in {"none", "no_space"} \cup Panics /\ s.done \in Nat
      BY <1>1, <2>1
    <2>4. s = [ino |-> s.ino, free |-> s.free, super |-> s.super, data |-> s.data,
               dirty |-> s.dirty, err |-> s.err, done |-> s.done]
      BY <1>1
    <2> QED BY ONLY <2>2, <2>3, <2>4 DEF ViewType
  <1>3. \A x : At(s.ino, s.data, x) = Of(f, x)
    BY <1>1 DEF Of
  <1>4. MapOK(s.ino, s.data)
    BY <1>1 DEF BlocksOK
  <1>5. \A b \in Others(f) : b \in Blocks /\ b \notin s.free /\ s.data[b] = data[b]
    BY <1>1 DEF Others, BlocksOK
  <1>6. \A x \in Places : At(s.ino, s.data, x) \notin Others(f) /\ At(s.ino, s.data, x) \notin s.free
    <2> SUFFICES ASSUME NEW x \in Places PROVE Of(f, x) \notin Others(f) /\ Of(f, x) \notin free
      BY <1>1, <1>3
    <2>1. Of(f, x) \notin free
      BY DEF BlocksOK
    <2>2. ASSUME Of(f, x) \in Others(f) PROVE FALSE
      <3>1. PICK g \in Files \ {f}, y \in Places : Of(g, y) = Of(f, x)
        BY <2>2 DEF Others
      <3>2. Of(f, x) # 0
        BY <2>2, Sizes DEF Others
      <3> QED BY <3>1, <3>2 DEF BlocksOK
    <2> QED BY <2>1, <2>2
  <1>7. \A b \in Blocks : b \in Others(f) \/ b \in s.free \/ \E x \in Places : At(s.ino, s.data, x) = b
    <2> SUFFICES ASSUME NEW b \in Blocks, b \notin Others(f), b \notin free
                 PROVE  \E x \in Places : Of(f, x) = b
      BY <1>1, <1>3
    <2>1. PICK g \in Files, x \in Places : Of(g, x) = b
      BY DEF BlocksOK
    <2>2. g = f
      BY <2>1 DEF Others
    <2> QED BY <2>1, <2>2
  <1>8. Fits(s, Others(f), data)
    BY <1>2, <1>4, <1>5, <1>6, <1>7 DEF Fits
  <1>9. \A i \in Indexes, c \in Cells : Cell(s, i, c) = CellOf(f, i, c)
    BY <1>1 DEF Cell, CellOf, Of
  <1> QED BY <1>1, <1>8, <1>9 DEF s

\* File f is as in s, the others are as they were.
Became(f, s) ==
  /\ din'[f] = s.ino
  /\ \A i \in Indexes, c \in Cells : CellOf(f, i, c)' = Cell(s, i, c)
  /\ \A g \in Files \ {f} : /\ din'[g] = din[g]
                            /\ \A i \in Indexes, c \in Cells : CellOf(g, i, c)' = CellOf(g, i, c)

\* An operation ends with every block in its place.
LEMMA FinishOK ==
  ASSUME TypesOK, BlocksOK, super_dirty \/ map = free, NEW f \in Files, NEW s, NEW nfds,
         Fits(s, Others(f), data), Marks(View(f), s), s.ino.size <= MaxSize, s.err \notin Panics,
         Finish(f, s, nfds)
  PROVE  /\ TypesOK' /\ BlocksOK' /\ (super_dirty \/ map = free)' /\ Became(f, s)
         /\ fds' = nfds /\ panic' = panic /\ free' = s.free
         /\ dirty' \in {dirty, dirty \cup {f}}
  <1>1. /\ free' = s.free /\ super_dirty' = s.super /\ data' = s.data
        /\ map' = (IF s.super THEN {} ELSE map)
        /\ din' = [din EXCEPT ![f] = s.ino]
        /\ dirty' = (IF s.dirty THEN dirty \cup {f} ELSE dirty)
        /\ disk' = (IF s.dirty THEN [disk EXCEPT ![f] = Outdated] ELSE disk)
        /\ fds' = nfds /\ panic' = panic
    BY DEF Finish
  <1>2. /\ s.ino \in InodeType /\ s.free \in SUBSET Blocks /\ s.super \in BOOLEAN /\ s.data \in DataType
        /\ s.ino.size \in Nat
    <2>1. s \in ViewType
      BY DEF Fits
    <2> QED BY <2>1, Fields
  <1>3. din \in [Files -> InodeType] /\ disk \in [Files -> InodeType]
    BY DEF TypesOK
  <1>4. din'[f] = s.ino /\ \A g \in Files \ {f} : din'[g] = din[g]
    BY <1>1, <1>3
  <1>5. TypesOK'
    <2>1. Outdated \in InodeType /\ Outdated.size = 0
      BY Sizes DEF Outdated, EmptyInode, InodeType
    <2>2. din' \in [Files -> InodeType]
      BY <1>1, <1>2, <1>3
    <2> DEFINE o == Outdated
    <2>a. disk' = (IF s.dirty THEN [disk EXCEPT ![f] = o] ELSE disk) /\ o \in InodeType
      BY <1>1, <2>1
    <2>3. disk' \in [Files -> InodeType]
      <3> HIDE DEF o
      <3> QED BY <1>3, <2>a
    <2>4. \A g \in Files : disk'[g].size <= MaxSize
      <3> SUFFICES ASSUME NEW g \in Files PROVE disk'[g].size <= MaxSize
        OBVIOUS
      <3>0. o.size = 0
        BY <2>1
      <3> HIDE DEF o
      <3>1. disk'[g] = disk[g] \/ disk'[g] = o
        BY <1>3, <2>a
      <3>2. disk[g].size <= MaxSize /\ o.size <= MaxSize
        BY <3>0, Sizes DEF TypesOK
      <3> QED BY <3>1, <3>2
    <2>5. dirty' \in SUBSET Files
      BY <1>1 DEF TypesOK
    <2>6. map' \in SUBSET Blocks /\ panic' \in Panics \cup {"none"}
      BY <1>1 DEF TypesOK
    <2> QED BY <1>1, <1>2, <2>2, <2>3, <2>4, <2>5, <2>6 DEF TypesOK
  <1>6. \A x : Of(f, x)' = At(s.ino, s.data, x)
    BY <1>1, <1>4 DEF Of
  <1>7. \A b \in Others(f) : data'[b] = data[b] /\ b \in Blocks /\ b \notin free'
    BY <1>1 DEF Fits
  <1>8. ASSUME NEW g \in Files \ {f}
        PROVE  /\ \A x \in Places : Of(g, x)' = Of(g, x)
               /\ \A i \in Indexes, c \in Cells : CellOf(g, i, c)' = CellOf(g, i, c)
    <2>0. MapOK(din[g], data)
      BY DEF BlocksOK
    <2>1. ASSUME NEW x \in Places, Of(g, x) # 0 PROVE Of(g, x) \in Others(f) /\ data'[Of(g, x)] = data[Of(g, x)]
      <3>1. Of(g, x) \in Blocks
        BY <2>0, <2>1 DEF MapOK, Of
      <3>2. Of(g, x) \in Others(f)
        BY <3>1 DEF Others
      <3> QED BY <1>7, <3>2
    <2>2. din[g].indirect # 0 => data'[din[g].indirect] = data[din[g].indirect]
      <3>1. Of(g, Indirect) = din[g].indirect /\ Indirect \in Places
        BY Where DEF Of
      <3> QED BY <2>1, <3>1
    <2>3. \A x : At(din[g], data', x) = At(din[g], data, x)
      BY <2>2 DEF At, BlockAt
    <2>4. \A x : Of(g, x)' = Of(g, x)
      BY <1>4, <2>3 DEF Of
    <2>5. ASSUME NEW i \in Indexes, NEW c \in Cells PROVE CellOf(g, i, c)' = CellOf(g, i, c)
      <3>1. i \in Places
        BY Where
      <3>2. i < din[g].blocks => data'[Of(g, i)] = data[Of(g, i)]
        <4>1. i < din[g].blocks => Of(g, i) # 0
          BY <2>0 DEF MapOK, Of
        <4> QED BY <2>1, <3>1, <4>1
      <3> QED BY <1>4, <2>4, <3>2 DEF CellOf
    <2> QED BY <2>4, <2>5
  <1>9. Became(f, s)
    <2>1. \A i \in Indexes, c \in Cells : CellOf(f, i, c)' = Cell(s, i, c)
      BY <1>1, <1>4, <1>6 DEF CellOf, Cell
    <2> QED BY <1>4, <1>8, <2>1 DEF Became
  <1>10. BlocksOK'
    <2>1. ASSUME NEW g \in Files PROVE MapOK(din'[g], data')
      <3>1. CASE g = f
        BY <1>1, <1>4, <3>1 DEF Fits
      <3>2. CASE g # f
        <4>1. MapOK(din[g], data)
          BY DEF BlocksOK
        <4>2. \A x \in Places : At(din'[g], data', x) = At(din[g], data, x)
          BY <1>8, <3>2 DEF Of
        <4>3. din'[g] = din[g]
          BY <1>4, <3>2
        <4> QED BY <4>1, <4>2, <4>3, Where DEF MapOK
      <3> QED BY <3>1, <3>2
    <2>2. ASSUME NEW g \in Files, NEW x \in Places PROVE Of(g, x)' \notin free'
      <3>1. CASE g = f
        BY <1>1, <1>6, <3>1 DEF Fits
      <3>2. CASE g # f
        <4>1. Of(g, x)' = Of(g, x)
          BY <1>8, <3>2
        <4>2. CASE Of(g, x) = 0
          <5>1. 0 \notin free'
            BY <1>1, <1>2, Sizes
          <5> QED BY <4>1, <4>2, <5>1
        <4>3. CASE Of(g, x) # 0
          <5>1. Of(g, x) \in Blocks
            BY <4>3 DEF BlocksOK, MapOK, Of
          <5>2. Of(g, x) \in Others(f)
            BY <3>2, <5>1 DEF Others
          <5> QED BY <1>7, <4>1, <5>2
        <4> QED BY <4>2, <4>3
      <3> QED BY <3>1, <3>2
    <2>3. ASSUME NEW g \in Files \ {f}, NEW x \in Places, NEW y \in Places, Of(g, x) # 0
          PROVE  Of(g, x) # Of(f, y)'
      <3>1. Of(g, x) \in Blocks
        BY <2>3 DEF BlocksOK, MapOK, Of
      <3>2. Of(g, x) \in Others(f)
        BY <3>1 DEF Others
      <3>3. At(s.ino, s.data, y) \notin Others(f)
        BY DEF Fits
      <3> QED BY <1>6, <3>2, <3>3
    <2>4. ASSUME NEW g \in Files, NEW h \in Files, NEW x \in Places, NEW y \in Places,
                 g # h, Of(g, x)' # 0
          PROVE  Of(g, x)' # Of(h, y)'
      <3>1. CASE g = f
        <4>1. Of(h, y)' = Of(h, y)
          BY <1>8, <2>4, <3>1
        <4>2. Of(h, y) # 0 => Of(h, y) # Of(f, x)'
          BY <2>3, <2>4, <3>1
        <4> QED BY <2>4, <3>1, <4>1, <4>2
      <3>2. CASE h = f
        <4>1. Of(g, x)' = Of(g, x)
          BY <1>8, <2>4, <3>2
        <4> QED BY <2>3, <2>4, <3>2, <4>1
      <3>3. CASE g # f /\ h # f
        <4>1. Of(g, x)' = Of(g, x) /\ Of(h, y)' = Of(h, y)
          BY <1>8, <3>3
        <4> QED BY <2>4, <4>1 DEF BlocksOK
      <3> QED BY <3>1, <3>2, <3>3
    <2>5. ASSUME NEW b \in Blocks, b \notin free' PROVE \E g \in Files, x \in Places : Of(g, x)' = b
      <3>1. CASE b \in Others(f)
        <4>1. PICK g \in Files \ {f}, x \in Places : Of(g, x) = b
          BY <3>1 DEF Others
        <4>2. Of(g, x)' = b
          BY <1>8, <4>1
        <4> QED BY <4>2
      <3>2. CASE b \notin Others(f)
        <4>1. PICK x \in Places : At(s.ino, s.data, x) = b
          BY <1>1, <2>5, <3>2 DEF Fits
        <4>2. Of(f, x)' = b
          BY <1>6, <4>1
        <4> QED BY <4>2
      <3> QED BY <3>1, <3>2
    <2> QED BY <2>1, <2>2, <2>4, <2>5 DEF BlocksOK
  <1>11. (super_dirty \/ map = free)'
    <2>1. View(f).super = super_dirty /\ View(f).free = free
      BY DEF View
    <2> QED BY <1>1, <2>1 DEF Marks
  <1> QED BY <1>1, <1>5, <1>9, <1>10, <1>11

\* What an operation leaves in its view for file f.
Ends(f, s) ==
  /\ Fits(s, Others(f), data) /\ Marks(View(f), s)
  /\ s.ino.size <= MaxSize /\ s.ino.size <= Indirect * BlkSize
  /\ \A i \in Indexes, c \in Cells : s.ino.size <= i * BlkSize + c => Cell(s, i, c) = 0

\* A number of a byte.
LEMMA ByteNumber ==
  ASSUME NEW i \in Indexes, NEW c \in Cells
  PROVE  i \in Nat /\ c \in Nat /\ i * BlkSize + c \in Nat
  <1>1. i \in Nat /\ c \in Nat
    BY Where, Sizes
  <1>2. i * BlkSize \in Nat
    BY <1>1, Multiples
  <1> QED BY <1>1, <1>2

\* The longest file of a block map, and of sfs.h.
LEMMA Extent == Indirect * BlkSize \in Nat /\ MaxSize \in Nat
  <1>1. Indirect \in Nat /\ MaxSize \in Nat
    BY Sizes
  <1> QED BY <1>1, Multiples

\* A descriptor that is open.
LEMMA OpenFd ==
  ASSUME FdsOK, NEW d \in Fds, fds[d] # Closed
  PROVE  /\ fds[d].file \in Files /\ fds[d].pos \in Nat /\ fds[d].pos <= MaxSize
         /\ fds[d].pos <= Indirect * BlkSize
         /\ fds[d].readable \in BOOLEAN /\ fds[d].writable \in BOOLEAN
         /\ fds[d].readable \/ fds[d].writable
         /\ fds[d] \in OpenType
  <1>1. OpenOK(fds[d])
    BY DEF FdsOK, FdsFit
  <1>2. fds[d] \in OpenType /\ fds[d].pos <= Indirect * BlkSize /\ (fds[d].readable \/ fds[d].writable)
    BY <1>1 DEF OpenOK
  <1>3. /\ fds[d].file \in Files /\ fds[d].pos \in 0..MaxSize
        /\ fds[d].readable \in BOOLEAN /\ fds[d].writable \in BOOLEAN
    BY <1>2 DEF OpenType
  <1> QED BY <1>2, <1>3, Extent

\* Nothing done.
LEMMA ViewEnds ==
  ASSUME SfsInv, NEW f \in Files
  PROVE  Ends(f, View(f))
  <1>1. TypesOK /\ BlocksOK /\ ZerosOK /\ SizesOK
    BY DEF SfsInv
  <1>2. /\ Fits(View(f), Others(f), data) /\ View(f).ino = din[f]
        /\ \A i \in Indexes, c \in Cells : Cell(View(f), i, c) = CellOf(f, i, c)
    BY <1>1, ViewOK
  <1> QED BY <1>1, <1>2 DEF Ends, Marks, ZerosOK, SizesOK

\* sfs_truncfile, as it is used: to empty a file or to make it longer.  (A file that was cut
\* within a block would keep what is behind its end.)
LEMMA TruncEnds ==
  ASSUME SfsInv, NEW f \in Files, NEW len \in Nat, len <= MaxSize, len = 0 \/ len > din[f].size,
         NEW s, s = TruncFile(View(f), len)
  PROVE  \/ s.err \in Panics
         \/ /\ Ends(f, s)
            /\ \/ Resizes(View(f), s, len) /\ len <= Indirect * BlkSize
               \/ /\ s.err = "no_space" /\ s.ino.size = din[f].size /\ SameCells(View(f), s)
                  /\ View(f).ino.blocks < Ceil(len) /\ Room(View(f)) < Ceil(len)
  <1>1. TypesOK /\ BlocksOK /\ ZerosOK /\ SizesOK
    BY DEF SfsInv
  <1> DEFINE v == View(f)
  <1>2. /\ Fits(v, Others(f), data) /\ v.err = "none" /\ v.ino = din[f]
        /\ \A i \in Indexes, c \in Cells : Cell(v, i, c) = CellOf(f, i, c)
    BY <1>1, ViewOK
  <1>a. s = TruncFile(v, len)
    OBVIOUS
  <1> HIDE DEF v
  <1>3. \/ s.err \in Panics
        \/ /\ Fits(s, Others(f), data) /\ Marks(v, s) /\ s.done = v.done
           /\ \/ Resizes(v, s, len)
              \/ /\ s.err = "no_space" /\ s.ino.size = v.ino.size /\ v.ino.size # len /\ SameCells(v, s)
                 /\ v.ino.blocks < Ceil(len) /\ Room(v) < Ceil(len)
    BY <1>2, <1>a, TruncFileOK
  <1>b. \A i \in Indexes, c \in Cells : din[f].size <= i * BlkSize + c => Cell(v, i, c) = 0
    BY <1>1, <1>2 DEF ZerosOK
  <1>c. din[f].size \in Nat /\ din[f].size <= MaxSize /\ din[f].size <= Indirect * BlkSize
    BY <1>1 DEF SizesOK, TypesOK, InodeType
  <1>4. ASSUME Fits(s, Others(f), data), Marks(v, s), Resizes(v, s, len)
        PROVE  Ends(f, s) /\ len <= Indirect * BlkSize
    <2>1. len <= Indirect * BlkSize
      <3>1. s \in ViewType
        BY <1>4 DEF Fits
      <3>2. Ceil(len) <= Indirect /\ Ceil(len) \in Nat /\ Indirect \in Nat
        BY <1>4, <3>1, Fields, CeilOK, Sizes DEF Resizes
      <3> DEFINE p == Ceil(len) * BlkSize
                 q == Indirect * BlkSize
      <3>3. p <= q /\ p \in Nat /\ q \in Nat
        BY <3>2, Multiples
      <3>4. len <= p
        BY CeilOK
      <3> HIDE DEF p, q
      <3>5. len <= q
        BY <3>3, <3>4
      <3> QED BY <3>5 DEF q
    <2>2. ASSUME NEW i \in Indexes, NEW c \in Cells, len <= i * BlkSize + c PROVE Cell(s, i, c) = 0
      <3>1. Cell(s, i, c) = IF i < Ceil(len) THEN Cell(v, i, c) ELSE 0
        BY <1>4 DEF Resizes
      <3>2. CASE ~(i < Ceil(len))
        BY <3>1, <3>2
      <3>3. CASE i < Ceil(len) /\ din[f].size <= i * BlkSize + c
        BY <1>b, <3>1, <3>3
      <3>4. CASE i < Ceil(len) /\ ~(din[f].size <= i * BlkSize + c)
        <4>1. i \in Nat /\ i * BlkSize + c \in Nat
          BY ByteNumber
        <4>2. len # 0
          BY <3>4, <4>1, CeilOfNone
        <4> DEFINE z == i * BlkSize + c
        <4>3. z \in Nat /\ len <= z /\ ~(din[f].size <= z)
          BY <2>2, <3>4, <4>1
        <4> HIDE DEF z
        <4> QED BY <1>c, <4>2, <4>3
      <3> QED BY <3>2, <3>3, <3>4
    <2> QED BY <1>4, <2>1, <2>2 DEF Ends, v, Resizes
  <1>5. ASSUME Fits(s, Others(f), data), Marks(v, s), s.ino.size = v.ino.size, SameCells(v, s)
        PROVE  Ends(f, s)
    <2>1. \A i \in Indexes, c \in Cells : s.ino.size <= i * BlkSize + c => Cell(s, i, c) = 0
      BY <1>2, <1>5, <1>b DEF SameCells
    <2> QED BY <1>2, <1>5, <1>c, <2>1 DEF Ends, v
  <1> QED BY <1>2, <1>3, <1>4, <1>5 DEF v

\* sfs_io_nolock, reading.
LEMMA ReadEnds ==
  ASSUME SfsInv, NEW d \in Fds, fds[d] # Closed, NEW len \in 1..MaxLen,
         NEW s, s = ReadAt(View(fds[d].file), fds[d].pos, len)
  PROVE  \/ s.err \in Panics
         \/ Ends(fds[d].file, s) /\ HasRead(View(fds[d].file), s, fds[d].pos, len)
  <1> DEFINE f == fds[d].file
             v == View(f)
             pos == fds[d].pos
  <1>1. TypesOK /\ BlocksOK /\ ZerosOK /\ SizesOK /\ f \in Files /\ pos \in Nat /\ len \in Nat \ {0}
    BY OpenFd DEF SfsInv
  <1>a. s = ReadAt(v, pos, len)
    OBVIOUS
  <1> HIDE DEF f, pos
  <1>2. /\ Fits(v, Others(f), data) /\ v.err = "none" /\ v.done = 0 /\ v.ino = din[f]
        /\ \A i \in Indexes, c \in Cells : Cell(v, i, c) = CellOf(f, i, c)
    BY <1>1, ViewOK
  <1> HIDE DEF v
  <1>b. \A i \in Indexes, c \in Cells : din[f].size <= i * BlkSize + c => Cell(v, i, c) = 0
    BY <1>1, <1>2 DEF ZerosOK
  <1>c. v.ino.size <= MaxSize /\ v.ino.size <= Indirect * BlkSize
    BY <1>1, <1>2 DEF SizesOK
  <1>3. \/ s.err \in Panics
        \/ Fits(s, Others(f), data) /\ HasRead(v, s, pos, len)
    BY <1>1, <1>2, <1>a, <1>c, ReadAtOK
  <1>4. ASSUME Fits(s, Others(f), data), HasRead(v, s, pos, len) PROVE Ends(f, s)
    <2>1. Marks(v, s) /\ s.ino.size = v.ino.size /\ SameCells(v, s)
      BY <1>4 DEF HasRead
    <2>2. \A i \in Indexes, c \in Cells : s.ino.size <= i * BlkSize + c => Cell(s, i, c) = 0
      BY <1>2, <1>b, <2>1 DEF SameCells
    <2> QED BY <1>4, <1>c, <2>1, <2>2 DEF Ends, v
  <1> QED BY <1>3, <1>4 DEF f, v, pos

\* sfs_io_nolock, writing.
LEMMA WriteEnds ==
  ASSUME SfsInv, NEW d \in Fds, fds[d] # Closed, NEW len \in 1..MaxLen, NEW b \in Vals,
         NEW s, s = WriteAt(View(fds[d].file), fds[d].pos, len, b)
  PROVE  \/ s.err \in Panics
         \/ Ends(fds[d].file, s) /\ HasWritten(View(fds[d].file), s, fds[d].pos, len, b)
  <1> DEFINE f == fds[d].file
             v == View(f)
             pos == fds[d].pos
  <1>1. /\ TypesOK /\ BlocksOK /\ ZerosOK /\ SizesOK /\ f \in Files /\ pos \in Nat /\ len \in Nat \ {0}
        /\ pos <= Indirect * BlkSize /\ pos <= MaxSize
    BY OpenFd DEF SfsInv
  <1>a. s = WriteAt(v, pos, len, b) /\ b \in Nat
    BY SfsAssumption
  <1> HIDE DEF f, pos
  <1>2. /\ Fits(v, Others(f), data) /\ v.err = "none" /\ v.done = 0 /\ v.ino = din[f]
        /\ \A i \in Indexes, c \in Cells : Cell(v, i, c) = CellOf(f, i, c)
    BY <1>1, ViewOK
  <1> HIDE DEF v
  <1>b. \A i \in Indexes, c \in Cells : din[f].size <= i * BlkSize + c => Cell(v, i, c) = 0
    BY <1>1, <1>2 DEF ZerosOK
  <1>c. v.ino.size \in Nat /\ v.ino.size <= MaxSize /\ v.ino.size <= Indirect * BlkSize
    BY <1>1, <1>2 DEF SizesOK, TypesOK, InodeType
  <1>3. \/ s.err \in Panics
        \/ Fits(s, Others(f), data) /\ HasWritten(v, s, pos, len, b)
    BY <1>1, <1>2, <1>a, WriteAtOK
  <1>4. ASSUME Fits(s, Others(f), data), HasWritten(v, s, pos, len, b) PROVE Ends(f, s)
    <2>1. CASE pos >= MaxSize
      <3>1. s = v
        BY <1>4, <2>1 DEF HasWritten
      <3> QED BY <1>2, <1>4, <1>b, <1>c, <3>1 DEF Ends, Marks, v
    <2>2. CASE ~(pos >= MaxSize)
      <3> DEFINE n == pos + s.done
                 size == v.ino.size
      <3>1. /\ Marks(v, s) /\ n <= Indirect * BlkSize /\ s.done \in Nat
            /\ n <= Least(pos + len, MaxSize)
            /\ s.ino.size = IF n > size THEN n ELSE size
            /\ \A j \in Indexes, c \in Cells :
                 Cell(s, j, c) = IF pos <= j * BlkSize + c /\ j * BlkSize + c < n THEN b ELSE Cell(v, j, c)
        BY <1>4, <2>2 DEF HasWritten
      <3>2. n \in Nat /\ n <= MaxSize /\ size \in Nat
        BY <1>1, <1>c, <3>1, Extent DEF Least
      <3> HIDE DEF n, size
      <3>3. s.ino.size <= MaxSize /\ s.ino.size <= Indirect * BlkSize
        BY <1>c, <3>1, <3>2 DEF size
      <3>4. ASSUME NEW i \in Indexes, NEW c \in Cells, s.ino.size <= i * BlkSize + c PROVE Cell(s, i, c) = 0
        <4> DEFINE z == i * BlkSize + c
        <4>1. z \in Nat
          BY ByteNumber
        <4>2. Cell(s, i, c) = IF pos <= z /\ z < n THEN b ELSE Cell(v, i, c)
          BY <3>1
        <4>3. size <= z => Cell(v, i, c) = 0
          BY <1>2, <1>b DEF size
        <4>4. s.ino.size <= z
          BY <3>4
        <4> HIDE DEF z
        <4> QED BY <3>1, <3>2, <4>1, <4>2, <4>3, <4>4
      <3> QED BY <1>4, <3>1, <3>3, <3>4 DEF Ends, v
    <2> QED BY <2>1, <2>2
  <1> QED BY <1>3, <1>4 DEF f, v, pos

-----------------------------------------------------------------------------
(* The invariant. *)

\* It holds of an empty disk.
LEMMA InitInv == Init => SfsInv
  <1> SUFFICES ASSUME Init PROVE SfsInv
    OBVIOUS
  <1>1. /\ free = Blocks /\ map = Blocks /\ super_dirty = FALSE /\ data = [b \in Blocks |-> Stale]
        /\ din = [f \in Files |-> EmptyInode] /\ disk = din /\ dirty = {}
        /\ fds = [d \in Fds |-> Closed] /\ panic = "none"
    BY DEF Init
  <1>2. EmptyInode \in InodeType /\ EmptyInode.size = 0 /\ EmptyInode.blocks = 0 /\ EmptyInode.indirect = 0
    BY Sizes DEF EmptyInode, InodeType
  <1>3. Stale \in [Cells -> Nat]
    BY DEF Stale
  <1>4. ASSUME NEW f \in Files
        PROVE  din[f] = EmptyInode /\ disk[f] = EmptyInode /\ \A x \in Places : Of(f, x) = 0
    <2>1. din[f] = EmptyInode /\ disk[f] = EmptyInode
      BY <1>1
    <2>2. ASSUME NEW x \in Places PROVE Of(f, x) = 0
      <3>1. x < NDirect => x \in 0..NDirect-1
        BY Where, Sizes
      <3>2. x \in 0..NDirect-1 => EmptyInode.direct[x] = 0
        BY DEF EmptyInode
      <3> QED BY <1>2, <2>1, <3>1, <3>2 DEF Of, At, BlockAt
    <2> QED BY <2>1, <2>2
  <1>5. TypesOK
    <2>1. data \in DataType
      BY <1>1, <1>3 DEF DataType
    <2> DEFINE o == EmptyInode
    <2>2. din \in [Files -> InodeType] /\ disk \in [Files -> InodeType]
      <3>1. o \in InodeType /\ din = [f \in Files |-> o] /\ disk = din
        BY <1>1, <1>2
      <3> HIDE DEF o
      <3> QED BY <3>1
    <2>3. \A f \in Files : disk[f].size <= MaxSize
      BY <1>2, <1>4, Sizes
    <2> QED BY <1>1, <2>1, <2>2, <2>3 DEF TypesOK
  <1>6. BlocksOK
    <2>1. ASSUME NEW f \in Files PROVE MapOK(din[f], data)
      <3>1. \A x \in Places : At(din[f], data, x) = 0
        BY <1>4 DEF Of
      <3>2. din[f].blocks = 0
        BY <1>2, <1>4
      <3> QED BY <3>1, <3>2, Where DEF MapOK
    <2>2. 0 \notin free
      BY <1>1, Sizes
    <2> QED BY <1>1, <1>4, <2>1, <2>2 DEF BlocksOK
  <1>7. ZerosOK
    <2>1. \A f \in Files : din[f].blocks = 0
      BY <1>2, <1>4
    <2> QED BY <2>1, Where DEF ZerosOK, CellOf
  <1>8. SizesOK
    BY <1>2, <1>4, Extent DEF SizesOK
  <1>9. FdsOK
    BY <1>1 DEF FdsOK, FdsFit
  <1>10. SavedOK
    BY <1>1 DEF SavedOK, DirtyIfModified
  <1> QED BY <1>5, <1>6, <1>7, <1>8, <1>9, <1>10 DEF SfsInv

\* A failed assertion stops the machine where it was.
LEMMA PanicInv ==
  ASSUME SfsInv, panic' \in Panics, UNCHANGED <<free, map, super_dirty, data, din, disk, dirty, fds>>
  PROVE  SfsInv'
  <1>1. TypesOK'
    BY DEF SfsInv, TypesOK
  <1>2. BlocksOK' /\ ZerosOK' /\ SizesOK'
    BY DEF SfsInv, BlocksOK, ZerosOK, SizesOK, Of, CellOf
  <1>3. FdsOK' /\ SavedOK'
    BY DEF SfsInv, FdsOK, SavedOK, DirtyIfModified
  <1> QED BY <1>1, <1>2, <1>3 DEF SfsInv

\* The descriptors nfds are right after an operation on file f.
After(f, nfds) ==
  /\ FdsFit(nfds)
  /\ f \in {nfds[e].file : e \in Fds}
  /\ \A e \in Fds : fds[e].file \in Files => fds[e].file \in {nfds[h].file : h \in Fds}

\* The end of an operation.
LEMMA EndInv ==
  ASSUME SfsInv, NEW f \in Files, NEW s, NEW nfds, Finish(f, s, nfds), DirtyIfModified',
         s.err \in Panics \/ (Ends(f, s) /\ After(f, nfds))
  PROVE  SfsInv'
  <1>1. CASE s.err \in Panics
    <2>1. panic' = s.err /\ UNCHANGED <<free, map, super_dirty, data, din, disk, dirty, fds>>
      BY <1>1 DEF Finish
    <2> QED BY <1>1, <2>1, PanicInv
  <1>2. CASE s.err \notin Panics
    <2>1. Ends(f, s) /\ After(f, nfds)
      BY <1>2
    <2>2. TypesOK /\ BlocksOK /\ ZerosOK /\ SizesOK /\ SavedOK
      BY DEF SfsInv
    <2>3. /\ TypesOK' /\ BlocksOK' /\ (super_dirty \/ map = free)' /\ Became(f, s)
          /\ fds' = nfds /\ panic' = panic /\ free' = s.free
          /\ dirty' \in {dirty, dirty \cup {f}}
      BY <1>2, <2>1, <2>2, FinishOK DEF Ends, SavedOK
    <2>4. ZerosOK'
      <3> SUFFICES ASSUME NEW g \in Files, NEW i \in Indexes, NEW c \in Cells, din'[g].size <= i * BlkSize + c
                   PROVE  CellOf(g, i, c)' = 0
        BY DEF ZerosOK
      <3>1. CASE g = f
        BY <2>1, <2>3, <3>1 DEF Became, Ends
      <3>2. CASE g # f
        BY <2>2, <2>3, <3>2 DEF Became, ZerosOK
      <3> QED BY <3>1, <3>2
    <2>5. SizesOK'
      <3> SUFFICES ASSUME NEW g \in Files PROVE din'[g].size <= MaxSize /\ din'[g].size <= Indirect * BlkSize
        BY DEF SizesOK
      <3>1. CASE g = f
        BY <2>1, <2>3, <3>1 DEF Became, Ends
      <3>2. CASE g # f
        BY <2>2, <2>3, <3>2 DEF Became, SizesOK
      <3> QED BY <3>1, <3>2
    <2>6. FdsOK'
      BY <2>1, <2>3 DEF After, FdsOK
    <2>7. SavedOK'
      <3>1. \A g \in dirty : g \in {nfds[e].file : e \in Fds}
        BY <2>1, <2>2 DEF SavedOK, TypesOK, After
      <3>2. dirty' \subseteq {nfds[e].file : e \in Fds}
        BY <2>1, <2>3, <3>1 DEF After
      <3>3. dirty' \subseteq {fds'[e].file : e \in Fds}
        BY <2>3, <3>2
      <3> QED BY <2>3, <3>3 DEF SavedOK
    <2> QED BY <2>3, <2>4, <2>5, <2>6, <2>7 DEF SfsInv
  <1> QED BY <1>1, <1>2

\* Position p in the descriptor.
LEMMA Moves ==
  ASSUME FdsOK, NEW d \in Fds, fds[d] # Closed, NEW p \in Nat, p <= MaxSize, p <= Indirect * BlkSize
  PROVE  After(fds[d].file, [fds EXCEPT ![d].pos = p])
  <1> DEFINE n == [fds EXCEPT ![d].pos = p]
  <1>1. fds[d] \in OpenType /\ (fds[d].readable \/ fds[d].writable)
    BY OpenFd
  <1>2. fds \in [Fds -> OpenType \cup {Closed}] /\ \A e \in Fds : fds[e] = Closed \/ OpenOK(fds[e])
    BY DEF FdsOK, FdsFit
  <1>3. n[d] = [fds[d] EXCEPT !.pos = p] /\ \A e \in Fds : e # d => n[e] = fds[e]
    BY <1>2
  <1>4. n[d].file = fds[d].file /\ OpenOK(n[d])
    <2>1. p \in 0..MaxSize
      BY Sizes
    <2>2. /\ n[d].file = fds[d].file /\ n[d].pos = p /\ n[d].readable = fds[d].readable
          /\ n[d].writable = fds[d].writable /\ n[d] \in OpenType
      <3> HIDE DEF n
      <3> QED BY <1>1, <1>3, <2>1 DEF OpenType
    <2> QED BY <1>1, <2>2 DEF OpenOK
  <1>5. n \in [Fds -> OpenType \cup {Closed}]
    <2>1. n = [e \in Fds |-> n[e]]
      BY <1>2
    <2>2. \A e \in Fds : n[e] \in OpenType \cup {Closed}
      BY <1>2, <1>3, <1>4 DEF OpenOK
    <2> HIDE DEF n
    <2> QED BY <2>1, <2>2
  <1> HIDE DEF n
  <1>6. \A e \in Fds : n[e].file = fds[e].file
    BY <1>3, <1>4
  <1>7. \A e \in Fds : n[e] = Closed \/ OpenOK(n[e])
    BY <1>2, <1>3, <1>4
  <1> QED BY <1>5, <1>6, <1>7 DEF After, FdsFit, n

\* A descriptor that is opened.
LEMMA Opens ==
  ASSUME FdsOK, NEW d \in Fds, fds[d] = Closed, NEW e, OpenOK(e)
  PROVE  After(e.file, [fds EXCEPT ![d] = e])
  <1> DEFINE n == [fds EXCEPT ![d] = e]
  <1>1. fds \in [Fds -> OpenType \cup {Closed}] /\ \A h \in Fds : fds[h] = Closed \/ OpenOK(fds[h])
    BY DEF FdsOK, FdsFit
  <1>2. n[d] = e /\ (\A h \in Fds : h # d => n[h] = fds[h]) /\ n \in [Fds -> OpenType \cup {Closed}]
    BY <1>1 DEF OpenOK
  <1> HIDE DEF n
  <1>3. FdsFit(n)
    BY <1>1, <1>2 DEF FdsFit
  <1>4. fds[d].file \notin Files
    BY SfsAssumption DEF Closed
  <1> QED BY <1>2, <1>3, <1>4 DEF After, n

\* file_open.
LEMMA OpenInv ==
  ASSUME SfsInv, DirtyIfModified', NEW d \in Fds, NEW f \in Files, NEW acc \in AccModes,
         NEW empty \in BOOLEAN, NEW append \in BOOLEAN, Open(d, f, acc, empty, append)
  PROVE  SfsInv'
  <1> DEFINE s == IF empty THEN TruncFile(View(f), 0) ELSE View(f)
             e == [file |-> f, pos |-> IF append THEN s.ino.size ELSE 0,
                   readable |-> acc # "O_WRONLY", writable |-> acc # "O_RDONLY"]
  <1>1. fds[d] = Closed /\ Finish(f, s, [fds EXCEPT ![d] = e])
    BY DEF Open
  <1>2. s.err \in Panics \/ Ends(f, s)
    <2>1. CASE empty
      <3>1. s = TruncFile(View(f), 0)
        BY <2>1
      <3> HIDE DEF s
      <3>2. 0 \in Nat /\ 0 <= MaxSize
        BY Sizes
      <3> QED BY <3>1, <3>2, TruncEnds
    <2>2. CASE ~empty
      BY <2>2, ViewEnds
    <2> QED BY <2>1, <2>2
  <1> HIDE DEF s
  <1>3. Ends(f, s) => OpenOK(e)
    <2>1. ASSUME Ends(f, s) PROVE s.ino.size \in Nat /\ s.ino.size <= MaxSize /\ s.ino.size <= Indirect * BlkSize
      <3>1. s \in ViewType
        BY <2>1 DEF Ends, Fits
      <3> QED BY <2>1, <3>1, Fields DEF Ends
    <2>2. ASSUME Ends(f, s) PROVE e.pos \in 0..MaxSize /\ e.pos <= Indirect * BlkSize
      BY <2>1, <2>2, Extent
    <2>3. e.file = f /\ e.readable \in BOOLEAN /\ e.writable \in BOOLEAN /\ (e.readable \/ e.writable)
      OBVIOUS
    <2>4. e = [file |-> e.file, pos |-> e.pos, readable |-> e.readable, writable |-> e.writable]
      OBVIOUS
    <2> HIDE DEF e
    <2> QED BY <2>2, <2>3, <2>4 DEF OpenOK, OpenType
  <1>4. e.file = f
    OBVIOUS
  <1> HIDE DEF e
  <1>5. Ends(f, s) => After(f, [fds EXCEPT ![d] = e])
    BY <1>1, <1>3, <1>4, Opens DEF SfsInv
  <1> QED BY <1>1, <1>2, <1>5, EndInv

\* file_read.
LEMMA ReadInv ==
  ASSUME SfsInv, DirtyIfModified', NEW d \in Fds, fds[d] # Closed, NEW len \in 1..MaxLen, Read(d, len)
  PROVE  SfsInv'
  <1> DEFINE f == fds[d].file
             s == ReadAt(View(f), fds[d].pos, len)
             p == fds[d].pos + s.done
  <1>1. f \in Files /\ fds[d].pos \in Nat /\ fds[d].pos <= MaxSize /\ fds[d].pos <= Indirect * BlkSize
    BY OpenFd DEF SfsInv
  <1>2. Finish(f, s, [fds EXCEPT ![d].pos = p])
    BY DEF Read
  <1>3. \/ s.err \in Panics
        \/ Ends(f, s) /\ HasRead(View(f), s, fds[d].pos, len)
    <2> HIDE DEF s
    <2>1. s = ReadAt(View(fds[d].file), fds[d].pos, len)
      BY DEF s
    <2> QED BY <2>1, ReadEnds
  <1> HIDE DEF s
  <1>4. ASSUME Ends(f, s), HasRead(View(f), s, fds[d].pos, len)
        PROVE  p \in Nat /\ p <= MaxSize /\ p <= Indirect * BlkSize
    <2>1. s.done \in Nat /\ View(f).ino.size = s.ino.size
      BY <1>4 DEF HasRead
    <2>2. s.ino.size <= MaxSize /\ s.ino.size <= Indirect * BlkSize
      BY <1>4 DEF Ends
    <2>a. s.ino.size \in Nat
      <3>1. s \in ViewType
        BY <1>4 DEF Ends, Fits
      <3> QED BY <3>1, Fields
    <2>3. p = fds[d].pos \/ p <= s.ino.size
      <3>1. CASE fds[d].pos >= View(f).ino.size
        BY <1>1, <1>4, <3>1 DEF HasRead
      <3>2. CASE ~(fds[d].pos >= View(f).ino.size)
        BY <1>1, <1>4, <2>1, <2>a, <3>2 DEF HasRead, Least
      <3> QED BY <3>1, <3>2
    <2>4. p \in Nat
      BY <1>1, <2>1
    <2> HIDE DEF p
    <2> QED BY <1>1, <2>2, <2>3, <2>4, <2>a, Extent
  <1> HIDE DEF p
  <1>5. ASSUME Ends(f, s), HasRead(View(f), s, fds[d].pos, len)
        PROVE  After(f, [fds EXCEPT ![d].pos = p])
    BY <1>4, <1>5, Moves DEF SfsInv
  <1> HIDE DEF f
  <1> QED BY <1>1, <1>2, <1>3, <1>5, EndInv

\* file_write.
LEMMA WriteInv ==
  ASSUME SfsInv, DirtyIfModified', NEW d \in Fds, fds[d] # Closed, NEW len \in 1..MaxLen, NEW v \in Vals,
         Write(d, len, v)
  PROVE  SfsInv'
  <1> DEFINE f == fds[d].file
             s == WriteAt(View(f), fds[d].pos, len, v)
             p == fds[d].pos + s.done
  <1>1. f \in Files /\ fds[d].pos \in Nat /\ fds[d].pos <= MaxSize /\ fds[d].pos <= Indirect * BlkSize
    BY OpenFd DEF SfsInv
  <1>2. Finish(f, s, [fds EXCEPT ![d].pos = p])
    BY DEF Write
  <1>3. \/ s.err \in Panics
        \/ Ends(f, s) /\ HasWritten(View(f), s, fds[d].pos, len, v)
    <2> HIDE DEF s
    <2>1. s = WriteAt(View(fds[d].file), fds[d].pos, len, v)
      BY DEF s
    <2> QED BY <2>1, WriteEnds
  <1>a. View(f).done = 0
    BY DEF View
  <1> HIDE DEF s
  <1>4. ASSUME HasWritten(View(f), s, fds[d].pos, len, v)
        PROVE  p \in Nat /\ p <= MaxSize /\ p <= Indirect * BlkSize
    <2>1. s.done \in Nat /\ p <= Indirect * BlkSize
      BY <1>4 DEF HasWritten
    <2>2. p <= MaxSize
      <3>1. CASE fds[d].pos >= MaxSize
        BY <1>1, <1>4, <1>a, <3>1, Extent DEF HasWritten
      <3>2. CASE ~(fds[d].pos >= MaxSize)
        BY <1>1, <1>4, <2>1, <3>2, Extent DEF HasWritten, Least
      <3> QED BY <3>1, <3>2
    <2> QED BY <1>1, <2>1, <2>2
  <1> HIDE DEF p
  <1>5. ASSUME HasWritten(View(f), s, fds[d].pos, len, v)
        PROVE  After(f, [fds EXCEPT ![d].pos = p])
    BY <1>4, <1>5, Moves DEF SfsInv
  <1> HIDE DEF f
  <1> QED BY <1>1, <1>2, <1>3, <1>5, EndInv

\* file_seek.
LEMMA SeekInv ==
  ASSUME SfsInv, DirtyIfModified', NEW d \in Fds, fds[d] # Closed, NEW p \in 0..MaxSize-1, Seek(d, p)
  PROVE  SfsInv'
  <1> DEFINE f == fds[d].file
             s == IF p > din[f].size THEN TruncFile(View(f), p) ELSE View(f)
             n == IF s.err = "none" THEN [fds EXCEPT ![d].pos = p] ELSE fds
  <1>1. f \in Files /\ p \in Nat /\ p <= MaxSize /\ FdsOK
    BY OpenFd, Sizes DEF SfsInv
  <1>2. Finish(f, s, n)
    BY DEF Seek
  <1>3. s.err \in Panics \/ (Ends(f, s) /\ (s.err = "none" => p <= Indirect * BlkSize))
    <2>1. CASE p > din[f].size
      <3>1. s = TruncFile(View(f), p)
        BY <2>1
      <3> HIDE DEF s, f
      <3>2. \/ s.err \in Panics
            \/ /\ Ends(f, s)
               /\ \/ Resizes(View(f), s, p) /\ p <= Indirect * BlkSize
                  \/ /\ s.err = "no_space" /\ s.ino.size = din[f].size /\ SameCells(View(f), s)
                     /\ View(f).ino.blocks < Ceil(p) /\ Room(View(f)) < Ceil(p)
        BY <1>1, <2>1, <3>1, TruncEnds
      <3> QED BY <3>2
    <2>2. CASE ~(p > din[f].size)
      <3>1. s = View(f)
        BY <2>2
      <3> HIDE DEF s, f
      <3>2. Ends(f, s)
        BY <1>1, <3>1, ViewEnds
      <3>3. din[f].size <= Indirect * BlkSize /\ din[f].size \in Nat
        BY <1>1 DEF SfsInv, SizesOK, TypesOK, InodeType
      <3>4. p <= Indirect * BlkSize
        BY <1>1, <2>2, <3>3, Extent
      <3> QED BY <3>2, <3>4
    <2> QED BY <2>1, <2>2
  <1> HIDE DEF s
  <1>4. ASSUME s.err = "none", p <= Indirect * BlkSize PROVE After(f, n)
    <2>1. n = [fds EXCEPT ![d].pos = p]
      BY <1>4
    <2>2. After(f, [fds EXCEPT ![d].pos = p])
      BY <1>1, <1>4, Moves
    <2> QED BY <2>1, <2>2
  <1>5. ASSUME s.err # "none" PROVE After(f, n)
    BY <1>1, <1>5 DEF After, FdsOK
  <1> HIDE DEF f, n
  <1> QED BY <1>1, <1>2, <1>3, <1>4, <1>5, EndInv

\* What is on the data blocks and in the inodes is as it was.
LEMMA SameFiles ==
  ASSUME SfsInv, UNCHANGED <<free, map, super_dirty, data, din, panic>>,
         disk' \in [Files -> InodeType], \A f \in Files : disk'[f].size <= MaxSize,
         dirty' \in SUBSET Files
  PROVE  TypesOK' /\ BlocksOK' /\ ZerosOK' /\ SizesOK'
  <1>1. TypesOK'
    BY DEF SfsInv, TypesOK
  <1>2. BlocksOK' /\ ZerosOK' /\ SizesOK'
    BY DEF SfsInv, BlocksOK, ZerosOK, SizesOK, Of, CellOf
  <1> QED BY <1>1, <1>2

\* A dirty inode is written when the last descriptor goes; any other is the one on disk.
LEMMA CloseInv ==
  ASSUME SfsInv, DirtyIfModified', NEW d \in Fds, fds[d] # Closed, Close(d)
  PROVE  SfsInv'
  <1> DEFINE f == fds[d].file
  <1>1. TypesOK /\ SizesOK /\ SavedOK /\ FdsOK /\ f \in Files
    BY OpenFd DEF SfsInv
  <1>2. din \in [Files -> InodeType] /\ disk \in [Files -> InodeType]
    BY <1>1 DEF TypesOK
  <1>3. fds' = [fds EXCEPT ![d] = Closed] /\ UNCHANGED <<free, map, super_dirty, data, panic>>
    BY DEF Close
  <1>4. FdsOK'
    <2> DEFINE o == Closed
    <2>1. fds \in [Fds -> OpenType \cup {o}] /\ \A e \in Fds : fds[e] = o \/ OpenOK(fds[e])
      BY <1>1 DEF FdsOK, FdsFit
    <2>2. fds' = [fds EXCEPT ![d] = o]
      BY <1>3
    <2> HIDE DEF o
    <2>3. fds' \in [Fds -> OpenType \cup {o}] /\ \A e \in Fds : fds'[e] = o \/ OpenOK(fds'[e])
      BY <2>1, <2>2
    <2> QED BY <2>3 DEF FdsOK, FdsFit, o
  <1>5. \A e \in Fds \ {d} : fds'[e] = fds[e]
    BY <1>1, <1>3 DEF FdsOK, FdsFit
  <1>6. /\ din' = din /\ disk' \in [Files -> InodeType] /\ \A g \in Files : disk'[g].size <= MaxSize
        /\ dirty' \in SUBSET Files /\ dirty' \subseteq {fds'[e].file : e \in Fds}
    <2>1. CASE \E e \in Fds \ {d} : fds[e].file = f
      <3>1. din' = din /\ disk' = disk /\ dirty' = dirty
        BY <2>1 DEF Close
      <3>2. dirty \subseteq {fds'[e].file : e \in Fds}
        <4> SUFFICES ASSUME NEW g \in dirty PROVE \E e \in Fds : fds'[e].file = g
          OBVIOUS
        <4>1. PICK e \in Fds : fds[e].file = g
          BY <1>1 DEF SavedOK
        <4> QED BY <1>5, <2>1, <4>1
      <3> QED BY <1>1, <3>1, <3>2 DEF TypesOK
    <2>2. CASE ~\E e \in Fds \ {d} : fds[e].file = f
      <3>1. /\ disk' = (IF f \in dirty THEN [disk EXCEPT ![f] = din[f]] ELSE disk)
            /\ dirty' = dirty \ {f}
            /\ din' = [din EXCEPT ![f] = disk'[f]]
        BY <2>2 DEF Close, Evict
      <3>2. disk'[f] = din[f]
        BY <1>1, <1>2, <3>1 DEF SavedOK, DirtyIfModified
      <3>3. din' = din
        BY <1>2, <3>1, <3>2
      <3>4. disk' \in [Files -> InodeType] /\ \A g \in Files : disk'[g] \in {disk[g], din[g]}
        BY <1>1, <1>2, <3>1
      <3>5. \A g \in Files : disk'[g].size <= MaxSize
        <4> SUFFICES ASSUME NEW g \in Files PROVE disk'[g].size <= MaxSize
          OBVIOUS
        <4>1. disk[g].size <= MaxSize /\ din[g].size <= MaxSize
          BY <1>1 DEF TypesOK, SizesOK
        <4> QED BY <3>4, <4>1
      <3>6. dirty' \subseteq {fds'[e].file : e \in Fds}
        <4> SUFFICES ASSUME NEW g \in dirty, g # f PROVE \E e \in Fds : fds'[e].file = g
          BY <3>1
        <4>1. PICK e \in Fds : fds[e].file = g
          BY <1>1 DEF SavedOK
        <4> QED BY <1>5, <4>1
      <3>7. dirty' \in SUBSET Files
        BY <1>1, <3>1 DEF TypesOK
      <3> QED BY <3>3, <3>4, <3>5, <3>6, <3>7
    <2> QED BY <2>1, <2>2
  <1> HIDE DEF f
  <1>7. TypesOK' /\ BlocksOK' /\ ZerosOK' /\ SizesOK'
    BY <1>3, <1>6, SameFiles
  <1>8. SavedOK'
    BY <1>1, <1>3, <1>6 DEF SavedOK
  <1> QED BY <1>4, <1>7, <1>8 DEF SfsInv

\* A descriptor more.
LEMMA DupInv ==
  ASSUME SfsInv, DirtyIfModified', NEW d \in Fds, NEW e \in Fds, fds[d] # Closed, Dup(d, e)
  PROVE  SfsInv'
  <1>1. /\ fds[e] = Closed /\ fds' = [fds EXCEPT ![e] = fds[d]]
        /\ UNCHANGED <<free, map, super_dirty, data, din, disk, dirty, panic>>
    BY DEF Dup
  <1>2. TypesOK /\ SavedOK /\ FdsOK
    BY DEF SfsInv
  <1>3. OpenOK(fds[d])
    BY <1>2 DEF FdsOK, FdsFit
  <1>4. After(fds[d].file, fds')
    BY <1>1, <1>2, <1>3, Opens
  <1>5. FdsOK'
    BY <1>4 DEF After, FdsOK
  <1>6. dirty' \subseteq {fds'[h].file : h \in Fds}
    <2>1. \A g \in dirty : g \in {fds'[h].file : h \in Fds}
      BY <1>2, <1>4 DEF SavedOK, TypesOK, After
    <2> QED BY <1>1, <2>1
  <1>7. TypesOK' /\ BlocksOK' /\ ZerosOK' /\ SizesOK'
    BY <1>1, <1>2, SameFiles DEF TypesOK
  <1> QED BY <1>1, <1>2, <1>5, <1>6, <1>7 DEF SfsInv, SavedOK

\* The inode is written, and clean.
LEMMA FsyncInv ==
  ASSUME SfsInv, DirtyIfModified', NEW d \in Fds, fds[d] # Closed, Fsync(d)
  PROVE  SfsInv'
  <1> DEFINE f == fds[d].file
  <1>1. /\ disk' = [disk EXCEPT ![f] = din[f]] /\ dirty' = dirty \ {f}
        /\ UNCHANGED <<free, map, super_dirty, data, din, fds, panic>>
    BY DEF Fsync
  <1>2. TypesOK /\ SavedOK /\ FdsOK /\ SizesOK /\ f \in Files
    BY OpenFd DEF SfsInv
  <1> HIDE DEF f
  <1>3. disk' \in [Files -> InodeType] /\ \A g \in Files : disk'[g] \in {disk[g], din[g]}
    BY <1>1, <1>2 DEF TypesOK
  <1>4. \A g \in Files : disk'[g].size <= MaxSize
    <2> SUFFICES ASSUME NEW g \in Files PROVE disk'[g].size <= MaxSize
      OBVIOUS
    <2>1. disk[g].size <= MaxSize /\ din[g].size <= MaxSize
      BY <1>2 DEF TypesOK, SizesOK
    <2> QED BY <1>3, <2>1
  <1>5. dirty' \in SUBSET Files
    BY <1>1, <1>2 DEF TypesOK
  <1>6. TypesOK' /\ BlocksOK' /\ ZerosOK' /\ SizesOK'
    BY <1>1, <1>3, <1>4, <1>5, SameFiles
  <1>7. FdsOK' /\ SavedOK'
    BY <1>1, <1>2 DEF FdsOK, SavedOK
  <1> QED BY <1>6, <1>7 DEF SfsInv

\* When nothing is open every inode is on disk, and what the next start finds is what there was.
LEMMA RestartFinds ==
  ASSUME SfsInv, Restart
  PROVE  din' = din /\ free' = free
  <1>1. TypesOK /\ SavedOK
    BY DEF SfsInv
  <1>2. din \in [Files -> InodeType] /\ disk \in [Files -> InodeType]
    BY <1>1 DEF TypesOK
  <1>3. dirty = {}
    <2>1. \A d \in Fds : fds[d].file \notin Files
      BY SfsAssumption DEF Restart, Closed
    <2> QED BY <1>1, <2>1 DEF SavedOK, TypesOK
  <1>4. \A f \in Files : din[f] = disk[f]
    BY <1>1, <1>3 DEF SavedOK, DirtyIfModified
  <1>5. din' = din
    BY <1>2, <1>4 DEF Restart
  <1>6. free' = free
    BY <1>1 DEF SavedOK, Restart
  <1> QED BY <1>5, <1>6

\* The machine starts with what it finds.
LEMMA RestartInv ==
  ASSUME SfsInv, DirtyIfModified', Restart
  PROVE  SfsInv'
  <1>1. /\ din' = din /\ free' = free /\ map' = free' /\ super_dirty' = FALSE
        /\ UNCHANGED <<data, disk, dirty, fds, panic>>
    BY RestartFinds DEF Restart
  <1>2. TypesOK'
    BY <1>1 DEF SfsInv, TypesOK
  <1>3. BlocksOK' /\ ZerosOK' /\ SizesOK'
    BY <1>1 DEF SfsInv, BlocksOK, ZerosOK, SizesOK, Of, CellOf
  <1>4. FdsOK' /\ SavedOK'
    BY <1>1 DEF SfsInv, FdsOK, SavedOK
  <1> QED BY <1>2, <1>3, <1>4 DEF SfsInv

\* Nothing happens.
LEMMA StutterInv ==
  ASSUME SfsInv, UNCHANGED vars
  PROVE  SfsInv'
  <1>1. UNCHANGED <<free, map, super_dirty, data, din, disk, dirty, fds, panic>>
    BY DEF vars
  <1>2. TypesOK'
    BY <1>1 DEF SfsInv, TypesOK
  <1>3. BlocksOK' /\ ZerosOK' /\ SizesOK'
    BY <1>1 DEF SfsInv, BlocksOK, ZerosOK, SizesOK, Of, CellOf
  <1>4. FdsOK' /\ SavedOK'
    BY <1>1 DEF SfsInv, FdsOK, SavedOK, DirtyIfModified
  <1> QED BY <1>2, <1>3, <1>4 DEF SfsInv

\* Every step keeps the invariant.
LEMMA NextInv ==
  ASSUME SfsInv, [Next /\ DirtyIfModified']_vars
  PROVE  SfsInv'
  <1>1. CASE UNCHANGED vars \/ Stopped
    <2>1. UNCHANGED vars
      BY <1>1 DEF Stopped
    <2> QED BY <2>1, StutterInv
  <1>2. CASE Restart /\ DirtyIfModified'
    BY <1>2, RestartInv
  <1>3. ASSUME NEW d \in Fds, Syscall(d), DirtyIfModified' PROVE SfsInv'
    <2>1. CASE \E f \in Files, acc \in AccModes, empty, append \in BOOLEAN : Open(d, f, acc, empty, append)
      BY <1>3, <2>1, OpenInv
    <2>2. CASE fds[d] # Closed
      <3>1. CASE Close(d)
        BY <1>3, <2>2, <3>1, CloseInv
      <3>2. CASE \E e \in Fds : Dup(d, e)
        BY <1>3, <2>2, <3>2, DupInv
      <3>3. CASE \E len \in 1..MaxLen : Read(d, len)
        BY <1>3, <2>2, <3>3, ReadInv
      <3>4. CASE \E len \in 1..MaxLen, v \in Vals : Write(d, len, v)
        BY <1>3, <2>2, <3>4, WriteInv
      <3>5. CASE \E p \in 0..MaxSize-1 : Seek(d, p)
        BY <1>3, <2>2, <3>5, SeekInv
      <3>6. CASE Fsync(d)
        BY <1>3, <2>2, <3>6, FsyncInv
      <3> QED BY <1>3, <2>1, <2>2, <3>1, <3>2, <3>3, <3>4, <3>5, <3>6 DEF Syscall
    <2> QED BY <1>3, <2>1, <2>2 DEF Syscall
  <1> QED BY <1>1, <1>2, <1>3 DEF Next

\* The invariant holds as long as no inode is left modified and unmarked.
THEOREM Kept == SpecMarked => []SfsInv
  BY InitInv, NextInv, PTL DEF SpecMarked

-----------------------------------------------------------------------------
(* The properties. *)

\* Every variable holds what it is declared to hold: no file grows beyond
\* SFS_MAX_FILE_SIZE or beyond its block map, no descriptor points further than that, and
\* an inode is dirty only while somebody has the file open.
THEOREM TypeCorrect == SpecMarked => []TypeOK
  <1>1. ASSUME SfsInv PROVE TypeOK
    <2>1. TypesOK /\ SizesOK /\ FdsOK /\ SavedOK
      BY <1>1 DEF SfsInv
    <2>2. ASSUME NEW i \in InodeType, i.size <= MaxSize
          PROVE  i \in [size : 0..MaxSize, blocks : 0..NDirect+NEntry,
                        direct : [0..NDirect-1 -> Blocks \cup {0}], indirect : Blocks \cup {0}]
      <3>1. i.size \in 0..MaxSize
        BY <2>2, Sizes DEF InodeType
      <3> QED BY <3>1 DEF InodeType, Indirect
    <2> DEFINE T == [size : 0..MaxSize, blocks : 0..NDirect+NEntry,
                     direct : [0..NDirect-1 -> Blocks \cup {0}], indirect : Blocks \cup {0}]
    <2>3. \A f \in Files : din[f] \in T /\ disk[f] \in T
      BY <2>1, <2>2 DEF TypesOK, SizesOK
    <2> HIDE DEF T
    <2>4. din \in [Files -> T] /\ disk \in [Files -> T]
      BY <2>1, <2>3 DEF TypesOK
    <2>5. {din, disk} \subseteq [Files -> T]
      BY <2>4
    <2>6. \A d \in Fds : fds[d] = Closed \/
            fds[d] \in [file : Files, pos : 0..MaxSize, readable : BOOLEAN, writable : BOOLEAN]
      BY <2>1 DEF FdsOK, FdsFit, OpenType
    <2> QED BY <2>1, <2>5, <2>6 DEF TypeOK, TypesOK, DataType, SavedOK, T
  <1> QED BY <1>1, Kept, PTL

\* The block map, sfs_block_alloc and sfs_block_free: whatever is opened, written, cut and
\* closed, and wherever an allocation fails half way, no block is in two places, none in use
\* is free and none is lost.
THEOREM BlocksNotShared == SpecMarked => []BlocksOwnedOnce
  <1>1. ASSUME SfsInv PROVE BlocksOwnedOnce
    <2>1. TypesOK /\ BlocksOK
      BY <1>1 DEF SfsInv
    <2>2. \A f, x : Held(f, x) = Of(f, x)
      BY DEF Held, Of, At
    <2>3. \A p \in AllPlaces : /\ p[1] \in Files /\ p[2] \in Places
                               /\ Of(p[1], p[2]) # 0 /\ p = <<p[1], p[2]>>
      BY <2>2 DEF AllPlaces, Places
    <2>4. ASSUME NEW p \in AllPlaces, NEW q \in AllPlaces, Of(p[1], p[2]) = Of(q[1], q[2])
          PROVE  p = q
      <3>1. p[1] = q[1]
        BY <2>1, <2>3, <2>4 DEF BlocksOK
      <3>2. MapOK(din[p[1]], data)
        BY <2>1, <2>3 DEF BlocksOK
      <3>3. p[2] = q[2]
        BY <2>3, <2>4, <3>1, <3>2 DEF MapOK, Of
      <3> QED BY <2>3, <3>1, <3>3
    <2>5. \A p \in AllPlaces : Of(p[1], p[2]) \in Blocks /\ Of(p[1], p[2]) \notin free
      BY <2>1, <2>3 DEF BlocksOK, MapOK, Of
    <2>6. ASSUME NEW b \in Blocks, b \notin free PROVE \E p \in AllPlaces : Of(p[1], p[2]) = b
      <3>1. PICK f \in Files, x \in Places : Of(f, x) = b
        BY <2>1, <2>6 DEF BlocksOK
      <3>2. b # 0
        BY Sizes
      <3>3. <<f, x>> \in AllPlaces
        BY <2>2, <3>1, <3>2 DEF AllPlaces, Places
      <3> QED BY <3>1, <3>3
    <2>7. free = Blocks \ {Held(p[1], p[2]) : p \in AllPlaces}
      BY <2>1, <2>2, <2>5, <2>6 DEF TypesOK
    <2> QED BY <2>2, <2>4, <2>7 DEF BlocksOwnedOnce
  <1> QED BY <1>1, Kept, PTL

\* sfs_bmap_load_nolock: every block below the number of blocks of a file is there, so
\* sfs_block_inuse(ino) holds wherever the block map asserts it.
THEOREM NoHoles == SpecMarked => []BlocksMapped
  <1>1. ASSUME SfsInv PROVE BlocksMapped
    <2> SUFFICES ASSUME NEW f \in Files, NEW i \in 0..din[f].blocks-1
                 PROVE  BlockAt(din[f], data, i) \in Blocks
      BY DEF BlocksMapped
    <2>1. MapOK(din[f], data) /\ din[f].blocks \in 0..Indirect
      BY <1>1 DEF SfsInv, BlocksOK, TypesOK, InodeType
    <2>2. i \in Indexes /\ i < din[f].blocks /\ i \in Places /\ i # Indirect
      BY <2>1, Sizes, Where
    <2>3. At(din[f], data, i) \in Blocks
      BY <2>1, <2>2 DEF MapOK
    <2> QED BY <2>2, <2>3 DEF At
  <1> QED BY <1>1, Kept, PTL

\* sfs_io_nolock and sfs_truncfile: what is behind the end of a file in its blocks is zero, so
\* the file reads as zeros there when it grows again.
THEOREM EndsInZeros == SpecMarked => []ZeroBeyondEnd
  <1>1. ASSUME SfsInv PROVE ZeroBeyondEnd
    <2> SUFFICES ASSUME NEW f \in Files, NEW z \in din[f].size..din[f].blocks*BlkSize-1
                 PROVE  data[BlockAt(din[f], data, z \div BlkSize)][z % BlkSize] = 0
      BY DEF ZeroBeyondEnd
    <2>1. ZerosOK /\ din[f].blocks \in Nat /\ din[f].size \in Nat /\ din[f].blocks <= Indirect
      BY <1>1, Sizes DEF SfsInv, TypesOK, InodeType
    <2> DEFINE n == din[f].blocks
               size == din[f].size
    <2>2. n * BlkSize \in Nat /\ n \in Nat /\ size \in Nat
      BY <2>1, Multiples
    <2> HIDE DEF n, size
    <2>3. z \in Nat /\ size <= z /\ z < n * BlkSize
      BY <2>2 DEF n, size
    <2>4. PICK i \in Nat, c \in Cells : i = z \div BlkSize /\ c = z % BlkSize /\ z = i * BlkSize + c
      BY <2>3, Position
    <2>5. i < n
      <3>1. n <= i => n * BlkSize <= i * BlkSize
        BY <2>2, <2>4, Multiples
      <3>2. i * BlkSize \in Nat /\ c \in Nat
        BY <2>4, Sizes, Multiples
      <3> QED BY <2>2, <2>3, <2>4, <3>1, <3>2
    <2>6. i \in Indexes /\ i # Indirect
      BY <2>1, <2>4, <2>5, Where, Sizes DEF n
    <2>7. CellOf(f, i, c) = 0
      BY <2>1, <2>3, <2>4, <2>6 DEF ZerosOK, size
    <2>8. data[BlockAt(din[f], data, i)][c] = 0
      BY <2>5, <2>6, <2>7 DEF CellOf, Of, At, n
    <2> QED BY <2>4, <2>8
  <1> QED BY <1>1, Kept, PTL

\* fs_cleanup, sfs_do_mount: when every process has ended and the machine is started again, it
\* finds every file and the free map as they were.
THEOREM RestartLosesNothing == SpecMarked => FoundAgain
  <1>1. ASSUME SfsInv PROVE [Restart => din' = din /\ free' = free]_vars
    BY <1>1, RestartFinds
  <1> QED BY <1>1, Kept, PTL DEF FoundAgain

-----------------------------------------------------------------------------
(* The files are sequences of bytes. *)

\* Byte z of file f, the first being byte 0.
Byte(f, z) == CellOf(f, z \div BlkSize, z % BlkSize)

\* Byte z is a cell of a block.
LEMMA ByteIs ==
  ASSUME NEW z \in Nat, z < Indirect * BlkSize
  PROVE  \E i \in Indexes, c \in Cells : i = z \div BlkSize /\ c = z % BlkSize /\ z = i * BlkSize + c
  <1>1. PICK i \in Nat, c \in Cells : i = z \div BlkSize /\ c = z % BlkSize /\ z = i * BlkSize + c
    BY Position
  <1>2. Indirect <= i => Indirect * BlkSize <= i * BlkSize
    BY <1>1, Sizes, Multiples
  <1>3. i * BlkSize \in Nat /\ c \in Nat /\ Indirect * BlkSize \in Nat /\ Indirect \in Nat
    BY <1>1, Sizes, Multiples
  <1>4. i < Indirect
    BY <1>1, <1>2, <1>3
  <1>5. i \in Indexes
    BY <1>1, <1>4, Where
  <1> QED BY <1>1, <1>5

\* What sfs_io_nolock reads from a file.
LEMMA ContentIs ==
  ASSUME SfsInv, NEW f \in Files
  PROVE  /\ din[f].size \in Nat /\ din[f].size <= Indirect * BlkSize /\ din[f].size <= MaxSize
         /\ Content(f) = [j \in 1..din[f].size |-> Byte(f, j - 1)]
         /\ Len(Content(f)) = din[f].size
  <1> DEFINE n == din[f].size
             t == [j \in 1..n |-> Byte(f, j - 1)]
  <1>1. n \in Nat /\ n <= Indirect * BlkSize /\ n <= MaxSize /\ MapOK(din[f], data) /\ din[f].blocks \in Nat
    BY Sizes DEF SfsInv, SizesOK, TypesOK, InodeType, BlocksOK
  <1>2. ASSUME NEW j \in 1..n PROVE Content(f)[j] = Byte(f, j - 1)
    <2>1. j - 1 \in Nat /\ j - 1 < Indirect * BlkSize
      BY <1>1, Extent
    <2> DEFINE z == j - 1
    <2>2. PICK i \in Indexes, c \in Cells : i = z \div BlkSize /\ c = z % BlkSize /\ z = i * BlkSize + c
      <3> HIDE DEF z
      <3> QED BY <2>1, ByteIs DEF z
    <2>3. Content(f)[j] = IF BlockAt(din[f], data, i) = 0 THEN 0 ELSE data[BlockAt(din[f], data, i)][c]
      BY <2>2 DEF Content
    <2>4. Of(f, i) = BlockAt(din[f], data, i) /\ i \in Places
      BY <2>2, Where DEF Of, At
    <2>5. Of(f, i) # 0 <=> i < din[f].blocks
      BY <1>1 DEF MapOK, Of
    <2>6. Byte(f, j - 1) = CellOf(f, i, c)
      BY <2>2 DEF Byte
    <2> QED BY <2>3, <2>4, <2>5, <2>6 DEF CellOf
  <1>3. Content(f) = [j \in 1..n |-> Content(f)[j]]
    BY DEF Content
  <1>4. Content(f) = t
    <2> HIDE DEF n
    <2> QED BY <1>2, <1>3
  <1>5. Len(t) = n
    <2> HIDE DEF n
    <2> QED BY <1>1
  <1> QED BY <1>1, <1>4, <1>5

\* What ContentIs says, of all files.
ContentsOK ==
  \A f \in Files : /\ din[f].size \in Nat /\ din[f].size <= Indirect * BlkSize /\ din[f].size <= MaxSize
                   /\ Content(f) = [j \in 1..din[f].size |-> Byte(f, j - 1)]
                   /\ Len(Content(f)) = din[f].size

\* The same, in a form that can be primed.
LEMMA Contents == SfsInv => ContentsOK
  BY ContentIs DEF ContentsOK

\* A file that is as it was.
LEMMA SameContent ==
  ASSUME SfsInv, SfsInv', NEW f \in Files, din'[f].size = din[f].size,
         \A i \in Indexes, c \in Cells : CellOf(f, i, c)' = CellOf(f, i, c)
  PROVE  Content(f)' = Content(f)
  <1> DEFINE n == din[f].size
  <1>1. n \in Nat /\ n <= Indirect * BlkSize /\ Content(f) = [j \in 1..n |-> Byte(f, j - 1)]
    BY ContentIs
  <1>2. Content(f)' = [j \in 1..n |-> Byte(f, j - 1)']
    <2>1. ContentsOK'
      BY Contents, PTL
    <2> QED BY <2>1 DEF ContentsOK
  <1>3. ASSUME NEW j \in 1..n PROVE Byte(f, j - 1)' = Byte(f, j - 1)
    <2> DEFINE z == j - 1
    <2>1. z \in Nat /\ z < Indirect * BlkSize
      BY <1>1, Extent
    <2>2. PICK i \in Indexes, c \in Cells : i = z \div BlkSize /\ c = z % BlkSize
      <3> HIDE DEF z
      <3> QED BY <2>1, ByteIs
    <2>3. Byte(f, z)' = CellOf(f, i, c)' /\ Byte(f, z) = CellOf(f, i, c)
      BY <2>2 DEF Byte
    <2> QED BY <2>3
  <1> HIDE DEF n
  <1> QED BY <1>1, <1>2, <1>3

\* A file into which n bytes v have been written at pos.
LEMMA WrittenContent ==
  ASSUME SfsInv, SfsInv', NEW f \in Files, NEW pos \in Nat, NEW n \in Nat, NEW v \in Nat,
         din'[f].size = (IF pos + n > din[f].size THEN pos + n ELSE din[f].size),
         \A i \in Indexes, c \in Cells :
           CellOf(f, i, c)' = IF pos <= i * BlkSize + c /\ i * BlkSize + c < pos + n
                                THEN v ELSE CellOf(f, i, c)
  PROVE  Content(f)' = Flat!Overwrite(Content(f), pos, n, v)
  <1> DEFINE size == din[f].size
             len  == IF pos + n > size THEN pos + n ELSE size
             old  == Content(f)
  <1>1. /\ size \in Nat /\ size <= Indirect * BlkSize /\ old = [j \in 1..size |-> Byte(f, j - 1)]
        /\ Len(old) = size
    BY ContentIs
  <1>2. Content(f)' = [j \in 1..len |-> Byte(f, j - 1)'] /\ len <= Indirect * BlkSize /\ len \in Nat
    <2>1. ContentsOK'
      BY Contents, PTL
    <2>2. din'[f].size = len
      OBVIOUS
    <2> HIDE DEF len
    <2> QED BY <2>1, <2>2 DEF ContentsOK
  <1>3. Flat!Overwrite(old, pos, n, v) =
          [j \in 1..len |-> IF j \in pos+1..pos+n THEN v ELSE IF j <= size THEN old[j] ELSE 0]
    <2> HIDE DEF old, size
    <2>1. Len(old) = size
      BY <1>1
    <2> QED BY <2>1 DEF Flat!Overwrite
  <1>4. ASSUME NEW j \in 1..len
        PROVE  Byte(f, j - 1)' = IF j \in pos+1..pos+n THEN v ELSE IF j <= size THEN old[j] ELSE 0
    <2> DEFINE z == j - 1
    <2>1. z \in Nat /\ z < Indirect * BlkSize
      <3> HIDE DEF len
      <3> QED BY <1>2, Extent
    <2>2. PICK i \in Indexes, c \in Cells : i = z \div BlkSize /\ c = z % BlkSize /\ z = i * BlkSize + c
      <3> HIDE DEF z
      <3> QED BY <2>1, ByteIs
    <2>3. Byte(f, z)' = CellOf(f, i, c)' /\ Byte(f, z) = CellOf(f, i, c)
      BY <2>2 DEF Byte
    <2>4. CellOf(f, i, c)' = IF pos <= z /\ z < pos + n THEN v ELSE CellOf(f, i, c)
      BY <2>2
    <2>5. size <= z => CellOf(f, i, c) = 0
      BY <2>2 DEF SfsInv, ZerosOK
    <2>6. j \in Nat /\ j = z + 1
      <3> HIDE DEF len
      <3> QED BY <1>2
    <2>7. j <= size => old[j] = Byte(f, z)
      <3> HIDE DEF old, size, len
      <3> QED BY <1>1, <2>6, <2>1
    <2>8. j \in pos+1..pos+n <=> pos <= z /\ z < pos + n
      <3> HIDE DEF z
      <3> QED BY <2>1, <2>6
    <2>9. j <= size <=> ~(size <= z)
      <3> HIDE DEF z, size
      <3> QED BY <1>1, <2>1, <2>6
    <2> HIDE DEF old, size, len
    <2> QED BY <2>3, <2>4, <2>5, <2>7, <2>8, <2>9
  <1> HIDE DEF old, size, len
  <1> QED BY <1>2, <1>3, <1>4 DEF old

\* The files, each as a sequence of bytes.
Texts == [f \in Files |-> Content(f)]

\* An operation on file f leaves the others as they are.
LEMMA OneFile ==
  ASSUME SfsInv, SfsInv', NEW f \in Files, NEW s, Became(f, s)
  PROVE  Texts' = [Texts EXCEPT ![f] = Content(f)']
  <1>1. ASSUME NEW g \in Files \ {f} PROVE Content(g)' = Content(g)
    BY SameContent DEF Became
  <1>2. Texts' = [g \in Files |-> Content(g)']
    BY DEF Texts
  <1> QED BY <1>1, <1>2 DEF Texts

\* A step of the promise, or none.
FlatStep == Flat!Next \/ UNCHANGED Flat!vars

\* The files are as they were.
LEMMA SameTexts ==
  ASSUME UNCHANGED <<data, din>>
  PROVE  Texts' = Texts
  <1>1. \A f \in Files : Content(f)' = Content(f)
    BY DEF Content, BlockAt
  <1> QED BY <1>1 DEF Texts

\* A descriptor of the promise's machine that does something.
LEMMA Operates ==
  ASSUME panic = "none", panic' = panic, Flat!Operation
  PROVE  FlatStep
  BY DEF FlatStep, Flat!Next

\* The end of an operation: it stopped the machine, or file f has become what is in its view.
LEMMA FlatEnd ==
  ASSUME SfsInv, SfsInv', panic = "none", NEW f \in Files, NEW s, NEW nfds, Finish(f, s, nfds),
         s.err \in Panics \/ Ends(f, s)
  PROVE  \/ FlatStep
         \/ /\ s.err \notin Panics /\ Became(f, s) /\ fds' = nfds /\ panic' = panic
            /\ Texts' = [Texts EXCEPT ![f] = Content(f)']
  <1>1. CASE s.err \in Panics
    <2>1. panic' = s.err /\ fds' = fds /\ UNCHANGED <<data, din>>
      BY <1>1 DEF Finish
    <2>2. Texts' = Texts
      BY <2>1, SameTexts
    <2>3. panic' # "none"
      BY <1>1, <2>1 DEF Panics
    <2> QED BY <2>1, <2>2, <2>3 DEF FlatStep, Flat!Next, Flat!Stop, Texts
  <1>2. CASE s.err \notin Panics
    <2>1. Ends(f, s)
      BY <1>2
    <2>2. TypesOK /\ BlocksOK /\ (super_dirty \/ map = free)
      BY DEF SfsInv, SavedOK
    <2>3. Became(f, s) /\ fds' = nfds /\ panic' = panic
      BY <1>2, <2>1, <2>2, FinishOK DEF Ends
    <2> QED BY <1>2, <2>3, OneFile
  <1> QED BY <1>1, <1>2

\* The cells of a file, before and after.
LEMMA CellsBecome ==
  ASSUME SfsInv, NEW f \in Files, NEW s, Became(f, s), NEW i \in Indexes, NEW c \in Cells
  PROVE  CellOf(f, i, c)' = Cell(s, i, c) /\ CellOf(f, i, c) = Cell(View(f), i, c)
  BY ViewOK DEF Became, SfsInv

\* A file that could not get all its blocks is one that may be cut short.
LEMMA NoRoom ==
  ASSUME SfsInv, NEW f \in Files, NEW n \in Nat, n <= MaxSize, Room(View(f)) < Ceil(n)
  PROVE  f \in Short
  <1>1. View(f).ino = din[f] /\ View(f).free = free
    BY DEF View
  <1>2. IsFiniteSet(free) /\ Cardinality(free) \in Nat /\ din[f].blocks \in Nat
    <2>1. View(f) \in ViewType
      BY ViewOK DEF SfsInv, Fits
    <2> QED BY <1>1, <2>1, Fields
  <1>3. Ceil(n) \in Nat /\ Ceil(MaxSize) \in Nat /\ Ceil(n) <= Ceil(MaxSize)
    BY CeilOK, CeilOrder, Extent
  <1> DEFINE k == IF din[f].indirect = 0 THEN 1 ELSE 0
             a == Ceil(n)
             b == Ceil(MaxSize)
             r == Cardinality(free)
  <1>4. r + din[f].blocks - k < a
    BY <1>1 DEF Room
  <1>5. k \in Nat
    OBVIOUS
  <1> HIDE DEF a, b, r, k
  <1>6. r < b - din[f].blocks + k
    BY <1>2, <1>3, <1>4, <1>5 DEF a, b, r
  <1> QED BY <1>6 DEF Short, a, b, r, k

\* file_open: the file is emptied, or is as it was.
LEMMA OpenFlat ==
  ASSUME SfsInv, SfsInv', panic = "none", NEW d \in Fds, NEW f \in Files, NEW acc \in AccModes,
         NEW empty \in BOOLEAN, NEW append \in BOOLEAN, Open(d, f, acc, empty, append)
  PROVE  FlatStep
  <1> DEFINE s == IF empty THEN TruncFile(View(f), 0) ELSE View(f)
             p == IF append THEN s.ino.size ELSE 0
             r == acc # "O_WRONLY"
             w == acc # "O_RDONLY"
             e == [file |-> f, pos |-> p, readable |-> r, writable |-> w]
  <1>1. fds[d] = Closed /\ Finish(f, s, [fds EXCEPT ![d] = e])
    BY DEF Open
  <1>2. \/ s.err \in Panics
        \/ /\ Ends(f, s)
           /\ \/ s.ino.size = din[f].size /\ SameCells(View(f), s) /\ ~empty
              \/ s.ino.size = 0 /\ empty
    <2>1. CASE empty
      <3>1. s = TruncFile(View(f), 0)
        BY <2>1
      <3> HIDE DEF s
      <3>2. 0 \in Nat /\ 0 <= MaxSize
        BY Sizes
      <3>3. \/ s.err \in Panics
            \/ /\ Ends(f, s)
               /\ \/ Resizes(View(f), s, 0) /\ 0 <= Indirect * BlkSize
                  \/ /\ s.err = "no_space" /\ s.ino.size = din[f].size /\ SameCells(View(f), s)
                     /\ View(f).ino.blocks < Ceil(0) /\ Room(View(f)) < Ceil(0)
        BY <3>1, <3>2, TruncEnds
      <3>4. View(f).ino.blocks \in Nat /\ Ceil(0) = 0
        BY CeilOfNone, ViewOK, Fields DEF SfsInv, Fits
      <3>5. ~(View(f).ino.blocks < Ceil(0))
        BY <3>4
      <3> QED BY <2>1, <3>3, <3>5 DEF Resizes
    <2>2. CASE ~empty
      <3>1. s = View(f) /\ View(f).ino = din[f]
        BY <2>2 DEF View
      <3> HIDE DEF s
      <3> QED BY <2>2, <3>1, ViewEnds DEF SameCells
    <2> QED BY <2>1, <2>2
  <1> HIDE DEF s
  <1>3. CASE FlatStep
    BY <1>3
  <1>4. CASE /\ s.err \notin Panics /\ Became(f, s) /\ fds' = [fds EXCEPT ![d] = e] /\ panic' = panic
             /\ Texts' = [Texts EXCEPT ![f] = Content(f)']
    <2>1. din'[f] = s.ino
      BY <1>4 DEF Became
    <2>2. ContentsOK /\ ContentsOK'
      BY Contents, PTL
    <2>3. ASSUME s.ino.size = din[f].size, SameCells(View(f), s) PROVE Texts' = Texts
      <3>1. \A i \in Indexes, c \in Cells : CellOf(f, i, c)' = CellOf(f, i, c)
        BY <1>4, <2>3, CellsBecome DEF SameCells
      <3>2. Content(f)' = Content(f)
        BY <2>1, <2>3, <3>1, SameContent
      <3>3. Texts' = Texts
        BY <1>4, <3>2 DEF Texts
      <3> QED BY <3>3
    <2>4. ASSUME s.ino.size = 0 PROVE Texts' = [Texts EXCEPT ![f] = <<>>]
      <3>1. Content(f)' = [j \in 1..0 |-> Byte(f, j - 1)'] /\ Len(Content(f)') = 0
        BY <2>1, <2>2, <2>4 DEF ContentsOK
      <3>2. Content(f)' = <<>>
        BY <3>1
      <3> QED BY <1>4, <3>2
    <2>5. Texts' \in {Texts, [Texts EXCEPT ![f] = <<>>]}
      BY <1>2, <1>4, <2>3, <2>4
    <2>6. Len(Texts'[f]) = s.ino.size /\ s.ino.size \in 0..MaxSize
      <3>1. Texts'[f] = Content(f)'
        BY DEF Texts
      <3> QED BY <2>1, <2>2, <3>1, Sizes DEF ContentsOK
    <2>7. p \in 0..MaxSize /\ p \in {0, Len(Texts'[f])}
      BY <2>6, Sizes
    <2>8. fds' = [fds EXCEPT ![d] = [file |-> f, pos |-> p, readable |-> r, writable |-> w]]
      BY <1>4
    <2>9. fds[d] = Flat!Closed /\ r \in BOOLEAN /\ w \in BOOLEAN
      BY <1>1 DEF Closed, Flat!Closed
    <2> HIDE DEF p, r, w
    <2>10. Flat!Open(d, f, r, w)
      BY <2>5, <2>7, <2>8, <2>9 DEF Flat!Open, Texts
    <2>11. Flat!Operation
      BY <2>9, <2>10 DEF Flat!Operation
    <2> QED BY <1>4, <2>11, Operates
  <1> QED BY <1>1, <1>2, <1>3, <1>4, FlatEnd

\* sfs_io_nolock, reading: nothing is changed, and what is there is read.
LEMMA ReadFlat ==
  ASSUME SfsInv, SfsInv', panic = "none", NEW d \in Fds, fds[d] # Closed, NEW len \in 1..MaxLen,
         Read(d, len)
  PROVE  FlatStep
  <1>0. PICK f \in Files : f = fds[d].file
    BY OpenFd DEF SfsInv
  <1> DEFINE pos == fds[d].pos
             s == ReadAt(View(f), pos, len)
             size == din[f].size
             m == [fds EXCEPT ![d].pos = @ + s.done]
  <1>1. f \in Files /\ pos \in Nat /\ pos <= MaxSize /\ len \in Nat
    BY OpenFd DEF SfsInv
  <1>2. fds[d].readable /\ Finish(f, s, m) /\ m = [fds EXCEPT ![d].pos = @ + s.done]
    BY <1>0 DEF Read
  <1>3. s.err \in Panics \/ (Ends(f, s) /\ HasRead(View(f), s, pos, len))
    <2> HIDE DEF s
    <2>1. s = ReadAt(View(fds[d].file), fds[d].pos, len)
      BY <1>0 DEF s
    <2> QED BY <1>0, <2>1, ReadEnds
  <1> HIDE DEF s
  <1>4. ASSUME /\ s.err \notin Panics /\ Became(f, s) /\ fds' = m
               /\ panic' = panic /\ Texts' = [Texts EXCEPT ![f] = Content(f)']
        PROVE  FlatStep
    <2>1. din'[f] = s.ino /\ Ends(f, s) /\ HasRead(View(f), s, pos, len) /\ View(f).ino = din[f]
      BY <1>3, <1>4 DEF Became, View
    <2>2. /\ s.ino.size = size /\ SameCells(View(f), s) /\ s.done \in Nat
          /\ IF pos >= size THEN s.done = 0
             ELSE /\ pos + s.done <= Least(pos + len, size)
                  /\ pos + s.done = Least(pos + len, size) \/ Room(View(f)) < Ceil(size)
      BY <2>1 DEF HasRead
    <2>3. \A i \in Indexes, c \in Cells : CellOf(f, i, c)' = CellOf(f, i, c)
      BY <1>1, <1>4, <2>2, CellsBecome DEF SameCells
    <2>4. Content(f)' = Content(f)
      <3> QED BY <1>1, <2>1, <2>2, <2>3, SameContent
    <2>5. Texts' = Texts
      BY <1>1, <1>4, <2>4 DEF Texts
    <2>6. size \in Nat /\ size <= MaxSize /\ Len(Texts[f]) = size
      BY <1>1, ContentIs DEF Texts
    <2>7. Room(View(f)) < Ceil(size) => f \in Short
      BY <1>1, <2>6, NoRoom
    <2> DEFINE left == Len(Texts[f]) - Flat!Least(pos, Len(Texts[f]))
               most == Flat!Least(len, left)
    <2>8. s.done \in 0..most /\ (s.done = most \/ f \in Short)
      <3> DEFINE n == s.done
                 room == Room(View(f)) < Ceil(size)
      <3>1. n \in Nat /\ (room => f \in Short)
        BY <2>2, <2>7
      <3>2. IF pos >= size THEN n = 0
            ELSE pos + n <= Least(pos + len, size) /\ (pos + n = Least(pos + len, size) \/ room)
        BY <2>2
      <3> HIDE DEF n, room, pos, size
      <3> QED BY <1>1, <2>6, <3>1, <3>2 DEF Least, Flat!Least, n
    <2> HIDE DEF most, left
    <2>9. Flat!Read(d, len)
      BY <1>0, <1>2, <1>4, <2>5, <2>8 DEF Flat!Read, Texts, most, left
    <2>10. fds[d] # Flat!Closed
      BY DEF Closed, Flat!Closed
    <2>11. Flat!Operation
      BY <2>9, <2>10 DEF Flat!Operation
    <2> QED BY <1>4, <2>11, Operates
  <1> HIDE DEF pos, size, m
  <1> QED BY <1>1, <1>2, <1>3, <1>4, FlatEnd

\* sfs_io_nolock, writing: bytes are in the file from where the descriptor was, and before them
\* there are zeros if the file did not reach that far.
LEMMA WriteFlat ==
  ASSUME SfsInv, SfsInv', panic = "none", NEW d \in Fds, fds[d] # Closed, NEW len \in 1..MaxLen,
         NEW v \in Vals, Write(d, len, v)
  PROVE  FlatStep
  <1>0. PICK f \in Files : f = fds[d].file
    BY OpenFd DEF SfsInv
  <1> DEFINE pos == fds[d].pos
             s == WriteAt(View(f), pos, len, v)
             size == din[f].size
             m == [fds EXCEPT ![d].pos = @ + s.done]
  <1>1. f \in Files /\ pos \in Nat /\ pos <= MaxSize /\ len \in Nat /\ v \in Nat
    BY OpenFd, SfsAssumption DEF SfsInv
  <1>2. fds[d].writable /\ Finish(f, s, m) /\ m = [fds EXCEPT ![d].pos = @ + s.done]
    BY <1>0 DEF Write
  <1>3. s.err \in Panics \/ (Ends(f, s) /\ HasWritten(View(f), s, pos, len, v))
    <2> HIDE DEF s
    <2>1. s = WriteAt(View(fds[d].file), fds[d].pos, len, v)
      BY <1>0 DEF s
    <2> QED BY <1>0, <2>1, WriteEnds
  <1> HIDE DEF s
  <1>4. ASSUME /\ s.err \notin Panics /\ Became(f, s) /\ fds' = m
               /\ panic' = panic /\ Texts' = [Texts EXCEPT ![f] = Content(f)']
        PROVE  FlatStep
    <2>1. /\ din'[f] = s.ino /\ Ends(f, s) /\ HasWritten(View(f), s, pos, len, v)
          /\ View(f).ino = din[f] /\ View(f).done = 0
      BY <1>3, <1>4 DEF Became, View
    <2>2. size \in Nat /\ size <= MaxSize /\ Len(Texts[f]) = size /\ MaxSize \in Nat
      BY <1>1, ContentIs, Extent DEF Texts
    <2>3. s.done \in Nat
      BY <2>1 DEF HasWritten
    <2> DEFINE n == s.done
               most == Flat!Least(len, MaxSize - pos)
    <2>4. ASSUME pos >= MaxSize PROVE Flat!Write(d, len, v)
      <3>1. s = View(f) /\ n = 0
        BY <2>1, <2>4 DEF HasWritten
      <3>2. \A i \in Indexes, c \in Cells : CellOf(f, i, c)' = CellOf(f, i, c)
        BY <1>1, <1>4, <3>1, CellsBecome
      <3>3. Content(f)' = Content(f)
        <4> QED BY <1>1, <2>1, <3>1, <3>2, SameContent
      <3>4. Texts' = Texts
        BY <1>1, <1>4, <3>3 DEF Texts
      <3>5. most = 0
        BY <1>1, <2>2, <2>4 DEF Flat!Least
      <3>6. n \in 0..most /\ n = most
        BY <3>1, <3>5
      <3> HIDE DEF most
      <3>7. Flat!Write(d, len, v)
        BY <1>0, <1>2, <1>4, <3>1, <3>4, <3>6 DEF Flat!Write, Texts, most
      <3> QED BY <3>7
    <2>5. ASSUME ~(pos >= MaxSize) PROVE Flat!Write(d, len, v)
      <3>1. /\ pos + n <= Least(pos + len, MaxSize)
            /\ pos + n = Least(pos + len, MaxSize) \/ Room(View(f)) < Ceil(MaxSize)
            /\ s.ino.size = IF pos + n > size THEN pos + n ELSE size
            /\ \A j \in Indexes, c \in Cells :
                 Cell(s, j, c) = IF pos <= j * BlkSize + c /\ j * BlkSize + c < pos + n
                                   THEN v ELSE Cell(View(f), j, c)
        BY <2>1, <2>5 DEF HasWritten
      <3>2. \A j \in Indexes, c \in Cells :
              CellOf(f, j, c)' = IF pos <= j * BlkSize + c /\ j * BlkSize + c < pos + n
                                   THEN v ELSE CellOf(f, j, c)
        BY <1>1, <1>4, <3>1, CellsBecome
      <3>3. Content(f)' = Flat!Overwrite(Content(f), pos, n, v)
        <4>1. n \in Nat /\ din'[f].size = s.ino.size
          BY <2>1, <2>3
        <4> HIDE DEF n, pos
        <4> QED BY <4>1, <1>1, <2>1, <2>3, <3>1, <3>2, WrittenContent
      <3>4. Texts' = [Texts EXCEPT ![f] = Flat!Overwrite(Texts[f], pos, n, v)]
        BY <1>1, <1>4, <3>3 DEF Texts
      <3>5. Room(View(f)) < Ceil(MaxSize) => f \in Short
        BY <1>1, <2>2, NoRoom
      <3>6. n \in 0..most /\ (n = most \/ f \in Short)
        <4> DEFINE room == Room(View(f)) < Ceil(MaxSize)
        <4>1. (room => f \in Short) /\ pos + n <= Least(pos + len, MaxSize)
              /\ (pos + n = Least(pos + len, MaxSize) \/ room) /\ n \in Nat
          BY <2>3, <3>1, <3>5
        <4> HIDE DEF n, room, pos
        <4> QED BY <1>1, <2>2, <2>5, <4>1 DEF Least, Flat!Least
      <3> HIDE DEF most
      <3>7. Flat!Write(d, len, v)
        BY <1>0, <1>2, <1>4, <3>4, <3>6 DEF Flat!Write, Texts, most
      <3> QED BY <3>7
    <2>6. Flat!Write(d, len, v)
      BY <2>4, <2>5
    <2>10. fds[d] # Flat!Closed
      BY DEF Closed, Flat!Closed
    <2>11. Flat!Operation
      BY <2>6, <2>10 DEF Flat!Operation
    <2> QED BY <1>4, <2>11, Operates
  <1> HIDE DEF pos, size, m
  <1> QED BY <1>1, <1>2, <1>3, <1>4, FlatEnd

\* file_seek that cannot make the file longer: as a read or a write that moves no byte.
LEMMA CutShort ==
  ASSUME SfsInv, panic = "none", panic' = panic, NEW d \in Fds, fds[d] # Closed,
         fds[d].file \in Short, fds' = fds, Texts' = Texts
  PROVE  FlatStep
  <1> DEFINE f == fds[d].file
             pos == fds[d].pos
  <1>1. /\ f \in Files /\ pos \in Nat /\ pos <= MaxSize /\ (fds[d].readable \/ fds[d].writable)
        /\ fds[d] \in OpenType
    BY OpenFd DEF SfsInv
  <1>2. 1 \in 1..MaxLen /\ MaxSize \in Nat
    BY SfsAssumption
  <1>3. PICK v \in Vals : TRUE
    BY SfsAssumption
  <1>4. [fds EXCEPT ![d].pos = @ + 0] = fds
    <2>1. fds \in [Fds -> OpenType \cup {Closed}]
      BY DEF SfsInv, FdsOK, FdsFit
    <2>2. [fds[d] EXCEPT !.pos = pos + 0] = fds[d]
      <3>1. pos + 0 = pos
        BY <1>1
      <3> QED BY <1>1, <3>1 DEF OpenType
    <2> QED BY <2>1, <2>2
  <1>5. fds[d] # Flat!Closed
    BY DEF Closed, Flat!Closed
  <1>6. CASE fds[d].readable
    <2> DEFINE left == Len(Texts[f]) - Flat!Least(pos, Len(Texts[f]))
               most == Flat!Least(1, left)
    <2>1. Len(Texts[f]) \in Nat
      BY <1>1, ContentIs DEF Texts
    <2>2. 0 \in 0..most
      BY <1>1, <2>1 DEF Flat!Least
    <2> HIDE DEF left, most
    <2>3. Flat!Read(d, 1)
      BY <1>4, <1>6, <2>2 DEF Flat!Read, Texts, left, most
    <2>4. Flat!Operation
      BY <1>2, <1>5, <2>3 DEF Flat!Operation
    <2> QED BY <2>4, Operates
  <1>7. CASE fds[d].writable
    <2> DEFINE most == Flat!Least(1, MaxSize - pos)
    <2>1. 0 \in 0..most
      BY <1>1, <1>2 DEF Flat!Least
    <2> HIDE DEF most
    <2>2. Flat!Write(d, 1, v)
      BY <1>4, <1>7, <2>1 DEF Flat!Write, Texts, most
    <2>3. Flat!Operation
      BY <1>2, <1>3, <1>5, <2>2 DEF Flat!Operation
    <2> QED BY <2>3, Operates
  <1> QED BY <1>1, <1>6, <1>7

\* file_seek: beyond the end the file grows by zeros.
LEMMA SeekFlat ==
  ASSUME SfsInv, SfsInv', panic = "none", NEW d \in Fds, fds[d] # Closed, NEW p \in 0..MaxSize-1,
         Seek(d, p)
  PROVE  FlatStep
  <1>0. PICK f \in Files : f = fds[d].file
    BY OpenFd DEF SfsInv
  <1> DEFINE size == din[f].size
             s == IF p > size THEN TruncFile(View(f), p) ELSE View(f)
             m == IF s.err = "none" THEN [fds EXCEPT ![d].pos = p] ELSE fds
  <1>1. p \in Nat /\ p <= MaxSize
    BY Sizes
  <1>2. Finish(f, s, m)
    BY <1>0 DEF Seek
  <1>3. \/ s.err \in Panics
        \/ /\ Ends(f, s)
           /\ \/ p > size /\ Resizes(View(f), s, p)
              \/ /\ s.err = "no_space" /\ s.ino.size = size /\ SameCells(View(f), s)
                 /\ Room(View(f)) < Ceil(p)
              \/ p <= size /\ s = View(f)
    <2>1. CASE p > size
      <3>1. s = TruncFile(View(f), p)
        BY <2>1
      <3> HIDE DEF s
      <3>2. \/ s.err \in Panics
            \/ /\ Ends(f, s)
               /\ \/ Resizes(View(f), s, p) /\ p <= Indirect * BlkSize
                  \/ /\ s.err = "no_space" /\ s.ino.size = din[f].size /\ SameCells(View(f), s)
                     /\ View(f).ino.blocks < Ceil(p) /\ Room(View(f)) < Ceil(p)
        BY <1>1, <2>1, <3>1, TruncEnds
      <3> QED BY <2>1, <3>2
    <2>2. CASE ~(p > size)
      <3>1. s = View(f)
        BY <2>2
      <3>2. p <= size
        BY <1>1, <2>2, ContentIs
      <3> HIDE DEF s
      <3> QED BY <3>1, <3>2, ViewEnds
    <2> QED BY <2>1, <2>2
  <1> HIDE DEF s
  <1>4. ASSUME /\ s.err \notin Panics /\ Became(f, s) /\ fds' = m
               /\ panic' = panic /\ Texts' = [Texts EXCEPT ![f] = Content(f)']
        PROVE  FlatStep
    <2>1. din'[f] = s.ino /\ Ends(f, s) /\ View(f).ino = din[f] /\ View(f).err = "none"
      BY <1>3, <1>4 DEF Became, View
    <2>2. size \in Nat /\ size <= MaxSize /\ Len(Texts[f]) = size /\ size <= Indirect * BlkSize
      BY ContentIs DEF Texts
    <2>3. ASSUME s.ino.size = size, SameCells(View(f), s) PROVE Texts' = Texts
      <3>1. \A i \in Indexes, c \in Cells : CellOf(f, i, c)' = CellOf(f, i, c)
        BY <1>4, <2>3, CellsBecome DEF SameCells
      <3>2. Content(f)' = Content(f)
        BY <2>1, <2>3, <3>1, SameContent
      <3> QED BY <1>4, <3>2 DEF Texts
    <2>4. CASE /\ s.err = "no_space" /\ s.ino.size = size /\ SameCells(View(f), s)
               /\ Room(View(f)) < Ceil(p)
      <3>1. f \in Short
        BY <1>1, <2>4, NoRoom
      <3>2. m = fds
        BY <2>4
      <3> QED BY <1>0, <1>4, <2>3, <2>4, <3>1, <3>2, CutShort
    <2>5. ASSUME fds' = [fds EXCEPT ![d].pos = p],
                 Texts' = [Texts EXCEPT ![f] = IF p > size THEN Flat!Overwrite(@, size, p - size, 0) ELSE @]
          PROVE  FlatStep
      <3>1. Flat!Seek(d, p)
        BY <1>0, <2>2, <2>5 DEF Flat!Seek, Texts
      <3>2. fds[d] # Flat!Closed
        BY DEF Closed, Flat!Closed
      <3>3. Flat!Operation
        BY <3>1, <3>2 DEF Flat!Operation
      <3> QED BY <1>4, <3>3, Operates
    <2>6. CASE p <= size /\ s = View(f)
      <3>1. Texts' = Texts /\ s.err = "none"
        BY <2>1, <2>3, <2>6 DEF SameCells
      <3>2. fds' = [fds EXCEPT ![d].pos = p]
        BY <1>4, <3>1
      <3>3. ~(p > size)
        BY <1>1, <2>2, <2>6
      <3>4. Texts = [Texts EXCEPT ![f] = Texts[f]]
        BY DEF Texts
      <3> HIDE DEF size
      <3> QED BY <2>5, <3>1, <3>2, <3>3, <3>4
    <2>7. CASE p > size /\ Resizes(View(f), s, p)
      <3>1. /\ s.err = "none" /\ s.ino.size = p
            /\ \A j \in Indexes, c \in Cells :
                 Cell(s, j, c) = IF j < Ceil(p) THEN Cell(View(f), j, c) ELSE 0
        BY <2>7 DEF Resizes
      <3> DEFINE n == p - size
      <3>2. n \in Nat /\ size + n = p
        BY <1>1, <2>2, <2>7
      <3>3. ASSUME NEW j \in Indexes, NEW c \in Cells
            PROVE  CellOf(f, j, c)' = IF size <= j * BlkSize + c /\ j * BlkSize + c < size + n
                                        THEN 0 ELSE CellOf(f, j, c)
        <4> DEFINE z == j * BlkSize + c
        <4>1. z \in Nat /\ j \in Nat
          BY ByteNumber
        <4>2. CellOf(f, j, c)' = IF j < Ceil(p) THEN CellOf(f, j, c) ELSE 0
          BY <1>4, <3>1, CellsBecome
        <4>3. size <= z => CellOf(f, j, c) = 0
          BY DEF SfsInv, ZerosOK
        <4>4. z < p => j < Ceil(p)
          BY <1>1, <4>1, CeilBelow
        <4>5. z < size => z < p
          BY <1>1, <2>2, <2>7, <4>1
        <4>6. size <= z \/ z < size
          BY <2>2, <4>1
        <4> HIDE DEF z, size, n
        <4> QED BY <4>2, <4>3, <4>4, <4>5, <4>6 DEF z
      <3>4. din'[f].size = IF size + n > size THEN size + n ELSE size
        BY <1>1, <2>1, <2>2, <2>7, <3>1, <3>2
      <3>5. Content(f)' = Flat!Overwrite(Content(f), size, n, 0)
        <4>1. size \in Nat /\ 0 \in Nat
          BY <2>2
        <4> HIDE DEF n
        <4> QED BY <3>2, <3>3, <3>4, <4>1, WrittenContent
      <3>6. Texts' = [Texts EXCEPT ![f] = Flat!Overwrite(Texts[f], size, n, 0)]
        BY <1>4, <3>5 DEF Texts
      <3>7. fds' = [fds EXCEPT ![d].pos = p]
        BY <1>4, <3>1
      <3> HIDE DEF size
      <3> QED BY <2>5, <2>7, <3>6, <3>7
    <2> QED BY <1>3, <1>4, <2>4, <2>6, <2>7
  <1> HIDE DEF size, m
  <1> QED BY <1>2, <1>3, <1>4, FlatEnd

\* The inode that the last descriptor leaves behind is the one that was in memory.
LEMMA CloseKeeps ==
  ASSUME SfsInv, NEW d \in Fds, fds[d] # Closed, Close(d)
  PROVE  din' = din /\ UNCHANGED <<free, data, panic>> /\ fds' = [fds EXCEPT ![d] = Closed]
  <1> DEFINE f == fds[d].file
  <1>1. /\ din \in [Files -> InodeType] /\ disk \in [Files -> InodeType] /\ f \in Files
        /\ (f \notin dirty => din[f] = disk[f])
    BY OpenFd DEF SfsInv, TypesOK, SavedOK, DirtyIfModified
  <1>2. ASSUME Evict(f) PROVE din' = din
    <2>1. /\ disk' = (IF f \in dirty THEN [disk EXCEPT ![f] = din[f]] ELSE disk)
          /\ din' = [din EXCEPT ![f] = disk'[f]]
      BY <1>2 DEF Evict
    <2> HIDE DEF f
    <2>2. disk'[f] = din[f]
      BY <1>1, <2>1
    <2> QED BY <1>1, <2>1, <2>2
  <1>3. Evict(f) \/ din' = din
    BY DEF Close
  <1> QED BY <1>2, <1>3 DEF Close

\* Every step is one that the promise allows, or none that it sees.
LEMMA NextFlat ==
  ASSUME SfsInv, SfsInv', [Next /\ DirtyIfModified']_vars
  PROVE  FlatStep
  <1>1. ASSUME UNCHANGED <<free, data, din, fds, panic>> PROVE FlatStep
    <2>1. Texts' = Texts
      BY <1>1, SameTexts
    <2>2. Short' = Short
      BY <1>1 DEF Short
    <2> QED BY <1>1, <2>1, <2>2 DEF FlatStep, Flat!vars, Texts
  <1>2. CASE UNCHANGED vars \/ Stopped
    BY <1>1, <1>2 DEF Stopped, vars
  <1>3. CASE Restart
    <2>1. din' = din /\ free' = free
      BY <1>3, RestartFinds
    <2> QED BY <1>1, <1>3, <2>1 DEF Restart
  <1>4. ASSUME NEW d \in Fds, Syscall(d), panic = "none" PROVE FlatStep
    <2>1. CASE \E f \in Files, acc \in AccModes, empty, append \in BOOLEAN : Open(d, f, acc, empty, append)
      BY <1>4, <2>1, OpenFlat
    <2>2. CASE fds[d] # Closed
      <3>a. fds[d] # Flat!Closed
        BY <2>2 DEF Closed, Flat!Closed
      <3>1. CASE Close(d)
        <4>1. UNCHANGED <<din, data, panic>> /\ fds' = [fds EXCEPT ![d] = Closed]
          BY <2>2, <3>1, CloseKeeps
        <4>2. Texts' = Texts
          BY <4>1, SameTexts
        <4>3. Flat!Close(d)
          BY <4>1, <4>2 DEF Flat!Close, Flat!Closed, Closed, Texts
        <4>4. Flat!Operation
          BY <3>a, <4>3 DEF Flat!Operation
        <4> QED BY <1>4, <4>1, <4>4, Operates
      <3>2. CASE \E e \in Fds : Dup(d, e)
        <4>1. PICK e \in Fds : Dup(d, e)
          BY <3>2
        <4>2. UNCHANGED <<din, data, panic>> /\ fds' = [fds EXCEPT ![e] = fds[d]] /\ fds[e] = Closed
          BY <4>1 DEF Dup
        <4>3. Texts' = Texts
          BY <4>2, SameTexts
        <4>4. Flat!Dup(d, e)
          BY <4>2, <4>3 DEF Flat!Dup, Flat!Closed, Closed, Texts
        <4>5. Flat!Operation
          BY <3>a, <4>4 DEF Flat!Operation
        <4> QED BY <1>4, <4>2, <4>5, Operates
      <3>3. CASE \E len \in 1..MaxLen : Read(d, len)
        BY <1>4, <2>2, <3>3, ReadFlat
      <3>4. CASE \E len \in 1..MaxLen, v \in Vals : Write(d, len, v)
        BY <1>4, <2>2, <3>4, WriteFlat
      <3>5. CASE \E p \in 0..MaxSize-1 : Seek(d, p)
        BY <1>4, <2>2, <3>5, SeekFlat
      <3>6. CASE Fsync(d)
        BY <1>1, <3>6 DEF Fsync
      <3> QED BY <1>4, <2>1, <2>2, <3>1, <3>2, <3>3, <3>4, <3>5, <3>6 DEF Syscall
    <2> QED BY <1>4, <2>1, <2>2 DEF Syscall
  <1> QED BY <1>2, <1>3, <1>4 DEF Next

\* A file that is empty.
LEMMA InitFlat == Init => Flat!Init
  <1> SUFFICES ASSUME Init PROVE Flat!Init
    OBVIOUS
  <1>1. SfsInv
    BY InitInv
  <1>2. ASSUME NEW f \in Files PROVE Content(f) = <<>>
    <2>1. din[f].size = 0
      BY DEF Init, EmptyInode
    <2>2. Content(f) = [j \in 1..0 |-> Byte(f, j - 1)] /\ Len(Content(f)) = 0
      BY <1>1, <2>1, ContentIs
    <2> QED BY <2>2
  <1>3. Short \subseteq Files
    BY DEF Short
  <1>4. fds = [d \in Fds |-> Flat!Closed] /\ panic = "none"
    BY DEF Init, Closed, Flat!Closed
  <1> QED BY <1>2, <1>3, <1>4 DEF Flat!Init

\* sfs_inode.c and file.c keep the promise that FlatFile states: files are sequences of bytes,
\* no write reaches another file or another part of the file, a file that grows is filled with
\* zeros, a call is cut short only for want of space, and closing, opening again and starting
\* the machine again lose nothing.
THEOREM FilesAreFlat == SpecMarked => ImplementsFlatFile
  <1>1. SfsInv /\ SfsInv' /\ [Next /\ DirtyIfModified']_vars => [Flat!Next]_Flat!vars
    BY NextFlat DEF FlatStep
  <1> QED BY <1>1, Kept, InitFlat, PTL DEF SpecMarked, ImplementsFlatFile, Flat!Spec
=============================================================================
