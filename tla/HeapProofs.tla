----------------------------- MODULE HeapProofs -----------------------------
(***************************************************************************)
(* What the kernel heap and the page allocator under it guarantee, for     *)
(* every size of the memory and of the requests: PagesExact, SlobExact and *)
(* the refinement of HeapAbs.                                              *)
(*                                                                         *)
(* FreeListOK speaks of places in the list of free pages.  The argument is *)
(* about pages: Blocks says of the set of free pages, and of the lengths   *)
(* they carry, that every page lies in one block, that the first page of a *)
(* block carries its length and the others 0, and that a block does not    *)
(* touch the next.  ListIsSet shows that the two agree for a list in       *)
(* ascending order.  Taking the front of a block (AllocBlocks) and giving  *)
(* back pages that are then joined with the block behind them (FreeNext)   *)
(* and with the one before (FreeBefore) preserve it; CutSeq and PasteSeq   *)
(* say what becomes of the list meanwhile.  AllocOK and FreeOK put both    *)
(* together.                                                               *)
(*                                                                         *)
(* The list of free small blocks is a circle.  ListIn says so without      *)
(* walking: every block is linked to the one with the next higher address, *)
(* the last one to the arena, and no block touches the next.  LinkNextOK,  *)
(* LinkBeforeOK and CutOK are the steps of slob_free and slob_alloc on it; *)
(* WalkOK and BeforeOK say that the two loops, wherever they start, come by*)
(* every block and find the place of an address.                           *)
(*                                                                         *)
(* HeapOK, the inductive invariant, relates both to those who own blocks.  *)
(* OwnedBy says that the pages taken directly and those in the list of big *)
(* blocks are held, once; SmallOK that free blocks and blocks in use make  *)
(* up the other held pages; NodesOK and LiveOK that a block in use belongs *)
(* to a node of the list of big blocks or to a caller.  Granted and Takes  *)
(* are what slob_alloc and alloc_pages make of it, in the middle of a      *)
(* kmalloc, whose node is in use before it is in the list.                 *)
(*                                                                         *)
(* Induction over places of a list or over pages takes the form of a       *)
(* smallest counterexample (Smallest).                                     *)
(***************************************************************************)
EXTENDS KHeap, FiniteSetTheorems, SequenceTheorems, TLAPS

-----------------------------------------------------------------------------
(* The page allocator. *)

\* Every set of numbers that is not empty has a smallest one.
LEMMA Smallest ==
  ASSUME NEW T, T \subseteq Nat, T # {}
  PROVE  \E x \in T : \A y \in T : x <= y
  <1>1. PICK x \in T : \A y \in T : ~(<<y, x>> \in OpToRel(<, Nat))
    BY NatLessThanWellFounded, WFMin
  <1>2. \A y \in T : ~(y < x)
    BY <1>1 DEF OpToRel
  <1> QED BY <1>2

-----------------------------------------------------------------------------
(* Free blocks in a list: D are their addresses, un and nx their lengths and links. *)

\* x comes after a in the circle of the addresses D.
Follows(D, a, x) ==
  \/ x = Arena /\ \A b \in D : b <= a
  \/ x \in D /\ a < x /\ \A b \in D : b <= a \/ x <= b

BlocksTyped(D, un, nx) ==
  /\ \A a \in D : a \in Nat /\ un[a] \in Nat \ {0} /\ nx[a] \in Nat
  /\ Arena \in D /\ un[Arena] = 1

\* There are gaps between the blocks, and the links are in the order of the addresses.
ListIn(D, un, nx) ==
  /\ BlocksTyped(D, un, nx)
  /\ \A a, d \in D : a < d => a + un[a] < d
  /\ \A a \in D : Follows(D, a, nx[a])

\* The same, but that block b may touch block c before it, to which it is not yet linked.
ListButIn(D, un, nx, c, b) ==
  /\ BlocksTyped(D, un, nx)
  /\ c \in D /\ b \in D /\ Arena < b /\ c < b /\ \A a \in D : a <= c \/ b <= a
  /\ c + un[c] <= b
  /\ \A a, d \in D : a < d /\ ~(a = c /\ d = b) => a + un[a] < d
  /\ \A a \in D \ {c} : Follows(D, a, nx[a])

\* The units of the blocks.
Room(a, n)    == a..(a + n - 1)
RoomOf(D, un) == UNION {Room(a, un[a]) : a \in D \ {Arena}}

\* Where a block b of n units may go: behind block c, with nothing in its way.
GapIn(D, un, c, b, n) ==
  /\ c \in D /\ b \in Nat /\ n \in Nat \ {0} /\ b \notin D
  /\ c < b /\ \A a \in D : a <= c \/ b < a
  /\ \A a \in D : /\ a < b => a + un[a] <= b
                  /\ b < a => b + n <= a

\* Block b is put behind block c: what becomes of the addresses, lengths and links.
PutAs(D, un, nx, c, b, n, E, vn, vx) ==
  /\ b + n # nx[c]
  /\ E = D \cup {b}
  /\ vn[b] = n
  /\ vx[b] = nx[c]
  /\ \A a \in D : vn[a] = un[a] /\ vx[a] = nx[a]

\* The same, when it touches the block that c is linked to.
JoinAfterAs(D, un, nx, c, b, n, E, vn, vx) ==
  /\ b + n = nx[c]
  /\ E = (D \ {nx[c]}) \cup {b}
  /\ vn[b] = n + un[nx[c]]
  /\ vx[b] = nx[nx[c]]
  /\ \A a \in D \ {nx[c]} : vn[a] = un[a] /\ vx[a] = nx[a]

\* Block c is linked to block b ...
LinkAs(D, un, nx, c, b, vn, vx) ==
  /\ c + un[c] # b
  /\ vn[c] = un[c]
  /\ vx[c] = b
  /\ \A a \in D \ {c} : vn[a] = un[a] /\ vx[a] = nx[a]

\* ... or, when they touch, joined with it.
JoinBeforeAs(D, un, nx, c, b, E, vn, vx) ==
  /\ c + un[c] = b
  /\ c # Arena
  /\ E = D \ {b}
  /\ vn[c] = un[c] + un[b]
  /\ vx[c] = nx[b]
  /\ \A a \in E \ {c} : vn[a] = un[a] /\ vx[a] = nx[a]

\* Block b, which comes after c, is taken out of the list ...
TakeAllAs(D, nx, c, b, E, vx) ==
  /\ c \in D /\ b = nx[c] /\ b # Arena
  /\ E = D \ {b}
  /\ vx[c] = nx[b]
  /\ \A a \in E \ {c} : vx[a] = nx[a]

\* ... or its first n units are.
TakeFrontAs(D, un, nx, c, b, n, E, vn, vx) ==
  /\ c \in D /\ b = nx[c] /\ b # Arena
  /\ n \in Nat \ {0} /\ n < un[b]
  /\ E = (D \ {b}) \cup {b + n}
  /\ vx[c] = b + n
  /\ vn[b + n] = un[b] - n
  /\ vx[b + n] = nx[b]
  /\ \A a \in D \ {b} : vn[a] = un[a] /\ (a # c => vx[a] = nx[a])

\* Along is the recursion that it is defined by.
LEMMA AlongLinks ==
  ASSUME NEW links, NEW x
  PROVE  /\ Along(links, x)[0] = x
         /\ \A k \in Nat : k # 0 => Along(links, x)[k] = links[Along(links, x)[k - 1]]
  <1> DEFINE along[k \in Nat] == IF k = 0 THEN x ELSE links[along[k - 1]]
  <1>1. along = [k \in Nat |-> IF k = 0 THEN x ELSE links[along[k - 1]]]
    OBVIOUS
  <1>2. Along(links, x) = along
    BY DEF Along
  <1> HIDE DEF along
  <1> QED BY <1>1, <1>2

\* What block c is linked to lies behind the gap.
LEMMA Behind ==
  ASSUME NEW D, NEW un, NEW nx, ListIn(D, un, nx), NEW c, NEW b, NEW n, GapIn(D, un, c, b, n)
  PROVE  \/ nx[c] = Arena /\ \A a \in D : a <= c
         \/ nx[c] \in D /\ b < nx[c] /\ b + n <= nx[c] /\ \A a \in D : a <= c \/ nx[c] <= a
  <1>1. c \in D /\ Follows(D, c, nx[c])
    BY DEF GapIn, ListIn
  <1>2. \A a \in D : a <= c \/ b < a
    BY DEF GapIn
  <1>3. \A a \in D : b < a => b + n <= a
    BY DEF GapIn
  <1>4. /\ \A a \in D : a \in Nat
        /\ b \in Nat /\ c \in Nat
    BY <1>1 DEF ListIn, BlocksTyped, GapIn
  <1>5. CASE nx[c] = Arena /\ \A a \in D : a <= c
    BY <1>5
  <1>6. CASE nx[c] \in D /\ c < nx[c] /\ \A a \in D : a <= c \/ nx[c] <= a
    <2> DEFINE x == nx[c]
    <2>1. x \in D /\ c < x /\ \A a \in D : a <= c \/ x <= a
      BY <1>6
    <2> HIDE DEF x
    <2>2. b < x
      BY <1>2, <1>4, <2>1
    <2> QED BY <1>3, <2>1, <2>2 DEF x
  <1> QED BY <1>1, <1>5, <1>6 DEF Follows

\* A block goes between two others.
LEMMA PutIn ==
  ASSUME NEW D, NEW un, NEW nx, ListIn(D, un, nx), NEW c, NEW b, NEW n, GapIn(D, un, c, b, n),
         NEW E, NEW vn, NEW vx, PutAs(D, un, nx, c, b, n, E, vn, vx)
  PROVE  ListButIn(E, vn, vx, c, b) /\ RoomOf(E, vn) = RoomOf(D, un) \cup Room(b, n)
  <1> SUFFICES ASSUME b + n # nx[c],
                      E = D \cup {b},
                      vn[b] = n,
                      vx[b] = nx[c],
                      \A a \in D : vn[a] = un[a] /\ vx[a] = nx[a]
               PROVE  ListButIn(E, vn, vx, c, b) /\ RoomOf(E, vn) = RoomOf(D, un) \cup Room(b, n)
    BY DEF PutAs
  <1> DEFINE next == nx[c]
  <1>1. /\ Arena \in D /\ un[Arena] = 1 /\ Arena = 0
        /\ \A a \in D : a \in Nat /\ un[a] \in Nat \ {0} /\ nx[a] \in Nat
    BY DEF ListIn, BlocksTyped, Arena
  <1>2. \A a \in D : a \in Nat
    BY <1>1
  <1>3. \A a, d \in D : a < d => a + un[a] < d
    BY DEF ListIn
  <1>4. \A a \in D : Follows(D, a, nx[a])
    BY DEF ListIn
  <1>5. c \in D /\ c \in Nat /\ b \in Nat /\ c < b /\ b \notin D
    BY <1>2 DEF GapIn
  <1>6. \A a \in D : a <= c \/ b < a
    BY DEF GapIn
  <1>7. \A a \in D : /\ a < b => a + un[a] <= b
                     /\ b < a => b + n <= a
    BY DEF GapIn
  <1>8. n \in Nat \ {0} /\ next \in Nat
    BY <1>1, <1>5 DEF GapIn
  <1>9. \/ next = Arena /\ \A a \in D : a <= c
        \/ next \in D /\ b < next /\ b + n <= next /\ \A a \in D : a <= c \/ next <= a
    BY Behind
  <1>10. b + n # next /\ vx[b] = next /\ vn[b] = n
    OBVIOUS
  <1>11. \A a \in E : a = b \/ a \in D
    OBVIOUS
  <1> HIDE DEF next
  <1>12. BlocksTyped(E, vn, vx)
    BY <1>1, <1>5, <1>8, <1>10 DEF BlocksTyped
  <1>13. Arena < b /\ \A a \in E : a <= c \/ b <= a
    BY <1>1, <1>5, <1>6, <1>11
  <1>14. ASSUME NEW a \in E, NEW d \in E, a < d, ~(a = c /\ d = b) PROVE a + vn[a] < d
    <2>1. CASE a = b
      <3>1. d \in D /\ b < d /\ d \in Nat
        BY <1>2, <1>5, <1>11, <1>14, <2>1
      <3>2. b + n <= next /\ next <= d
        BY <1>2, <1>5, <1>9, <3>1
      <3> QED BY <1>5, <1>8, <1>10, <2>1, <3>1, <3>2
    <2>2. CASE a # b /\ d = b
      <3>1. a \in D /\ a < b /\ a \in Nat /\ un[a] \in Nat
        BY <1>1, <1>11, <1>14, <2>2
      <3>2. a < c
        BY <1>5, <1>6, <1>14, <2>2, <3>1
      <3>3. a + un[a] < c
        BY <1>3, <1>5, <3>1, <3>2
      <3> QED BY <1>5, <2>2, <3>1, <3>3
    <2>3. CASE a # b /\ d # b
      BY <1>3, <1>11, <1>14, <2>3
    <2> QED BY <2>1, <2>2, <2>3
  <1>15. ASSUME NEW a \in E, a # c PROVE Follows(E, a, vx[a])
    <2>1. CASE a = b
      <3>1. CASE next = Arena /\ \A d \in D : d <= c
        <4>1. ASSUME NEW d \in E PROVE d <= b
          BY <1>2, <1>5, <1>11, <3>1
        <4> QED BY <1>10, <2>1, <3>1, <4>1 DEF Follows
      <3>2. CASE next \in D /\ b < next /\ \A d \in D : d <= c \/ next <= d
        <4>1. ASSUME NEW d \in E PROVE d <= b \/ next <= d
          BY <1>2, <1>5, <1>11, <3>2
        <4> QED BY <1>10, <2>1, <3>2, <4>1 DEF Follows
      <3> QED BY <1>9, <3>1, <3>2
    <2>2. CASE a # b
      <3>1. a \in D /\ vx[a] = nx[a] /\ Follows(D, a, nx[a]) /\ a \in Nat
        BY <1>2, <1>4, <1>11, <2>2
      <3>2. a < c \/ b < a
        BY <1>5, <1>6, <1>15, <3>1
      <3>3. CASE nx[a] = Arena /\ \A d \in D : d <= a
        <4>1. b < a
          BY <1>5, <3>1, <3>2, <3>3
        <4>2. ASSUME NEW d \in E PROVE d <= a
          BY <1>5, <1>11, <3>1, <3>3, <4>1
        <4> QED BY <3>1, <3>3, <4>2 DEF Follows
      <3>4. CASE nx[a] \in D /\ a < nx[a] /\ \A d \in D : d <= a \/ nx[a] <= d
        <4>1. nx[a] \in Nat
          BY <1>2, <3>4
        <4>2. b <= a \/ nx[a] <= b
          BY <1>5, <3>1, <3>2, <3>4, <4>1
        <4>3. ASSUME NEW d \in E PROVE d <= a \/ nx[a] <= d
          BY <1>11, <3>4, <4>2
        <4> QED BY <3>1, <3>4, <4>3 DEF Follows
      <3> QED BY <3>1, <3>3, <3>4 DEF Follows
    <2> QED BY <2>1, <2>2
  <1>16. c + vn[c] <= b
    BY <1>5, <1>7
  <1>17. RoomOf(E, vn) = RoomOf(D, un) \cup Room(b, n)
    <2>1. b # Arena
      BY <1>1, <1>5
    <2>2. ASSUME NEW x \in RoomOf(E, vn) PROVE x \in RoomOf(D, un) \cup Room(b, n)
      <3>1. PICK a \in E \ {Arena} : x \in Room(a, vn[a])
        BY <2>2 DEF RoomOf
      <3> QED BY <1>10, <1>11, <3>1 DEF RoomOf
    <2>3. ASSUME NEW x \in RoomOf(D, un) PROVE x \in RoomOf(E, vn)
      <3>1. PICK a \in D \ {Arena} : x \in Room(a, un[a])
        BY <2>3 DEF RoomOf
      <3> QED BY <3>1 DEF RoomOf
    <2>4. ASSUME NEW x \in Room(b, n) PROVE x \in RoomOf(E, vn)
      BY <1>10, <2>1, <2>4 DEF RoomOf
    <2> QED BY <2>2, <2>3, <2>4
  <1> QED BY <1>5, <1>12, <1>13, <1>14, <1>15, <1>16, <1>17 DEF ListButIn

\* A block goes between two others and is joined with the one behind it.
LEMMA JoinAfterIn ==
  ASSUME NEW D, NEW un, NEW nx, ListIn(D, un, nx), NEW c, NEW b, NEW n, GapIn(D, un, c, b, n),
         NEW E, NEW vn, NEW vx, JoinAfterAs(D, un, nx, c, b, n, E, vn, vx)
  PROVE  ListButIn(E, vn, vx, c, b) /\ RoomOf(E, vn) = RoomOf(D, un) \cup Room(b, n)
  <1> SUFFICES ASSUME b + n = nx[c],
                      E = (D \ {nx[c]}) \cup {b},
                      vn[b] = n + un[nx[c]],
                      vx[b] = nx[nx[c]],
                      \A a \in D \ {nx[c]} : vn[a] = un[a] /\ vx[a] = nx[a]
               PROVE  ListButIn(E, vn, vx, c, b) /\ RoomOf(E, vn) = RoomOf(D, un) \cup Room(b, n)
    BY DEF JoinAfterAs
  <1> DEFINE next == nx[c]
             m    == un[next]
             far  == nx[next]
  <1>1. /\ Arena \in D /\ un[Arena] = 1 /\ Arena = 0
        /\ \A a \in D : a \in Nat /\ un[a] \in Nat \ {0} /\ nx[a] \in Nat
    BY DEF ListIn, BlocksTyped, Arena
  <1>2. \A a \in D : a \in Nat
    BY <1>1
  <1>3. \A a, d \in D : a < d => a + un[a] < d
    BY DEF ListIn
  <1>4. \A a \in D : Follows(D, a, nx[a])
    BY DEF ListIn
  <1>5. c \in D /\ c \in Nat /\ b \in Nat /\ c < b /\ b \notin D
    BY <1>2 DEF GapIn
  <1>6. \A a \in D : a <= c \/ b < a
    BY DEF GapIn
  <1>7. \A a \in D : a < b => a + un[a] <= b
    BY DEF GapIn
  <1>8. n \in Nat \ {0} /\ b + n = next
    BY <1>1, <1>5 DEF GapIn
  <1>9. next \in D /\ next \in Nat /\ next # Arena /\ \A a \in D : a <= c \/ next <= a
    <2>1. \/ next = Arena
          \/ next \in D /\ \A a \in D : a <= c \/ next <= a
      BY Behind
    <2> HIDE DEF next
    <2>2. next # Arena
      BY <1>1, <1>5, <1>8
    <2> QED BY <1>2, <2>1, <2>2
  <1>10. m \in Nat \ {0} /\ far \in Nat /\ Follows(D, next, far)
    BY <1>1, <1>4, <1>9
  <1>11. vx[b] = far /\ vn[b] = n + m /\ \A a \in D \ {next} : vn[a] = un[a] /\ vx[a] = nx[a]
    OBVIOUS
  <1>12. /\ \A a \in E : a = b \/ (a \in D /\ a # next)
         /\ \A a \in D : a # next => a \in E
         /\ b \in E
    OBVIOUS
  <1>13. next + m = next + un[next]
    OBVIOUS
  <1>14. ASSUME NEW d \in D, next < d PROVE next + m < d
    BY <1>3, <1>9, <1>14
  <1> HIDE DEF next, m, far
  <1>15. c # next /\ Arena # next
    BY <1>5, <1>8, <1>9
  <1>16. BlocksTyped(E, vn, vx)
    <2>1. Arena \in E /\ vn[Arena] = 1
      BY <1>1, <1>11, <1>12, <1>15
    <2>2. n + m \in Nat \ {0}
      BY <1>8, <1>10
    <2>3. ASSUME NEW a \in E PROVE a \in Nat /\ vn[a] \in Nat \ {0} /\ vx[a] \in Nat
      BY <1>1, <1>5, <1>8, <1>10, <1>11, <1>12, <2>2
    <2> QED BY <2>1, <2>3 DEF BlocksTyped
  <1>17. Arena < b /\ \A a \in E : a <= c \/ b <= a
    BY <1>1, <1>5, <1>6, <1>12
  <1>18. ASSUME NEW a \in E, NEW d \in E, a < d, ~(a = c /\ d = b) PROVE a + vn[a] < d
    <2>1. CASE a = b
      <3>1. d \in D /\ b < d /\ d \in Nat /\ d # next
        BY <1>2, <1>5, <1>12, <1>18, <2>1
      <3>2. next < d
        BY <1>5, <1>9, <3>1
      <3>3. next + m < d
        BY <1>14, <3>1, <3>2
      <3> QED BY <1>5, <1>8, <1>10, <1>11, <2>1, <3>1, <3>3
    <2>2. CASE a # b /\ d = b
      <3>1. a \in D /\ a < b /\ a \in Nat /\ un[a] \in Nat /\ vn[a] = un[a]
        BY <1>1, <1>11, <1>12, <1>18, <2>2
      <3>2. a < c
        BY <1>5, <1>6, <1>18, <2>2, <3>1
      <3>3. a + un[a] < c
        BY <1>3, <1>5, <3>1, <3>2
      <3> QED BY <1>5, <2>2, <3>1, <3>3
    <2>3. CASE a # b /\ d # b
      BY <1>3, <1>11, <1>12, <1>18, <2>3
    <2> QED BY <2>1, <2>2, <2>3
  <1>19. ASSUME NEW a \in E, a # c PROVE Follows(E, a, vx[a])
    <2>1. CASE a = b
      <3>1. CASE far = Arena /\ \A d \in D : d <= next
        <4>1. ASSUME NEW d \in E PROVE d <= b
          BY <1>2, <1>5, <1>9, <1>12, <3>1
        <4> QED BY <1>11, <2>1, <3>1, <4>1 DEF Follows
      <3>2. CASE far \in D /\ next < far /\ \A d \in D : d <= next \/ far <= d
        <4>1. far \in E /\ b < far
          BY <1>5, <1>8, <1>9, <1>10, <1>12, <3>2
        <4>2. ASSUME NEW d \in E PROVE d <= b \/ far <= d
          BY <1>2, <1>5, <1>9, <1>10, <1>12, <3>2
        <4> QED BY <1>11, <2>1, <4>1, <4>2 DEF Follows
      <3> QED BY <1>10, <3>1, <3>2 DEF Follows
    <2>2. CASE a # b
      <3>1. a \in D /\ a # next /\ vx[a] = nx[a] /\ Follows(D, a, nx[a]) /\ a \in Nat
        BY <1>2, <1>4, <1>11, <1>12, <2>2
      <3>2. a < c \/ (b < a /\ next < a)
        BY <1>5, <1>6, <1>9, <1>19, <3>1
      <3>3. CASE nx[a] = Arena /\ \A d \in D : d <= a
        <4>1. b < a
          BY <1>5, <3>1, <3>2, <3>3
        <4>2. ASSUME NEW d \in E PROVE d <= a
          BY <1>5, <1>12, <3>1, <3>3, <4>1
        <4> QED BY <3>1, <3>3, <4>2 DEF Follows
      <3>4. CASE nx[a] \in D /\ a < nx[a] /\ \A d \in D : d <= a \/ nx[a] <= d
        <4> DEFINE y == nx[a]
        <4>1. y \in Nat /\ y \in D /\ a < y /\ \A d \in D : d <= a \/ y <= d
          BY <1>2, <3>4
        <4>0. vx[a] = y
          BY <3>1
        <4> HIDE DEF y
        <4>2. b <= a \/ y <= b
          BY <1>5, <3>1, <3>2, <4>1
        <4>3. y # next
          BY <1>5, <1>8, <1>9, <3>1, <3>2, <4>1
        <4>4. ASSUME NEW d \in E PROVE d <= a \/ y <= d
          BY <1>12, <4>1, <4>2
        <4> QED BY <1>12, <4>0, <4>1, <4>3, <4>4 DEF Follows
      <3> QED BY <3>1, <3>3, <3>4 DEF Follows
    <2> QED BY <2>1, <2>2
  <1>20. c + vn[c] <= b /\ c \in E
    BY <1>5, <1>7, <1>11, <1>12, <1>15
  <1>21. RoomOf(E, vn) = RoomOf(D, un) \cup Room(b, n)
    <2>1. b # Arena
      BY <1>1, <1>5
    <2>2. Room(b, vn[b]) = Room(b, n) \cup Room(next, un[next])
      <3>1. Room(b, n + m) = Room(b, n) \cup Room(next, m)
        BY <1>5, <1>8, <1>9, <1>10 DEF Room
      <3> QED BY <1>11, <3>1 DEF m
    <2>3. ASSUME NEW x \in RoomOf(E, vn) PROVE x \in RoomOf(D, un) \cup Room(b, n)
      <3>1. PICK a \in E \ {Arena} : x \in Room(a, vn[a])
        BY <2>3 DEF RoomOf
      <3>2. CASE a = b
        BY <1>9, <2>2, <3>1, <3>2 DEF RoomOf
      <3>3. CASE a # b
        BY <1>11, <1>12, <3>1, <3>3 DEF RoomOf
      <3> QED BY <3>2, <3>3
    <2>4. ASSUME NEW x \in RoomOf(D, un) PROVE x \in RoomOf(E, vn)
      <3>1. PICK a \in D \ {Arena} : x \in Room(a, un[a])
        BY <2>4 DEF RoomOf
      <3>2. CASE a = next
        BY <1>12, <2>1, <2>2, <3>1, <3>2 DEF RoomOf
      <3>3. CASE a # next
        BY <1>11, <1>12, <3>1, <3>3 DEF RoomOf
      <3> QED BY <3>2, <3>3
    <2>5. ASSUME NEW x \in Room(b, n) PROVE x \in RoomOf(E, vn)
      BY <1>12, <2>1, <2>2, <2>5 DEF RoomOf
    <2> QED BY <2>3, <2>4, <2>5
  <1> QED BY <1>5, <1>12, <1>16, <1>17, <1>18, <1>19, <1>20, <1>21 DEF ListButIn

\* The block before is linked to a block that it does not touch.
LEMMA LinkIn ==
  ASSUME NEW D, NEW un, NEW nx, NEW c, NEW b, ListButIn(D, un, nx, c, b),
         NEW vn, NEW vx, LinkAs(D, un, nx, c, b, vn, vx)
  PROVE  ListIn(D, vn, vx) /\ RoomOf(D, vn) = RoomOf(D, un)
  <1> SUFFICES ASSUME c + un[c] # b,
                      vn[c] = un[c],
                      vx[c] = b,
                      \A a \in D \ {c} : vn[a] = un[a] /\ vx[a] = nx[a]
               PROVE  ListIn(D, vn, vx) /\ RoomOf(D, vn) = RoomOf(D, un)
    BY DEF LinkAs
  <1>1. /\ Arena \in D /\ un[Arena] = 1
        /\ \A a \in D : a \in Nat /\ un[a] \in Nat \ {0} /\ nx[a] \in Nat
    BY DEF ListButIn, BlocksTyped
  <1>2. c \in D /\ b \in D /\ c < b /\ c + un[c] <= b
    BY DEF ListButIn
  <1>3. \A a \in D : a <= c \/ b <= a
    BY DEF ListButIn
  <1>4. \A a, d \in D : a < d /\ ~(a = c /\ d = b) => a + un[a] < d
    BY DEF ListButIn
  <1>5. \A a \in D : vn[a] = un[a]
    OBVIOUS
  <1>6. \A a \in D : a # c => vx[a] = nx[a] /\ Follows(D, a, nx[a])
    BY DEF ListButIn
  <1>7. vx[c] = b
    OBVIOUS
  <1>8. b \in Nat
    BY <1>1, <1>2
  <1>9. BlocksTyped(D, vn, vx)
    BY <1>1, <1>5, <1>6, <1>7, <1>8 DEF BlocksTyped
  <1>10. ASSUME NEW a \in D, NEW d \in D, a < d PROVE a + vn[a] < d
    <2>1. CASE a = c /\ d = b
      <3>1. c \in Nat /\ b \in Nat /\ un[c] \in Nat /\ c + un[c] # b
        BY <1>1, <1>2
      <3> QED BY <1>2, <1>5, <2>1, <3>1
    <2>2. CASE ~(a = c /\ d = b)
      BY <1>4, <1>5, <1>10, <2>2
    <2> QED BY <2>1, <2>2
  <1>11. ASSUME NEW a \in D PROVE Follows(D, a, vx[a])
    <2>1. CASE a = c
      BY <1>2, <1>3, <1>7, <2>1 DEF Follows
    <2>2. CASE a # c
      BY <1>6, <2>2
    <2> QED BY <2>1, <2>2
  <1>12. RoomOf(D, vn) = RoomOf(D, un)
    BY <1>5 DEF RoomOf
  <1> QED BY <1>9, <1>10, <1>11, <1>12 DEF ListIn

\* ... or joined with a block that it touches.
LEMMA JoinBeforeIn ==
  ASSUME NEW D, NEW un, NEW nx, NEW c, NEW b, ListButIn(D, un, nx, c, b),
         NEW E, NEW vn, NEW vx, JoinBeforeAs(D, un, nx, c, b, E, vn, vx)
  PROVE  ListIn(E, vn, vx) /\ RoomOf(E, vn) = RoomOf(D, un)
  <1> SUFFICES ASSUME c + un[c] = b,
                      c # Arena,
                      E = D \ {b},
                      vn[c] = un[c] + un[b],
                      vx[c] = nx[b],
                      \A a \in E \ {c} : vn[a] = un[a] /\ vx[a] = nx[a]
               PROVE  ListIn(E, vn, vx) /\ RoomOf(E, vn) = RoomOf(D, un)
    BY DEF JoinBeforeAs
  <1> DEFINE k == un[c]
             m == un[b]
             y == nx[b]
  <1>1. /\ Arena \in D /\ un[Arena] = 1
        /\ \A a \in D : a \in Nat /\ un[a] \in Nat \ {0} /\ nx[a] \in Nat
    BY DEF ListButIn, BlocksTyped
  <1>2. c \in D /\ b \in D /\ c < b /\ Arena < b /\ c \in Nat /\ b \in Nat
    BY <1>1 DEF ListButIn
  <1>3. \A a \in D : a <= c \/ b <= a
    BY DEF ListButIn
  <1>4. \A a, d \in D : a < d /\ ~(a = c /\ d = b) => a + un[a] < d
    BY DEF ListButIn
  <1>5. \A a \in D : a # c => Follows(D, a, nx[a])
    BY DEF ListButIn
  <1>6. vn[c] = k + m /\ vx[c] = y /\ c + k = b
    OBVIOUS
  <1>7. k \in Nat \ {0} /\ m \in Nat \ {0} /\ y \in Nat
    BY <1>1, <1>2
  <1>8. \A a \in E : a # c => vn[a] = un[a] /\ vx[a] = nx[a]
    OBVIOUS
  <1>9. \A a : a \in E <=> a \in D /\ a # b
    OBVIOUS
  <1>10. Arena # b /\ Arena \in Nat
    BY <1>1, <1>2
  <1>11. \A a \in D : a \in Nat
    BY <1>1
  <1>12. Follows(D, b, y)
    BY <1>2, <1>5
  <1>13. ASSUME NEW d \in D, b < d PROVE b + m < d
    BY <1>2, <1>4, <1>13
  <1> HIDE DEF k, m, y
  <1>14. BlocksTyped(E, vn, vx)
    <2>1. Arena \in E /\ vn[Arena] = 1
      BY <1>1, <1>8, <1>9, <1>10
    <2>2. k + m \in Nat \ {0}
      BY <1>7
    <2>3. ASSUME NEW a \in E PROVE a \in Nat /\ vn[a] \in Nat \ {0} /\ vx[a] \in Nat
      BY <1>1, <1>6, <1>7, <1>8, <1>9, <2>2
    <2> QED BY <2>1, <2>3 DEF BlocksTyped
  <1>15. ASSUME NEW a \in E, NEW d \in E, a < d PROVE a + vn[a] < d
    <2>0. a \in D /\ d \in D /\ d # b /\ a # b /\ d \in Nat
      BY <1>9, <1>11
    <2>1. CASE a = c
      <3>1. b < d
        BY <1>2, <1>3, <1>15, <2>0, <2>1
      <3>2. b + m < d
        BY <1>13, <2>0, <3>1
      <3> QED BY <1>2, <1>6, <1>7, <2>0, <2>1, <3>2
    <2>2. CASE a # c
      BY <1>4, <1>8, <1>15, <2>0, <2>2
    <2> QED BY <2>1, <2>2
  <1>16. ASSUME NEW a \in E PROVE Follows(E, a, vx[a])
    <2>1. CASE a = c
      <3>1. CASE y = Arena /\ \A d \in D : d <= b
        <4>1. ASSUME NEW d \in E PROVE d <= c
          BY <1>2, <1>3, <1>9, <1>11, <3>1
        <4> QED BY <1>6, <2>1, <3>1, <4>1 DEF Follows
      <3>2. CASE y \in D /\ b < y /\ \A d \in D : d <= b \/ y <= d
        <4>1. y \in E /\ c < y
          BY <1>2, <1>7, <1>9, <3>2
        <4>2. ASSUME NEW d \in E PROVE d <= c \/ y <= d
          BY <1>2, <1>3, <1>7, <1>9, <1>11, <3>2
        <4> QED BY <1>6, <2>1, <4>1, <4>2 DEF Follows
      <3> QED BY <1>12, <3>1, <3>2 DEF Follows
    <2>2. CASE a # c
      <3> DEFINE z == nx[a]
      <3>1. a \in D /\ a # b /\ vx[a] = z /\ Follows(D, a, z) /\ a \in Nat
        BY <1>5, <1>8, <1>9, <1>11, <2>2
      <3> HIDE DEF z
      <3>2. CASE z = Arena /\ \A d \in D : d <= a
        BY <1>9, <3>1, <3>2 DEF Follows
      <3>3. CASE z \in D /\ a < z /\ \A d \in D : d <= a \/ z <= d
        <4>0. z \in Nat
          BY <1>11, <3>3
        <4>1. z # b
          <5>1. a <= c \/ b <= a
            BY <1>3, <3>1
          <5>2. c <= a \/ z <= c
            BY <1>2, <3>3
          <5> QED BY <1>2, <2>2, <3>1, <3>3, <4>0, <5>1, <5>2
        <4> QED BY <1>9, <3>1, <3>3, <4>1 DEF Follows
      <3> QED BY <3>1, <3>2, <3>3 DEF Follows
    <2> QED BY <2>1, <2>2
  <1>17. RoomOf(E, vn) = RoomOf(D, un)
    <2>1. Room(c, vn[c]) = Room(c, un[c]) \cup Room(b, un[b])
      <3>1. Room(c, k + m) = Room(c, k) \cup Room(b, m)
        BY <1>2, <1>6, <1>7 DEF Room
      <3> QED BY <1>6, <3>1 DEF k, m
    <2>2. c \in E /\ c # Arena
      BY <1>2, <1>9
    <2>3. ASSUME NEW x \in RoomOf(E, vn) PROVE x \in RoomOf(D, un)
      <3>1. PICK a \in E \ {Arena} : x \in Room(a, vn[a])
        BY <2>3 DEF RoomOf
      <3>2. CASE a = c
        BY <1>2, <1>10, <2>1, <2>2, <3>1, <3>2 DEF RoomOf
      <3>3. CASE a # c
        BY <1>8, <1>9, <3>1, <3>3 DEF RoomOf
      <3> QED BY <3>2, <3>3
    <2>4. ASSUME NEW x \in RoomOf(D, un) PROVE x \in RoomOf(E, vn)
      <3>1. PICK a \in D \ {Arena} : x \in Room(a, un[a])
        BY <2>4 DEF RoomOf
      <3>2. CASE a = c \/ a = b
        BY <2>1, <2>2, <3>1, <3>2 DEF RoomOf
      <3>3. CASE a # c /\ a # b
        BY <1>8, <1>9, <3>1, <3>3 DEF RoomOf
      <3> QED BY <3>2, <3>3
    <2> QED BY <2>3, <2>4
  <1> QED BY <1>14, <1>15, <1>16, <1>17 DEF ListIn

\* A block is taken out of the list as a whole.
LEMMA TakeAllIn ==
  ASSUME NEW D, NEW un, NEW nx, ListIn(D, un, nx), NEW c, NEW b,
         NEW E, NEW vx, TakeAllAs(D, nx, c, b, E, vx)
  PROVE  /\ ListIn(E, un, vx) /\ c \in E
         /\ RoomOf(E, un) = RoomOf(D, un) \ Room(b, un[b]) /\ Room(b, un[b]) \subseteq RoomOf(D, un)
  <1> SUFFICES ASSUME c \in D, b = nx[c], b # Arena,
                      E = D \ {b},
                      vx[c] = nx[b],
                      \A a \in E \ {c} : vx[a] = nx[a]
               PROVE  /\ ListIn(E, un, vx) /\ c \in E
                 /\ RoomOf(E, un) = RoomOf(D, un) \ Room(b, un[b]) /\ Room(b, un[b]) \subseteq RoomOf(D, un)
    BY DEF TakeAllAs
  <1> DEFINE m == un[b]
             y == nx[b]
  <1>1. /\ Arena \in D /\ un[Arena] = 1
        /\ \A a \in D : a \in Nat /\ un[a] \in Nat \ {0} /\ nx[a] \in Nat
    BY DEF ListIn, BlocksTyped
  <1>2. \A a \in D : a \in Nat
    BY <1>1
  <1>3. c \in D /\ c \in Nat /\ b \in D /\ b \in Nat /\ c < b /\ \A a \in D : a <= c \/ b <= a
    <2>1. Follows(D, c, b)
      BY DEF ListIn
    <2> QED BY <1>2, <2>1 DEF Follows
  <1>4. \A a, d \in D : a < d => a + un[a] < d
    BY DEF ListIn
  <1>5. \A a \in D : Follows(D, a, nx[a])
    BY DEF ListIn
  <1>6. \A a : a \in E <=> a \in D /\ a # b
    OBVIOUS
  <1>7. vx[c] = y /\ \A a \in E : a # c => vx[a] = nx[a]
    OBVIOUS
  <1>8. y \in Nat /\ m \in Nat \ {0} /\ Follows(D, b, y)
    BY <1>1, <1>3, <1>5
  <1> HIDE DEF m, y
  <1>9. BlocksTyped(E, un, vx)
    <2>1. Arena \in E
      BY <1>1, <1>6
    <2> QED BY <1>1, <1>6, <1>7, <1>8, <2>1 DEF BlocksTyped
  <1>10. \A a, d \in E : a < d => a + un[a] < d
    BY <1>4, <1>6
  <1>11. ASSUME NEW a \in E PROVE Follows(E, a, vx[a])
    <2>1. CASE a = c
      <3>1. CASE y = Arena /\ \A d \in D : d <= b
        <4>1. ASSUME NEW d \in E PROVE d <= c
          BY <1>2, <1>3, <1>6, <3>1
        <4> QED BY <1>7, <2>1, <3>1, <4>1 DEF Follows
      <3>2. CASE y \in D /\ b < y /\ \A d \in D : d <= b \/ y <= d
        <4>1. y \in E /\ c < y
          BY <1>3, <1>6, <1>8, <3>2
        <4>2. ASSUME NEW d \in E PROVE d <= c \/ y <= d
          BY <1>2, <1>3, <1>6, <1>8, <3>2
        <4> QED BY <1>7, <2>1, <4>1, <4>2 DEF Follows
      <3> QED BY <1>8, <3>1, <3>2 DEF Follows
    <2>2. CASE a # c
      <3> DEFINE z == nx[a]
      <3>1. a \in D /\ a # b /\ vx[a] = z /\ Follows(D, a, z) /\ a \in Nat
        BY <1>2, <1>5, <1>6, <1>7, <2>2
      <3> HIDE DEF z
      <3>2. CASE z = Arena /\ \A d \in D : d <= a
        BY <1>6, <3>1, <3>2 DEF Follows
      <3>3. CASE z \in D /\ a < z /\ \A d \in D : d <= a \/ z <= d
        <4>0. z \in Nat
          BY <1>2, <3>3
        <4>1. z # b
          <5>1. a <= c \/ b <= a
            BY <1>3, <3>1
          <5>2. c <= a \/ z <= c
            BY <1>3, <3>3
          <5> QED BY <1>3, <2>2, <3>1, <3>3, <4>0, <5>1, <5>2
        <4> QED BY <1>6, <3>1, <3>3, <4>1 DEF Follows
      <3> QED BY <3>1, <3>2, <3>3 DEF Follows
    <2> QED BY <2>1, <2>2
  <1>12. \A a \in D : a # b => Room(a, un[a]) \cap Room(b, un[b]) = {}
    <2> SUFFICES ASSUME NEW a \in D, a # b, NEW x \in Room(a, un[a]), x \in Room(b, un[b])
                 PROVE FALSE
      OBVIOUS
    <2>1. a \in Nat /\ un[a] \in Nat /\ un[b] \in Nat
      BY <1>1, <1>3
    <2>2. a < b => a + un[a] < b
      BY <1>3, <1>4
    <2>3. b < a => b + un[b] < a
      BY <1>3, <1>4
    <2> QED BY <1>3, <2>1, <2>2, <2>3 DEF Room
  <1>13. RoomOf(E, un) = RoomOf(D, un) \ Room(b, un[b]) /\ Room(b, un[b]) \subseteq RoomOf(D, un)
    <2>1. ASSUME NEW x \in RoomOf(E, un) PROVE x \in RoomOf(D, un) /\ x \notin Room(b, un[b])
      <3>1. PICK a \in E \ {Arena} : x \in Room(a, un[a])
        BY <2>1 DEF RoomOf
      <3> QED BY <1>6, <1>12, <3>1 DEF RoomOf
    <2>2. ASSUME NEW x \in RoomOf(D, un), x \notin Room(b, un[b]) PROVE x \in RoomOf(E, un)
      <3>1. PICK a \in D \ {Arena} : x \in Room(a, un[a])
        BY <2>2 DEF RoomOf
      <3> QED BY <1>6, <2>2, <3>1 DEF RoomOf
    <2>3. Room(b, un[b]) \subseteq RoomOf(D, un)
      BY <1>3 DEF RoomOf
    <2> QED BY <2>1, <2>2, <2>3
  <1>14. c \in E
    BY <1>3, <1>6
  <1> QED BY <1>9, <1>10, <1>11, <1>13, <1>14 DEF ListIn

\* The front of a block is taken, and the rest stays in its place.
LEMMA TakeFrontIn ==
  ASSUME NEW D, NEW un, NEW nx, ListIn(D, un, nx), NEW c, NEW b, NEW n,
         NEW E, NEW vn, NEW vx, TakeFrontAs(D, un, nx, c, b, n, E, vn, vx)
  PROVE  /\ ListIn(E, vn, vx) /\ c \in E
         /\ RoomOf(E, vn) = RoomOf(D, un) \ Room(b, n) /\ Room(b, n) \subseteq RoomOf(D, un)
  <1> SUFFICES ASSUME c \in D, b = nx[c], b # Arena, n \in Nat \ {0}, n < un[b],
                      E = (D \ {b}) \cup {b + n},
                      vx[c] = b + n,
                      vn[b + n] = un[b] - n,
                      vx[b + n] = nx[b],
                      \A a \in D \ {b} : vn[a] = un[a] /\ (a # c => vx[a] = nx[a])
               PROVE  /\ ListIn(E, vn, vx) /\ c \in E
                 /\ RoomOf(E, vn) = RoomOf(D, un) \ Room(b, n) /\ Room(b, n) \subseteq RoomOf(D, un)
    BY DEF TakeFrontAs
  <1> DEFINE m == un[b]
             y == nx[b]
             e == b + n
  <1>1. /\ Arena \in D /\ un[Arena] = 1 /\ Arena = 0
        /\ \A a \in D : a \in Nat /\ un[a] \in Nat \ {0} /\ nx[a] \in Nat
    BY DEF ListIn, BlocksTyped, Arena
  <1>2. \A a \in D : a \in Nat
    BY <1>1
  <1>3. c \in D /\ c \in Nat /\ b \in D /\ b \in Nat /\ c < b /\ \A a \in D : a <= c \/ b <= a
    <2>1. Follows(D, c, b)
      BY DEF ListIn
    <2> QED BY <1>2, <2>1 DEF Follows
  <1>4. \A a, d \in D : a < d => a + un[a] < d
    BY DEF ListIn
  <1>5. \A a \in D : Follows(D, a, nx[a])
    BY DEF ListIn
  <1>6. \A a : a \in E <=> (a \in D /\ a # b) \/ a = e
    OBVIOUS
  <1>7. vx[c] = e /\ vx[e] = y /\ vn[e] = m - n
    OBVIOUS
  <1>8. \A a \in D : a # b => vn[a] = un[a] /\ (a # c => vx[a] = nx[a])
    OBVIOUS
  <1>9. y \in Nat /\ m \in Nat \ {0} /\ Follows(D, b, y) /\ n < m
    BY <1>1, <1>3, <1>5
  <1>10. e = b + n /\ e \in Nat /\ b < e /\ e < b + m
    BY <1>3, <1>9
  <1>11. ASSUME NEW d \in D, b < d PROVE b + m < d
    BY <1>3, <1>4, <1>11
  <1> HIDE DEF m, y, e
  <1>12. e \notin D
    <2> SUFFICES ASSUME e \in D PROVE FALSE
      OBVIOUS
    <2>1. b + m < e
      BY <1>10, <1>11
    <2> QED BY <1>3, <1>9, <1>10, <2>1
  <1>13. BlocksTyped(E, vn, vx)
    <2>1. Arena \in E /\ vn[Arena] = 1
      BY <1>1, <1>6, <1>8
    <2>2. m - n \in Nat \ {0}
      BY <1>9
    <2>3. ASSUME NEW a \in E PROVE a \in Nat /\ vn[a] \in Nat \ {0} /\ vx[a] \in Nat
      <3>1. CASE a = e
        BY <1>7, <1>9, <1>10, <2>2, <3>1
      <3>2. CASE a # e /\ a = c
        BY <1>1, <1>3, <1>7, <1>8, <1>10, <3>2
      <3>3. CASE a # e /\ a # c
        BY <1>1, <1>6, <1>8, <3>3
      <3> QED BY <3>1, <3>2, <3>3
    <2> QED BY <2>1, <2>3 DEF BlocksTyped
  <1>14. ASSUME NEW a \in E, NEW d \in E, a < d PROVE a + vn[a] < d
    <2>1. CASE a = e
      <3>1. d \in D /\ d \in Nat /\ b < d
        BY <1>2, <1>3, <1>6, <1>10, <1>14, <2>1
      <3>2. b + m < d
        BY <1>11, <3>1
      <3> QED BY <1>3, <1>7, <1>9, <1>10, <2>1, <3>1, <3>2
    <2>2. CASE a # e /\ d = e
      <3>1. a \in D /\ a # b /\ vn[a] = un[a] /\ a \in Nat /\ un[a] \in Nat
        BY <1>1, <1>6, <1>8, <2>2
      <3>2. a < b
        <4>1. b < a => b + m < a
          BY <1>11, <3>1
        <4> QED BY <1>3, <1>9, <1>10, <1>14, <2>2, <3>1, <4>1
      <3>3. a + un[a] < b
        BY <1>3, <1>4, <3>1, <3>2
      <3> QED BY <1>3, <1>10, <2>2, <3>1, <3>3
    <2>3. CASE a # e /\ d # e
      BY <1>4, <1>6, <1>8, <1>14, <2>3
    <2> QED BY <2>1, <2>2, <2>3
  <1>15. ASSUME NEW a \in E PROVE Follows(E, a, vx[a])
    <2>1. CASE a = e
      <3>1. CASE y = Arena /\ \A d \in D : d <= b
        <4>1. ASSUME NEW d \in E PROVE d <= e
          BY <1>2, <1>3, <1>6, <1>10, <3>1
        <4> QED BY <1>7, <2>1, <3>1, <4>1 DEF Follows
      <3>2. CASE y \in D /\ b < y /\ \A d \in D : d <= b \/ y <= d
        <4>1. e < y
          <5>1. b + m < y
            BY <1>11, <3>2
          <5> QED BY <1>3, <1>9, <1>10, <5>1
        <4>2. y \in E
          BY <1>3, <1>6, <1>9, <3>2
        <4>3. ASSUME NEW d \in E PROVE d <= e \/ y <= d
          BY <1>2, <1>3, <1>6, <1>9, <1>10, <3>2
        <4> QED BY <1>7, <2>1, <4>1, <4>2, <4>3 DEF Follows
      <3> QED BY <1>9, <3>1, <3>2 DEF Follows
    <2>2. CASE a = c
      <3>1. c < e /\ e \in E
        BY <1>3, <1>6, <1>10
      <3>2. ASSUME NEW d \in E PROVE d <= c \/ e <= d
        <4>1. CASE d = e
          BY <1>10, <4>1
        <4>2. CASE d # e
          <5>1. d \in D /\ d # b /\ d \in Nat
            BY <1>2, <1>6, <4>2
          <5>2. b < d => b + m < d
            BY <1>11, <5>1
          <5>3. d <= c \/ b <= d
            BY <1>3, <5>1
          <5> QED BY <1>3, <1>9, <1>10, <5>1, <5>2, <5>3
        <4> QED BY <4>1, <4>2
      <3> QED BY <1>7, <2>2, <3>1, <3>2 DEF Follows
    <2>3. CASE a # c /\ a # e
      <3> DEFINE z == nx[a]
      <3>1. a \in D /\ a # b /\ vx[a] = z /\ Follows(D, a, z) /\ a \in Nat
        BY <1>2, <1>5, <1>6, <1>8, <2>3
      <3> HIDE DEF z
      <3>0. a < c \/ b < a
        BY <1>3, <2>3, <3>1
      <3>2. CASE z = Arena /\ \A d \in D : d <= a
        <4>1. b < a
          BY <1>3, <3>1, <3>0, <3>2
        <4>2. b + m < a
          BY <1>11, <3>1, <4>1
        <4>3. e < a
          BY <1>3, <1>9, <1>10, <3>1, <4>2
        <4>4. ASSUME NEW d \in E PROVE d <= a
          BY <1>6, <1>10, <3>1, <3>2, <4>3
        <4> QED BY <3>1, <3>2, <4>4 DEF Follows
      <3>3. CASE z \in D /\ a < z /\ \A d \in D : d <= a \/ z <= d
        <4>0. z \in Nat
          BY <1>2, <3>3
        <4>1. z # b
          <5>2. c <= a \/ z <= c
            BY <1>3, <3>3
          <5> QED BY <1>3, <2>3, <3>0, <3>1, <3>3, <4>0, <5>2
        <4>2. e <= a \/ z <= e
          <5>1. b < a => b + m < a
            BY <1>11, <3>1
          <5>2. c <= a \/ z <= c
            BY <1>3, <3>3
          <5> QED BY <1>3, <1>9, <1>10, <3>0, <3>1, <4>0, <5>1, <5>2
        <4>3. ASSUME NEW d \in E PROVE d <= a \/ z <= d
          BY <1>6, <3>3, <4>2
        <4> QED BY <1>6, <3>1, <3>3, <4>1, <4>3 DEF Follows
      <3> QED BY <3>1, <3>2, <3>3 DEF Follows
    <2> QED BY <2>1, <2>2, <2>3
  <1>16. \A a \in D : a # b => Room(a, un[a]) \cap Room(b, m) = {}
    <2> SUFFICES ASSUME NEW a \in D, a # b, NEW x \in Room(a, un[a]), x \in Room(b, m)
                 PROVE FALSE
      OBVIOUS
    <2>1. a \in Nat /\ un[a] \in Nat
      BY <1>1, <1>3
    <2>2. a < b => a + un[a] < b
      BY <1>3, <1>4
    <2>3. b < a => b + m < a
      BY <1>11
    <2> QED BY <1>3, <1>9, <2>1, <2>2, <2>3 DEF Room
  <1>17. /\ Room(b, m) = Room(b, n) \cup Room(e, m - n) /\ Room(b, n) \cap Room(e, m - n) = {}
         /\ Room(b, un[b]) = Room(b, m)
    BY <1>3, <1>9, <1>10 DEF Room, m
  <1>18. b # Arena /\ e # Arena
    BY <1>1, <1>3, <1>10
  <1>19. RoomOf(E, vn) = RoomOf(D, un) \ Room(b, n) /\ Room(b, n) \subseteq RoomOf(D, un)
    <2>1. ASSUME NEW x \in RoomOf(E, vn) PROVE x \in RoomOf(D, un) /\ x \notin Room(b, n)
      <3>1. PICK a \in E \ {Arena} : x \in Room(a, vn[a])
        BY <2>1 DEF RoomOf
      <3>2. CASE a = e
        BY <1>3, <1>7, <1>17, <1>18, <3>1, <3>2 DEF RoomOf
      <3>3. CASE a # e
        BY <1>6, <1>8, <1>16, <1>17, <3>1, <3>3 DEF RoomOf
      <3> QED BY <3>2, <3>3
    <2>2. ASSUME NEW x \in RoomOf(D, un), x \notin Room(b, n) PROVE x \in RoomOf(E, vn)
      <3>1. PICK a \in D \ {Arena} : x \in Room(a, un[a])
        BY <2>2 DEF RoomOf
      <3>2. CASE a = b
        <4>1. x \in Room(e, vn[e]) /\ e \in E
          BY <1>6, <1>7, <1>17, <2>2, <3>1, <3>2
        <4> QED BY <1>18, <4>1 DEF RoomOf
      <3>3. CASE a # b
        BY <1>6, <1>8, <3>1, <3>3 DEF RoomOf
      <3> QED BY <3>2, <3>3
    <2>3. Room(b, n) \subseteq RoomOf(D, un)
      BY <1>3, <1>17, <1>18 DEF RoomOf
    <2> QED BY <2>1, <2>2, <2>3
  <1>20. c \in E
    BY <1>3, <1>6
  <1> QED BY <1>13, <1>14, <1>15, <1>19, <1>20 DEF ListIn

\* A set of numbers below a bound that is not empty has a largest one.
LEMMA Largest ==
  ASSUME NEW T, T \subseteq Nat, T # {}, NEW B \in Nat, \A x \in T : x <= B
  PROVE  \E x \in T : \A y \in T : y <= x
  <1> DEFINE R == {z \in Nat : B - z \in T}
  <1>1. R \subseteq Nat /\ R # {}
    <2>1. PICK x \in T : TRUE
      OBVIOUS
    <2>2. B - x \in Nat /\ B - (B - x) = x
      BY <2>1
    <2>3. B - x \in R
      BY <2>1, <2>2
    <2> QED BY <2>3
  <1>2. PICK r \in R : \A z \in R : r <= z
    <2> HIDE DEF R
    <2> QED BY <1>1, Smallest
  <1>3. r \in Nat /\ B - r \in T
    BY <1>2
  <1>4. ASSUME NEW y \in T PROVE y <= B - r
    <2>1. y \in Nat /\ B - y \in Nat /\ B - (B - y) = y
      OBVIOUS
    <2>2. B - y \in R
      BY <2>1
    <2>3. r <= B - y
      BY <1>2, <2>2
    <2> QED BY <1>3, <2>1, <2>3
  <1> QED BY <1>3, <1>4

\* A part of the list that is not empty and has all that its blocks are linked to is all
\* of the list.
LEMMA Round ==
  ASSUME NEW D, NEW un, NEW nx, ListIn(D, un, nx), NEW B \in Nat, \A a \in D : a <= B,
         NEW T, T \subseteq D, T # {}, \A a \in T : nx[a] \in T
  PROVE  T = D
  <1>1. \A a \in D : a \in Nat
    BY DEF ListIn, BlocksTyped
  <1>2. \A a \in D : Follows(D, a, nx[a])
    BY DEF ListIn
  <1>3. Arena \in T
    <2>1. PICK a \in T : \A d \in T : d <= a
      <3>1. T \subseteq Nat
        BY <1>1
      <3>2. \A a \in T : a <= B
        OBVIOUS
      <3> QED BY <3>1, <3>2, Largest
    <2>2. a \in Nat /\ nx[a] \in Nat /\ nx[a] <= a /\ nx[a] \in T
      BY <1>1, <2>1
    <2>3. nx[a] = Arena
      BY <1>2, <2>2 DEF Follows
    <2> QED BY <2>2, <2>3
  <1>4. SUFFICES ASSUME D \ T # {} PROVE FALSE
    OBVIOUS
  <1>5. PICK x \in D \ T : \A d \in D \ T : x <= d
    <2>1. D \ T \subseteq Nat
      BY <1>1
    <2> QED BY <1>4, <2>1, Smallest
  <1> DEFINE Below == {d \in D : d < x}
  <1>6. PICK a \in Below : \A d \in Below : d <= a
    <2>1. Arena < x
      <3>1. x # Arena /\ x \in Nat
        BY <1>1, <1>3, <1>5
      <3> QED BY <3>1 DEF Arena
    <2>2. Arena \in Below
      BY <1>3, <2>1
    <2>3. Below \subseteq Nat /\ Below # {} /\ \A d \in Below : d <= B
      BY <1>1, <2>2
    <2> HIDE DEF Below
    <2> QED BY <2>3, Largest
  <1>7. a \in D /\ a < x /\ \A d \in D : d < x => d <= a
    BY <1>6
  <1> HIDE DEF Below
  <1>8. x \in D /\ x \in Nat /\ a \in Nat /\ x \notin T
    BY <1>1, <1>5, <1>7
  <1>9. a \in T
    <2> SUFFICES ASSUME a \notin T PROVE FALSE
      OBVIOUS
    <2>1. x <= a
      BY <1>5, <1>7
    <2> QED BY <1>7, <1>8, <2>1
  <1>10. nx[a] = x
    <2>1. nx[a] \in D /\ a < nx[a] /\ nx[a] <= x
      BY <1>2, <1>7, <1>8 DEF Follows
    <2>2. nx[a] \in Nat
      BY <1>1, <2>1
    <2>3. ~(nx[a] < x)
      BY <1>7, <1>8, <2>1, <2>2
    <2> QED BY <1>8, <2>1, <2>2, <2>3
  <1> QED BY <1>8, <1>9, <1>10

\* Whoever follows the links for as many steps as there are blocks meets every block.
LEMMA Circle ==
  ASSUME NEW D, NEW un, NEW nx, ListIn(D, un, nx), NEW B \in Nat, \A a \in D : a <= B,
         NEW w, w[0] \in D, \A k \in Nat : k # 0 => w[k] = nx[w[k - 1]]
  PROVE  /\ Cardinality(D) \in Nat
         /\ \A k \in Nat : w[k] \in D
         /\ \A a \in D : \E k \in 1..Cardinality(D) : w[k] = a
  <1> DEFINE C == Cardinality(D)
  <1>1. \A a \in D : a \in Nat
    BY DEF ListIn, BlocksTyped
  <1>2. IsFiniteSet(D) /\ C \in Nat
    <2>1. D \in SUBSET Nat
      BY <1>1
    <2>2. IsFiniteSet(D)
      BY <2>1, FS_BoundedSetOfNaturals
    <2> QED BY <2>2, FS_CardinalityType
  <1> HIDE DEF C
  <1>3. \A a \in D : nx[a] \in D
    BY DEF ListIn, BlocksTyped, Follows
  <1>4. \A k \in Nat : w[k] \in D
    <2> DEFINE Bad == {k \in Nat : w[k] \notin D}
    <2>1. SUFFICES ASSUME Bad # {} PROVE FALSE
      OBVIOUS
    <2>2. PICK k \in Bad : \A l \in Bad : k <= l
      <3>1. Bad \subseteq Nat
        OBVIOUS
      <3> HIDE DEF Bad
      <3> QED BY <2>1, <3>1, Smallest
    <2>3. k # 0 /\ k \in Nat /\ w[k] \notin D
      BY <2>2
    <2>4. k - 1 \in Nat /\ w[k - 1] \in D
      BY <2>2, <2>3
    <2> QED BY <1>3, <2>3, <2>4
  <1>5. PICK i \in 0..C, j \in 0..C : i < j /\ w[i] = w[j]
    <2> DEFINE f == [k \in 0..C |-> w[k]]
    <2>1. f \in [0..C -> D]
      BY <1>2, <1>4
    <2>2. IsFiniteSet(0..C) /\ Cardinality(0..C) = C + 1
      <3>1. 0 \in Int /\ C \in Int /\ ~(0 > C) /\ C - 0 + 1 = C + 1
        BY <1>2
      <3> QED BY <3>1, FS_Interval
    <2>3. Cardinality(D) < Cardinality(0..C)
      BY <1>2, <2>2 DEF C
    <2>4. PICK x, y \in 0..C : x # y /\ f[x] = f[y]
      <3> HIDE DEF f
      <3> QED BY <1>2, <2>1, <2>2, <2>3, FS_PigeonHole
    <2>5. w[x] = w[y]
      BY <2>4
    <2>6. x < y \/ y < x
      BY <1>2, <2>4
    <2> QED BY <2>5, <2>6
  <1> DEFINE T == {w[k] : k \in (i + 1)..j}
  <1>6. T \subseteq D /\ T # {}
    <2>1. \A k \in (i + 1)..j : k \in Nat
      BY <1>2, <1>5
    <2>2. j \in (i + 1)..j
      BY <1>2, <1>5
    <2> QED BY <1>4, <2>1, <2>2
  <1>7. ASSUME NEW a \in T PROVE nx[a] \in T
    <2>1. PICK k \in (i + 1)..j : a = w[k]
      BY <1>7
    <2>2. CASE k = j
      <3>1. i + 1 \in Nat /\ i + 1 # 0 /\ (i + 1) - 1 = i /\ i + 1 \in (i + 1)..j
        BY <1>2, <1>5
      <3>2. w[i + 1] = nx[w[i]]
        BY <3>1
      <3> QED BY <1>5, <2>1, <2>2, <3>1, <3>2
    <2>3. CASE k # j
      <3>1. k + 1 \in Nat /\ k + 1 # 0 /\ (k + 1) - 1 = k /\ k + 1 \in (i + 1)..j
        BY <1>2, <1>5, <2>1, <2>3
      <3>2. w[k + 1] = nx[w[k]]
        BY <3>1
      <3> QED BY <2>1, <3>1, <3>2
    <2> QED BY <2>2, <2>3
  <1>8. T = D
    <2> HIDE DEF T
    <2> QED BY <1>6, <1>7, Round
  <1>9. ASSUME NEW a \in D PROVE \E k \in 1..C : w[k] = a
    <2>1. PICK k \in (i + 1)..j : w[k] = a
      BY <1>8
    <2>2. k \in 1..C
      BY <1>2, <1>5, <2>1
    <2> QED BY <2>1, <2>2
  <1> QED BY <1>2, <1>4, <1>9 DEF C

\* Free units in a row lie in one block.
LEMMA InOneBlock ==
  ASSUME NEW D, NEW un, NEW nx, ListIn(D, un, nx), NEW b \in Nat, NEW n \in Nat \ {0},
         Room(b, n) \subseteq RoomOf(D, un)
  PROVE  \E a \in D : n <= un[a]
  <1>1. \A a \in D : a \in Nat /\ un[a] \in Nat
    BY DEF ListIn, BlocksTyped
  <1>2. \A a, d \in D : a < d => a + un[a] < d
    BY DEF ListIn
  <1>3. b \in Room(b, n)
    BY DEF Room
  <1>4. PICK a \in D : b \in Room(a, un[a])
    BY <1>3 DEF RoomOf
  <1> DEFINE m == un[a]
             e == a + m
  <1>5. a \in Nat /\ m \in Nat /\ a <= b /\ b < e
    BY <1>1, <1>4 DEF Room
  <1>6. \A d \in D : ~(d <= e /\ e < d + un[d])
    <2> SUFFICES ASSUME NEW d \in D, d <= e, e < d + un[d] PROVE FALSE
      OBVIOUS
    <2> DEFINE l == un[d]
    <2>1. d \in Nat /\ l \in Nat /\ d <= e /\ e < d + l
      BY <1>1
    <2>2. a < d => e < d
      BY <1>2
    <2>3. d < a => d + l < a
      BY <1>2
    <2>4. d = a => l = m
      OBVIOUS
    <2> HIDE DEF l, m
    <2> QED BY <1>5, <2>1, <2>2, <2>3, <2>4
  <1>7. e \notin Room(b, n)
    <2> SUFFICES ASSUME e \in Room(b, n) PROVE FALSE
      OBVIOUS
    <2>1. PICK d \in D : e \in Room(d, un[d])
      BY DEF RoomOf
    <2>2. d \in Nat /\ un[d] \in Nat
      BY <1>1
    <2> HIDE DEF e
    <2>3. d <= e /\ e < d + un[d]
      BY <2>1, <2>2 DEF Room
    <2> QED BY <1>6, <2>3
  <1> HIDE DEF m
  <1>8. b + n <= e
    <2> SUFFICES ASSUME e < b + n PROVE FALSE
      BY <1>5
    <2> QED BY <1>5, <1>7 DEF Room
  <1>9. n <= m
    BY <1>5, <1>8
  <1> QED BY <1>9 DEF m

-----------------------------------------------------------------------------
(* The list of free blocks as kmalloc.c has it. *)

Un(s) == [a \in DOMAIN s |-> s[a].units]

Headers == [units : Nat \ {0}, next : Nat]

ListOK(s) == s \in [DOMAIN s -> Headers] /\ ListIn(DOMAIN s, Un(s), Links(s))

FreeOf(s) == RoomOf(DOMAIN s, Un(s))

Gap(s, c, b, n) == GapIn(DOMAIN s, Un(s), c, b, n)

\* The fields of a header.
LEMMA HeaderFields ==
  ASSUME NEW n \in Nat \ {0}, NEW x \in Nat
  PROVE  /\ [units |-> n, next |-> x] \in Headers
         /\ [units |-> n, next |-> x].units = n /\ [units |-> n, next |-> x].next = x
  BY DEF Headers

\* slob_free puts the block into the list.
LEMMA LinkNextOK ==
  ASSUME NEW s, ListOK(s), NEW c, NEW b, NEW n, Gap(s, c, b, n)
  PROVE  LET t == LinkNext(s, c, b, n)
         IN  /\ t \in [DOMAIN t -> Headers]
             /\ ListButIn(DOMAIN t, Un(t), Links(t), c, b)
             /\ FreeOf(t) = FreeOf(s) \cup Room(b, n)
  <1> DEFINE D  == DOMAIN s
             un == Un(s)
             nx == Links(s)
             x  == nx[c]
             t  == LinkNext(s, c, b, n)
  <1>1. /\ s \in [D -> Headers] /\ ListIn(D, un, nx) /\ GapIn(D, un, c, b, n)
        /\ \A a \in D : s[a].units = un[a] /\ s[a].next = nx[a]
    BY DEF ListOK, Gap, Un, Links
  <1>2. /\ c \in D /\ b \notin D /\ n \in Nat \ {0} /\ b \in Nat
        /\ \A a \in D : a \in Nat /\ un[a] \in Nat \ {0} /\ nx[a] \in Nat
    BY <1>1 DEF GapIn, ListIn, BlocksTyped
  <1>3. x = Arena \/ x \in D
    BY <1>1, Behind
  <1>4. CASE b + n = x
    <2> DEFINE v == [units |-> n + un[x], next |-> nx[x]]
               E == (D \ {x}) \cup {b}
    <2>1. x # Arena
      BY <1>2, <1>4 DEF Arena
    <2>2. x \in D
      BY <1>3, <2>1
    <2>3. n + un[x] \in Nat \ {0} /\ nx[x] \in Nat
      BY <1>2, <2>2
    <2>4. v \in Headers /\ v.units = n + un[x] /\ v.next = nx[x]
      BY <2>3, HeaderFields
    <2>5. s[c].next = x /\ s[x].units = un[x] /\ s[x].next = nx[x]
      BY <1>1, <1>2, <2>2
    <2>6. t = With(Drop(s, x), b, v)
      BY <1>4, <2>5 DEF LinkNext
    <2> HIDE DEF v
    <2>7. t = [a \in E |-> IF a = b THEN v ELSE s[a]]
      <3>1. DOMAIN Drop(s, x) = D \ {x} /\ \A a \in D \ {x} : Drop(s, x)[a] = s[a]
        BY DEF Drop, Restrict
      <3>2. t = [a \in DOMAIN Drop(s, x) \cup {b} |-> IF a = b THEN v ELSE Drop(s, x)[a]]
        BY <2>6 DEF With
      <3> HIDE DEF t
      <3> QED BY <3>1, <3>2
    <2> HIDE DEF t
    <2>8. /\ DOMAIN t = E /\ t \in [E -> Headers]
          /\ t[b] = v /\ \A a \in D \ {x} : t[a] = s[a]
      BY <1>1, <1>2, <2>4, <2>7
    <2>9. /\ Un(t)[b] = n + un[x] /\ Links(t)[b] = nx[x]
          /\ \A a \in D \ {x} : Un(t)[a] = un[a] /\ Links(t)[a] = nx[a]
      BY <1>1, <2>4, <2>8 DEF Un, Links
    <2> DEFINE vn == Un(t)
               vx == Links(t)
    <2> HIDE DEF un, nx, D, vn, vx
    <2>10. JoinAfterAs(D, un, nx, c, b, n, E, vn, vx)
      BY <1>4, <2>9 DEF JoinAfterAs, vn, vx
    <2> HIDE DEF E
    <2>11. ListButIn(E, vn, vx, c, b) /\ RoomOf(E, vn) = RoomOf(D, un) \cup Room(b, n)
      BY <1>1, <2>10, JoinAfterIn
    <2> QED BY <2>8, <2>11 DEF FreeOf, t, un, D, E, vn, vx
  <1>5. CASE b + n # x
    <2> DEFINE v == [units |-> n, next |-> x]
               E == D \cup {b}
    <2>3. x \in Nat
      BY <1>2
    <2>4. v \in Headers /\ v.units = n /\ v.next = x
      BY <1>2, <2>3, HeaderFields
    <2>5. s[c].next = x
      BY <1>1, <1>2
    <2>6. t = With(s, b, v)
      BY <1>5, <2>5 DEF LinkNext
    <2> HIDE DEF v
    <2>7. t = [a \in E |-> IF a = b THEN v ELSE s[a]]
      BY <2>6 DEF With
    <2> HIDE DEF t
    <2>8. /\ DOMAIN t = E /\ t \in [E -> Headers]
          /\ t[b] = v /\ \A a \in D : t[a] = s[a]
      BY <1>1, <1>2, <2>4, <2>7
    <2> DEFINE vn == Un(t)
               vx == Links(t)
    <2>9. vn[b] = n /\ vx[b] = nx[c] /\ \A a \in D : vn[a] = un[a] /\ vx[a] = nx[a]
      BY <1>1, <2>4, <2>8 DEF Un, Links
    <2> HIDE DEF un, nx, D, vn, vx
    <2>10. PutAs(D, un, nx, c, b, n, E, vn, vx)
      BY <1>5, <2>9 DEF PutAs
    <2> HIDE DEF E
    <2>11. ListButIn(E, vn, vx, c, b) /\ RoomOf(E, vn) = RoomOf(D, un) \cup Room(b, n)
      BY <1>1, <2>10, PutIn
    <2> QED BY <2>8, <2>11 DEF FreeOf, t, un, D, E, vn, vx
  <1> QED BY <1>4, <1>5

\* ... and links the block before to it.
LEMMA LinkBeforeOK ==
  ASSUME NEW s, NEW c, NEW b, s \in [DOMAIN s -> Headers], ListButIn(DOMAIN s, Un(s), Links(s), c, b),
         b > 1
  PROVE  LET t == LinkBefore(s, c, b)
         IN  ListOK(t) /\ FreeOf(t) = FreeOf(s) /\ c \in DOMAIN t
  <1> DEFINE D  == DOMAIN s
             un == Un(s)
             nx == Links(s)
             t  == LinkBefore(s, c, b)
  <1>1. /\ s \in [D -> Headers] /\ ListButIn(D, un, nx, c, b)
        /\ \A a \in D : s[a].units = un[a] /\ s[a].next = nx[a]
    BY DEF Un, Links
  <1>2. /\ c \in D /\ b \in D /\ c < b /\ un[Arena] = 1
        /\ \A a \in D : a \in Nat /\ un[a] \in Nat \ {0} /\ nx[a] \in Nat
    BY <1>1 DEF ListButIn, BlocksTyped
  <1>3. c # b
    BY <1>2
  <1>4. s[c].units = un[c] /\ s[b].units = un[b] /\ s[b].next = nx[b]
    BY <1>1, <1>2
  <1>5. CASE c + un[c] = b
    <2> DEFINE v == [units |-> un[c] + un[b], next |-> nx[b]]
               E == D \ {b}
    <2>0. c # Arena
      BY <1>2, <1>5 DEF Arena
    <2>1. un[c] + un[b] \in Nat \ {0} /\ nx[b] \in Nat
      BY <1>2
    <2>2. v \in Headers /\ v.units = un[c] + un[b] /\ v.next = nx[b]
      BY <2>1, HeaderFields
    <2>3. t = [Drop(s, b) EXCEPT ![c] = v]
      BY <1>4, <1>5 DEF LinkBefore
    <2> HIDE DEF v
    <2>4. DOMAIN Drop(s, b) = E /\ \A a \in E : Drop(s, b)[a] = s[a]
      BY DEF Drop, Restrict
    <2> HIDE DEF t
    <2>5. t = [a \in E |-> IF a = c THEN v ELSE s[a]]
      BY <2>3, <2>4
    <2>6. /\ DOMAIN t = E /\ t \in [E -> Headers] /\ c \in E
          /\ t[c] = v /\ \A a \in E \ {c} : t[a] = s[a]
      BY <1>1, <1>2, <1>3, <2>2, <2>5
    <2>7. /\ Un(t)[c] = un[c] + un[b] /\ Links(t)[c] = nx[b]
          /\ \A a \in E \ {c} : Un(t)[a] = un[a] /\ Links(t)[a] = nx[a]
      BY <1>1, <2>2, <2>6 DEF Un, Links
    <2> DEFINE vn == Un(t)
               vx == Links(t)
    <2> HIDE DEF un, nx, D, vn, vx
    <2>8. JoinBeforeAs(D, un, nx, c, b, E, vn, vx)
      BY <1>5, <2>0, <2>7 DEF JoinBeforeAs, vn, vx
    <2> HIDE DEF E
    <2>9. ListIn(E, vn, vx) /\ RoomOf(E, vn) = RoomOf(D, un)
      BY <1>1, <2>8, JoinBeforeIn
    <2> QED BY <2>6, <2>9 DEF ListOK, FreeOf, t, un, D, E, vn, vx
  <1>6. CASE c + un[c] # b
    <2> DEFINE v == [s[c] EXCEPT !.next = b]
    <2>1. s[c] \in Headers /\ b \in Nat
      BY <1>1, <1>2
    <2>2. v \in Headers /\ v.units = un[c] /\ v.next = b
      BY <1>4, <2>1 DEF Headers
    <2>3. t = [s EXCEPT ![c] = v]
      BY <1>4, <1>6 DEF LinkBefore
    <2> HIDE DEF v
    <2> HIDE DEF t
    <2>6. /\ DOMAIN t = D /\ t \in [D -> Headers]
          /\ t[c] = v /\ \A a \in D \ {c} : t[a] = s[a]
      BY <1>1, <1>2, <2>2, <2>3
    <2>7. /\ Un(t)[c] = un[c] /\ Links(t)[c] = b
          /\ \A a \in D \ {c} : Un(t)[a] = un[a] /\ Links(t)[a] = nx[a]
      BY <1>1, <1>2, <2>2, <2>6 DEF Un, Links
    <2> DEFINE vn == Un(t)
               vx == Links(t)
    <2> HIDE DEF un, nx, D, vn, vx
    <2>8. LinkAs(D, un, nx, c, b, vn, vx)
      BY <1>6, <2>7 DEF LinkAs, vn, vx
    <2>9. ListIn(D, vn, vx) /\ RoomOf(D, vn) = RoomOf(D, un)
      BY <1>1, <2>8, LinkIn
    <2> QED BY <1>2, <2>6, <2>9 DEF ListOK, FreeOf, t, un, D, vn, vx
  <1> QED BY <1>5, <1>6

\* slob_alloc takes the front of a block, or all of it, out of the list.
LEMMA CutOK ==
  ASSUME NEW s, ListOK(s), NEW c \in DOMAIN s, NEW b, b = s[c].next, b # Arena,
         NEW n \in Nat \ {0}, n <= s[b].units
  PROVE  LET t == Cut(s, c, b, n)
         IN  /\ ListOK(t) /\ c \in DOMAIN t
             /\ FreeOf(t) = FreeOf(s) \ Room(b, n) /\ Room(b, n) \subseteq FreeOf(s)
  <1> DEFINE D  == DOMAIN s
             un == Un(s)
             nx == Links(s)
             t  == Cut(s, c, b, n)
             r  == Drop(s, b)
  <1>1. /\ s \in [D -> Headers] /\ ListIn(D, un, nx)
        /\ \A a \in D : s[a].units = un[a] /\ s[a].next = nx[a]
    BY DEF ListOK, Un, Links
  <1>2. /\ c \in D /\ b = nx[c] /\ b \in D /\ c # b
        /\ \A a \in D : a \in Nat /\ un[a] \in Nat \ {0} /\ nx[a] \in Nat
    <2>1. \A a \in D : a \in Nat /\ un[a] \in Nat \ {0} /\ nx[a] \in Nat
      BY <1>1 DEF ListIn, BlocksTyped
    <2>2. c \in D /\ b = nx[c] /\ Follows(D, c, nx[c])
      BY <1>1 DEF ListIn
    <2>3. b \in D /\ c < b
      BY <2>2 DEF Follows
    <2> QED BY <2>1, <2>2, <2>3
  <1>3. s[b].units = un[b] /\ s[b].next = nx[b] /\ n <= un[b]
    BY <1>1, <1>2
  <1>4. DOMAIN r = D \ {b} /\ \A a \in D \ {b} : r[a] = s[a]
    BY DEF Drop, Restrict
  <1>5. r = [a \in D \ {b} |-> s[a]]
    BY DEF Drop, Restrict
  <1>6. CASE un[b] = n
    <2> DEFINE v == [r[c] EXCEPT !.next = nx[b]]
               E == D \ {b}
    <2>1. r[c] \in Headers /\ r[c].units = un[c] /\ nx[b] \in Nat
      BY <1>1, <1>2, <1>4
    <2>2. v \in Headers /\ v.units = un[c] /\ v.next = nx[b]
      BY <2>1 DEF Headers
    <2>3. t = [r EXCEPT ![c] = v]
      BY <1>3, <1>6 DEF Cut
    <2> HIDE DEF v, t, r
    <2>5. t = [a \in E |-> IF a = c THEN v ELSE s[a]]
      BY <1>4, <1>5, <2>3
    <2>6. /\ DOMAIN t = E /\ t \in [E -> Headers] /\ c \in E
          /\ t[c] = v /\ \A a \in E \ {c} : t[a] = s[a]
      BY <1>1, <1>2, <2>2, <2>5
    <2>7. /\ Links(t)[c] = nx[b] /\ \A a \in E \ {c} : Links(t)[a] = nx[a]
          /\ \A a \in E : Un(t)[a] = un[a]
      BY <1>1, <2>2, <2>6 DEF Un, Links
    <2> DEFINE vn == Un(t)
               vx == Links(t)
    <2> HIDE DEF un, nx, D, vn, vx
    <2>8. TakeAllAs(D, nx, c, b, E, vx) /\ \A a \in E : vn[a] = un[a]
      BY <1>2, <2>7 DEF TakeAllAs, vn, vx
    <2> HIDE DEF E
    <2>9. /\ ListIn(E, un, vx)
          /\ RoomOf(E, un) = RoomOf(D, un) \ Room(b, un[b]) /\ Room(b, un[b]) \subseteq RoomOf(D, un)
      BY <1>1, <2>8, TakeAllIn
    <2>10. ListIn(E, vn, vx)
      <3>1. /\ \A a \in E : a \in Nat /\ un[a] \in Nat \ {0} /\ vx[a] \in Nat
            /\ Arena \in E /\ un[Arena] = 1
            /\ \A a, d \in E : a < d => a + un[a] < d
            /\ \A a \in E : Follows(E, a, vx[a])
        BY <2>9 DEF ListIn, BlocksTyped
      <3>2. BlocksTyped(E, vn, vx)
        BY <2>8, <3>1 DEF BlocksTyped
      <3>3. \A a, d \in E : a < d => a + vn[a] < d
        BY <2>8, <3>1
      <3> QED BY <3>1, <3>2, <3>3 DEF ListIn
    <2>11. RoomOf(E, vn) = RoomOf(E, un)
      BY <2>8 DEF RoomOf
    <2> QED BY <1>6, <2>6, <2>9, <2>10, <2>11 DEF ListOK, FreeOf, t, un, D, E, vn, vx
  <1>7. CASE un[b] # n
    <2> DEFINE u == [r[c] EXCEPT !.next = b + n]
               v == [units |-> un[b] - n, next |-> nx[b]]
               E == (D \ {b}) \cup {b + n}
               q == [r EXCEPT ![c] = u]
    <2>0. n < un[b] /\ b + n \in Nat /\ un[b] - n \in Nat \ {0} /\ nx[b] \in Nat
      BY <1>2, <1>3, <1>7
    <2>1. r[c] \in Headers /\ r[c].units = un[c]
      BY <1>1, <1>2, <1>4
    <2>2. u \in Headers /\ u.units = un[c] /\ u.next = b + n
      BY <2>0, <2>1 DEF Headers
    <2>3. v \in Headers /\ v.units = un[b] - n /\ v.next = nx[b]
      BY <2>0, HeaderFields
    <2>4. t = With(q, b + n, v)
      BY <1>3, <1>7 DEF Cut
    <2>g. b + n \notin D
      <3> SUFFICES ASSUME b + n \in D PROVE FALSE
        OBVIOUS
      <3>1. b < b + n
        BY <1>2
      <3>2. b + un[b] < b + n
        BY <1>1, <1>2, <3>1 DEF ListIn
      <3> QED BY <1>2, <2>0, <3>2
    <2> HIDE DEF u, v, t, r
    <2>5. DOMAIN q = D \ {b} /\ \A a \in D \ {b} : q[a] = IF a = c THEN u ELSE s[a]
      BY <1>4, <1>5
    <2> HIDE DEF q
    <2>6. t = [a \in E |-> IF a = b + n THEN v ELSE IF a = c THEN u ELSE s[a]]
      <3>1. t = [a \in DOMAIN q \cup {b + n} |-> IF a = b + n THEN v ELSE q[a]]
        BY <2>4 DEF With
      <3> QED BY <2>5, <3>1
    <2>7. /\ DOMAIN t = E /\ t \in [E -> Headers] /\ c \in E
          /\ t[b + n] = v /\ t[c] = u /\ \A a \in D \ {b} : a # c => t[a] = s[a]
      BY <1>1, <1>2, <2>2, <2>3, <2>6, <2>g
    <2>8. /\ Un(t)[b + n] = un[b] - n /\ Links(t)[b + n] = nx[b] /\ Links(t)[c] = b + n
          /\ \A a \in D \ {b} : Un(t)[a] = un[a] /\ (a # c => Links(t)[a] = nx[a])
      BY <1>1, <1>2, <2>2, <2>3, <2>7 DEF Un, Links
    <2> DEFINE vn == Un(t)
               vx == Links(t)
    <2> HIDE DEF un, nx, D, vn, vx
    <2>9. TakeFrontAs(D, un, nx, c, b, n, E, vn, vx)
      BY <1>2, <2>0, <2>8 DEF TakeFrontAs, vn, vx
    <2> HIDE DEF E
    <2>10. /\ ListIn(E, vn, vx)
           /\ RoomOf(E, vn) = RoomOf(D, un) \ Room(b, n) /\ Room(b, n) \subseteq RoomOf(D, un)
      BY <1>1, <2>9, TakeFrontIn
    <2> QED BY <2>7, <2>10 DEF ListOK, FreeOf, t, un, D, E, vn, vx
  <1> QED BY <1>6, <1>7

-----------------------------------------------------------------------------
(* Where slob_alloc and slob_free get on their way around the list. *)

\* The list and its roving start.
RoverOK(h) ==
  /\ ListOK(h.slob) /\ h.slobfree \in DOMAIN h.slob
  /\ \E B \in Nat : \A a \in DOMAIN h.slob : a <= B

\* The walk around the list goes from block to block, and meets each of them.
LEMMA WalkOK ==
  ASSUME NEW h, RoverOK(h)
  PROVE  LET C == Cardinality(DOMAIN h.slob)
         IN  /\ C \in Nat /\ DOMAIN Walk(h) = 0..C
             /\ \A k \in 0..C : Walk(h)[k] \in DOMAIN h.slob
             /\ \A k \in 1..C : Walk(h)[k] = h.slob[Walk(h)[k - 1]].next
             /\ \A a \in DOMAIN h.slob : \E k \in 1..C : Walk(h)[k] = a
  <1> DEFINE s  == h.slob
             D  == DOMAIN s
             un == Un(s)
             nx == Links(s)
             C  == Cardinality(D)
             walk == Along(nx, h.slobfree)
  <1>1. ListIn(D, un, nx) /\ \A a \in D : s[a].next = nx[a]
    BY DEF RoverOK, ListOK, Links
  <1>2. PICK B \in Nat : \A a \in D : a <= B
    BY DEF RoverOK
  <1>3. Walk(h) = [k \in 0..C |-> walk[k]]
    BY DEF Walk
  <1>4. h.slobfree \in D
    BY DEF RoverOK
  <1> HIDE DEF nx
  <1>5. walk[0] \in D /\ \A k \in Nat : k # 0 => walk[k] = nx[walk[k - 1]]
    BY <1>4, AlongLinks
  <1> HIDE DEF un, s, C, walk
  <1>6. \A k \in Nat : walk[k] \in D
    <2> DEFINE Bad == {k \in Nat : walk[k] \notin D}
    <2>1. SUFFICES ASSUME Bad # {} PROVE FALSE
      OBVIOUS
    <2>2. PICK k \in Bad : \A l \in Bad : k <= l
      <3>1. Bad \subseteq Nat
        OBVIOUS
      <3> HIDE DEF Bad
      <3> QED BY <2>1, <3>1, Smallest
    <2>3. k # 0 /\ k \in Nat /\ walk[k] \notin D
      BY <1>5, <2>2
    <2>4. k - 1 \in Nat /\ walk[k - 1] \in D
      BY <2>2, <2>3
    <2>5. nx[walk[k - 1]] \in D
      BY <1>1, <2>4 DEF ListIn, BlocksTyped, Follows
    <2> QED BY <1>5, <2>3, <2>4, <2>5
  <1>8. C \in Nat /\ \A a \in D : \E k \in 1..C : walk[k] = a
    BY <1>1, <1>2, <1>5, Circle DEF C
  <1>9. /\ DOMAIN Walk(h) = 0..C
        /\ \A k \in 0..C : Walk(h)[k] = walk[k] /\ k \in Nat
        /\ \A k \in 1..C : Walk(h)[k] = walk[k] /\ Walk(h)[k - 1] = walk[k - 1] /\ k \in Nat /\ k # 0
    BY <1>3, <1>8
  <1>10. \A k \in 1..C : Walk(h)[k] = s[Walk(h)[k - 1]].next
    <2>1. \A k \in 1..C : k - 1 \in Nat
      BY <1>8
    <2> QED BY <1>1, <1>5, <1>6, <1>9, <2>1
  <1>11. \A a \in D : \E k \in 1..C : Walk(h)[k] = a
    BY <1>8, <1>9
  <1> QED BY <1>6, <1>8, <1>9, <1>10, <1>11 DEF C, s

\* slob_free finds the block before.
LEMMA BeforeOK ==
  ASSUME NEW h, RoverOK(h), NEW b \in Nat, b # Arena, b \notin DOMAIN h.slob
  PROVE  /\ Before(h, b) \in DOMAIN h.slob /\ Before(h, b) < b
         /\ \A a \in DOMAIN h.slob : a <= Before(h, b) \/ b < a
  <1> DEFINE s  == h.slob
             D  == DOMAIN s
             nx == Links(s)
             C  == Cardinality(D)
             w  == Walk(h)
             Here(c) == (c < b /\ b < nx[c]) \/ (c >= nx[c] /\ (c < b \/ b < nx[c]))
             K  == {k \in 0..C : Here(w[k])}
             k0 == Min(K)
  <1>1. ListIn(D, Un(s), nx) /\ \A a \in D : s[a].next = nx[a]
    BY DEF RoverOK, ListOK, Links
  <1>2. /\ C \in Nat /\ DOMAIN w = 0..C /\ \A k \in 0..C : w[k] \in D
        /\ \A a \in D : \E k \in 1..C : w[k] = a
    BY WalkOK
  <1>3. Before(h, b) = w[k0]
    <2>1. K = {k \in DOMAIN w : LET n == s[w[k]].next
                                IN  (w[k] < b /\ b < n) \/ (w[k] >= n /\ (w[k] < b \/ b < n))}
      BY <1>1, <1>2
    <2> HIDE DEF K
    <2> QED BY <2>1 DEF Before
  <1>4. /\ \A a \in D : a \in Nat /\ nx[a] \in Nat /\ Follows(D, a, nx[a])
        /\ Arena \in D /\ Arena = 0
    BY <1>1 DEF ListIn, BlocksTyped, Arena
  <1> HIDE DEF w, C, nx, s
  <1> DEFINE Below == {d \in D : d < b}
  <1>5. PICK c \in Below : \A d \in Below : d <= c
    <2>1. Arena \in Below /\ Below \subseteq Nat /\ \A d \in Below : d <= b
      BY <1>4 DEF Arena
    <2> HIDE DEF Below
    <2> QED BY <2>1, Largest
  <1>6. c \in D /\ c < b /\ \A d \in D : d < b => d <= c
    BY <1>5
  <1> HIDE DEF Below
  <1>7. Here(c)
    <2>1. c \in Nat /\ nx[c] \in Nat
      BY <1>4, <1>6
    <2>2. CASE nx[c] = Arena
      BY <1>4, <1>6, <2>1, <2>2
    <2>3. CASE nx[c] \in D /\ c < nx[c]
      <3>1. nx[c] # b /\ ~(nx[c] < b)
        BY <1>6, <2>1, <2>3 DEF s
      <3> QED BY <1>6, <2>1, <3>1
    <2> QED BY <1>4, <1>6, <2>2, <2>3 DEF Follows
  <1>8. K # {}
    <2>1. PICK k \in 1..C : w[k] = c
      BY <1>2, <1>6
    <2>2. k \in 0..C
      BY <1>2, <2>1
    <2> QED BY <1>7, <2>1, <2>2
  <1>9. k0 \in 0..C /\ Here(w[k0])
    <2>1. K \subseteq Nat
      BY <1>2
    <2>2. \E x \in K : \A y \in K : x <= y
      <3> HIDE DEF K
      <3> QED BY <1>8, <2>1, Smallest
    <2>3. k0 \in K
      <3> HIDE DEF K
      <3> QED BY <2>2 DEF Min
    <2> QED BY <2>3
  <1> HIDE DEF k0, K
  <1> DEFINE e == w[k0]
  <1>10. e \in D /\ Here(e)
    BY <1>2, <1>9
  <1> HIDE DEF e
  <1>11. e \in Nat /\ nx[e] \in Nat /\ Follows(D, e, nx[e])
    BY <1>4, <1>10
  <1>12. CASE nx[e] = Arena /\ \A d \in D : d <= e
    <2>1. e < b
      BY <1>4, <1>10, <1>11, <1>12
    <2> QED BY <1>3, <1>10, <1>12, <2>1 DEF e, s
  <1>13. CASE nx[e] \in D /\ e < nx[e] /\ \A d \in D : d <= e \/ nx[e] <= d
    <2>1. e < b /\ b < nx[e]
      BY <1>10, <1>11, <1>13
    <2>2. ASSUME NEW d \in D PROVE d <= e \/ b < d
      BY <1>4, <1>11, <1>13, <2>1
    <2> QED BY <1>3, <1>10, <2>1, <2>2 DEF e, s
  <1> QED BY <1>11, <1>12, <1>13 DEF Follows

\* slob_alloc finds a block that is long enough.
LEMMA FittingOK ==
  ASSUME NEW h, RoverOK(h), NEW n \in Nat, n > 1, Fitting(h, n) # {}
  PROVE  LET k    == Min(Fitting(h, n))
             prev == Walk(h)[k - 1]
             cur  == Walk(h)[k]
         IN  /\ prev \in DOMAIN h.slob /\ cur = h.slob[prev].next /\ cur # Arena /\ cur \in DOMAIN h.slob
             /\ n <= h.slob[cur].units
  <1> DEFINE C == Cardinality(DOMAIN h.slob)
             w == Walk(h)
             k == Min(Fitting(h, n))
  <1>1. /\ C \in Nat /\ DOMAIN w = 0..C /\ \A i \in 0..C : w[i] \in DOMAIN h.slob
        /\ \A i \in 1..C : w[i] = h.slob[w[i - 1]].next
    BY WalkOK
  <1>2. Fitting(h, n) = {i \in (0..C) \ {0} : h.slob[w[i]].units >= n}
    BY <1>1 DEF Fitting
  <1> HIDE DEF w, C
  <1>3. k \in 1..C /\ h.slob[w[k]].units >= n
    <2>1. Fitting(h, n) \subseteq Nat
      BY <1>1, <1>2
    <2>2. \E x \in Fitting(h, n) : \A y \in Fitting(h, n) : x <= y
      BY <2>1, Smallest
    <2>3. k \in Fitting(h, n)
      BY <2>2 DEF Min
    <2> HIDE DEF k
    <2>4. k \in (0..C) \ {0} /\ h.slob[w[k]].units >= n
      BY <1>2, <2>3
    <2> QED BY <1>1, <2>4
  <1> HIDE DEF k
  <1>4. k \in 0..C /\ k - 1 \in 0..C
    BY <1>1, <1>3
  <1>5. w[k] \in DOMAIN h.slob /\ w[k - 1] \in DOMAIN h.slob /\ w[k] = h.slob[w[k - 1]].next
    BY <1>1, <1>3, <1>4
  <1>6. /\ \A a \in DOMAIN h.slob : h.slob[a].units \in Nat
        /\ h.slob[Arena].units = 1
    BY DEF RoverOK, ListOK, ListIn, BlocksTyped, Headers, Un
  <1>7. h.slob[w[k]].units \in Nat /\ n <= h.slob[w[k]].units
    BY <1>3, <1>5, <1>6
  <1>8. w[k] # Arena
    BY <1>6, <1>7
  <1> QED BY <1>5, <1>7, <1>8 DEF w, k

-----------------------------------------------------------------------------
(* The blocks that are free and those in use. *)

\* Blocks in use do not overlap.
UsedOK(u) ==
  /\ u \in [DOMAIN u -> Nat]
  /\ \A a \in DOMAIN u : a \in Nat /\ a > 1 /\ u[a] > 1
  /\ \A a, d \in DOMAIN u : a < d => a + u[a] <= d

UsedOf(u) == UNION {Room(a, u[a]) : a \in DOMAIN u}

\* They make up the units X.
SmallOK(h, X) ==
  /\ RoverOK(h) /\ UsedOK(h.units)
  /\ FreeOf(h.slob) \cap UsedOf(h.units) = {}
  /\ FreeOf(h.slob) \cup UsedOf(h.units) = X

Fields == {"pmm", "slob", "slobfree", "units", "big"}

\* slob_free of units that are not free.
LEMMA SlobFreeOK ==
  ASSUME NEW h, DOMAIN h = Fields, RoverOK(h), NEW b \in Nat, b > 1, NEW n \in Nat \ {0},
         Room(b, n) \cap FreeOf(h.slob) = {}
  PROVE  LET g == SlobFree(h, b, n)
         IN  RoverOK(g) /\ FreeOf(g.slob) = FreeOf(h.slob) \cup Room(b, n) /\ g.units = Drop(h.units, b)
  <1> DEFINE s  == h.slob
             D  == DOMAIN s
             un == Un(s)
             c  == Before(h, b)
             t  == LinkNext(s, c, b, n)
             v  == LinkBefore(t, c, b)
             g  == SlobFree(h, b, n)
  <1>1. g.slob = v /\ g.slobfree = c /\ g.units = Drop(h.units, b)
    BY DEF SlobFree, Fields
  <1>2. ListOK(s) /\ ListIn(D, un, Links(s))
    BY DEF RoverOK, ListOK
  <1>3. /\ Arena \in D /\ Arena = 0 /\ un[Arena] = 1
        /\ \A a \in D : a \in Nat /\ un[a] \in Nat \ {0}
    BY <1>2 DEF ListIn, BlocksTyped, Arena
  <1>4. FreeOf(s) = RoomOf(D, un)
    BY DEF FreeOf
  <1> HIDE DEF g, un, s, c
  <1>5. ASSUME NEW a \in D, a # Arena PROVE Room(a, un[a]) \cap Room(b, n) = {}
    <2>1. Room(a, un[a]) \subseteq FreeOf(s)
      BY <1>4, <1>5 DEF RoomOf
    <2> QED BY <2>1 DEF s
  <1>6. \A a \in D : a # Arena => a \in Room(a, un[a])
    BY <1>3 DEF Room
  <1>7. b \in Room(b, n) /\ b # Arena
    BY <1>3 DEF Room
  <1>8. b \notin D
    BY <1>5, <1>6, <1>7
  <1>9. c \in D /\ c < b /\ \A a \in D : a <= c \/ b < a
    BY <1>7, <1>8, BeforeOK DEF c, s
  <1>10. ASSUME NEW a \in D PROVE /\ a < b => a + un[a] <= b
                                  /\ b < a => b + n <= a
    <2>1. CASE a = Arena
      BY <1>3, <2>1
    <2>2. CASE a # Arena
      <3>1. a \in Nat /\ un[a] \in Nat \ {0}
        BY <1>3
      <3>2. ASSUME a < b, b < a + un[a] PROVE FALSE
        <4>1. b \in Room(a, un[a])
          BY <3>1, <3>2 DEF Room
        <4> QED BY <1>5, <1>7, <2>2, <4>1
      <3>3. ASSUME b < a, a < b + n PROVE FALSE
        <4>1. a \in Room(b, n)
          BY <3>1, <3>3 DEF Room
        <4> QED BY <1>5, <1>6, <2>2, <4>1
      <3> QED BY <3>1, <3>2, <3>3
    <2> QED BY <2>1, <2>2
  <1>11. Gap(s, c, b, n)
    BY <1>8, <1>9, <1>10 DEF Gap, GapIn, un
  <1>12. /\ t \in [DOMAIN t -> Headers]
         /\ ListButIn(DOMAIN t, Un(t), Links(t), c, b)
         /\ FreeOf(t) = FreeOf(s) \cup Room(b, n)
    BY <1>2, <1>11, LinkNextOK
  <1> HIDE DEF t
  <1>13. ListOK(v) /\ FreeOf(v) = FreeOf(t) /\ c \in DOMAIN v
    BY <1>12, LinkBeforeOK
  <1>14. \E B \in Nat : \A a \in DOMAIN v : a <= B
    <2>1. PICK B \in Nat : \A a \in D : a <= B
      BY DEF RoverOK, s
    <2>2. \A a \in DOMAIN v : a \in D \/ a = b
      <3>1. DOMAIN t \subseteq D \cup {b}
        BY DEF t, LinkNext, With, Drop, Restrict
      <3>2. DOMAIN v \subseteq DOMAIN t
        BY DEF LinkBefore, Drop, Restrict
      <3> QED BY <3>1, <3>2
    <2>3. B + b \in Nat /\ \A a \in DOMAIN v : a <= B + b
      BY <1>3, <2>1, <2>2
    <2> QED BY <2>3
  <1> HIDE DEF v
  <1> QED BY <1>1, <1>12, <1>13, <1>14 DEF RoverOK, g, s

\* A block that was in use becomes free.
LEMMA ReleaseOK ==
  ASSUME NEW h, DOMAIN h = Fields, NEW X, SmallOK(h, X), NEW b \in DOMAIN h.units
  PROVE  LET g == SlobFree(h, b, h.units[b])
         IN  SmallOK(g, X) /\ g.units = Drop(h.units, b)
  <1> DEFINE u == h.units
             n == u[b]
             g == SlobFree(h, b, n)
  <1>1. /\ b \in Nat /\ b > 1 /\ n \in Nat /\ n > 1
        /\ \A a \in DOMAIN u : a \in Nat /\ a > 1 /\ u[a] > 1 /\ u[a] \in Nat
        /\ \A a, d \in DOMAIN u : a < d => a + u[a] <= d
    BY DEF SmallOK, UsedOK
  <1>2. Room(b, n) \subseteq UsedOf(u)
    BY DEF UsedOf
  <1>3. /\ RoverOK(h) /\ FreeOf(h.slob) \cap UsedOf(u) = {} /\ FreeOf(h.slob) \cup UsedOf(u) = X
    BY DEF SmallOK
  <1>4. n \in Nat \ {0} /\ Room(b, n) \cap FreeOf(h.slob) = {}
    BY <1>1, <1>2, <1>3
  <1> HIDE DEF n
  <1>5. RoverOK(g) /\ FreeOf(g.slob) = FreeOf(h.slob) \cup Room(b, n) /\ g.units = Drop(u, b)
    BY <1>1, <1>3, <1>4, SlobFreeOK
  <1> HIDE DEF g
  <1> DEFINE v == Drop(u, b)
  <1>6. DOMAIN v = DOMAIN u \ {b} /\ \A a \in DOMAIN u \ {b} : v[a] = u[a]
    BY DEF Drop, Restrict
  <1>7. v \in [DOMAIN v -> Nat]
    BY <1>1 DEF Drop, Restrict
  <1> HIDE DEF v, u
  <1>8. UsedOK(v)
    BY <1>1, <1>6, <1>7 DEF UsedOK
  <1>9. ASSUME NEW a \in DOMAIN u, a # b PROVE Room(a, u[a]) \cap Room(b, n) = {}
    <2> SUFFICES ASSUME NEW x \in Room(a, u[a]), x \in Room(b, n) PROVE FALSE
      OBVIOUS
    <2>1. a \in Nat /\ u[a] \in Nat
      BY <1>1
    <2>2. a < b => a + u[a] <= b
      BY <1>1 DEF u
    <2>3. b < a => b + n <= a
      BY <1>1 DEF u, n
    <2> QED BY <1>1, <1>9, <2>1, <2>2, <2>3 DEF Room
  <1>10. UsedOf(u) = UsedOf(v) \cup Room(b, n) /\ UsedOf(v) \cap Room(b, n) = {}
    <2>1. b \in DOMAIN u /\ u[b] = n
      BY DEF u, n
    <2> QED BY <1>6, <1>9, <2>1 DEF UsedOf
  <1> QED BY <1>3, <1>5, <1>8, <1>10 DEF SmallOK, g, v, u, n

\* New units join the free ones.
LEMMA ExtendOK ==
  ASSUME NEW h, DOMAIN h = Fields, NEW X, SmallOK(h, X), NEW b \in Nat, b > 1,
         NEW n \in Nat \ {0}, Room(b, n) \cap X = {}
  PROVE  LET g == SlobFree(h, b, n)
         IN  SmallOK(g, X \cup Room(b, n)) /\ g.units = h.units
  <1> DEFINE u == h.units
             g == SlobFree(h, b, n)
  <1>1. /\ u \in [DOMAIN u -> Nat] /\ \A a \in DOMAIN u : a \in Nat /\ u[a] \in Nat /\ u[a] > 1
    BY DEF SmallOK, UsedOK
  <1>2. /\ RoverOK(h) /\ FreeOf(h.slob) \cap UsedOf(u) = {} /\ FreeOf(h.slob) \cup UsedOf(u) = X
    BY DEF SmallOK
  <1>3. Room(b, n) \cap FreeOf(h.slob) = {}
    BY <1>2
  <1>4. RoverOK(g) /\ FreeOf(g.slob) = FreeOf(h.slob) \cup Room(b, n) /\ g.units = Drop(u, b)
    BY <1>2, <1>3, SlobFreeOK
  <1> HIDE DEF g
  <1>5. b \notin DOMAIN u
    <2> SUFFICES ASSUME b \in DOMAIN u PROVE FALSE
      OBVIOUS
    <2>1. b \in Room(b, u[b]) /\ b \in Room(b, n)
      BY <1>1 DEF Room
    <2>2. b \in UsedOf(u)
      BY <2>1 DEF UsedOf
    <2> QED BY <1>2, <2>1, <2>2
  <1>6. Drop(u, b) = u
    <2>1. Drop(u, b) = [a \in DOMAIN u \ {b} |-> u[a]]
      BY DEF Drop, Restrict
    <2>2. DOMAIN u \ {b} = DOMAIN u
      BY <1>5
    <2> QED BY <1>1, <2>1, <2>2
  <1> QED BY <1>2, <1>4, <1>6 DEF SmallOK, g, u

\* slob_alloc gives a free block to a caller.
LEMMA CarveOK ==
  ASSUME NEW h, DOMAIN h = Fields, NEW X, SmallOK(h, X), NEW n \in Nat, n > 1, Fitting(h, n) # {}
  PROVE  LET g == Carve(h, n)
             b == Walk(h)[Min(Fitting(h, n))]
         IN  /\ SmallOK(g, X) /\ g.units = With(h.units, b, n)
             /\ b \in Nat /\ b > 1 /\ b \notin DOMAIN h.units
  <1> DEFINE s == h.slob
             u == h.units
             k == Min(Fitting(h, n))
             c == Walk(h)[k - 1]
             b == Walk(h)[k]
             g == Carve(h, n)
             t == Cut(s, c, b, n)
             v == With(u, b, n)
  <1>1. g.slob = t /\ g.slobfree = c /\ g.units = v
    BY DEF Carve, Fields
  <1>2. /\ RoverOK(h) /\ UsedOK(u)
        /\ FreeOf(s) \cap UsedOf(u) = {} /\ FreeOf(s) \cup UsedOf(u) = X
    BY DEF SmallOK
  <1>3. c \in DOMAIN s /\ b = s[c].next /\ b # Arena /\ b \in DOMAIN s /\ n <= s[b].units
    BY <1>2, FittingOK
  <1> HIDE DEF k, c, b, g, s
  <1>4. ListOK(s)
    BY <1>2 DEF RoverOK, s
  <1>5. ListOK(t) /\ c \in DOMAIN t /\ FreeOf(t) = FreeOf(s) \ Room(b, n) /\ Room(b, n) \subseteq FreeOf(s)
    BY <1>3, <1>4, CutOK
  <1>6. b \in Nat /\ b > 1
    <2>1. /\ Arena \in DOMAIN s /\ Un(s)[Arena] = 1 /\ b \in Nat /\ Arena = 0
          /\ \A a, d \in DOMAIN s : a < d => a + Un(s)[a] < d
      BY <1>3, <1>4 DEF ListOK, ListIn, BlocksTyped, Arena
    <2>2. Arena < b
      BY <1>3, <2>1
    <2>3. Arena + Un(s)[Arena] < b
      BY <1>3, <2>1, <2>2
    <2> QED BY <2>1, <2>3
  <1>7. \E B \in Nat : \A a \in DOMAIN t : a <= B
    <2>1. PICK B \in Nat : \A a \in DOMAIN s : a <= B
      BY <1>2 DEF RoverOK, s
    <2>2. \A a \in DOMAIN t : a \in DOMAIN s \/ a = b + n
      BY DEF Cut, With, Drop, Restrict
    <2>3. \A a \in DOMAIN s : a \in Nat
      BY <1>4 DEF ListOK, ListIn, BlocksTyped
    <2>4. B + b + n \in Nat /\ \A a \in DOMAIN t : a <= B + b + n
      <3>1. b <= B
        BY <1>3, <2>1
      <3> QED BY <1>6, <2>1, <2>2, <2>3
    <2> QED BY <2>4
  <1> HIDE DEF t, u
  <1>8. /\ u \in [DOMAIN u -> Nat]
        /\ \A a \in DOMAIN u : a \in Nat /\ a > 1 /\ u[a] \in Nat /\ u[a] > 1
        /\ \A a, d \in DOMAIN u : a < d => a + u[a] <= d
    BY <1>2 DEF UsedOK
  <1>9. \A a \in DOMAIN u : Room(a, u[a]) \cap Room(b, n) = {}
    BY <1>2, <1>5 DEF UsedOf
  <1>10. b \notin DOMAIN u
    <2> SUFFICES ASSUME b \in DOMAIN u PROVE FALSE
      OBVIOUS
    <2>1. b \in Room(b, u[b]) /\ b \in Room(b, n)
      BY <1>6, <1>8 DEF Room
    <2> QED BY <1>9, <2>1
  <1>11. /\ DOMAIN v = DOMAIN u \cup {b} /\ v[b] = n /\ \A a \in DOMAIN u : v[a] = u[a]
         /\ v \in [DOMAIN v -> Nat]
    BY <1>8, <1>10 DEF With
  <1> HIDE DEF v
  <1>12. UsedOK(v)
    <2>1. ASSUME NEW a \in DOMAIN v, NEW d \in DOMAIN v, a < d PROVE a + v[a] <= d
      <3>1. CASE a = b
        <4>1. d \in DOMAIN u /\ d \in Nat /\ v[a] = n /\ u[d] \in Nat /\ u[d] > 1
          BY <1>6, <1>8, <1>11, <2>1, <3>1
        <4> SUFFICES ASSUME d < b + n PROVE FALSE
          BY <1>6, <3>1, <4>1
        <4>2. d \in Room(b, n) /\ d \in Room(d, u[d])
          BY <1>6, <2>1, <3>1, <4>1 DEF Room
        <4> QED BY <1>9, <4>1, <4>2
      <3>2. CASE a # b /\ d = b
        <4>1. a \in DOMAIN u /\ a \in Nat /\ v[a] = u[a] /\ u[a] \in Nat
          BY <1>8, <1>11, <3>2
        <4> SUFFICES ASSUME b < a + u[a] PROVE FALSE
          BY <1>6, <3>2, <4>1
        <4>2. b \in Room(b, n) /\ b \in Room(a, u[a])
          BY <1>6, <2>1, <3>2, <4>1 DEF Room
        <4> QED BY <1>9, <4>1, <4>2
      <3>3. CASE a # b /\ d # b
        BY <1>8, <1>11, <2>1, <3>3
      <3> QED BY <3>1, <3>2, <3>3
    <2>2. \A a \in DOMAIN v : a \in Nat /\ a > 1 /\ v[a] > 1
      BY <1>6, <1>8, <1>11
    <2> QED BY <1>11, <2>1, <2>2 DEF UsedOK
  <1>13. UsedOf(v) = UsedOf(u) \cup Room(b, n)
    BY <1>11 DEF UsedOf
  <1>14. FreeOf(t) \cap UsedOf(v) = {} /\ FreeOf(t) \cup UsedOf(v) = X
    BY <1>2, <1>5, <1>13
  <1>15. RoverOK(g) /\ UsedOK(g.units) /\ FreeOf(g.slob) = FreeOf(t) /\ UsedOf(g.units) = UsedOf(v)
    BY <1>1, <1>5, <1>7, <1>12 DEF RoverOK
  <1>16. SmallOK(g, X)
    BY <1>14, <1>15 DEF SmallOK
  <1> QED BY <1>1, <1>6, <1>10, <1>16 DEF g, b, v, u, k

-----------------------------------------------------------------------------
(* The free pages as a set F, and the lengths len that they carry. *)

HeadOK(F, len, h) ==
  /\ h..(h + len[h] - 1) \subseteq F
  /\ \A q \in (h + 1)..(h + len[h] - 1) : len[q] = 0
  /\ h + len[h] \notin F

Blocks(F, len) ==
  /\ \A h \in F : len[h] > 0 => HeadOK(F, len, h)
  /\ \A q \in F : \E h \in F : h <= q /\ q < h + len[h]

\* Two blocks do not touch.
LEMMA Apart ==
  ASSUME NEW F, F \subseteq Pages, NEW len \in [Pages -> 0..N], Blocks(F, len),
         NEW g \in F, NEW h \in F, len[g] > 0, len[h] > 0, g < h
  PROVE  g + len[g] < h
  <1>1. g \in Int /\ h \in Int /\ len[g] \in Int /\ N \in Nat
    BY PagesAssumption DEF Pages
  <1>2. HeadOK(F, len, g)
    BY DEF Blocks
  <1>3. ~(h < g + len[g])
    BY <1>1, <1>2 DEF HeadOK
  <1>4. h # g + len[g]
    BY <1>2 DEF HeadOK
  <1> QED BY <1>1, <1>3, <1>4

\* default_alloc_pages takes the front of a block.
LEMMA AllocBlocks ==
  ASSUME NEW F, F \subseteq Pages, NEW len \in [Pages -> 0..N], Blocks(F, len),
         NEW p \in F, NEW n \in Nat \ {0}, n <= len[p]
  PROVE  LET left == IF len[p] > n THEN [len EXCEPT ![p + n] = len[p] - n] ELSE len
         IN  /\ p..(p + n - 1) \subseteq F
             /\ left \in [Pages -> 0..N]
             /\ Blocks(F \ (p..(p + n - 1)), left)
             /\ \A q \in Pages \ F : left[q] = len[q]
             /\ \A q \in (p + 1)..(p + n - 1) : left[q] = 0
  <1> DEFINE left == IF len[p] > n THEN [len EXCEPT ![p + n] = len[p] - n] ELSE len
             G == F \ (p..(p + n - 1))
  <1>1. N \in Nat /\ p \in 1..N /\ len[p] \in 0..N /\ \A q \in Pages : q \in Int /\ len[q] \in 0..N
    BY PagesAssumption DEF Pages
  <1>0. \A g, h \in F : len[g] > 0 /\ len[h] > 0 /\ g < h => g + len[g] < h
    BY Apart
  <1>2. /\ p..(p + len[p] - 1) \subseteq F
        /\ \A q \in (p + 1)..(p + len[p] - 1) : len[q] = 0
        /\ p + len[p] \notin F
    BY <1>1 DEF Blocks, HeadOK
  <1>3. p..(p + n - 1) \subseteq F
    BY <1>1, <1>2
  <1>4. len[p] > n => p + n \in F /\ p + n \in Pages
    BY <1>1, <1>2
  <1>5. /\ left \in [Pages -> 0..N]
        /\ len[p] > n => left[p + n] = len[p] - n
        /\ \A q \in Pages : q # p + n \/ len[p] = n => left[q] = len[q]
    BY <1>1, <1>4
  <1> HIDE DEF left
  <1>6. \A q \in Pages \ F : left[q] = len[q]
    BY <1>1, <1>4, <1>5
  <1>7. \A q \in (p + 1)..(p + n - 1) : left[q] = 0
    BY <1>1, <1>2, <1>3, <1>5
  <1>8. ASSUME NEW h \in G, left[h] > 0 PROVE HeadOK(G, left, h)
    <2>1. h \in F /\ h \in Pages /\ h \notin p..(p + n - 1) /\ left[h] \in 0..N
      BY <1>5
    <2>2. CASE h = p + n /\ len[p] > n
      BY <1>1, <1>2, <1>5, <2>1, <2>2 DEF HeadOK
    <2>3. CASE ~(h = p + n /\ len[p] > n)
      <3>1. left[h] = len[h] /\ len[h] > 0
        BY <1>1, <1>5, <1>8, <2>1, <2>3
      <3>2. HeadOK(F, len, h)
        BY <2>1, <3>1 DEF Blocks
      <3>3. h # p
        BY <1>1, <2>1
      <3>4. h < p => h + len[h] < p
        BY <1>0, <1>1, <2>1, <3>1
      <3>5. h > p => p + len[p] < h
        BY <1>0, <1>1, <2>1, <3>1
      <3>6. h..(h + len[h] - 1) \cap p..(p + n - 1) = {} /\ (len[p] > n => p + n \notin h..(h + len[h] - 1))
        BY <1>1, <2>1, <3>3, <3>4, <3>5
      <3>7. h..(h + left[h] - 1) \subseteq G
        BY <3>1, <3>2, <3>6 DEF HeadOK
      <3>8. ASSUME NEW q \in (h + 1)..(h + left[h] - 1) PROVE left[q] = 0
        <4>1. q \in F /\ q \in Pages /\ len[q] = 0 /\ (len[p] > n => q # p + n)
          BY <1>1, <2>1, <3>1, <3>2, <3>6 DEF HeadOK
        <4> QED BY <1>1, <1>5, <4>1
      <3> QED BY <3>1, <3>2, <3>7, <3>8 DEF HeadOK
    <2> QED BY <2>2, <2>3
  <1>9. ASSUME NEW q \in G PROVE \E h \in G : h <= q /\ q < h + left[h]
    <2>1. q \in F /\ q \in Pages /\ q \in Int /\ q \notin p..(p + n - 1)
      BY <1>1
    <2>2. PICK h \in F : h <= q /\ q < h + len[h]
      BY <2>1 DEF Blocks
    <2>3. h \in Pages /\ h \in Int /\ len[h] \in 0..N /\ len[h] > 0
      BY <1>1, <2>1, <2>2
    <2>4. CASE h = p
      <3>1. len[p] > n /\ p + n <= q /\ p + n \in G
        BY <1>1, <1>4, <2>1, <2>2, <2>4
      <3> QED BY <1>1, <1>5, <2>1, <2>2, <2>4, <3>1
    <2>5. CASE h # p
      <3>1. h < p => h + len[h] < p
        BY <1>0, <1>1, <2>3
      <3>2. h > p => p + len[p] < h
        BY <1>0, <1>1, <2>3
      <3>3. h \in G /\ left[h] = len[h]
        BY <1>1, <1>5, <2>2, <2>3, <2>5, <3>1, <3>2
      <3> QED BY <2>2, <3>3
    <2> QED BY <2>4, <2>5
  <1>10. Blocks(G, left)
    BY <1>8, <1>9 DEF Blocks
  <1> QED BY <1>3, <1>5, <1>6, <1>7, <1>10 DEF left

\* The same without saying that blocks do not touch.
Tiled(F, len) ==
  /\ \A h \in F : len[h] > 0 => /\ h..(h + len[h] - 1) \subseteq F
                                /\ \A q \in (h + 1)..(h + len[h] - 1) : len[q] = 0
  /\ \A q \in F : \E h \in F : h <= q /\ q < h + len[h]

\* A block put where no free page is.
LEMMA TileAdd ==
  ASSUME NEW F, F \subseteq Pages, NEW len \in [Pages -> 0..N], Tiled(F, len),
         NEW base \in Pages, NEW n \in Nat \ {0},
         base..(base + n - 1) \subseteq Pages \ F,
         \A q \in (base + 1)..(base + n - 1) : len[q] = 0
  PROVE  /\ [len EXCEPT ![base] = n] \in [Pages -> 0..N]
         /\ Tiled(F \cup base..(base + n - 1), [len EXCEPT ![base] = n])
  <1> DEFINE new == [len EXCEPT ![base] = n]
             G == F \cup base..(base + n - 1)
  <1>1. N \in Nat /\ base \in 1..N /\ \A q \in Pages : q \in 1..N /\ len[q] \in 0..N
    BY PagesAssumption DEF Pages
  <1>2. base + n - 1 \in base..(base + n - 1) /\ base \in base..(base + n - 1)
    BY <1>1
  <1>3. n \in 0..N
    BY <1>1, <1>2
  <1>4. /\ new \in [Pages -> 0..N] /\ new[base] = n
        /\ \A q \in Pages : q # base => new[q] = len[q]
    BY <1>3
  <1> HIDE DEF new
  <1>5. ASSUME NEW h \in G, new[h] > 0
        PROVE  /\ h..(h + new[h] - 1) \subseteq G
               /\ \A q \in (h + 1)..(h + new[h] - 1) : new[q] = 0
    <2>1. CASE h = base
      BY <1>1, <1>4, <2>1
    <2>2. CASE h # base
      <3>1. h \in F /\ h \in Pages /\ new[h] = len[h] /\ len[h] > 0
        BY <1>1, <1>4, <1>5, <2>2
      <3>2. /\ h..(h + len[h] - 1) \subseteq F
            /\ \A q \in (h + 1)..(h + len[h] - 1) : len[q] = 0
        BY <3>1 DEF Tiled
      <3>3. \A q \in (h + 1)..(h + len[h] - 1) : q \in F /\ q \in Pages /\ q # base
        BY <1>1, <1>2, <3>1, <3>2
      <3> QED BY <1>4, <3>1, <3>2, <3>3
    <2> QED BY <2>1, <2>2
  <1>6. ASSUME NEW q \in G PROVE \E h \in G : h <= q /\ q < h + new[h]
    <2>1. CASE q \in F
      <3>1. PICK h \in F : h <= q /\ q < h + len[h]
        BY <2>1 DEF Tiled
      <3>2. h # base /\ h \in Pages
        BY <1>2
      <3> QED BY <1>4, <3>1, <3>2
    <2>2. CASE q \in base..(base + n - 1)
      BY <1>1, <1>2, <1>4, <2>2
    <2> QED BY <2>1, <2>2
  <1>7. Tiled(G, new)
    BY <1>5, <1>6 DEF Tiled
  <1> QED BY <1>4, <1>7 DEF new

\* Two blocks side by side may be taken for one.
LEMMA TileMerge ==
  ASSUME NEW F, F \subseteq Pages, NEW len \in [Pages -> 0..N], Tiled(F, len),
         NEW x \in F, NEW y \in F, len[x] > 0, len[y] > 0, x + len[x] = y
  PROVE  /\ [len EXCEPT ![x] = len[x] + len[y], ![y] = 0] \in [Pages -> 0..N]
         /\ Tiled(F, [len EXCEPT ![x] = len[x] + len[y], ![y] = 0])
  <1> DEFINE new == [len EXCEPT ![x] = len[x] + len[y], ![y] = 0]
  <1>1. /\ N \in Nat /\ x \in 1..N /\ y \in 1..N /\ x # y
        /\ \A q \in Pages : q \in 1..N /\ len[q] \in 0..N
    BY PagesAssumption DEF Pages
  <1>2. /\ x..(y - 1) \subseteq F /\ y..(y + len[y] - 1) \subseteq F
        /\ \A q \in (x + 1)..(y - 1) : len[q] = 0
        /\ \A q \in (y + 1)..(y + len[y] - 1) : len[q] = 0
    <2>1. /\ x..(x + len[x] - 1) \subseteq F /\ y..(y + len[y] - 1) \subseteq F
          /\ \A q \in (x + 1)..(x + len[x] - 1) : len[q] = 0
          /\ \A q \in (y + 1)..(y + len[y] - 1) : len[q] = 0
      BY DEF Tiled
    <2> QED BY <1>1, <2>1
  <1>3. len[x] + len[y] \in 0..N
    <2>1. y + len[y] - 1 \in F
      BY <1>1, <1>2
    <2> QED BY <1>1, <2>1
  <1>4. /\ new \in [Pages -> 0..N] /\ new[x] = len[x] + len[y] /\ new[y] = 0
        /\ \A q \in Pages : q # x /\ q # y => new[q] = len[q]
    BY <1>1, <1>3
  <1> HIDE DEF new
  <1>5. ASSUME NEW h \in F, new[h] > 0
        PROVE  /\ h..(h + new[h] - 1) \subseteq F
               /\ \A q \in (h + 1)..(h + new[h] - 1) : new[q] = 0
    <2>1. CASE h = x
      <3>1. ASSUME NEW q \in x..(x + new[x] - 1) PROVE q \in F
        BY <1>1, <1>2, <1>4, <3>1
      <3>2. ASSUME NEW q \in (x + 1)..(x + new[x] - 1) PROVE new[q] = 0
        <4>1. q \in F /\ q \in Pages /\ q # x
          BY <1>1, <3>1, <3>2
        <4>2. q = y \/ len[q] = 0
          BY <1>1, <1>2, <1>4, <3>2
        <4> QED BY <1>4, <4>1, <4>2
      <3> QED BY <2>1, <3>1, <3>2
    <2>2. CASE h # x
      <3>1. h # y /\ h \in Pages /\ new[h] = len[h] /\ len[h] > 0
        BY <1>1, <1>4, <1>5, <2>2
      <3>2. /\ h..(h + len[h] - 1) \subseteq F
            /\ \A q \in (h + 1)..(h + len[h] - 1) : len[q] = 0
        BY <3>1 DEF Tiled
      <3>3. \A q \in (h + 1)..(h + len[h] - 1) : q \in Pages /\ q # x
        BY <1>1, <3>1, <3>2
      <3> QED BY <1>4, <3>1, <3>2, <3>3
    <2> QED BY <2>1, <2>2
  <1>6. ASSUME NEW q \in F PROVE \E h \in F : h <= q /\ q < h + new[h]
    <2>1. PICK h \in F : h <= q /\ q < h + len[h]
      BY DEF Tiled
    <2>2. q \in 1..N /\ h \in 1..N /\ h \in Pages
      BY <1>1
    <2>3. CASE h = x \/ h = y
      <3>1. x <= q /\ q < x + new[x]
        BY <1>1, <1>4, <2>1, <2>2, <2>3
      <3> QED BY <3>1
    <2>4. CASE h # x /\ h # y
      BY <1>4, <2>1, <2>2, <2>4
    <2> QED BY <2>3, <2>4
  <1>7. Tiled(F, new)
    BY <1>5, <1>6 DEF Tiled
  <1> QED BY <1>4, <1>7 DEF new

\* A free page whose predecessor is not free begins a block.
LEMMA Begins ==
  ASSUME NEW F, F \subseteq Pages, NEW len \in [Pages -> 0..N], Tiled(F, len),
         NEW q \in F, q - 1 \notin F
  PROVE  len[q] > 0
  <1>1. PICK h \in F : h <= q /\ q < h + len[h]
    BY DEF Tiled
  <1>2. q \in Nat /\ h \in Nat /\ len[h] \in Nat
    BY PagesAssumption DEF Pages
  <1>3. h..(h + len[h] - 1) \subseteq F
    BY <1>1, <1>2 DEF Tiled
  <1>4. h = q
    BY <1>1, <1>2, <1>3
  <1> QED BY <1>1, <1>2, <1>4

\* A free page whose successor is not free ends a block, which is the nearest one.
LEMMA Ends ==
  ASSUME NEW F, F \subseteq Pages, NEW len \in [Pages -> 0..N], Tiled(F, len),
         NEW q \in F, q + 1 \notin F
  PROVE  \E h \in F : /\ len[h] > 0 /\ h + len[h] = q + 1
                      /\ \A r \in (h + 1)..q : len[r] = 0
  <1>1. PICK h \in F : h <= q /\ q < h + len[h]
    BY DEF Tiled
  <1>2. q \in Nat /\ h \in Nat /\ len[h] \in Nat
    BY PagesAssumption DEF Pages
  <1>3. /\ h..(h + len[h] - 1) \subseteq F
        /\ \A r \in (h + 1)..(h + len[h] - 1) : len[r] = 0
    BY <1>1, <1>2 DEF Tiled
  <1>4. h + len[h] = q + 1
    BY <1>1, <1>2, <1>3
  <1>5. \A r \in (h + 1)..q : len[r] = 0
    BY <1>2, <1>3, <1>4
  <1> QED BY <1>1, <1>2, <1>4, <1>5

\* Blocks are tiles that do not touch.
LEMMA Maximal ==
  ASSUME NEW F, NEW len
  PROVE  Blocks(F, len) <=> /\ Tiled(F, len)
                            /\ \A h \in F : len[h] > 0 => h + len[h] \notin F
  BY DEF Blocks, Tiled, HeadOK

\* The pages base..base+n-1 are not free and, but for the first, carry no length.
Returned(F, len, base, n) ==
  /\ base..(base + n - 1) \subseteq Pages \ F
  /\ \A q \in (base + 1)..(base + n - 1) : len[q] = 0

JoinedNext(F, len, base, n) ==
  IF base + n \in F THEN [len EXCEPT ![base] = n + len[base + n], ![base + n] = 0]
                    ELSE [len EXCEPT ![base] = n]

\* Once they have been joined with the block behind them, only the block before them
\* may still touch.
AfterNext(F, len, base, n, next) ==
  LET G == F \cup base..(base + n - 1)
  IN  /\ next \in [Pages -> 0..N] /\ next[base] > 0
      /\ Tiled(G, next)
      /\ \A h \in G : next[h] > 0 /\ h + next[h] \in G => h + next[h] = base
      /\ \A q \in F : q < base => next[q] = len[q]
      /\ \A q \in Pages \ G : next[q] = len[q]
      /\ \A q \in (base + 1)..(base + n - 1) : next[q] = 0

\* The joining with the block behind the pages given back.
LEMMA FreeNext ==
  ASSUME NEW F, F \subseteq Pages, NEW len \in [Pages -> 0..N], Blocks(F, len),
         NEW base \in Pages, NEW n \in Nat \ {0}, Returned(F, len, base, n)
  PROVE  AfterNext(F, len, base, n, JoinedNext(F, len, base, n))
  <1> DEFINE one  == [len EXCEPT ![base] = n]
             two  == [len EXCEPT ![base] = n + len[base + n], ![base + n] = 0]
             next == JoinedNext(F, len, base, n)
             G    == F \cup base..(base + n - 1)
  <1>0. /\ base..(base + n - 1) \subseteq Pages \ F
        /\ \A q \in (base + 1)..(base + n - 1) : len[q] = 0
    BY DEF Returned
  <1>1. N \in Nat /\ base \in 1..N /\ \A q \in Pages : q \in 1..N /\ len[q] \in 0..N
    BY PagesAssumption DEF Pages
  <1>2. Tiled(F, len) /\ \A h \in F : len[h] > 0 => h + len[h] \notin F
    BY Maximal
  <1>3. one \in [Pages -> 0..N] /\ Tiled(G, one)
    BY <1>0, <1>2, TileAdd
  <1>4. one[base] = n /\ \A q \in Pages : q # base => one[q] = len[q]
    OBVIOUS
  <1>5. G \subseteq Pages /\ base \in G /\ base \notin F
    BY <1>0, <1>1
  <1>6. ASSUME NEW h \in F, len[h] > 0, h + len[h] \in G PROVE h + len[h] = base
    <2>1. h + len[h] \in base..(base + n - 1)
      BY <1>2, <1>6
    <2>2. h + len[h] - 1 \in F
      <3>1. h..(h + len[h] - 1) \subseteq F
        BY <1>2, <1>6 DEF Tiled
      <3> QED BY <1>1, <1>6, <3>1
    <2>3. h + len[h] - 1 \notin base..(base + n - 1)
      BY <1>0, <2>2
    <2> QED BY <1>1, <2>1, <2>3
  <1>7. CASE base + n \notin F
    <2>1. next = one
      BY <1>7 DEF JoinedNext
    <2>2. \A h \in G : one[h] > 0 /\ h + one[h] \in G => h + one[h] = base
      <3> SUFFICES ASSUME NEW h \in G, one[h] > 0, h + one[h] \in G PROVE h + one[h] = base
        OBVIOUS
      <3>1. CASE h = base
        BY <1>1, <1>4, <1>7, <3>1
      <3>2. CASE h # base
        <4>1. one[h] = len[h]
          BY <1>4, <1>5, <3>2
        <4>2. h \in F
          <5>1. ASSUME h \notin F PROVE FALSE
            BY <1>0, <1>1, <3>2, <4>1, <5>1
          <5> QED BY <5>1
        <4> QED BY <1>6, <4>1, <4>2
      <3> QED BY <3>1, <3>2
    <2>3. \A q \in F : q < base => one[q] = len[q]
      BY <1>4, <1>5
    <2>4. \A q \in Pages \ G : one[q] = len[q]
      BY <1>4, <1>5
    <2>5. \A q \in (base + 1)..(base + n - 1) : one[q] = 0
      BY <1>0, <1>1, <1>4
    <2>6. one[base] > 0
      BY <1>4
    <2> QED BY <1>3, <2>1, <2>2, <2>3, <2>4, <2>5, <2>6 DEF AfterNext
  <1>8. CASE base + n \in F
    <2> DEFINE e == base + n
    <2>1. e - 1 \notin F
      BY <1>0, <1>1
    <2>2. len[e] > 0 /\ e \in Pages /\ e # base
      <3>1. len[base + n] > 0
        BY <1>2, <1>8, <2>1, Begins
      <3> QED BY <1>1, <1>8, <3>1
    <2>3. one[e] = len[e] /\ one[base] = n /\ base + one[base] = e /\ e \in G
      BY <1>4, <1>8, <2>2
    <2>4. two = [one EXCEPT ![base] = one[base] + one[e], ![e] = 0]
      BY <1>1, <2>2, <2>3
    <2>5. two \in [Pages -> 0..N] /\ Tiled(G, two)
      <3> HIDE DEF one, two, G
      <3>1. one[base] > 0 /\ one[e] > 0
        BY <2>2, <2>3
      <3> QED BY <1>3, <1>5, <2>3, <2>4, <3>1, TileMerge
    <2>6. /\ two[base] = n + len[e] /\ two[e] = 0
          /\ \A q \in Pages : q # base /\ q # e => two[q] = len[q]
      BY <2>2
    <2>7. next = two
      BY <1>8 DEF JoinedNext
    <2>8. \A h \in G : two[h] > 0 /\ h + two[h] \in G => h + two[h] = base
      <3> SUFFICES ASSUME NEW h \in G, two[h] > 0, h + two[h] \in G PROVE h + two[h] = base
        OBVIOUS
      <3>1. CASE h = base
        <4>1. e + len[e] \notin F /\ e + len[e] = base + two[base]
          BY <1>1, <1>2, <1>8, <2>2, <2>6
        <4> QED BY <1>1, <2>2, <3>1, <4>1
      <3>2. CASE h # base
        <4>1. h # e /\ two[h] = len[h] /\ h \in Pages
          BY <1>5, <2>6, <3>2
        <4>2. h \in F
          <5>1. ASSUME h \notin F PROVE FALSE
            BY <1>0, <1>1, <3>2, <4>1, <5>1
          <5> QED BY <5>1
        <4> QED BY <1>6, <4>1, <4>2
      <3> QED BY <3>1, <3>2
    <2>9. \A q \in F : q < base => two[q] = len[q]
      BY <1>1, <1>5, <2>6
    <2>10. \A q \in Pages \ G : two[q] = len[q]
      BY <1>5, <2>3, <2>6
    <2>11. \A q \in (base + 1)..(base + n - 1) : two[q] = 0
      BY <1>0, <1>1, <2>6
    <2>12. two[base] > 0
      BY <1>1, <2>2, <2>6
    <2> QED BY <2>5, <2>7, <2>8, <2>9, <2>10, <2>11, <2>12 DEF AfterNext
  <1> QED BY <1>7, <1>8

\* ... and once they have been joined with the block before them as well.
LEMMA FreeBefore ==
  ASSUME NEW G, G \subseteq Pages, NEW len \in [Pages -> 0..N], Tiled(G, len),
         NEW base \in G, len[base] > 0,
         \A h \in G : len[h] > 0 /\ h + len[h] \in G => h + len[h] = base,
         NEW g \in G, len[g] > 0, g + len[g] = base
  PROVE  /\ [len EXCEPT ![g] = @ + len[base], ![base] = 0] \in [Pages -> 0..N]
         /\ Blocks(G, [len EXCEPT ![g] = @ + len[base], ![base] = 0])
  <1> DEFINE new == [len EXCEPT ![g] = len[g] + len[base], ![base] = 0]
  <1>1. /\ N \in Nat /\ base \in 1..N /\ g \in 1..N
        /\ \A q \in Pages : q \in 1..N /\ len[q] \in 0..N
    BY PagesAssumption DEF Pages
  <1>2. g # base
    BY <1>1
  <1>3. new \in [Pages -> 0..N] /\ Tiled(G, new)
    BY TileMerge
  <1>4. /\ new[g] = len[g] + len[base] /\ new[base] = 0
        /\ \A q \in Pages : q # g /\ q # base => new[q] = len[q]
    BY <1>2
  <1>5. base + len[base] \notin G
    BY <1>1
  <1>6. ASSUME NEW h \in G, new[h] > 0 PROVE h + new[h] \notin G
    <2>1. CASE h = g
      BY <1>1, <1>4, <1>5, <2>1
    <2>2. CASE h # g
      <3>1. h # base /\ h \in Pages /\ new[h] = len[h]
        BY <1>1, <1>4, <1>6, <2>2
      <3>2. ASSUME h + len[h] = base PROVE FALSE
        <4>1. /\ h..(h + len[h] - 1) \subseteq G /\ g..(g + len[g] - 1) \subseteq G
              /\ \A q \in (h + 1)..(h + len[h] - 1) : len[q] = 0
              /\ \A q \in (g + 1)..(g + len[g] - 1) : len[q] = 0
          BY <1>6, <3>1 DEF Tiled
        <4> QED BY <1>1, <1>6, <2>2, <3>1, <3>2, <4>1
      <3> QED BY <1>6, <3>1, <3>2
    <2> QED BY <2>1, <2>2
  <1>7. Blocks(G, new)
    BY <1>3, <1>6, Maximal
  <1>8. new = [len EXCEPT ![g] = @ + len[base], ![base] = 0]
    OBVIOUS
  <1> QED BY <1>3, <1>7, <1>8

-----------------------------------------------------------------------------
(* The list. *)

AscendingSeq(s) == \A i, j \in 1..Len(s) : i < j => s[i] < s[j]
Elements(s) == {s[i] : i \in 1..Len(s)}

\* A strictly ascending sequence is ascending at any distance.
LEMMA Monotone ==
  ASSUME NEW s \in Seq(Pages), AscendingSeq(s)
  PROVE  \A a, b \in 1..Len(s) : /\ a <= b => s[a] <= s[b]
                                 /\ s[a] < s[b] => a < b
                                 /\ s[a] = s[b] => a = b
  <1> SUFFICES ASSUME NEW a \in 1..Len(s), NEW b \in 1..Len(s)
               PROVE  /\ a <= b => s[a] <= s[b]
                      /\ s[a] < s[b] => a < b
                      /\ s[a] = s[b] => a = b
    OBVIOUS
  <1>1. s[a] \in Nat /\ s[b] \in Nat /\ a \in Nat /\ b \in Nat
    BY PagesAssumption DEF Pages
  <1>2. (a < b => s[a] < s[b]) /\ (b < a => s[b] < s[a])
    BY DEF AscendingSeq
  <1> QED BY <1>1, <1>2

\* Adjacent pages of the set stand next to each other in the list.
LEMMA Consecutive ==
  ASSUME NEW s \in Seq(Pages), AscendingSeq(s), NEW i \in 1..Len(s), NEW d \in Nat,
         s[i]..(s[i] + d) \subseteq Elements(s)
  PROVE  \A k \in 0..d : i + k <= Len(s) /\ s[i + k] = s[i] + k
  <1> DEFINE Good(k) == i + k <= Len(s) /\ s[i + k] = s[i] + k
             Bad == {k \in 0..d : ~Good(k)}
  <1>1. Len(s) \in Nat /\ \A j \in 1..Len(s) : s[j] \in Nat
    BY PagesAssumption DEF Pages
  <1>2. SUFFICES ASSUME Bad # {} PROVE FALSE
    OBVIOUS
  <1>3. PICK k \in Bad : \A l \in Bad : k <= l
    <2>1. Bad \subseteq Nat
      OBVIOUS
    <2> HIDE DEF Bad
    <2> QED BY <1>2, <2>1, Smallest
  <1>4. k # 0 /\ k \in 1..d
    BY <1>1
  <1>5. Good(k - 1)
    BY <1>3, <1>4
  <1>6. s[i] + k \in Elements(s)
    BY <1>1, <1>4
  <1>7. PICK j \in 1..Len(s) : s[j] = s[i] + k
    BY <1>6 DEF Elements
  <1>8. i + (k - 1) < j
    <2>1. ASSUME j <= i + (k - 1) PROVE FALSE
      <3>1. j = i + (k - 1) \/ s[j] < s[i + (k - 1)]
        BY <1>1, <1>4, <1>5, <2>1 DEF AscendingSeq
      <3> QED BY <1>1, <1>4, <1>5, <1>7, <3>1
    <2> QED BY <1>1, <1>4, <2>1
  <1>9. i + k <= Len(s) /\ i + k \in 1..Len(s)
    BY <1>1, <1>4, <1>7, <1>8
  <1>10. s[i + k] = s[i] + k
    <2>1. i + (k - 1) \in 1..Len(s) /\ i + (k - 1) < i + k /\ i + k <= j
      BY <1>1, <1>4, <1>5, <1>8
    <2>2. s[i + (k - 1)] < s[i + k]
      BY <1>9, <2>1 DEF AscendingSeq
    <2>3. s[i + k] <= s[j]
      BY <1>9, <2>1, Monotone
    <2> QED BY <1>1, <1>4, <1>5, <1>7, <1>9, <2>2, <2>3
  <1> QED BY <1>3, <1>9, <1>10

\* What FreeListOK says of the list, in terms of the set of free pages.
CoveredIn(s, len, i) == \E j \in 1..i : len[s[j]] > i - j

BlockIn(s, len, i) ==
  /\ i + len[s[i]] - 1 <= Len(s)
  /\ \A k \in 1..(len[s[i]] - 1) : s[i + k] = s[i] + k /\ len[s[i + k]] = 0
  /\ i + len[s[i]] <= Len(s) => /\ s[i + len[s[i]]] > s[i] + len[s[i]]
                                /\ len[s[i + len[s[i]]]] > 0

\* Places in the list and pages: the same blocks.
LEMMA SeqIsSet ==
  ASSUME NEW s \in Seq(Pages), AscendingSeq(s), NEW len \in [Pages -> 0..N],
         NEW F, F = Elements(s)
  PROVE  (\A i \in 1..Len(s) : CoveredIn(s, len, i) /\ (len[s[i]] > 0 => BlockIn(s, len, i)))
           <=> Blocks(F, len)
  <1>1. /\ N \in Nat
        /\ Len(s) \in Nat /\ \A i \in 1..Len(s) : s[i] \in Pages /\ s[i] \in Nat /\ s[i] \in F
        /\ \A q \in F : \E i \in 1..Len(s) : q = s[i]
    BY PagesAssumption DEF Pages, Elements
  <1>2. F \subseteq Pages /\ \A q \in Pages : q \in Nat /\ len[q] \in 0..N
    BY <1>1 DEF Elements, Pages
  <1>3. ASSUME \A i \in 1..Len(s) : CoveredIn(s, len, i) /\ (len[s[i]] > 0 => BlockIn(s, len, i))
        PROVE  Blocks(F, len)
    <2>1. \A i \in 1..Len(s) : CoveredIn(s, len, i) /\ (len[s[i]] > 0 => BlockIn(s, len, i))
      BY <1>3
    <2>2. ASSUME NEW h \in F, len[h] > 0 PROVE HeadOK(F, len, h)
      <3>1. PICK i \in 1..Len(s) : h = s[i]
        BY <1>1
      <3>0. h \in Nat /\ len[h] \in Nat /\ Len(s) \in Nat /\ i \in Nat
        BY <1>1, <1>2, <3>1
      <3>2. /\ i + len[h] - 1 <= Len(s)
            /\ \A k \in 1..(len[h] - 1) : s[i + k] = h + k /\ len[s[i + k]] = 0
            /\ i + len[h] <= Len(s) => s[i + len[h]] > h + len[h]
        BY <2>1, <2>2, <3>1 DEF BlockIn
      <3>3. \A q \in (h + 1)..(h + len[h] - 1) : q \in F /\ len[q] = 0
        <4> SUFFICES ASSUME NEW q \in (h + 1)..(h + len[h] - 1) PROVE q \in F /\ len[q] = 0
          OBVIOUS
        <4>1. q - h \in 1..(len[h] - 1) /\ i + (q - h) \in 1..Len(s) /\ h + (q - h) = q
          BY <3>0, <3>2
        <4>2. s[i + (q - h)] = q /\ len[s[i + (q - h)]] = 0
          BY <3>2, <4>1
        <4> QED BY <1>1, <4>1, <4>2
      <3>4. h + len[h] \notin F
        <4> SUFFICES ASSUME h + len[h] \in F PROVE FALSE
          OBVIOUS
        <4>1. PICK j \in 1..Len(s) : s[j] = h + len[h]
          BY <1>1
        <4>0. \A a, b \in 1..Len(s) : a <= b => s[a] <= s[b]
          BY <1>1, Monotone
        <4>2. i < j
          <5>1. ASSUME j <= i PROVE FALSE
            <6>1. s[j] <= s[i]
              BY <4>0, <5>1
            <6> QED BY <2>2, <3>0, <3>1, <4>1, <6>1
          <5> QED BY <3>0, <5>1
        <4>3. i + len[h] <= j
          <5>1. ASSUME j < i + len[h] PROVE FALSE
            <6>1. j - i \in 1..(len[h] - 1) /\ i + (j - i) = j
              BY <3>0, <4>2, <5>1
            <6>2. s[j] = h + (j - i)
              BY <3>2, <6>1
            <6> QED BY <3>0, <4>1, <5>1, <6>2
          <5> QED BY <3>0, <5>1
        <4>4. i + len[h] \in 1..Len(s)
          BY <3>0, <4>3
        <4>5. s[i + len[h]] \in Nat /\ s[i + len[h]] <= s[j]
          BY <1>1, <4>0, <4>3, <4>4
        <4>6. s[i + len[h]] > h + len[h]
          BY <3>2, <4>4
        <4> QED BY <3>0, <4>1, <4>5, <4>6
      <3>5. h..(h + len[h] - 1) \subseteq F
        BY <1>2, <3>3
      <3> QED BY <3>3, <3>4, <3>5 DEF HeadOK
    <2>3. ASSUME NEW q \in F PROVE \E h \in F : h <= q /\ q < h + len[h]
      <3>1. PICK i \in 1..Len(s) : q = s[i]
        BY <1>1
      <3>2. PICK j \in 1..i : len[s[j]] > i - j
        BY <2>1 DEF CoveredIn
      <3>3. j \in 1..Len(s) /\ s[j] \in F /\ len[s[j]] > 0 /\ len[s[j]] \in 0..N
        <4>1. j \in 1..Len(s)
          BY <1>1
        <4>2. s[j] \in F /\ len[s[j]] \in 0..N
          BY <1>1, <1>2, <4>1
        <4> QED BY <1>1, <3>2, <4>1, <4>2
      <3>4. s[i] = s[j] + (i - j)
        <4>1. CASE i = j
          BY <1>1, <4>1
        <4>2. CASE i # j
          <5>1. i - j \in 1..(len[s[j]] - 1) /\ j + (i - j) = i
            BY <1>1, <3>2, <3>3, <4>2
          <5>2. BlockIn(s, len, j)
            BY <2>1, <3>3
          <5> QED BY <5>1, <5>2 DEF BlockIn
        <4> QED BY <4>1, <4>2
      <3>5. s[j] <= q /\ q < s[j] + len[s[j]]
        BY <1>1, <3>1, <3>2, <3>3, <3>4
      <3> QED BY <3>3, <3>5
    <2> QED BY <2>2, <2>3 DEF Blocks
  <1>4. ASSUME Blocks(F, len)
        PROVE  \A i \in 1..Len(s) : CoveredIn(s, len, i) /\ (len[s[i]] > 0 => BlockIn(s, len, i))
    <2>1. ASSUME NEW i \in 1..Len(s), len[s[i]] > 0
          PROVE  \A k \in 0..(len[s[i]] - 1) : i + k <= Len(s) /\ s[i + k] = s[i] + k
      <3>1. s[i] \in Pages /\ len[s[i]] - 1 \in Nat /\ s[i]..(s[i] + (len[s[i]] - 1)) \subseteq F
        <4>1. s[i] \in F /\ s[i] \in Nat /\ len[s[i]] \in Nat
          BY <1>1, <1>2
        <4>2. HeadOK(F, len, s[i])
          BY <1>4, <2>1, <4>1 DEF Blocks
        <4> QED BY <1>1, <2>1, <4>1, <4>2 DEF HeadOK
      <3> QED BY <1>1, <3>1, Consecutive
    <2>2. ASSUME NEW i \in 1..Len(s) PROVE CoveredIn(s, len, i)
      <3>1. PICK h \in F : h <= s[i] /\ s[i] < h + len[h]
        BY <1>1, <1>4 DEF Blocks
      <3>2. PICK j \in 1..Len(s) : h = s[j]
        BY <1>1
      <3>3. s[i] \in Nat /\ s[j] \in Nat /\ len[s[j]] \in Nat /\ Len(s) \in Nat
        BY <1>1, <1>2
      <3>4. PICK k \in Nat : k = s[i] - s[j]
        BY <3>1, <3>2, <3>3
      <3>5. len[s[j]] > 0 /\ k \in 0..(len[s[j]] - 1)
        BY <3>1, <3>2, <3>3, <3>4
      <3>6. j + k <= Len(s) /\ s[j + k] = s[j] + k
        BY <2>1, <3>5
      <3>7. j + k \in 1..Len(s) /\ s[j + k] = s[i]
        <4>1. j \in Nat /\ 1 <= j
          OBVIOUS
        <4>2. s[j] + k = s[i]
          BY <3>3, <3>4
        <4> QED BY <3>3, <3>6, <4>1, <4>2
      <3>8. j + k = i
        <4>1. \A a, b \in 1..Len(s) : s[a] = s[b] => a = b
          BY Monotone
        <4> QED BY <3>7, <4>1
      <3>9. j \in 1..i /\ len[s[j]] > i - j
        BY <3>3, <3>4, <3>5, <3>8
      <3> QED BY <3>9 DEF CoveredIn
    <2>3. ASSUME NEW i \in 1..Len(s), len[s[i]] > 0 PROVE BlockIn(s, len, i)
      <3> DEFINE p == s[i]
                 n == len[p]
      <3>0. p \in F /\ p \in Nat /\ n \in Nat \ {0} /\ Len(s) \in Nat
        BY <1>1, <1>2, <2>3
      <3>1. HeadOK(F, len, p) /\ p \in Nat /\ n \in Nat \ {0}
        BY <1>4, <2>3, <3>0 DEF Blocks
      <3>2. i + n - 1 <= Len(s)
        BY <1>1, <2>1, <2>3, <3>1
      <3>3. \A k \in 1..(n - 1) : s[i + k] = p + k /\ len[s[i + k]] = 0
        <4> SUFFICES ASSUME NEW k \in 1..(n - 1) PROVE s[i + k] = p + k /\ len[s[i + k]] = 0
          OBVIOUS
        <4>1. s[i + k] = p + k
          BY <2>1, <2>3, <3>1
        <4>2. p + k \in (p + 1)..(p + n - 1)
          BY <3>1
        <4> QED BY <3>1, <4>1, <4>2 DEF HeadOK
      <3>4. ASSUME i + n <= Len(s) PROVE s[i + n] > p + n /\ len[s[i + n]] > 0
        <4>1. i + (n - 1) \in 1..Len(s) /\ i + n \in 1..Len(s) /\ s[i + (n - 1)] = p + (n - 1)
          <5>1. n - 1 \in 0..(n - 1)
            BY <3>0
          <5>2. i + (n - 1) <= Len(s) /\ s[i + (n - 1)] = p + (n - 1)
            BY <2>1, <2>3, <5>1
          <5> QED BY <3>0, <3>4, <5>2
        <4>2. s[i + n] > p + (n - 1) /\ s[i + n] \in F /\ s[i + n] \in Nat
          <5>1. i + (n - 1) < i + n
            BY <3>0
          <5>2. s[i + (n - 1)] < s[i + n]
            BY <4>1, <5>1 DEF AscendingSeq
          <5> QED BY <1>1, <4>1, <5>2
        <4>3. s[i + n] > p + n
          <5>1. s[i + n] # p + n
            BY <3>1, <4>2 DEF HeadOK
          <5> QED BY <3>0, <4>2, <5>1
        <4>4. s[i + n] - 1 \notin F
          <5> SUFFICES ASSUME s[i + n] - 1 \in F PROVE FALSE
            OBVIOUS
          <5>1. PICK j \in 1..Len(s) : s[j] = s[i + n] - 1
            BY <1>1
          <5>2. \A a, b \in 1..Len(s) : s[a] < s[b] => a < b
            BY <1>1, Monotone
          <5>3. s[j] < s[i + n] /\ s[i + (n - 1)] < s[j]
            <6>1. s[j] \in Nat /\ s[i + n] \in Nat /\ n \in Nat /\ p \in Nat
              BY <1>1, <3>0, <4>2
            <6>2. s[i + (n - 1)] = p + (n - 1)
              BY <4>1
            <6>3. s[i + n] > p + n
              BY <4>3
            <6> HIDE DEF p, n
            <6> QED BY <5>1, <6>1, <6>2, <6>3
          <5>4. j < i + n /\ i + (n - 1) < j
            BY <4>1, <5>2, <5>3
          <5> QED BY <3>0, <5>4
        <4> QED BY <1>1, <1>2, <1>4, <4>2, <4>3, <4>4, Begins, Maximal
      <3> QED BY <3>2, <3>3, <3>4 DEF BlockIn
    <2> QED BY <2>2, <2>3
  <1> QED BY <1>3, <1>4

\* So FreeListOK can be said of the set of free pages.
LEMMA ListIsSet ==
  ASSUME NEW m, PagesTyped(m), Ascending(m)
  PROVE  FreeListOK(m) <=> m.nr_free = Len(m.list) /\ Blocks(FreePageSet(m), m.property)
  <1>1. m.list \in Seq(Pages) /\ m.property \in [Pages -> 0..N] /\ AscendingSeq(m.list)
    BY DEF PagesTyped, Ascending, AscendingSeq
  <1>2. FreePageSet(m) = Elements(m.list)
    BY DEF FreePageSet, Elements
  <1>3. (\A i \in 1..Len(m.list) : /\ CoveredIn(m.list, m.property, i)
                                   /\ m.property[m.list[i]] > 0 => BlockIn(m.list, m.property, i))
          <=> Blocks(FreePageSet(m), m.property)
    BY <1>1, <1>2, SeqIsSet
  <1>4. \A i : /\ Covered(m, i) <=> CoveredIn(m.list, m.property, i)
               /\ BlockAt(m, i) <=> BlockIn(m.list, m.property, i)
    BY DEF Covered, CoveredIn, BlockAt, BlockIn
  <1> QED BY <1>3, <1>4 DEF FreeListOK

\* t is the list s without the n pages from place i on, which are adjacent.
CutAt(s, i, n, t) ==
  /\ i + n - 1 <= Len(s) /\ \A k \in 0..(n - 1) : s[i + k] = s[i] + k
  /\ Len(t) = Len(s) - n
  /\ \A k \in 1..Len(t) : t[k] = IF k < i THEN s[k] ELSE s[k + n]

\* Taking the front pages of a block out of the list.
LEMMA CutSeq ==
  ASSUME NEW s \in Seq(Pages), AscendingSeq(s), NEW i \in 1..Len(s), NEW n \in Nat \ {0},
         NEW t \in Seq(Pages), CutAt(s, i, n, t)
  PROVE  /\ AscendingSeq(t)
         /\ Elements(t) = Elements(s) \ (s[i]..(s[i] + n - 1))
  <1>0. i + n - 1 <= Len(s) /\ \A k \in 0..(n - 1) : s[i + k] = s[i] + k
    BY DEF CutAt
  <1>1. /\ Len(s) \in Nat /\ i \in Nat /\ i >= 1 /\ Len(s) - n \in Nat
        /\ \A j \in 1..Len(s) : s[j] \in Pages /\ s[j] \in Nat
    BY <1>0, PagesAssumption DEF Pages
  <1>2. \A k \in 1..(Len(s) - n) : k \in 1..Len(s) /\ k + n \in 1..Len(s)
    BY <1>1
  <1>4. Len(t) = Len(s) - n
    BY DEF CutAt
  <1>5. \A k \in 1..(Len(s) - n) : t[k] = IF k < i THEN s[k] ELSE s[k + n]
    BY <1>4 DEF CutAt
  <1>6. AscendingSeq(t)
    <2> SUFFICES ASSUME NEW j \in 1..(Len(s) - n), NEW k \in 1..(Len(s) - n), j < k
                 PROVE  t[j] < t[k]
      BY <1>4 DEF AscendingSeq
    <2>1. CASE k < i
      BY <1>1, <1>2, <1>5, <2>1 DEF AscendingSeq
    <2>2. CASE j < i /\ i <= k
      <3>1. j < k + n /\ t[j] = s[j] /\ t[k] = s[k + n]
        BY <1>1, <1>5, <2>2
      <3> QED BY <1>2, <3>1 DEF AscendingSeq
    <2>3. CASE i <= j
      <3>1. j + n < k + n /\ t[j] = s[j + n] /\ t[k] = s[k + n]
        BY <1>1, <1>5, <2>3
      <3> QED BY <1>2, <3>1 DEF AscendingSeq
    <2> QED BY <1>1, <2>1, <2>2, <2>3
  <1>7. ASSUME NEW q \in Elements(t) PROVE q \in Elements(s) \ (s[i]..(s[i] + n - 1))
    <2>1. PICK k \in 1..(Len(s) - n) : q = t[k]
      BY <1>4 DEF Elements
    <2>2. CASE k < i
      <3>1. q = s[k] /\ s[k] < s[i]
        BY <1>2, <1>5, <2>1, <2>2 DEF AscendingSeq
      <3>2. k \in 1..Len(s) /\ q \in Nat
        BY <1>1, <1>2, <3>1
      <3>3. q \notin s[i]..(s[i] + n - 1)
        BY <1>1, <3>1, <3>2
      <3> QED BY <3>1, <3>2, <3>3 DEF Elements
    <2>3. CASE i <= k
      <3>1. q = s[k + n]
        BY <1>1, <1>5, <2>1, <2>3
      <3>2. i + (n - 1) \in 1..Len(s) /\ i + (n - 1) < k + n /\ n - 1 \in 0..(n - 1)
        BY <1>0, <1>1, <2>3
      <3>3. s[i + (n - 1)] = s[i] + (n - 1) /\ s[i + (n - 1)] < s[k + n]
        BY <1>0, <1>2, <3>2 DEF AscendingSeq
      <3>4. q \notin s[i]..(s[i] + n - 1)
        BY <1>1, <3>1, <3>3
      <3> QED BY <1>2, <3>1, <3>4 DEF Elements
    <2> QED BY <1>1, <2>2, <2>3
  <1>8. ASSUME NEW q \in Elements(s), q \notin s[i]..(s[i] + n - 1) PROVE q \in Elements(t)
    <2>1. PICK k \in 1..Len(s) : q = s[k]
      BY DEF Elements
    <2>2. ~(i <= k /\ k <= i + n - 1)
      <3> SUFFICES ASSUME i <= k, k <= i + n - 1 PROVE FALSE
        OBVIOUS
      <3>1. k - i \in 0..(n - 1) /\ i + (k - i) = k
        BY <1>1
      <3>2. s[k] = s[i] + (k - i)
        BY <1>0, <3>1
      <3> QED BY <1>1, <1>8, <2>1, <3>1, <3>2
    <2>3. CASE k < i
      <3>1. k \in 1..(Len(s) - n)
        BY <1>0, <1>1, <2>3
      <3>2. t[k] = s[k]
        BY <1>5, <2>3, <3>1
      <3> QED BY <1>4, <2>1, <3>1, <3>2 DEF Elements
    <2>4. CASE i + n <= k
      <3>1. k - n \in 1..(Len(s) - n) /\ ~(k - n < i) /\ (k - n) + n = k
        BY <1>1, <2>4
      <3>2. t[k - n] = s[k]
        BY <1>5, <3>1
      <3> QED BY <1>4, <2>1, <3>1, <3>2 DEF Elements
    <2> QED BY <1>1, <2>2, <2>3, <2>4
  <1> QED BY <1>6, <1>7, <1>8

\* t is the list s with the n pages base..base+n-1 from place i on, where they belong.
PlaceOf(s, i, base) ==
  /\ \A j \in 1..(i - 1) : s[j] <= base
  /\ i <= Len(s) => s[i] > base

PasteAt(s, i, base, n, t) ==
  /\ base..(base + n - 1) \subseteq Pages \ Elements(s)
  /\ Len(t) = Len(s) + n
  /\ \A k \in 1..Len(t) : t[k] = IF k < i THEN s[k]
                                 ELSE IF k < i + n THEN base + (k - i)
                                 ELSE s[k - n]

\* Putting a run of pages into its place in the list.
LEMMA PasteSeq ==
  ASSUME NEW s \in Seq(Pages), AscendingSeq(s), NEW i \in 1..(Len(s) + 1),
         NEW base \in Pages, NEW n \in Nat \ {0},
         PlaceOf(s, i, base),
         NEW t \in Seq(Pages), PasteAt(s, i, base, n, t)
  PROVE  /\ AscendingSeq(t)
         /\ Elements(t) = Elements(s) \cup base..(base + n - 1)
  <1>0. base..(base + n - 1) \subseteq Pages \ Elements(s)
    BY DEF PasteAt
  <1>1. /\ Len(s) \in Nat /\ i \in Nat /\ i >= 1 /\ base \in Nat
        /\ \A j \in 1..Len(s) : s[j] \in Pages /\ s[j] \in Nat
    <2>1. \A q \in Pages : q \in Nat
      BY PagesAssumption DEF Pages
    <2> QED BY <2>1
  <1>2. \A j \in 1..(i - 1) : j \in 1..Len(s) /\ s[j] < base
    <2> SUFFICES ASSUME NEW j \in 1..(i - 1) PROVE j \in 1..Len(s) /\ s[j] < base
      OBVIOUS
    <2>1. j \in 1..Len(s) /\ s[j] <= base /\ s[j] \in Nat
      BY <1>1 DEF PlaceOf
    <2>2. base \in base..(base + n - 1) /\ s[j] \in Elements(s)
      BY <1>1, <2>1 DEF Elements
    <2> QED BY <1>0, <1>1, <2>1, <2>2
  <1>3. \A j \in i..Len(s) : j \in 1..Len(s) /\ s[j] >= base + n
    <2> SUFFICES ASSUME NEW j \in i..Len(s) PROVE j \in 1..Len(s) /\ s[j] >= base + n
      OBVIOUS
    <2>1. j \in 1..Len(s) /\ i \in 1..Len(s) /\ i <= j /\ s[i] > base
      BY <1>1 DEF PlaceOf
    <2>2. s[i] <= s[j] /\ s[j] \in Nat /\ s[i] \in Nat
      BY <1>1, <2>1, Monotone
    <2>3. s[j] \notin base..(base + n - 1)
      BY <1>0, <2>1 DEF Elements
    <2> QED BY <1>1, <2>1, <2>2, <2>3
  <1>4. \A k \in 1..(Len(s) + n) :
          /\ k < i => k \in 1..(i - 1) /\ t[k] = s[k]
          /\ i <= k /\ k < i + n => t[k] = base + (k - i) /\ base + (k - i) \in base..(base + n - 1)
          /\ i + n <= k => k - n \in i..Len(s) /\ t[k] = s[k - n]
    BY <1>1 DEF PasteAt
  <1>6. Len(t) = Len(s) + n
    BY DEF PasteAt
  <1>7. AscendingSeq(t)
    <2> SUFFICES ASSUME NEW j \in 1..(Len(s) + n), NEW k \in 1..(Len(s) + n), j < k
                 PROVE  t[j] < t[k]
      BY <1>6 DEF AscendingSeq
    <2>1. CASE k < i
      <3>1. j < i
        BY <1>1, <2>1
      <3> QED BY <1>2, <1>4, <2>1, <3>1 DEF AscendingSeq
    <2>2. CASE j < i /\ i <= k /\ k < i + n
      <3>1. t[j] < base /\ t[j] \in Nat
        BY <1>1, <1>2, <1>4, <2>2
      <3>2. t[k] \in base..(base + n - 1)
        BY <1>4, <2>2
      <3> QED BY <1>1, <3>1, <3>2
    <2>3. CASE j < i /\ i + n <= k
      <3>1. t[j] < base /\ t[k] >= base + n /\ t[j] \in Nat /\ t[k] \in Nat
        BY <1>1, <1>2, <1>3, <1>4, <2>3
      <3> QED BY <1>1, <3>1
    <2>4. CASE i <= j /\ k < i + n
      BY <1>1, <1>4, <2>4
    <2>5. CASE i <= j /\ j < i + n /\ i + n <= k
      <3>1. t[j] \in base..(base + n - 1)
        BY <1>4, <2>5
      <3>2. t[k] >= base + n /\ t[k] \in Nat
        BY <1>1, <1>3, <1>4, <2>5
      <3> QED BY <1>1, <3>1, <3>2
    <2>6. CASE i + n <= j
      <3>1. i + n <= k /\ j - n < k - n
        BY <1>1, <2>6
      <3> QED BY <1>3, <1>4, <2>6, <3>1 DEF AscendingSeq
    <2> QED BY <1>1, <2>1, <2>2, <2>3, <2>4, <2>5, <2>6
  <1>8. ASSUME NEW q \in Elements(t) PROVE q \in Elements(s) \cup base..(base + n - 1)
    <2>1. PICK k \in 1..(Len(s) + n) : q = t[k]
      BY <1>6 DEF Elements
    <2>2. CASE k < i
      BY <1>2, <1>4, <2>1, <2>2 DEF Elements
    <2>3. CASE i <= k /\ k < i + n
      BY <1>4, <2>1, <2>3
    <2>4. CASE i + n <= k
      BY <1>3, <1>4, <2>1, <2>4 DEF Elements
    <2> QED BY <1>1, <2>2, <2>3, <2>4
  <1>9. ASSUME NEW q \in Elements(s) PROVE q \in Elements(t)
    <2>1. PICK k \in 1..Len(s) : q = s[k]
      BY DEF Elements
    <2>2. CASE k < i
      <3>1. k \in 1..(Len(s) + n) /\ t[k] = s[k]
        BY <1>1, <1>4, <2>2
      <3> QED BY <1>6, <2>1, <3>1 DEF Elements
    <2>3. CASE i <= k
      <3>1. k + n \in 1..(Len(s) + n) /\ i + n <= k + n /\ (k + n) - n = k
        BY <1>1, <2>3
      <3>2. t[k + n] = s[k]
        BY <1>4, <3>1
      <3> QED BY <1>6, <2>1, <3>1, <3>2 DEF Elements
    <2> QED BY <1>1, <2>2, <2>3
  <1>10. ASSUME NEW q \in base..(base + n - 1) PROVE q \in Elements(t)
    <2>1. i + (q - base) \in 1..(Len(s) + n) /\ i <= i + (q - base) /\ i + (q - base) < i + n
      BY <1>1
    <2>2. t[i + (q - base)] = q
      BY <1>1, <1>4, <2>1
    <2> QED BY <1>6, <2>1, <2>2 DEF Elements
  <1> QED BY <1>7, <1>8, <1>9, <1>10

\* A list of pages in ascending order is not longer than the memory.
LEMMA Short ==
  ASSUME NEW s \in Seq(Pages), AscendingSeq(s)
  PROVE  Len(s) <= N
  <1> DEFINE Bad == {i \in 1..Len(s) : s[i] < i}
  <1>1. Len(s) \in Nat /\ N \in Nat /\ \A i \in 1..Len(s) : s[i] \in 1..N
    BY PagesAssumption DEF Pages
  <1>2. Bad = {}
    <2> SUFFICES ASSUME Bad # {} PROVE FALSE
      OBVIOUS
    <2>1. PICK i \in Bad : \A j \in Bad : i <= j
      <3>1. Bad \subseteq Nat
        OBVIOUS
      <3> HIDE DEF Bad
      <3> QED BY <3>1, Smallest
    <2>2. i > 1 /\ i - 1 \in 1..Len(s) /\ i - 1 < i
      BY <1>1
    <2>3. s[i - 1] >= i - 1
      BY <1>1, <2>1, <2>2
    <2>4. s[i - 1] < s[i]
      BY <2>2 DEF AscendingSeq
    <2> QED BY <1>1, <2>2, <2>3, <2>4
  <1> QED BY <1>1, <1>2

\* default_free_pages finds where the block belongs.
LEMMA PlaceExists ==
  ASSUME NEW s \in Seq(Pages), NEW base \in Pages
  PROVE  \E i \in 1..(Len(s) + 1) : PlaceOf(s, i, base)
  <1> DEFINE T == {i \in 1..(Len(s) + 1) : i <= Len(s) => s[i] > base}
  <1>1. Len(s) \in Nat /\ base \in Nat /\ \A i \in 1..Len(s) : s[i] \in Nat
    <2>1. \A q \in Pages : q \in Nat
      BY PagesAssumption DEF Pages
    <2> QED BY <2>1
  <1>2. PICK i \in T : \A j \in T : i <= j
    <2>1. T \subseteq Nat /\ Len(s) + 1 \in T
      BY <1>1
    <2> HIDE DEF T
    <2> QED BY <2>1, Smallest
  <1>3. \A j \in 1..(i - 1) : s[j] <= base
    <2> SUFFICES ASSUME NEW j \in 1..(i - 1) PROVE s[j] <= base
      OBVIOUS
    <2>1. j \notin T /\ j \in 1..Len(s)
      BY <1>1, <1>2
    <2> QED BY <1>1, <2>1
  <1> QED BY <1>3 DEF PlaceOf

\* The block behind it is the one that begins at the next place of the list ...
LEMMA NextIs ==
  ASSUME NEW s \in Seq(Pages), AscendingSeq(s), NEW base \in Pages, NEW n \in Nat \ {0},
         base..(base + n - 1) \subseteq Pages \ Elements(s),
         NEW i \in 1..(Len(s) + 1), PlaceOf(s, i, base)
  PROVE  i <= Len(s) /\ s[i] = base + n <=> base + n \in Elements(s)
  <1>1. Len(s) \in Nat /\ base \in Nat /\ \A k \in 1..Len(s) : s[k] \in Nat
    <2>1. \A q \in Pages : q \in Nat
      BY PagesAssumption DEF Pages
    <2> QED BY <2>1
  <1>2. ASSUME base + n \in Elements(s) PROVE i <= Len(s) /\ s[i] = base + n
    <2>1. PICK j \in 1..Len(s) : s[j] = base + n
      BY <1>2 DEF Elements
    <2>2. j >= i
      <3> SUFFICES ASSUME j < i PROVE FALSE
        BY <1>1
      <3>1. s[j] <= base
        BY <1>1 DEF PlaceOf
      <3> QED BY <1>1, <2>1, <3>1
    <2>3. i \in 1..Len(s) /\ s[i] > base
      BY <1>1, <2>2 DEF PlaceOf
    <2>4. s[i] <= s[j]
      BY <2>2, <2>3, Monotone
    <2>5. s[i] \notin base..(base + n - 1)
      BY <2>3 DEF Elements
    <2> QED BY <1>1, <2>1, <2>3, <2>4, <2>5
  <1>3. ASSUME i <= Len(s), s[i] = base + n PROVE base + n \in Elements(s)
    <2>1. i \in 1..Len(s)
      BY <1>1, <1>3
    <2> QED BY <1>3, <2>1 DEF Elements
  <1> QED BY <1>2, <1>3

\* ... and the block before it ends at the place before.
LEMMA PreviousIs ==
  ASSUME NEW s \in Seq(Pages), AscendingSeq(s), NEW base \in Pages,
         base \notin Elements(s),
         NEW i \in 1..(Len(s) + 1), PlaceOf(s, i, base)
  PROVE  i > 1 /\ s[i - 1] = base - 1 <=> base - 1 \in Elements(s)
  <1>1. Len(s) \in Nat /\ base \in Nat /\ \A k \in 1..Len(s) : s[k] \in Nat
    <2>1. \A q \in Pages : q \in Nat
      BY PagesAssumption DEF Pages
    <2> QED BY <2>1
  <1>2. ASSUME base - 1 \in Elements(s) PROVE i > 1 /\ s[i - 1] = base - 1
    <2>1. PICK j \in 1..Len(s) : s[j] = base - 1
      BY <1>2 DEF Elements
    <2>2. j < i
      <3> SUFFICES ASSUME j >= i PROVE FALSE
        BY <1>1
      <3>1. i \in 1..Len(s) /\ s[i] > base
        BY <1>1 DEF PlaceOf
      <3>2. s[i] <= s[j]
        BY <3>1, Monotone
      <3> QED BY <1>1, <2>1, <3>1, <3>2
    <2>3. i - 1 \in 1..Len(s) /\ i - 1 \in 1..(i - 1) /\ j <= i - 1
      BY <1>1, <2>2
    <2>4. s[i - 1] <= base /\ s[j] <= s[i - 1]
      <3>1. s[i - 1] <= base
        BY <2>3 DEF PlaceOf
      <3>2. s[j] <= s[i - 1]
        BY <2>3, Monotone
      <3> QED BY <3>1, <3>2
    <2>5. s[i - 1] # base
      BY <2>3 DEF Elements
    <2> QED BY <1>1, <2>1, <2>3, <2>4, <2>5
  <1>3. ASSUME i > 1, s[i - 1] = base - 1 PROVE base - 1 \in Elements(s)
    <2>1. i - 1 \in 1..Len(s)
      BY <1>1, <1>3
    <2> QED BY <1>3, <2>1 DEF Elements
  <1> QED BY <1>2, <1>3

\* What IsHeadBefore says of the list.
HeadIn(s, len, i, j) ==
  /\ j \in 1..(i - 1) /\ len[s[j]] # 0
  /\ \A k \in (j + 1)..(i - 1) : len[s[k]] = 0

\* The nearest page before that carries a length is the first of the block that ends there.
LEMMA HeadEnds ==
  ASSUME NEW s \in Seq(Pages), AscendingSeq(s), NEW len \in [Pages -> 0..N],
         Tiled(Elements(s), len), NEW base \in Pages, base \notin Elements(s),
         NEW i \in 1..(Len(s) + 1), i > 1, s[i - 1] = base - 1
  PROVE  /\ \E j \in 1..(i - 1) : HeadIn(s, len, i, j)
         /\ \A j \in 1..(i - 1) : HeadIn(s, len, i, j) =>
              s[j] \in Elements(s) /\ len[s[j]] > 0 /\ s[j] + len[s[j]] = base
  <1> DEFINE F == Elements(s)
  <1>1. /\ Len(s) \in Nat /\ base \in Nat /\ i - 1 \in 1..Len(s) /\ N \in Nat
        /\ \A k \in 1..Len(s) : s[k] \in Pages /\ s[k] \in Nat /\ s[k] \in F /\ len[s[k]] \in Nat
    <2>1. (\A q \in Pages : q \in Nat) /\ N \in Nat
      BY PagesAssumption DEF Pages
    <2> QED BY <2>1 DEF Elements
  <1>2. PICK h \in F : /\ len[h] > 0 /\ h + len[h] = base
                       /\ \A r \in (h + 1)..(base - 1) : len[r] = 0
    <2>1. F \subseteq Pages
      BY DEF Elements
    <2>2. base - 1 \in F /\ (base - 1) + 1 = base
      <3>1. s[i - 1] \in F
        BY <1>1
      <3> QED BY <1>1, <3>1
    <2>3. \E h \in F : /\ len[h] > 0 /\ h + len[h] = (base - 1) + 1
                       /\ \A r \in (h + 1)..(base - 1) : len[r] = 0
      <3> HIDE DEF F
      <3>1. Tiled(F, len) /\ (base - 1) + 1 \notin F
        BY <2>2 DEF F
      <3> QED BY <2>1, <2>2, <3>1, Ends
    <2> QED BY <2>2, <2>3
  <1>3. PICK j \in 1..Len(s) : s[j] = h
    BY DEF Elements
  <1>4. j \in 1..(i - 1)
    <2>1. s[j] <= s[i - 1]
      BY <1>1, <1>2, <1>3
    <2>2. ~(s[i - 1] < s[j])
      BY <1>1, <2>1
    <2>3. ~(i - 1 < j)
      BY <1>1, <2>2 DEF AscendingSeq
    <2> QED BY <1>1, <2>3
  <1>5. \A k \in (j + 1)..(i - 1) : len[s[k]] = 0
    <2> SUFFICES ASSUME NEW k \in (j + 1)..(i - 1) PROVE len[s[k]] = 0
      OBVIOUS
    <2>1. k \in 1..Len(s) /\ j < k /\ k <= i - 1
      BY <1>1
    <2>2. s[j] < s[k]
      BY <2>1 DEF AscendingSeq
    <2>3. s[k] <= s[i - 1]
      BY <1>1, <2>1, Monotone
    <2>4. s[k] \in (h + 1)..(base - 1)
      BY <1>1, <1>3, <2>1, <2>2, <2>3
    <2> QED BY <1>2, <2>4
  <1>6. HeadIn(s, len, i, j)
    BY <1>2, <1>3, <1>4, <1>5 DEF HeadIn
  <1>7. ASSUME NEW k \in 1..(i - 1), HeadIn(s, len, i, k) PROVE k = j
    <2>1. k < j => FALSE
      BY <1>2, <1>3, <1>4, <1>7 DEF HeadIn
    <2>2. j < k => FALSE
      BY <1>5, <1>7 DEF HeadIn
    <2> QED BY <1>4, <2>1, <2>2
  <1> QED BY <1>2, <1>3, <1>4, <1>6, <1>7

-----------------------------------------------------------------------------
(* The allocator. *)

PagesOK(m) == PagesTyped(m) /\ FreeListOK(m) /\ HeldOK(m) /\ NoPageLost(m)

\* After init_memmap all memory is one block.
LEMMA InitialPages == PagesOK(FreeMemory)
  <1> DEFINE m == FreeMemory
  <1>1. /\ m.list = [k \in 1..N |-> k] /\ m.nr_free = N /\ m.held = {}
        /\ m.property = [p \in Pages |-> IF p = 1 THEN N ELSE 0]
    BY DEF FreeMemory
  <1>2. N \in Nat \ {0} /\ Pages = 1..N
    BY PagesAssumption DEF Pages
  <1> HIDE DEF m
  <1>3. m.list \in Seq(Pages) /\ Len(m.list) = N /\ \A k \in 1..N : m.list[k] = k
    BY <1>1, <1>2
  <1>4. FreePageSet(m) = Pages
    BY <1>2, <1>3 DEF FreePageSet
  <1>5. PagesTyped(m)
    BY <1>1, <1>2, <1>3 DEF PagesTyped
  <1>6. Ascending(m)
    BY <1>3 DEF Ascending
  <1>7. Blocks(Pages, m.property)
    <2>1. 1 \in Pages /\ m.property[1] = N /\ \A p \in Pages \ {1} : m.property[p] = 0
      BY <1>1, <1>2
    <2>2. HeadOK(Pages, m.property, 1)
      BY <1>2, <2>1 DEF HeadOK
    <2>3. \A h \in Pages : m.property[h] > 0 => h = 1
      BY <2>1
    <2>4. \A q \in Pages : 1 <= q /\ q < 1 + m.property[1]
      BY <1>2, <2>1
    <2> QED BY <2>1, <2>2, <2>3, <2>4 DEF Blocks
  <1>8. FreeListOK(m)
    BY <1>1, <1>3, <1>4, <1>5, <1>6, <1>7, ListIsSet
  <1>9. HeldOK(m) /\ NoPageLost(m)
    BY <1>1, <1>4 DEF HeldOK, NoPageLost
  <1> QED BY <1>5, <1>8, <1>9 DEF PagesOK, m

\* default_alloc_pages takes a block that nobody holds and leaves the list in order.
LEMMA AllocOK ==
  ASSUME NEW m, PagesOK(m), NEW n \in Nat \ {0}, CanAlloc(m, n)
  PROVE  /\ PagesOK(AllocPages(m, n))
         /\ AllocPages(m, n).held = m.held \cup {<<AllocBase(m, n), n>>}
         /\ AllocBase(m, n) \in Pages /\ n \in 1..N
         /\ \A b \in m.held : Block(b) \cap Block(<<AllocBase(m, n), n>>) = {}
  <1> DEFINE s   == m.list
             len == m.property
             i   == FirstFit(m, n)
             p   == AllocBase(m, n)
             new == AllocPages(m, n)
             F   == FreePageSet(m)
             left == IF len[p] > n THEN [len EXCEPT ![p + n] = len[p] - n] ELSE len
  <1>1. /\ PagesTyped(m) /\ FreeListOK(m) /\ HeldOK(m) /\ NoPageLost(m)
        /\ s \in Seq(Pages) /\ len \in [Pages -> 0..N] /\ AscendingSeq(s) /\ Ascending(m)
        /\ m.nr_free = Len(s) /\ m.held \subseteq Pages \X (1..N)
    BY DEF PagesOK, PagesTyped, FreeListOK, Ascending, AscendingSeq
  <1>2. F = Elements(s) /\ F \subseteq Pages /\ Blocks(F, len)
    <2>1. F = Elements(s)
      BY DEF FreePageSet, Elements
    <2>2. F \subseteq Pages
      BY <1>1, <2>1 DEF Elements
    <2> QED BY <1>1, <2>1, <2>2, ListIsSet
  <1>3. i \in 1..Len(s) /\ len[s[i]] >= n /\ p = s[i]
    <2>1. Fits(m, n) \subseteq Nat /\ Fits(m, n) # {}
      BY <1>1 DEF CanAlloc, Fits
    <2>2. \E k \in Fits(m, n) : \A j \in Fits(m, n) : k <= j
      BY <2>1, Smallest
    <2>3. i \in Fits(m, n)
      BY <2>2 DEF FirstFit
    <2> QED BY <2>3 DEF Fits, AllocBase
  <1>4. /\ new.list = [k \in 1..(Len(s) - n) |-> IF k < i THEN s[k] ELSE s[k + n]]
        /\ new.property = IF len[p] > n THEN [len EXCEPT ![s[i + n]] = len[p] - n] ELSE len
        /\ new.nr_free = m.nr_free - n
        /\ new.held = m.held \cup {<<p, n>>}
    BY DEF AllocPages, AllocAt, AllocBase
  <1> HIDE DEF i, p, new, s, len, F, left
  <1>5. p \in Pages /\ p \in Nat /\ len[p] \in 0..N /\ N \in Nat /\ Len(s) \in Nat /\ p \in F
        /\ i \in Nat /\ i >= 1
    BY <1>1, <1>2, <1>3, PagesAssumption DEF Pages, Elements
  <1>6. \A k \in 0..(len[p] - 1) : i + k <= Len(s) /\ s[i + k] = p + k
    <2>1. len[p] - 1 \in Nat
      BY <1>3, <1>5
    <2>2. p..(p + (len[p] - 1)) \subseteq F
      <3>1. HeadOK(F, len, p)
        BY <1>2, <1>3, <1>5, <2>1 DEF Blocks
      <3>2. p + (len[p] - 1) = p + len[p] - 1
        BY <1>5
      <3> QED BY <3>1, <3>2 DEF HeadOK
    <2> QED BY <1>1, <1>2, <1>3, <2>1, <2>2, Consecutive
  <1>7. len[p] > n => s[i + n] = p + n
    BY <1>5, <1>6
  <1>8. new.property = left
    BY <1>4, <1>7 DEF left
  <1>9. /\ p..(p + n - 1) \subseteq F
        /\ left \in [Pages -> 0..N]
        /\ Blocks(F \ (p..(p + n - 1)), left)
        /\ \A q \in Pages \ F : left[q] = len[q]
        /\ \A q \in (p + 1)..(p + n - 1) : left[q] = 0
    <2>1. n <= len[p]
      BY <1>3, <1>5
    <2>2. /\ F \subseteq Pages /\ len \in [Pages -> 0..N] /\ Blocks(F, len)
          /\ p \in F /\ n \in Nat \ {0} /\ n <= len[p]
      BY <1>1, <1>2, <1>5, <2>1
    <2> QED BY ONLY <2>2, AllocBlocks DEF left
  <1>10. /\ new.list \in Seq(Pages) /\ Len(new.list) = Len(s) - n
         /\ AscendingSeq(new.list)
         /\ Elements(new.list) = F \ (p..(p + n - 1))
    <2>1. i + n - 1 <= Len(s)
      <3>1. n - 1 \in 0..(len[p] - 1)
        BY <1>3, <1>5
      <3>2. i + (n - 1) <= Len(s)
        BY <1>6, <3>1
      <3> QED BY <1>5, <3>2
    <2>2. \A k \in 0..(n - 1) : s[i + k] = s[i] + k
      BY <1>3, <1>5, <1>6
    <2>3. /\ new.list \in Seq(Pages) /\ Len(new.list) = Len(s) - n
          /\ AscendingSeq(new.list)
          /\ Elements(new.list) = Elements(s) \ (s[i]..(s[i] + n - 1))
      <3>1. /\ Len(s) - n \in Nat
            /\ \A k \in 1..(Len(s) - n) : k \in 1..Len(s) /\ k + n \in 1..Len(s)
        BY <1>5, <2>1
      <3>2. new.list \in [1..(Len(s) - n) -> Pages]
        <4>1. \A k \in 1..Len(s) : s[k] \in Pages
          BY <1>1
        <4> QED BY <1>4, <3>1, <4>1
      <3>3. new.list \in Seq(Pages) /\ Len(new.list) = Len(s) - n
        BY <3>1, <3>2
      <3>4. \A k \in 1..Len(new.list) : new.list[k] = IF k < i THEN s[k] ELSE s[k + n]
        BY <1>4, <3>3
      <3>5. PICK t \in Seq(Pages) : t = new.list
        BY <3>3
      <3>6. PICK j \in 1..Len(s) : j = i
        BY <1>3
      <3>7. /\ s \in Seq(Pages) /\ AscendingSeq(s) /\ j \in 1..Len(s) /\ n \in Nat \ {0}
            /\ t \in Seq(Pages) /\ CutAt(s, j, n, t)
        BY <1>1, <2>1, <2>2, <3>3, <3>4, <3>5, <3>6 DEF CutAt
      <3>8. AscendingSeq(t) /\ Elements(t) = Elements(s) \ (s[j]..(s[j] + n - 1))
        BY ONLY <3>7, CutSeq
      <3> QED BY <3>3, <3>5, <3>6, <3>8
    <2> QED BY <1>2, <1>3, <2>3
  <1>11. n \in 1..N
    BY <1>3, <1>5
  <1>12. PagesTyped(new)
    <2>1. new.nr_free \in 0..N
      <3>1. m.nr_free \in 0..N
        BY <1>1 DEF PagesTyped
      <3>2. Len(s) - n \in Nat
        BY <1>10
      <3> QED BY <1>1, <1>4, <1>5, <3>1, <3>2
    <2>2. new.held \subseteq Pages \X (1..N)
      BY <1>1, <1>4, <1>5, <1>11
    <2> QED BY <1>8, <1>9, <1>10, <2>1, <2>2 DEF PagesTyped
  <1>13. FreePageSet(new) = F \ (p..(p + n - 1))
    BY <1>10 DEF FreePageSet, Elements
  <1>14. FreeListOK(new)
    <2>1. Ascending(new)
      BY <1>10 DEF Ascending, AscendingSeq
    <2>2. new.nr_free = Len(new.list)
      BY <1>1, <1>4, <1>10
    <2> QED BY <1>8, <1>9, <1>12, <1>13, <2>1, <2>2, ListIsSet
  <1>15. Block(<<p, n>>) = p..(p + n - 1)
    BY DEF Block
  <1>16. \A b \in m.held : /\ Block(b) \subseteq Pages
                           /\ Block(b) \cap F = {}
                           /\ \A q \in Block(b) \ {b[1]} : len[q] = 0
    BY <1>1 DEF HeldOK, F, len
  <1>17. \A b, c \in m.held : b # c => Block(b) \cap Block(c) = {}
    BY <1>1 DEF HeldOK
  <1>18. \A b \in m.held : Block(b) \cap Block(<<p, n>>) = {}
    BY <1>9, <1>15, <1>16
  <1>19. HeldOK(new)
    <2>1. ASSUME NEW b \in new.held
          PROVE  /\ Block(b) \subseteq Pages
                 /\ Block(b) \cap FreePageSet(new) = {}
                 /\ \A q \in Block(b) \ {b[1]} : new.property[q] = 0
      <3>1. CASE b \in m.held
        BY <1>8, <1>9, <1>13, <1>16, <3>1
      <3>2. CASE b = <<p, n>>
        <4>1. Block(b) = p..(p + n - 1) /\ b[1] = p
          BY <1>15, <3>2
        <4>2. \A q \in Block(b) \ {b[1]} : q \in (p + 1)..(p + n - 1)
          BY <1>5, <4>1
        <4> QED BY <1>2, <1>8, <1>9, <1>13, <4>1, <4>2
      <3> QED BY <1>4, <3>1, <3>2
    <2>2. \A b, c \in new.held : b # c => Block(b) \cap Block(c) = {}
      BY <1>4, <1>17, <1>18
    <2> QED BY <2>1, <2>2 DEF HeldOK
  <1>20. NoPageLost(new)
    <2> SUFFICES ASSUME NEW q \in Pages
                 PROVE  q \in FreePageSet(new) \/ \E b \in new.held : q \in Block(b)
      BY DEF NoPageLost
    <2>1. q \in F \/ \E b \in m.held : q \in Block(b)
      BY <1>1 DEF NoPageLost, F
    <2> QED BY <1>4, <1>13, <1>15, <2>1
  <1>21. PagesOK(new)
    BY <1>12, <1>14, <1>19, <1>20 DEF PagesOK
  <1> QED BY <1>4, <1>5, <1>11, <1>18, <1>21 DEF new, p

\* The lengths describe maximal blocks again, and nothing else has changed.
AfterFree(F, len, base, n, new) ==
  LET G == F \cup base..(base + n - 1)
  IN  /\ new \in [Pages -> 0..N]
      /\ Blocks(G, new)
      /\ \A q \in Pages \ G : new[q] = len[q]
      /\ \A q \in (base + 1)..(base + n - 1) : new[q] = 0

\* default_free_pages joins a block that was held with both its neighbours.
LEMMA JoinOK ==
  ASSUME NEW m, PagesTyped(m), Ascending(m), Blocks(FreePageSet(m), m.property),
         NEW base \in Pages, NEW n \in Nat \ {0},
         Returned(FreePageSet(m), m.property, base, n),
         NEW i \in 1..(Len(m.list) + 1), PlaceOf(m.list, i, base)
  PROVE  AfterFree(FreePageSet(m), m.property, base, n, JoinBoth(m, i, base, n))
  <1> DEFINE s    == m.list
             len  == m.property
             F    == FreePageSet(m)
             G    == F \cup base..(base + n - 1)
             next == JoinedNext(F, len, base, n)
             new  == JoinBoth(m, i, base, n)
             g    == s[HeadBefore(m, i)]
  <1>1. /\ s \in Seq(Pages) /\ len \in [Pages -> 0..N] /\ AscendingSeq(s) /\ F = Elements(s)
        /\ F \subseteq Pages /\ Blocks(F, len)
    <2>1. s \in Seq(Pages) /\ len \in [Pages -> 0..N] /\ AscendingSeq(s) /\ F = Elements(s)
      BY DEF PagesTyped, Ascending, AscendingSeq, FreePageSet, Elements
    <2> QED BY <2>1 DEF Elements
  <1>0. /\ base..(base + n - 1) \subseteq Pages \ F
        /\ \A q \in (base + 1)..(base + n - 1) : len[q] = 0
    BY DEF Returned
  <1>2. JoinNext(m, i, base, n) = next
    <2>1. i <= Len(s) /\ s[i] = base + n <=> base + n \in F
      <3>1. /\ s \in Seq(Pages) /\ AscendingSeq(s) /\ base \in Pages /\ n \in Nat \ {0}
            /\ base..(base + n - 1) \subseteq Pages \ Elements(s)
            /\ i \in 1..(Len(s) + 1) /\ PlaceOf(s, i, base)
        BY <1>0, <1>1
      <3> HIDE DEF s, F
      <3>2. i <= Len(s) /\ s[i] = base + n <=> base + n \in Elements(s)
        BY ONLY <3>1, NextIs
      <3> QED BY <1>1, <3>2
    <2> QED BY <2>1 DEF JoinNext, JoinedNext
  <1>3. /\ base \in Nat /\ base \in base..(base + n - 1) /\ base \notin F /\ base \in G
        /\ G \subseteq Pages /\ \A q \in Pages : q \in Nat
    <2>1. \A q \in Pages : q \in Nat
      BY PagesAssumption DEF Pages
    <2>2. base \in Nat /\ base \in base..(base + n - 1)
      BY <2>1
    <2> QED BY <1>0, <1>1, <2>1, <2>2
  <1>4. i > 1 /\ s[i - 1] = base - 1 <=> base - 1 \in F
    BY <1>1, <1>3, PreviousIs
  <1>5. new = IF base - 1 \in F /\ (\E j \in 1..(i - 1) : IsHeadBefore(m, i, j))
                THEN [next EXCEPT ![g] = @ + next[base], ![base] = 0] ELSE next
    BY <1>2, <1>4 DEF JoinBoth
  <1>6. /\ len \in [Pages -> 0..N] /\ Blocks(F, len) /\ F \subseteq Pages
        /\ base \in Pages /\ n \in Nat \ {0} /\ Returned(F, len, base, n)
    BY <1>1
  <1> HIDE DEF s, len, F, new, g, next, G
  <1>7. /\ next \in [Pages -> 0..N] /\ next[base] > 0
        /\ Tiled(G, next)
        /\ \A h \in G : next[h] > 0 /\ h + next[h] \in G => h + next[h] = base
        /\ \A q \in F : q < base => next[q] = len[q]
        /\ \A q \in Pages \ G : next[q] = len[q]
        /\ \A q \in (base + 1)..(base + n - 1) : next[q] = 0
    <2>1. AfterNext(F, len, base, n, next)
      BY ONLY <1>6, FreeNext DEF next
    <2> QED BY <2>1 DEF AfterNext, G
  <1>8. CASE base - 1 \notin F
    <2>1. new = next
      BY <1>5, <1>8
    <2>2. ASSUME NEW h \in G, next[h] > 0, h + next[h] \in G PROVE FALSE
      <3>1. h + next[h] = base /\ h \in Nat /\ next[h] \in Nat
        BY <1>3, <1>7, <2>2, PagesAssumption
      <3>2. h..(h + next[h] - 1) \subseteq G
        BY <1>7, <2>2 DEF Tiled
      <3>3. base - 1 \in h..(h + next[h] - 1)
        BY <1>3, <2>2, <3>1
      <3>4. base - 1 \notin base..(base + n - 1)
        BY <1>3
      <3> QED BY <1>8, <3>2, <3>3, <3>4 DEF G
    <2>3. Blocks(G, next)
      BY <1>7, <2>2, Maximal
    <2> QED BY <1>7, <2>1, <2>3 DEF AfterFree, new, len, G, F
  <1>9. CASE base - 1 \in F
    <2>1. \A j : IsHeadBefore(m, i, j) <=> HeadIn(s, len, i, j)
      BY DEF IsHeadBefore, HeadIn, s, len
    <2>2. /\ \E j \in 1..(i - 1) : HeadIn(s, len, i, j)
          /\ \A j \in 1..(i - 1) : HeadIn(s, len, i, j) =>
               s[j] \in F /\ len[s[j]] > 0 /\ s[j] + len[s[j]] = base
      <3>1. /\ s \in Seq(Pages) /\ AscendingSeq(s) /\ len \in [Pages -> 0..N]
            /\ Tiled(Elements(s), len) /\ base \in Pages /\ base \notin Elements(s)
            /\ i \in 1..(Len(s) + 1) /\ i > 1 /\ s[i - 1] = base - 1
        BY <1>1, <1>3, <1>4, <1>9, Maximal DEF s
      <3> QED BY ONLY <1>1, <3>1, HeadEnds
    <2>3. PICK j \in 1..(i - 1) : HeadBefore(m, i) = j /\ IsHeadBefore(m, i, j)
      BY <2>1, <2>2 DEF HeadBefore
    <2>4. g \in F /\ len[g] > 0 /\ g + len[g] = base
      <3>1. g = s[j]
        BY <2>3 DEF g, s
      <3> QED BY <2>1, <2>2, <2>3, <3>1
    <2>5. new = [next EXCEPT ![g] = @ + next[base], ![base] = 0]
      BY <1>5, <1>9, <2>3
    <2>6. g \in G /\ g \in Pages /\ next[g] = len[g]
      <3>1. g \in Nat /\ len[g] \in Nat
        <4>1. N \in Nat
          BY PagesAssumption
        <4> QED BY <1>1, <1>3, <2>4, <4>1
      <3>2. g < base
        BY <1>3, <2>4, <3>1
      <3> QED BY <1>1, <1>7, <2>4, <3>2 DEF G
    <2>7. new \in [Pages -> 0..N] /\ Blocks(G, new)
      <3>1. /\ G \subseteq Pages /\ next \in [Pages -> 0..N] /\ Tiled(G, next)
            /\ base \in G /\ next[base] > 0
            /\ \A h \in G : next[h] > 0 /\ h + next[h] \in G => h + next[h] = base
            /\ g \in G /\ next[g] > 0 /\ g + next[g] = base
        BY <1>3, <1>7, <2>4, <2>6
      <3> QED BY ONLY <2>5, <3>1, FreeBefore
    <2>8. \A q \in Pages \ G : new[q] = len[q]
      BY <1>3, <1>7, <2>5, <2>6
    <2>9. \A q \in (base + 1)..(base + n - 1) : new[q] = 0
      <3> SUFFICES ASSUME NEW q \in (base + 1)..(base + n - 1) PROVE new[q] = 0
        OBVIOUS
      <3>1. q \in base..(base + n - 1) /\ q # base
        BY <1>3
      <3>2. q \in Pages /\ q # g
        BY <1>0, <2>4, <3>1
      <3> QED BY <1>7, <2>5, <3>1, <3>2
    <2> QED BY <2>7, <2>8, <2>9 DEF AfterFree, new, len, G, F
  <1> QED BY <1>8, <1>9

\* default_free_pages gives back a block that is held, which can be taken again.
LEMMA FreeOK ==
  ASSUME NEW m, PagesOK(m), NEW b \in m.held
  PROVE  /\ PagesOK(FreePages(m, b))
         /\ FreePages(m, b).held = m.held \ {b}
  <1> DEFINE s    == m.list
             base == b[1]
             n    == b[2]
             i    == Place(m, base)
             new  == FreePages(m, b)
             F    == FreePageSet(m)
             B    == base..(base + n - 1)
  <1>1. /\ PagesTyped(m) /\ FreeListOK(m) /\ HeldOK(m) /\ NoPageLost(m)
        /\ s \in Seq(Pages) /\ AscendingSeq(s) /\ Ascending(m)
        /\ m.nr_free = Len(s) /\ m.held \subseteq Pages \X (1..N)
    BY DEF PagesOK, PagesTyped, FreeListOK, Ascending, AscendingSeq
  <1>2. F = Elements(s) /\ F \subseteq Pages /\ Blocks(F, m.property)
    <2>1. F = Elements(s)
      BY DEF FreePageSet, Elements
    <2>2. F \subseteq Pages
      BY <1>1, <2>1 DEF Elements
    <2> QED BY <1>1, <2>1, <2>2, ListIsSet
  <1>3. /\ base \in Pages /\ n \in Nat \ {0} /\ b = <<base, n>> /\ Block(b) = B
        /\ N \in Nat /\ base \in Nat /\ base \in B /\ Len(s) \in Nat
    <2>1. b \in Pages \X (1..N) /\ N \in Nat
      BY <1>1, PagesAssumption
    <2> QED BY <1>1, <2>1 DEF Block, Pages
  <1>4. /\ \A c \in m.held : /\ Block(c) \subseteq Pages /\ Block(c) \cap F = {}
                             /\ \A q \in Block(c) \ {c[1]} : m.property[q] = 0
        /\ \A c, d \in m.held : c # d => Block(c) \cap Block(d) = {}
    BY <1>1 DEF HeldOK
  <1>5. B \subseteq Pages \ F /\ \A q \in (base + 1)..(base + n - 1) : m.property[q] = 0
    <2>1. \A q \in (base + 1)..(base + n - 1) : q \in B /\ q # base
      BY <1>3
    <2> QED BY <1>3, <1>4, <2>1
  <1>6. i \in 1..(Len(s) + 1) /\ PlaceOf(s, i, base)
    <2>1. \E k \in 1..(Len(s) + 1) : PlaceOf(s, k, base)
      BY <1>1, <1>3, PlaceExists
    <2> QED BY <2>1 DEF Place, PlaceOf
  <1>7. /\ new.list = [k \in 1..(Len(s) + n) |->
                         IF k < i THEN s[k]
                         ELSE IF k < i + n THEN base + (k - i) ELSE s[k - n]]
        /\ new.property = JoinBoth(m, i, base, n)
        /\ new.nr_free = m.nr_free + n
        /\ new.held = m.held \ {b}
    BY <1>3 DEF FreePages, FreeAt
  <1> HIDE DEF base, n, i, new
  <1>8. /\ new.property \in [Pages -> 0..N]
        /\ Blocks(F \cup B, new.property)
        /\ \A q \in Pages \ (F \cup B) : new.property[q] = m.property[q]
        /\ \A q \in (base + 1)..(base + n - 1) : new.property[q] = 0
    <2>1. /\ PagesTyped(m) /\ Ascending(m) /\ Blocks(FreePageSet(m), m.property)
          /\ base \in Pages /\ n \in Nat \ {0}
          /\ Returned(FreePageSet(m), m.property, base, n)
          /\ i \in 1..(Len(m.list) + 1) /\ PlaceOf(m.list, i, base)
      BY <1>1, <1>2, <1>3, <1>5, <1>6 DEF Returned
    <2>2. AfterFree(FreePageSet(m), m.property, base, n, JoinBoth(m, i, base, n))
      BY ONLY <2>1, JoinOK
    <2> QED BY <1>7, <2>2 DEF AfterFree
  <1> HIDE DEF s, F
  <1>9. /\ new.list \in Seq(Pages) /\ Len(new.list) = Len(s) + n
        /\ AscendingSeq(new.list) /\ Elements(new.list) = F \cup B
    <2>1. new.list \in [1..(Len(s) + n) -> Pages]
      <3> SUFFICES ASSUME NEW k \in 1..(Len(s) + n)
                   PROVE  (IF k < i THEN s[k] ELSE IF k < i + n THEN base + (k - i) ELSE s[k - n])
                            \in Pages
        BY <1>7
      <3>0. \A j \in 1..Len(s) : s[j] \in Pages
        BY <1>1
      <3>1. CASE k < i
        BY <1>3, <1>6, <3>0, <3>1
      <3>2. CASE i <= k /\ k < i + n
        <4>1. base + (k - i) \in B
          BY <1>3, <1>6, <3>2
        <4> QED BY <1>3, <1>5, <1>6, <3>2, <4>1
      <3>3. CASE i + n <= k
        <4>1. k - n \in 1..Len(s)
          BY <1>3, <1>6, <3>3
        <4> QED BY <1>3, <1>6, <3>0, <3>3, <4>1
      <3> QED BY <1>3, <1>6, <3>1, <3>2, <3>3
    <2>2. new.list \in Seq(Pages) /\ Len(new.list) = Len(s) + n
      <3>1. Len(s) + n \in Nat
        BY <1>3
      <3> QED BY <2>1, <3>1
    <2>3. PICK t \in Seq(Pages) : t = new.list
      BY <2>2
    <2>4. PICK j \in 1..(Len(s) + 1) : j = i
      BY <1>6
    <2>5. PasteAt(s, j, base, n, t)
      BY <1>2, <1>5, <1>7, <2>2, <2>3, <2>4 DEF PasteAt
    <2>6. /\ s \in Seq(Pages) /\ AscendingSeq(s) /\ j \in 1..(Len(s) + 1)
          /\ base \in Pages /\ n \in Nat \ {0}
          /\ PlaceOf(s, j, base) /\ t \in Seq(Pages) /\ PasteAt(s, j, base, n, t)
      BY <1>1, <1>2, <1>3, <1>5, <1>6, <2>3, <2>4, <2>5
    <2>7. AscendingSeq(t) /\ Elements(t) = Elements(s) \cup base..(base + n - 1)
      BY ONLY <2>6, PasteSeq
    <2> QED BY <1>2, <2>2, <2>3, <2>7
  <1>10. FreePageSet(new) = F \cup B
    BY <1>9 DEF FreePageSet, Elements
  <1>11. PagesTyped(new)
    <2>1. new.nr_free = Len(new.list) /\ Len(new.list) \in Nat /\ Len(new.list) <= N
      BY <1>1, <1>3, <1>7, <1>9, Short
    <2>2. new.held \subseteq Pages \X (1..N)
      BY <1>1, <1>7
    <2> QED BY <1>3, <1>8, <1>9, <2>1, <2>2 DEF PagesTyped
  <1>12. FreeListOK(new)
    <2>1. Ascending(new)
      BY <1>9 DEF Ascending, AscendingSeq
    <2>2. new.nr_free = Len(new.list)
      BY <1>1, <1>7, <1>9
    <2> QED BY <1>8, <1>10, <1>11, <2>1, <2>2, ListIsSet
  <1>13. HeldOK(new)
    <2>1. ASSUME NEW c \in new.held
          PROVE  /\ Block(c) \subseteq Pages /\ Block(c) \cap FreePageSet(new) = {}
                 /\ \A q \in Block(c) \ {c[1]} : new.property[q] = 0
      <3>1. c \in m.held /\ Block(c) \cap B = {}
        BY <1>3, <1>4, <1>7, <2>1
      <3>2. Block(c) \subseteq Pages /\ Block(c) \cap (F \cup B) = {}
        BY <1>4, <3>1
      <3> QED BY <1>4, <1>8, <1>10, <3>1, <3>2
    <2> QED BY <1>4, <1>7, <2>1 DEF HeldOK
  <1>14. NoPageLost(new)
    <2> SUFFICES ASSUME NEW q \in Pages
                 PROVE  q \in FreePageSet(new) \/ \E c \in new.held : q \in Block(c)
      BY DEF NoPageLost
    <2>1. q \in F \/ \E c \in m.held : q \in Block(c)
      BY <1>1 DEF NoPageLost, F
    <2> QED BY <1>3, <1>7, <1>10, <2>1
  <1>15. PagesOK(new)
    BY <1>11, <1>12, <1>13, <1>14 DEF PagesOK
  <1> QED BY <1>7, <1>15 DEF new

-----------------------------------------------------------------------------
(* The heap. *)

\* The blocks of pages that the entries of a list of big blocks stand for.
PagesOf(bigs) == {<<bigs[i].page, Shl[bigs[i].order]>> : i \in 1..Len(bigs)}

\* The pages that the list of big blocks has, and those taken directly, are held, once.
OwnedBy(m, bigs, tk) ==
  /\ PagesOK(m)
  /\ \E S : bigs \in Seq(S)
  /\ \A i \in 1..Len(bigs) : bigs[i].page \in Nat
  /\ \A i, j \in 1..Len(bigs) : bigs[i].page = bigs[j].page => i = j
  /\ tk \subseteq m.held
  /\ PagesOf(bigs) \subseteq m.held
  /\ tk \cap PagesOf(bigs) = {}

\* A block of pages has at least one.
LEMMA ShlPositive == \A k \in Nat : Shl[k] \in Nat \ {0}
  <1> DEFINE Bad == {k \in Nat : Shl[k] \notin Nat \ {0}}
  <1>0. Shl = [k \in Nat |-> IF k = 0 THEN 1 ELSE 2 * Shl[k - 1]]
    BY DEF Shl
  <1>1. \A k \in Nat : Shl[k] = IF k = 0 THEN 1 ELSE 2 * Shl[k - 1]
    BY <1>0
  <1>2. SUFFICES ASSUME Bad # {} PROVE FALSE
    OBVIOUS
  <1>3. PICK k \in Bad : \A l \in Bad : k <= l
    <2>1. Bad \subseteq Nat
      OBVIOUS
    <2> HIDE DEF Bad
    <2> QED BY <1>2, <2>1, Smallest
  <1>4. k # 0
    BY <1>1, <1>3
  <1>5. k - 1 \in Nat /\ k - 1 \notin Bad
    BY <1>3, <1>4
  <1> QED BY <1>1, <1>3, <1>4, <1>5

\* find_order ends, and with a number.
LEMMA OrderNat == \A n \in Nat : order[n] \in Nat
  <1> DEFINE Bad == {n \in Nat : order[n] \notin Nat}
  <1>0. order = [n \in Nat |-> IF n > U THEN 1 + order[n \div 2] ELSE 0]
    BY DEF order
  <1>1. \A n \in Nat : order[n] = IF n > U THEN 1 + order[n \div 2] ELSE 0
    BY <1>0
  <1>2. SUFFICES ASSUME Bad # {} PROVE FALSE
    OBVIOUS
  <1>3. PICK n \in Bad : \A l \in Bad : n <= l
    <2>1. Bad \subseteq Nat
      OBVIOUS
    <2> HIDE DEF Bad
    <2> QED BY <1>2, <2>1, Smallest
  <1>4. n > U /\ U > 2 /\ U \in Nat
    BY <1>1, <1>3, HeapAssumption
  <1>5. n \div 2 \in Nat /\ n \div 2 < n
    BY <1>3, <1>4
  <1>6. n \div 2 \notin Bad
    BY <1>3, <1>5
  <1> QED BY <1>1, <1>3, <1>4, <1>5, <1>6

\* A large object gets one page or more.
LEMMA LargePages == ASSUME NEW n \in Large PROVE Shl[FindOrder(n)] \in Nat \ {0}
  <1>1. n \in Nat
    BY HeapAssumption
  <1> QED BY <1>1, OrderNat, ShlPositive DEF FindOrder

-----------------------------------------------------------------------------
(* slob_alloc takes a page at most and leaves the list of big blocks alone. *)

\* slob_free does not touch the pages.
LEMMA SlobFreeKeeps ==
  ASSUME NEW h, DOMAIN h = Fields, NEW b, NEW n
  PROVE  /\ DOMAIN SlobFree(h, b, n) = Fields
         /\ SlobFree(h, b, n).pmm = h.pmm
         /\ SlobFree(h, b, n).big = h.big
  BY DEF SlobFree, Fields

\* Nor does cutting a unit block.
LEMMA CarveKeeps ==
  ASSUME NEW h, DOMAIN h = Fields, NEW n
  PROVE  /\ DOMAIN Carve(h, n) = Fields
         /\ Carve(h, n).pmm = h.pmm
         /\ Carve(h, n).big = h.big
  BY DEF Carve, Fields

-----------------------------------------------------------------------------
(* What the heap does with pages. *)

\* What is owned is held after pages were taken that go to nobody yet.
LEMMA OwnedAlloc ==
  ASSUME NEW m, NEW bigs, NEW tk, OwnedBy(m, bigs, tk), NEW n \in Nat \ {0}, CanAlloc(m, n)
  PROVE  /\ OwnedBy(AllocPages(m, n), bigs, tk)
         /\ \A b \in m.held : b[1] # AllocBase(m, n)
         /\ AllocPages(m, n).held = m.held \cup {<<AllocBase(m, n), n>>}
         /\ AllocBase(m, n) \in Nat
  <1> DEFINE p == AllocBase(m, n)
  <1>1. PagesOK(m) /\ m.held \subseteq Pages \X (1..N)
    BY DEF OwnedBy, PagesOK, PagesTyped
  <1>2. /\ PagesOK(AllocPages(m, n))
        /\ AllocPages(m, n).held = m.held \cup {<<p, n>>}
        /\ p \in Pages
        /\ \A b \in m.held : Block(b) \cap Block(<<p, n>>) = {}
    BY <1>1, AllocOK
  <1>3. p \in Nat
    BY <1>2, PagesAssumption DEF Pages
  <1>4. ASSUME NEW b \in m.held PROVE b[1] # p
    <2>1. b[1] \in Pages /\ b[2] \in 1..N
      BY <1>1
    <2>2. b[1] \in Nat /\ b[2] \in Nat \ {0}
      BY <2>1, PagesAssumption DEF Pages
    <2>3. b[1] \in Block(b) /\ p \in Block(<<p, n>>)
      BY <1>3, <2>2 DEF Block
    <2> QED BY <1>2, <2>3
  <1> QED BY <1>2, <1>3, <1>4 DEF OwnedBy

\* What is owned is held after pages were taken directly.
LEMMA OwnedTake ==
  ASSUME NEW m, NEW bigs, NEW tk, OwnedBy(m, bigs, tk), NEW n \in Nat \ {0}, CanAlloc(m, n)
  PROVE  OwnedBy(AllocPages(m, n), bigs, tk \cup {<<AllocBase(m, n), n>>})
  <1> DEFINE p == AllocBase(m, n)
             new == AllocPages(m, n)
  <1>1. /\ OwnedBy(new, bigs, tk) /\ \A b \in m.held : b[1] # p
        /\ new.held = m.held \cup {<<p, n>>}
    BY OwnedAlloc
  <1>2. PagesOf(bigs) \subseteq m.held
    BY DEF OwnedBy
  <1>3. <<p, n>> \notin PagesOf(bigs)
    BY <1>1, <1>2
  <1> HIDE DEF p, new
  <1>4. /\ tk \cup {<<p, n>>} \subseteq new.held
        /\ (tk \cup {<<p, n>>}) \cap PagesOf(bigs) = {}
    BY <1>1, <1>3 DEF OwnedBy
  <1> QED BY <1>1, <1>4 DEF OwnedBy, p, new

\* What is owned is held after pages were given back directly.
LEMMA OwnedGive ==
  ASSUME NEW m, NEW bigs, NEW tk, OwnedBy(m, bigs, tk), NEW b \in tk
  PROVE  OwnedBy(FreePages(m, b), bigs, tk \ {b})
  <1>1. PagesOK(m) /\ b \in m.held
    BY DEF OwnedBy
  <1>2. PagesOK(FreePages(m, b)) /\ FreePages(m, b).held = m.held \ {b}
    BY <1>1, FreeOK
  <1> QED BY <1>2 DEF OwnedBy

\* What is owned is held after a big block was entered.
LEMMA OwnedBig ==
  ASSUME NEW m, NEW bigs, NEW tk, OwnedBy(m, bigs, tk), NEW x,
         Shl[x.order] \in Nat \ {0}, CanAlloc(m, Shl[x.order]),
         x.page = AllocBase(m, Shl[x.order])
  PROVE  OwnedBy(AllocPages(m, Shl[x.order]), <<x>> \o bigs, tk)
  <1> DEFINE n   == Shl[x.order]
             p   == x.page
             new == AllocPages(m, n)
             s   == <<x>> \o bigs
  <1>1. /\ OwnedBy(new, bigs, tk) /\ \A b \in m.held : b[1] # p
        /\ new.held = m.held \cup {<<p, n>>} /\ p \in Nat
    BY OwnedAlloc
  <1>2. /\ PagesOf(bigs) \subseteq m.held /\ tk \subseteq m.held /\ tk \cap PagesOf(bigs) = {}
        /\ \A i \in 1..Len(bigs) : bigs[i].page \in Nat
        /\ \A i, j \in 1..Len(bigs) : bigs[i].page = bigs[j].page => i = j
    BY DEF OwnedBy
  <1>3. PICK S : bigs \in Seq(S)
    BY DEF OwnedBy
  <1>4. /\ s \in Seq(S \cup {x}) /\ Len(s) = Len(bigs) + 1 /\ Len(bigs) \in Nat
        /\ \A i \in 1..Len(s) : s[i] = IF i = 1 THEN x ELSE bigs[i - 1]
    <2>1. <<x>> \in Seq(S \cup {x}) /\ bigs \in Seq(S \cup {x}) /\ Len(<<x>>) = 1 /\ <<x>>[1] = x
      BY <1>3, SeqMonotonic
    <2>2. Len(bigs) \in Nat
      BY <2>1
    <2>3. /\ s \in Seq(S \cup {x}) /\ Len(s) = Len(<<x>>) + Len(bigs)
          /\ \A i \in 1..(Len(<<x>>) + Len(bigs)) :
               s[i] = IF i <= Len(<<x>>) THEN <<x>>[i] ELSE bigs[i - Len(<<x>>)]
      BY <2>1, ConcatProperties
    <2> QED BY <2>1, <2>2, <2>3
  <1> HIDE DEF s, n, new, p
  <1>5. \A i \in 1..Len(s) : \/ i = 1 /\ s[i] = x
                             \/ i - 1 \in 1..Len(bigs) /\ s[i] = bigs[i - 1]
    BY <1>4
  <1>6. PagesOf(s) = PagesOf(bigs) \cup {<<p, n>>}
    <2>1. ASSUME NEW i \in 1..Len(s)
          PROVE  <<s[i].page, Shl[s[i].order]>> \in PagesOf(bigs) \cup {<<p, n>>}
      BY <1>5 DEF PagesOf, p, n
    <2>2. ASSUME NEW i \in 1..Len(bigs) PROVE <<bigs[i].page, Shl[bigs[i].order]>> \in PagesOf(s)
      <3>1. i + 1 \in 1..Len(s) /\ s[i + 1] = bigs[i]
        BY <1>4
      <3> QED BY <3>1 DEF PagesOf
    <2>3. <<p, n>> \in PagesOf(s)
      <3>1. 1 \in 1..Len(s) /\ s[1] = x
        BY <1>4
      <3> QED BY <3>1 DEF PagesOf, p, n
    <2> QED BY <2>1, <2>2, <2>3 DEF PagesOf
  <1>7. \A i \in 1..Len(bigs) : bigs[i].page # p
    <2>1. \A i \in 1..Len(bigs) : <<bigs[i].page, Shl[bigs[i].order]>> \in m.held
      BY <1>2 DEF PagesOf
    <2> QED BY <1>1, <2>1
  <1>8. \A i \in 1..Len(s) : s[i].page \in Nat
    BY <1>1, <1>2, <1>5 DEF p
  <1>9. \A i, j \in 1..Len(s) : s[i].page = s[j].page => i = j
    <2> SUFFICES ASSUME NEW i \in 1..Len(s), NEW j \in 1..Len(s), s[i].page = s[j].page
                 PROVE  i = j
      OBVIOUS
    <2>1. CASE i = 1 /\ j = 1
      BY <2>1
    <2>2. CASE i = 1 /\ j # 1
      <3>1. s[i].page = p /\ j - 1 \in 1..Len(bigs) /\ s[j] = bigs[j - 1]
        BY <1>4, <1>5, <2>2 DEF p
      <3> QED BY <1>7, <3>1
    <2>3. CASE i # 1 /\ j = 1
      <3>1. s[j].page = p /\ i - 1 \in 1..Len(bigs) /\ s[i] = bigs[i - 1]
        BY <1>4, <1>5, <2>3 DEF p
      <3> QED BY <1>7, <3>1
    <2>4. CASE i # 1 /\ j # 1
      <3>1. /\ i - 1 \in 1..Len(bigs) /\ s[i] = bigs[i - 1]
            /\ j - 1 \in 1..Len(bigs) /\ s[j] = bigs[j - 1]
        BY <1>5, <2>4
      <3>2. bigs[i - 1].page = bigs[j - 1].page
        BY <3>1
      <3>3. i - 1 = j - 1
        BY <1>2, <3>1, <3>2
      <3> QED BY <3>3
    <2> QED BY <2>1, <2>2, <2>3, <2>4
  <1>10. tk \cap PagesOf(s) = {}
    BY <1>1, <1>2, <1>6
  <1>11. \E T : s \in Seq(T)
    BY <1>4
  <1> QED BY <1>1, <1>2, <1>6, <1>8, <1>9, <1>10, <1>11 DEF OwnedBy, new, n, s

\* The list without its entry i.
Without(s, i) == SubSeq(s, 1, i - 1) \o SubSeq(s, i + 1, Len(s))

\* A list without one of its entries.
LEMMA WithoutOne ==
  ASSUME NEW S, NEW s \in Seq(S), NEW i \in 1..Len(s)
  PROVE  /\ Without(s, i) \in Seq(S) /\ Len(Without(s, i)) = Len(s) - 1
         /\ \A k \in 1..(Len(s) - 1) : Without(s, i)[k] = IF k < i THEN s[k] ELSE s[k + 1]
  <1> DEFINE a == SubSeq(s, 1, i - 1)
             b == SubSeq(s, i + 1, Len(s))
  <1>1. Len(s) \in Nat /\ i \in Nat /\ i >= 1 /\ i <= Len(s) /\ \A k \in 1..Len(s) : s[k] \in S
    OBVIOUS
  <1>2. a \in Seq(S) /\ Len(a) = i - 1 /\ \A k \in 1..(i - 1) : a[k] = s[k]
    <2>1. i - 1 \in Int /\ 1 \in Int /\ \A k \in 1..(i - 1) : s[k] \in S
      BY <1>1
    <2>2. /\ a \in Seq(S) /\ Len(a) = IF 1 <= i - 1 THEN (i - 1) - 1 + 1 ELSE 0
          /\ \A k \in 1..((i - 1) - 1 + 1) : a[k] = s[1 + k - 1]
      BY <2>1, SubSeqProperties
    <2> QED BY <1>1, <2>2
  <1>3. b \in Seq(S) /\ Len(b) = Len(s) - i /\ \A k \in 1..(Len(s) - i) : b[k] = s[i + k]
    <2>1. i + 1 \in Int /\ Len(s) \in Int /\ \A k \in (i + 1)..Len(s) : s[k] \in S
      BY <1>1
    <2>2. /\ b \in Seq(S) /\ Len(b) = IF i + 1 <= Len(s) THEN Len(s) - (i + 1) + 1 ELSE 0
          /\ \A k \in 1..(Len(s) - (i + 1) + 1) : b[k] = s[(i + 1) + k - 1]
      BY <2>1, SubSeqProperties
    <2> QED BY <1>1, <2>2
  <1> HIDE DEF a, b
  <1>4. /\ a \o b \in Seq(S) /\ Len(a \o b) = Len(a) + Len(b)
        /\ \A k \in 1..(Len(a) + Len(b)) : (a \o b)[k] = IF k <= Len(a) THEN a[k] ELSE b[k - Len(a)]
    BY <1>2, <1>3, ConcatProperties
  <1>5. Len(a \o b) = Len(s) - 1
    BY <1>1, <1>2, <1>3, <1>4
  <1>6. ASSUME NEW k \in 1..(Len(s) - 1) PROVE (a \o b)[k] = IF k < i THEN s[k] ELSE s[k + 1]
    <2>0. k \in 1..(Len(a) + Len(b)) /\ Len(a) = i - 1 /\ k \in Nat
      BY <1>1, <1>2, <1>3
    <2>1. CASE k < i
      <3>1. k <= Len(a) /\ k \in 1..(i - 1)
        BY <1>1, <2>0, <2>1
      <3>2. (a \o b)[k] = a[k]
        BY <1>4, <2>0, <3>1
      <3> QED BY <1>2, <2>1, <3>1, <3>2
    <2>2. CASE ~(k < i)
      <3>0. ~(k <= Len(a)) /\ k - Len(a) = k - (i - 1)
        BY <1>1, <2>0, <2>2
      <3>1. (a \o b)[k] = b[k - (i - 1)]
        BY <1>4, <2>0, <3>0
      <3>2. k - (i - 1) \in 1..(Len(s) - i) /\ i + (k - (i - 1)) = k + 1
        BY <1>1, <2>2
      <3>3. b[k - (i - 1)] = s[k + 1]
        BY <1>3, <3>2
      <3> QED BY <2>2, <3>1, <3>3
    <2> QED BY <2>1, <2>2
  <1> QED BY <1>4, <1>5, <1>6 DEF Without, a, b

\* What is owned is held after a big block was given back.
LEMMA OwnedFreeBig ==
  ASSUME NEW m, NEW bigs, NEW tk, OwnedBy(m, bigs, tk), NEW i \in 1..Len(bigs)
  PROVE  OwnedBy(FreePages(m, <<bigs[i].page, Shl[bigs[i].order]>>), Without(bigs, i), tk)
  <1> DEFINE b   == <<bigs[i].page, Shl[bigs[i].order]>>
             new == FreePages(m, b)
             s   == Without(bigs, i)
  <1>1. /\ PagesOK(m) /\ PagesOf(bigs) \subseteq m.held /\ tk \subseteq m.held
        /\ tk \cap PagesOf(bigs) = {} /\ \A k \in 1..Len(bigs) : bigs[k].page \in Nat
        /\ \A k, j \in 1..Len(bigs) : bigs[k].page = bigs[j].page => k = j
    BY DEF OwnedBy
  <1>2. b \in PagesOf(bigs)
    BY DEF PagesOf
  <1>3. PagesOK(new) /\ new.held = m.held \ {b}
    BY <1>1, <1>2, FreeOK
  <1>4. PICK S : bigs \in Seq(S)
    BY DEF OwnedBy
  <1>5. /\ s \in Seq(S) /\ Len(s) = Len(bigs) - 1 /\ Len(bigs) \in Nat
        /\ \A k \in 1..Len(s) : s[k] = IF k < i THEN bigs[k] ELSE bigs[k + 1]
    <2>1. /\ s \in Seq(S) /\ Len(s) = Len(bigs) - 1
          /\ \A k \in 1..(Len(bigs) - 1) : s[k] = IF k < i THEN bigs[k] ELSE bigs[k + 1]
      BY <1>4, WithoutOne
    <2> HIDE DEF s
    <2> QED BY <1>4, <2>1
  <1> HIDE DEF s, new
  <1>6. \A k \in 1..Len(s) : \/ k < i /\ k \in 1..Len(bigs) /\ s[k] = bigs[k]
                             \/ k >= i /\ k + 1 \in 1..Len(bigs) /\ s[k] = bigs[k + 1]
    BY <1>5
  <1>7. \A k \in 1..Len(s) : s[k].page \in Nat
    BY <1>1, <1>6
  <1>8. \A k, j \in 1..Len(s) : s[k].page = s[j].page => k = j
    <2> SUFFICES ASSUME NEW k \in 1..Len(s), NEW j \in 1..Len(s), s[k].page = s[j].page
                 PROVE  k = j
      OBVIOUS
    <2> DEFINE a == IF k < i THEN k ELSE k + 1
               c == IF j < i THEN j ELSE j + 1
    <2>1. a \in 1..Len(bigs) /\ s[k] = bigs[a]
      BY <1>6
    <2>2. c \in 1..Len(bigs) /\ s[j] = bigs[c]
      BY <1>6
    <2>3. a = c
      <3> HIDE DEF a, c
      <3> QED BY <1>1, <2>1, <2>2
    <2>4. k \in Nat /\ j \in Nat /\ i \in Nat
      BY <1>5
    <2> QED BY <2>3, <2>4
  <1>9. \A k \in 1..Len(s) : s[k].page # bigs[i].page
    BY <1>1, <1>6
  <1>10. PagesOf(s) \subseteq PagesOf(bigs) \ {b}
    <2> SUFFICES ASSUME NEW k \in 1..Len(s)
                 PROVE  <<s[k].page, Shl[s[k].order]>> \in PagesOf(bigs) \ {b}
      BY DEF PagesOf
    <2>1. <<s[k].page, Shl[s[k].order]>> \in PagesOf(bigs)
      BY <1>6 DEF PagesOf
    <2> QED BY <1>9, <2>1
  <1>11. tk \subseteq new.held /\ PagesOf(s) \subseteq new.held /\ tk \cap PagesOf(s) = {}
    BY <1>1, <1>2, <1>3, <1>10
  <1>12. \E T : s \in Seq(T)
    BY <1>5
  <1> QED BY <1>3, <1>7, <1>8, <1>11, <1>12 DEF OwnedBy, new, s

-----------------------------------------------------------------------------
(* What callers have. *)

\* lv are the objects of callers, by address.  An object is a block of pages of PB, or lies
\* behind the header of a block in use; the blocks in use that hold no object are ND.
LiveOK(lv, u, ND, PB) ==
  /\ lv \in [DOMAIN lv -> Nat \ {0}]
  /\ ND \subseteq DOMAIN u
  /\ \A p \in PB : p[1] * U \in DOMAIN lv /\ lv[p[1] * U] <= p[2] * U
  /\ \A a \in DOMAIN lv : \/ \E p \in PB : a = p[1] * U
                          \/ \E x \in DOMAIN u \ ND : a = x + 1 /\ u[x] = lv[a] + 1
  /\ \A x \in DOMAIN u \ ND : x + 1 \in DOMAIN lv /\ u[x] = lv[x + 1] + 1

\* No object starts where a block of pages does, and one header behind another block.
StartsApart(u, PB) == \A x \in DOMAIN u, p \in PB : x + 1 # p[1] * U

\* A function with a value more, or another one.
LEMMA WithType ==
  ASSUME NEW T, NEW f, f \in [DOMAIN f -> T], NEW x, NEW v \in T
  PROVE  With(f, x, v) \in [DOMAIN With(f, x, v) -> T]
  BY DEF With

\* A function without one of its values.
LEMMA DropOne ==
  ASSUME NEW f, NEW x
  PROVE  /\ DOMAIN Drop(f, x) = DOMAIN f \ {x}
         /\ \A y \in DOMAIN f : y # x => Drop(f, x)[y] = f[y]
         /\ \A T : f \in [DOMAIN f -> T] => Drop(f, x) \in [DOMAIN f \ {x} -> T]
  BY DEF Drop, Restrict

\* A caller gets a small object.
LEMMA LiveSmall ==
  ASSUME NEW lv, NEW u, NEW ND, NEW PB, LiveOK(lv, u, ND, PB), \A x \in DOMAIN u : x \in Nat,
         NEW b \in Nat, b \notin DOMAIN u, NEW n \in Nat \ {0}, \A p \in PB : b + 1 # p[1] * U
  PROVE  /\ LiveOK(With(lv, b + 1, n), With(u, b, n + 1), ND, PB)
         /\ b + 1 \notin DOMAIN lv
  <1> DEFINE w == With(lv, b + 1, n)
             v == With(u, b, n + 1)
  <1>1. /\ DOMAIN v = DOMAIN u \cup {b} /\ v[b] = n + 1
        /\ \A y \in DOMAIN u : y # b => v[y] = u[y]
    BY DEF With
  <1>2. /\ DOMAIN w = DOMAIN lv \cup {b + 1} /\ w[b + 1] = n
        /\ \A y \in DOMAIN lv : y # b + 1 => w[y] = lv[y]
    BY DEF With
  <1>3. w \in [DOMAIN w -> Nat \ {0}]
    <2>1. lv \in [DOMAIN lv -> Nat \ {0}]
      BY DEF LiveOK
    <2> QED BY <2>1, WithType
  <1> HIDE DEF v, w
  <1>4. /\ ND \subseteq DOMAIN u
        /\ \A p \in PB : p[1] * U \in DOMAIN lv /\ lv[p[1] * U] <= p[2] * U
        /\ \A a \in DOMAIN lv : \/ \E p \in PB : a = p[1] * U
                                \/ \E x \in DOMAIN u \ ND : a = x + 1 /\ u[x] = lv[a] + 1
        /\ \A x \in DOMAIN u \ ND : x + 1 \in DOMAIN lv /\ u[x] = lv[x + 1] + 1
    BY DEF LiveOK
  <1>5. b + 1 \notin DOMAIN lv
    <2> SUFFICES ASSUME b + 1 \in DOMAIN lv PROVE FALSE
      OBVIOUS
    <2>1. PICK x \in DOMAIN u \ ND : b + 1 = x + 1
      BY <1>4
    <2> QED BY <2>1
  <1>6. ASSUME NEW p \in PB PROVE p[1] * U \in DOMAIN w /\ w[p[1] * U] <= p[2] * U
    BY <1>2, <1>4
  <1>7. ASSUME NEW a \in DOMAIN w
        PROVE  \/ \E p \in PB : a = p[1] * U
               \/ \E x \in DOMAIN v \ ND : a = x + 1 /\ v[x] = w[a] + 1
    <2>1. CASE a = b + 1
      BY <1>1, <1>2, <1>4, <2>1
    <2>2. CASE a # b + 1
      <3>1. a \in DOMAIN lv /\ w[a] = lv[a]
        BY <1>2, <2>2
      <3>2. ASSUME NEW x \in DOMAIN u \ ND, a = x + 1, u[x] = lv[a] + 1
            PROVE  x \in DOMAIN v \ ND /\ a = x + 1 /\ v[x] = w[a] + 1
        BY <1>1, <3>1, <3>2
      <3> QED BY <1>4, <3>1, <3>2
    <2> QED BY <2>1, <2>2
  <1>8. ASSUME NEW x \in DOMAIN v \ ND PROVE x + 1 \in DOMAIN w /\ v[x] = w[x + 1] + 1
    <2>1. CASE x = b
      BY <1>1, <1>2, <2>1
    <2>2. CASE x # b
      <3>1. x \in DOMAIN u \ ND /\ x \in Nat /\ x + 1 # b + 1
        BY <1>1, <2>2
      <3> QED BY <1>1, <1>2, <1>4, <2>2, <3>1
    <2> QED BY <2>1, <2>2
  <1>9. ND \subseteq DOMAIN v
    BY <1>1, <1>4
  <1> QED BY <1>3, <1>5, <1>6, <1>7, <1>8, <1>9 DEF LiveOK, v, w

\* A block in use that holds no object of a caller.
LEMMA LiveSpare ==
  ASSUME NEW lv, NEW u, NEW ND, NEW PB, LiveOK(lv, u, ND, PB), NEW b, b \notin DOMAIN u, NEW n
  PROVE  LiveOK(lv, With(u, b, n), ND \cup {b}, PB)
  <1> DEFINE v == With(u, b, n)
  <1>1. /\ DOMAIN v = DOMAIN u \cup {b}
        /\ \A y \in DOMAIN u : y # b => v[y] = u[y]
    BY DEF With
  <1> HIDE DEF v
  <1>2. DOMAIN v \ (ND \cup {b}) = DOMAIN u \ ND /\ \A x \in DOMAIN u \ ND : v[x] = u[x]
    BY <1>1
  <1>3. ND \cup {b} \subseteq DOMAIN v
    BY <1>1 DEF LiveOK
  <1> QED BY <1>2, <1>3 DEF LiveOK, v

\* ... is given back.
LEMMA LiveUnspare ==
  ASSUME NEW lv, NEW u, NEW ND, NEW PB, LiveOK(lv, u, ND, PB), NEW b \in ND
  PROVE  LiveOK(lv, Drop(u, b), ND \ {b}, PB)
  <1> DEFINE v == Drop(u, b)
  <1>1. /\ DOMAIN v = DOMAIN u \ {b}
        /\ \A y \in DOMAIN u : y # b => v[y] = u[y]
    BY DropOne
  <1> HIDE DEF v
  <1>2. DOMAIN v \ (ND \ {b}) = DOMAIN u \ ND /\ \A x \in DOMAIN u \ ND : v[x] = u[x]
    BY <1>1
  <1>3. ND \ {b} \subseteq DOMAIN v
    BY <1>1 DEF LiveOK
  <1> QED BY <1>2, <1>3 DEF LiveOK, v

\* A caller gets pages.
LEMMA LivePages ==
  ASSUME NEW lv, NEW u, NEW ND, NEW PB, LiveOK(lv, u, ND, PB),
         NEW p, NEW m, NEW n \in Nat \ {0}, n <= m * U,
         \A q \in PB : q[1] * U # p * U, \A x \in DOMAIN u : x + 1 # p * U
  PROVE  /\ LiveOK(With(lv, p * U, n), u, ND, PB \cup {<<p, m>>})
         /\ p * U \notin DOMAIN lv
  <1> DEFINE e == p * U
             w == With(lv, e, n)
  <1>1. /\ DOMAIN w = DOMAIN lv \cup {e} /\ w[e] = n
        /\ \A y \in DOMAIN lv : y # e => w[y] = lv[y]
    BY DEF With
  <1>2. w \in [DOMAIN w -> Nat \ {0}]
    <2>1. lv \in [DOMAIN lv -> Nat \ {0}]
      BY DEF LiveOK
    <2> QED BY <2>1, WithType
  <1>3. <<p, m>>[1] * U = e /\ <<p, m>>[2] * U = m * U
    OBVIOUS
  <1>4. (\A q \in PB : q[1] * U # e) /\ (\A x \in DOMAIN u : x + 1 # e)
    OBVIOUS
  <1> HIDE DEF w, e
  <1>5. /\ ND \subseteq DOMAIN u
        /\ \A q \in PB : q[1] * U \in DOMAIN lv /\ lv[q[1] * U] <= q[2] * U
        /\ \A a \in DOMAIN lv : \/ \E q \in PB : a = q[1] * U
                                \/ \E x \in DOMAIN u \ ND : a = x + 1 /\ u[x] = lv[a] + 1
        /\ \A x \in DOMAIN u \ ND : x + 1 \in DOMAIN lv /\ u[x] = lv[x + 1] + 1
    BY DEF LiveOK
  <1>6. e \notin DOMAIN lv
    BY <1>4, <1>5
  <1>7. ASSUME NEW q \in PB \cup {<<p, m>>} PROVE q[1] * U \in DOMAIN w /\ w[q[1] * U] <= q[2] * U
    <2>1. CASE q = <<p, m>>
      BY <1>1, <1>3, <2>1
    <2>2. CASE q \in PB
      BY <1>1, <1>4, <1>5, <2>2
    <2> QED BY <2>1, <2>2
  <1>8. ASSUME NEW a \in DOMAIN w
        PROVE  \/ \E q \in PB \cup {<<p, m>>} : a = q[1] * U
               \/ \E x \in DOMAIN u \ ND : a = x + 1 /\ u[x] = w[a] + 1
    <2>1. CASE a = e
      BY <1>3, <2>1
    <2>2. CASE a # e
      <3>1. a \in DOMAIN lv /\ w[a] = lv[a]
        BY <1>1, <2>2
      <3> QED BY <1>5, <3>1
    <2> QED BY <2>1, <2>2
  <1>9. ASSUME NEW x \in DOMAIN u \ ND PROVE x + 1 \in DOMAIN w /\ u[x] = w[x + 1] + 1
    BY <1>1, <1>4, <1>5
  <1> QED BY <1>2, <1>5, <1>6, <1>7, <1>8, <1>9 DEF LiveOK, w, e

\* ... and gives them back.
LEMMA LiveNoPages ==
  ASSUME NEW lv, NEW u, NEW ND, NEW PB, LiveOK(lv, u, ND, PB), StartsApart(u, PB),
         NEW p \in PB, \A q \in PB : q # p => q[1] * U # p[1] * U
  PROVE  LiveOK(Drop(lv, p[1] * U), u, ND, PB \ {p})
  <1> DEFINE e == p[1] * U
             w == Drop(lv, e)
  <1>1. /\ DOMAIN w = DOMAIN lv \ {e}
        /\ \A y \in DOMAIN lv : y # e => w[y] = lv[y]
    BY DropOne
  <1>2. w \in [DOMAIN w -> Nat \ {0}]
    <2>1. lv \in [DOMAIN lv -> Nat \ {0}]
      BY DEF LiveOK
    <2> QED BY <1>1, <2>1, DropOne
  <1>3. \A q \in PB : q # p => q[1] * U # e
    OBVIOUS
  <1>4. \A x \in DOMAIN u : x + 1 # e
    BY DEF StartsApart
  <1>5. e = p[1] * U
    OBVIOUS
  <1> HIDE DEF w, e
  <1>6. /\ ND \subseteq DOMAIN u
        /\ \A q \in PB : q[1] * U \in DOMAIN lv /\ lv[q[1] * U] <= q[2] * U
        /\ \A a \in DOMAIN lv : \/ \E q \in PB : a = q[1] * U
                                \/ \E x \in DOMAIN u \ ND : a = x + 1 /\ u[x] = lv[a] + 1
        /\ \A x \in DOMAIN u \ ND : x + 1 \in DOMAIN lv /\ u[x] = lv[x + 1] + 1
    BY DEF LiveOK
  <1>7. ASSUME NEW q \in PB \ {p} PROVE q[1] * U \in DOMAIN w /\ w[q[1] * U] <= q[2] * U
    BY <1>1, <1>3, <1>6
  <1>8. ASSUME NEW a \in DOMAIN w
        PROVE  \/ \E q \in PB \ {p} : a = q[1] * U
               \/ \E x \in DOMAIN u \ ND : a = x + 1 /\ u[x] = w[a] + 1
    <2>1. a \in DOMAIN lv /\ a # e /\ w[a] = lv[a]
      BY <1>1
    <2> QED BY <1>5, <1>6, <2>1
  <1>9. ASSUME NEW x \in DOMAIN u \ ND PROVE x + 1 \in DOMAIN w /\ u[x] = w[x + 1] + 1
    BY <1>1, <1>4, <1>6
  <1> QED BY <1>2, <1>6, <1>7, <1>8, <1>9 DEF LiveOK, w, e

\* A caller gives a small object back.
LEMMA LiveNoSmall ==
  ASSUME NEW lv, NEW u, NEW ND, NEW PB, LiveOK(lv, u, ND, PB), StartsApart(u, PB),
         \A x \in DOMAIN u : x \in Nat,
         NEW b \in DOMAIN u \ ND
  PROVE  LiveOK(Drop(lv, b + 1), Drop(u, b), ND, PB)
  <1> DEFINE w == Drop(lv, b + 1)
             v == Drop(u, b)
  <1>1. /\ DOMAIN w = DOMAIN lv \ {b + 1}
        /\ \A y \in DOMAIN lv : y # b + 1 => w[y] = lv[y]
    BY DropOne
  <1>2. w \in [DOMAIN w -> Nat \ {0}]
    <2>1. lv \in [DOMAIN lv -> Nat \ {0}]
      BY DEF LiveOK
    <2> QED BY <1>1, <2>1, DropOne
  <1>3. /\ DOMAIN v = DOMAIN u \ {b}
        /\ \A y \in DOMAIN u : y # b => v[y] = u[y]
    BY DropOne
  <1>4. \A q \in PB : q[1] * U # b + 1
    BY DEF StartsApart
  <1> HIDE DEF w, v
  <1>6. /\ ND \subseteq DOMAIN u
        /\ \A q \in PB : q[1] * U \in DOMAIN lv /\ lv[q[1] * U] <= q[2] * U
        /\ \A a \in DOMAIN lv : \/ \E q \in PB : a = q[1] * U
                                \/ \E x \in DOMAIN u \ ND : a = x + 1 /\ u[x] = lv[a] + 1
        /\ \A x \in DOMAIN u \ ND : x + 1 \in DOMAIN lv /\ u[x] = lv[x + 1] + 1
    BY DEF LiveOK
  <1>7. ASSUME NEW q \in PB PROVE q[1] * U \in DOMAIN w /\ w[q[1] * U] <= q[2] * U
    BY <1>1, <1>4, <1>6
  <1>8. ASSUME NEW a \in DOMAIN w
        PROVE  \/ \E q \in PB : a = q[1] * U
               \/ \E x \in DOMAIN v \ ND : a = x + 1 /\ v[x] = w[a] + 1
    <2>1. a \in DOMAIN lv /\ a # b + 1 /\ w[a] = lv[a]
      BY <1>1
    <2>2. ASSUME NEW x \in DOMAIN u \ ND, a = x + 1, u[x] = lv[a] + 1
          PROVE  x \in DOMAIN v \ ND /\ a = x + 1 /\ v[x] = w[a] + 1
      BY <1>3, <2>1, <2>2
    <2> QED BY <1>6, <2>1, <2>2
  <1>9. ASSUME NEW x \in DOMAIN v \ ND PROVE x + 1 \in DOMAIN w /\ v[x] = w[x + 1] + 1
    <2>1. x \in DOMAIN u \ ND /\ x # b /\ x \in Nat /\ b \in Nat /\ v[x] = u[x]
      BY <1>3
    <2>2. x + 1 # b + 1
      BY <2>1
    <2> QED BY <1>1, <1>6, <2>1, <2>2
  <1>10. ND \subseteq DOMAIN v
    BY <1>3, <1>6
  <1> QED BY <1>2, <1>7, <1>8, <1>9, <1>10 DEF LiveOK, v, w

-----------------------------------------------------------------------------
(* Pages in units. *)

\* The units of a block of pages, and of its first page.
UnitsOf(b) == Room(b[1] * U, b[2] * U)
FirstOf(b) == Room(b[1] * U, U)

AllUnits == U..((N + 1) * U - 1)

HeldApart(m) ==
  /\ \A b \in m.held : /\ b[1] * U \in Nat /\ b[1] * U \in FirstOf(b) /\ b[1] * U > 1
                       /\ FirstOf(b) \subseteq UnitsOf(b) /\ UnitsOf(b) \subseteq AllUnits
  /\ \A b, c \in m.held : b # c => UnitsOf(b) \cap UnitsOf(c) = {}

\* Pages in order are units in order.
LEMMA PageOrder ==
  ASSUME NEW p \in Nat, NEW k \in Nat, NEW q \in Nat, p + k <= q
  PROVE  p * U + k * U <= q * U
  <1>1. U \in Nat
    BY HeapAssumption
  <1>2. (p + k) * U = p * U + k * U
    BY <1>1
  <1>3. PICK r \in Nat : q = p + k + r
    <2>1. q - (p + k) \in Nat
      OBVIOUS
    <2> QED BY <2>1
  <1>4. q * U = (p + k) * U + r * U
    BY <1>1, <1>3
  <1>5. r * U \in Nat /\ p * U \in Nat /\ k * U \in Nat
    BY <1>1
  <1> QED BY <1>2, <1>4, <1>5

\* Blocks that are held have no units in common.
LEMMA HeldRooms ==
  ASSUME NEW m, PagesOK(m)
  PROVE  HeldApart(m)
  <1>1. /\ m.held \subseteq Pages \X (1..N)
        /\ \A b \in m.held : Block(b) \subseteq Pages
        /\ \A b, c \in m.held : b # c => Block(b) \cap Block(c) = {}
    BY DEF PagesOK, PagesTyped, HeldOK
  <1>2. U \in Nat /\ U > 2 /\ N \in Nat
    BY HeapAssumption, PagesAssumption
  <1>3. ASSUME NEW b \in m.held
        PROVE  /\ b[1] \in Nat /\ b[2] \in Nat /\ b[1] >= 1 /\ b[2] >= 1 /\ b[1] + b[2] <= N + 1
               /\ b[1] * U \in Nat /\ b[2] * U \in Nat /\ b[1] * U >= U /\ b[2] * U >= U
               /\ b[1] * U + b[2] * U <= (N + 1) * U
    <2>1. b[1] \in Nat /\ b[2] \in Nat /\ b[1] >= 1 /\ b[2] >= 1
      BY <1>1 DEF Pages
    <2>2. b[1] + b[2] - 1 \in Block(b)
      BY <2>1 DEF Block
    <2>3. b[1] + b[2] <= N + 1
      BY <1>1, <1>2, <2>1, <2>2 DEF Pages
    <2> DEFINE p == b[1]
               k == b[2]
    <2>4. p \in Nat /\ k \in Nat /\ p >= 1 /\ k >= 1 /\ p + k <= N + 1
      BY <2>1, <2>3
    <2> HIDE DEF p, k
    <2>5. 0 + 1 <= p /\ 0 + 1 <= k
      BY <2>4
    <2>6. 0 * U + 1 * U <= p * U /\ 0 * U + 1 * U <= k * U
      BY <2>4, <2>5, PageOrder
    <2>7. p * U + k * U <= (N + 1) * U
      BY <1>2, <2>4, PageOrder
    <2>8. p * U \in Nat /\ k * U \in Nat /\ 0 * U = 0 /\ 1 * U = U
      BY <1>2, <2>4
    <2> QED BY <1>2, <2>1, <2>3, <2>6, <2>7, <2>8 DEF p, k
  <1>4. ASSUME NEW b \in m.held
        PROVE  /\ b[1] * U \in Nat /\ b[1] * U \in FirstOf(b) /\ b[1] * U > 1
               /\ FirstOf(b) \subseteq UnitsOf(b) /\ UnitsOf(b) \subseteq AllUnits
    <2> DEFINE p == b[1] * U
               k == b[2] * U
               e == (N + 1) * U
    <2>1. p \in Nat /\ k \in Nat /\ p >= U /\ k >= U /\ p + k <= e /\ e \in Nat
      BY <1>2, <1>3
    <2> HIDE DEF p, k, e
    <2> QED BY <1>2, <2>1 DEF FirstOf, UnitsOf, AllUnits, Room, p, k, e
  <1>5. ASSUME NEW b \in m.held, NEW c \in m.held, b # c, b[1] <= c[1]
        PROVE  b[1] + b[2] <= c[1]
    <2>1. /\ b[1] \in Nat /\ b[2] \in Nat /\ c[1] \in Nat /\ c[2] \in Nat /\ c[2] >= 1
      BY <1>3
    <2> SUFFICES ASSUME c[1] < b[1] + b[2] PROVE FALSE
      BY <2>1
    <2>2. c[1] \in Block(b) /\ c[1] \in Block(c)
      BY <1>5, <2>1 DEF Block
    <2> QED BY <1>1, <1>5, <2>2
  <1>6. ASSUME NEW b \in m.held, NEW c \in m.held, b # c, b[1] <= c[1]
        PROVE  UnitsOf(b) \cap UnitsOf(c) = {}
    <2> DEFINE p == b[1] * U
               k == b[2] * U
               q == c[1] * U
               l == c[2] * U
    <2>1. p + k <= q
      BY <1>3, <1>5, <1>6, PageOrder
    <2>2. p \in Nat /\ k \in Nat /\ q \in Nat /\ l \in Nat
      BY <1>3
    <2> HIDE DEF p, k, q, l
    <2>3. Room(p, k) \cap Room(q, l) = {}
      BY <2>1, <2>2 DEF Room
    <2> QED BY <2>3 DEF UnitsOf, p, k, q, l
  <1>7. ASSUME NEW b \in m.held, NEW c \in m.held, b # c
        PROVE  UnitsOf(b) \cap UnitsOf(c) = {}
    <2>1. b[1] \in Nat /\ c[1] \in Nat
      BY <1>3
    <2>2. b[1] <= c[1] \/ c[1] <= b[1]
      BY <2>1
    <2> QED BY <1>6, <1>7, <2>2
  <1> QED BY <1>4, <1>7 DEF HeldApart

\* If there are free units in a row, slob_alloc finds a block with as many.
LEMMA SpaceOK ==
  ASSUME NEW h, RoverOK(h), NEW b \in Nat, NEW n \in Nat \ {0}, Room(b, n) \subseteq FreeOf(h.slob)
  PROVE  Fitting(h, n) # {}
  <1> DEFINE C == Cardinality(DOMAIN h.slob)
             w == Walk(h)
             un == Un(h.slob)
  <1>1. ListIn(DOMAIN h.slob, un, Links(h.slob)) /\ \A a \in DOMAIN h.slob : h.slob[a].units = un[a]
    BY DEF RoverOK, ListOK, Un
  <1>2. PICK a \in DOMAIN h.slob : n <= un[a]
    <2> HIDE DEF un
    <2> QED BY <1>1, InOneBlock DEF FreeOf, un
  <1>3. /\ C \in Nat /\ DOMAIN w = 0..C
        /\ \A c \in DOMAIN h.slob : \E k \in 1..C : w[k] = c
    BY WalkOK
  <1> HIDE DEF w, C
  <1>4. PICK k \in 1..C : w[k] = a
    BY <1>3
  <1>5. k \in DOMAIN w \ {0} /\ h.slob[w[k]].units = un[a]
    BY <1>1, <1>3, <1>4
  <1>6. un[a] \in Nat
    BY <1>1 DEF ListIn, BlocksTyped
  <1>7. un[a] >= n
    BY <1>2, <1>6
  <1>8. k \in Fitting(h, n)
    BY <1>5, <1>7 DEF Fitting, w
  <1> QED BY <1>8

\* The units of the pages that are held but not in PB: those of the small objects.
SlobUnits(m, PB) == UNION {FirstOf(b) : b \in m.held \ PB}

\* The pages that have owners.
OwnPages(bigs, tk) == tk \cup PagesOf(bigs)

\* The heap but for what is in its blocks.
FrameOK(h, tk) ==
  /\ DOMAIN h = Fields
  /\ OwnedBy(h.pmm, h.big, tk)
  /\ SmallOK(h, SlobUnits(h.pmm, OwnPages(h.big, tk)))

\* The pages with owners are held, and they are not those of the small objects.
LEMMA OwnersApart ==
  ASSUME NEW h, NEW tk, FrameOK(h, tk)
  PROVE  /\ HeldApart(h.pmm) /\ OwnPages(h.big, tk) \subseteq h.pmm.held
         /\ \A p \in OwnPages(h.big, tk) : UnitsOf(p) \cap SlobUnits(h.pmm, OwnPages(h.big, tk)) = {}
         /\ SlobUnits(h.pmm, OwnPages(h.big, tk)) \subseteq AllUnits
  <1> DEFINE PB == OwnPages(h.big, tk)
  <1>1. PagesOK(h.pmm) /\ PB \subseteq h.pmm.held
    BY DEF FrameOK, OwnedBy, OwnPages
  <1>2. HeldApart(h.pmm)
    BY <1>1, HeldRooms
  <1> HIDE DEF PB
  <1>3. \A p \in PB : UnitsOf(p) \cap SlobUnits(h.pmm, PB) = {}
    BY <1>1, <1>2 DEF HeldApart, SlobUnits
  <1>4. SlobUnits(h.pmm, PB) \subseteq AllUnits
    BY <1>2 DEF HeldApart, SlobUnits
  <1> QED BY <1>1, <1>2, <1>3, <1>4 DEF PB

\* No small object lies where others have pages, nor begins where those do.
LEMMA BlocksApart ==
  ASSUME NEW h, NEW tk, FrameOK(h, tk)
  PROVE  /\ StartsApart(h.units, OwnPages(h.big, tk))
         /\ \A x \in DOMAIN h.units :
              /\ x \in Nat /\ h.units[x] \in Nat /\ Room(x, h.units[x]) \subseteq AllUnits
              /\ \A p \in OwnPages(h.big, tk) : Room(x, h.units[x]) \cap UnitsOf(p) = {}
  <1> DEFINE PB == OwnPages(h.big, tk)
             u  == h.units
             X  == SlobUnits(h.pmm, PB)
  <1>1. /\ HeldApart(h.pmm) /\ PB \subseteq h.pmm.held
        /\ \A p \in PB : UnitsOf(p) \cap X = {}
        /\ X \subseteq AllUnits
    BY OwnersApart
  <1>2. UsedOK(u) /\ UsedOf(u) \subseteq X
    BY DEF FrameOK, SmallOK
  <1> HIDE DEF PB, u, X
  <1>3. ASSUME NEW x \in DOMAIN u
        PROVE  /\ x \in Nat /\ u[x] \in Nat /\ u[x] > 1 /\ Room(x, u[x]) \subseteq X
               /\ x + 1 \in Room(x, u[x])
    <2>1. x \in Nat /\ u[x] \in Nat /\ u[x] > 1
      BY <1>2 DEF UsedOK
    <2>2. Room(x, u[x]) \subseteq X
      BY <1>2 DEF UsedOf
    <2> QED BY <2>1, <2>2 DEF Room
  <1>4. ASSUME NEW p \in PB PROVE p[1] * U \in UnitsOf(p)
    BY <1>1 DEF HeldApart
  <1>5. StartsApart(u, PB)
    <2> SUFFICES ASSUME NEW x \in DOMAIN u, NEW p \in PB, x + 1 = p[1] * U PROVE FALSE
      BY DEF StartsApart
    <2>1. x + 1 \in X /\ x + 1 \in UnitsOf(p)
      BY <1>3, <1>4
    <2> QED BY <1>1, <2>1
  <1>6. \A x \in DOMAIN u : /\ x \in Nat /\ u[x] \in Nat /\ Room(x, u[x]) \subseteq AllUnits
                            /\ \A p \in PB : Room(x, u[x]) \cap UnitsOf(p) = {}
    BY <1>1, <1>3
  <1> QED BY <1>5, <1>6 DEF PB, u

\* The fields a frame is about.
LEMMA SameSmall ==
  ASSUME NEW h, NEW g, g.slob = h.slob, g.slobfree = h.slobfree, g.units = h.units,
         NEW X, SmallOK(h, X)
  PROVE  SmallOK(g, X)
  BY DEF SmallOK, RoverOK

\* A page more for small objects.
LEMMA GrowOK ==
  ASSUME NEW h, NEW tk, FrameOK(h, tk), CanAlloc(h.pmm, 1)
  PROVE  /\ FrameOK(Grow(h), tk) /\ Grow(h).big = h.big /\ Grow(h).units = h.units
         /\ \E b \in Nat : Room(b, U) \subseteq FreeOf(Grow(h).slob)
  <1> DEFINE m   == h.pmm
             new == AllocPages(m, 1)
             p   == AllocBase(m, 1)
             k   == [h EXCEPT !.pmm = AllocPages(@, 1)]
             g   == Grow(h)
             b   == p * U
             PB  == OwnPages(h.big, tk)
             X   == SlobUnits(m, PB)
             c   == <<p, 1>>
  <1>1. DOMAIN h = Fields /\ OwnedBy(m, h.big, tk) /\ SmallOK(h, X)
    BY DEF FrameOK
  <1>2. /\ DOMAIN k = Fields /\ k.pmm = new /\ k.big = h.big
        /\ k.slob = h.slob /\ k.slobfree = h.slobfree /\ k.units = h.units
    BY <1>1 DEF Fields
  <1>3. g = SlobFree(k, b, U)
    BY DEF Grow
  <1>4. /\ OwnedBy(new, h.big, tk) /\ \A d \in m.held : d[1] # p
        /\ new.held = m.held \cup {c} /\ p \in Nat
    <2>1. 1 \in Nat \ {0}
      OBVIOUS
    <2> QED BY <1>1, <2>1, OwnedAlloc
  <1>5. PB \subseteq m.held /\ PagesOK(new)
    BY <1>1, <1>4 DEF OwnedBy, OwnPages
  <1>6. HeldApart(new)
    BY <1>5, HeldRooms
  <1>7. c[1] * U = b /\ c[1] = p /\ FirstOf(c) = Room(b, U)
    BY DEF FirstOf
  <1> HIDE DEF m, new, p, k, g, b, PB, X, c
  <1>8. c \notin m.held
    BY <1>4, <1>7
  <1>9. b \in Nat /\ b > 1 /\ U \in Nat \ {0}
    BY <1>4, <1>6, <1>7, HeapAssumption DEF HeldApart
  <1>10. Room(b, U) \cap X = {}
    <2>1. \A d \in m.held : UnitsOf(d) \cap UnitsOf(c) = {} /\ FirstOf(d) \subseteq UnitsOf(d)
      BY <1>4, <1>6, <1>8 DEF HeldApart
    <2>2. FirstOf(c) \subseteq UnitsOf(c)
      BY <1>4, <1>6 DEF HeldApart
    <2> QED BY <1>7, <2>1, <2>2 DEF X, SlobUnits
  <1>11. SmallOK(k, X)
    BY <1>1, <1>2, SameSmall
  <1>12. SmallOK(g, X \cup Room(b, U)) /\ g.units = k.units
    BY <1>2, <1>3, <1>9, <1>10, <1>11, ExtendOK
  <1>13. SlobUnits(new, PB) = X \cup Room(b, U)
    <2>1. new.held \ PB = (m.held \ PB) \cup {c}
      BY <1>4, <1>5, <1>8
    <2> QED BY <1>7, <2>1 DEF SlobUnits, X
  <1>14. DOMAIN g = Fields /\ g.pmm = new /\ g.big = h.big
    BY <1>2, <1>3, SlobFreeKeeps
  <1>15. FrameOK(g, tk)
    BY <1>4, <1>12, <1>13, <1>14 DEF FrameOK, PB
  <1>16. Room(b, U) \subseteq FreeOf(g.slob)
    <2>1. RoverOK(k) /\ FreeOf(k.slob) \subseteq X
      BY <1>11 DEF SmallOK
    <2>2. Room(b, U) \cap FreeOf(k.slob) = {}
      BY <1>10, <2>1
    <2>3. FreeOf(g.slob) = FreeOf(k.slob) \cup Room(b, U)
      BY <1>2, <1>3, <1>9, <2>1, <2>2, SlobFreeOK
    <2> QED BY <2>3
  <1> QED BY <1>2, <1>9, <1>12, <1>14, <1>15, <1>16 DEF g

\* slob_alloc gave nothing, or block got[2] of n units.
Granted(h, tk, n, got) ==
  \/ got[2] = 0 /\ got[1] = h
  \/ /\ FrameOK(got[1], tk) /\ got[1].big = h.big
     /\ got[1].units = With(h.units, got[2], n)
     /\ got[2] \in Nat /\ got[2] > 1 /\ got[2] \notin DOMAIN h.units

\* A free block that is long enough, given to a caller.
LEMMA CarveFrame ==
  ASSUME NEW h, NEW tk, FrameOK(h, tk), NEW n \in Nat, n > 1, Fitting(h, n) # {}
  PROVE  Granted(h, tk, n, <<Carve(h, n), Walk(h)[Min(Fitting(h, n))]>>)
  <1> DEFINE g == Carve(h, n)
             b == Walk(h)[Min(Fitting(h, n))]
             X == SlobUnits(h.pmm, OwnPages(h.big, tk))
  <1>1. DOMAIN h = Fields /\ OwnedBy(h.pmm, h.big, tk) /\ SmallOK(h, X)
    BY DEF FrameOK
  <1>2. /\ SmallOK(g, X) /\ g.units = With(h.units, b, n)
        /\ b \in Nat /\ b > 1 /\ b \notin DOMAIN h.units
    BY <1>1, CarveOK
  <1>3. DOMAIN g = Fields /\ g.pmm = h.pmm /\ g.big = h.big
    BY <1>1, CarveKeeps
  <1>4. FrameOK(g, tk)
    BY <1>1, <1>2, <1>3 DEF FrameOK
  <1>5. <<g, b>>[1] = g /\ <<g, b>>[2] = b
    OBVIOUS
  <1> QED BY <1>2, <1>3, <1>4, <1>5 DEF Granted

\* slob_alloc, for a block that a page has room for.
LEMMA SlobAllocOK ==
  ASSUME NEW h, NEW tk, FrameOK(h, tk), NEW n \in Nat, n > 1, n <= U
  PROVE  Granted(h, tk, n, SlobAlloc(h, n))
  <1>1. CASE Fitting(h, n) # {}
    <2>1. SlobAlloc(h, n) = <<Carve(h, n), Walk(h)[Min(Fitting(h, n))]>>
      BY <1>1 DEF SlobAlloc
    <2> QED BY <1>1, <2>1, CarveFrame
  <1>2. CASE Fitting(h, n) = {} /\ CanAlloc(h.pmm, 1)
    <2> DEFINE g   == Grow(h)
               got == <<Carve(g, n), Walk(g)[Min(Fitting(g, n))]>>
    <2>1. SlobAlloc(h, n) = got
      BY <1>2 DEF SlobAlloc
    <2>2. /\ FrameOK(g, tk) /\ g.big = h.big /\ g.units = h.units
          /\ \E b \in Nat : Room(b, U) \subseteq FreeOf(g.slob)
      BY <1>2, GrowOK
    <2> HIDE DEF g
    <2>3. Fitting(g, n) # {}
      <3>1. PICK b \in Nat : Room(b, U) \subseteq FreeOf(g.slob)
        BY <2>2
      <3>2. Room(b, n) \subseteq Room(b, U) /\ n \in Nat \ {0}
        BY HeapAssumption DEF Room
      <3>3. RoverOK(g)
        BY <2>2 DEF FrameOK, SmallOK
      <3> QED BY <3>1, <3>2, <3>3, SpaceOK
    <2>4. Granted(g, tk, n, got)
      BY <2>2, <2>3, CarveFrame
    <2>5. got[2] # 0
      <3>1. Walk(g)[Min(Fitting(g, n))] > 1 /\ Walk(g)[Min(Fitting(g, n))] \in Nat
        BY <2>2, <2>3, CarveOK DEF FrameOK
      <3> QED BY <3>1
    <2> HIDE DEF got
    <2> QED BY <2>1, <2>2, <2>4, <2>5 DEF Granted
  <1>3. CASE Fitting(h, n) = {} /\ ~CanAlloc(h.pmm, 1)
    <2>1. SlobAlloc(h, n) = <<h, 0>>
      BY <1>3 DEF SlobAlloc
    <2> QED BY <2>1 DEF Granted
  <1> QED BY <1>1, <1>2, <1>3

\* A small object given back, or a header.
LEMMA ReleaseFrame ==
  ASSUME NEW h, NEW tk, FrameOK(h, tk), NEW b \in DOMAIN h.units
  PROVE  LET g == SlobFree(h, b, h.units[b])
         IN  FrameOK(g, tk) /\ g.big = h.big /\ g.units = Drop(h.units, b)
  <1> DEFINE g == SlobFree(h, b, h.units[b])
             X == SlobUnits(h.pmm, OwnPages(h.big, tk))
  <1>1. DOMAIN h = Fields /\ OwnedBy(h.pmm, h.big, tk) /\ SmallOK(h, X)
    BY DEF FrameOK
  <1>2. SmallOK(g, X) /\ g.units = Drop(h.units, b)
    BY <1>1, ReleaseOK
  <1>3. DOMAIN g = Fields /\ g.pmm = h.pmm /\ g.big = h.big
    BY <1>1, SlobFreeKeeps
  <1> QED BY <1>1, <1>2, <1>3 DEF FrameOK

\* g is the heap h but for the pages.
OtherPages(h, g) ==
  /\ DOMAIN g = Fields
  /\ g.slob = h.slob /\ g.slobfree = h.slobfree /\ g.units = h.units

\* Block b of pages gets an owner, ...
Takes(h, tk, g, new, b) ==
  /\ OtherPages(h, g) /\ OwnedBy(g.pmm, g.big, new)
  /\ b \notin h.pmm.held /\ g.pmm.held = h.pmm.held \cup {b}
  /\ OwnPages(g.big, new) = OwnPages(h.big, tk) \cup {b}

\* ... and gives it back.
Gives(h, tk, g, new, b) ==
  /\ OtherPages(h, g) /\ OwnedBy(g.pmm, g.big, new)
  /\ b \in OwnPages(h.big, tk) /\ g.pmm.held = h.pmm.held \ {b}
  /\ OwnPages(g.big, new) = OwnPages(h.big, tk) \ {b}

\* Pages taken and entered, directly or in the list of big blocks.
LEMMA TakeFrame ==
  ASSUME NEW h, NEW tk, FrameOK(h, tk), NEW g, NEW new, NEW b, Takes(h, tk, g, new, b)
  PROVE  FrameOK(g, new)
  <1> USE DEF Takes, OtherPages
  <1>1. /\ OwnedBy(h.pmm, h.big, tk)
        /\ SmallOK(h, SlobUnits(h.pmm, OwnPages(h.big, tk)))
    BY DEF FrameOK
  <1>2. OwnPages(h.big, tk) \subseteq h.pmm.held
    BY <1>1 DEF OwnedBy, OwnPages
  <1>3. g.pmm.held \ OwnPages(g.big, new) = h.pmm.held \ OwnPages(h.big, tk)
    BY <1>2
  <1>4. SlobUnits(g.pmm, OwnPages(g.big, new)) = SlobUnits(h.pmm, OwnPages(h.big, tk))
    BY <1>3 DEF SlobUnits
  <1>5. SmallOK(g, SlobUnits(h.pmm, OwnPages(h.big, tk)))
    BY <1>1, SameSmall
  <1> QED BY <1>4, <1>5 DEF FrameOK

\* Pages given back.
LEMMA GiveFrame ==
  ASSUME NEW h, NEW tk, FrameOK(h, tk), NEW g, NEW new, NEW b, Gives(h, tk, g, new, b)
  PROVE  FrameOK(g, new)
  <1> USE DEF Gives, OtherPages
  <1>1. SmallOK(h, SlobUnits(h.pmm, OwnPages(h.big, tk)))
    BY DEF FrameOK
  <1>2. g.pmm.held \ OwnPages(g.big, new) = h.pmm.held \ OwnPages(h.big, tk)
    OBVIOUS
  <1>3. SlobUnits(g.pmm, OwnPages(g.big, new)) = SlobUnits(h.pmm, OwnPages(h.big, tk))
    BY <1>2 DEF SlobUnits
  <1>4. SmallOK(g, SlobUnits(h.pmm, OwnPages(h.big, tk)))
    BY <1>1, SameSmall
  <1> QED BY <1>3, <1>4 DEF FrameOK

\* The headers of the nodes in the list of big blocks.
NodesOf(bigs) == {bigs[i].node : i \in 1..Len(bigs)}

NodesOK(bigs, u) ==
  /\ \A i \in 1..Len(bigs) : bigs[i].node \in DOMAIN u /\ u[bigs[i].node] = Node
  /\ \A i, j \in 1..Len(bigs) : bigs[i].node = bigs[j].node => i = j

\* A list with a new entry in front.
LEMMA InFront ==
  ASSUME NEW S, NEW s \in Seq(S), NEW x
  PROVE  /\ <<x>> \o s \in Seq(S \cup {x}) /\ Len(<<x>> \o s) = Len(s) + 1 /\ Len(s) \in Nat
         /\ \A i \in 1..(Len(s) + 1) : (<<x>> \o s)[i] = IF i = 1 THEN x ELSE s[i - 1]
  <1>1. <<x>> \in Seq(S \cup {x}) /\ s \in Seq(S \cup {x}) /\ Len(<<x>>) = 1 /\ <<x>>[1] = x
    BY SeqMonotonic
  <1>2. Len(s) \in Nat
    OBVIOUS
  <1>3. /\ <<x>> \o s \in Seq(S \cup {x}) /\ Len(<<x>> \o s) = Len(<<x>>) + Len(s)
        /\ \A i \in 1..(Len(<<x>>) + Len(s)) :
             (<<x>> \o s)[i] = IF i <= Len(<<x>>) THEN <<x>>[i] ELSE s[i - Len(<<x>>)]
    BY <1>1, ConcatProperties
  <1> QED BY <1>1, <1>2, <1>3

\* The list of big blocks with a new entry.
LEMMA NewEntry ==
  ASSUME NEW S, NEW bigs \in Seq(S), NEW x, NEW u, NodesOK(bigs, u),
         NEW v, DOMAIN v = DOMAIN u \cup {x.node}, v[x.node] = Node, x.node \notin DOMAIN u,
         \A a \in DOMAIN u : v[a] = u[a]
  PROVE  /\ PagesOf(<<x>> \o bigs) = PagesOf(bigs) \cup {<<x.page, Shl[x.order]>>}
         /\ NodesOf(<<x>> \o bigs) = NodesOf(bigs) \cup {x.node}
         /\ NodesOK(<<x>> \o bigs, v)
  <1> DEFINE s == <<x>> \o bigs
  <1>1. /\ Len(s) = Len(bigs) + 1 /\ Len(bigs) \in Nat
        /\ \A i \in 1..Len(s) : s[i] = IF i = 1 THEN x ELSE bigs[i - 1]
    <2>1. /\ Len(s) = Len(bigs) + 1 /\ Len(bigs) \in Nat
          /\ \A i \in 1..(Len(bigs) + 1) : s[i] = IF i = 1 THEN x ELSE bigs[i - 1]
      BY InFront
    <2> QED BY <2>1
  <1> HIDE DEF s
  <1>2. \A i \in 1..Len(s) : \/ i = 1 /\ s[i] = x
                             \/ i - 1 \in 1..Len(bigs) /\ s[i] = bigs[i - 1]
    BY <1>1
  <1>3. /\ 1 \in 1..Len(s) /\ s[1] = x
        /\ \A i \in 1..Len(bigs) : i + 1 \in 1..Len(s) /\ s[i + 1] = bigs[i]
    BY <1>1
  <1>4. PagesOf(s) = PagesOf(bigs) \cup {<<x.page, Shl[x.order]>>}
    <2>1. ASSUME NEW i \in 1..Len(s)
          PROVE  <<s[i].page, Shl[s[i].order]>> \in PagesOf(bigs) \cup {<<x.page, Shl[x.order]>>}
      BY <1>2 DEF PagesOf
    <2>2. ASSUME NEW i \in 1..Len(bigs) PROVE <<bigs[i].page, Shl[bigs[i].order]>> \in PagesOf(s)
      BY <1>3 DEF PagesOf
    <2>3. <<x.page, Shl[x.order]>> \in PagesOf(s)
      BY <1>3 DEF PagesOf
    <2>4. PagesOf(s) \subseteq PagesOf(bigs) \cup {<<x.page, Shl[x.order]>>}
      <3> SUFFICES ASSUME NEW i \in 1..Len(s)
                   PROVE  <<s[i].page, Shl[s[i].order]>> \in PagesOf(bigs) \cup {<<x.page, Shl[x.order]>>}
        BY DEF PagesOf
      <3> QED BY <2>1
    <2>5. PagesOf(bigs) \subseteq PagesOf(s)
      <3> SUFFICES ASSUME NEW i \in 1..Len(bigs)
                   PROVE  <<bigs[i].page, Shl[bigs[i].order]>> \in PagesOf(s)
        BY DEF PagesOf
      <3> QED BY <2>2
    <2> QED BY <2>3, <2>4, <2>5
  <1>5. NodesOf(s) = NodesOf(bigs) \cup {x.node}
    <2>1. ASSUME NEW i \in 1..Len(s) PROVE s[i].node \in NodesOf(bigs) \cup {x.node}
      BY <1>2 DEF NodesOf
    <2>2. ASSUME NEW i \in 1..Len(bigs) PROVE bigs[i].node \in NodesOf(s)
      BY <1>3 DEF NodesOf
    <2>3. x.node \in NodesOf(s)
      BY <1>3 DEF NodesOf
    <2> QED BY <2>1, <2>2, <2>3 DEF NodesOf
  <1>6. /\ \A i \in 1..Len(bigs) : bigs[i].node \in DOMAIN u /\ u[bigs[i].node] = Node
        /\ \A i, j \in 1..Len(bigs) : bigs[i].node = bigs[j].node => i = j
    BY DEF NodesOK
  <1>7. \A i \in 1..Len(s) : s[i].node \in DOMAIN v /\ v[s[i].node] = Node
    BY <1>2, <1>6
  <1>8. ASSUME NEW i \in 1..Len(s), NEW j \in 1..Len(s), s[i].node = s[j].node PROVE i = j
    <2>1. \A k \in 1..Len(bigs) : bigs[k].node # x.node
      BY <1>6
    <2>2. CASE i = 1 /\ j # 1
      <3>1. j - 1 \in 1..Len(bigs) /\ s[j] = bigs[j - 1] /\ s[i] = x
        BY <1>2, <2>2
      <3> QED BY <1>8, <2>1, <3>1
    <2>3. CASE i # 1 /\ j = 1
      <3>1. i - 1 \in 1..Len(bigs) /\ s[i] = bigs[i - 1] /\ s[j] = x
        BY <1>2, <2>3
      <3> QED BY <1>8, <2>1, <3>1
    <2>4. CASE i # 1 /\ j # 1
      <3>1. /\ i - 1 \in 1..Len(bigs) /\ s[i] = bigs[i - 1]
            /\ j - 1 \in 1..Len(bigs) /\ s[j] = bigs[j - 1]
        BY <1>2, <2>4
      <3>2. i - 1 = j - 1
        BY <1>6, <1>8, <3>1
      <3> QED BY <3>2
    <2> QED BY <2>2, <2>3, <2>4
  <1>9. NodesOK(s, v)
    BY <1>7, <1>8 DEF NodesOK
  <1> QED BY <1>4, <1>5, <1>9 DEF s

\* The list of big blocks without one of its entries.
LEMMA OldEntry ==
  ASSUME NEW S, NEW bigs \in Seq(S), NEW i \in 1..Len(bigs), NEW u, NodesOK(bigs, u),
         \A k, j \in 1..Len(bigs) : bigs[k].page = bigs[j].page => k = j
  PROVE  /\ PagesOf(Without(bigs, i)) = PagesOf(bigs) \ {<<bigs[i].page, Shl[bigs[i].order]>>}
         /\ NodesOf(Without(bigs, i)) = NodesOf(bigs) \ {bigs[i].node}
         /\ NodesOK(Without(bigs, i), Drop(u, bigs[i].node))
  <1> DEFINE s == Without(bigs, i)
             n == bigs[i].node
             v == Drop(u, n)
  <1>1. /\ Len(s) = Len(bigs) - 1 /\ Len(bigs) \in Nat /\ i \in Nat /\ 1 <= i /\ i <= Len(bigs)
        /\ \A k \in 1..Len(s) : s[k] = IF k < i THEN bigs[k] ELSE bigs[k + 1]
    <2>1. /\ Len(s) = Len(bigs) - 1
          /\ \A k \in 1..(Len(bigs) - 1) : s[k] = IF k < i THEN bigs[k] ELSE bigs[k + 1]
      BY WithoutOne
    <2> HIDE DEF s
    <2> QED BY <2>1
  <1>2. DOMAIN v = DOMAIN u \ {n} /\ \A a \in DOMAIN u : a # n => v[a] = u[a]
    BY DropOne
  <1> HIDE DEF s, v
  <1>3. \A k \in 1..Len(s) : \/ k < i /\ k \in 1..Len(bigs) /\ s[k] = bigs[k]
                             \/ k >= i /\ k + 1 \in 1..Len(bigs) /\ s[k] = bigs[k + 1]
    BY <1>1
  <1>4. \A k \in 1..Len(s) : \E j \in 1..Len(bigs) : j # i /\ s[k] = bigs[j]
    BY <1>3
  <1>5. \A j \in 1..Len(bigs) : j # i => \E k \in 1..Len(s) : s[k] = bigs[j]
    <2> SUFFICES ASSUME NEW j \in 1..Len(bigs), j # i PROVE \E k \in 1..Len(s) : s[k] = bigs[j]
      OBVIOUS
    <2>1. CASE j < i
      <3>1. j \in 1..Len(s) /\ s[j] = bigs[j]
        BY <1>1, <2>1
      <3> QED BY <3>1
    <2>2. CASE j > i
      <3>1. j - 1 \in 1..Len(s) /\ s[j - 1] = bigs[j]
        BY <1>1, <2>2
      <3> QED BY <3>1
    <2> QED BY <1>1, <2>1, <2>2
  <1>6. /\ \A k \in 1..Len(bigs) : bigs[k].node \in DOMAIN u /\ u[bigs[k].node] = Node
        /\ \A k, j \in 1..Len(bigs) : bigs[k].node = bigs[j].node => k = j
    BY DEF NodesOK
  <1>7. PagesOf(s) = PagesOf(bigs) \ {<<bigs[i].page, Shl[bigs[i].order]>>}
    <2>1. ASSUME NEW k \in 1..Len(s)
          PROVE  <<s[k].page, Shl[s[k].order]>> \in PagesOf(bigs) \ {<<bigs[i].page, Shl[bigs[i].order]>>}
      <3>1. PICK j \in 1..Len(bigs) : j # i /\ s[k] = bigs[j]
        BY <1>4
      <3>2. bigs[j].page # bigs[i].page
        BY <3>1
      <3> QED BY <3>1, <3>2 DEF PagesOf
    <2>2. ASSUME NEW j \in 1..Len(bigs), j # i PROVE <<bigs[j].page, Shl[bigs[j].order]>> \in PagesOf(s)
      <3>1. PICK k \in 1..Len(s) : s[k] = bigs[j]
        BY <1>5, <2>2
      <3> QED BY <3>1 DEF PagesOf
    <2>3. PagesOf(s) \subseteq PagesOf(bigs) \ {<<bigs[i].page, Shl[bigs[i].order]>>}
      <3> SUFFICES ASSUME NEW k \in 1..Len(s)
                   PROVE  <<s[k].page, Shl[s[k].order]>>
                            \in PagesOf(bigs) \ {<<bigs[i].page, Shl[bigs[i].order]>>}
        BY DEF PagesOf
      <3> QED BY <2>1
    <2>4. PagesOf(bigs) \ {<<bigs[i].page, Shl[bigs[i].order]>>} \subseteq PagesOf(s)
      <3> SUFFICES ASSUME NEW j \in 1..Len(bigs),
                          <<bigs[j].page, Shl[bigs[j].order]>> # <<bigs[i].page, Shl[bigs[i].order]>>
                   PROVE  <<bigs[j].page, Shl[bigs[j].order]>> \in PagesOf(s)
        BY DEF PagesOf
      <3>1. j # i
        OBVIOUS
      <3> QED BY <2>2, <3>1
    <2> QED BY <2>3, <2>4
  <1>8. NodesOf(s) = NodesOf(bigs) \ {n}
    <2>1. ASSUME NEW k \in 1..Len(s) PROVE s[k].node \in NodesOf(bigs) \ {n}
      <3>1. PICK j \in 1..Len(bigs) : j # i /\ s[k] = bigs[j]
        BY <1>4
      <3>2. bigs[j].node # n
        BY <1>6, <3>1
      <3> QED BY <3>1, <3>2 DEF NodesOf
    <2>2. ASSUME NEW j \in 1..Len(bigs), j # i PROVE bigs[j].node \in NodesOf(s)
      <3>1. PICK k \in 1..Len(s) : s[k] = bigs[j]
        BY <1>5, <2>2
      <3> QED BY <3>1 DEF NodesOf
    <2>3. NodesOf(s) \subseteq NodesOf(bigs) \ {n}
      <3> SUFFICES ASSUME NEW k \in 1..Len(s) PROVE s[k].node \in NodesOf(bigs) \ {n}
        BY DEF NodesOf
      <3> QED BY <2>1
    <2>4. NodesOf(bigs) \ {n} \subseteq NodesOf(s)
      <3> SUFFICES ASSUME NEW j \in 1..Len(bigs), bigs[j].node # n PROVE bigs[j].node \in NodesOf(s)
        BY DEF NodesOf
      <3>1. j # i
        BY DEF n
      <3> QED BY <2>2, <3>1
    <2> QED BY <2>3, <2>4
  <1>9. \A k \in 1..Len(s) : s[k].node \in DOMAIN v /\ v[s[k].node] = Node
    <2> SUFFICES ASSUME NEW k \in 1..Len(s) PROVE s[k].node \in DOMAIN v /\ v[s[k].node] = Node
      OBVIOUS
    <2>1. PICK j \in 1..Len(bigs) : j # i /\ s[k] = bigs[j]
      BY <1>4
    <2>2. bigs[j].node # n
      BY <1>6, <2>1
    <2> QED BY <1>2, <1>6, <2>1, <2>2
  <1>10. ASSUME NEW k \in 1..Len(s), NEW j \in 1..Len(s), s[k].node = s[j].node PROVE k = j
    <2> DEFINE a == IF k < i THEN k ELSE k + 1
               c == IF j < i THEN j ELSE j + 1
    <2>1. a \in 1..Len(bigs) /\ s[k] = bigs[a]
      BY <1>3
    <2>2. c \in 1..Len(bigs) /\ s[j] = bigs[c]
      BY <1>3
    <2>3. a = c
      <3> HIDE DEF a, c
      <3> QED BY <1>6, <1>10, <2>1, <2>2
    <2>4. k \in Nat /\ j \in Nat /\ i \in Nat
      BY <1>1
    <2> QED BY <2>3, <2>4
  <1>11. NodesOK(s, v)
    BY <1>9, <1>10 DEF NodesOK
  <1> QED BY <1>7, <1>8, <1>11 DEF s, v

\* A list of big blocks whose nodes are left alone.
LEMMA SameNodes ==
  ASSUME NEW bigs, NEW u, NodesOK(bigs, u),
         NEW v, \A a \in NodesOf(bigs) : a \in DOMAIN v /\ v[a] = u[a]
  PROVE  NodesOK(bigs, v)
  BY DEF NodesOK, NodesOf

\* The whole heap: pages, small blocks, and who has them.
HeapOK(h, tk, lv) ==
  /\ FrameOK(h, tk)
  /\ NodesOK(h.big, h.units)
  /\ LiveOK(lv, h.units, NodesOf(h.big), OwnPages(h.big, tk))

\* A small object for a caller.
LEMMA GiveSmall ==
  ASSUME NEW h, NEW tk, NEW lv, HeapOK(h, tk, lv), NEW n \in Nat \ {0}, NEW got,
         Granted(h, tk, n + 1, got), got[2] # 0
  PROVE  HeapOK(got[1], tk, With(lv, got[2] + 1, n)) /\ got[2] + 1 \notin DOMAIN lv
  <1> DEFINE g  == got[1]
             b  == got[2]
             u  == h.units
             ND == NodesOf(h.big)
             PB == OwnPages(h.big, tk)
  <1>1. FrameOK(h, tk) /\ NodesOK(h.big, u) /\ LiveOK(lv, u, ND, PB)
    BY DEF HeapOK
  <1>2. /\ FrameOK(g, tk) /\ g.big = h.big /\ g.units = With(u, b, n + 1)
        /\ b \in Nat /\ b > 1 /\ b \notin DOMAIN u
    BY DEF Granted
  <1> HIDE DEF g, b, u, ND, PB
  <1>3. DOMAIN g.units = DOMAIN u \cup {b} /\ \A a \in DOMAIN u : g.units[a] = u[a]
    BY <1>2 DEF With
  <1>4. \A a \in ND : a \in DOMAIN u
    BY <1>1 DEF LiveOK
  <1>5. NodesOK(h.big, g.units)
    BY <1>1, <1>3, <1>4, SameNodes DEF ND
  <1>6. StartsApart(g.units, PB)
    BY <1>2, BlocksApart DEF PB
  <1>7. \A p \in PB : b + 1 # p[1] * U
    BY <1>3, <1>6 DEF StartsApart
  <1>8. \A x \in DOMAIN u : x \in Nat
    BY <1>1, BlocksApart DEF u
  <1>9. LiveOK(With(lv, b + 1, n), With(u, b, n + 1), ND, PB) /\ b + 1 \notin DOMAIN lv
    BY <1>1, <1>2, <1>7, <1>8, LiveSmall
  <1> QED BY <1>2, <1>5, <1>9 DEF HeapOK, g, b, u, ND, PB

\* A small object given back.
LEMMA FreeSmall ==
  ASSUME NEW h, NEW tk, NEW lv, HeapOK(h, tk, lv), NEW b \in DOMAIN h.units, b \notin NodesOf(h.big)
  PROVE  HeapOK(SlobFree(h, b, h.units[b]), tk, Drop(lv, b + 1))
  <1> DEFINE g  == SlobFree(h, b, h.units[b])
             u  == h.units
             ND == NodesOf(h.big)
             PB == OwnPages(h.big, tk)
  <1>1. FrameOK(h, tk) /\ NodesOK(h.big, u) /\ LiveOK(lv, u, ND, PB)
    BY DEF HeapOK
  <1>2. FrameOK(g, tk) /\ g.big = h.big /\ g.units = Drop(u, b)
    BY <1>1, ReleaseFrame
  <1>3. b \in DOMAIN u \ ND
    OBVIOUS
  <1> HIDE DEF g, u, ND, PB
  <1>4. DOMAIN g.units = DOMAIN u \ {b} /\ \A a \in DOMAIN u : a # b => g.units[a] = u[a]
    BY <1>2 DEF Drop, Restrict
  <1>5. \A a \in ND : a \in DOMAIN u
    BY <1>1 DEF LiveOK
  <1>6. \A a \in ND : a \in DOMAIN g.units /\ g.units[a] = u[a]
    BY <1>3, <1>4, <1>5
  <1>7. NodesOK(h.big, g.units)
    BY <1>1, <1>6, SameNodes DEF ND
  <1>8. StartsApart(u, PB) /\ \A x \in DOMAIN u : x \in Nat
    BY <1>1, BlocksApart DEF PB, u
  <1>9. LiveOK(Drop(lv, b + 1), Drop(u, b), ND, PB)
    BY <1>1, <1>3, <1>8, LiveNoSmall
  <1> QED BY <1>2, <1>7, <1>9 DEF HeapOK, g, u, ND, PB

\* Blocks of pages that are held begin in different places.
LEMMA OneStart ==
  ASSUME NEW m, HeldApart(m), NEW b \in m.held, NEW c \in m.held, b # c
  PROVE  b[1] * U # c[1] * U /\ UnitsOf(b) \cap UnitsOf(c) = {}
  BY DEF HeldApart

\* A large object for a caller.
LEMMA GiveLarge ==
  ASSUME NEW h, NEW tk, NEW lv, HeapOK(h, tk, lv), NEW got,
         Granted(h, tk, Node, got), got[2] # 0,
         NEW x, x.node = got[2], Shl[x.order] \in Nat \ {0},
         CanAlloc(got[1].pmm, Shl[x.order]), x.page = AllocBase(got[1].pmm, Shl[x.order]),
         NEW n \in Nat \ {0}, n <= Shl[x.order] * U,
         NEW g, OtherPages(got[1], g), g.pmm = AllocPages(got[1].pmm, Shl[x.order]),
         g.big = <<x>> \o h.big
  PROVE  HeapOK(g, tk, With(lv, x.page * U, n)) /\ x.page * U \notin DOMAIN lv
  <1> DEFINE k  == got[1]
             b  == got[2]
             u  == h.units
             ND == NodesOf(h.big)
             PB == OwnPages(h.big, tk)
             m  == Shl[x.order]
             p  == x.page
             c  == <<p, m>>
             PC == OwnPages(g.big, tk)
  <1>1. FrameOK(h, tk) /\ NodesOK(h.big, u) /\ LiveOK(lv, u, ND, PB)
    BY DEF HeapOK
  <1>2. /\ FrameOK(k, tk) /\ k.big = h.big /\ k.units = With(u, b, Node)
        /\ b \in Nat /\ b > 1 /\ b \notin DOMAIN u
    BY DEF Granted
  <1>3. OwnedBy(k.pmm, h.big, tk)
    BY <1>2 DEF FrameOK
  <1>4. /\ \A q \in k.pmm.held : q[1] # p
        /\ g.pmm.held = k.pmm.held \cup {c} /\ p \in Nat
    BY <1>3, OwnedAlloc
  <1>5. OwnedBy(g.pmm, g.big, tk)
    BY <1>3, OwnedBig
  <1> HIDE DEF k, b, u, ND, PB, PC
  <1>6. /\ DOMAIN k.units = DOMAIN u \cup {b} /\ k.units[b] = Node
        /\ \A a \in DOMAIN u : k.units[a] = u[a]
    BY <1>2 DEF With
  <1>7. x.node = b /\ g.units = k.units
    BY DEF b, k, OtherPages
  <1>8. /\ PagesOf(g.big) = PagesOf(h.big) \cup {c}
        /\ NodesOf(g.big) = ND \cup {b}
        /\ NodesOK(g.big, k.units)
    <2>1. PICK S : h.big \in Seq(S)
      BY <1>3 DEF OwnedBy
    <2>2. /\ PagesOf(<<x>> \o h.big) = PagesOf(h.big) \cup {c}
          /\ NodesOf(<<x>> \o h.big) = NodesOf(h.big) \cup {x.node}
          /\ NodesOK(<<x>> \o h.big, k.units)
      BY <1>1, <1>2, <1>6, <1>7, <2>1, NewEntry
    <2> QED BY <1>7, <2>2 DEF ND
  <1>9. PC = PB \cup {c}
    BY <1>8 DEF PC, PB, OwnPages
  <1>10. c \notin k.pmm.held /\ c[1] = p /\ c[2] = m
    BY <1>4
  <1>11. FrameOK(g, tk)
    <2>1. OwnPages(g.big, tk) = OwnPages(k.big, tk) \cup {c}
      BY <1>2, <1>9 DEF PC, PB
    <2>2. OtherPages(k, g)
      BY DEF k, OtherPages
    <2> HIDE DEF c
    <2>3. Takes(k, tk, g, tk, c)
      BY <1>4, <1>5, <1>10, <2>1, <2>2 DEF Takes
    <2> QED BY <1>2, <2>3, TakeFrame
  <1>12. StartsApart(k.units, PC)
    BY <1>7, <1>11, BlocksApart DEF PC
  <1>13. \A y \in DOMAIN k.units : y + 1 # p * U
    BY <1>9, <1>10, <1>12 DEF StartsApart
  <1>14. \A q \in PB : q[1] * U # p * U
    <2>1. HeldApart(g.pmm) /\ PC \subseteq g.pmm.held
      BY <1>11, OwnersApart DEF PC
    <2>2. \A q \in PB : q # c /\ q \in g.pmm.held /\ c \in g.pmm.held
      <3>1. PB \subseteq k.pmm.held
        BY <1>2, OwnersApart DEF PB
      <3> QED BY <1>4, <1>10, <3>1
    <2> QED BY <1>10, <2>1, <2>2, OneStart
  <1>15. LiveOK(lv, k.units, ND \cup {b}, PB)
    BY <1>1, <1>2, LiveSpare
  <1>16. LiveOK(With(lv, p * U, n), k.units, ND \cup {b}, PB \cup {c}) /\ p * U \notin DOMAIN lv
    BY <1>13, <1>14, <1>15, LivePages
  <1> QED BY <1>7, <1>8, <1>9, <1>11, <1>16 DEF HeapOK, PC

\* No pages for the large object: its node is given back.
LEMMA NoLarge ==
  ASSUME NEW h, NEW tk, NEW lv, HeapOK(h, tk, lv), NEW got,
         Granted(h, tk, Node, got), got[2] # 0
  PROVE  HeapOK(SlobFree(got[1], got[2], Node), tk, lv)
  <1> DEFINE k == got[1]
             b == got[2]
             u == h.units
             g == SlobFree(k, b, Node)
  <1>1. FrameOK(h, tk) /\ NodesOK(h.big, u) /\ LiveOK(lv, u, NodesOf(h.big), OwnPages(h.big, tk))
    BY DEF HeapOK
  <1>2. /\ FrameOK(k, tk) /\ k.big = h.big /\ k.units = With(u, b, Node)
        /\ b \in Nat /\ b > 1 /\ b \notin DOMAIN u
    BY DEF Granted
  <1>3. UsedOK(u)
    BY <1>1 DEF FrameOK, SmallOK
  <1> HIDE DEF k, b, u
  <1>4. b \in DOMAIN k.units /\ k.units[b] = Node
    BY <1>2 DEF With
  <1>5. FrameOK(g, tk) /\ g.big = k.big /\ g.units = Drop(k.units, b)
    <2> HIDE DEF g
    <2>1. g = SlobFree(k, b, k.units[b])
      BY <1>4 DEF g
    <2> QED BY <1>2, <1>4, <2>1, ReleaseFrame
  <1>6. Drop(With(u, b, Node), b) = u
    <2>1. u \in [DOMAIN u -> Nat]
      BY <1>3 DEF UsedOK
    <2>2. DOMAIN With(u, b, Node) \ {b} = DOMAIN u /\ \A a \in DOMAIN u : With(u, b, Node)[a] = u[a]
      BY <1>2 DEF With
    <2>3. Drop(With(u, b, Node), b) = [a \in DOMAIN u |-> u[a]]
      BY <2>2 DEF Drop, Restrict
    <2> QED BY <2>1, <2>3
  <1> HIDE DEF g
  <1> QED BY <1>1, <1>2, <1>5, <1>6 DEF HeapOK, g, k, b, u

\* A large object given back: its pages, then its node.
LEMMA FreeLarge ==
  ASSUME NEW h, NEW tk, NEW lv, HeapOK(h, tk, lv), NEW i \in 1..Len(h.big),
         NEW k, OtherPages(h, k), k.pmm = FreePages(h.pmm, <<h.big[i].page, Shl[h.big[i].order]>>),
         k.big = Without(h.big, i)
  PROVE  HeapOK(SlobFree(k, h.big[i].node, Node), tk, Drop(lv, h.big[i].page * U))
  <1> DEFINE b  == h.big[i].node
             p  == h.big[i].page
             c  == <<p, Shl[h.big[i].order]>>
             u  == h.units
             ND == NodesOf(h.big)
             PB == OwnPages(h.big, tk)
             PC == OwnPages(k.big, tk)
             g  == SlobFree(k, b, Node)
  <1>1. FrameOK(h, tk) /\ NodesOK(h.big, u) /\ LiveOK(lv, u, ND, PB)
    BY DEF HeapOK
  <1>2. OwnedBy(h.pmm, h.big, tk)
    BY <1>1 DEF FrameOK
  <1>3. OwnedBy(k.pmm, k.big, tk)
    BY <1>2, OwnedFreeBig
  <1>4. /\ PagesOf(k.big) = PagesOf(h.big) \ {c}
        /\ NodesOf(k.big) = ND \ {b}
        /\ NodesOK(k.big, Drop(u, b))
    <2>1. PICK S : h.big \in Seq(S)
      BY <1>2 DEF OwnedBy
    <2>2. \A l, j \in 1..Len(h.big) : h.big[l].page = h.big[j].page => l = j
      BY <1>2 DEF OwnedBy
    <2> QED BY <1>1, <2>1, <2>2, OldEntry
  <1>5. c \in PagesOf(h.big) /\ b \in ND /\ b \in DOMAIN u /\ u[b] = Node
    BY <1>1 DEF PagesOf, NodesOf, NodesOK
  <1>6. c \in h.pmm.held /\ c \notin tk /\ PagesOK(h.pmm)
    BY <1>2, <1>5 DEF OwnedBy
  <1>7. k.pmm.held = h.pmm.held \ {c}
    BY <1>6, FreeOK
  <1>8. c[1] = p
    OBVIOUS
  <1> HIDE DEF b, p, c, u, ND, PB, PC
  <1>9. PC = PB \ {c} /\ c \in PB
    BY <1>4, <1>5, <1>6 DEF PC, PB, OwnPages
  <1>10. FrameOK(k, tk)
    <2>1. Gives(h, tk, k, tk, c)
      BY <1>3, <1>7, <1>9 DEF Gives, PC, PB
    <2> QED BY <1>1, <2>1, GiveFrame
  <1>11. k.units = u
    BY DEF OtherPages, u
  <1>12. FrameOK(g, tk) /\ g.big = k.big /\ g.units = Drop(u, b)
    <2> HIDE DEF g
    <2>1. g = SlobFree(k, b, k.units[b])
      BY <1>5, <1>11 DEF g
    <2> QED BY <1>5, <1>10, <1>11, <2>1, ReleaseFrame
  <1> HIDE DEF g
  <1>13. \A q \in PB : q # c => q[1] * U # c[1] * U
    <2>1. HeldApart(h.pmm) /\ PB \subseteq h.pmm.held
      BY <1>1, OwnersApart DEF PB
    <2> QED BY <1>6, <2>1, OneStart
  <1>14. StartsApart(u, PB)
    BY <1>1, BlocksApart DEF u, PB
  <1>15. LiveOK(Drop(lv, c[1] * U), u, ND, PB \ {c})
    BY <1>1, <1>9, <1>13, <1>14, LiveNoPages
  <1>16. LiveOK(Drop(lv, p * U), Drop(u, b), ND \ {b}, PC)
    BY <1>5, <1>8, <1>9, <1>15, LiveUnspare
  <1> QED BY <1>4, <1>12, <1>16 DEF HeapOK, g, b, p, PC

\* Pages taken directly.
LEMMA GiveDirect ==
  ASSUME NEW h, NEW tk, NEW lv, HeapOK(h, tk, lv), NEW n \in Nat \ {0}, CanAlloc(h.pmm, n),
         NEW g, OtherPages(h, g), g.pmm = AllocPages(h.pmm, n), g.big = h.big
  PROVE  /\ HeapOK(g, tk \cup {<<AllocBase(h.pmm, n), n>>}, With(lv, AllocBase(h.pmm, n) * U, n * U))
         /\ AllocBase(h.pmm, n) * U \notin DOMAIN lv
  <1> DEFINE p   == AllocBase(h.pmm, n)
             c   == <<p, n>>
             new == tk \cup {c}
             u   == h.units
             ND  == NodesOf(h.big)
             PB  == OwnPages(h.big, tk)
             PC  == OwnPages(g.big, new)
  <1>1. FrameOK(h, tk) /\ NodesOK(h.big, u) /\ LiveOK(lv, u, ND, PB)
    BY DEF HeapOK
  <1>2. OwnedBy(h.pmm, h.big, tk)
    BY <1>1 DEF FrameOK
  <1>3. /\ \A q \in h.pmm.held : q[1] # p
        /\ g.pmm.held = h.pmm.held \cup {c} /\ p \in Nat
    BY <1>2, OwnedAlloc
  <1>4. OwnedBy(g.pmm, g.big, new)
    BY <1>2, OwnedTake
  <1>5. c \notin h.pmm.held /\ c[1] = p /\ c[2] = n
    BY <1>3
  <1>6. g.units = u
    BY DEF OtherPages
  <1> HIDE DEF p, c, u, ND, PB, PC
  <1>7. PC = PB \cup {c}
    BY DEF PC, PB, OwnPages
  <1> HIDE DEF new
  <1>8. FrameOK(g, new)
    <2>1. Takes(h, tk, g, new, c)
      BY <1>3, <1>4, <1>5, <1>7 DEF Takes, PC, PB
    <2> QED BY <1>1, <2>1, TakeFrame
  <1>9. \A y \in DOMAIN u : y + 1 # p * U
    BY <1>5, <1>6, <1>7, <1>8, BlocksApart DEF StartsApart, PC
  <1>10. \A q \in PB : q[1] * U # p * U
    <2>1. HeldApart(g.pmm) /\ PC \subseteq g.pmm.held
      BY <1>8, OwnersApart DEF PC
    <2>2. \A q \in PB : q # c /\ q \in g.pmm.held /\ c \in g.pmm.held
      <3>1. PB \subseteq h.pmm.held
        BY <1>1, OwnersApart DEF PB
      <3> QED BY <1>3, <1>5, <3>1
    <2> QED BY <1>5, <2>1, <2>2, OneStart
  <1>11. n * U \in Nat \ {0}
    BY HeapAssumption
  <1>12. LiveOK(With(lv, p * U, n * U), u, ND, PB \cup {c}) /\ p * U \notin DOMAIN lv
    <2> DEFINE l == n * U
    <2>1. l \in Nat \ {0} /\ l <= n * U
      BY <1>11
    <2> HIDE DEF l
    <2>2. LiveOK(With(lv, p * U, l), u, ND, PB \cup {<<p, n>>}) /\ p * U \notin DOMAIN lv
      BY <1>1, <1>9, <1>10, <2>1, LivePages
    <2> QED BY <2>2 DEF l, c
  <1> QED BY <1>1, <1>6, <1>7, <1>8, <1>12 DEF HeapOK, ND, PC, new, c, p

\* Pages given back directly.
LEMMA FreeDirect ==
  ASSUME NEW h, NEW tk, NEW lv, HeapOK(h, tk, lv), NEW c \in tk,
         NEW g, OtherPages(h, g), g.pmm = FreePages(h.pmm, c), g.big = h.big
  PROVE  HeapOK(g, tk \ {c}, Drop(lv, c[1] * U))
  <1> DEFINE new == tk \ {c}
             u   == h.units
             ND  == NodesOf(h.big)
             PB  == OwnPages(h.big, tk)
             PC  == OwnPages(g.big, new)
  <1>1. FrameOK(h, tk) /\ NodesOK(h.big, u) /\ LiveOK(lv, u, ND, PB)
    BY DEF HeapOK
  <1>2. OwnedBy(h.pmm, h.big, tk)
    BY <1>1 DEF FrameOK
  <1>3. OwnedBy(g.pmm, g.big, new)
    BY <1>2, OwnedGive
  <1>4. c \in h.pmm.held /\ c \notin PagesOf(h.big) /\ PagesOK(h.pmm)
    BY <1>2 DEF OwnedBy
  <1>5. g.pmm.held = h.pmm.held \ {c}
    BY <1>4, FreeOK
  <1>6. g.units = u
    BY DEF OtherPages
  <1> HIDE DEF u, ND, PB, PC
  <1>7. PC = PB \ {c} /\ c \in PB
    BY <1>4 DEF PC, PB, OwnPages
  <1> HIDE DEF new
  <1>8. FrameOK(g, new)
    <2>1. Gives(h, tk, g, new, c)
      BY <1>3, <1>5, <1>7 DEF Gives, PC, PB
    <2> QED BY <1>1, <2>1, GiveFrame
  <1>9. \A q \in PB : q # c => q[1] * U # c[1] * U
    <2>1. HeldApart(h.pmm) /\ PB \subseteq h.pmm.held
      BY <1>1, OwnersApart DEF PB
    <2> QED BY <1>4, <2>1, OneStart
  <1>10. StartsApart(u, PB)
    BY <1>1, BlocksApart DEF u, PB
  <1>11. LiveOK(Drop(lv, c[1] * U), u, ND, PB \ {c})
    BY <1>1, <1>7, <1>9, <1>10, LiveNoPages
  <1> QED BY <1>1, <1>6, <1>7, <1>8, <1>11 DEF HeapOK, ND, PC, new

\* find_order finds enough pages for a large object.
LEMMA LargeFits ==
  ASSUME NEW n \in Large
  PROVE  Shl[FindOrder(n)] \in Nat \ {0} /\ n \in Nat \ {0} /\ n <= Shl[FindOrder(n)] * U
  <1>1. U \in Nat /\ U > 2 /\ n \in Nat /\ n >= U /\ n <= 2 * U
    BY HeapAssumption
  <1>2. Shl[FindOrder(n)] \in Nat \ {0}
    BY LargePages
  <1>3. order = [k \in Nat |-> IF k > U THEN 1 + order[k \div 2] ELSE 0]
    BY DEF order
  <1>4. Shl = [k \in Nat |-> IF k = 0 THEN 1 ELSE 2 * Shl[k - 1]]
    BY DEF Shl
  <1>5. Shl[0] = 1
    BY <1>4
  <1>6. Shl[1] = 2
    <2>1. Shl[1] = 2 * Shl[1 - 1]
      BY <1>4
    <2> QED BY <1>5, <2>1
  <1>7. CASE n <= U
    <2>1. order[n] = 0
      BY <1>1, <1>3, <1>7
    <2>2. n <= 1 * U
      BY <1>1, <1>7
    <2> QED BY <1>1, <1>2, <1>5, <2>1, <2>2 DEF FindOrder
  <1>8. CASE n > U
    <2> DEFINE k == n \div 2
    <2>1. k \in Nat /\ k <= U
      BY <1>1
    <2>2. order[n] = 1 + order[k]
      BY <1>1, <1>3, <1>8
    <2> HIDE DEF k
    <2>3. order[k] = 0
      BY <1>1, <1>3, <2>1
    <2>4. order[n] = 1
      BY <2>2, <2>3
    <2> QED BY <1>1, <1>2, <1>6, <2>4 DEF FindOrder
  <1> QED BY <1>1, <1>7, <1>8

-----------------------------------------------------------------------------
(* The inductive invariant of the heap. *)

HeapInv == HeapOK(heap, taken, live)

\* heap is made of the variables.
LEMMA HeapIs ==
  /\ DOMAIN heap = Fields /\ heap.pmm = pmm /\ heap.big = big
  /\ heap.slob = slob /\ heap.slobfree = slobfree /\ heap.units = units
  BY DEF heap, Fields

\* What holds of a heap holds of the variables that become it.
LEMMA Becoming ==
  ASSUME NEW g, NEW tk, NEW lv, HeapOK(g, tk, lv),
         NEW k, DOMAIN k = Fields, k.pmm = g.pmm, k.big = g.big,
         k.slob = g.slob, k.slobfree = g.slobfree, k.units = g.units
  PROVE  HeapOK(k, tk, lv)
  BY SameSmall DEF HeapOK, FrameOK

\* The same, for a step.
LEMMA BecomeOK ==
  ASSUME NEW g, Become(g), HeapOK(g, taken', live')
  PROVE  HeapInv'
  <1> DEFINE k == [pmm |-> pmm', slob |-> slob', slobfree |-> slobfree', units |-> units',
                   big |-> big']
  <1>1. heap' = k
    BY DEF heap
  <1>2. /\ DOMAIN k = Fields /\ k.pmm = g.pmm /\ k.big = g.big
        /\ k.slob = g.slob /\ k.slobfree = g.slobfree /\ k.units = g.units
    BY DEF Become, Fields
  <1> HIDE DEF k
  <1>3. HeapOK(k, taken', live')
    BY <1>2, Becoming
  <1> QED BY <1>1, <1>3 DEF HeapInv

\* Nothing is owned at first.
LEMMA InitOwned == Init => OwnedBy(pmm, big, taken)
  <1> SUFFICES ASSUME Init PROVE OwnedBy(pmm, big, taken)
    OBVIOUS
  <1>1. PagesOK(pmm) /\ big = <<>> /\ taken = {}
    BY InitialPages DEF Init
  <1>2. big \in Seq({}) /\ Len(big) = 0
    BY <1>1
  <1>3. PagesOf(big) = {}
    BY <1>2 DEF PagesOf
  <1> QED BY <1>1, <1>2, <1>3 DEF OwnedBy

\* At first only the arena's own block is free, and it has no units.
LEMMA InitHeap == Init => HeapInv
  <1> SUFFICES ASSUME Init PROVE HeapInv
    OBVIOUS
  <1> DEFINE s == [a \in {Arena} |-> [units |-> 1, next |-> Arena]]
  <1>1. /\ pmm = FreeMemory /\ slob = s /\ slobfree = Arena
        /\ units = <<>> /\ big = <<>> /\ live = <<>> /\ taken = {}
    BY DEF Init
  <1>2. OwnedBy(pmm, big, taken)
    BY InitOwned
  <1>3. OwnPages(big, taken) = {}
    <2>1. Len(big) = 0
      BY <1>1
    <2> QED BY <1>1, <2>1 DEF OwnPages, PagesOf
  <1>4. SlobUnits(pmm, {}) = {}
    BY <1>1 DEF SlobUnits, FreeMemory
  <1>5. /\ DOMAIN s = {Arena} /\ s[Arena].units = 1 /\ s[Arena].next = Arena
        /\ s \in [{Arena} -> Headers]
    BY DEF Headers, Arena
  <1> HIDE DEF s
  <1>6. Un(s)[Arena] = 1 /\ Links(s)[Arena] = Arena
    BY <1>5 DEF Un, Links
  <1>7. ListIn({Arena}, Un(s), Links(s))
    BY <1>6 DEF ListIn, BlocksTyped, Follows, Arena
  <1>8. FreeOf(s) = {}
    BY <1>5 DEF FreeOf, RoomOf
  <1>9. DOMAIN units = {} /\ DOMAIN live = {}
    BY <1>1
  <1>10. UsedOK(units) /\ UsedOf(units) = {}
    <2>1. units \in [DOMAIN units -> Nat]
      BY <1>1
    <2> QED BY <1>9, <2>1 DEF UsedOK, UsedOf
  <1>11. RoverOK(heap)
    <2>1. ListOK(slob)
      BY <1>1, <1>5, <1>7 DEF ListOK
    <2>2. \A a \in DOMAIN slob : a <= 0
      BY <1>1, <1>5 DEF Arena
    <2> QED BY <1>1, <1>5, <2>1, <2>2, HeapIs DEF RoverOK
  <1>12. SmallOK(heap, {})
    BY <1>1, <1>8, <1>10, <1>11, HeapIs DEF SmallOK
  <1>13. FrameOK(heap, taken)
    BY <1>2, <1>3, <1>4, <1>12, HeapIs DEF FrameOK
  <1>14. Len(big) = 0
    BY <1>1
  <1>15. NodesOK(big, units) /\ NodesOf(big) = {}
    BY <1>14 DEF NodesOK, NodesOf
  <1>16. LiveOK(live, units, {}, {})
    <2>1. live \in [DOMAIN live -> Nat \ {0}]
      BY <1>1
    <2> QED BY <1>9, <2>1 DEF LiveOK
  <1> QED BY <1>3, <1>13, <1>15, <1>16, HeapIs DEF HeapInv, HeapOK

\* A caller gets an object, or gives one back, or neither.
Moves(lv, new) ==
  \/ new = lv
  \/ \E n \in Small \cup Large \cup {k * U : k \in Direct} : \E a :
       a \notin DOMAIN lv /\ new = With(lv, a, n)
  \/ \E a \in DOMAIN lv : new = Drop(lv, a)

\* A heap that becomes what it is.
LEMMA StaysOK ==
  ASSUME HeapInv, Become(heap), taken' = taken, live' = live
  PROVE  HeapInv'
  <1>1. HeapOK(heap, taken', live')
    BY DEF HeapInv
  <1> QED BY <1>1, BecomeOK

\* kmalloc of less than a page.
LEMMA SmallStep ==
  ASSUME HeapInv, NEW n \in Small, KmallocSmall(n)
  PROVE  HeapInv' /\ Moves(live, live')
  <1> DEFINE got == SlobAlloc(heap, n + 1)
  <1>1. HeapOK(heap, taken, live)
    BY DEF HeapInv
  <1>2. n \in Nat \ {0} /\ n + 1 \in Nat /\ n + 1 > 1 /\ n + 1 <= U
    BY HeapAssumption
  <1>3. Granted(heap, taken, n + 1, got)
    BY <1>1, <1>2, SlobAllocOK DEF HeapOK
  <1>4. /\ Become(got[1]) /\ taken' = taken
        /\ live' = IF got[2] = 0 THEN live ELSE With(live, got[2] + 1, n)
    BY DEF KmallocSmall
  <1> HIDE DEF got
  <1>5. CASE got[2] = 0
    <2>1. got[1] = heap /\ live' = live
      BY <1>3, <1>4, <1>5 DEF Granted
    <2> QED BY <1>4, <2>1, StaysOK DEF Moves
  <1>6. CASE got[2] # 0
    <2>1. HeapOK(got[1], taken, With(live, got[2] + 1, n)) /\ got[2] + 1 \notin DOMAIN live
      BY <1>1, <1>2, <1>3, <1>6, GiveSmall
    <2>2. live' = With(live, got[2] + 1, n)
      BY <1>4, <1>6
    <2>3. HeapInv'
      BY <1>4, <2>1, <2>2, BecomeOK
    <2>4. n \in Small \cup Large \cup {k * U : k \in Direct}
      OBVIOUS
    <2> QED BY <2>1, <2>2, <2>3, <2>4 DEF Moves
  <1> QED BY <1>5, <1>6

\* kmalloc of a page or more.
LEMMA LargeStep ==
  ASSUME HeapInv, NEW n \in Large, KmallocLarge(n)
  PROVE  HeapInv' /\ Moves(live, live')
  <1> DEFINE got == SlobAlloc(heap, Node)
             h   == got[1]
             o   == FindOrder(n)
             m   == Shl[o]
             x   == [node |-> got[2], page |-> AllocBase(h.pmm, m), order |-> o]
             g   == [h EXCEPT !.pmm = AllocPages(@, m), !.big = <<x>> \o @]
  <1>1. HeapOK(heap, taken, live)
    BY DEF HeapInv
  <1>2. m \in Nat \ {0} /\ n \in Nat \ {0} /\ n <= m * U
    BY LargeFits
  <1>3. Granted(heap, taken, Node, got)
    <2>1. Node \in Nat /\ Node > 1 /\ Node <= U
      BY HeapAssumption DEF Node
    <2> QED BY <1>1, <2>1, SlobAllocOK DEF HeapOK
  <1>4. \/ UNCHANGED vars
        \/ /\ got[2] # 0 /\ CanAlloc(h.pmm, m) /\ Become(g) /\ taken' = taken
           /\ live' = With(live, AllocBase(h.pmm, m) * U, n)
        \/ /\ got[2] # 0 /\ Become(SlobFree(h, got[2], Node)) /\ taken' = taken /\ live' = live
    BY DEF KmallocLarge
  <1>5. x.node = got[2] /\ x.page = AllocBase(h.pmm, m) /\ x.order = o
    OBVIOUS
  <1>6. m = Shl[o]
    OBVIOUS
  <1> HIDE DEF got, m, o, x
  <1>7. CASE UNCHANGED vars
    <2>1. heap' = heap /\ taken' = taken /\ live' = live
      BY <1>7 DEF vars, heap
    <2> QED BY <2>1 DEF HeapInv, Moves
  <1>8. CASE /\ got[2] # 0 /\ CanAlloc(h.pmm, m) /\ Become(g) /\ taken' = taken
             /\ live' = With(live, AllocBase(h.pmm, m) * U, n)
    <2>1. FrameOK(h, taken) /\ h.big = heap.big
      BY <1>3, <1>8 DEF Granted
    <2>2. DOMAIN h = Fields
      BY <2>1 DEF FrameOK
    <2>3. /\ OtherPages(h, g) /\ g.pmm = AllocPages(h.pmm, m) /\ g.big = <<x>> \o heap.big
      BY <2>1, <2>2 DEF OtherPages, Fields
    <2> HIDE DEF g
    <2>4. /\ HeapOK(g, taken, With(live, x.page * U, n)) /\ x.page * U \notin DOMAIN live
      <3>1. Shl[x.order] = m
        BY <1>5, <1>6
      <3>2. /\ Shl[x.order] \in Nat \ {0} /\ CanAlloc(got[1].pmm, Shl[x.order])
            /\ x.page = AllocBase(got[1].pmm, Shl[x.order]) /\ n <= Shl[x.order] * U
            /\ OtherPages(got[1], g) /\ g.pmm = AllocPages(got[1].pmm, Shl[x.order])
        BY <1>2, <1>5, <1>8, <2>3, <3>1
      <3> QED BY <1>1, <1>2, <1>3, <1>5, <1>8, <2>3, <3>2, GiveLarge
    <2>5. live' = With(live, x.page * U, n)
      BY <1>5, <1>8
    <2>6. HeapInv'
      BY <1>8, <2>4, <2>5, BecomeOK
    <2>7. n \in Small \cup Large \cup {k * U : k \in Direct}
      OBVIOUS
    <2> QED BY <2>4, <2>5, <2>6, <2>7 DEF Moves
  <1>9. CASE got[2] # 0 /\ Become(SlobFree(h, got[2], Node)) /\ taken' = taken /\ live' = live
    <2>1. HeapOK(SlobFree(h, got[2], Node), taken, live)
      BY <1>1, <1>3, <1>9, NoLarge
    <2>2. HeapInv'
      BY <1>9, <2>1, BecomeOK
    <2> QED BY <1>9, <2>2 DEF Moves
  <1> QED BY <1>4, <1>7, <1>8, <1>9

\* kfree of what kmalloc gave.
LEMMA FreeStep ==
  ASSUME HeapInv, NEW a \in DOMAIN live, \A b \in taken : a # b[1] * U, Kfree(a)
  PROVE  HeapInv' /\ Moves(live, live')
  <1>1. HeapOK(heap, taken, live)
    BY DEF HeapInv
  <1>2. ASSUME NEW i \in 1..Len(big), big[i].page * U = a, KfreeLarge(i)
        PROVE  HeapInv' /\ Moves(live, live')
    <2> DEFINE c == <<big[i].page, Shl[big[i].order]>>
               k == [heap EXCEPT !.pmm = FreePages(@, <<big[i].page, Shl[big[i].order]>>),
                                 !.big = SubSeq(@, 1, i - 1) \o SubSeq(@, i + 1, Len(@))]
    <2>1. /\ OtherPages(heap, k) /\ k.pmm = FreePages(heap.pmm, c)
          /\ k.big = Without(heap.big, i)
      BY HeapIs DEF OtherPages, Fields, Without
    <2>2. /\ Become(SlobFree(k, big[i].node, Node)) /\ taken' = taken
          /\ live' = Drop(live, big[i].page * U)
      BY <1>2 DEF KfreeLarge
    <2>3. heap.big = big
      BY HeapIs
    <2> HIDE DEF k
    <2>4. HeapOK(SlobFree(k, big[i].node, Node), taken, Drop(live, big[i].page * U))
      BY <1>1, <2>1, <2>3, FreeLarge
    <2>5. HeapInv'
      BY <2>2, <2>4, BecomeOK
    <2> QED BY <1>2, <2>2, <2>5 DEF Moves
  <1>3. ASSUME \A i \in 1..Len(big) : big[i].page * U # a, a - 1 \in DOMAIN units,
               Become(SlobFree(heap, a - 1, units[a - 1])), taken' = taken, live' = Drop(live, a)
        PROVE  HeapInv' /\ Moves(live, live')
    <2>1. LiveOK(live, units, NodesOf(big), OwnPages(big, taken)) /\ FrameOK(heap, taken)
      BY <1>1, HeapIs DEF HeapOK
    <2>2. \A p \in OwnPages(big, taken) : a # p[1] * U
      BY <1>3 DEF OwnPages, PagesOf
    <2>3. PICK x \in DOMAIN units \ NodesOf(big) : a = x + 1
      BY <2>1, <2>2 DEF LiveOK
    <2>4. x \in Nat
      BY <2>1, <2>3, HeapIs, BlocksApart
    <2>5. a - 1 = x
      BY <2>3, <2>4
    <2>6. HeapOK(SlobFree(heap, x, units[x]), taken, Drop(live, x + 1))
      BY <1>1, <2>3, HeapIs, FreeSmall
    <2>7. Become(SlobFree(heap, x, units[x])) /\ live' = Drop(live, x + 1)
      BY <1>3, <2>3, <2>5
    <2>8. HeapInv'
      BY <1>3, <2>6, <2>7, BecomeOK
    <2> QED BY <1>3, <2>8 DEF Moves
  <1> QED BY <1>2, <1>3 DEF Kfree

\* Pages that do not go through kmalloc.
LEMMA TakeStep ==
  ASSUME HeapInv, NEW n \in Direct, TakePages(n)
  PROVE  HeapInv' /\ Moves(live, live')
  <1> DEFINE p == AllocBase(pmm, n)
             g == [heap EXCEPT !.pmm = AllocPages(pmm, n)]
  <1>1. HeapOK(heap, taken, live) /\ n \in Nat \ {0}
    BY HeapAssumption DEF HeapInv
  <1>2. /\ CanAlloc(pmm, n) /\ taken' = taken \cup {<<p, n>>} /\ live' = With(live, p * U, n * U)
    BY DEF TakePages
  <1>3. Become(g)
    BY HeapIs DEF TakePages, Become, Fields
  <1>4. OtherPages(heap, g) /\ g.pmm = AllocPages(heap.pmm, n) /\ g.big = heap.big
    BY HeapIs DEF OtherPages, Fields
  <1> HIDE DEF g
  <1>5. CanAlloc(heap.pmm, n) /\ p = AllocBase(heap.pmm, n)
    BY <1>2, HeapIs
  <1> HIDE DEF p
  <1>6. /\ HeapOK(g, taken \cup {<<p, n>>}, With(live, p * U, n * U))
        /\ p * U \notin DOMAIN live
    BY <1>1, <1>4, <1>5, GiveDirect
  <1>7. HeapInv'
    BY <1>2, <1>3, <1>6, BecomeOK
  <1>8. n * U \in Small \cup Large \cup {k * U : k \in Direct}
    OBVIOUS
  <1> QED BY <1>2, <1>6, <1>7, <1>8 DEF Moves

\* ... given back.
LEMMA GiveStep ==
  ASSUME HeapInv, NEW b \in taken, GivePages(b)
  PROVE  HeapInv' /\ Moves(live, live')
  <1> DEFINE g == [heap EXCEPT !.pmm = FreePages(pmm, b)]
  <1>1. HeapOK(heap, taken, live)
    BY DEF HeapInv
  <1>2. taken' = taken \ {b} /\ live' = Drop(live, b[1] * U)
    BY DEF GivePages
  <1>3. Become(g)
    BY HeapIs DEF GivePages, Become, Fields
  <1>4. OtherPages(heap, g) /\ g.pmm = FreePages(heap.pmm, b) /\ g.big = heap.big
    BY HeapIs DEF OtherPages, Fields
  <1> HIDE DEF g
  <1>5. HeapOK(g, taken \ {b}, Drop(live, b[1] * U))
    BY <1>1, <1>4, FreeDirect
  <1>6. HeapInv'
    BY <1>2, <1>3, <1>5, BecomeOK
  <1>7. b[1] * U \in DOMAIN live
    BY <1>1, HeapIs DEF HeapOK, LiveOK, OwnPages
  <1> QED BY <1>2, <1>6, <1>7 DEF Moves

\* Each step preserves the invariant, and moves one object at most.
LEMMA NextHeap == HeapInv /\ [Next]_vars => HeapInv' /\ Moves(live, live')
  <1> SUFFICES ASSUME HeapInv, [Next]_vars PROVE HeapInv' /\ Moves(live, live')
    OBVIOUS
  <1>1. ASSUME NEW a \in DOMAIN live \ {b[1] * U : b \in taken}, Kfree(a)
        PROVE  HeapInv' /\ Moves(live, live')
    <2>1. \A b \in taken : a # b[1] * U
      OBVIOUS
    <2> QED BY <1>1, <2>1, FreeStep
  <1>2. CASE UNCHANGED vars
    <2>1. heap' = heap /\ taken' = taken /\ live' = live
      BY <1>2 DEF vars, heap
    <2> QED BY <2>1 DEF HeapInv, Moves
  <1> QED BY <1>1, <1>2, SmallStep, LargeStep, TakeStep, GiveStep DEF Next

\* The invariant holds throughout.
LEMMA HeapStays == Spec => []HeapInv
  <1>1. HeapInv /\ [Next]_vars => HeapInv'
    BY NextHeap
  <1> QED BY <1>1, InitHeap, PTL DEF Spec

-----------------------------------------------------------------------------
(* What the invariant says of the blocks. *)

\* The list is in the order of the addresses, with gaps between the blocks.
LEMMA InOrder ==
  ASSUME NEW s, ListOK(s), NEW a \in DOMAIN s, NEW H, H = {b \in DOMAIN s : b > a}
  PROVE  IF H = {} THEN s[a].next = Arena
         ELSE s[a].next = Min(H) /\ a + s[a].units < s[a].next
  <1> DEFINE D  == DOMAIN s
             un == Un(s)
             nx == Links(s)
             x  == nx[a]
  <1>1. ListIn(D, un, nx) /\ s[a].units = un[a] /\ s[a].next = x
    BY DEF ListOK, Un, Links
  <1> HIDE DEF D, un, nx
  <1>2. /\ \A b \in D : b \in Nat
        /\ \A b, d \in D : b < d => b + un[b] < d
        /\ Follows(D, a, x) /\ a \in D
    BY <1>1 DEF ListIn, BlocksTyped, D
  <1>3. H = {b \in D : b > a}
    BY DEF D
  <1> HIDE DEF x
  <1>4. CASE H = {}
    <2>1. \A b \in D : ~(b > a)
      BY <1>3, <1>4
    <2>2. x = Arena
      BY <1>2, <2>1 DEF Follows
    <2> QED BY <1>1, <1>4, <2>2
  <1>5. CASE H # {}
    <2>1. PICK b \in D : b > a
      BY <1>3, <1>5
    <2>2. x \in D /\ a < x /\ \A d \in D : d <= a \/ x <= d
      <3>1. ~(b <= a)
        BY <1>2, <2>1
      <3> QED BY <1>2, <3>1 DEF Follows
    <2>3. x \in H /\ \A d \in H : x <= d
      BY <1>2, <1>3, <2>2
    <2>4. H \subseteq Nat
      BY <1>2, <1>3
    <2>5. Min(H) = x
      BY <2>3, <2>4 DEF Min
    <2>6. a + un[a] < x
      BY <1>2, <2>2
    <2> QED BY <1>1, <1>5, <2>5, <2>6
  <1> QED BY <1>4, <1>5

\* What lies in a block is not in another one.
LEMMA FreeApart ==
  ASSUME NEW s, ListOK(s), NEW a \in DOMAIN s, NEW d \in DOMAIN s, a # d
  PROVE  Room(a, s[a].units) \cap Room(d, s[d].units) = {}
  <1> DEFINE un == Un(s)
  <1>1. /\ \A b \in DOMAIN s : b \in Nat /\ un[b] \in Nat
        /\ \A b, c \in DOMAIN s : b < c => b + un[b] < c
        /\ s[a].units = un[a] /\ s[d].units = un[d]
    BY DEF ListOK, ListIn, BlocksTyped, Un
  <1> HIDE DEF un
  <1>2. a < d \/ d < a
    BY <1>1
  <1>3. Room(a, un[a]) \cap Room(d, un[d]) = {}
    <2> DEFINE k == un[a]
               l == un[d]
    <2>1. a \in Nat /\ d \in Nat /\ k \in Nat /\ l \in Nat /\ (a + k < d \/ d + l < a)
      BY <1>1, <1>2
    <2> HIDE DEF k, l
    <2>2. Room(a, k) \cap Room(d, l) = {}
      BY <2>1 DEF Room
    <2> QED BY <2>2 DEF k, l
  <1> QED BY <1>1, <1>3

\* Nor is what lies in an object.
LEMMA UsedApart ==
  ASSUME NEW u, UsedOK(u), NEW a \in DOMAIN u, NEW d \in DOMAIN u, a # d
  PROVE  Room(a, u[a]) \cap Room(d, u[d]) = {}
  <1>1. /\ \A b \in DOMAIN u : b \in Nat /\ u[b] \in Nat
        /\ \A b, c \in DOMAIN u : b < c => b + u[b] <= c
    BY DEF UsedOK
  <1>2. a < d \/ d < a
    BY <1>1
  <1> DEFINE k == u[a]
             l == u[d]
  <1>3. a \in Nat /\ d \in Nat /\ k \in Nat /\ l \in Nat /\ (a + k <= d \/ d + l <= a)
    BY <1>1, <1>2
  <1> HIDE DEF k, l
  <1>4. Room(a, k) \cap Room(d, l) = {}
    BY <1>3 DEF Room
  <1> QED BY <1>4 DEF k, l

\* The blocks as pairs.
FreePairs(s) == {<<a, s[a].units>> : a \in DOMAIN s \ {Arena}}
UsedPairs(u) == {<<a, u[a]>> : a \in DOMAIN u}

\* The blocks, free and in use, make up the units of the heap, and no two have one in common.
LEMMA PairsOK ==
  ASSUME NEW h, NEW X, SmallOK(h, X)
  PROVE  LET all == FreePairs(h.slob) \cup UsedPairs(h.units)
         IN  /\ UNION {Block(b) : b \in all} = X
             /\ \A b, c \in all : b # c => Block(b) \cap Block(c) = {}
  <1> DEFINE s  == h.slob
             u  == h.units
             FP == FreePairs(s)
             UP == UsedPairs(u)
  <1>1. /\ ListOK(s) /\ UsedOK(u)
        /\ FreeOf(s) \cap UsedOf(u) = {} /\ FreeOf(s) \cup UsedOf(u) = X
    BY DEF SmallOK, RoverOK
  <1> HIDE DEF s, u
  <1>2. \A a, n : Block(<<a, n>>) = Room(a, n)
    BY DEF Block, Room
  <1>3. UNION {Block(b) : b \in FP} = FreeOf(s)
    <2>1. \A a \in DOMAIN s : Un(s)[a] = s[a].units
      BY DEF Un
    <2>2. UNION {Block(b) : b \in FP} = UNION {Room(a, s[a].units) : a \in DOMAIN s \ {Arena}}
      BY <1>2 DEF FreePairs
    <2> QED BY <2>1, <2>2 DEF FreeOf, RoomOf
  <1>4. UNION {Block(b) : b \in UP} = UsedOf(u)
    BY <1>2 DEF UsedPairs, UsedOf
  <1>5. UNION {Block(b) : b \in FP \cup UP} = X
    <2> HIDE DEF FP, UP
    <2>1. \A y : y \in FreeOf(s) <=> \E b \in FP : y \in Block(b)
      BY <1>3
    <2>2. \A y : y \in UsedOf(u) <=> \E b \in UP : y \in Block(b)
      BY <1>4
    <2>3. ASSUME NEW y PROVE y \in UNION {Block(b) : b \in FP \cup UP} <=> y \in X
      <3>1. y \in UNION {Block(b) : b \in FP \cup UP} <=> \E b \in FP \cup UP : y \in Block(b)
        OBVIOUS
      <3>2. y \in X <=> y \in FreeOf(s) \/ y \in UsedOf(u)
        BY <1>1
      <3> QED BY <2>1, <2>2, <3>1, <3>2
    <2> QED BY <2>3
  <1>6. ASSUME NEW b \in FP, NEW c \in FP, b # c PROVE Block(b) \cap Block(c) = {}
    <2>1. PICK a \in DOMAIN s : b = <<a, s[a].units>>
      BY DEF FreePairs
    <2>2. PICK d \in DOMAIN s : c = <<d, s[d].units>>
      BY DEF FreePairs
    <2>3. a # d
      BY <1>6, <2>1, <2>2
    <2> QED BY <1>1, <1>2, <2>1, <2>2, <2>3, FreeApart
  <1>7. ASSUME NEW b \in UP, NEW c \in UP, b # c PROVE Block(b) \cap Block(c) = {}
    <2>1. PICK a \in DOMAIN u : b = <<a, u[a]>>
      BY DEF UsedPairs
    <2>2. PICK d \in DOMAIN u : c = <<d, u[d]>>
      BY DEF UsedPairs
    <2>3. a # d
      BY <1>7, <2>1, <2>2
    <2> QED BY <1>1, <1>2, <2>1, <2>2, <2>3, UsedApart
  <1>8. ASSUME NEW b \in FP, NEW c \in UP PROVE Block(b) \cap Block(c) = {}
    <2> HIDE DEF FP, UP
    <2>1. Block(b) \subseteq FreeOf(s) /\ Block(c) \subseteq UsedOf(u)
      BY <1>3, <1>4
    <2> QED BY <1>1, <2>1
  <1> HIDE DEF FP, UP
  <1>9. \A b, c \in FP \cup UP : b # c => Block(b) \cap Block(c) = {}
    BY <1>6, <1>7, <1>8
  <1> QED BY <1>5, <1>9 DEF FP, UP, s, u

\* default_pmm.c under the heap: whatever is taken and given back in whatever order, the
\* free list describes the free pages in maximal blocks, the page behind a held block's
\* first carries no length, and every page is free or held, once.
THEOREM PagesStayExact == Spec => []PagesExact
  <1>1. HeapInv => PagesExact
    BY HeapIs DEF HeapInv, HeapOK, FrameOK, OwnedBy, PagesOK, PagesExact
  <1> QED BY <1>1, HeapStays, PTL

\* kmalloc.c and its neighbours give back only what they hold: a block of pages that was
\* taken directly, or that the list of big blocks has, is held by the page allocator.
THEOREM HeldPagesOwned == Spec => [](taken \cup BigBlocks \subseteq pmm.held)
  <1>1. HeapInv => taken \cup BigBlocks \subseteq pmm.held
    BY HeapIs DEF HeapInv, HeapOK, FrameOK, OwnedBy, BigBlocks, PagesOf
  <1> QED BY <1>1, HeapStays, PTL

\* kmalloc.c: the list is in order and joined as far as possible, the blocks that are free or
\* in use make up the slob pages, and those in use belong to a caller or to the list of big
\* blocks, on the paths that fail half way too.
THEOREM SlobStaysExact == Spec => []SlobExact
  <1> SUFFICES ASSUME HeapInv PROVE SlobExact
    BY HeapStays, PTL
  <1> DEFINE ND == NodesOf(big)
             PB == OwnPages(big, taken)
             X  == SlobUnits(pmm, PB)
  <1>1. /\ FrameOK(heap, taken) /\ SmallOK(heap, X) /\ LiveOK(live, units, ND, PB)
    BY HeapIs DEF HeapInv, HeapOK, FrameOK
  <1>2. ListOK(slob)
    BY <1>1, HeapIs DEF SmallOK, RoverOK
  <1>3. StartsApart(units, PB) /\ \A x \in DOMAIN units : x \in Nat
    BY <1>1, HeapIs, BlocksApart
  <1>4. BigBlocks = PagesOf(big) /\ PB = taken \cup BigBlocks
    BY DEF BigBlocks, PagesOf, OwnPages
  <1>5. UNION {(b[1] * U)..(b[1] * U + U - 1) : b \in SlobPages} = X
    BY <1>4 DEF SlobPages, SlobUnits, FirstOf, Room
  <1>6. /\ {<<a, slob[a].units>> : a \in DOMAIN slob \ {Arena}} = FreePairs(slob)
        /\ {<<a, units[a]>> : a \in DOMAIN units} = UsedPairs(units)
    BY DEF FreePairs, UsedPairs
  <1>7. LET all == FreePairs(slob) \cup UsedPairs(units)
        IN  /\ UNION {Block(b) : b \in all} = X
            /\ \A b, c \in all : b # c => Block(b) \cap Block(c) = {}
    BY <1>1, HeapIs, PairsOK
  <1> HIDE DEF ND, PB, X
  <1>8. ASSUME NEW a \in DOMAIN slob
        PROVE  LET H == {b \in DOMAIN slob : b > a}
               IN  IF H = {} THEN slob[a].next = Arena
                   ELSE slob[a].next = Min(H) /\ a + slob[a].units < slob[a].next
    BY <1>2, InOrder
  <1>9. DOMAIN units = ND \cup {a - 1 : a \in DOMAIN live \ {b[1] * U : b \in PB}}
    <2> DEFINE T == {a - 1 : a \in DOMAIN live \ {b[1] * U : b \in PB}}
    <2>1. ASSUME NEW x \in DOMAIN units, x \notin ND PROVE x \in T
      <3>1. x + 1 \in DOMAIN live
        BY <1>1, <2>1 DEF LiveOK
      <3>2. \A b \in PB : x + 1 # b[1] * U
        BY <1>3 DEF StartsApart
      <3>3. x = (x + 1) - 1
        BY <1>3
      <3> QED BY <3>1, <3>2, <3>3
    <2>2. ASSUME NEW a \in DOMAIN live, \A b \in PB : a # b[1] * U PROVE a - 1 \in DOMAIN units
      <3>1. PICK x \in DOMAIN units \ ND : a = x + 1
        BY <1>1, <2>2 DEF LiveOK
      <3>2. a - 1 = x
        BY <1>3, <3>1
      <3> QED BY <3>1, <3>2
    <2>3. ND \subseteq DOMAIN units
      BY <1>1 DEF LiveOK
    <2>4. T \subseteq DOMAIN units
      BY <2>2
    <2> HIDE DEF T
    <2>5. DOMAIN units = ND \cup T
      BY <2>1, <2>3, <2>4
    <2> QED BY <2>5 DEF T
  <1>10. ND = {big[i].node : i \in 1..Len(big)}
    BY DEF ND, NodesOf
  <1> QED BY <1>4, <1>5, <1>6, <1>7, <1>8, <1>9, <1>10 DEF SlobExact

-----------------------------------------------------------------------------
(* What the heap promises its callers. *)

\* The objects lv as the abstract heap has them.
Objects(lv) == {<<a, lv[a]>> : a \in DOMAIN lv}

\* An object lies in memory, and in no other object.
ObjectsOK(lv) ==
  /\ \A a \in DOMAIN lv : a \in AllUnits /\ Room(a, lv[a]) \subseteq AllUnits
  /\ \A a, d \in DOMAIN lv : a # d => Room(a, lv[a]) \cap Room(d, lv[d]) = {}

\* The objects of callers do.
LEMMA ObjectsApart ==
  ASSUME NEW h, NEW tk, NEW lv, HeapOK(h, tk, lv)
  PROVE  ObjectsOK(lv)
  <1> DEFINE u  == h.units
             ND == NodesOf(h.big)
             PB == OwnPages(h.big, tk)
             InPages(a, p) == p \in PB /\ a = p[1] * U /\ Room(a, lv[a]) \subseteq UnitsOf(p)
             InBlock(a, x) == x \in DOMAIN u /\ a = x + 1 /\ Room(a, lv[a]) \subseteq Room(x, u[x])
  <1>1. FrameOK(h, tk) /\ LiveOK(lv, u, ND, PB)
    BY DEF HeapOK
  <1>2. UsedOK(u)
    BY <1>1 DEF FrameOK, SmallOK
  <1>3. HeldApart(h.pmm) /\ PB \subseteq h.pmm.held
    BY <1>1, OwnersApart
  <1>4. \A x \in DOMAIN u :
          /\ x \in Nat /\ u[x] \in Nat /\ Room(x, u[x]) \subseteq AllUnits
          /\ \A p \in PB : Room(x, u[x]) \cap UnitsOf(p) = {}
    BY <1>1, BlocksApart
  <1> HIDE DEF u, ND, PB
  <1>5. \A a \in DOMAIN lv : lv[a] \in Nat \ {0}
    BY <1>1 DEF LiveOK
  <1>6. ASSUME NEW a \in DOMAIN lv
        PROVE  (\E p : InPages(a, p)) \/ (\E x : InBlock(a, x))
    <2>1. CASE \E p \in PB : a = p[1] * U
      <3>1. PICK p \in PB : a = p[1] * U
        BY <2>1
      <3>2. lv[a] <= p[2] * U
        BY <1>1, <3>1 DEF LiveOK
      <3>3. p[1] * U \in Nat
        BY <1>3 DEF HeldApart
      <3>4. p[2] * U \in Nat
        <4>1. PagesOK(h.pmm) /\ p \in h.pmm.held
          BY <1>1, <1>3 DEF FrameOK, OwnedBy
        <4>2. p[2] \in 1..N
          BY <4>1 DEF PagesOK, PagesTyped
        <4>3. p[2] \in Nat /\ U \in Nat
          BY <4>2, HeapAssumption, PagesAssumption
        <4> QED BY <4>3
      <3>5. Room(a, lv[a]) \subseteq UnitsOf(p)
        <4> DEFINE k == lv[a]
                   l == p[2] * U
        <4>1. a \in Nat /\ k \in Nat /\ l \in Nat /\ k <= l
          BY <1>5, <3>1, <3>2, <3>3, <3>4
        <4> HIDE DEF k, l
        <4>2. Room(a, k) \subseteq Room(a, l)
          BY <4>1 DEF Room
        <4> QED BY <3>1, <4>2 DEF UnitsOf, k, l
      <3> QED BY <3>1, <3>5
    <2>2. CASE ~(\E p \in PB : a = p[1] * U)
      <3>1. PICK x \in DOMAIN u \ ND : a = x + 1 /\ u[x] = lv[a] + 1
        BY <1>1, <2>2 DEF LiveOK
      <3>2. Room(a, lv[a]) \subseteq Room(x, u[x])
        <4> DEFINE k == lv[a]
                   l == u[x]
        <4>1. x \in Nat /\ a = x + 1 /\ l = k + 1 /\ k \in Nat
          BY <1>4, <1>5, <3>1
        <4> HIDE DEF k, l
        <4>2. Room(a, k) \subseteq Room(x, l)
          BY <4>1 DEF Room
        <4> QED BY <4>2 DEF k, l
      <3> QED BY <3>1, <3>2
    <2> QED BY <2>1, <2>2
  <1>7. ASSUME NEW a \in DOMAIN lv PROVE Room(a, lv[a]) \subseteq AllUnits
    <2>1. ASSUME NEW p, InPages(a, p) PROVE Room(a, lv[a]) \subseteq AllUnits
      BY <1>3, <2>1 DEF HeldApart
    <2>2. ASSUME NEW x, InBlock(a, x) PROVE Room(a, lv[a]) \subseteq AllUnits
      BY <1>4, <2>2
    <2> QED BY <1>6, <2>1, <2>2
  <1>8. ASSUME NEW a \in DOMAIN lv PROVE a \in AllUnits
    <2>1. a \in Nat
      <3>1. ASSUME NEW p, InPages(a, p) PROVE a \in Nat
        BY <1>3, <3>1 DEF HeldApart
      <3>2. ASSUME NEW x, InBlock(a, x) PROVE a \in Nat
        BY <1>4, <3>2
      <3> QED BY <1>6, <3>1, <3>2
    <2>2. a \in Room(a, lv[a])
      BY <1>5, <2>1 DEF Room
    <2> QED BY <1>7, <2>2
  <1>9. ASSUME NEW a \in DOMAIN lv, NEW d \in DOMAIN lv, a # d
        PROVE  Room(a, lv[a]) \cap Room(d, lv[d]) = {}
    <2>1. ASSUME NEW p, InPages(a, p), NEW q, InPages(d, q) PROVE Room(a, lv[a]) \cap Room(d, lv[d]) = {}
      <3>1. p # q /\ p \in h.pmm.held /\ q \in h.pmm.held
        BY <1>3, <1>9, <2>1
      <3>2. UnitsOf(p) \cap UnitsOf(q) = {}
        BY <1>3, <3>1, OneStart
      <3> QED BY <2>1, <3>2
    <2>2. ASSUME NEW p, InPages(a, p), NEW x, InBlock(d, x) PROVE Room(a, lv[a]) \cap Room(d, lv[d]) = {}
      BY <1>4, <2>2
    <2>3. ASSUME NEW x, InBlock(a, x), NEW q, InPages(d, q) PROVE Room(a, lv[a]) \cap Room(d, lv[d]) = {}
      BY <1>4, <2>3
    <2>4. ASSUME NEW x, InBlock(a, x), NEW y, InBlock(d, y) PROVE Room(a, lv[a]) \cap Room(d, lv[d]) = {}
      <3>1. x # y /\ x \in DOMAIN u /\ y \in DOMAIN u
        BY <1>9, <2>4
      <3>2. Room(x, u[x]) \cap Room(y, u[y]) = {}
        BY <1>2, <3>1, UsedApart
      <3> QED BY <2>4, <3>2
    <2> QED BY <1>6, <2>1, <2>2, <2>3, <2>4
  <1> QED BY <1>7, <1>8, <1>9 DEF ObjectsOK

\* kmalloc.c and default_pmm.c: what a caller asked for is his alone until he frees it.
THEOREM HeapRefines == Spec => ImplementsHeapAbs
  <1>1. Init => Abs!Init
    <2> SUFFICES ASSUME Init PROVE Abs!Init
      OBVIOUS
    <2>1. DOMAIN live = {}
      BY DEF Init
    <2> QED BY <2>1 DEF Abs!Init
  <1>2. ASSUME HeapInv, HeapInv', [Next]_vars PROVE [Abs!Next]_(Objects(live))
    <2> DEFINE lv  == live
               new == live'
               Sizes == Small \cup Large \cup {n * U : n \in Direct}
    <2>1. Moves(lv, new)
      BY <1>2, NextHeap
    <2>2. ObjectsOK(new)
      <3>1. HeapOK(heap', taken', new)
        BY <1>2 DEF HeapInv
      <3> QED BY <3>1, ObjectsApart
    <2>3. CASE new = lv
      BY <2>3 DEF Objects
    <2>4. ASSUME NEW n \in Sizes, NEW a, a \notin DOMAIN lv, new = With(lv, a, n)
          PROVE  Abs!Next
      <3>1. /\ DOMAIN new = DOMAIN lv \cup {a} /\ new[a] = n
            /\ \A d \in DOMAIN lv : new[d] = lv[d]
        BY <2>4 DEF With
      <3>2. a \in AllUnits /\ Room(a, n) \subseteq AllUnits
        BY <2>2, <3>1 DEF ObjectsOK
      <3>3. \A d \in DOMAIN lv : Room(d, lv[d]) \cap Room(a, n) = {}
        BY <2>2, <2>4, <3>1 DEF ObjectsOK
      <3>4. Objects(new) = Objects(lv) \cup {<<a, n>>}
        BY <2>4, <3>1 DEF Objects
      <3>5. Abs!Range(<<a, n>>) = Room(a, n) /\ \A d : Abs!Range(<<d, lv[d]>>) = Room(d, lv[d])
        BY DEF Abs!Range, Room
      <3> HIDE DEF new
      <3>6. \A o \in Objects(lv) : Abs!Range(o) \cap Abs!Range(<<a, n>>) = {}
        BY <3>3, <3>5 DEF Objects
      <3>7. Abs!Allocate(a, n)
        BY <3>2, <3>4, <3>5, <3>6 DEF Abs!Allocate, AllUnits, Objects, new
      <3> QED BY <3>2, <3>7 DEF Abs!Next, AllUnits
    <2>5. ASSUME NEW a \in DOMAIN lv, new = Drop(lv, a) PROVE Abs!Next
      <3>1. DOMAIN new = DOMAIN lv \ {a} /\ \A d \in DOMAIN new : new[d] = lv[d]
        BY <2>5 DEF Drop, Restrict
      <3>2. Objects(new) = Objects(lv) \ {<<a, lv[a]>>}
        BY <3>1 DEF Objects
      <3>3. <<a, lv[a]>> \in Objects(lv)
        BY DEF Objects
      <3> QED BY <3>2, <3>3 DEF Abs!Next, Abs!Release, Objects
    <2> QED BY <2>1, <2>3, <2>4, <2>5 DEF Moves, Objects
  <1> QED BY <1>1, <1>2, HeapStays, PTL DEF Spec, ImplementsHeapAbs, Abs!Spec, Objects
=============================================================================
