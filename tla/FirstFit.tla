------------------------------ MODULE FirstFit ------------------------------
(***************************************************************************)
(* The physical page allocator, default_pmm.c: first fit over one list of  *)
(* all free pages in the order of their addresses, in which the first page *)
(* of a block of adjacent pages carries the length of the block and the    *)
(* others carry 0.  Its state is a record, so that a caller can take and   *)
(* give back several blocks in one step.  The flags are left out: after    *)
(* start-up only assertions read them.                                     *)
(***************************************************************************)
EXTENDS Integers, Sequences

CONSTANTS
  N        \* the pages 1..N are the memory page_init finds

ASSUME PagesAssumption == N \in Nat \ {0}

Pages == 1..N

-----------------------------------------------------------------------------
\* default_alloc_pages: the place in the list of the first block that is long enough.
Fits(m, n) == {i \in 1..Len(m.list) : m.property[m.list[i]] >= n}
FirstFit(m, n) == CHOOSE i \in Fits(m, n) : \A j \in Fits(m, n) : i <= j
CanAlloc(m, n) == n <= m.nr_free /\ Fits(m, n) # {}
AllocBase(m, n) == m.list[FirstFit(m, n)]

\* The next n pages are taken out of the list; the first page that is left of the
\* block carries the rest.
AllocAt(m, i, n) ==
  LET p == m.list[i]
  IN  [list     |-> [k \in 1..(Len(m.list) - n) |-> IF k < i THEN m.list[k] ELSE m.list[k + n]],
       property |-> IF m.property[p] > n
                      THEN [m.property EXCEPT ![m.list[i + n]] = m.property[p] - n]
                      ELSE m.property,
       nr_free  |-> m.nr_free - n,
       held     |-> m.held \cup {<<p, n>>}]
AllocPages(m, n) == AllocAt(m, FirstFit(m, n), n)

\* default_free_pages: where the pages of the block go, before the first higher one.
Place(m, base) ==
  CHOOSE i \in 1..(Len(m.list) + 1) : /\ \A j \in 1..(i - 1) : m.list[j] <= base
                                      /\ i <= Len(m.list) => m.list[i] > base

\* The nearest page before place i that carries a length.
IsHeadBefore(m, i, j) ==
  /\ j \in 1..(i - 1) /\ m.property[m.list[j]] # 0
  /\ \A k \in (j + 1)..(i - 1) : m.property[m.list[k]] = 0
HeadBefore(m, i) == CHOOSE j \in 1..(i - 1) : IsHeadBefore(m, i, j)

\* The lengths once the block of n pages has been joined with the block behind it.
JoinNext(m, i, base, n) ==
  IF i <= Len(m.list) /\ m.list[i] = base + n
    THEN [m.property EXCEPT ![base] = n + m.property[base + n], ![base + n] = 0]
    ELSE [m.property EXCEPT ![base] = n]

\* Mutant: a block is not joined with the one before it.
JoinNextOnly(m, i, base, n) == JoinNext(m, i, base, n)

\* The lengths once it has also been joined with the block before it.
JoinBoth(m, i, base, n) ==
  LET joined == JoinNext(m, i, base, n)
      head   == m.list[HeadBefore(m, i)]
  IN  IF i > 1 /\ m.list[i - 1] = base - 1 /\ (\E j \in 1..(i - 1) : IsHeadBefore(m, i, j))
        THEN [joined EXCEPT ![head] = @ + joined[base], ![base] = 0]
        ELSE joined

FreeAt(m, i, base, n) ==
  [list     |-> [k \in 1..(Len(m.list) + n) |->
                   IF k < i THEN m.list[k]
                   ELSE IF k < i + n THEN base + (k - i) ELSE m.list[k - n]],
   property |-> JoinBoth(m, i, base, n),
   nr_free  |-> m.nr_free + n,
   held     |-> m.held \ {<<base, n>>}]
FreePages(m, b) == FreeAt(m, Place(m, b[1]), b[1], b[2])

\* page_init and default_init_memmap: all pages are one block.  held are the blocks
\* <<first page, length>> that callers have been given.
FreeMemory == [list |-> [k \in 1..N |-> k], property |-> [p \in Pages |-> IF p = 1 THEN N ELSE 0],
               nr_free |-> N, held |-> {}]

-----------------------------------------------------------------------------
(* Properties. *)

\* A description of the list that does not depend on how it came about.  It is in the
\* order of the addresses; a page that carries a length n is followed by the n-1 pages
\* after it, which carry 0, and then by a page that is not adjacent; every page belongs
\* to such a block.
Ascending(m) == \A i, j \in 1..Len(m.list) : i < j => m.list[i] < m.list[j]

BlockAt(m, i) ==
  LET p == m.list[i]
      n == m.property[p]
  IN  /\ i + n - 1 <= Len(m.list)
      /\ \A k \in 1..(n - 1) : m.list[i + k] = p + k /\ m.property[m.list[i + k]] = 0
      /\ i + n <= Len(m.list) => m.list[i + n] > p + n /\ m.property[m.list[i + n]] > 0

Covered(m, i) == \E j \in 1..i : m.property[m.list[j]] > i - j

FreeListOK(m) ==
  /\ m.nr_free = Len(m.list)
  /\ Ascending(m)
  /\ \A i \in 1..Len(m.list) : /\ Covered(m, i)
                               /\ m.property[m.list[i]] > 0 => BlockAt(m, i)

Block(b) == b[1]..(b[1] + b[2] - 1)
FreePageSet(m) == {m.list[i] : i \in 1..Len(m.list)}

\* Every page is free or held by one caller; and the pages of a held block but the
\* first, which default_free_pages does not touch, carry no length that a later merge
\* would take for a head.
HeldOK(m) ==
  /\ \A b \in m.held : /\ Block(b) \subseteq Pages
                       /\ Block(b) \cap FreePageSet(m) = {}
                       /\ \A p \in Block(b) \ {b[1]} : m.property[p] = 0
  /\ \A b, c \in m.held : b # c => Block(b) \cap Block(c) = {}

NoPageLost(m) == Pages \subseteq FreePageSet(m) \cup UNION {Block(b) : b \in m.held}

\* The types of the fields.
PagesTyped(m) ==
  /\ m.list \in Seq(Pages)
  /\ m.property \in [Pages -> 0..N]
  /\ m.nr_free \in 0..N
  /\ m.held \subseteq Pages \X (1..N)
=============================================================================
