------------------------------- MODULE KHeap --------------------------------
(***************************************************************************)
(* The kernel heap, kmalloc.c, over the page allocator.  Small objects are *)
(* cut from slob pages, whose free blocks form a circular list with a      *)
(* roving start; large ones are whole pages, remembered in the list of big *)
(* blocks, whose nodes are small objects themselves.  Others take pages    *)
(* directly: kernel stacks, page directories, page tables.                 *)
(*                                                                         *)
(* Memory is counted in slob units of 8 bytes.  Unit 0 is the arena, which *)
(* lies below all pages; page p has the units p*U .. p*U + U - 1.          *)
(*                                                                         *)
(* alloc_pages returns NULL when there is no block of two pages or more,   *)
(* and, until swap_init, when there is no page.  Afterwards the kernel     *)
(* stops for want of a single page, which is Memory's business; here the   *)
(* call fails, as it does before, and every caller goes on from there.     *)
(***************************************************************************)
EXTENDS FirstFit, FiniteSetsExt, Functions

CONSTANTS
  U,       \* units in a page
  Small,   \* units the kernel asks kmalloc for, below a page
  Large,   \* and from a page upwards
  Direct   \* numbers of pages that others take

\* A small object and its header may not fill a page: slob_alloc asserts it.
\* find_order rounds an odd number down, so that only some sizes are safe.
ASSUME HeapAssumption ==
  /\ U \in Nat /\ U > 2
  /\ Small \subseteq 1..(U - 3)
  /\ Large \subseteq U..(2 * U)
  /\ Direct \subseteq Nat \ {0}

VARIABLES
  pmm,     \* the state of the page allocator
  slob,    \* the free blocks: slob_t by address
  slobfree,
  units,   \* the headers of the blocks in use, by address
  big,     \* bigblocks, in the order of the list
  live,    \* what callers have: the size they asked for, by address
  taken    \* and which of it is blocks of pages taken directly

vars == <<pmm, slob, slobfree, units, big, live, taken>>
heap == [pmm |-> pmm, slob |-> slob, slobfree |-> slobfree, units |-> units, big |-> big]

Arena == 0
Node  == 2   \* units of a bigblock_t
With(f, x, v) == [y \in DOMAIN f \cup {x} |-> IF y = x THEN v ELSE f[y]]
Drop(f, x)    == Restrict(f, DOMAIN f \ {x})

-----------------------------------------------------------------------------
(* Operators from one state of the heap to the next. *)

\* Which block each free block is linked to.
Links(s) == [a \in DOMAIN s |-> s[a].next]

\* Where k links lead, from x.
Along(links, x) ==
  LET along[k \in Nat] == IF k = 0 THEN x ELSE links[along[k - 1]] IN along

\* The free blocks in the order of the list, from slobfree on.
Walk(h) ==
  LET along == Along(Links(h.slob), h.slobfree)
  IN  [k \in 0..Cardinality(DOMAIN h.slob) |-> along[k]]

\* slob_free: after which block b goes.
Before(h, b) ==
  LET walk    == Walk(h)
      Here(c) == LET n == h.slob[c].next
                 IN  (c < b /\ b < n) \/ (c >= n /\ (c < b \/ b < n))
  IN  walk[Min({k \in DOMAIN walk : Here(walk[k])})]

\* Block b of n units, joined with the one after it if they touch ...
LinkNext(s, c, b, n) ==
  LET next == s[c].next
  IN  IF b + n = next
        THEN With(Drop(s, next), b, [units |-> n + s[next].units, next |-> s[next].next])
        ELSE With(s, b, [units |-> n, next |-> next])

\* ... and then with the one before it.
LinkBefore(s, c, b) ==
  IF c + s[c].units = b
    THEN [Drop(s, b) EXCEPT ![c] = [units |-> s[c].units + s[b].units, next |-> s[b].next]]
    ELSE [s EXCEPT ![c].next = b]

\* slob_free of a block of n units.
SlobFree(h, b, n) ==
  LET c == Before(h, b)
  IN  [h EXCEPT !.slobfree = c, !.units = Drop(@, b),
                !.slob = LinkBefore(LinkNext(@, c, b, n), c, b)]

\* slob_alloc: the first block from slobfree->next on that is long enough.
Fitting(h, n) == {k \in DOMAIN Walk(h) \ {0} : h.slob[Walk(h)[k]].units >= n}

\* Block cur is taken out of the list, or its front is and the rest stays.
Cut(s, prev, cur, n) ==
  LET t == Drop(s, cur)
  IN  IF s[cur].units = n
        THEN [t EXCEPT ![prev].next = s[cur].next]
        ELSE With([t EXCEPT ![prev].next = cur + n], cur + n,
                  [units |-> s[cur].units - n, next |-> s[cur].next])

\* The next search starts behind the block before it.
Carve(h, n) ==
  LET k    == Min(Fitting(h, n))
      prev == Walk(h)[k - 1]
      cur  == Walk(h)[k]
  IN  [h EXCEPT !.slobfree = prev, !.units = With(@, cur, n), !.slob = Cut(@, prev, cur, n)]

\* ... or else a new page becomes part of the list.
Grow(h) ==
  SlobFree([h EXCEPT !.pmm = AllocPages(@, 1)], AllocBase(h.pmm, 1) * U, U)

\* The states slob_alloc can leave, with the block it returns, or 0.
SlobAlloc(h, n) ==
  LET Carved(g) == <<Carve(g, n), Walk(g)[Min(Fitting(g, n))]>>
  IN  IF Fitting(h, n) # {} THEN Carved(h)
      ELSE IF CanAlloc(h.pmm, 1) THEN Carved(Grow(h))
      ELSE <<h, 0>>

\* find_order: log2 of the number of pages, for a size in units.
order[n \in Nat] == IF n > U THEN 1 + order[n \div 2] ELSE 0

\* Mutant: one shift too few.
FindOrderLess(n) == IF n > U THEN order[n \div 2] ELSE 0

FindOrder(n) == order[n]

\* 1 << k, the number of pages for an order.
Shl[k \in Nat] == IF k = 0 THEN 1 ELSE 2 * Shl[k - 1]

Become(h) ==
  /\ pmm' = h.pmm /\ slob' = h.slob /\ slobfree' = h.slobfree
  /\ units' = h.units /\ big' = h.big

-----------------------------------------------------------------------------
\* kmalloc of less than a page: the object lies behind the header.
KmallocSmall(n) ==
  LET got == SlobAlloc(heap, n + 1)
  IN  /\ Become(got[1])
      /\ live' = IF got[2] = 0 THEN live ELSE With(live, got[2] + 1, n)
      /\ UNCHANGED taken

\* kmalloc of a page or more: a node for the list, then the pages.
KmallocLarge(n) ==
  LET got   == SlobAlloc(heap, Node)
      h     == got[1]
      o     == FindOrder(n)
      p     == AllocBase(h.pmm, Shl[o])
  IN  \/ got[2] = 0 /\ UNCHANGED vars
      \/ /\ got[2] # 0 /\ CanAlloc(h.pmm, Shl[o])
         /\ Become([h EXCEPT !.pmm = AllocPages(@, Shl[o]),
                             !.big = <<[node |-> got[2], page |-> p, order |-> o]>> \o @])
         /\ live' = With(live, p * U, n)
         /\ UNCHANGED taken
      \/ /\ got[2] # 0 /\ ~CanAlloc(h.pmm, Shl[o])
         /\ Become(SlobFree(h, got[2], Node))
         /\ UNCHANGED <<live, taken>>

\* Mutant: the pages are freed, the node is not.
KfreePages(i) ==
  LET b == big[i]
  IN  /\ Become([heap EXCEPT !.pmm = FreePages(@, <<b.page, Shl[b.order]>>),
                             !.big = SubSeq(@, 1, i - 1) \o SubSeq(@, i + 1, Len(@))])
      /\ live' = Drop(live, b.page * U)
      /\ UNCHANGED taken

\* kfree of an address at the start of a page that is in the list of big blocks.
KfreeLarge(i) ==
  LET b == big[i]
      h == [heap EXCEPT !.pmm = FreePages(@, <<b.page, Shl[b.order]>>),
                        !.big = SubSeq(@, 1, i - 1) \o SubSeq(@, i + 1, Len(@))]
  IN  /\ Become(SlobFree(h, b.node, Node))
      /\ live' = Drop(live, b.page * U)
      /\ UNCHANGED taken

\* kfree of address a: at the start of a page it looks in the list of big blocks first.
Kfree(a) ==
  \/ \E i \in 1..Len(big) : big[i].page * U = a /\ KfreeLarge(i)
  \/ /\ \A i \in 1..Len(big) : big[i].page * U # a
     /\ a - 1 \in DOMAIN units
     /\ Become(SlobFree(heap, a - 1, units[a - 1]))
     /\ live' = Drop(live, a)
     /\ UNCHANGED taken

\* setup_kstack, setup_pgdir, get_pte: pages that do not go through kmalloc.
TakePages(n) ==
  /\ CanAlloc(pmm, n)
  /\ pmm' = AllocPages(pmm, n)
  /\ taken' = taken \cup {<<AllocBase(pmm, n), n>>}
  /\ live' = With(live, AllocBase(pmm, n) * U, n * U)
  /\ UNCHANGED <<slob, slobfree, units, big>>

GivePages(b) ==
  /\ pmm' = FreePages(pmm, b)
  /\ taken' = taken \ {b}
  /\ live' = Drop(live, b[1] * U)
  /\ UNCHANGED <<slob, slobfree, units, big>>

Init ==
  /\ pmm = FreeMemory
  /\ slob = [a \in {Arena} |-> [units |-> 1, next |-> Arena]]
  /\ slobfree = Arena
  /\ units = <<>> /\ big = <<>> /\ live = <<>> /\ taken = {}

Next ==
  \/ \E n \in Small : KmallocSmall(n)
  \/ \E n \in Large : KmallocLarge(n)
  \/ \E a \in DOMAIN live \ {b[1] * U : b \in taken} : Kfree(a)
  \/ \E n \in Direct : TakePages(n)
  \/ \E b \in taken : GivePages(b)

Spec == Init /\ [][Next]_vars

-----------------------------------------------------------------------------
(* Properties. *)

\* The types of the variables.
TypeOK ==
  /\ PagesTyped(pmm)
  /\ slobfree \in DOMAIN slob
  /\ \A a \in DOMAIN slob : slob[a].units \in Nat \ {0} /\ slob[a].next \in DOMAIN slob
  /\ \A a \in DOMAIN units : units[a] \in Nat \ {0}

\* default_pmm.c: whatever is taken and given back in whatever order, the free list
\* describes the free pages in maximal blocks, and every page is free or held, once.
PagesExact == FreeListOK(pmm) /\ HeldOK(pmm) /\ NoPageLost(pmm)

\* The pages that small objects are cut from.
BigBlocks == {<<big[i].page, Shl[big[i].order]>> : i \in 1..Len(big)}
SlobPages == pmm.held \ (taken \cup BigBlocks)

\* kmalloc.c: the circular list holds every free block once, in the order of the
\* addresses and joined as far as possible; the blocks that are free or in use make up
\* the slob pages; and those in use belong to a caller or to the list of big blocks: no
\* unit is lost or handed out twice, on the paths that fail half way either.
SlobExact ==
  LET free      == {<<a, slob[a].units>> : a \in DOMAIN slob \ {Arena}}
      used      == {<<a, units[a]>> : a \in DOMAIN units}
      Higher(a) == {b \in DOMAIN slob : b > a}
  IN  /\ \A a \in DOMAIN slob :
           IF Higher(a) = {} THEN slob[a].next = Arena
           ELSE slob[a].next = Min(Higher(a)) /\ a + slob[a].units < slob[a].next
      /\ UNION {Block(b) : b \in free \cup used} = UNION {(b[1] * U)..(b[1] * U + U - 1) : b \in SlobPages}
      /\ \A b, c \in free \cup used : b # c => Block(b) \cap Block(c) = {}
      /\ DOMAIN units = {big[i].node : i \in 1..Len(big)} \cup
           {a - 1 : a \in DOMAIN live \ {b[1] * U : b \in taken \cup BigBlocks}}

\* The heap is an abstract one: what a caller asked for is his alone until he frees it.
Abs == INSTANCE HeapAbs WITH Memory <- U..((N + 1) * U - 1),
                             Sizes <- Small \cup Large \cup {n * U : n \in Direct},
                             live <- {<<a, live[a]>> : a \in DOMAIN live}
ImplementsHeapAbs == Abs!Spec
=============================================================================
