------------------------------- MODULE Memory -------------------------------
(***************************************************************************)
(* The memory of processes: vmm.c, the page tables of pmm.c, and the parts *)
(* of do_fork, do_execve, do_exit and do_wait that take and give back      *)
(* pages.  Virtual and physical memory are counted in pages.               *)
(*                                                                         *)
(* User processes never share an mm_struct (sys_fork passes no flags), so  *)
(* that mm_count is 1; nothing here sleeps; and alloc_page never fails:    *)
(* once memory is used up it calls swap_out for check_mm_struct, which is  *)
(* NULL since the checks at start-up, and the kernel stops.  For the same  *)
(* reason no page is ever swapped out.                                     *)
(***************************************************************************)
EXTENDS Integers, Sequences, FiniteSetsExt, Functions

CONSTANTS
  Procs,      \* process slots
  first,      \* user_main, a kernel thread until it executes a program
  F,          \* the frames 1..F are the memory
  V,          \* the user's virtual pages are 0..V-1
  T,          \* virtual pages that a page table maps
  Stack,      \* virtual pages of the stack, the last of user memory
  StackInit,  \* how many of them load_icode allocates
  ArgPages,   \* how many of them the arguments of execve may take
  Programs    \* programs: sequences of segments [start, end, write, short]

\* A short segment is one that load_icode_read cannot read to its end; one that ends at
\* V + 1 does not lie in user memory.
ASSUME MemoryAssumption ==
  /\ first \in Procs
  /\ {F, V, T} \subseteq Nat \ {0} /\ F > 1
  /\ Stack \in 1..V /\ StackInit \in 1..Stack /\ ArgPages \in 1..Stack
  /\ Programs \subseteq Seq([start : 0..V-1, end : 1..V+1, write : BOOLEAN, short : BOOLEAN])
  /\ \A prog \in Programs : \A i \in 1..Len(prog) : prog[i].start < prog[i].end

VARIABLES
  state,    \* "none", "live" or "zombie"
  kstack,   \* first frame of the two of the kernel stack, or 0
  mm,       \* the mm_struct, or NoMm
  free,     \* the frames that are free
  ref,      \* page_ref of each frame
  stopped   \* "no", or why the kernel stopped

vars == <<state, kstack, mm, free, ref, stopped>>

Frames == 1..F
Space  == 0..V-1
NoMm   == [pgdir |-> 0, vmas |-> {}, pt |-> <<>>, pte |-> <<>>]

-----------------------------------------------------------------------------
(* Operators on the memory m = [free, ref, mm, err], where mm is the mm_struct *)
(* that is worked on.  Once err is not "no" they leave m as it is.             *)

Strict(m, next) == IF m.err = "no" THEN next ELSE m

\* A loop: Do for each number in ks, all below n, in ascending order.
Each(m, ks, n, Do(_, _)) ==
  LET upto[k \in 0..n] == IF k = 0 THEN m
                          ELSE IF k - 1 \in ks THEN Do(upto[k - 1], k - 1) ELSE upto[k - 1]
  IN  upto[n]

\* An entry x of a table f.
Put(f, x, y) == [z \in DOMAIN f \cup {x} |-> IF z = x THEN y ELSE f[z]]

\* alloc_page: the first free frame, which is what first fit takes for one page.
Frame(m) == Min(m.free)
AllocPage(m) ==
  Strict(m, IF m.free = {} THEN [m EXCEPT !.err = "exhausted"]
                           ELSE [m EXCEPT !.free = @ \ {Frame(m)}])

FreeFrames(m, frames) ==
  [m EXCEPT !.free = @ \cup frames, !.ref = [f \in Frames |-> IF f \in frames THEN 0 ELSE @[f]]]

\* get_pte with create: the page table for page v.
GetPte(m, v) ==
  IF v \div T \in DOMAIN m.mm.pt THEN m
  ELSE LET a == AllocPage(m)
       IN  Strict(a, [a EXCEPT !.ref[Frame(m)] = 1, !.mm.pt = Put(@, v \div T, Frame(m))])

\* page_remove_pte for those of the pages vs that are mapped.
RemovePtes(m, vs) ==
  LET gone    == vs \cap DOMAIN m.mm.pte
      Lost(f) == Cardinality({v \in gone : m.mm.pte[v].frame = f})
      left    == [f \in Frames |-> m.ref[f] - Lost(f)]
  IN  [m EXCEPT !.ref = left, !.free = @ \cup {f \in Frames : Lost(f) > 0 /\ left[f] = 0},
                !.mm.pte = Restrict(@, DOMAIN @ \ gone)]

\* page_insert of frame f at page v.
PageInsert(m, f, v, write) ==
  LET a == GetPte(m, v)
      b == RemovePtes([a EXCEPT !.ref[f] = @ + 1], {v})
  IN  Strict(a, [b EXCEPT !.mm.pte = Put(@, v, [frame |-> f, write |-> write])])

\* pgdir_alloc_page, for each of the pages vs.
PgdirAllocPage(m, v, write) == PageInsert(AllocPage(m), Frame(m), v, write)
PgdirAllocPages(m, vs, write) == Each(m, vs, V, LAMBDA a, v : PgdirAllocPage(a, v, write))

Area(vma) == vma.start..(vma.end - 1)
Areas(m)  == UNION {Area(a) : a \in m.mm.vmas}

\* Mutant: nothing stops a range that runs into a later one.
MmMapOver(m, vma) ==
  Strict(m, IF vma.end > V \/ \E a \in m.mm.vmas : vma.start \in Area(a)
              THEN [m EXCEPT !.err = "invalid"]
              ELSE [m EXCEPT !.mm.vmas = @ \cup {vma}])

\* mm_map: USER_ACCESS; then only the area that the new one starts in is looked for.  When
\* it runs into a later one, the assertion in insert_vma_struct stops the kernel.
MmMap(m, vma) ==
  Strict(m, IF vma.end > V \/ \E a \in m.mm.vmas : vma.start \in Area(a)
              THEN [m EXCEPT !.err = "invalid"]
            ELSE IF \E a \in m.mm.vmas : a.start \in Area(vma) THEN [m EXCEPT !.err = "overlap"]
            ELSE [m EXCEPT !.mm.vmas = @ \cup {vma}])

\* Mutant: exit_mmap does not free the page tables.
ExitMmapPagesOnly(m) == RemovePtes(m, Areas(m))

\* exit_mmap: unmap_range and exit_range for every area.
ExitMmap(m) ==
  LET a      == RemovePtes(m, Areas(m))
      tables == {v \div T : v \in Areas(m)} \cap DOMAIN m.mm.pt
      b      == FreeFrames(a, {m.mm.pt[t] : t \in tables})
  IN  [b EXCEPT !.mm.pt = Restrict(@, DOMAIN @ \ tables)]

\* exit_mmap, put_pgdir and mm_destroy.
DropMm(m) ==
  IF m.mm = NoMm THEN m
  ELSE [FreeFrames(ExitMmap(m), {m.mm.pgdir}) EXCEPT !.mm = NoMm]

\* mm_create and setup_pgdir.
NewMm(m) ==
  LET a == AllocPage(m) IN Strict(a, [a EXCEPT !.mm = [NoMm EXCEPT !.pgdir = Frame(m)]])

\* dup_mmap with copy_range: the last area first, and of it the pages that are there.
CopyPage(m, v, from) ==
  LET a == GetPte(m, v) IN PageInsert(AllocPage(a), Frame(a), v, from.pte[v].write)
CopyArea(m, vma, from) ==
  Each(MmMap(m, vma), Area(vma) \cap DOMAIN from.pte, V, LAMBDA a, v : CopyPage(a, v, from))
DupMmap(m, from) ==
  LET At(k) == CHOOSE vma \in from.vmas : vma.start = V - 1 - k
  IN  Each(m, {V - 1 - vma.start : vma \in from.vmas}, V, LAMBDA a, k : CopyArea(a, At(k), from))

\* find_vma and the checks of do_pgfault for an access to page v.
Allowed(m, v, write) == \E a \in m.mm.vmas : v \in Area(a) /\ (write => a.write)

\* An access to page v, with do_pgfault when the processor does not allow it.
Touch(m, v, write) ==
  Strict(m, IF v \in DOMAIN m.mm.pte /\ (write => m.mm.pte[v].write) THEN m
            ELSE IF ~Allowed(m, v, write) THEN [m EXCEPT !.err = "fault"]
            ELSE IF v \in DOMAIN m.mm.pte THEN [m EXCEPT !.err = "non-writable pte"]
            ELSE PgdirAllocPage(m, v, \E a \in m.mm.vmas : v \in Area(a) /\ a.write))

TouchAll(m, vs, write) == Each(m, vs, V, LAMBDA a, v : Touch(a, v, write))

\* An access of the kernel: a fault that is not allowed is a panic.
KernelTouch(m, vs, write) ==
  LET a == TouchAll(m, vs, write) IN IF a.err = "fault" THEN [a EXCEPT !.err = "kernel fault"] ELSE a

\* load_icode: a segment is entered, its pages are allocated and read one by one.
LoadSegment(m, seg) ==
  LET vma == [start |-> seg.start, end |-> seg.end, write |-> seg.write, stack |-> FALSE]
      a   == PgdirAllocPages(MmMap(m, vma), IF seg.short THEN {seg.start} ELSE Area(vma), seg.write)
  IN  IF seg.short THEN Strict(a, [a EXCEPT !.err = "invalid"]) ELSE a

\* Once all is in place the arguments are written, at the end of the stack and through the
\* new page directory: the pages of the stack that are not there yet come by page faults.
LoadIcode(m, prog, args) ==
  LET segments == Each(NewMm(m), 0..Len(prog)-1, Len(prog), LAMBDA a, k : LoadSegment(a, prog[k + 1]))
      stack    == [start |-> V - Stack, end |-> V, write |-> TRUE, stack |-> TRUE]
      loaded   == PgdirAllocPages(MmMap(segments, stack), (V - StackInit)..(V - 1), TRUE)
  IN  IF loaded.err = "invalid" THEN DropMm(loaded)
      ELSE KernelTouch(loaded, (V - args)..(V - 1), TRUE)

\* Mutant: only the area that the buffer starts in is checked.
UserMemCheckFirst(m, vs, write) == Allowed(m, Min(vs), write)

\* user_mem_check of the pages vs: all lie in areas that allow the access, and a write
\* does not reach into the first page of the stack.
UserMemCheck(m, vs, write) ==
  \A v \in vs : /\ Allowed(m, v, write)
                /\ ~ \E a \in m.mm.vmas : write /\ a.stack /\ v = a.start

-----------------------------------------------------------------------------
Memory(p) == [free |-> free, ref |-> ref, mm |-> mm[p], err |-> "no"]

\* The outcome of work on the mm_struct of p: the kernel goes on, or it has stopped.
Panics(m) == m.err \notin {"no", "invalid"}
Outcome(m, p) ==
  IF Panics(m)
    THEN stopped' = m.err /\ UNCHANGED <<mm, free, ref>>
    ELSE /\ mm' = [mm EXCEPT ![p] = m.mm] /\ free' = m.free /\ ref' = m.ref
         /\ UNCHANGED stopped

\* do_fork: two frames for the kernel stack, then copy_mm.
Stacks == {f \in 1..F-1 : {f, f + 1} \subseteq free}
Fork(p, c) ==
  LET base  == Min(Stacks)
      m     == [Memory(c) EXCEPT !.free = @ \ {base, base + 1}]
      child == DupMmap(NewMm(m), mm[p])
  IN  /\ state[p] = "live" /\ mm[p] # NoMm /\ state[c] = "none"
      /\ Stacks # {}
      /\ Outcome(child, c)
      /\ IF Panics(child)
           THEN UNCHANGED <<state, kstack>>
           ELSE state' = [state EXCEPT ![c] = "live"] /\ kstack' = [kstack EXCEPT ![c] = base]

\* do_execve once the file is open: a program that cannot be loaded ends the process.
Exec(p, prog, args) ==
  LET m == LoadIcode(DropMm(Memory(p)), prog, args)
  IN  /\ state[p] = "live"
      /\ Outcome(m, p)
      /\ state' = [state EXCEPT ![p] = IF m.err = "invalid" THEN "zombie" ELSE @]
      /\ UNCHANGED kstack

\* The process reads or writes its memory.
UserAccess(p, v, write) ==
  /\ state[p] = "live" /\ mm[p] # NoMm
  /\ Outcome(Touch(Memory(p), v, write), p)
  /\ UNCHANGED <<state, kstack>>

\* The kernel reads or writes a buffer of the process in a system call.
CopyUser(p, v, w, write) ==
  LET vs == v..w
  IN  /\ state[p] = "live" /\ mm[p] # NoMm /\ v <= w
      /\ UserMemCheck(Memory(p), vs, write)
      /\ Outcome(KernelTouch(Memory(p), vs, write), p)
      /\ UNCHANGED <<state, kstack>>

\* do_exit.
Exit(p) ==
  /\ state[p] = "live"
  /\ Outcome(DropMm(Memory(p)), p)
  /\ state' = [state EXCEPT ![p] = "zombie"]
  /\ UNCHANGED kstack

\* do_wait: the parent frees the kernel stack, with put_kstack.
Reap(p) ==
  LET m == FreeFrames(Memory(p), {kstack[p], kstack[p] + 1})
  IN  /\ state[p] = "zombie"
      /\ Outcome(m, p)
      /\ state' = [state EXCEPT ![p] = "none"]
      /\ kstack' = [kstack EXCEPT ![p] = 0]

Init ==
  /\ state = [p \in Procs |-> IF p = first THEN "live" ELSE "none"]
  /\ kstack = [p \in Procs |-> IF p = first THEN 1 ELSE 0]
  /\ mm = [p \in Procs |-> NoMm]
  /\ free = 3..F
  /\ ref = [f \in Frames |-> 0]
  /\ stopped = "no"

Next ==
  /\ stopped = "no"
  /\ \E p \in Procs : \/ \E c \in Procs : Fork(p, c)
                      \/ \E prog \in Programs, args \in 1..ArgPages : Exec(p, prog, args)
                      \/ \E v \in Space, write \in BOOLEAN : UserAccess(p, v, write)
                      \/ \E v, w \in Space, write \in BOOLEAN : CopyUser(p, v, w, write)
                      \/ Exit(p) \/ Reap(p)

Spec == Init /\ [][Next]_vars

-----------------------------------------------------------------------------
(* Properties. *)

\* What frame f is used for.
Uses(f) ==
  {<<p, "kstack">> : p \in {q \in Procs : kstack[q] # 0 /\ f \in {kstack[q], kstack[q] + 1}}}
  \cup {<<p, "pgdir">> : p \in {q \in Procs : mm[q].pgdir = f}}
Maps(f) ==
  (UNION {{<<p, "table", t>> : t \in {u \in DOMAIN mm[p].pt : mm[p].pt[u] = f}} : p \in Procs})
  \cup (UNION {{<<p, "page", v>> : v \in {w \in DOMAIN mm[p].pte : mm[p].pte[w].frame = f}} : p \in Procs})

\* pmm.c, vmm.c: every frame is free or used for one thing by one process, and counted
\* so.  Nothing is lost or used twice after a fork, an execve that failed half way, or
\* an exit; in particular no page was mapped where exit_mmap does not look for it.
FramesExact ==
  \A f \in Frames :
    /\ Cardinality(Uses(f)) + Cardinality(Maps(f)) = IF f \in free THEN 0 ELSE 1
    /\ ref[f] = Cardinality(Maps(f))

\* vmm.c: the areas of a process do not overlap, and what is mapped lies in one of them
\* and may be written exactly if the area may.  mm_map does not see to it when a range
\* runs into a later one; the assertion does, by stopping the kernel.
SpacesOK ==
  \A p \in Procs :
    /\ \A a, b \in mm[p].vmas : a # b => Area(a) \cap Area(b) = {}
    /\ \A v \in DOMAIN mm[p].pte :
         \E a \in mm[p].vmas : v \in Area(a) /\ a.write = mm[p].pte[v].write

\* The kernel can access what user_mem_check lets through, and the arguments in the stack
\* of a new program, with page faults where the pages are not there yet; and no fault hits
\* a page whose entry allows less than its area, for which do_pgfault panics.
NoKernelFault == stopped \notin {"kernel fault", "non-writable pte"}
=============================================================================
