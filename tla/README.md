# A verification of the ucore kernel (lab8)

`src/ucore_lab/labcodes/lab1` .. `lab8` are eight stages of one teaching kernel;
lab8 is the last and contains all the others. This directory holds TLA+ models of
lab8's kernel, the TLC runs that check them and TLAPS proofs about them. Paths
below are relative to `src/ucore_lab/labcodes/lab8/`.

## The system

ucore runs on one 32-bit x86 CPU. The kernel is not preemptible: `trap()` calls
`schedule()` only on its way back to user mode (`kern/trap/trap.c:298-305`), so
kernel code runs from one call of `schedule()` to the next without another process
stepping in. Interrupts are enabled while a system call runs and may come at any
point outside a `local_intr_save` section.

| Component | Source | State it keeps | Operations | What is hard about it |
|---|---|---|---|---|
| Processes | `kern/process/proc.c`, `kern/syscall/syscall.c` | `proc_struct`s: `state`, `wait_state`, `flags`, family links; `current`, `nr_process`, pid hash | `do_fork`, `do_exit`, `do_wait`, `do_kill`, `do_yield`, `do_sleep`, `do_execve` | exits, kills and waits in any order; orphans; interrupts between a test and a sleep |
| Scheduling core | `kern/schedule/sched.c` | run queue, `need_resched` | `schedule`, `wakeup_proc` | wakeups that come before the sleeper has left the CPU |
| Stride scheduler | `kern/schedule/default_sched.c`, `libs/skew_heap.h` | strides, priorities, time slices, a skew heap | enqueue, dequeue, `pick_next`, tick | wrap-around; processes that join with a stale stride |
| Timers | `kern/schedule/sched.c` | `timer_list`, a delta list of `timer_t`s on sleepers' stacks | `add_timer`, `del_timer`, `run_timer_list` | timers deleted early by a kill; several that expire together |
| Semaphores, wait queues | `kern/sync/sem.c`, `wait.c` | value, queue of `wait_t`s on sleepers' stacks | `up`, `down`, `wakeup_wait`, `wakeup_queue` | hand-over without touching the value |
| Monitor | `kern/sync/monitor.c` | `mutex`, `next`, `next_count`, conditions with `count` | `cond_wait`, `cond_signal` | Hoare hand-over at every exit |
| Philosophers | `kern/sync/check_sync.c` | phases | take and put forks, with semaphores and with the monitor | deadlock, lost signals |
| Keyboard | `kern/fs/devs/dev_stdin.c` | ring buffer, wait queue | `dev_stdin_write` (interrupt), `dev_stdin_read` | characters between the test and `schedule()`; a full buffer |
| Traps | `kern/trap/trap.c` | trap frames | dispatch, return to user mode | order of the `PF_EXITING` test and `schedule()` |
| Pids | `proc.c:183-216` | `last_pid`, `next_safe` | `get_pid` | uniqueness after the counter wraps |
| Page allocator | `kern/mm/default_pmm.c`, `pmm.c` | free list of blocks in address order, page flags and reference counts | `alloc_pages`, `free_pages`, page-table updates | splitting and merging |
| Kernel heap | `kern/mm/kmalloc.c` | SLOB free list, big blocks | `kmalloc`, `kfree` | merging of neighbours |
| Virtual memory | `kern/mm/vmm.c`, `pmm.c`, `proc.c` | vma lists, page tables, `mm_count` | `mm_map`, `dup_mmap`, `exit_mmap`, `do_pgfault` | failure half way; release while in use |
| Swap | `kern/mm/swap.c`, `swap_fifo.c` | FIFO of pages | swap in and out | never used after start-up (below) |
| Files | `kern/fs/file.c`, `fs.c`, `sysfile.c` | descriptor table with open counts, shared `files_struct`s | open, close, read, write, dup, fork | counts of shared descriptors |
| VFS | `kern/fs/vfs/` | inode reference and open counts, device list | lookup, open, close, reclaim | last reference against a new lookup |
| SFS | `kern/fs/sfs/` | cached inodes, free map, superblock | load, reclaim, read, write, block mapping | two loads of one inode; partial failure |
| Devices, boot, library, user programs, mksfs | `kern/driver/`, `boot/`, `libs/`, `user/`, `tools/` | none of interest | port I/O, formatting | not modelled: no state that the kernel's correctness rests on |

How they interact: every blocking operation (`do_wait`, `do_sleep`, `down`,
`dev_stdin_read`) sets `PROC_SLEEPING` and a `WT_*` reason, links itself where its
waker will find it, and calls `schedule()`; every waker (exit, kill, timer and
keyboard interrupt, `up`) goes through `wakeup_proc`, which puts the process into
the run queue unless it has not left the CPU yet. The files, the SFS and the memory
of a process are reached from the system calls of that process and released in
`do_exit`.

What makes each part correct, in a sentence each: the run queue holds exactly the
processes that could run; nobody sleeps whose event has happened; what lives on a
stack or in a `proc_struct` is in no list once that memory goes; every process that
dies is reaped; every sleep ends on its tick; the scheduler starves nobody; a monitor
has one active thread; pids are unique; blocks of memory neither overlap nor get lost;
page and inode counts equal the references there are; what a failed operation took it
gives back; what the kernel has checked of a user's memory it can access.

## Modules

**`Proc`** — processes, the scheduling core, the way back to user mode, the keyboard
reader and the two interrupts that wake processes. A step is a stretch of kernel code
from one `schedule()` to the next; `pc` says where a process stands, `Resume` where it
goes on after each of its calls of `schedule()`. Where shared state is tested and used
later with interrupts enabled, the stretch is cut so that an interrupt fits in between:
before every `schedule()` (the `*_sched` places) and inside `do_kill`. `Tick` and `Key`
may fire between any two steps. The family links `parent`, `cptr`, `optr` and `yptr`
are the pointers of the code; `Adopt` is the effect of `do_exit`'s loop, which reverses
the children in front of init's. `timers` and `kbdq` are the `timer_t` and `wait_t` that
are linked into a list. A `proc_struct` stands for its pid. A user process may make any
call at any time; a call with no effect on this state (file operations, one that fails
and undoes what it did) is `NoEffect`.

**`Lifecycle`** — what `Proc` promises, abstractly: a process is created by a living
parent, dies once, leaves its children to init and stays a zombie until its living
parent reaps it. `Proc` maps `FREE` to none, `ZOMBIE` to zombie and the rest to alive.

**`Timer`, `TimerAbs`** — the delta list with its three operations, each atomic since
interrupts are off, and what it implements: every sleeper has a count of ticks of its
own, and is woken by the tick that brings it to 0. The refinement maps a timer to the
sum of the differences up to its own. Who is woken has to run to go on, which is the scheduler's
part: `Timer` takes no fairness of it for granted.

**`Stride`** — `default_sched.c` over `skew_heap.h`, with `schedule()` and
`wakeup_proc()` around them, and processes that are created with stride 0, end, sleep and
come back with the stride they had. `Big` is `BIG_STRIDE`, a word has one bit more (`Word`);
`Less` is the sign of the difference. The heap is the links of the code, `left`, `right` and
`parent`, so ties and broken orders resolve as they do there. `skew_heap_merge` calls itself once
at most; `Call` is what one call compares and links, and `Merge` makes as many calls as there can
be. Dequeue removes the root because `schedule()` dequeues what `pick_next` returned.

**`KSem`, `PhilMonitor`** — semaphores of kernel threads, and the monitor with the
philosophers as its users. `KSem` has the variables and operations of the semaphores and
of a CPU that threads leave only when they block, sleep or end; `PhilMonitor` instantiates
it and adds one action for each stretch between two semaphore operations.

**`SfsFile`, `FlatFile`** — regular files, from the descriptor in `file.c` down to the
blocks. `din` and `disk` are the inode in memory and on disk, `dirty` the marks, `free` the
free map, `data` the blocks, which are written through. A call is one step: the kernel
switches processes only where it sleeps, the disk is polled, and the locks of the SFS are
free whenever another process gets the CPU. An operation is computed on a *view* of the
file that carries the error or failed assertion out of nested calls, as the return codes
do; a loop over blocks is a recursive function of the rounds (`Loop`). `Open` includes the emptying for `O_TRUNC` and `O_CREAT`;
there is no call that creates a file (`vop_create` is not implemented for the SFS), so the
files of the directory are constant. Closing the last descriptor writes and drops the inode
(`sfs_close`, `sfs_reclaim`). `Restart` is the way the system ends and begins: when all processes
are gone `init_main` calls `fs_cleanup`, which writes the free map if it is marked, and the next
start mounts what is on disk. A longer `read` or `write` of a process is the sequence of
calls `sysfile_read` and `sysfile_write` make of it, with other processes in between only
in principle. Contents of free blocks are unknown (`Stale`), and so is an inode on disk
that is older than the one in memory (`Outdated`): the code must not depend on either.
A failed assertion sets `panic` and stops the machine. `FlatFile` is what callers may rely
on: a file is a sequence of bytes, a descriptor a position in one, only lack of space cuts
a call short. The refinement reads the bytes through the block map.

**`FirstFit`, `KHeap`, `HeapAbs`** — the page allocator of `default_pmm.c` and the heap of
`kmalloc.c` on top of it. `FirstFit` has operators on a record (the list, the lengths its
pages carry, `nr_free`, and as history the blocks that are held), since one `kmalloc` may take
and give back several blocks. `KHeap` counts memory in SLOB units: the circular list
of free blocks with its roving start `slobfree`, the headers of blocks in use, the list of big
blocks with its nodes, and others who take pages directly. `SlobAlloc` and `SlobFree` are
functions from one heap to the next, and an action is a whole `kmalloc` or `kfree` with all it
takes and, when it fails half way, gives back. `HeapAbs` is the promise to the callers: room
that nobody else has, until it is given back.

**`Memory`, `MCMemory`** — what processes do with pages: areas, page tables, `page_ref`, page
directories, kernel stacks. An action is the whole memory side of fork, execve, exit,
wait, an access of the user (with the page fault it causes) or an access of the kernel to a
buffer that `user_mem_check` has passed. The operators carry the first error out of nested calls
as in `SfsFile`; `stopped` tells which assertion, panic or lack of memory stopped the
kernel. Programs are lists of segments; `MCMemory` has well-formed ones and ones that collide,
are cut short or lie outside user memory. `Exec` also writes the arguments to the new stack. It sees the page allocator as a set of free frames of which the first that fits is
taken; that `default_pmm.c` keeps such a set is what `PagesExact` says in `KHeap`.

**`Pid`, `Files`** — `Pid` is `get_pid` one loop iteration at a time, with its static variables
and the process list it searches; fork starts it and links the new process, wait takes one
out. `Files` extends it with the descriptor tables, the working directories and the two counts
of each inode, and with open (all flags), close, dup, chdir, fork, execve, exit and wait on them.
What an operation on an inode does to its contents is `SfsFile`'s matter; here it counts
whether the kind of inode has the operation at all, for `__vop_op` asserts it. `lost` is a
history variable: the references nobody will ever drop.

**`ProcProofs`** (about `Proc`), **`FilesProofs`** (about `Pid` and `Files`), **`MemoryProofs`**,
**`SfsProofs`** (about `SfsFile`), **`StrideProofs`**, **`PhilProofs`** (about `PhilMonitor`), **`HeapProofs`** (about
`FirstFit` and `KHeap`), **`TimerProofs`** — theorems, below.
**`MCProc`**, **`MCSfsFile`** — symmetry sets for TLC.

## Runs

| Run | Module, cfg | States | Shows |
|---|---|---|---|
| `proc_safety` | `MCProc`, `MCProc.cfg` | 1.03 M | nine invariants of `Proc` with three users, a one-character buffer, reads of up to two characters |
| `proc_live` | `MCProc`, `MCProcLive.cfg` | 18 k | `OrphanReaped`, `KilledSleeperDies`, and `Proc` implements `Lifecycle`, with two users |
| `proc_kill` | `MCProc`, `MCProcKill.cfg` | | a kill is lost (violation, below) |
| `timer` | `Timer`, `MCTimer.cfg` | 11 k | delta list against independent counters; every timer runs out, whatever is put before it |
| `stride` | `Stride`, `MCStride.cfg` | 256 k | forks, exits, sleeps: heap exact, window kept and minimum picked while nobody joins, nobody starves once joining ends |
| `phil_monitor` | `PhilMonitor`, `MCPhilMonitor.cfg` | 165 k | the monitor hands over correctly; all philosophers finish |
| `heap` | `KHeap`, `MCKHeap.cfg` | 74 k | free list and heap exact, and the heap implements the abstract one, with memory running out everywhere |
| `memory` | `MCMemory`, `MCMemory.cfg` | 1.9 k | every frame counted, areas disjoint, checked buffers accessible |
| `files` | `Files`, `MCFiles.cfg` | 205 k | inode counts are the users of the inode; pids unique; `get_pid` returns |
| `sfs_file` | `MCSfsFile`, `MCSfsFile.cfg` | 123 k | blocks are owned once, mapped and cleared; files behave as byte sequences and are found again after a restart |
| `sfs_dirty` | `MCSfsFile`, `MCSfsDirty.cfg` | | an inode is modified and not marked (violation, below) |
| `sfs_assert` | `MCSfsFile`, `MCSfsAssert.cfg` | | a stale position fails an assertion (violation, below) |

Bounds. `proc_safety`: three users besides idle and init are a parent, a child and a
third that kills, or two siblings and an orphan's child; `MaxProcess` 5 makes the last
slot fill up, so `do_fork` both succeeds and fails. `BufSize` 1 against `MaxRead` 2 makes
a reader sleep in the middle of a read and the buffer overflow. Users are
interchangeable, so they are a symmetry set; the liveness runs use none. `timer`: four
timers of at most three ticks give every kind of tie and gap on both sides of a timer that
is deleted. `stride`: with `BIG_STRIDE` 3 strides wrap every few turns and
priorities 1 and 3 give passes of 3 and 1 (priority 0, until it is set, also passes 3).
`phil_monitor`: with four philosophers a fork-putter has two neighbours that do not
neighbour each other, so both may wait for it and be signalled in one exit; a second meal
makes everybody come back.
`sfs_file`: blocks of two cells, one direct pointer and files of up to three cells give a
file a direct, an indirect and an entered block, with partial first and last blocks; three
blocks for two files let the disk run out at every allocation, that of the second block of
an indirect pair included; two descriptors are on the same file or on different ones, and
each file is dropped and loaded again. Write-only descriptors (left out of the run) differ from
`O_RDWR` only in what they refuse.
`heap`: four pages of five units; a small object with its header takes three, so that a page holds
one and a remainder in which a node of a big block fits exactly; large objects of one and two
pages and direct blocks of two make the page allocator split, join on both sides and fail, and
`kmalloc` fail before and after it has taken its node. `memory`: six virtual pages in two page
tables, 19 frames: two processes with a table in each half, or one and a fork that stops
the kernel half way; the programs have a hole, a read-only segment, one that is cut short and two
that overlap, and one outside user memory, so that `load_icode` fails at each place where it can; arguments
fill one or two pages at the end of the stack, of which `load_icode` allocates one (`StackInit`) and a page
fault the other. `files`: two descriptors of
which execve keeps one, one inode of each kind, init and two more processes. Five is the
least `MaxPid` that the static assertion allows with `MaxProcess` 4: numbers wrap after two
forks and often run into living ones. `MaxLost` bounds a leak that nothing in the code bounds.
`memory`, `heap` and `files` behave alike for each descriptor, frame and page; what is special is
an end of the range, and every range here has both ends and something between.
All bounds are CONSTANTS.

Fairness. The CPU executes kernel code that is ready (`WF` on kernel steps and on
`schedule()`); the timer interrupt keeps coming (`WF` on the ticks that make a timer run
out or a slice end); nobody owes a system call or a key. In `Files` the kernel goes on with
`get_pid` (`WF` on its steps): interrupts are off, so that nothing else can run. `Proc` leaves the choice of the
next process open and assumes strong fairness of it for each process *and* `Settles`:
from some point on nobody joins the run pool by fork or wakeup. The second assumption is
needed because the scheduler guarantees no more: while processes go on joining, new ones start
with stride 0 (`proc.c:133`), sleepers come back with the stride they had, and either may
overtake a waiting process for ever. `Stride` shows that nobody starves once that ends
(`NoStarvationOnceSettled`, which has the same premise as `Settles`). `Timer` assumes of the ticks alone
that they keep coming: `TimerRunsOut` and `ImplementsTimerAbs` hold while others sleep, are killed and sleep
again for ever. They end with the wakeup; when the woken process gets its turn is the scheduler's matter, and
`Stride` says under which condition it does.

## Three places where code and text disagree

* **A kill may be lost** (`proc_kill`, `KilledDies`). `trap()` tests `PF_EXITING` at
  `trap.c:299` *before* it calls `schedule()` at 303. A process that is killed while it
  waits in the run pool behind that call returns to user mode. It may then read the
  keyboard and sleep until somebody presses a key, while `do_kill` refuses a second try
  because the flag is set. The diagram at `proc.c:59-60` says that `SYS_kill` leads to
  `do_exit`. When its next trap comes before it sleeps again the process does die, which
  is why the tests of `user/` pass. `KilledSleeperDies` is the part of the promise that
  holds.
* **A block far behind the end is asked for** (`sfs_assert`, `AssertionsHold`).
  `sfs_bmap_load_nolock` asserts `index <= din->blocks` (`sfs_inode.c:356`), and
  `sfs_io_nolock` computes the index from the position of the descriptor without comparing
  it with the length of the file when it writes. A second descriptor opened on the file with
  `O_TRUNC` or `O_CREAT` (`vfsfile.c:58`) takes the blocks away, and the next write through
  the first one stops the kernel. `sfs_file` checks everything up to where the machine stops.
* **An inode is modified and not marked** (`sfs_dirty`, `DirtyIfModified`). `dirty` means
  "true if inode modified" (`sfs.h:72`), but `din->blocks ++` (`sfs_inode.c:365`) does not set
  it. Mostly the pointer or the size that changes with it does. Not so when a write beyond
  the end met a full disk and left a file that is longer than its blocks (656): once there is
  space, a read or a write below the size creates the missing block, and if the indirect block
  is there already, nothing is marked and the number is lost with the last descriptor. The
  block stays behind the end, with its contents, until the file grows over it.
  `sfs_file` therefore checks `SpecMarked`, the behaviours in which this does not happen;
  without that premise `ImplementsFlatFile` fails by the reappearance of those contents.

Met on the way and not made runs of their own:

* `pick_next` finds a minimum (comment at `default_sched.c:96-97`) only while all strides lie
  within `BIG_STRIDE` of one another; a process that joins with stride 0 or an old stride breaks
  that, the comparison is then no order, and the heap's root is no minimum. `PicksMinimum`
  and `StaysInWindow` have the window as their premise.
* A file may have more blocks than its size says, and `sfs_truncfile` asserts that it has not
  (`sfs_inode.c:952`): when the disk fills up while a seek makes a file longer, the loop leaves at line 963
  with the blocks it has added and the old size. If that size is 0, the next open with `O_TRUNC` or `O_CREAT`
  stops the kernel. `SfsFile` reaches this with `MaxSize` 4 (`panic` is "blocks_not_of_size").
* `SFS_MAX_FILE_SIZE` is "max file size (128M)" (`sfs.h:20`) and `sfs_truncfile` and `sfs_io_nolock` admit
  positions up to it, but the block map has 12 + 1024 entries, for 4144 KB. Beyond them a write or a seek
  ends in the panic "index out of range" (`sfs_inode.c:286`); `SfsFile` with five blocks and `MaxSize` 8 does
  so too (`panic` is "index_out_of_range").
* `O_CREAT` empties a file, and a seek makes one longer, through a descriptor that may not write.
* `do_kill` does not refuse init. Init never returns to user mode, so that the flag matters only
  when it wakes up in `do_wait`, which then calls `do_exit`: for init this is a panic (`proc.c:527`).
* `vfs_open` with `O_CREAT` and `O_EXCL` of a name that exists returns without dropping the
  reference it looked up (`vfsfile.c:47-48`); the inode stays for ever. `Counted` counts such references
  in `lost` and says that nothing else is lost.
* An inode that lacks an operation fails an assertion in `__vop_op` (`inode.h:196`): opening a
  missing file with `O_CREAT`, a directory with `O_CREAT`, reading or executing a directory,
  `fsync` of a device stop the kernel.
* When memory is used up, `alloc_pages(1)` calls `swap_out` for `check_mm_struct`, which is
  `NULL` once the tests at start-up are over (`pmm.c:167-171`): the kernel stops. The failure paths
  behind it are never taken, `copy_mm`'s in `do_fork` for one, which would leak the files
  (`proc.c:488`; the label `bad_fork_cleanup_fs` is unused). For the same reason no page is swapped.
* A page fault of a user process that is not allowed panics the kernel (`trap.c:211`) instead of
  ending the process.
* `mm_map` does not see that a range runs into a later area (`vmm.c:159`); the assertion in
  `insert_vma_struct` stops the kernel for such an ELF file. A segment that has no bytes in the
  file is skipped (`proc.c:664`), its `bss` with it.
* `kmalloc` of 4080 to 4087 bytes fails the assertion of `slob_alloc`; `find_order` shifts low bits
  away, so that 8193 bytes get two pages. No caller asks for such sizes.
* `init_main` asserts that as many pages are free as before the first user process
  (`proc.c:1047`), but the heap never gives a slob page back: a load that once needs more small
  objects than the start-up did fails it.

## Proofs

Each theorem is for all values of the constants that the assumption in the model's module
allows: any number of processes, philosophers, pages, descriptors, ticks. Nothing else is assumed.

| Module | Theorems | Property of the runs |
|---|---|---|
| `ProcProofs` | `TypesCorrect`, `RunPoolCorrect`, `ControlCorrect`, `StackRefsCorrect`, `KeyWakeupCorrect`, `ChildWakeupCorrect`, `LifecycleImplemented` | `TypeOK`, `RunPoolExact`, `ControlOK`, `StackRefsLive`, `NoLostKey`, `NoLostChildWakeup`, `ImplementsLifecycle` |
| | `ListsCorrect`, `NothingDangling`, `InitEndsAlone` | `FamilyOK`, `NoDangling`, `InitQuits` |
| `FilesProofs` | `PidsAreUnique`, `ImplementsPid`, `FilesPidsUnique`, `CountsAreUsers` | `PidsUnique`, `Counted` |
| `MemoryProofs` | `FramesStayExact`, `SpacesStayRight`, `CheckedIsAccessible` | `FramesExact`, `SpacesOK`, `NoKernelFault` |
| `SfsProofs` | `TypeCorrect`, `BlocksNotShared`, `NoHoles`, `EndsInZeros`, `RestartLosesNothing`, `FilesAreFlat`; `Kept` | `BlocksOwnedOnce`, `BlocksMapped`, `ZeroBeyondEnd`, `FoundAgain`, `ImplementsFlatFile` |
| `PhilProofs` | `QueuedThreadsSleep`, `Exclusion`, `MonitorIsExclusive`, `SignalKept`, `NoSignalMissed` | `QueuedAsleep`, `NeighboursExclude`, `MonitorExclusive`, `SignalledMayEat` |
| `HeapProofs` | `PagesStayExact`, `SlobStaysExact`, `HeapRefines`; `HeldPagesOwned` | `PagesExact`, `SlobExact`, `ImplementsHeapAbs` |
| `StrideProofs` | `TypeCorrect`, `PoolStaysExact`, `MinimumPicked`, `WindowKept` | `TypeOK`, `PoolExact`, `PicksMinimum`, `StaysInWindow` |
| `TimerProofs` | `TypeCorrect`, `HeadCorrect`, `Refinement` | `TypeOK`, `HeadHasTicks`, the safety part of `ImplementsTimerAbs` |

**Processes.** None of the six invariants of `Proc` is inductive alone; `Inv` is their conjunction.
`RunPoolExact` needs to know in which state `schedule()` and `wakeup_proc()` find a
process, which `ControlOK` ties to its `pc`. `ControlOK` says, among others, that a zombie
never leaves its last `schedule()`; a timer that named a zombie would make it runnable,
and `StackRefsLive` excludes that. `NoLostKey` and `NoLostChildWakeup` say that a sleeper
is in the queue its waker looks at and that its event has not happened; a waker preserves
them because it wakes everybody whose event it is. The hard case is `do_exit` against a
parent or init asleep in `do_wait`: the set `Wanted` of a sleeper grows by adoption and
its zombies appear by exit, and every sleeper for whom either happens is in `ExitWakes`.
There is one lemma for each stretch of code and in it one step for each conjunct;
`NextInv` puts them together and `SpecInv` concludes with PTL. The refinement uses the
same invariant: `ForkCreates`, `ExitDies` and `WaitReaps` are the three kinds of step that
the abstract specification has, `WakeupLife` says that wakeups are invisible to it.

**The family.** `FamilyOK` walks the list of children, so it says nothing of a list that is
broken or runs in a circle elsewhere. `Family`, the inductive invariant, says when links are right
without walking: there is a numbering `ord` of the processes, to be thought of as the moment each
was put into its list, such that among the children of one parent `optr` leads to the next smaller
number, `yptr` to the next larger one and `cptr` to the largest (`Linked`). Adding a child,
removing one and moving a whole list in reverse keep some numbering right (`AddKeeps`,
`RemoveKeeps`, `MoveKeeps`); the walk then visits every child
once (`WalkExact`). Besides, whoever is not free has a living parent (`ParentsLive`), a second
numbering grows on every way down from init, so nobody is its own ancestor (`Descend`), and
`nr_process` counts who is alive (`Counted`). That init leaves `do_wait` for good only when
alone (`InitQuits`) follows: any other process that is alive has, by `Descend`, an ancestor which is a child of init.
TLC checks `Linked`'s consequences in `proc_safety`; the numberings exist only in the proof.

**Pids.** That no two processes
have the same pid follows when `get_pid` returns a number nobody has; that it may return
`last_pid + 1` without looking, when it is below `next_safe`, is what needs an invariant.
`Gap` says it: of the processes in the list that the search has passed (all of them, when it
is not running), none has a number strictly between `last_pid` and `next_safe`, nor, while it is
running, `last_pid` itself. A reaped process only makes the gap larger, a new one has number
`last_pid`, and a search that starts again forgets what it has seen. `PidInv` is `Gap` with the
types, uniqueness and `Listed` (who is in the list has a number). `FilesProofs` shows by
`PidStep` that each step of `Files` is one of `Pid` or leaves it alone, so that `Files` implements
`PidSpec` and has unique pids without the invariant being proved again.

**Files.** `Counted` compares cardinalities. `FilesInv` keeps the sets they are of: `HeldBy(file)`
is the set of descriptors open on each inode, `Extra` the number of its other references, and
`Fits(m, H, e)` says that the counts of a memory `m` are those of `H` and `e`. It is said of
arbitrary `H` and `e`, because in the middle of fork, execve or exit the counts fit the
descriptors that the loop has dealt with so far and no table. `FitsSteps` is what each operation on
counts does to `H` and `e`, `CloseFdsFits` and `DupFdsFits` what the loops do, and each system
call is a composition. None of the assertions of `inode.c` on the way is assumed: that
`err` stays "no" is part of `Fits`.

**Memory.** `FramesExact` counts uses; the invariant `MemInv` says instead who holds what. `FramesOK` says
that every frame is free, or belongs to one kernel stack, or is held by one `mm_struct` for one thing
(page directory, page table or page), and that `page_ref` is 1 for the last two and else 0.
`SpacesWell` says that areas are disjoint, that a mapped page has the rights of its area, and that
every page table covers a page of some area: this is what `exit_mmap` needs, which looks for page tables
area by area. An operation knows one `mm_struct` and the free frames only, so it is
proved to keep `Fits(m, X, r)`: the frames of `X` are used elsewhere, with the counts `r`, and each other
frame is free or held by `m` once. `X` has the frames of the other processes, the kernel stack,
and a page that `alloc_page` has returned and `page_insert` has not yet been given: a page in hand is one
that somebody else holds. `Good` adds that the kernel may have stopped instead. `Lower` gets `Fits`
from the invariant and `Lift` goes back. `NoKernelFault` is part of `MemInv`: `user_mem_check` and
`do_pgfault` ask the same areas, and since an entry has the rights of its area, no allowed access finds
one that is read-only. That a write never meets an entry that is there and read-only is why the panic
of `do_pgfault` for such entries is not reached. The assumption is that memory has two frames for the first stack and that
programs are lists of segments that are not empty; they may overlap, be cut short, be in any order,
or lie outside user memory.

**Regular files.** `SfsInv` is inductive for `SpecMarked` and has the properties as consequences. An
operation sees a view of one file, so there are two levels, as for the memory. `Fits(s, X, d)` says of a view that each block
is free, in a place of this file, or in `X` (the blocks of the other files, unchanged), and only one of
these, and that a place has a block exactly if it lies below `blocks`. The last is what makes the
allocation of two blocks at once (`GetEntryOK`) the hard lemma: when the second one is not to be had the indirect
block has to go back, else it is in a place of no file. What an operation does is said of cells, not of blocks (`Cell`,
a cell above `blocks` being 0): `LoadOK` changes no cell, `DropOK` only those of the last block,
`IoBlockOK` those between two positions. From there induction over the rounds gives `TruncFileOK`,
`ReadAtOK` and `WriteAtOK`, each with what is left after lack of space. `BlocksOK`
is `Fits` for all files at once; `ViewOK` and `FinishOK` go from one to the other. `ZerosOK` says that cells behind the
end are 0: it is kept although `sfs_truncfile` does not clear the rest of a last block, because the code only truncates to
nothing or makes longer (`TruncEnds`), and although a write may fail, because its blocks were cleared when they were
taken. `SavedOK` says that an inode that is not marked is as on disk, that one which is marked is open, and that the free map
on disk is right or marked: so the last close and the restart lose nothing.
The refinement (`FilesAreFlat`) needs no further invariant. Byte `z` is the cell `z % BlkSize` of block
`z \div BlkSize` (`ContentIs`), what `HasWritten` and `Resizes` say of cells is `Overwrite` of bytes
(`WrittenContent`), and a call cut short had fewer free blocks than the file could still need
(`Room`, `NoRoom`), which is what `full` stands for. All of it is proved with the assertions of the code as outcomes: a view may
end in one of `Panics`, and the machine stops. Of the constants the theorems need what `SfsAssumption` says: block
numbers and sizes are positive, blocks are finitely many, and something can be written.

**The monitor.** `NeighboursExclude` is not inductive because a philosopher sets the phase of another
one; that nobody else does so meanwhile is `MonitorExclusive`, and that holds because of who waits where.
`Inv` ties the queue of each semaphore to the program counters of those in it (`Waiting`), the
counters `value` and `next_count` to the threads that are active or between the halves of
`cond_signal` (`Monitor`), and phases and `count` to program counters (`Phases`). `NoneMissed` says
that a hungry philosopher whose neighbours do not eat is one that somebody in the monitor is about to
look at; `NoSignalMissed` is its consequence, that nobody who could eat waits while the monitor is
empty, which is what `AllQuit` rests on.

**The page allocator.** `FreeListOK` speaks of places in the list; the argument is about pages.
`Blocks` says of the set of free pages and the lengths they carry that every page lies in one block,
that its first page carries the length and the others 0, and that no two blocks touch; `ListIsSet`
shows that for a list in ascending order it is the same. Splitting (`AllocBlocks`), joining with
the next block (`FreeNext`) and with the one before (`FreeBefore`) preserve it; `CutSeq` and
`PasteSeq` say what becomes of the list.

**The heap.** `SlobExact` compares sets of units and says who has them; the invariant `HeapInv` is
`HeapOK(heap, taken, live)` and has a part for each owner. `OwnedBy` says that the blocks
in the list of big blocks and those taken directly are held by the page allocator and are different ones, so
that the heap only gives back what it holds (`HeldPagesOwned` records that as a theorem). `SmallOK` says that the
other held pages are exactly the units of the free blocks and of the blocks in use. `NodesOK` and `LiveOK` say that
a block in use is the node of one big block or the header of one object of a caller. They are said of any heap, set of
pages and objects and not of the variables, because in the middle of `__kmalloc` the node is in use and
not yet in the list, or the pages are taken and have no node: `Granted` and `Takes` are what
`slob_alloc` and `alloc_pages` leave there, and the branch that gives the node back when there are no
pages ends where it began, but for the order of the list and perhaps one more slob page.
The circular list is described without walking it: `ListIn` says that each block is linked to the next higher address,
the last one to the arena, and that a gap follows each. Only the loops need the walk: `WalkOK` and `BeforeOK` say that
from any start they come by every block and find the place where a block belongs. `slob_alloc` goes around
the list at most twice because a fresh page always has room (`SpaceOK`): units in a row that are free lie in one block
(`InOneBlock`), since otherwise two of the blocks would touch. The refinement (`HeapRefines`) then only needs that objects of callers lie apart (`ObjectsApart`) and that a
step adds one object, removes one or leaves them alone (`Moves`). What `HeapAssumption` says is needed: a small object with its header is
shorter than a page, as the assertion of `slob_alloc` demands, and large requests are at most two pages, where `find_order`
still rounds up.

**The stride scheduler.** `PoolExact` walks the heap from its root; the invariant `StrideInv` says `Tree(pool,
stride, Waiting)` instead, without a walk. `Forest(l, r, u, D, R)` says of any links and any set of roots that
the links up are those down in reverse and that no smaller set than `D` has the roots and is closed under the
links down. A call of `skew_heap_merge` takes one of the two roots, puts it below what is linked so far and
gives its heap on the right back to be merged: `Between` is a forest of three roots, and `CallForest` shows that
each call leads from one to the next and takes in one more entry, so that the calls come to an end before they are more
than the processes (`MergeOK`). Nothing of this needs an order. `Over` says that of two linked entries
`skew_heap_merge` could have put the upper one up: with stale strides this is no order and the heap says nothing of
its root, but `Ordered` is kept all the same, because a stride changes only while its process is not in the heap. That is why
`PicksMinimum` may start from a heap that was built when strides were in no window. Once they are,
distances from the last stride are numbers up to `BIG_STRIDE`, `Less` compares them (`Distances`), and the set of
entries not before the root is closed under the links down, so it is all of them (`RootFirst`). The root then advances by
at most `BIG_STRIDE`, so that all are at most that far ahead of where it was, and one of them is the new last one
(`WindowBegins`). `StrideAssumption` says that processes are finitely many, `idle` and `Null` are none of them,
and priorities are between 1 and `BIG_STRIDE`.

**Timers.** The list holds differences, the promise is about sums. `Due` is the list of sums; `AddInserts`,
`DelRemoves` and `TickTicks` say that the three operations insert one sum, remove one, and
lower all by one and drop those that become 0, whatever the differences are. `Inv` says that
sums are between 1 and the longest sleep, that nobody has two timers, and that the owner of one
is not awake. The assertion of `run_timer_list` on the first timer is then `Due[1] > 0`.

**Form.** A loop of the code that proofs go through is a recursive function (`order`, `Shl`, `Rest`, `Due`, the
`upto` of `CloseFds`, `Each` in `Memory`, `Loop` in `SfsFile`, `Calls` in `Stride`), not a RECURSIVE operator or a fold. Where the proof needs that such a function
exists there is a lemma (`CloseLoopExists`, `DupLoopExists`, `AllocLoopExists`, `TurnsExist` and the like, `SumsExist`, `WalkExists`), and induction over it is
a smallest counterexample (`Smallest`, `Least`): the induction theorems of the library take operators as
parameters.

Only model-checked:

* everything that rests on fairness: `OrphanReaped`, `KilledSleeperDies`, `TimerRunsOut`, and the
  fairness condition of `TimerAbs` in `ImplementsTimerAbs`, `NoStarvationOnceSettled`, `GetPidReturns`,
  `AllQuit`; liveness and ENABLED are outside the prover's reach.

## Not modelled, and the plan

Still to come, in order of importance:

1. The contents of the keyboard's ring buffer, whose overflow overwrites the oldest unread
   character (`dev_stdin.c:27`); `Proc` counts the unread characters.
2. The philosophers that use semaphores alone (`check_sync.c:22-70`), as another instance of
   `KSem`.
3. Directories and names, and what is left of a file system whose machine stops without
   `sfs_sync`: the code promises nothing about that, so that there is no property yet.

Left out for good: swapping, which the kernel cannot do after start-up (above); shared memory
and shared file tables, which no system call asks for; port I/O of the drivers, boot code,
formatting, debugging aids, the loader of ELF files as far as it is parsing, user programs (they
are the environment), `mksfs`, and the earlier labs; a kill of init, which no program of `user/`
sends and after which only the panic follows (above).
