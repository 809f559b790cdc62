------------------------------ MODULE SfsFile ------------------------------
(***************************************************************************)
(* The regular files of the SFS: sfs_inode.c below the descriptors of      *)
(* file.c.  A file's blocks are found through the direct pointers of its   *)
(* inode and one indirect block; blocks come from the free map and are     *)
(* cleared when they are taken.  The inode is in memory while the file is  *)
(* open, and goes back to disk when it is dirty.  Nothing in a call sleeps *)
(* (the semaphores are free whenever another process may run, the disk is  *)
(* polled), so a call is one step.  A failed assertion stops the machine.  *)
(* The free map goes to disk when the last process has ended, as the last  *)
(* thing initproc does, and comes from there when the machine is started.  *)
(***************************************************************************)
EXTENDS Integers, FiniteSets

CONSTANTS
  Files, NoFile,  \* the files of the directory; there is no call that creates one
  Fds,            \* entries of descriptor tables, of any process
  Blocks,         \* numbers of the blocks that hold data
  BlkSize,        \* SFS_BLKSIZE, in cells: a cell is a byte or a block number
  NDirect,        \* SFS_NDIRECT
  MaxSize,        \* SFS_MAX_FILE_SIZE
  MaxLen,         \* IOBUF_SIZE: a longer read or write is a sequence of calls
  AccModes,       \* of O_RDONLY, O_WRONLY and O_RDWR
  Vals            \* what is written

ASSUME SfsAssumption ==
  /\ NoFile \notin Files /\ Vals \subseteq Nat \ {0} /\ Vals # {}
  /\ Blocks \subseteq Nat \ {0} /\ IsFiniteSet(Blocks)
  /\ {BlkSize, NDirect, MaxSize, MaxLen} \subseteq Nat \ {0} /\ MaxLen <= BlkSize

VARIABLES
  free,   \* the free map
  map,    \* the free map on disk, with the count of the superblock; {} if there is a newer one
  super_dirty,
  data,   \* contents of the blocks: writes go through to the disk
  din,    \* the inodes in memory; that of a file nobody has open is the one on disk
  disk,   \* the inodes on disk; Outdated if there is a newer one in memory
  dirty,  \* files whose inode in memory is marked as modified
  fds,    \* [file, pos, readable, writable] of each descriptor
  panic   \* the assertion that failed, or "none"

vars == <<free, map, super_dirty, data, din, disk, dirty, fds, panic>>

NEntry == BlkSize
Cells  == 0..BlkSize-1
Zero   == [c \in Cells |-> 0]
Stale  == [c \in Cells |-> 1]   \* stands for whatever a free block holds
Ceil(n) == (n + BlkSize - 1) \div BlkSize

EmptyInode == [size |-> 0, blocks |-> 0, direct |-> [i \in 0..NDirect-1 |-> 0], indirect |-> 0]
Outdated   == EmptyInode   \* nothing reads an inode on disk before the dirty one is written
Closed     == [file |-> NoFile, pos |-> 0, readable |-> FALSE, writable |-> FALSE]

-----------------------------------------------------------------------------
(* The block map.  An operation works on a view of the file and the disk:  *)
(* the inode, the free map, the blocks, whether the inode was marked, why  *)
(* the operation failed and how many bytes it moved.                       *)

View(f) == [ino |-> din[f], free |-> free, super |-> super_dirty, data |-> data,
            dirty |-> f \in dirty, err |-> "none", done |-> 0]

Failed(s, why) == [s EXCEPT !.err = why]

\* A loop of n rounds.
Loop(s, n, Do(_, _)) ==
  LET after[k \in 0..n] == IF k = 0 THEN s ELSE Do(after[k - 1], k - 1) IN after[n]

\* bitmap_alloc finds the first free block.
FirstFree(s) == CHOOSE b \in s.free : \A c \in s.free : b <= c

\* Mutant: a block is handed out as it was left.
BlockAllocUncleared(s) == [s EXCEPT !.free = @ \ {FirstFree(s)}, !.super = TRUE]

\* sfs_block_alloc, when there is a free block.
BlockAlloc(s) ==
  [s EXCEPT !.free = @ \ {FirstFree(s)}, !.super = TRUE, !.data[FirstFree(s)] = Zero]

\* Mutant: the superblock is not marked.
BlockFreeUnmarked(s, b) == [s EXCEPT !.free = @ \cup {b}, !.data[b] = Stale]

\* sfs_block_free.  What is left in the block is anything.
BlockFree(s, b) == [s EXCEPT !.free = @ \cup {b}, !.super = TRUE, !.data[b] = Stale]

\* The block number at index i of the map, 0 if there is none.
BlockAt(ino, d, i) ==
  IF i < NDirect THEN ino.direct[i]
  ELSE IF ino.indirect = 0 THEN 0 ELSE d[ino.indirect][i - NDirect]

\* Direct part of sfs_bmap_get_nolock, creating.
GetDirect(s, i) ==
  IF s.ino.direct[i] # 0 THEN s
  ELSE IF s.free = {} THEN Failed(s, "no_space")
  ELSE [BlockAlloc(s) EXCEPT !.ino.direct[i] = FirstFree(s), !.dirty = TRUE]

\* Mutant: the indirect block is kept when there is no block to enter into it.
GetEntryKeep(s, e) ==
  LET fresh == s.ino.indirect = 0
      t     == IF fresh THEN BlockAlloc(s) ELSE s
      ent   == IF fresh THEN FirstFree(s) ELSE s.ino.indirect
  IN  IF ~fresh /\ s.data[ent][e] # 0 THEN s
      ELSE IF s.free = {} THEN Failed(s, "no_space")
      ELSE IF t.free = {} THEN Failed(t, "no_space")
      ELSE [BlockAlloc(t) EXCEPT !.data[ent][e] = FirstFree(t), !.ino.indirect = ent,
                                 !.dirty = @ \/ fresh]

\* sfs_bmap_get_sub_nolock, creating: the indirect block is allocated first, and
\* freed again if there is no second block to enter into it.
GetEntry(s, e) ==
  LET fresh == s.ino.indirect = 0
      t     == IF fresh THEN BlockAlloc(s) ELSE s
      ent   == IF fresh THEN FirstFree(s) ELSE s.ino.indirect
  IN  IF ~fresh /\ s.data[ent][e] # 0 THEN s
      ELSE IF s.free = {} THEN Failed(s, "no_space")
      ELSE IF t.free = {} THEN Failed(IF fresh THEN BlockFree(t, ent) ELSE s, "no_space")
      ELSE [BlockAlloc(t) EXCEPT !.data[ent][e] = FirstFree(t), !.ino.indirect = ent,
                                 !.dirty = @ \/ fresh]

\* sfs_bmap_load_nolock: the block at index i is there afterwards; the one behind the
\* last is created.  The inode is marked by the pointers that change in it, and not
\* for its number of blocks.
Load(s, i) ==
  LET t == IF i < NDirect THEN GetDirect(s, i) ELSE GetEntry(s, i - NDirect)
  IN  IF s.err # "none" THEN s
      ELSE IF i > s.ino.blocks THEN Failed(s, "index_beyond_blocks")
      ELSE IF i >= NDirect + NEntry THEN Failed(s, "index_out_of_range")
      ELSE IF i < s.ino.blocks THEN s
      ELSE IF t.err # "none" THEN t
      ELSE [t EXCEPT !.ino.blocks = @ + 1]

\* Mutant: the block goes, and is still counted.
DropUncounted(s) ==
  LET i == s.ino.blocks - 1
      t == [BlockFree(s, BlockAt(s.ino, s.data, i)) EXCEPT !.dirty = TRUE]
  IN  IF i < NDirect THEN [t EXCEPT !.ino.direct[i] = 0]
      ELSE [t EXCEPT !.data[s.ino.indirect][i - NDirect] = 0]

\* sfs_bmap_truncate_nolock: the last block goes.  The indirect block stays.
Drop(s) ==
  LET i == s.ino.blocks - 1
      t == [BlockFree(s, BlockAt(s.ino, s.data, i)) EXCEPT !.ino.blocks = i, !.dirty = TRUE]
  IN  IF i < NDirect THEN [t EXCEPT !.ino.direct[i] = 0]
      ELSE [t EXCEPT !.data[s.ino.indirect][i - NDirect] = 0]

\* sfs_truncfile.  When it fails the blocks it got stay with the file.
TruncFile(s, len) ==
  LET n    == s.ino.blocks
      more == Loop(s, Ceil(len) - n, LAMBDA u, k : Load(u, n + k))
      less == Loop(s, n - Ceil(len), LAMBDA u, k : Drop(u))
      t    == IF n < Ceil(len) THEN more ELSE less
  IN  IF s.ino.size = len
        THEN IF n = Ceil(len) THEN s ELSE Failed(s, "blocks_not_of_size")
      ELSE IF t.err # "none" THEN t
      ELSE [t EXCEPT !.ino.size = len, !.dirty = TRUE]

Least(m, n) == IF m < n THEN m ELSE n

\* One round of the loop of sfs_io_nolock, from pos to end in block i.  Bytes that are
\* read go to the caller; v is stored if they are written.
IoBlock(s, i, pos, end, write, v) ==
  LET t == Load(s, i)
      b == BlockAt(t.ino, t.data, i)
      upTo == Least(end, (i + 1) * BlkSize)
  IN  IF t.err # "none" THEN t
      ELSE [t EXCEPT !.done = upTo - pos,
                     !.data[b] = [c \in Cells |-> IF write /\ i * BlkSize + c \in pos..upTo-1
                                                    THEN v ELSE @[c]]]

IoBlocks(s, pos, end, write, v) ==
  LET first == pos \div BlkSize
  IN  Loop(s, Ceil(end) - first, LAMBDA u, k : IoBlock(u, first + k, pos, end, write, v))

\* sfs_io_nolock, reading.  A block that the size promises and the map lacks is created.
ReadAt(s, pos, len) ==
  IF pos >= s.ino.size THEN s ELSE IoBlocks(s, pos, Least(pos + len, s.ino.size), FALSE, 0)

\* sfs_io_nolock, writing.  What was written before a failure counts, and the size grows
\* up to pos even if that is nothing.
WriteAt(s, pos, len, v) ==
  LET t == IoBlocks(s, pos, Least(pos + len, MaxSize), TRUE, v)
  IN  IF pos >= MaxSize THEN s
      ELSE IF pos + t.done > t.ino.size
        THEN [t EXCEPT !.ino.size = pos + t.done, !.dirty = TRUE]
      ELSE t

-----------------------------------------------------------------------------
(* The system calls on a regular file. *)

Panics == {"index_beyond_blocks", "index_out_of_range", "blocks_not_of_size"}

\* The call ends with file f and the disk as in view s, and the descriptors as in nfds.
Finish(f, s, nfds) ==
  IF s.err \in Panics
    THEN panic' = s.err /\ UNCHANGED <<free, map, super_dirty, data, din, disk, dirty, fds>>
    ELSE /\ free' = s.free /\ super_dirty' = s.super /\ data' = s.data
         /\ map' = IF s.super THEN {} ELSE map
         /\ din' = [din EXCEPT ![f] = s.ino]
         /\ dirty' = IF s.dirty THEN dirty \cup {f} ELSE dirty
         /\ disk' = IF s.dirty THEN [disk EXCEPT ![f] = Outdated] ELSE disk
         /\ fds' = nfds
         /\ UNCHANGED panic

\* file_open of an existing file.  It is emptied for O_TRUNC, which needs a writable
\* descriptor, and for O_CREAT, which does not.
Open(d, f, acc, empty, append) ==
  /\ fds[d] = Closed
  /\ LET s == IF empty THEN TruncFile(View(f), 0) ELSE View(f)
     IN  Finish(f, s, [fds EXCEPT ![d] =
           [file |-> f, pos |-> IF append THEN s.ino.size ELSE 0,
            readable |-> acc # "O_WRONLY", writable |-> acc # "O_RDONLY"]])

\* Mutant: the inode goes with the last descriptor, and is not written.
EvictUnsaved(f) ==
  /\ din' = [din EXCEPT ![f] = disk[f]]
  /\ dirty' = dirty \ {f}
  /\ UNCHANGED disk

\* The last descriptor of f goes: sfs_close writes a dirty inode, sfs_reclaim drops it.
Evict(f) ==
  /\ disk' = IF f \in dirty THEN [disk EXCEPT ![f] = din[f]] ELSE disk
  /\ dirty' = dirty \ {f}
  /\ din' = [din EXCEPT ![f] = disk'[f]]

Close(d) ==
  LET f == fds[d].file
  IN  /\ IF \E e \in Fds \ {d} : fds[e].file = f
           THEN UNCHANGED <<din, disk, dirty>> ELSE Evict(f)
      /\ fds' = [fds EXCEPT ![d] = Closed]
      /\ UNCHANGED <<free, map, super_dirty, data, panic>>

\* file_dup, and the copy of a table that fork makes: a position of its own.
Dup(d, e) ==
  /\ fds[e] = Closed
  /\ fds' = [fds EXCEPT ![e] = fds[d]]
  /\ UNCHANGED <<free, map, super_dirty, data, din, disk, dirty, panic>>

Read(d, len) ==
  /\ fds[d].readable
  /\ LET s == ReadAt(View(fds[d].file), fds[d].pos, len)
     IN  Finish(fds[d].file, s, [fds EXCEPT ![d].pos = @ + s.done])

Write(d, len, v) ==
  /\ fds[d].writable
  /\ LET s == WriteAt(View(fds[d].file), fds[d].pos, len, v)
     IN  Finish(fds[d].file, s, [fds EXCEPT ![d].pos = @ + s.done])

\* file_seek and sfs_tryseek, which refuses MaxSize and more.  To seek beyond the end
\* makes the file longer, even through a descriptor that is not writable.
Seek(d, p) ==
  LET f == fds[d].file
      s == IF p > din[f].size THEN TruncFile(View(f), p) ELSE View(f)
  IN  Finish(f, s, IF s.err = "none" THEN [fds EXCEPT ![d].pos = p] ELSE fds)

Fsync(d) ==
  LET f == fds[d].file
  IN  /\ f \in dirty
      /\ disk' = [disk EXCEPT ![f] = din[f]]
      /\ dirty' = dirty \ {f}
      /\ UNCHANGED <<free, map, super_dirty, data, din, fds, panic>>

\* Every process has ended, and its descriptors with it: initproc calls fs_cleanup, which
\* gets to sfs_sync.  No inode is left in memory but that of the root.  The next start
\* mounts what is on disk.
Restart ==
  /\ \A d \in Fds : fds[d] = Closed
  /\ map' = IF super_dirty THEN free ELSE map
  /\ free' = map' /\ super_dirty' = FALSE
  /\ din' = disk
  /\ UNCHANGED <<data, disk, dirty, fds, panic>>

Init ==
  /\ free = Blocks /\ map = free /\ super_dirty = FALSE
  /\ data = [b \in Blocks |-> Stale]
  /\ din = [f \in Files |-> EmptyInode] /\ disk = din /\ dirty = {}
  /\ fds = [d \in Fds |-> Closed] /\ panic = "none"

Syscall(d) ==
  \/ \E f \in Files, acc \in AccModes, empty, append \in BOOLEAN :
       Open(d, f, acc, empty, append)
  \/ /\ fds[d] # Closed
     /\ \/ Close(d)
        \/ \E e \in Fds : Dup(d, e)
        \/ \E len \in 1..MaxLen : Read(d, len)
        \/ \E len \in 1..MaxLen, v \in Vals : Write(d, len, v)
        \/ \E p \in 0..MaxSize-1 : Seek(d, p)
        \/ Fsync(d)

\* panic() runs the kernel monitor for ever.
Stopped == panic # "none" /\ UNCHANGED vars

Next == Stopped \/ (panic = "none" /\ (Restart \/ \E d \in Fds : Syscall(d)))

Spec == Init /\ [][Next]_vars

\* An inode that is not marked is the one on disk (sfs.h:72): dropping it loses nothing.
DirtyIfModified == \A f \in Files \ dirty : din[f] = disk[f]

\* The machine as long as no operation leaves an inode modified and unmarked.  One that
\* does loses a block of the file; then neither this block nor what the file reads like
\* once it grows again is as promised.
SpecMarked == Init /\ [][Next /\ DirtyIfModified']_vars

-----------------------------------------------------------------------------
(* Properties. *)

TypeOK ==
  /\ free \subseteq Blocks /\ map \subseteq Blocks /\ super_dirty \in BOOLEAN
  /\ data \in [Blocks -> [Cells -> Nat]]
  /\ {din, disk} \subseteq [Files -> [size : 0..MaxSize, blocks : 0..NDirect+NEntry,
                                      direct : [0..NDirect-1 -> Blocks \cup {0}],
                                      indirect : Blocks \cup {0}]]
  /\ dirty \subseteq {fds[d].file : d \in Fds}
  /\ panic \in Panics \cup {"none"}
  /\ \A d \in Fds : fds[d] = Closed \/
       fds[d] \in [file : Files, pos : 0..MaxSize, readable : BOOLEAN, writable : BOOLEAN]

\* Places that may hold a block number of file f: the block map, and behind it the
\* pointer to the indirect block.
Indirect == NDirect + NEntry

Held(f, x) == IF x = Indirect THEN din[f].indirect ELSE BlockAt(din[f], data, x)

AllPlaces == {p \in Files \X (0..Indirect) : Held(p[1], p[2]) # 0}

\* Whatever is opened, written, truncated, evicted and loaded again, and wherever an
\* allocation fails half way: no block belongs to two places, none in use is free
\* and none that is not free is lost.
BlocksOwnedOnce ==
  /\ \A p, q \in AllPlaces : Held(p[1], p[2]) = Held(q[1], q[2]) => p = q
  /\ free = Blocks \ {Held(p[1], p[2]) : p \in AllPlaces}

\* fs_cleanup, sfs_do_mount: when the last process has ended and the machine is started
\* again, it finds the files and the free map as they were, although no inode is written
\* then but those that the last close had to write, and the free map only if marked.
FoundAgain == [][Restart => din' = din /\ free' = free]_vars

\* The assertions sfs_block_inuse(ino) of the block map: every block below a file's
\* number of blocks is there, also after that number has shrunk and grown again.
BlocksMapped ==
  \A f \in Files : \A i \in 0..din[f].blocks-1 : BlockAt(din[f], data, i) \in Blocks

\* What is read beyond the end after the file has grown again is zero: the rest of
\* the last block and blocks that a failed call left were cleared.
ZeroBeyondEnd ==
  \A f \in Files : \A i \in din[f].size..din[f].blocks*BlkSize-1 :
    data[BlockAt(din[f], data, i \div BlkSize)][i % BlkSize] = 0

\* The bytes sfs_io_nolock reads from file f.  A block that is missing is created then.
Content(f) == [i \in 1..din[f].size |->
  LET b == BlockAt(din[f], data, (i - 1) \div BlkSize)
  IN  IF b = 0 THEN 0 ELSE data[b][(i - 1) % BlkSize]]

\* Files that could not get all the blocks a file may have.
Short == {f \in Files : Cardinality(free) < Ceil(MaxSize) - din[f].blocks
                           + (IF din[f].indirect = 0 THEN 1 ELSE 0)}

Flat == INSTANCE FlatFile WITH content <- [f \in Files |-> Content(f)], full <- Short

\* Files behave as sequences of bytes: no write reaches another file or another part
\* of the file, nothing is lost when the last descriptor goes and the inode is read
\* again, and files that grow are filled with zeros.
ImplementsFlatFile == Flat!Spec

\* The assertions and panics of the code on the way never stop the machine
\* (sfs_inode.c:356, 286, 952).
AssertionsHold == panic = "none"
=============================================================================
