------------------------------- MODULE Files -------------------------------
(***************************************************************************)
(* The open files of processes: the tables of file.c and fs.c, the inodes  *)
(* of inode.c that they refer to, and the calls of vfsfile.c, vfspath.c    *)
(* and proc.c that take and drop references, with the processes and their  *)
(* numbers of Pid.                                                         *)
(*                                                                         *)
(* Processes never share a table (sys_fork passes no flags): files_count   *)
(* is 1.  A call that sleeps, reading the keyboard, holds its descriptor   *)
(* with open_count 2 meanwhile, which no other process can see; the calls  *)
(* that take and drop a reference of their own leave nothing and are Use.  *)
(***************************************************************************)
EXTENDS Pid

CONSTANTS
  NEntry,    \* FILES_STRUCT_NENTRY
  Std,       \* descriptors that execve keeps: 2 in the code
  root,      \* the root directory
  Dirs,      \* directories
  Regular,   \* regular files
  Devs,      \* character devices that can only be read, such as stdin
  None,      \* no inode
  MaxLost    \* bound: references lost of an inode

ASSUME FilesAssumption ==
  /\ {NEntry, Std, MaxLost} \subseteq Nat /\ Std < NEntry
  /\ root \in Dirs /\ None \notin Dirs \cup Regular \cup Devs

VARIABLES
  file,     \* the inode of each OPENED descriptor of a process; <<>> without filesp
  pwd,      \* its working directory
  node,     \* [ref, open] of each inode: ref_count and open_count
  lost,     \* history: the references to an inode that nobody will drop
  stopped   \* "no", or the assertion that stopped the kernel

fileVars == <<file, pwd, node, lost, stopped>>
vars     == <<pidVars, fileVars>>

Inodes == Dirs \cup Regular \cup Devs
Fds    == 0..NEntry-1
Closed == [fd \in Fds |-> None]

-----------------------------------------------------------------------------
(* Operators on m = [node, err].  A SFS inode is in memory while it has references; *)
(* the last vop_ref_dec reclaims it, for which its open_count has to be 0.          *)

RefInc(m, i)  == [m EXCEPT !.node[i].ref = @ + 1]
OpenInc(m, i) == [m EXCEPT !.node[i].open = @ + 1]
OpenDec(m, i) == IF m.node[i].open = 0 THEN [m EXCEPT !.err = "inode_open_dec"]
                                       ELSE [m EXCEPT !.node[i].open = @ - 1]
RefDec(m, i)  == IF m.node[i].ref = 0 THEN [m EXCEPT !.err = "inode_ref_dec"]
                 ELSE IF m.node[i].ref = 1 /\ m.node[i].open > 0 THEN [m EXCEPT !.err = "inode_kill"]
                 ELSE [m EXCEPT !.node[i].ref = @ - 1]

VfsClose(m, i) == RefDec(OpenDec(m, i), i)
Dup(m, i)      == OpenInc(RefInc(m, i), i)

\* The loops over a table t: fd_array_close of the descriptors fds, fd_array_dup of all.
CloseFds(m, t, fds) ==
  LET upto[k \in 0..NEntry] ==
        IF k = 0 THEN m
        ELSE IF k - 1 \in fds /\ t[k - 1] # None THEN VfsClose(upto[k - 1], t[k - 1])
        ELSE upto[k - 1]
  IN  upto[NEntry]
DupFds(m, t) ==
  LET upto[k \in 0..NEntry] ==
        IF k = 0 THEN m
        ELSE IF t[k - 1] # None THEN Dup(upto[k - 1], t[k - 1]) ELSE upto[k - 1]
  IN  upto[NEntry]

\* Mutant: the working directory is not dropped.
FilesDestroyFds(m, t, dir) == CloseFds(m, t, Fds)

\* files_destroy of a process with table t and working directory dir.
FilesDestroy(m, t, dir) == CloseFds(IF dir = None THEN m ELSE RefDec(m, dir), t, Fds)

\* dup_files.
DupFiles(m, t, dir) == DupFds(IF dir = None THEN m ELSE RefInc(m, dir), t)

\* vfs_open of an inode that vfs_lookup has found, with the flags as a record: node is
\* the state of the inodes after it, ok whether it opened, leak whether the reference
\* that vfs_lookup took is forgotten.  Neither directories nor devices have vop_truncate.
OpenRefused(i, flags) ==
  \/ i \in Dirs /\ (flags.write \/ flags.append)
  \/ i \in Devs /\ (flags.write \/ flags.append \/ flags.creat \/ flags.trunc \/ flags.excl)
VfsOpen(m, i, flags) ==
  LET found == RefInc(m, i)
      Ends(n, ok, leak) == [node |-> n.node, err |-> n.err, ok |-> ok, leak |-> leak]
  IN  IF flags.excl /\ flags.creat THEN Ends(found, FALSE, TRUE)
      ELSE IF OpenRefused(i, flags) THEN Ends(RefDec(found, i), FALSE, FALSE)
      ELSE IF (flags.trunc \/ flags.creat) /\ i \notin Regular
        THEN Ends([found EXCEPT !.err = "vop_truncate"], FALSE, FALSE)
      ELSE Ends(OpenInc(found, i), TRUE, FALSE)

\* fd_array_alloc without a wish.
FreeFds(t) == {fd \in Fds : t[fd] = None}

-----------------------------------------------------------------------------
Nodes == [node |-> node, err |-> "no"]

\* The kernel goes on with the inodes of m, or an assertion stops it.
Commit(m) ==
  IF m.err = "no" THEN node' = m.node /\ UNCHANGED stopped
                  ELSE stopped' = m.err /\ UNCHANGED node

\* Processes with files, and those that make system calls: initproc only forks and waits.
Alive == {p \in Procs : file[p] # <<>>}
User  == {p \in Alive \ {init} : at = 0}

\* do_fork: copy_files, then get_pid.
Fork(p, c) ==
  LET m == DupFiles(Nodes, file[p], pwd[p])
  IN  /\ at = 0 /\ p \in Alive /\ file[c] = <<>>
      /\ BeginPid(c)
      /\ Commit(m)
      /\ file' = [file EXCEPT ![c] = file[p]]
      /\ pwd' = [pwd EXCEPT ![c] = pwd[p]]
      /\ UNCHANGED lost

\* file_open of an inode that exists.
Open(p, i, flags) ==
  LET m == VfsOpen(Nodes, i, flags)
  IN  /\ p \in User /\ FreeFds(file[p]) # {}
      /\ flags.trunc => flags.write
      /\ Commit(m)
      /\ lost[i] + 1 <= MaxLost \/ ~m.leak
      /\ lost' = IF m.leak THEN [lost EXCEPT ![i] = @ + 1] ELSE lost
      /\ file' = IF m.ok THEN [file EXCEPT ![p][Min(FreeFds(file[p]))] = i] ELSE file
      /\ UNCHANGED <<pwd, pidVars>>

\* file_open with O_CREAT of a name that is not there: no directory has vop_create.
OpenCreate(p) ==
  /\ p \in User /\ FreeFds(file[p]) # {}
  /\ stopped' = "vop_create"
  /\ UNCHANGED <<file, pwd, node, lost, pidVars>>

\* file_close.
Close(p, fd) ==
  /\ p \in User /\ file[p][fd] # None
  /\ Commit(VfsClose(Nodes, file[p][fd]))
  /\ file' = [file EXCEPT ![p][fd] = None]
  /\ UNCHANGED <<pwd, lost, pidVars>>

\* file_dup: to a free descriptor, or to the first that is free.
FileDup(p, fd, to) ==
  /\ p \in User /\ file[p][fd] # None /\ file[p][to] = None
  /\ Commit(Dup(Nodes, file[p][fd]))
  /\ file' = [file EXCEPT ![p][to] = file[p][fd]]
  /\ UNCHANGED <<pwd, lost, pidVars>>

\* vfs_chdir: vfs_lookup takes a reference, vfs_set_curdir another one and drops that of
\* the old directory, and the first one is dropped.
Chdir(p, i) ==
  LET m   == RefInc(Nodes, i)
      set == i \in Dirs /\ i # pwd[p]
  IN  /\ p \in User
      /\ Commit(RefDec(IF set THEN RefDec(RefInc(m, i), pwd[p]) ELSE m, i))
      /\ pwd' = IF set THEN [pwd EXCEPT ![p] = i] ELSE pwd
      /\ UNCHANGED <<file, lost, pidVars>>

\* Calls on an open descriptor: file_read, file_write, file_seek, file_fsync and
\* file_getdirentry hand on to the inode; __vop_op stops the kernel when the kind of
\* inode has no such operation.
Lacks(i, op) ==
  \/ i \in Dirs /\ op \in {"read", "seek"}
  \/ i \in Regular /\ op = "getdirentry"
  \/ i \in Devs /\ op \in {"fsync", "getdirentry"}
Use(p, fd, op) ==
  /\ p \in User /\ file[p][fd] # None
  /\ Lacks(file[p][fd], op)
  /\ stopped' = op
  /\ UNCHANGED <<file, pwd, node, lost, pidVars>>

\* do_exit: put_files for table t.
Exiting(p, m, t) ==
  /\ Commit(FilesDestroy(m, t, pwd[p]))
  /\ file' = [file EXCEPT ![p] = <<>>]
  /\ pwd' = [pwd EXCEPT ![p] = None]

Exit(p) ==
  /\ p \in User
  /\ Exiting(p, Nodes, file[p])
  /\ UNCHANGED <<lost, pidVars>>

\* do_execve: files_closeall, sysfile_open of the program, load_icode, which closes the
\* program once it is loaded; the process ends when it cannot be opened or loaded.
Read == [write |-> FALSE, creat |-> FALSE, excl |-> FALSE, trunc |-> FALSE, append |-> FALSE]
Kept(t) == [fd \in Fds |-> IF fd < Std THEN t[fd] ELSE None]
Exec(p, i, loads) ==
  LET kept   == Kept(file[p])
      closed == CloseFds(Nodes, file[p], Std..NEntry-1)
      fd     == Min(FreeFds(kept))
      opened == VfsOpen(closed, i, Read)
  IN  /\ p \in User
      /\ loads => i \in Regular
      /\ \/ /\ i \in Dirs
            /\ Commit([opened EXCEPT !.err = "seek"])
            /\ UNCHANGED <<file, pwd>>
         \/ /\ i \notin Dirs /\ loads
            /\ Commit(VfsClose(opened, i))
            /\ file' = [file EXCEPT ![p] = kept]
            /\ UNCHANGED pwd
         \/ /\ i \notin Dirs /\ ~loads
            /\ Exiting(p, opened, [kept EXCEPT ![fd] = i])
      /\ UNCHANGED <<lost, pidVars>>

\* do_execve of a name that is not there.
ExecMissing(p) ==
  /\ p \in User
  /\ Exiting(p, CloseFds(Nodes, file[p], Std..NEntry-1), Kept(file[p]))
  /\ UNCHANGED <<lost, pidVars>>

\* do_wait: the process is a zombie and leaves the list.
Reap(p) ==
  /\ file[p] = <<>>
  /\ Unlink(p)
  /\ UNCHANGED fileVars

\* initproc has set the file system to start from, in which it is itself.
Init ==
  /\ PidInit
  /\ file = [p \in Procs |-> IF p = init THEN Closed ELSE <<>>]
  /\ pwd = [p \in Procs |-> IF p = init THEN root ELSE None]
  /\ node = [i \in Inodes |-> [ref  |-> IF i = root THEN 2 ELSE IF i \in Devs THEN 1 ELSE 0,
                               open |-> 0]]
  /\ lost = [i \in Inodes |-> 0]
  /\ stopped = "no"

Next ==
  /\ stopped = "no"
  /\ \/ (Scan \/ Link) /\ UNCHANGED fileVars
     \/ \E p \in Procs :
          \/ \E c \in Procs : Fork(p, c)
          \/ \E i \in Inodes, flags \in [DOMAIN Read -> BOOLEAN] : Open(p, i, flags)
          \/ \E fd \in Fds : Close(p, fd)
          \/ \E fd, to \in Fds : FileDup(p, fd, to)
          \/ \E fd \in Fds, op \in {"read", "seek", "fsync", "getdirentry"} : Use(p, fd, op)
          \/ \E i \in Inodes : Chdir(p, i)
          \/ \E i \in Inodes, loads \in BOOLEAN : Exec(p, i, loads)
          \/ OpenCreate(p) \/ ExecMissing(p) \/ Exit(p) \/ Reap(p)

\* The kernel runs get_pid to its end, with interrupts off.
Spec == Init /\ [][Next]_vars /\ WF_vars((Scan \/ Link) /\ UNCHANGED fileVars)

-----------------------------------------------------------------------------
(* Properties. *)

\* file.c, fs.c, inode.c: the counts of an inode are its users.  Each open descriptor
\* counts in both, each working directory in ref_count, bootfs_node for the root, and a
\* device is kept by the list of devices.  What open with O_CREAT and O_EXCL returns
\* E_EXISTS for keeps a reference for ever; nothing else is lost by a call that fails, an
\* execve or an exit.
Counted ==
  \A i \in Inodes :
    LET fds  == {d \in Procs \X Fds : file[d[1]] # <<>> /\ file[d[1]][d[2]] = i}
        dirs == {p \in Procs : pwd[p] = i}
    IN  /\ node[i].open = Cardinality(fds)
        /\ node[i].ref = Cardinality(fds) + Cardinality(dirs) + lost[i]
                         + (IF i = root \/ i \in Devs THEN 1 ELSE 0)
=============================================================================
