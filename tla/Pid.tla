-------------------------------- MODULE Pid --------------------------------
(***************************************************************************)
(* The numbers of processes: get_pid of proc.c, step by step, with the     *)
(* list of processes it searches.  do_fork calls it and links the new      *)
(* process with interrupts off, so that nothing comes between its steps;   *)
(* last_pid and next_safe are static and stay from one call to the next.   *)
(***************************************************************************)
EXTENDS Integers, SequencesExt

CONSTANTS
  Procs,       \* process slots
  init,        \* initproc
  MaxPid,      \* MAX_PID
  MaxProcess   \* MAX_PROCESS, which counts idleproc too

\* The static assertion of get_pid.
ASSUME PidAssumption ==
  init \in Procs /\ {MaxPid, MaxProcess} \subseteq Nat /\ 1 < MaxProcess /\ MaxProcess < MaxPid

VARIABLES
  list,       \* proc_list, the newest process first
  pid,        \* the pid of each process, 0 for a slot that is not in use
  new,        \* the process that get_pid is called for, else init
  last_pid,
  next_safe,
  at          \* the place in list that get_pid looks at, 0 when it is not running

pidVars == <<list, pid, new, last_pid, next_safe, at>>

\* do_fork calls get_pid for c: it goes through the list only if the next number is not
\* known to be free.
BeginPid(c) ==
  /\ at = 0 /\ pid[c] = 0 /\ Len(list) + 1 < MaxProcess
  /\ new' = c
  /\ LET l == last_pid + 1
     IN  \/ /\ l >= MaxPid
            /\ last_pid' = 1 /\ next_safe' = MaxPid /\ at' = 1
         \/ /\ next_safe <= l /\ l < MaxPid
            /\ last_pid' = l /\ next_safe' = MaxPid /\ at' = 1
         \/ /\ l < MaxPid /\ l < next_safe
            /\ last_pid' = l /\ at' = Len(list) + 1
            /\ UNCHANGED next_safe
  /\ UNCHANGED <<list, pid>>

\* Mutant: the search does not start again.
TakenOnce ==
  /\ pid[list[at]] = last_pid
  /\ last_pid' = IF last_pid + 1 >= MaxPid THEN 1 ELSE last_pid + 1
  /\ next_safe' = IF last_pid + 1 >= next_safe THEN MaxPid ELSE next_safe
  /\ at' = at + 1

\* Mutant: the search starts again with the first number.
TakenAnew ==
  /\ pid[list[at]] = last_pid
  /\ IF last_pid + 1 < next_safe
       THEN last_pid' = last_pid + 1 /\ at' = at + 1 /\ UNCHANGED next_safe
       ELSE last_pid' = 1 /\ next_safe' = MaxPid /\ at' = 1

\* The number is taken: the next one, and the search goes on; once it reaches next_safe
\* it starts again.
Taken ==
  LET l == last_pid + 1
  IN  /\ pid[list[at]] = last_pid
      /\ \/ /\ l < next_safe
            /\ last_pid' = l /\ at' = at + 1
            /\ UNCHANGED next_safe
         \/ /\ l >= next_safe
            /\ last_pid' = IF l >= MaxPid THEN 1 ELSE l
            /\ next_safe' = MaxPid /\ at' = 1

\* The number is not that of the process: what lies below the process's stays safe.
NotTaken ==
  LET q == pid[list[at]]
  IN  /\ q # last_pid
      /\ next_safe' = IF last_pid < q /\ q < next_safe THEN q ELSE next_safe
      /\ at' = at + 1
      /\ UNCHANGED last_pid

Scan == at \in 1..Len(list) /\ (Taken \/ NotTaken) /\ UNCHANGED <<list, pid, new>>

\* get_pid returns, and do_fork links the process: hash_proc and set_links.
Link ==
  /\ at = Len(list) + 1
  /\ pid' = [pid EXCEPT ![new] = last_pid]
  /\ list' = <<new>> \o list
  /\ at' = 0 /\ new' = init
  /\ UNCHANGED <<last_pid, next_safe>>

\* do_wait takes a process from the list: unhash_proc and remove_links.
Unlink(c) ==
  /\ at = 0 /\ c # init
  /\ \E i \in DOMAIN list : list[i] = c /\ list' = RemoveAt(list, i)
  /\ pid' = [pid EXCEPT ![c] = 0]
  /\ UNCHANGED <<new, last_pid, next_safe, at>>

\* initproc has been created.
PidInit ==
  /\ list = <<init>>
  /\ pid = [p \in Procs |-> IF p = init THEN 1 ELSE 0]
  /\ new = init
  /\ last_pid = 1 /\ next_safe = MaxPid /\ at = 0

PidNext == (\E c \in Procs : BeginPid(c) \/ Unlink(c)) \/ Scan \/ Link

PidSpec == PidInit /\ [][PidNext]_pidVars

-----------------------------------------------------------------------------
(* Properties. *)

PidTypeOK ==
  /\ list \in Seq(Procs)
  /\ pid \in [Procs -> 0..MaxPid-1]
  /\ new \in Procs
  /\ last_pid \in 1..MaxPid-1 /\ next_safe \in 2..MaxPid
  /\ at \in 0..Len(list) + 1

\* proc.c, "alloc a unique pid for process": no two processes have the same pid, zombies
\* included, also after the numbers have wrapped and next_safe has been kept over calls.
PidsUnique ==
  \A i, j \in DOMAIN list : pid[list[i]] = pid[list[j]] => i = j

\* get_pid, which may start again and again, returns: there are more numbers than
\* processes.
GetPidReturns == (at # 0) ~> (at = 0)
=============================================================================
