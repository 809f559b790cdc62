---------------------------- MODULE FilesProofs ----------------------------
(***************************************************************************)
(* Three results about Files and the pid allocator under it.               *)
(*                                                                         *)
(* get_pid never returns a number that is in use, for any number of        *)
(* processes and pids.  The reason is what next_safe and the search stand  *)
(* for: none of the processes looked at so far, of all of them while no    *)
(* search runs, has a number between last_pid and next_safe (PidInv).      *)
(*                                                                         *)
(* The processes of Files are those of Pid, so that this holds of them,    *)
(* whatever they do with their files (PidStep).                            *)
(*                                                                         *)
(* The counts of every inode are its users: FilesInv says so of the set of *)
(* descriptors open on each inode and the number of its other references,  *)
(* each operation adds or takes one of them (FitsSteps), the loops of fork *)
(* and exit do so for each place of a table (CloseFdsFits, DupFdsFits),    *)
(* and each system call is a composition of these.                         *)
(***************************************************************************)
EXTENDS Files, FiniteSetTheorems, TLAPS

\* The places of list that have been looked at: all of them between two calls.
Seen == {i \in DOMAIN list : at = 0 \/ i < at}

\* No process looked at has a number between last_pid and next_safe; while get_pid runs
\* none has last_pid itself, and the process it runs for is not yet in the list.
Gap ==
  /\ last_pid < next_safe
  /\ \A i \in Seen : pid[list[i]] <= last_pid \/ next_safe <= pid[list[i]]
  /\ at # 0 => /\ \A i \in Seen : pid[list[i]] # last_pid
               /\ \A i \in DOMAIN list : list[i] # new

Listed == \A i \in DOMAIN list : pid[list[i]] # 0

PidInv == PidTypeOK /\ PidsUnique /\ Gap /\ Listed

-----------------------------------------------------------------------------
\* At the start init is alone in the list.
LEMMA InitInv == PidInit => PidInv
<1> SUFFICES ASSUME PidInit PROVE PidInv
  OBVIOUS
<1> USE PidAssumption DEF PidInit
<1>1. list \in Seq(Procs) /\ Len(list) = 1 /\ DOMAIN list = {1} /\ list[1] = init
  OBVIOUS
<1>2. PidTypeOK
  BY <1>1 DEF PidTypeOK
<1>3. PidsUnique /\ Gap /\ Listed
  BY <1>1 DEF PidsUnique, Gap, Seen, Listed
<1> QED
  BY <1>2, <1>3 DEF PidInv

\* get_pid begins: nothing has been looked at, or the number is known to be free.
LEMMA BeginInv == ASSUME NEW c \in Procs, PidInv, BeginPid(c) PROVE PidInv'
<1> USE PidAssumption
<1>1. /\ list \in Seq(Procs) /\ Len(list) \in Nat /\ DOMAIN list = 1..Len(list)
      /\ \A i \in DOMAIN list : list[i] \in Procs /\ pid[list[i]] \in 1..MaxPid-1
  BY DEF PidInv, PidTypeOK, Listed
<1>2. at = 0 /\ pid[c] = 0 /\ new' = c /\ UNCHANGED <<list, pid>>
  BY DEF BeginPid
<1>3. \A i \in DOMAIN list : list[i] # c
  BY <1>1, <1>2
<1>4. PidsUnique' /\ Listed'
  BY <1>2 DEF PidInv, PidsUnique, Listed
<1>5. CASE last_pid + 1 >= MaxPid \/ next_safe <= last_pid + 1
  <2>1. /\ last_pid' \in 1..MaxPid-1 /\ next_safe' = MaxPid /\ at' = 1
    BY <1>5 DEF BeginPid, PidInv, PidTypeOK
  <2>2. PidTypeOK'
    BY <1>1, <1>2, <2>1 DEF PidInv, PidTypeOK
  <2>3. Seen' = {}
    BY <1>1, <1>2, <2>1 DEF Seen
  <2>4. Gap'
    BY <1>1, <1>2, <1>3, <2>1, <2>3 DEF Gap
  <2> QED
    BY <1>4, <2>2, <2>4 DEF PidInv
<1>6. CASE last_pid + 1 < MaxPid /\ last_pid + 1 < next_safe
  <2>1. last_pid' = last_pid + 1 /\ next_safe' = next_safe /\ at' = Len(list) + 1
    BY <1>6 DEF BeginPid, PidInv, PidTypeOK
  <2>2. PidTypeOK'
    BY <1>1, <1>2, <1>6, <2>1 DEF PidInv, PidTypeOK
  <2>3. \A i \in DOMAIN list : pid[list[i]] <= last_pid \/ next_safe <= pid[list[i]]
    BY <1>2 DEF PidInv, Gap, Seen
  <2>4. Gap'
    BY <1>1, <1>2, <1>3, <1>6, <2>1, <2>3 DEF Gap, Seen, PidInv, PidTypeOK
  <2> QED
    BY <1>4, <2>2, <2>4 DEF PidInv
<1> QED
  BY <1>5, <1>6 DEF PidInv, PidTypeOK

\* A step of the search looks at one more process, or starts again.
LEMMA ScanInv == ASSUME PidInv, Scan PROVE PidInv'
<1> USE PidAssumption
<1>1. /\ list \in Seq(Procs) /\ Len(list) \in Nat /\ DOMAIN list = 1..Len(list)
      /\ \A i \in DOMAIN list : list[i] \in Procs /\ pid[list[i]] \in 1..MaxPid-1
      /\ last_pid \in 1..MaxPid-1 /\ next_safe \in 2..MaxPid
  BY DEF PidInv, PidTypeOK, Listed
<1>2. at \in 1..Len(list) /\ UNCHANGED <<list, pid, new>>
  BY DEF Scan
<1>3. PidsUnique' /\ Listed'
  BY <1>2 DEF PidInv, PidsUnique, Listed
<1>4. Seen = 1..at-1
  BY <1>1, <1>2 DEF Seen
<1>5. /\ last_pid < next_safe
      /\ \A i \in 1..at-1 : pid[list[i]] < last_pid \/ next_safe <= pid[list[i]]
      /\ \A i \in DOMAIN list : list[i] # new
  <2>1. at # 0
    BY <1>1, <1>2
  <2>2. /\ last_pid < next_safe
        /\ \A i \in 1..at-1 : /\ pid[list[i]] <= last_pid \/ next_safe <= pid[list[i]]
                             /\ pid[list[i]] # last_pid
        /\ \A i \in DOMAIN list : list[i] # new
    BY <1>4, <2>1 DEF PidInv, Gap
  <2>3. \A i \in 1..at-1 : pid[list[i]] \in Int /\ last_pid \in Int
    BY <1>1, <1>2
  <2> QED
    BY <2>2, <2>3
<1>6. CASE Taken /\ last_pid + 1 < next_safe
  <2>1. /\ pid[list[at]] = last_pid /\ last_pid' = last_pid + 1 /\ at' = at + 1
        /\ next_safe' = next_safe
    BY <1>1, <1>6 DEF Taken
  <2>2. PidTypeOK'
    BY <1>1, <1>2, <1>6, <2>1 DEF PidInv, PidTypeOK
  <2>3. Seen' = 1..at
    BY <1>1, <1>2, <2>1 DEF Seen
  <2>4. \A i \in 1..at : pid[list[i]] < last_pid' \/ next_safe' <= pid[list[i]]
    BY <1>1, <1>2, <1>5, <2>1
  <2>5. last_pid' < next_safe' /\ last_pid' \in Int /\ next_safe' \in Int
    BY <1>1, <1>6, <2>1
  <2>6. \A i \in 1..at : /\ pid[list[i]] <= last_pid' \/ next_safe' <= pid[list[i]]
                        /\ pid[list[i]] # last_pid'
    BY <1>1, <1>2, <2>4, <2>5
  <2>7. Gap'
    BY <1>2, <1>5, <2>3, <2>5, <2>6 DEF Gap
  <2> QED
    BY <1>3, <2>2, <2>7 DEF PidInv
<1>7. CASE Taken /\ last_pid + 1 >= next_safe
  <2>1. last_pid' \in 1..MaxPid-1 /\ next_safe' = MaxPid /\ at' = 1
    BY <1>1, <1>7 DEF Taken
  <2>2. PidTypeOK'
    BY <1>1, <1>2, <2>1 DEF PidInv, PidTypeOK
  <2>3. Seen' = {}
    BY <1>1, <1>2, <2>1 DEF Seen
  <2>4. Gap'
    BY <1>2, <1>5, <2>1, <2>3 DEF Gap
  <2> QED
    BY <1>3, <2>2, <2>4 DEF PidInv
<1>8. CASE NotTaken
  <2> DEFINE q == pid[list[at]]
  <2>1. /\ q # last_pid /\ at' = at + 1 /\ last_pid' = last_pid
        /\ next_safe' = IF last_pid < q /\ q < next_safe THEN q ELSE next_safe
    BY <1>8 DEF NotTaken
  <2>2. q \in 1..MaxPid-1
    BY <1>1, <1>2
  <2>3. next_safe' \in 2..MaxPid /\ last_pid' < next_safe' /\ next_safe' <= next_safe
    BY <1>1, <1>5, <2>1, <2>2
  <2>4. PidTypeOK'
    BY <1>1, <1>2, <2>1, <2>3 DEF PidInv, PidTypeOK
  <2>5. Seen' = 1..at
    BY <1>1, <1>2, <2>1 DEF Seen
  <2>6. \A i \in 1..at : pid[list[i]] < last_pid \/ next_safe' <= pid[list[i]]
    BY <1>1, <1>2, <1>5, <2>1, <2>2, <2>3
  <2>7. \A i \in 1..at : /\ pid[list[i]] <= last_pid \/ next_safe' <= pid[list[i]]
                        /\ pid[list[i]] # last_pid
    BY <1>1, <1>2, <1>5, <2>1, <2>6
  <2>8. Gap'
    BY <1>2, <1>5, <2>1, <2>3, <2>5, <2>7 DEF Gap
  <2> QED
    BY <1>3, <2>4, <2>8 DEF PidInv
<1> QED
  BY <1>1, <1>6, <1>7, <1>8 DEF Scan

\* The process is linked: the search has seen the whole list, so its number is new.
LEMMA LinkInv == ASSUME PidInv, Link PROVE PidInv'
<1> USE PidAssumption
<1>1. /\ list \in Seq(Procs) /\ Len(list) \in Nat /\ DOMAIN list = 1..Len(list)
      /\ \A i \in DOMAIN list : list[i] \in Procs /\ pid[list[i]] \in 1..MaxPid-1
      /\ last_pid \in 1..MaxPid-1 /\ next_safe \in 2..MaxPid
      /\ new \in Procs /\ pid \in [Procs -> 0..MaxPid-1]
  BY DEF PidInv, PidTypeOK, Listed
<1>2. /\ at = Len(list) + 1 /\ at' = 0 /\ new' = init
      /\ last_pid' = last_pid /\ next_safe' = next_safe
      /\ pid' = [pid EXCEPT ![new] = last_pid] /\ list' = <<new>> \o list
  BY DEF Link
<1>3. Seen = DOMAIN list
  BY <1>1, <1>2 DEF Seen
<1>4. /\ last_pid < next_safe
      /\ \A i \in DOMAIN list : /\ pid[list[i]] < last_pid \/ next_safe <= pid[list[i]]
                                /\ list[i] # new
  BY <1>1, <1>2, <1>3 DEF PidInv, Gap
<1>5. /\ list' \in Seq(Procs) /\ Len(list') = Len(list) + 1
      /\ DOMAIN list' = 1..Len(list) + 1 /\ list'[1] = new
      /\ \A i \in 2..Len(list) + 1 : i - 1 \in DOMAIN list /\ list'[i] = list[i - 1]
  BY <1>1, <1>2
<1>6. /\ pid'[list'[1]] = last_pid
      /\ \A i \in 2..Len(list) + 1 : pid'[list'[i]] = pid[list[i - 1]]
  BY <1>1, <1>2, <1>4, <1>5
<1>7. PidTypeOK'
  BY <1>1, <1>2, <1>5 DEF PidTypeOK
<1> HIDE PidAssumption
<1>8. PidsUnique'
  <2> SUFFICES ASSUME NEW i \in 1..Len(list) + 1, NEW j \in 1..Len(list) + 1,
                      pid'[list'[i]] = pid'[list'[j]]
               PROVE  i = j
    BY <1>5 DEF PidsUnique
  <2>0. \A n \in 2..Len(list) + 1 : pid'[list'[n]] # last_pid
    <3> TAKE n \in 2..Len(list) + 1
    <3>1. n - 1 \in DOMAIN list /\ pid'[list'[n]] = pid[list[n - 1]]
      BY <1>5, <1>6
    <3>2. pid[list[n - 1]] < last_pid \/ next_safe <= pid[list[n - 1]]
      BY <1>4, <3>1
    <3> QED
      BY <1>1, <1>4, <3>1, <3>2
  <2>1. CASE i = 1 \/ j = 1
    <3>1. CASE i = 1 /\ j # 1
      BY <1>1, <1>6, <2>0, <3>1
    <3>2. CASE i # 1 /\ j = 1
      BY <1>1, <1>6, <2>0, <3>2
    <3> QED
      BY <2>1, <3>1, <3>2
  <2>2. CASE i # 1 /\ j # 1
    <3>0. i \in 2..Len(list) + 1 /\ j \in 2..Len(list) + 1
      BY <1>1, <2>2
    <3>1. /\ pid[list[i - 1]] = pid[list[j - 1]]
          /\ i - 1 \in DOMAIN list /\ j - 1 \in DOMAIN list
      BY <1>5, <1>6, <3>0
    <3>2. i - 1 = j - 1
      BY <3>1 DEF PidInv, PidsUnique
    <3> QED
      BY <3>0, <3>2
  <2> QED
    BY <2>1, <2>2
<1>9. Gap' /\ Listed'
  <2>1. /\ pid'[list'[1]] <= last_pid /\ pid'[list'[1]] # 0
    BY <1>1, <1>6
  <2>2. ASSUME NEW i \in 2..Len(list) + 1
        PROVE  /\ pid'[list'[i]] <= last_pid \/ next_safe <= pid'[list'[i]]
               /\ pid'[list'[i]] # 0
    <3>1. i - 1 \in DOMAIN list /\ pid'[list'[i]] = pid[list[i - 1]]
      BY <1>5, <1>6
    <3>2. /\ pid[list[i - 1]] \in 1..MaxPid-1
          /\ pid[list[i - 1]] < last_pid \/ next_safe <= pid[list[i - 1]]
      BY <1>1, <1>4, <3>1
    <3> QED
      BY <1>1, <3>1, <3>2
  <2>3. \A i \in DOMAIN list' : i = 1 \/ i \in 2..Len(list) + 1
    BY <1>1, <1>5
  <2>4. \A i \in DOMAIN list' : /\ pid'[list'[i]] <= last_pid \/ next_safe <= pid'[list'[i]]
                                /\ pid'[list'[i]] # 0
    BY <2>1, <2>2, <2>3
  <2> QED
    BY <1>2, <1>4, <2>4 DEF Gap, Seen, Listed
<1> QED
  BY <1>7, <1>8, <1>9 DEF PidInv

\* What is left of a sequence without its element k.
LEMMA RemoveAtElements ==
  ASSUME NEW S, NEW s \in Seq(S), NEW k \in 1..Len(s)
  PROVE  /\ RemoveAt(s, k) \in Seq(S) /\ Len(RemoveAt(s, k)) = Len(s) - 1
         /\ \A i \in 1..Len(s) - 1 : RemoveAt(s, k)[i] = s[IF i < k THEN i ELSE i + 1]
<1> DEFINE before == SubSeq(s, 1, k - 1)
           after  == SubSeq(s, k + 1, Len(s))
<1>1. /\ before \in Seq(S) /\ Len(before) = k - 1
      /\ \A i \in 1..k - 1 : before[i] = s[i]
  OBVIOUS
<1>2. /\ after \in Seq(S) /\ Len(after) = Len(s) - k
      /\ \A i \in 1..Len(s) - k : after[i] = s[i + k]
  OBVIOUS
<1>3. RemoveAt(s, k) = before \o after
  BY DEF RemoveAt
<1> HIDE DEF before, after
<1>4. before \o after \in Seq(S) /\ Len(before \o after) = Len(s) - 1
  BY <1>1, <1>2
<1>5. ASSUME NEW i \in 1..Len(s) - 1
      PROVE  (before \o after)[i] = s[IF i < k THEN i ELSE i + 1]
  <2>1. CASE i < k
    <3>1. (before \o after)[i] = before[i]
      BY <1>1, <1>2, <2>1
    <3> QED
      BY <1>1, <2>1, <3>1
  <2>2. CASE i >= k
    <3>1. (before \o after)[i] = after[i - (k - 1)] /\ i - (k - 1) \in 1..Len(s) - k
      BY <1>1, <1>2, <2>2
    <3>2. after[i - (k - 1)] = s[i - (k - 1) + k]
      BY <1>2, <3>1
    <3> QED
      BY <2>2, <3>1, <3>2
  <2>3. i \in Int /\ k \in Int /\ (i < k \/ i >= k)
    OBVIOUS
  <2> QED
    BY <2>1, <2>2, <2>3
<1> QED
  BY <1>3, <1>4, <1>5

\* A process that leaves the list leaves the numbers of the others as they are.
LEMMA UnlinkInv == ASSUME NEW c \in Procs, PidInv, Unlink(c) PROVE PidInv'
<1> USE PidAssumption
<1>1. /\ list \in Seq(Procs) /\ Len(list) \in Nat /\ DOMAIN list = 1..Len(list)
      /\ \A i \in DOMAIN list : list[i] \in Procs /\ pid[list[i]] \in 1..MaxPid-1
      /\ pid \in [Procs -> 0..MaxPid-1]
  BY DEF PidInv, PidTypeOK, Listed
<1>2. PICK k \in DOMAIN list : list[k] = c /\ list' = RemoveAt(list, k)
  BY DEF Unlink
<1>3. /\ at = 0 /\ pid' = [pid EXCEPT ![c] = 0]
      /\ UNCHANGED <<new, last_pid, next_safe, at>>
  BY DEF Unlink
<1> DEFINE old(i) == IF i < k THEN i ELSE i + 1
<1>4. /\ list' \in Seq(Procs) /\ Len(list') = Len(list) - 1
      /\ DOMAIN list' = 1..Len(list) - 1
      /\ \A i \in 1..Len(list) - 1 : list'[i] = list[old(i)]
  <2>1. k \in 1..Len(list)
    BY <1>1
  <2>2. /\ list' \in Seq(Procs) /\ Len(list') = Len(list) - 1
        /\ \A i \in 1..Len(list) - 1 : list'[i] = list[old(i)]
    BY <1>1, <1>2, <2>1, RemoveAtElements
  <2> QED
    BY <2>2
<1>5. \A i \in 1..Len(list) - 1 : old(i) \in DOMAIN list /\ old(i) # k
  BY <1>1
<1>6. \A i \in DOMAIN list : i # k => list[i] # c
  BY <1>1, <1>2 DEF PidInv, PidsUnique
<1>7. \A i \in 1..Len(list) - 1 : pid'[list'[i]] = pid[list[old(i)]]
  BY <1>1, <1>3, <1>4, <1>5, <1>6
<1>8. PidTypeOK'
  BY <1>1, <1>3, <1>4 DEF PidInv, PidTypeOK
<1>9. PidsUnique'
  <2> SUFFICES ASSUME NEW i \in 1..Len(list) - 1, NEW j \in 1..Len(list) - 1,
                      pid'[list'[i]] = pid'[list'[j]]
               PROVE  i = j
    BY <1>4 DEF PidsUnique
  <2>1. /\ pid[list[old(i)]] = pid[list[old(j)]]
        /\ old(i) \in DOMAIN list /\ old(j) \in DOMAIN list
    BY <1>5, <1>7
  <2> HIDE DEF old
  <2>2. old(i) = old(j)
    BY <2>1 DEF PidInv, PidsUnique
  <2>3. i \in Int /\ j \in Int /\ k \in Int
    BY <1>1
  <2>4. (IF i < k THEN i ELSE i + 1) = (IF j < k THEN j ELSE j + 1)
    BY <2>2 DEF old
  <2> QED
    BY ONLY <2>3, <2>4
<1>10. Gap' /\ Listed'
  <2>1. \A i \in DOMAIN list : pid[list[i]] <= last_pid \/ next_safe <= pid[list[i]]
    BY <1>3 DEF PidInv, Gap, Seen
  <2>2. ASSUME NEW i \in DOMAIN list'
        PROVE  /\ pid'[list'[i]] <= last_pid \/ next_safe <= pid'[list'[i]]
               /\ pid'[list'[i]] # 0
    <3> HIDE DEF old
    <3>1. pid'[list'[i]] = pid[list[old(i)]] /\ old(i) \in DOMAIN list
      BY <1>4, <1>5, <1>7
    <3> QED
      BY <1>1, <2>1, <3>1
  <2> QED
    BY <1>3, <2>2 DEF Gap, Seen, Listed, PidInv
<1> QED
  BY <1>8, <1>9, <1>10 DEF PidInv

-----------------------------------------------------------------------------
\* The numbers are well formed, unique and below next_safe as the code assumes, in every
\* state of processes that are created and reaped.
THEOREM PidInvariant == PidSpec => []PidInv
<1>1. PidInit => PidInv
  BY InitInv
<1>2. PidInv /\ [PidNext]_pidVars => PidInv'
  <2> SUFFICES ASSUME PidInv, [PidNext]_pidVars PROVE PidInv'
    OBVIOUS
  <2>1. CASE \E c \in Procs : BeginPid(c) \/ Unlink(c)
    BY <2>1, BeginInv, UnlinkInv
  <2>2. CASE Scan
    BY <2>2, ScanInv
  <2>3. CASE Link
    BY <2>3, LinkInv
  <2>4. CASE UNCHANGED pidVars
    BY <2>4 DEF pidVars, PidInv, PidTypeOK, PidsUnique, Gap, Seen, Listed
  <2> QED
    BY <2>1, <2>2, <2>3, <2>4 DEF PidNext
<1> QED
  BY <1>1, <1>2, PTL DEF PidSpec

\* No two processes have the same pid, however many processes and numbers there are.
THEOREM PidsAreUnique == PidSpec => []PidsUnique
BY PidInvariant, PTL DEF PidInv

-----------------------------------------------------------------------------
(* Files. *)

\* A step of Files is a step of Pid or leaves its variables alone.
LEMMA PidStep == [Next]_vars => [PidNext]_pidVars
<1> SUFFICES ASSUME [Next]_vars PROVE [PidNext]_pidVars
  OBVIOUS
<1>1. CASE UNCHANGED vars
  BY <1>1 DEF vars
<1>2. CASE Scan \/ Link
  BY <1>2 DEF PidNext
<1>3. ASSUME NEW p \in Procs, NEW c \in Procs, Fork(p, c) PROVE PidNext
  BY <1>3 DEF Fork, PidNext
<1>4. ASSUME NEW p \in Procs, Reap(p) PROVE PidNext
  BY <1>4 DEF Reap, PidNext
<1>5. ASSUME NEW p \in Procs,
             \/ \E i \in Inodes, flags \in [DOMAIN Read -> BOOLEAN] : Open(p, i, flags)
             \/ \E fd \in Fds : Close(p, fd)
             \/ \E fd, to \in Fds : FileDup(p, fd, to)
             \/ \E fd \in Fds, op \in {"read", "seek", "fsync", "getdirentry"} : Use(p, fd, op)
             \/ \E i \in Inodes : Chdir(p, i)
             \/ \E i \in Inodes, loads \in BOOLEAN : Exec(p, i, loads)
             \/ OpenCreate(p) \/ ExecMissing(p) \/ Exit(p)
      PROVE  UNCHANGED pidVars
  BY <1>5 DEF Open, Close, FileDup, Use, Chdir, Exec, OpenCreate, ExecMissing, Exit
<1> QED
  BY <1>1, <1>2, <1>3, <1>4, <1>5 DEF Next

\* The system of processes and files behaves, in its processes, as Pid says.
THEOREM ImplementsPid == Spec => PidSpec
<1>1. Init => PidInit
  BY DEF Init
<1> QED
  BY <1>1, PidStep, PTL DEF Spec, PidSpec

\* No two processes have the same pid, zombies included.
THEOREM FilesPidsUnique == Spec => []PidsUnique
BY ImplementsPid, PidsAreUnique, PTL

-----------------------------------------------------------------------------
(* The counts of the inodes.  H[i] is the set of descriptors that i is open on, and    *)
(* e[i] the number of other references to it; m fits if its counts are what they say.  *)

Node == [ref : Nat, open : Nat]

Shaped(m) == {"node", "err"} \subseteq DOMAIN m /\ m.node \in [Inodes -> Node]

Fits(m, H, e) ==
  /\ Shaped(m) /\ m.err = "no"
  /\ H \in [Inodes -> SUBSET (Procs \X Fds)]
  /\ e \in [Inodes -> Nat]
  /\ \A i \in Inodes : /\ IsFiniteSet(H[i])
                       /\ m.node[i].open = Cardinality(H[i])
                       /\ m.node[i].ref = Cardinality(H[i]) + e[i]

\* n is m but for the counts of i.
Changed(m, n, i, ref, open) ==
  /\ Shaped(n) /\ n.err = m.err
  /\ n.node[i].ref = ref /\ n.node[i].open = open
  /\ \A j \in Inodes \ {i} : n.node[j] = m.node[j]

\* Each of the four operations changes one count of one inode.
LEMMA CountSteps ==
  ASSUME NEW m, Shaped(m), NEW i \in Inodes
  PROVE  /\ m.node[i].ref \in Nat /\ m.node[i].open \in Nat
         /\ Changed(m, RefInc(m, i), i, m.node[i].ref + 1, m.node[i].open)
         /\ Changed(m, OpenInc(m, i), i, m.node[i].ref, m.node[i].open + 1)
         /\ m.node[i].open > 0 =>
              Changed(m, OpenDec(m, i), i, m.node[i].ref, m.node[i].open - 1)
         /\ m.node[i].ref > 0 /\ (m.node[i].ref = 1 => m.node[i].open = 0) =>
              Changed(m, RefDec(m, i), i, m.node[i].ref - 1, m.node[i].open)
  <1>0. /\ "node" \in DOMAIN m /\ "err" \in DOMAIN m /\ m.node \in [Inodes -> Node]
        /\ m.node[i].ref \in Nat /\ m.node[i].open \in Nat
    BY DEF Shaped, Node
  <1> DEFINE With(x) == [m EXCEPT !.node = x]
  <1>1. ASSUME NEW r \in Nat, NEW o \in Nat, NEW x, x \in [Inodes -> Node],
               x[i].ref = r, x[i].open = o, \A j \in Inodes \ {i} : x[j] = m.node[j]
        PROVE  Changed(m, With(x), i, r, o)
    BY <1>0, <1>1 DEF Changed, Shaped
  <1>2. ASSUME NEW k \in Nat
        PROVE  LET x == [m.node EXCEPT ![i].ref = k]
               IN  /\ x \in [Inodes -> Node] /\ x[i].ref = k /\ x[i].open = m.node[i].open
                   /\ \A j \in Inodes \ {i} : x[j] = m.node[j]
    BY <1>0 DEF Node
  <1>3. ASSUME NEW k \in Nat
        PROVE  LET x == [m.node EXCEPT ![i].open = k]
               IN  /\ x \in [Inodes -> Node] /\ x[i].open = k /\ x[i].ref = m.node[i].ref
                   /\ \A j \in Inodes \ {i} : x[j] = m.node[j]
    BY <1>0 DEF Node
  <1>4. ASSUME NEW k \in Nat
        PROVE  /\ Changed(m, With([m.node EXCEPT ![i].ref = k]), i, k, m.node[i].open)
               /\ Changed(m, With([m.node EXCEPT ![i].open = k]), i, m.node[i].ref, k)
    <2> DEFINE x == [m.node EXCEPT ![i].ref = k]
               y == [m.node EXCEPT ![i].open = k]
    <2>1. /\ x \in [Inodes -> Node] /\ x[i].ref = k /\ x[i].open = m.node[i].open
          /\ \A j \in Inodes \ {i} : x[j] = m.node[j]
      BY <1>2
    <2>2. /\ y \in [Inodes -> Node] /\ y[i].open = k /\ y[i].ref = m.node[i].ref
          /\ \A j \in Inodes \ {i} : y[j] = m.node[j]
      BY <1>3
    <2> HIDE DEF x, y, With
    <2>3. Changed(m, With(x), i, k, m.node[i].open)
      BY <1>0, <1>1, <2>1
    <2>4. Changed(m, With(y), i, m.node[i].ref, k)
      BY <1>0, <1>1, <2>2
    <2> QED BY <2>3, <2>4 DEF x, y
  <1>5. /\ RefInc(m, i) = With([m.node EXCEPT ![i].ref = m.node[i].ref + 1])
        /\ OpenInc(m, i) = With([m.node EXCEPT ![i].open = m.node[i].open + 1])
    BY <1>0 DEF RefInc, OpenInc
  <1>6. m.node[i].open > 0 => OpenDec(m, i) = With([m.node EXCEPT ![i].open = m.node[i].open - 1])
    BY <1>0 DEF OpenDec
  <1>7. m.node[i].ref > 0 /\ (m.node[i].ref = 1 => m.node[i].open = 0) =>
          RefDec(m, i) = With([m.node EXCEPT ![i].ref = m.node[i].ref - 1])
    BY <1>0 DEF RefDec
  <1> HIDE DEF With
  <1>8. /\ m.node[i].ref + 1 \in Nat /\ m.node[i].open + 1 \in Nat
        /\ m.node[i].open > 0 => m.node[i].open - 1 \in Nat
        /\ m.node[i].ref > 0 => m.node[i].ref - 1 \in Nat
    BY <1>0
  <1> QED BY <1>0, <1>4, <1>5, <1>6, <1>7, <1>8

\* m fits again once its counts follow the change of H and e at i.
LEMMA Refit ==
  ASSUME NEW m, NEW H, NEW e, Fits(m, H, e), NEW i \in Inodes, NEW n, NEW ref, NEW open,
         Changed(m, n, i, ref, open),
         NEW D \in SUBSET (Procs \X Fds), IsFiniteSet(D), NEW x \in Nat,
         open = Cardinality(D), ref = Cardinality(D) + x
  PROVE  Fits(n, [H EXCEPT ![i] = D], [e EXCEPT ![i] = x])
  <1> DEFINE G == [H EXCEPT ![i] = D]
             f == [e EXCEPT ![i] = x]
  <1>1. /\ G \in [Inodes -> SUBSET (Procs \X Fds)] /\ G[i] = D
        /\ \A j \in Inodes \ {i} : G[j] = H[j]
    BY DEF Fits
  <1>2. f \in [Inodes -> Nat] /\ f[i] = x /\ \A j \in Inodes \ {i} : f[j] = e[j]
    BY DEF Fits
  <1> HIDE DEF G, f
  <1>3. Shaped(n) /\ n.err = "no"
    BY DEF Fits, Changed
  <1>4. ASSUME NEW j \in Inodes
        PROVE  /\ IsFiniteSet(G[j])
               /\ n.node[j].open = Cardinality(G[j])
               /\ n.node[j].ref = Cardinality(G[j]) + f[j]
    <2>1. CASE j = i
      BY <1>1, <1>2, <2>1 DEF Changed
    <2>2. CASE j # i
      <3>1. n.node[j] = m.node[j] /\ G[j] = H[j] /\ f[j] = e[j]
        BY <1>1, <1>2, <2>2 DEF Changed
      <3> QED BY <3>1 DEF Fits
    <2> QED BY <2>1, <2>2
  <1>5. Fits(n, G, f)
    BY <1>1, <1>2, <1>3, <1>4 DEF Fits
  <1> QED BY <1>5 DEF G, f

Plus(e, i)     == [e EXCEPT ![i] = @ + 1]
Minus(e, i)    == [e EXCEPT ![i] = @ - 1]
Gets(H, i, d)  == [H EXCEPT ![i] = @ \cup {d}]
Loses(H, i, d) == [H EXCEPT ![i] = @ \ {d}]

\* inode_ref_inc, inode_ref_dec, the opening and the closing of a descriptor.
LEMMA FitsSteps ==
  ASSUME NEW m, NEW H, NEW e, Fits(m, H, e), NEW i \in Inodes
  PROVE  /\ Fits(RefInc(m, i), H, Plus(e, i))
         /\ e[i] > 0 => Fits(RefDec(m, i), H, Minus(e, i))
         /\ \A d \in (Procs \X Fds) \ H[i] : Fits(Dup(m, i), Gets(H, i, d), e)
         /\ \A d \in H[i] : Fits(VfsClose(m, i), Loses(H, i, d), e)
  <1> DEFINE c == Cardinality(H[i])
             r == m.node[i].ref
             o == m.node[i].open
  <1>0. /\ Shaped(m) /\ H \in [Inodes -> SUBSET (Procs \X Fds)] /\ e \in [Inodes -> Nat]
        /\ IsFiniteSet(H[i]) /\ H[i] \in SUBSET (Procs \X Fds) /\ c \in Nat /\ e[i] \in Nat
        /\ o = c /\ r = c + e[i]
    BY FS_CardinalityType DEF Fits
  <1>1. [H EXCEPT ![i] = H[i]] = H /\ [e EXCEPT ![i] = e[i]] = e
    BY <1>0
  <1>2. Fits(RefInc(m, i), H, Plus(e, i))
    <2>1. Changed(m, RefInc(m, i), i, r + 1, o)
      BY <1>0, CountSteps
    <2>2. e[i] + 1 \in Nat /\ r + 1 = c + (e[i] + 1)
      BY <1>0
    <2>3. Fits(RefInc(m, i), [H EXCEPT ![i] = H[i]], [e EXCEPT ![i] = e[i] + 1])
      BY <1>0, <2>1, <2>2, Refit
    <2> QED BY <1>1, <2>3 DEF Plus
  <1>3. ASSUME e[i] > 0 PROVE Fits(RefDec(m, i), H, Minus(e, i))
    <2>1. r > 0 /\ (r = 1 => o = 0)
      BY <1>0, <1>3
    <2>2. Changed(m, RefDec(m, i), i, r - 1, o)
      BY <1>0, <2>1, CountSteps
    <2>3. e[i] - 1 \in Nat /\ r - 1 = c + (e[i] - 1)
      BY <1>0, <1>3
    <2>4. Fits(RefDec(m, i), [H EXCEPT ![i] = H[i]], [e EXCEPT ![i] = e[i] - 1])
      BY <1>0, <2>2, <2>3, Refit
    <2> QED BY <1>1, <2>4 DEF Minus
  <1>4. ASSUME NEW d \in (Procs \X Fds) \ H[i] PROVE Fits(Dup(m, i), Gets(H, i, d), e)
    <2> DEFINE n == RefInc(m, i)
    <2>1. Changed(m, n, i, r + 1, o)
      BY <1>0, CountSteps
    <2>2. Shaped(n) /\ n.node[i].ref = r + 1 /\ n.node[i].open = o /\ n.err = m.err
      BY <2>1 DEF Changed
    <2>3. Changed(n, OpenInc(n, i), i, r + 1, o + 1)
      BY <2>2, CountSteps
    <2>4. Changed(m, OpenInc(n, i), i, r + 1, o + 1)
      BY <2>1, <2>3 DEF Changed
    <2>5. /\ IsFiniteSet(H[i] \cup {d}) /\ Cardinality(H[i] \cup {d}) = c + 1
          /\ H[i] \cup {d} \in SUBSET (Procs \X Fds)
      BY <1>0, FS_AddElement
    <2>6. o + 1 = Cardinality(H[i] \cup {d}) /\ r + 1 = Cardinality(H[i] \cup {d}) + e[i]
      BY <1>0, <2>5
    <2>7. Fits(OpenInc(n, i), [H EXCEPT ![i] = H[i] \cup {d}], [e EXCEPT ![i] = e[i]])
      BY <1>0, <2>4, <2>5, <2>6, Refit
    <2> QED BY <1>1, <2>7 DEF Gets, Dup
  <1>5. ASSUME NEW d \in H[i] PROVE Fits(VfsClose(m, i), Loses(H, i, d), e)
    <2> DEFINE n == OpenDec(m, i)
    <2>5. /\ IsFiniteSet(H[i] \ {d}) /\ Cardinality(H[i] \ {d}) = c - 1
          /\ H[i] \ {d} \in SUBSET (Procs \X Fds)
      BY <1>0, FS_RemoveElement
    <2>0. o > 0 /\ c - 1 \in Nat
      BY <1>0, <2>5, FS_CardinalityType
    <2>1. Changed(m, n, i, r, o - 1)
      BY <1>0, <2>0, CountSteps
    <2>2. Shaped(n) /\ n.node[i].ref = r /\ n.node[i].open = o - 1 /\ n.err = m.err
      BY <2>1 DEF Changed
    <2>3. r > 0 /\ (r = 1 => o - 1 = 0)
      BY <1>0, <2>0
    <2>4. Changed(n, RefDec(n, i), i, r - 1, o - 1)
      BY <2>2, <2>3, CountSteps
    <2>6. Changed(m, RefDec(n, i), i, r - 1, o - 1)
      BY <2>1, <2>4 DEF Changed
    <2>7. o - 1 = Cardinality(H[i] \ {d}) /\ r - 1 = Cardinality(H[i] \ {d}) + e[i]
      BY <1>0, <2>5
    <2>8. Fits(RefDec(n, i), [H EXCEPT ![i] = H[i] \ {d}], [e EXCEPT ![i] = e[i]])
      BY <1>0, <2>5, <2>6, <2>7, Refit
    <2> QED BY <1>1, <2>8 DEF Loses, VfsClose
  <1> QED BY <1>2, <1>3, <1>4, <1>5

\* Every set of numbers that is not empty has a smallest one.
LEMMA Least ==
  ASSUME NEW T, T \subseteq Nat, T # {}
  PROVE  \E x \in T : \A y \in T : x <= y
  <1>1. PICK x \in T : \A y \in T : ~(<<y, x>> \in OpToRel(<, Nat))
    BY NatLessThanWellFounded, WFMin
  <1>2. \A y \in T : ~(y < x)
    BY <1>1 DEF OpToRel
  <1> QED BY <1>2

-----------------------------------------------------------------------------
(* The loops over a table. *)

Table == [Fds -> Inodes \cup {None}]

CloseLoop(m, t, fds, n, u) ==
  u = [k \in 0..n |-> IF k = 0 THEN m
                      ELSE IF k - 1 \in fds /\ t[k - 1] # None THEN VfsClose(u[k - 1], t[k - 1])
                      ELSE u[k - 1]]

DupLoop(m, t, n, u) ==
  u = [k \in 0..n |-> IF k = 0 THEN m
                      ELSE IF t[k - 1] # None THEN Dup(u[k - 1], t[k - 1]) ELSE u[k - 1]]

\* Both loops can be carried out.
LEMMA CloseLoopExists ==
  ASSUME NEW m, NEW t, NEW fds, NEW n \in Nat
  PROVE  \E u : CloseLoop(m, t, fds, n, u)
  <1> DEFINE Bad == {k \in Nat : ~(\E u : CloseLoop(m, t, fds, k, u))}
  <1>1. SUFFICES ASSUME Bad # {} PROVE FALSE
    OBVIOUS
  <1>2. PICK b \in Bad : \A k \in Bad : b <= k
    <2>1. Bad \subseteq Nat /\ Bad # {}
      BY <1>1
    <2> QED BY ONLY <2>1, Least
  <1>3. b \in Nat /\ ~(\E u : CloseLoop(m, t, fds, b, u))
    BY <1>2
  <1>4. CASE b = 0
    <2>1. CloseLoop(m, t, fds, 0, [k \in 0..0 |-> m])
      BY DEF CloseLoop
    <2> QED BY <1>3, <1>4, <2>1
  <1>5. CASE b # 0
    <2>1. b - 1 \in Nat /\ b - 1 \notin Bad
      BY <1>2, <1>3, <1>5
    <2>2. PICK c : CloseLoop(m, t, fds, b - 1, c)
      BY <2>1
    <2> DEFINE x == IF b - 1 \in fds /\ t[b - 1] # None THEN VfsClose(c[b - 1], t[b - 1]) ELSE c[b - 1]
               d == [k \in 0..b |-> IF k = b THEN x ELSE c[k]]
               Is(k) == d[k] = IF k = 0 THEN m
                               ELSE IF k - 1 \in fds /\ t[k - 1] # None
                                      THEN VfsClose(d[k - 1], t[k - 1]) ELSE d[k - 1]
    <2>3. \A k \in 0..(b - 1) : c[k] = IF k = 0 THEN m
                               ELSE IF k - 1 \in fds /\ t[k - 1] # None
                                      THEN VfsClose(c[k - 1], t[k - 1]) ELSE c[k - 1]
      BY <2>2 DEF CloseLoop
    <2>4. ASSUME NEW k \in 0..b PROVE Is(k)
      <3>1. k # 0 => k - 1 \in 0..b /\ d[k - 1] = c[k - 1]
        BY <1>3
      <3>2. CASE k = b
        BY <1>5, <3>1, <3>2
      <3>3. CASE k # b
        <4>1. k \in 0..(b - 1) /\ d[k] = c[k]
          BY <1>3, <3>3
        <4> QED BY <2>3, <3>1, <4>1
      <3> QED BY <3>2, <3>3
    <2>5. CloseLoop(m, t, fds, b, d)
      <3>1. d = [k \in 0..b |-> d[k]]
        OBVIOUS
      <3> HIDE DEF d
      <3> QED BY <2>4, <3>1 DEF CloseLoop
    <2> QED BY <1>3, <2>5
  <1> QED BY <1>4, <1>5

\* The same for the loop of dup_files.
LEMMA DupLoopExists ==
  ASSUME NEW m, NEW t, NEW n \in Nat
  PROVE  \E u : DupLoop(m, t, n, u)
  <1> DEFINE Bad == {k \in Nat : ~(\E u : DupLoop(m, t, k, u))}
  <1>1. SUFFICES ASSUME Bad # {} PROVE FALSE
    OBVIOUS
  <1>2. PICK b \in Bad : \A k \in Bad : b <= k
    <2>1. Bad \subseteq Nat /\ Bad # {}
      BY <1>1
    <2> QED BY ONLY <2>1, Least
  <1>3. b \in Nat /\ ~(\E u : DupLoop(m, t, b, u))
    BY <1>2
  <1>4. CASE b = 0
    <2>1. DupLoop(m, t, 0, [k \in 0..0 |-> m])
      BY DEF DupLoop
    <2> QED BY <1>3, <1>4, <2>1
  <1>5. CASE b # 0
    <2>1. b - 1 \in Nat /\ b - 1 \notin Bad
      BY <1>2, <1>3, <1>5
    <2>2. PICK c : DupLoop(m, t, b - 1, c)
      BY <2>1
    <2> DEFINE x == IF t[b - 1] # None THEN Dup(c[b - 1], t[b - 1]) ELSE c[b - 1]
               d == [k \in 0..b |-> IF k = b THEN x ELSE c[k]]
               Is(k) == d[k] = IF k = 0 THEN m
                               ELSE IF t[k - 1] # None THEN Dup(d[k - 1], t[k - 1]) ELSE d[k - 1]
    <2>3. \A k \in 0..(b - 1) : c[k] = IF k = 0 THEN m
                               ELSE IF t[k - 1] # None THEN Dup(c[k - 1], t[k - 1]) ELSE c[k - 1]
      BY <2>2 DEF DupLoop
    <2>4. ASSUME NEW k \in 0..b PROVE Is(k)
      <3>1. k # 0 => k - 1 \in 0..b /\ d[k - 1] = c[k - 1]
        BY <1>3
      <3>2. CASE k = b
        BY <1>5, <3>1, <3>2
      <3>3. CASE k # b
        <4>1. k \in 0..(b - 1) /\ d[k] = c[k]
          BY <1>3, <3>3
        <4> QED BY <2>3, <3>1, <4>1
      <3> QED BY <3>2, <3>3
    <2>5. DupLoop(m, t, b, d)
      <3>1. d = [k \in 0..b |-> d[k]]
        OBVIOUS
      <3> HIDE DEF d
      <3> QED BY <2>4, <3>1 DEF DupLoop
    <2> QED BY <1>3, <2>5
  <1> QED BY <1>4, <1>5

\* H without the first k descriptors of p that are among fds.
Less(H, p, fds, k) ==
  [i \in Inodes |-> {d \in H[i] : ~(d[1] = p /\ d[2] \in fds /\ d[2] < k)}]

\* H with the first k descriptors of c as t has them.
More(H, c, t, k) ==
  [i \in Inodes |-> H[i] \cup {d \in Procs \X Fds : d[1] = c /\ d[2] < k /\ t[d[2]] = i}]

\* The descriptors of p among fds are in H as t says.
Has(H, p, t, fds) ==
  \A fd \in fds : \A i \in Inodes : <<p, fd>> \in H[i] <=> t[fd] = i

\* files_closeall, the loop of files_destroy: the descriptors are gone, nothing else.
LEMMA CloseFdsFits ==
  ASSUME NEW m, NEW H, NEW e, Fits(m, H, e), NEW p \in Procs, NEW t \in Table,
         NEW fds \in SUBSET Fds, Has(H, p, t, fds)
  PROVE  Fits(CloseFds(m, t, fds), Less(H, p, fds, NEntry), e)
  <1>0. NEntry \in Nat /\ None \notin Inodes /\ H \in [Inodes -> SUBSET (Procs \X Fds)]
    BY FilesAssumption DEF Fits, Inodes
  <1> DEFINE u == CHOOSE x : CloseLoop(m, t, fds, NEntry, x)
  <1>1. CloseLoop(m, t, fds, NEntry, u)
    <2>1. \E x : CloseLoop(m, t, fds, NEntry, x)
      BY <1>0, CloseLoopExists
    <2> QED BY ONLY <2>1
  <1>2. CloseFds(m, t, fds) = u[NEntry]
    BY DEF CloseFds, CloseLoop
  <1> HIDE DEF u
  <1>3. \A k \in 0..NEntry : u[k] = IF k = 0 THEN m
                             ELSE IF k - 1 \in fds /\ t[k - 1] # None
                                    THEN VfsClose(u[k - 1], t[k - 1]) ELSE u[k - 1]
    BY <1>1 DEF CloseLoop
  <1>4. Less(H, p, fds, 0) = H
    <2>1. \A i \in Inodes : {d \in H[i] : ~(d[1] = p /\ d[2] \in fds /\ d[2] < 0)} = H[i]
      <3> SUFFICES ASSUME NEW i \in Inodes, NEW d \in H[i] PROVE ~(d[2] < 0)
        OBVIOUS
      <3>1. d[2] \in Nat
        BY <1>0 DEF Fds
      <3> QED BY <3>1
    <2> QED BY <1>0, <2>1 DEF Less
  <1>5. ASSUME NEW k \in 1..NEntry, Fits(u[k - 1], Less(H, p, fds, k - 1), e)
        PROVE  Fits(u[k], Less(H, p, fds, k), e)
    <2> DEFINE fd == k - 1
               G  == Less(H, p, fds, fd)
    <2>0. fd \in Fds /\ fd \in Nat /\ k = fd + 1 /\ t[fd] \in Inodes \cup {None}
      BY <1>0 DEF Fds, Table
    <2>1. \A i \in Inodes : \A d \in H[i] :
            d[2] \in Nat /\ (d[2] < k <=> d[2] < fd \/ d[2] = fd) /\ d = <<d[1], d[2]>>
      BY <1>0, <2>0 DEF Fds
    <2>2. CASE fd \in fds /\ t[fd] # None
      <3> DEFINE i == t[fd]
      <3>1. i \in Inodes /\ <<p, fd>> \in H[i] /\ \A j \in Inodes : <<p, fd>> \in H[j] => j = i
        BY <2>0, <2>2 DEF Has
      <3>2. <<p, fd>> \in G[i]
        BY <2>0, <3>1 DEF Less
      <3>3. Fits(VfsClose(u[fd], i), Loses(G, i, <<p, fd>>), e)
        BY <1>5, <3>1, <3>2, FitsSteps
      <3>4. Loses(G, i, <<p, fd>>) = Less(H, p, fds, k)
        <4>1. ASSUME NEW j \in Inodes
              PROVE  Less(H, p, fds, k)[j] = IF j = i THEN G[j] \ {<<p, fd>>} ELSE G[j]
          <5>1. \A d \in H[j] : (d[1] = p /\ d[2] = fd) <=> d = <<p, fd>>
            BY <2>1
          <5>2. \A d \in H[j] : ~(d[1] = p /\ d[2] \in fds /\ d[2] < k) <=>
                                  ~(d[1] = p /\ d[2] \in fds /\ d[2] < fd) /\ d # <<p, fd>>
            BY <2>1, <2>2, <5>1
          <5>3. j # i => <<p, fd>> \notin H[j]
            BY <3>1
          <5> QED BY <5>2, <5>3 DEF Less
        <4>2. Loses(G, i, <<p, fd>>) = [j \in Inodes |-> IF j = i THEN G[j] \ {<<p, fd>>} ELSE G[j]]
          BY <3>1 DEF Loses, Less
        <4> QED BY <4>1, <4>2 DEF Less
      <3>5. u[k] = VfsClose(u[fd], i)
        BY <1>3, <2>0, <2>2
      <3> QED BY <3>3, <3>4, <3>5
    <2>3. CASE ~(fd \in fds /\ t[fd] # None)
      <3>1. u[k] = u[fd]
        BY <1>3, <2>0, <2>3
      <3>2. \A i \in Inodes : fd \in fds => <<p, fd>> \notin H[i]
        BY <1>0, <2>3 DEF Has
      <3>3. Less(H, p, fds, k) = G
        <4>1. ASSUME NEW i \in Inodes, NEW d \in H[i]
              PROVE  (d[1] = p /\ d[2] \in fds /\ d[2] < k) <=>
                       (d[1] = p /\ d[2] \in fds /\ d[2] < fd)
          BY <2>1, <3>2
        <4> QED BY <4>1 DEF Less
      <3> QED BY <1>5, <3>1, <3>3
    <2> QED BY <2>2, <2>3
  <1>6. \A k \in 0..NEntry : Fits(u[k], Less(H, p, fds, k), e)
    <2> DEFINE Bad == {k \in 0..NEntry : ~Fits(u[k], Less(H, p, fds, k), e)}
    <2>1. SUFFICES ASSUME Bad # {} PROVE FALSE
      OBVIOUS
    <2>2. PICK b \in Bad : \A k \in Bad : b <= k
      <3>1. Bad \subseteq Nat /\ Bad # {}
        BY <2>1
      <3> QED BY ONLY <3>1, Least
    <2>3. b # 0
      BY <1>0, <1>3, <1>4, <2>2
    <2>4. b \in 1..NEntry /\ b - 1 \in 0..NEntry /\ b - 1 \notin Bad
      BY <1>0, <2>2, <2>3
    <2> QED BY <1>5, <2>2, <2>4
  <1> QED BY <1>0, <1>2, <1>6

\* dup_files: the new process has the same descriptors, nothing else changes.
LEMMA DupFdsFits ==
  ASSUME NEW m, NEW H, NEW e, Fits(m, H, e), NEW c \in Procs, NEW t \in Table,
         \A fd \in Fds, i \in Inodes : <<c, fd>> \notin H[i]
  PROVE  Fits(DupFds(m, t), More(H, c, t, NEntry), e)
  <1>0. NEntry \in Nat /\ None \notin Inodes /\ H \in [Inodes -> SUBSET (Procs \X Fds)]
    BY FilesAssumption DEF Fits, Inodes
  <1> DEFINE u == CHOOSE x : DupLoop(m, t, NEntry, x)
  <1>1. DupLoop(m, t, NEntry, u)
    <2>1. \E x : DupLoop(m, t, NEntry, x)
      BY <1>0, DupLoopExists
    <2> QED BY ONLY <2>1
  <1>2. DupFds(m, t) = u[NEntry]
    BY DEF DupFds, DupLoop
  <1> HIDE DEF u
  <1>3. \A k \in 0..NEntry : u[k] = IF k = 0 THEN m
                             ELSE IF t[k - 1] # None THEN Dup(u[k - 1], t[k - 1]) ELSE u[k - 1]
    BY <1>1 DEF DupLoop
  <1>d. \A d \in Procs \X Fds : d[2] \in Nat /\ d = <<d[1], d[2]>>
    BY DEF Fds
  <1>4. More(H, c, t, 0) = H
    <2>1. \A i \in Inodes : {d \in Procs \X Fds : d[1] = c /\ d[2] < 0 /\ t[d[2]] = i} = {}
      BY <1>d
    <2> QED BY <1>0, <2>1 DEF More
  <1>5. ASSUME NEW k \in 1..NEntry, Fits(u[k - 1], More(H, c, t, k - 1), e)
        PROVE  Fits(u[k], More(H, c, t, k), e)
    <2> DEFINE fd == k - 1
               G  == More(H, c, t, fd)
    <2>0. fd \in Fds /\ fd \in Nat /\ k = fd + 1 /\ t[fd] \in Inodes \cup {None}
      BY <1>0 DEF Fds, Table
    <2>1. \A d \in Procs \X Fds :
            d[1] = c /\ d[2] < k <=> (d[1] = c /\ d[2] < fd) \/ d = <<c, fd>>
      BY <1>d, <2>0
    <2>2. CASE t[fd] # None
      <3> DEFINE i == t[fd]
      <3>1. i \in Inodes
        BY <2>0, <2>2
      <3>2. <<c, fd>> \in (Procs \X Fds) \ G[i]
        BY <2>0, <3>1 DEF More
      <3>3. Fits(Dup(u[fd], i), Gets(G, i, <<c, fd>>), e)
        BY <1>5, <3>1, <3>2, FitsSteps
      <3>4. Gets(G, i, <<c, fd>>) = More(H, c, t, k)
        <4>1. ASSUME NEW j \in Inodes
              PROVE  More(H, c, t, k)[j] = IF j = i THEN G[j] \cup {<<c, fd>>} ELSE G[j]
          <5>1. \A d \in Procs \X Fds :
                  d[1] = c /\ d[2] < k /\ t[d[2]] = j <=>
                    (d[1] = c /\ d[2] < fd /\ t[d[2]] = j) \/ (j = i /\ d = <<c, fd>>)
            BY <2>1, <2>0
          <5>2. <<c, fd>> \in Procs \X Fds
            BY <2>0
          <5> QED BY <5>1, <5>2 DEF More
        <4>2. Gets(G, i, <<c, fd>>) = [j \in Inodes |-> IF j = i THEN G[j] \cup {<<c, fd>>} ELSE G[j]]
          BY <3>1 DEF Gets, More
        <4>3. More(H, c, t, k) = [j \in Inodes |-> More(H, c, t, k)[j]]
          BY DEF More
        <4> QED BY ONLY <4>1, <4>2, <4>3
      <3>5. u[k] = Dup(u[fd], i)
        BY <1>3, <2>0, <2>2
      <3> QED BY <3>3, <3>4, <3>5
    <2>3. CASE t[fd] = None
      <3>1. u[k] = u[fd]
        BY <1>3, <2>0, <2>3
      <3>3. More(H, c, t, k) = G
        <4>1. ASSUME NEW i \in Inodes, NEW d \in Procs \X Fds
              PROVE  (d[1] = c /\ d[2] < k /\ t[d[2]] = i) <=> (d[1] = c /\ d[2] < fd /\ t[d[2]] = i)
          BY <1>0, <2>1, <2>3
        <4> QED BY <4>1 DEF More
      <3> QED BY <1>5, <3>1, <3>3
    <2> QED BY <2>2, <2>3
  <1>6. \A k \in 0..NEntry : Fits(u[k], More(H, c, t, k), e)
    <2> DEFINE Bad == {k \in 0..NEntry : ~Fits(u[k], More(H, c, t, k), e)}
    <2>1. SUFFICES ASSUME Bad # {} PROVE FALSE
      OBVIOUS
    <2>2. PICK b \in Bad : \A k \in Bad : b <= k
      <3>1. Bad \subseteq Nat /\ Bad # {}
        BY <2>1
      <3> QED BY ONLY <3>1, Least
    <2>3. b # 0
      BY <1>0, <1>3, <1>4, <2>2
    <2>4. b \in 1..NEntry /\ b - 1 \in 0..NEntry /\ b - 1 \notin Bad
      BY <1>0, <2>2, <2>3
    <2> QED BY <1>5, <2>2, <2>4
  <1> QED BY <1>0, <1>2, <1>6

-----------------------------------------------------------------------------
(* The inductive invariant. *)

\* The descriptors that are open on each inode.
HeldBy(f) == [i \in Inodes |-> {d \in Procs \X Fds : f[d[1]] # <<>> /\ f[d[1]][d[2]] = i}]

In(w, i) == {p \in Procs : w[p] = i}

\* The other references to each inode: working directories, what is lost, the list of
\* devices and bootfs_node.
Extra(w, l) ==
  [i \in Inodes |-> Cardinality(In(w, i)) + l[i] + (IF i = root \/ i \in Devs THEN 1 ELSE 0)]

\* A process has a working directory as long as it has a table.
Typed(f, w, l) ==
  /\ f \in [Procs -> Table \cup {<<>>}]
  /\ w \in [Procs -> Dirs \cup {None}]
  /\ \A p \in Procs : f[p] = <<>> <=> w[p] = None
  /\ l \in [Inodes -> Nat]
  /\ \A i \in Inodes : IsFiniteSet(In(w, i))

FilesInv == Typed(file, pwd, lost) /\ Fits(Nodes, HeldBy(file), Extra(pwd, lost))

\* A table is not <<>>.
LEMMA Tables == NEntry \in Nat \ {0} /\ 0 \in Fds /\ None \notin Inodes /\ <<>> \notin Table /\ Dirs \subseteq Inodes
  <1>1. NEntry \in Nat \ {0} /\ 0 \in Fds /\ None \notin Inodes /\ Dirs \subseteq Inodes
    BY FilesAssumption DEF Inodes, Fds
  <1>2. \A t \in Table : DOMAIN t = Fds
    BY DEF Table
  <1>3. DOMAIN <<>> # Fds
    BY <1>1
  <1> QED BY <1>1, <1>2, <1>3

\* A working directory is entered.
LEMMA DirEntered ==
  ASSUME NEW f, NEW w, NEW l, Typed(f, w, l), NEW p \in Procs, NEW i \in Inodes, w[p] = None
  PROVE  /\ Extra([w EXCEPT ![p] = i], l) = Plus(Extra(w, l), i)
         /\ \A j \in Inodes : IsFiniteSet(In([w EXCEPT ![p] = i], j))
  <1>0. /\ w \in [Procs -> Dirs \cup {None}] /\ l \in [Inodes -> Nat] /\ None \notin Inodes
        /\ \A j \in Inodes : IsFiniteSet(In(w, j)) /\ Cardinality(In(w, j)) \in Nat
    BY Tables, FS_CardinalityType DEF Typed
  <1> DEFINE one(j) == IF j = root \/ j \in Devs THEN 1 ELSE 0
  <1>1. w[p] = None
    OBVIOUS
  <1> DEFINE v == [w EXCEPT ![p] = i]
  <1>3. In(v, i) = In(w, i) \cup {p} /\ p \notin In(w, i)
    BY <1>0, <1>1 DEF In
  <1>4. \A j \in Inodes \ {i} : In(v, j) = In(w, j)
    BY <1>0, <1>1 DEF In
  <1> HIDE DEF v
  <1>5. IsFiniteSet(In(v, i)) /\ Cardinality(In(v, i)) = Cardinality(In(w, i)) + 1
    BY <1>0, <1>3, FS_AddElement
  <1>6. Cardinality(In(v, i)) + l[i] + one(i) = Cardinality(In(w, i)) + l[i] + one(i) + 1
    BY <1>0, <1>5
  <1>7. Extra(v, l) = Plus(Extra(w, l), i)
    BY <1>4, <1>6 DEF Extra, Plus
  <1> QED BY <1>0, <1>4, <1>5, <1>7 DEF v

DirGone(w, p)   == [w EXCEPT ![p] = None]
RefGone(l, i) == [l EXCEPT ![i] = @ + 1]

\* A working directory is left.
LEMMA DirLeft ==
  ASSUME NEW f, NEW w, NEW l, Typed(f, w, l), NEW p \in Procs, NEW i \in Inodes, w[p] = i
  PROVE  /\ Extra(w, l)[i] > 0
         /\ Extra(DirGone(w, p), l) = Minus(Extra(w, l), i)
         /\ \A j \in Inodes : IsFiniteSet(In(DirGone(w, p), j))
  <1>0. /\ w \in [Procs -> Dirs \cup {None}] /\ l \in [Inodes -> Nat] /\ None \notin Inodes
        /\ \A j \in Inodes : IsFiniteSet(In(w, j)) /\ Cardinality(In(w, j)) \in Nat
    BY Tables, FS_CardinalityType DEF Typed
  <1> DEFINE one(j) == IF j = root \/ j \in Devs THEN 1 ELSE 0
  <1>2. w[p] = i
    OBVIOUS
  <1> DEFINE v == [w EXCEPT ![p] = None]
  <1>3. In(v, i) = In(w, i) \ {p} /\ p \in In(w, i)
    BY <1>0, <1>2 DEF In
  <1>4. \A j \in Inodes \ {i} : In(v, j) = In(w, j)
    BY <1>0, <1>2 DEF In
  <1> HIDE DEF v
  <1>5. IsFiniteSet(In(v, i)) /\ Cardinality(In(v, i)) = Cardinality(In(w, i)) - 1
    BY <1>0, <1>3, FS_RemoveElement
  <1>6. /\ Cardinality(In(v, i)) + l[i] + one(i) = (Cardinality(In(w, i)) + l[i] + one(i)) - 1
        /\ Cardinality(In(w, i)) + l[i] + one(i) > 0
    BY <1>0, <1>5, FS_CardinalityType
  <1>7. Extra(v, l) = Minus(Extra(w, l), i)
    <2> DEFINE x(j) == Cardinality(In(w, j)) + l[j] + one(j)
    <2>1. Extra(w, l) = [j \in Inodes |-> x(j)]
      BY DEF Extra
    <2>2. Minus(Extra(w, l), i) = [j \in Inodes |-> IF j = i THEN x(j) - 1 ELSE x(j)]
      BY <2>1 DEF Minus
    <2>3. \A j \in Inodes : Cardinality(In(v, j)) + l[j] + one(j) = IF j = i THEN x(j) - 1 ELSE x(j)
      BY <1>4, <1>6
    <2> QED BY <2>2, <2>3 DEF Extra
  <1>8. Extra(w, l)[i] > 0
    BY <1>6 DEF Extra
  <1> QED BY <1>0, <1>4, <1>5, <1>7, <1>8 DEF v, DirGone

\* A reference is lost.
LEMMA RefLost ==
  ASSUME NEW f, NEW w, NEW l, Typed(f, w, l), NEW i \in Inodes
  PROVE  Extra(w, RefGone(l, i)) = Plus(Extra(w, l), i)
  <1>0. /\ w \in [Procs -> Dirs \cup {None}] /\ l \in [Inodes -> Nat] /\ None \notin Inodes
        /\ \A j \in Inodes : IsFiniteSet(In(w, j)) /\ Cardinality(In(w, j)) \in Nat
    BY Tables, FS_CardinalityType DEF Typed
  <1> DEFINE one(j) == IF j = root \/ j \in Devs THEN 1 ELSE 0
  <1>3. Cardinality(In(w, i)) + (l[i] + 1) + one(i) = Cardinality(In(w, i)) + l[i] + one(i) + 1
    BY <1>0
  <1> DEFINE k == [l EXCEPT ![i] = @ + 1]
  <1>4. k[i] = l[i] + 1 /\ \A j \in Inodes \ {i} : k[j] = l[j]
    BY <1>0
  <1> HIDE DEF k
  <1>5. Extra(w, k) = Plus(Extra(w, l), i)
    BY <1>3, <1>4 DEF Extra, Plus
  <1> QED BY <1>5 DEF k, RefGone

\* What the changes of the tables mean for the descriptors.
LEMMA OneOpened ==
  ASSUME NEW f \in [Procs -> Table \cup {<<>>}], NEW p \in Procs, f[p] # <<>>,
         NEW fd \in Fds, f[p][fd] = None, NEW i \in Inodes
  PROVE  /\ <<p, fd>> \in (Procs \X Fds) \ HeldBy(f)[i]
         /\ HeldBy([f EXCEPT ![p][fd] = i]) = Gets(HeldBy(f), i, <<p, fd>>)
         /\ [f EXCEPT ![p][fd] = i] \in [Procs -> Table \cup {<<>>}]
         /\ [f EXCEPT ![p][fd] = i][p] # <<>>
  <1> DEFINE t == [f[p] EXCEPT ![fd] = i]
             g == [f EXCEPT ![p] = t]
  <1>0. f[p] \in Table /\ None \notin Inodes /\ <<>> \notin Table
    BY Tables
  <1>1. t \in Table /\ t[fd] = i /\ \A x \in Fds \ {fd} : t[x] = f[p][x]
    BY <1>0 DEF Table
  <1>2. g = [f EXCEPT ![p][fd] = i]
    OBVIOUS
  <1> HIDE DEF t
  <1>3. g \in [Procs -> Table \cup {<<>>}] /\ g[p] = t /\ g[p] # <<>> /\ \A q \in Procs \ {p} : g[q] = f[q]
    BY <1>0, <1>1
  <1> HIDE DEF g
  <1>4. <<p, fd>> \notin HeldBy(f)[i]
    BY <1>0 DEF HeldBy
  <1>5. ASSUME NEW j \in Inodes
        PROVE  HeldBy(g)[j] = IF j = i THEN HeldBy(f)[j] \cup {<<p, fd>>} ELSE HeldBy(f)[j]
    <2>1. ASSUME NEW q \in Procs, NEW x \in Fds
          PROVE  g[q] # <<>> /\ g[q][x] = j <=>
                   \/ f[q] # <<>> /\ f[q][x] = j
                   \/ j = i /\ <<q, x>> = <<p, fd>>
      BY <1>0, <1>1, <1>3
    <2>2. \A d \in Procs \X Fds : d = <<d[1], d[2]>> /\ d[1] \in Procs /\ d[2] \in Fds
      OBVIOUS
    <2>3. \A d \in Procs \X Fds :
            g[d[1]] # <<>> /\ g[d[1]][d[2]] = j <=>
                   \/ f[d[1]] # <<>> /\ f[d[1]][d[2]] = j
                   \/ j = i /\ d = <<p, fd>>
      BY <2>1, <2>2
    <2> QED BY <2>3 DEF HeldBy
  <1>6. HeldBy(g) = Gets(HeldBy(f), i, <<p, fd>>)
    <2>1. HeldBy(g) = [j \in Inodes |-> HeldBy(g)[j]]
      BY DEF HeldBy
    <2>2. Gets(HeldBy(f), i, <<p, fd>>) =
            [j \in Inodes |-> IF j = i THEN HeldBy(f)[j] \cup {<<p, fd>>} ELSE HeldBy(f)[j]]
      BY DEF Gets, HeldBy
    <2> QED BY ONLY <1>5, <2>1, <2>2
  <1> QED BY <1>2, <1>3, <1>4, <1>6

\* A descriptor that is open is closed.
LEMMA OneClosed ==
  ASSUME NEW f \in [Procs -> Table \cup {<<>>}], NEW p \in Procs, f[p] # <<>>,
         NEW fd \in Fds, f[p][fd] # None
  PROVE  /\ f[p][fd] \in Inodes
         /\ <<p, fd>> \in HeldBy(f)[f[p][fd]]
         /\ HeldBy([f EXCEPT ![p][fd] = None]) = Loses(HeldBy(f), f[p][fd], <<p, fd>>)
         /\ [f EXCEPT ![p][fd] = None] \in [Procs -> Table \cup {<<>>}]
         /\ [f EXCEPT ![p][fd] = None][p] # <<>>
  <1> DEFINE i == f[p][fd]
             t == [f[p] EXCEPT ![fd] = None]
             g == [f EXCEPT ![p] = t]
  <1>0. f[p] \in Table /\ None \notin Inodes /\ <<>> \notin Table
    BY Tables
  <1>i. i \in Inodes
    BY <1>0 DEF Table
  <1>1. t \in Table /\ t[fd] = None /\ \A x \in Fds \ {fd} : t[x] = f[p][x]
    BY <1>0 DEF Table
  <1>2. g = [f EXCEPT ![p][fd] = None]
    OBVIOUS
  <1> HIDE DEF t
  <1>3. g \in [Procs -> Table \cup {<<>>}] /\ g[p] = t /\ g[p] # <<>> /\ \A q \in Procs \ {p} : g[q] = f[q]
    BY <1>0, <1>1
  <1> HIDE DEF g
  <1>4. <<p, fd>> \in HeldBy(f)[i]
    BY <1>0, <1>i DEF HeldBy
  <1>5. ASSUME NEW j \in Inodes
        PROVE  HeldBy(g)[j] = IF j = i THEN HeldBy(f)[j] \ {<<p, fd>>} ELSE HeldBy(f)[j]
    <2>1. ASSUME NEW q \in Procs, NEW x \in Fds
          PROVE  g[q] # <<>> /\ g[q][x] = j <=>
                   (f[q] # <<>> /\ f[q][x] = j) /\ ~(j = i /\ <<q, x>> = <<p, fd>>)
      BY <1>0, <1>1, <1>3
    <2>2. \A d \in Procs \X Fds : d = <<d[1], d[2]>> /\ d[1] \in Procs /\ d[2] \in Fds
      OBVIOUS
    <2>3. \A d \in Procs \X Fds :
            g[d[1]] # <<>> /\ g[d[1]][d[2]] = j <=>
                   (f[d[1]] # <<>> /\ f[d[1]][d[2]] = j) /\ ~(j = i /\ d = <<p, fd>>)
      BY <2>1, <2>2
    <2> QED BY <2>3 DEF HeldBy
  <1>6. HeldBy(g) = Loses(HeldBy(f), i, <<p, fd>>)
    <2>1. HeldBy(g) = [j \in Inodes |-> HeldBy(g)[j]]
      BY DEF HeldBy
    <2>2. Loses(HeldBy(f), i, <<p, fd>>) =
            [j \in Inodes |-> IF j = i THEN HeldBy(f)[j] \ {<<p, fd>>} ELSE HeldBy(f)[j]]
      BY <1>i DEF Loses, HeldBy
    <2> QED BY ONLY <1>5, <2>1, <2>2
  <1> QED BY <1>2, <1>3, <1>4, <1>6, <1>i

\* The table of p without the descriptors fds, or no table at all, for H it is the same.
LEMMA ManyClosed ==
  ASSUME NEW f \in [Procs -> Table \cup {<<>>}], NEW p \in Procs, f[p] # <<>>,
         NEW fds \in SUBSET Fds, NEW t,
         \/ t \in Table /\ \A fd \in Fds : t[fd] = IF fd \in fds THEN None ELSE f[p][fd]
         \/ t = <<>> /\ fds = Fds
  PROVE  /\ Has(HeldBy(f), p, f[p], fds)
         /\ HeldBy([f EXCEPT ![p] = t]) = Less(HeldBy(f), p, fds, NEntry)
         /\ [f EXCEPT ![p] = t] \in [Procs -> Table \cup {<<>>}]
  <1> DEFINE g == [f EXCEPT ![p] = t]
  <1>0. f[p] \in Table /\ None \notin Inodes /\ <<>> \notin Table
    BY Tables
  <1>1. g \in [Procs -> Table \cup {<<>>}] /\ g[p] = t /\ \A q \in Procs \ {p} : g[q] = f[q]
    OBVIOUS
  <1> HIDE DEF g
  <1>2. Has(HeldBy(f), p, f[p], fds)
    BY <1>0 DEF Has, HeldBy
  <1>3. ASSUME NEW j \in Inodes PROVE HeldBy(g)[j] = Less(HeldBy(f), p, fds, NEntry)[j]
    <2>1. ASSUME NEW q \in Procs, NEW x \in Fds
          PROVE  g[q] # <<>> /\ g[q][x] = j <=>
                   (f[q] # <<>> /\ f[q][x] = j) /\ ~(q = p /\ x \in fds)
      BY <1>0, <1>1
    <2>2. \A d \in Procs \X Fds : d[1] \in Procs /\ d[2] \in Fds /\ d[2] < NEntry
      BY FilesAssumption DEF Fds
    <2>3. \A d \in Procs \X Fds :
            g[d[1]] # <<>> /\ g[d[1]][d[2]] = j <=>
                   /\ f[d[1]] # <<>> /\ f[d[1]][d[2]] = j
                   /\ ~(d[1] = p /\ d[2] \in fds /\ d[2] < NEntry)
      BY <2>1, <2>2
    <2> QED BY <2>3 DEF HeldBy, Less
  <1>4. HeldBy(g) = Less(HeldBy(f), p, fds, NEntry)
    <2>1. /\ HeldBy(g) = [j \in Inodes |-> HeldBy(g)[j]]
          /\ Less(HeldBy(f), p, fds, NEntry) = [j \in Inodes |-> Less(HeldBy(f), p, fds, NEntry)[j]]
      BY DEF HeldBy, Less
    <2> QED BY ONLY <1>3, <2>1
  <1> QED BY <1>1, <1>2, <1>4 DEF g

\* fork gives the child the descriptors of the parent, and all are new.
LEMMA TableCopied ==
  ASSUME NEW f \in [Procs -> Table \cup {<<>>}], NEW c \in Procs, f[c] = <<>>, NEW t \in Table
  PROVE  /\ \A fd \in Fds, i \in Inodes : <<c, fd>> \notin HeldBy(f)[i]
         /\ HeldBy([f EXCEPT ![c] = t]) = More(HeldBy(f), c, t, NEntry)
         /\ [f EXCEPT ![c] = t] \in [Procs -> Table \cup {<<>>}]
  <1> DEFINE g == [f EXCEPT ![c] = t]
  <1>0. None \notin Inodes /\ t # <<>>
    BY Tables
  <1>1. g \in [Procs -> Table \cup {<<>>}] /\ g[c] = t /\ \A q \in Procs \ {c} : g[q] = f[q]
    OBVIOUS
  <1> HIDE DEF g
  <1>2. \A fd \in Fds, i \in Inodes : <<c, fd>> \notin HeldBy(f)[i]
    BY DEF HeldBy
  <1>3. ASSUME NEW j \in Inodes PROVE HeldBy(g)[j] = More(HeldBy(f), c, t, NEntry)[j]
    <2>1. ASSUME NEW q \in Procs, NEW x \in Fds
          PROVE  g[q] # <<>> /\ g[q][x] = j <=>
                   (f[q] # <<>> /\ f[q][x] = j) \/ (q = c /\ t[x] = j)
      BY <1>0, <1>1
    <2>2. \A d \in Procs \X Fds : d[1] \in Procs /\ d[2] \in Fds /\ d[2] < NEntry
      BY FilesAssumption DEF Fds
    <2>3. \A d \in Procs \X Fds :
            g[d[1]] # <<>> /\ g[d[1]][d[2]] = j <=>
                   \/ f[d[1]] # <<>> /\ f[d[1]][d[2]] = j
                   \/ d[1] = c /\ d[2] < NEntry /\ t[d[2]] = j
      BY <2>1, <2>2
    <2> QED BY <2>3 DEF HeldBy, More
  <1>4. HeldBy(g) = More(HeldBy(f), c, t, NEntry)
    <2>1. /\ HeldBy(g) = [j \in Inodes |-> HeldBy(g)[j]]
          /\ More(HeldBy(f), c, t, NEntry) = [j \in Inodes |-> More(HeldBy(f), c, t, NEntry)[j]]
      BY DEF HeldBy, More
    <2> QED BY ONLY <1>3, <2>1
  <1> QED BY <1>1, <1>2, <1>4 DEF g

-----------------------------------------------------------------------------
(* The steps. *)

\* Only the counts matter, and that no assertion failed.
LEMMA SameCounts ==
  ASSUME NEW m, NEW H, NEW e, Fits(m, H, e), NEW n,
         {"node", "err"} \subseteq DOMAIN n, n.node = m.node, n.err = "no"
  PROVE  Fits(n, H, e)
  BY DEF Fits, Shaped

\* What Commit leaves in the counts, when nothing panicked.
LEMMA Committed ==
  ASSUME NEW m, NEW H, NEW e, Fits(m, H, e), Commit(m)
  PROVE  Fits(Nodes', H, e)
  <1>1. m.err = "no" /\ node' = m.node
    BY DEF Fits, Commit
  <1>2. {"node", "err"} \subseteq DOMAIN Nodes' /\ Nodes'.node = m.node /\ Nodes'.err = "no"
    BY <1>1 DEF Nodes
  <1> QED BY ONLY <1>2, Fits(m, H, e), SameCounts

\* A reference that is taken and dropped.
LEMMA BackAgain ==
  ASSUME NEW e \in [Inodes -> Nat], NEW i \in Inodes
  PROVE  Plus(e, i)[i] > 0 /\ Minus(Plus(e, i), i) = e
  <1>1. Plus(e, i) \in [Inodes -> Nat] /\ Plus(e, i)[i] = e[i] + 1
    BY DEF Plus
  <1>2. \A j \in Inodes \ {i} : Plus(e, i)[j] = e[j]
    BY DEF Plus
  <1>3. \A j \in Inodes : Minus(Plus(e, i), i)[j] = e[j]
    BY <1>1, <1>2 DEF Minus
  <1>4. Minus(Plus(e, i), i) = [j \in Inodes |-> Minus(Plus(e, i), i)[j]]
    BY <1>1 DEF Minus
  <1>5. e = [j \in Inodes |-> e[j]]
    OBVIOUS
  <1>6. Minus(Plus(e, i), i) = e
    BY ONLY <1>3, <1>4, <1>5
  <1>7. e[i] \in Nat
    OBVIOUS
  <1> QED BY <1>1, <1>6, <1>7

\* The ways vfs_open ends: the reference is forgotten; it is given back, or an
\* assertion fails; a descriptor is opened.
Opens(n, H, e, i) ==
  \/ n.leak /\ ~n.ok /\ Fits(n, H, Plus(e, i))
  \/ ~n.leak /\ ~n.ok /\ Fits(n, H, e)
  \/ ~n.leak /\ ~n.ok /\ n.err # "no"
  \/ ~n.leak /\ n.ok /\ \A d \in (Procs \X Fds) \ H[i] : Fits(n, Gets(H, i, d), e)

\* vfs_open counts the descriptor that is to be entered, or fails and counts nothing.
LEMMA VfsOpenFits ==
  ASSUME NEW m, NEW H, NEW e, Fits(m, H, e), NEW i \in Inodes, NEW flags
  PROVE  /\ Opens(VfsOpen(m, i, flags), H, e, i)
         /\ flags = Read /\ i \notin Dirs => VfsOpen(m, i, flags).ok
  <1> DEFINE found == RefInc(m, i)
             Ends(n, ok, leak) == [node |-> n.node, err |-> n.err, ok |-> ok, leak |-> leak]
             n == VfsOpen(m, i, flags)
  <1>0. ASSUME NEW x, NEW ok, NEW leak, NEW G, NEW g, Fits(x, G, g)
        PROVE  Fits(Ends(x, ok, leak), G, g)
    <2>1. {"node", "err"} \subseteq DOMAIN Ends(x, ok, leak) /\ Ends(x, ok, leak).node = x.node
      OBVIOUS
    <2>2. Ends(x, ok, leak).err = "no"
      BY <1>0 DEF Fits
    <2> QED BY <1>0, <2>1, <2>2, SameCounts
  <1>1. Fits(found, H, Plus(e, i)) /\ e \in [Inodes -> Nat]
    BY FitsSteps DEF Fits
  <1>2. Fits(RefDec(found, i), H, e)
    <2>1. Plus(e, i)[i] > 0 /\ Minus(Plus(e, i), i) = e
      BY <1>1, BackAgain
    <2>2. Fits(RefDec(found, i), H, Minus(Plus(e, i), i))
      BY <1>1, <2>1, FitsSteps
    <2> QED BY <2>1, <2>2
  <1>3. \A d \in (Procs \X Fds) \ H[i] : Fits(OpenInc(found, i), Gets(H, i, d), e)
    BY FitsSteps DEF Dup
  <1>4. CASE flags.excl /\ flags.creat
    <2>1. n = Ends(found, FALSE, TRUE)
      BY <1>4 DEF VfsOpen
    <2>2. Fits(n, H, Plus(e, i))
      BY <1>0, <1>1, <2>1
    <2>3. flags # Read
      BY <1>4 DEF Read
    <2> QED BY <2>1, <2>2, <2>3 DEF Opens
  <1>5. CASE ~(flags.excl /\ flags.creat) /\ OpenRefused(i, flags)
    <2>1. n = Ends(RefDec(found, i), FALSE, FALSE)
      BY <1>5 DEF VfsOpen
    <2>2. Fits(n, H, e)
      BY <1>0, <1>2, <2>1
    <2>3. ~(flags = Read /\ i \notin Dirs)
      BY <1>5 DEF OpenRefused, Read
    <2> QED BY <2>1, <2>2, <2>3 DEF Opens
  <1>6. CASE ~(flags.excl /\ flags.creat) /\ ~OpenRefused(i, flags)
             /\ (flags.trunc \/ flags.creat) /\ i \notin Regular
    <2>1. n = Ends([found EXCEPT !.err = "vop_truncate"], FALSE, FALSE)
      BY <1>6 DEF VfsOpen
    <2>2. "err" \in DOMAIN found
      BY <1>1 DEF Fits, Shaped
    <2>3. n.err = "vop_truncate" /\ ~n.ok /\ ~n.leak
      BY <2>1, <2>2
    <2>4. flags # Read
      BY <1>6 DEF Read
    <2> QED BY <2>3, <2>4 DEF Opens
  <1>7. CASE ~(flags.excl /\ flags.creat) /\ ~OpenRefused(i, flags)
             /\ ~((flags.trunc \/ flags.creat) /\ i \notin Regular)
    <2>1. n = Ends(OpenInc(found, i), TRUE, FALSE)
      BY <1>7 DEF VfsOpen
    <2>2. \A d \in (Procs \X Fds) \ H[i] : Fits(n, Gets(H, i, d), e)
      BY <1>0, <1>3, <2>1
    <2>3. n.ok /\ ~n.leak
      BY <2>1
    <2> HIDE DEF n
    <2>4. Opens(n, H, e, i)
      BY <2>2, <2>3 DEF Opens
    <2> QED BY <2>3, <2>4 DEF n
  <1> QED BY <1>4, <1>5, <1>6, <1>7

\* files_destroy of p.
LEMMA DestroyFits ==
  ASSUME NEW f, NEW w, NEW l, Typed(f, w, l), NEW m, Fits(m, HeldBy(f), Extra(w, l)),
         NEW p \in Procs, f[p] # <<>>
  PROVE  /\ Fits(FilesDestroy(m, f[p], w[p]), HeldBy([f EXCEPT ![p] = <<>>]),
                 Extra([w EXCEPT ![p] = None], l))
         /\ Typed([f EXCEPT ![p] = <<>>], [w EXCEPT ![p] = None], l)
  <1> DEFINE i == w[p]
             n == RefDec(m, i)
             g == [f EXCEPT ![p] = <<>>]
             v == [w EXCEPT ![p] = None]
  <1>0. /\ f \in [Procs -> Table \cup {<<>>}] /\ f[p] \in Table /\ i \in Inodes /\ i # None
        /\ w \in [Procs -> Dirs \cup {None}]
    BY Tables DEF Typed
  <1>1. /\ Extra(w, l)[i] > 0 /\ Extra(v, l) = Minus(Extra(w, l), i)
        /\ \A j \in Inodes : IsFiniteSet(In(v, j))
    <2>1. w[p] = i
      OBVIOUS
    <2> HIDE DEF i, v
    <2>2. /\ Extra(w, l)[i] > 0 /\ Extra(DirGone(w, p), l) = Minus(Extra(w, l), i)
          /\ \A j \in Inodes : IsFiniteSet(In(DirGone(w, p), j))
      BY <1>0, <2>1, DirLeft
    <2> QED BY <2>2 DEF v, DirGone
  <1>2. Fits(n, HeldBy(f), Extra(v, l))
    <2>1. Fits(n, HeldBy(f), Minus(Extra(w, l), i))
      BY <1>0, <1>1, FitsSteps
    <2> QED BY <1>1, <2>1
  <1>3. /\ Has(HeldBy(f), p, f[p], Fds) /\ HeldBy(g) = Less(HeldBy(f), p, Fds, NEntry)
        /\ g \in [Procs -> Table \cup {<<>>}]
    BY <1>0, ManyClosed
  <1>4. Fits(CloseFds(n, f[p], Fds), HeldBy(g), Extra(v, l))
    <2>1. Fits(CloseFds(n, f[p], Fds), Less(HeldBy(f), p, Fds, NEntry), Extra(v, l))
      BY <1>0, <1>2, <1>3, CloseFdsFits
    <2> QED BY <1>3, <2>1
  <1>5. FilesDestroy(m, f[p], w[p]) = CloseFds(n, f[p], Fds)
    BY <1>0 DEF FilesDestroy
  <1>6. Typed(g, v, l)
    <2>1. v \in [Procs -> Dirs \cup {None}] /\ \A q \in Procs : g[q] = <<>> <=> v[q] = None
      BY <1>0 DEF Typed
    <2> QED BY <1>1, <1>3, <2>1 DEF Typed
  <1> QED BY <1>4, <1>5, <1>6

\* copy_files: the child has the table of the parent and its working directory.
LEMMA ForkStep ==
  ASSUME FilesInv, NEW p \in Procs, NEW c \in Procs, Fork(p, c)
  PROVE  FilesInv'
  <1> DEFINE H == HeldBy(file)
             e == Extra(pwd, lost)
             t == file[p]
             i == pwd[p]
             m == DupFiles(Nodes, t, i)
             v == [pwd EXCEPT ![c] = i]
  <1>0. /\ Typed(file, pwd, lost) /\ Fits(Nodes, H, e)
        /\ file \in [Procs -> Table \cup {<<>>}] /\ pwd \in [Procs -> Dirs \cup {None}]
    BY DEF FilesInv, Typed
  <1>1. t # <<>> /\ t \in Table /\ i \in Inodes /\ i \in Dirs /\ i # None
        /\ file[c] = <<>> /\ pwd[c] = None
    BY <1>0, Tables DEF Fork, Alive, Typed
  <1>2. Commit(m) /\ file' = [file EXCEPT ![c] = t] /\ pwd' = v /\ lost' = lost
    BY DEF Fork
  <1>3. Fits(RefInc(Nodes, i), H, Plus(e, i))
    BY <1>0, <1>1, FitsSteps
  <1>4. /\ \A fd \in Fds, j \in Inodes : <<c, fd>> \notin H[j]
        /\ HeldBy(file') = More(H, c, t, NEntry)
        /\ file' \in [Procs -> Table \cup {<<>>}]
    BY <1>0, <1>1, <1>2, TableCopied
  <1>5. Extra(v, lost) = Plus(e, i) /\ \A j \in Inodes : IsFiniteSet(In(v, j))
    BY <1>0, <1>1, DirEntered
  <1>6. Fits(m, HeldBy(file'), Extra(pwd', lost'))
    <2>1. Fits(DupFds(RefInc(Nodes, i), t), More(H, c, t, NEntry), Plus(e, i))
      BY <1>1, <1>3, <1>4, DupFdsFits
    <2>2. m = DupFds(RefInc(Nodes, i), t)
      BY <1>1 DEF DupFiles
    <2> QED BY <1>2, <1>4, <1>5, <2>1, <2>2
  <1>7. Fits(Nodes', HeldBy(file'), Extra(pwd', lost'))
    BY <1>2, <1>6, Committed
  <1>8. Typed(file', pwd', lost')
    <2>1. pwd' \in [Procs -> Dirs \cup {None}]
      BY <1>0, <1>1, <1>2
    <2>2. \A q \in Procs : file'[q] = <<>> <=> pwd'[q] = None
      BY <1>0, <1>1, <1>2 DEF Typed
    <2> QED BY <1>0, <1>2, <1>4, <1>5, <2>1, <2>2 DEF Typed
  <1> QED BY <1>7, <1>8 DEF FilesInv

\* The descriptor that fd_array_alloc finds.
LEMMA FirstFree ==
  ASSUME NEW t, FreeFds(t) # {}
  PROVE  Min(FreeFds(t)) \in Fds /\ t[Min(FreeFds(t))] = None
  <1>1. FreeFds(t) \subseteq Nat
    BY DEF FreeFds, Fds
  <1>2. PICK x \in FreeFds(t) : \A y \in FreeFds(t) : x <= y
    BY ONLY <1>1, FreeFds(t) # {}, Least
  <1>3. Min(FreeFds(t)) \in FreeFds(t)
    BY <1>2 DEF Min
  <1> QED BY <1>3 DEF FreeFds

\* file_open, with a free descriptor or without.
LEMMA OpenStep ==
  ASSUME FilesInv, NEW p \in Procs, NEW i \in Inodes, NEW flags, Open(p, i, flags)
  PROVE  FilesInv'
  <1> DEFINE H == HeldBy(file)
             e == Extra(pwd, lost)
             m == VfsOpen(Nodes, i, flags)
             fd == Min(FreeFds(file[p]))
  <1>0. /\ Typed(file, pwd, lost) /\ Fits(Nodes, H, e)
        /\ file \in [Procs -> Table \cup {<<>>}] /\ lost \in [Inodes -> Nat]
    BY DEF FilesInv, Typed
  <1>1. /\ file[p] # <<>> /\ FreeFds(file[p]) # {} /\ Commit(m) /\ pwd' = pwd
        /\ lost' = IF m.leak THEN [lost EXCEPT ![i] = @ + 1] ELSE lost
        /\ file' = IF m.ok THEN [file EXCEPT ![p][fd] = i] ELSE file
    BY DEF Open, User, Alive
  <1>2. fd \in Fds /\ file[p][fd] = None
    BY <1>1, FirstFree
  <1> HIDE DEF m, fd
  <1>3. Opens(m, H, e, i)
    BY <1>0, VfsOpenFits DEF m
  <1>4. CASE m.leak /\ ~m.ok /\ Fits(m, H, Plus(e, i))
    <2>1. lost' = [lost EXCEPT ![i] = @ + 1] /\ file' = file
      BY <1>1, <1>4
    <2>2. Extra(pwd', lost') = Plus(e, i) /\ lost' \in [Inodes -> Nat]
      <3>1. Extra(pwd, RefGone(lost, i)) = Plus(e, i)
        BY <1>0, RefLost
      <3> QED BY <1>0, <1>1, <2>1, <3>1 DEF RefGone
    <2>3. Fits(Nodes', H, Plus(e, i))
      BY <1>1, <1>4, Committed
    <2> QED BY <1>0, <1>1, <2>1, <2>2, <2>3 DEF FilesInv, Typed
  <1>5. CASE ~m.leak /\ ~m.ok /\ Fits(m, H, e)
    <2>1. lost' = lost /\ file' = file
      BY <1>1, <1>5
    <2>2. Fits(Nodes', H, e)
      BY <1>1, <1>5, Committed
    <2> QED BY <1>0, <1>1, <2>1, <2>2 DEF FilesInv
  <1>6. CASE ~m.leak /\ ~m.ok /\ m.err # "no"
    <2>1. lost' = lost /\ file' = file /\ node' = node
      BY <1>1, <1>6 DEF Commit
    <2> QED BY <1>0, <1>1, <2>1 DEF FilesInv, Nodes
  <1>7. CASE ~m.leak /\ m.ok /\ \A d \in (Procs \X Fds) \ H[i] : Fits(m, Gets(H, i, d), e)
    <2>1. lost' = lost /\ file' = [file EXCEPT ![p][fd] = i]
      BY <1>1, <1>7
    <2>2. /\ <<p, fd>> \in (Procs \X Fds) \ H[i] /\ HeldBy(file') = Gets(H, i, <<p, fd>>)
          /\ file' \in [Procs -> Table \cup {<<>>}] /\ file'[p] # <<>>
      <3>1. /\ <<p, fd>> \in (Procs \X Fds) \ H[i]
            /\ HeldBy([file EXCEPT ![p][fd] = i]) = Gets(H, i, <<p, fd>>)
            /\ [file EXCEPT ![p][fd] = i] \in [Procs -> Table \cup {<<>>}]
            /\ [file EXCEPT ![p][fd] = i][p] # <<>>
        BY <1>0, <1>1, <1>2, OneOpened
      <3> QED BY <2>1, <3>1
    <2>3. Fits(m, HeldBy(file'), e)
      BY <1>7, <2>2
    <2>4. Fits(Nodes', HeldBy(file'), e)
      BY <1>1, <2>3, Committed
    <2>5. \A q \in Procs : file'[q] = <<>> <=> file[q] = <<>>
      BY <1>0, <1>1, <2>1, <2>2
    <2> QED BY <1>0, <1>1, <2>1, <2>2, <2>4, <2>5 DEF FilesInv, Typed
  <1> QED BY <1>3, <1>4, <1>5, <1>6, <1>7 DEF Opens

\* file_close.
LEMMA CloseStep ==
  ASSUME FilesInv, NEW p \in Procs, NEW fd \in Fds, Close(p, fd)
  PROVE  FilesInv'
  <1> DEFINE H == HeldBy(file)
             e == Extra(pwd, lost)
             i == file[p][fd]
             m == VfsClose(Nodes, i)
  <1>0. /\ Typed(file, pwd, lost) /\ Fits(Nodes, H, e) /\ file \in [Procs -> Table \cup {<<>>}]
    BY DEF FilesInv, Typed
  <1>1. /\ file[p] # <<>> /\ i # None /\ Commit(m) /\ pwd' = pwd /\ lost' = lost
        /\ file' = [file EXCEPT ![p][fd] = None]
    BY DEF Close, User, Alive
  <1>2. /\ i \in Inodes /\ <<p, fd>> \in H[i] /\ HeldBy(file') = Loses(H, i, <<p, fd>>)
        /\ file' \in [Procs -> Table \cup {<<>>}] /\ file'[p] # <<>>
    BY <1>0, <1>1, OneClosed
  <1>3. Fits(m, HeldBy(file'), e)
    <2>1. Fits(m, Loses(H, i, <<p, fd>>), e)
      BY <1>0, <1>2, FitsSteps
    <2> QED BY <1>2, <2>1
  <1>4. Fits(Nodes', HeldBy(file'), e)
    BY <1>1, <1>3, Committed
  <1>5. \A q \in Procs : file'[q] = <<>> <=> file[q] = <<>>
    BY <1>0, <1>1, <1>2
  <1> QED BY <1>0, <1>1, <1>2, <1>4, <1>5 DEF FilesInv, Typed

\* file_dup.
LEMMA FileDupStep ==
  ASSUME FilesInv, NEW p \in Procs, NEW fd \in Fds, NEW to \in Fds, FileDup(p, fd, to)
  PROVE  FilesInv'
  <1> DEFINE H == HeldBy(file)
             e == Extra(pwd, lost)
             i == file[p][fd]
             m == Dup(Nodes, i)
  <1>0. /\ Typed(file, pwd, lost) /\ Fits(Nodes, H, e) /\ file \in [Procs -> Table \cup {<<>>}]
    BY DEF FilesInv, Typed
  <1>1. /\ file[p] # <<>> /\ i # None /\ file[p][to] = None /\ Commit(m)
        /\ pwd' = pwd /\ lost' = lost /\ file' = [file EXCEPT ![p][to] = i]
    BY DEF FileDup, User, Alive
  <1>i. i \in Inodes
    BY <1>0, <1>1, OneClosed
  <1>2. /\ <<p, to>> \in (Procs \X Fds) \ H[i] /\ HeldBy(file') = Gets(H, i, <<p, to>>)
        /\ file' \in [Procs -> Table \cup {<<>>}] /\ file'[p] # <<>>
    <2>1. /\ <<p, to>> \in (Procs \X Fds) \ H[i]
          /\ HeldBy([file EXCEPT ![p][to] = i]) = Gets(H, i, <<p, to>>)
          /\ [file EXCEPT ![p][to] = i] \in [Procs -> Table \cup {<<>>}]
          /\ [file EXCEPT ![p][to] = i][p] # <<>>
      BY <1>0, <1>1, <1>i, OneOpened
    <2> QED BY <1>1, <2>1
  <1>3. Fits(m, HeldBy(file'), e)
    <2>1. Fits(m, Gets(H, i, <<p, to>>), e)
      BY <1>0, <1>2, <1>i, FitsSteps
    <2> QED BY <1>2, <2>1
  <1>4. Fits(Nodes', HeldBy(file'), e)
    BY <1>1, <1>3, Committed
  <1>5. \A q \in Procs : file'[q] = <<>> <=> file[q] = <<>>
    BY <1>0, <1>1, <1>2
  <1> QED BY <1>0, <1>1, <1>2, <1>4, <1>5 DEF FilesInv, Typed

\* The references that vfs_chdir takes and drops, in its order.
LEMMA ChdirCounts ==
  ASSUME NEW e \in [Inodes -> Nat], NEW i \in Inodes, NEW a \in Inodes, a # i, e[a] > 0
  PROVE  LET two == Plus(Plus(e, i), i)
         IN  /\ two[a] > 0 /\ Minus(two, a)[i] > 0
             /\ Minus(Minus(two, a), i) = Plus(Minus(e, a), i)
  <1> DEFINE one == Plus(e, i)
             two == Plus(one, i)
             x   == Minus(two, a)
             y   == Minus(x, i)
             z   == Plus(Minus(e, a), i)
  <1>1. one = [j \in Inodes |-> IF j = i THEN e[j] + 1 ELSE e[j]]
    BY DEF Plus
  <1>2. two = [j \in Inodes |-> IF j = i THEN e[j] + 2 ELSE e[j]]
    <2>1. two = [j \in Inodes |-> IF j = i THEN one[j] + 1 ELSE one[j]]
      BY <1>1 DEF Plus
    <2>2. \A j \in Inodes : (IF j = i THEN one[j] + 1 ELSE one[j]) = IF j = i THEN e[j] + 2 ELSE e[j]
      BY <1>1
    <2> QED BY <2>1, <2>2
  <1> HIDE DEF one, two
  <1>3. x = [j \in Inodes |-> IF j = i THEN e[j] + 2 ELSE IF j = a THEN e[j] - 1 ELSE e[j]]
    <2>1. x = [j \in Inodes |-> IF j = a THEN two[j] - 1 ELSE two[j]]
      BY <1>2 DEF Minus
    <2>2. \A j \in Inodes : (IF j = a THEN two[j] - 1 ELSE two[j])
                             = IF j = i THEN e[j] + 2 ELSE IF j = a THEN e[j] - 1 ELSE e[j]
      BY <1>2
    <2> QED BY <2>1, <2>2
  <1> HIDE DEF x
  <1>4. y = [j \in Inodes |-> IF j = i THEN e[j] + 1 ELSE IF j = a THEN e[j] - 1 ELSE e[j]]
    <2>1. y = [j \in Inodes |-> IF j = i THEN x[j] - 1 ELSE x[j]]
      BY <1>3 DEF Minus
    <2>2. \A j \in Inodes : (IF j = i THEN x[j] - 1 ELSE x[j])
                             = IF j = i THEN e[j] + 1 ELSE IF j = a THEN e[j] - 1 ELSE e[j]
      BY <1>3
    <2> QED BY <2>1, <2>2
  <1> DEFINE g == Minus(e, a)
  <1>5. g = [j \in Inodes |-> IF j = a THEN e[j] - 1 ELSE e[j]]
    BY DEF Minus
  <1> HIDE DEF g
  <1>6. z = [j \in Inodes |-> IF j = i THEN e[j] + 1 ELSE IF j = a THEN e[j] - 1 ELSE e[j]]
    <2>1. Plus(g, i) = [j \in Inodes |-> IF j = i THEN g[j] + 1 ELSE g[j]]
      BY <1>5 DEF Plus
    <2>2. \A j \in Inodes : (IF j = i THEN g[j] + 1 ELSE g[j])
                             = IF j = i THEN e[j] + 1 ELSE IF j = a THEN e[j] - 1 ELSE e[j]
      BY <1>5
    <2> QED BY <2>1, <2>2 DEF g
  <1>7. two[a] > 0 /\ x[i] > 0 /\ y = z
    BY <1>2, <1>3, <1>4, <1>6
  <1> QED BY <1>7 DEF x, two, one

\* vfs_chdir.
LEMMA ChdirStep ==
  ASSUME FilesInv, NEW p \in Procs, NEW i \in Inodes, Chdir(p, i)
  PROVE  FilesInv'
  <1> DEFINE H == HeldBy(file)
             e == Extra(pwd, lost)
             a == pwd[p]
             m == RefInc(Nodes, i)
             set == i \in Dirs /\ i # a
             v == [pwd EXCEPT ![p] = i]
  <1>0. /\ Typed(file, pwd, lost) /\ Fits(Nodes, H, e) /\ e \in [Inodes -> Nat]
        /\ file \in [Procs -> Table \cup {<<>>}] /\ pwd \in [Procs -> Dirs \cup {None}]
    BY DEF FilesInv, Typed, Fits
  <1>1. /\ file[p] # <<>> /\ file' = file /\ lost' = lost
        /\ Commit(RefDec(IF set THEN RefDec(RefInc(m, i), a) ELSE m, i))
        /\ pwd' = IF set THEN v ELSE pwd
    BY DEF Chdir, User, Alive
  <1>2. a \in Inodes /\ a # None
    BY <1>0, <1>1, Tables DEF Typed
  <1>3. Fits(m, H, Plus(e, i))
    BY <1>0, FitsSteps
  <1>4. CASE ~set
    <2>1. Plus(e, i)[i] > 0 /\ Minus(Plus(e, i), i) = e
      BY <1>0, BackAgain
    <2>2. Fits(RefDec(m, i), H, Minus(Plus(e, i), i))
      BY <1>3, <2>1, FitsSteps
    <2>3. Fits(RefDec(m, i), H, e)
      BY <2>1, <2>2
    <2>4. Fits(Nodes', H, e)
      BY <1>1, <1>4, <2>3, Committed
    <2> QED BY <1>0, <1>1, <1>4, <2>4 DEF FilesInv
  <1>5. CASE set
    <2> DEFINE two == Plus(Plus(e, i), i)
               n == RefDec(RefInc(m, i), a)
               u == DirGone(pwd, p)
    <2>0. e[a] > 0 /\ Extra(u, lost) = Minus(e, a)
      <3>1. pwd[p] = a
        OBVIOUS
      <3> HIDE DEF a
      <3> QED BY <1>0, <1>2, <3>1, DirLeft
    <2>1. two[a] > 0 /\ Minus(two, a)[i] > 0 /\ Minus(Minus(two, a), i) = Plus(Minus(e, a), i)
      BY <1>0, <1>2, <1>5, <2>0, ChdirCounts
    <2>2. Fits(RefInc(m, i), H, two)
      BY <1>3, FitsSteps
    <2>3. Fits(n, H, Minus(two, a))
      BY <1>2, <2>1, <2>2, FitsSteps
    <2>4. Fits(RefDec(n, i), H, Plus(Minus(e, a), i))
      <3>1. Fits(RefDec(n, i), H, Minus(Minus(two, a), i))
        BY <2>1, <2>3, FitsSteps
      <3> QED BY <2>1, <3>1
    <2>5. Typed([file EXCEPT ![p] = <<>>], u, lost)
      BY <1>0, <1>1, DestroyFits DEF DirGone
    <2>6. u[p] = None /\ v = [u EXCEPT ![p] = i]
      BY <1>0 DEF DirGone
    <2>7. /\ Extra(v, lost) = Plus(Minus(e, a), i)
          /\ \A j \in Inodes : IsFiniteSet(In(v, j))
      <3> HIDE DEF u
      <3>1. /\ Extra([u EXCEPT ![p] = i], lost) = Plus(Extra(u, lost), i)
            /\ \A j \in Inodes : IsFiniteSet(In([u EXCEPT ![p] = i], j))
        BY <2>5, <2>6, DirEntered
      <3> QED BY <2>0, <2>6, <3>1
    <2>8. Fits(Nodes', H, Extra(v, lost))
      <3>1. Commit(RefDec(n, i))
        BY <1>1, <1>5
      <3>2. Fits(RefDec(n, i), H, Extra(v, lost))
        BY <2>4, <2>7
      <3> QED BY <3>1, <3>2, Committed
    <2>9. Typed(file, v, lost)
      <3>1. v \in [Procs -> Dirs \cup {None}] /\ \A q \in Procs : file[q] = <<>> <=> v[q] = None
        BY <1>0, <1>1, <1>2, <1>5, Tables DEF Typed
      <3> QED BY <1>0, <2>7, <3>1 DEF Typed
    <2> QED BY <1>1, <1>5, <2>8, <2>9 DEF FilesInv
  <1> QED BY <1>4, <1>5

\* put_files of p for a table that the counts of m fit.
LEMMA ExitingStep ==
  ASSUME NEW f, Typed(f, pwd, lost), NEW m, Fits(m, HeldBy(f), Extra(pwd, lost)),
         NEW p \in Procs, f[p] # <<>>, Exiting(p, m, f[p]), lost' = lost,
         [f EXCEPT ![p] = <<>>] = [file EXCEPT ![p] = <<>>]
  PROVE  FilesInv'
  <1> DEFINE n == FilesDestroy(m, f[p], pwd[p])
  <1>1. Commit(n) /\ file' = [f EXCEPT ![p] = <<>>] /\ pwd' = [pwd EXCEPT ![p] = None]
    BY DEF Exiting
  <1>2. Fits(n, HeldBy(file'), Extra(pwd', lost')) /\ Typed(file', pwd', lost')
    BY <1>1, DestroyFits
  <1>3. Fits(Nodes', HeldBy(file'), Extra(pwd', lost'))
    BY <1>1, <1>2, Committed
  <1> QED BY <1>2, <1>3 DEF FilesInv

\* do_exit, put_files.
LEMMA ExitStep ==
  ASSUME FilesInv, NEW p \in Procs, Exit(p)
  PROVE  FilesInv'
  <1>1. file[p] # <<>> /\ Exiting(p, Nodes, file[p]) /\ lost' = lost
    BY DEF Exit, User, Alive
  <1>2. Typed(file, pwd, lost) /\ Fits(Nodes, HeldBy(file), Extra(pwd, lost))
    BY DEF FilesInv
  <1> QED BY <1>1, <1>2, ExitingStep

\* files_closeall of do_execve: the standard descriptors stay.
LEMMA ClosedAll ==
  ASSUME FilesInv, NEW p \in Procs, file[p] # <<>>
  PROVE  LET f == [file EXCEPT ![p] = Kept(file[p])]
         IN  /\ Typed(f, pwd, lost) /\ f[p] = Kept(file[p]) /\ f[p] # <<>>
             /\ Fits(CloseFds(Nodes, file[p], Std..NEntry-1), HeldBy(f), Extra(pwd, lost))
             /\ FreeFds(f[p]) # {}
  <1> DEFINE t == file[p]
             k == Kept(t)
             f == [file EXCEPT ![p] = k]
             fds == Std..NEntry-1
  <1>0. /\ Typed(file, pwd, lost) /\ Fits(Nodes, HeldBy(file), Extra(pwd, lost))
        /\ file \in [Procs -> Table \cup {<<>>}] /\ t \in Table /\ <<>> \notin Table
    BY Tables DEF FilesInv, Typed
  <1>1. Std \in Fds /\ fds \in SUBSET Fds /\ \A fd \in Fds : fd < Std <=> fd \notin fds
    BY FilesAssumption DEF Fds
  <1>2. k \in Table /\ k # <<>> /\ \A fd \in Fds : k[fd] = IF fd \in fds THEN None ELSE t[fd]
    BY <1>0, <1>1 DEF Kept, Table
  <1> HIDE DEF k, fds
  <1>3. /\ Has(HeldBy(file), p, t, fds) /\ HeldBy(f) = Less(HeldBy(file), p, fds, NEntry)
        /\ f \in [Procs -> Table \cup {<<>>}]
    BY <1>0, <1>1, <1>2, ManyClosed
  <1>4. Fits(CloseFds(Nodes, t, fds), HeldBy(f), Extra(pwd, lost))
    <2>1. Fits(CloseFds(Nodes, t, fds), Less(HeldBy(file), p, fds, NEntry), Extra(pwd, lost))
      BY <1>0, <1>1, <1>3, CloseFdsFits
    <2> QED BY <1>3, <2>1
  <1>5. f[p] = k /\ \A q \in Procs : f[q] = <<>> <=> file[q] = <<>>
    BY <1>0, <1>2
  <1>6. Typed(f, pwd, lost)
    BY <1>0, <1>3, <1>5 DEF Typed
  <1>7. Std \in FreeFds(k)
    BY <1>1, <1>2, FilesAssumption DEF FreeFds, fds
  <1> QED BY <1>2, <1>4, <1>5, <1>6, <1>7 DEF k, fds

\* do_execve of a missing file: the tables are closed, then the process exits.
LEMMA ExecMissingStep ==
  ASSUME FilesInv, NEW p \in Procs, ExecMissing(p)
  PROVE  FilesInv'
  <1> DEFINE f == [file EXCEPT ![p] = Kept(file[p])]
             m == CloseFds(Nodes, file[p], Std..NEntry-1)
  <1>1. file[p] # <<>> /\ Exiting(p, m, Kept(file[p])) /\ lost' = lost
    BY DEF ExecMissing, User, Alive
  <1>2. /\ Typed(f, pwd, lost) /\ f[p] = Kept(file[p]) /\ f[p] # <<>>
        /\ Fits(m, HeldBy(f), Extra(pwd, lost))
    BY <1>1, ClosedAll
  <1>3. [f EXCEPT ![p] = <<>>] = [file EXCEPT ![p] = <<>>]
    BY <1>2 DEF FilesInv, Typed
  <1> HIDE DEF f, m
  <1>4. Exiting(p, m, f[p])
    BY <1>1, <1>2
  <1>5. lost' = lost
    BY <1>1
  <1> QED BY ONLY <1>2, <1>3, <1>4, <1>5, p \in Procs, ExitingStep

\* do_execve, in its three outcomes.
LEMMA ExecStep ==
  ASSUME FilesInv, NEW p \in Procs, NEW i \in Inodes, NEW loads \in BOOLEAN, Exec(p, i, loads)
  PROVE  FilesInv'
  <1> DEFINE k == Kept(file[p])
             f == [file EXCEPT ![p] = k]
             fd == Min(FreeFds(k))
             closed == CloseFds(Nodes, file[p], Std..NEntry-1)
             opened == VfsOpen(closed, i, Read)
             e == Extra(pwd, lost)
             g == [f EXCEPT ![p][fd] = i]
  <1>0. file[p] # <<>> /\ lost' = lost /\ FilesInv /\ file \in [Procs -> Table \cup {<<>>}]
    BY DEF Exec, User, Alive, FilesInv, Typed
  <1>1. /\ Typed(f, pwd, lost) /\ f[p] = k /\ f[p] # <<>>
        /\ Fits(closed, HeldBy(f), e) /\ FreeFds(k) # {}
    BY <1>0, ClosedAll
  <1>2. fd \in Fds /\ k[fd] = None
    BY <1>1, FirstFree
  <1>3. CASE i \in Dirs
    <2>1. Commit([opened EXCEPT !.err = "seek"]) /\ file' = file /\ pwd' = pwd
      BY <1>3 DEF Exec
    <2>2. [opened EXCEPT !.err = "seek"].err = "seek"
      BY DEF VfsOpen
    <2>3. node' = node
      BY <2>1, <2>2 DEF Commit
    <2> QED BY <1>0, <2>1, <2>3 DEF FilesInv, Nodes
  <1> HIDE DEF k, f, fd, closed
  <1>4. ASSUME i \notin Dirs
        PROVE  /\ f \in [Procs -> Table \cup {<<>>}]
               /\ <<p, fd>> \in (Procs \X Fds) \ HeldBy(f)[i]
               /\ HeldBy(g) = Gets(HeldBy(f), i, <<p, fd>>)
               /\ g \in [Procs -> Table \cup {<<>>}] /\ g[p] # <<>>
               /\ Fits(opened, HeldBy(g), e)
    <2>0. f \in [Procs -> Table \cup {<<>>}] /\ f[p] # <<>> /\ f[p][fd] = None
      BY <1>1, <1>2 DEF Typed
    <2>1. /\ <<p, fd>> \in (Procs \X Fds) \ HeldBy(f)[i]
          /\ HeldBy([f EXCEPT ![p][fd] = i]) = Gets(HeldBy(f), i, <<p, fd>>)
          /\ [f EXCEPT ![p][fd] = i] \in [Procs -> Table \cup {<<>>}]
          /\ [f EXCEPT ![p][fd] = i][p] # <<>>
      BY <1>2, <2>0, OneOpened
    <2>2. opened.ok /\ Opens(opened, HeldBy(f), e, i)
      BY <1>1, <1>4, VfsOpenFits
    <2>3. Fits(opened, Gets(HeldBy(f), i, <<p, fd>>), e)
      BY <2>1, <2>2 DEF Opens
    <2> QED BY <2>0, <2>1, <2>3
  <1>5. CASE i \notin Dirs /\ loads
    <2>1. Commit(VfsClose(opened, i)) /\ file' = f /\ pwd' = pwd
      BY <1>5 DEF Exec, f, k, closed
    <2> HIDE DEF opened, g
    <2>2. <<p, fd>> \in HeldBy(g)[i] /\ Loses(HeldBy(g), i, <<p, fd>>) = HeldBy(f)
      <3>1. /\ <<p, fd>> \notin HeldBy(f)[i] /\ HeldBy(g) = Gets(HeldBy(f), i, <<p, fd>>)
        BY <1>4, <1>5
      <3> DEFINE G == HeldBy(f)
      <3>2. G = [j \in Inodes |-> G[j]]
        BY DEF HeldBy
      <3> HIDE DEF G
      <3>3. <<p, fd>> \in Gets(G, i, <<p, fd>>)[i]
        BY <3>2 DEF Gets
      <3>4. \A j \in Inodes : Loses(Gets(G, i, <<p, fd>>), i, <<p, fd>>)[j] = G[j]
        BY <3>1, <3>2 DEF Gets, Loses, G
      <3>5. Loses(Gets(G, i, <<p, fd>>), i, <<p, fd>>)
              = [j \in Inodes |-> Loses(Gets(G, i, <<p, fd>>), i, <<p, fd>>)[j]]
        BY <3>2 DEF Gets, Loses
      <3>6. Loses(Gets(G, i, <<p, fd>>), i, <<p, fd>>) = G
        BY ONLY <3>2, <3>4, <3>5
      <3> QED BY <3>1, <3>3, <3>6 DEF G
    <2>3. Fits(VfsClose(opened, i), HeldBy(f), e)
      <3>1. Fits(VfsClose(opened, i), Loses(HeldBy(g), i, <<p, fd>>), e)
        BY <1>4, <1>5, <2>2, FitsSteps
      <3> QED BY <2>2, <3>1
    <2>4. Fits(Nodes', HeldBy(f), e)
      BY <2>1, <2>3, Committed
    <2> QED BY <1>0, <1>1, <2>1, <2>4 DEF FilesInv
  <1>6. CASE i \notin Dirs /\ ~loads
    <2>1. Exiting(p, opened, [k EXCEPT ![fd] = i])
      BY <1>6 DEF Exec, k, closed, fd
    <2>2. g[p] = [k EXCEPT ![fd] = i] /\ \A q \in Procs : g[q] = <<>> <=> f[q] = <<>>
      BY <1>1, <1>4, <1>6
    <2>3. [g EXCEPT ![p] = <<>>] = [file EXCEPT ![p] = <<>>]
      BY <1>0 DEF f
    <2> HIDE DEF opened, g
    <2>4. Typed(g, pwd, lost)
      BY <1>1, <1>4, <1>6, <2>2 DEF Typed
    <2>5. Exiting(p, opened, g[p]) /\ lost' = lost /\ g[p] # <<>> /\ Fits(opened, HeldBy(g), Extra(pwd, lost))
      BY <1>0, <1>4, <1>6, <2>1, <2>2
    <2> QED BY ONLY <2>3, <2>4, <2>5, p \in Procs, ExitingStep
  <1> QED BY <1>3, <1>5, <1>6

\* initproc starts in the root, with no descriptor open.
LEMMA InitFiles == Init => FilesInv
  <1> SUFFICES ASSUME Init PROVE FilesInv
    OBVIOUS
  <1>0. /\ init \in Procs /\ root \in Dirs /\ None \notin Inodes /\ NEntry \in Nat \ {0}
        /\ Dirs \subseteq Inodes /\ <<>> \notin Table
    BY PidAssumption, FilesAssumption, Tables
  <1>1. /\ file = [p \in Procs |-> IF p = init THEN Closed ELSE <<>>]
        /\ pwd = [p \in Procs |-> IF p = init THEN root ELSE None]
        /\ node = [i \in Inodes |-> [ref  |-> IF i = root THEN 2 ELSE IF i \in Devs THEN 1 ELSE 0,
                                     open |-> 0]]
        /\ lost = [i \in Inodes |-> 0]
    BY DEF Init
  <1>2. Closed \in Table /\ Closed # <<>> /\ \A fd \in Fds : Closed[fd] = None
    BY <1>0 DEF Closed, Table
  <1>3. HeldBy(file) = [i \in Inodes |-> {}]
    <2>1. \A d \in Procs \X Fds, i \in Inodes : ~(file[d[1]] # <<>> /\ file[d[1]][d[2]] = i)
      BY <1>0, <1>1, <1>2
    <2> QED BY <2>1 DEF HeldBy
  <1>4. \A i \in Inodes : In(pwd, i) = IF i = root THEN {init} ELSE {}
    BY <1>0, <1>1 DEF In
  <1>5. \A i \in Inodes : /\ IsFiniteSet(In(pwd, i))
                          /\ Cardinality(In(pwd, i)) = IF i = root THEN 1 ELSE 0
    BY <1>4, FS_Singleton, FS_EmptySet
  <1>6. Typed(file, pwd, lost)
    BY <1>0, <1>1, <1>2, <1>5 DEF Typed
  <1>7. /\ Extra(pwd, lost) \in [Inodes -> Nat]
        /\ \A i \in Inodes : Extra(pwd, lost)[i] = node[i].ref
    BY <1>1, <1>5 DEF Extra
  <1>8. Shaped(Nodes) /\ Nodes.err = "no" /\ Nodes.node = node
    BY <1>1 DEF Shaped, Nodes, Node
  <1>9. Fits(Nodes, HeldBy(file), Extra(pwd, lost))
    <2>1. HeldBy(file) \in [Inodes -> SUBSET (Procs \X Fds)]
      BY DEF HeldBy
    <2>2. ASSUME NEW i \in Inodes
          PROVE  /\ IsFiniteSet(HeldBy(file)[i]) /\ node[i].open = Cardinality(HeldBy(file)[i])
                 /\ node[i].ref = Cardinality(HeldBy(file)[i]) + Extra(pwd, lost)[i]
      <3>1. HeldBy(file)[i] = {} /\ node[i].open = 0
        BY <1>1, <1>3
      <3>2. IsFiniteSet(HeldBy(file)[i]) /\ Cardinality(HeldBy(file)[i]) = 0
        BY <3>1, FS_EmptySet
      <3> QED BY <1>7, <3>1, <3>2
    <2> QED BY <1>7, <1>8, <2>1, <2>2 DEF Fits
  <1> QED BY <1>6, <1>9 DEF FilesInv

\* Each step preserves the invariant.
LEMMA NextFiles == FilesInv /\ [Next]_vars => FilesInv'
  <1> SUFFICES ASSUME FilesInv, [Next]_vars PROVE FilesInv'
    OBVIOUS
  <1>1. CASE UNCHANGED <<file, pwd, node, lost>>
    BY <1>1 DEF FilesInv, Nodes
  <1>2. ASSUME NEW p \in Procs, NEW c \in Procs, Fork(p, c) PROVE FilesInv'
    BY <1>2, ForkStep
  <1>3. ASSUME NEW p \in Procs, NEW i \in Inodes, NEW flags \in [DOMAIN Read -> BOOLEAN], Open(p, i, flags)
        PROVE  FilesInv'
    BY <1>3, OpenStep
  <1>4. ASSUME NEW p \in Procs, NEW fd \in Fds, Close(p, fd) PROVE FilesInv'
    BY <1>4, CloseStep
  <1>5. ASSUME NEW p \in Procs, NEW fd \in Fds, NEW to \in Fds, FileDup(p, fd, to) PROVE FilesInv'
    BY <1>5, FileDupStep
  <1>6. ASSUME NEW p \in Procs, NEW i \in Inodes, Chdir(p, i) PROVE FilesInv'
    BY <1>6, ChdirStep
  <1>7. ASSUME NEW p \in Procs, NEW i \in Inodes, NEW loads \in BOOLEAN, Exec(p, i, loads) PROVE FilesInv'
    BY <1>7, ExecStep
  <1>8. ASSUME NEW p \in Procs, ExecMissing(p) PROVE FilesInv'
    BY <1>8, ExecMissingStep
  <1>9. ASSUME NEW p \in Procs, Exit(p) PROVE FilesInv'
    BY <1>9, ExitStep
  <1>10. ASSUME \/ (Scan \/ Link) /\ UNCHANGED fileVars
                \/ \E p \in Procs : OpenCreate(p) \/ Reap(p)
                \/ \E p \in Procs, fd \in Fds, op \in {"read", "seek", "fsync", "getdirentry"} : Use(p, fd, op)
                \/ UNCHANGED vars
         PROVE  UNCHANGED <<file, pwd, node, lost>>
    BY <1>10 DEF OpenCreate, Reap, Use, fileVars, vars
  <1> QED BY <1>1, <1>2, <1>3, <1>4, <1>5, <1>6, <1>7, <1>8, <1>9, <1>10 DEF Next

\* The counts of the inodes fit the tables in every reachable state.
THEOREM FilesInvariance == Spec => []FilesInv
  <1> QED BY InitFiles, NextFiles, PTL DEF Spec

\* file.c, fs.c, inode.c: with any number of processes, descriptors and inodes, the counts
\* of an inode are its users; only open with O_CREAT and O_EXCL loses a reference.
THEOREM CountsAreUsers == Spec => []Counted
  <1>1. FilesInv => Counted
    <2> SUFFICES ASSUME FilesInv, NEW i \in Inodes
                 PROVE  LET fds  == {d \in Procs \X Fds : file[d[1]] # <<>> /\ file[d[1]][d[2]] = i}
                            dirs == {p \in Procs : pwd[p] = i}
                        IN  /\ node[i].open = Cardinality(fds)
                            /\ node[i].ref = Cardinality(fds) + Cardinality(dirs) + lost[i]
                                             + (IF i = root \/ i \in Devs THEN 1 ELSE 0)
      BY DEF Counted
    <2> DEFINE c == Cardinality(HeldBy(file)[i])
               d == Cardinality(In(pwd, i))
               x == IF i = root \/ i \in Devs THEN 1 ELSE 0
    <2>1. node[i].open = c /\ node[i].ref = c + Extra(pwd, lost)[i] /\ IsFiniteSet(HeldBy(file)[i])
      BY DEF FilesInv, Fits, Nodes
    <2>2. Extra(pwd, lost)[i] = d + lost[i] + x
      BY DEF Extra
    <2>3. c \in Nat /\ d \in Nat /\ lost[i] \in Nat /\ x \in Nat
      BY <2>1, FS_CardinalityType DEF FilesInv, Typed
    <2> HIDE DEF c, d, x
    <2>4. node[i].open = c /\ node[i].ref = c + d + lost[i] + x
      BY <2>1, <2>2, <2>3
    <2> QED BY <2>4 DEF c, d, x, HeldBy, In
  <1> QED BY <1>1, FilesInvariance, PTL
=============================================================================
