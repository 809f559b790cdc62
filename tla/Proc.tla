-------------------------------- MODULE Proc --------------------------------
(***************************************************************************)
(* Processes of the lab8 kernel: fork, exit, wait, kill, sleep and the     *)
(* blocking read of the keyboard, the context switch that all of them end  *)
(* in, and the two interrupts that wake processes (timer and keyboard).    *)
(*                                                                         *)
(* The machine has one CPU and the kernel is not preemptible: trap() calls *)
(* schedule() only on the way back to user mode.  So kernel code runs from *)
(* one call of schedule() to the next without another process stepping in, *)
(* and a step of this module is such a stretch of code.  System calls run  *)
(* with interrupts enabled, so an interrupt may fall between two           *)
(* stretches; where the code tests shared state with interrupts enabled    *)
(* and acts on it later (do_kill, and the way into schedule()), the        *)
(* stretch is cut in two.                                                  *)
(*                                                                         *)
(* Abstracted: which member of the run pool pick_next returns (module      *)
(* Stride), how many ticks a timer has left (module Timer), the value of a *)
(* pid (a proc_struct stands for its pid), memory and files.               *)
(***************************************************************************)
EXTENDS Integers, FiniteSets

CONSTANTS
  Users,       \* the proc_structs kmalloc can hand out, besides the two below
  idle,        \* idleproc, pid 0
  init,        \* initproc, pid 1
  NoProc,      \* the null pointer
  AnyChild,    \* pid 0 as the argument of do_wait: any child
  MaxProcess,  \* MAX_PROCESS
  BufSize,     \* STDIN_BUFSIZE
  MaxRead      \* the longest keyboard read a process asks for (a bound)

ASSUME ProcAssumption ==
  /\ idle # init
  /\ {idle, init} \cap Users = {}
  /\ NoProc # AnyChild
  /\ {NoProc, AnyChild} \cap (Users \cup {idle, init}) = {}
  /\ MaxProcess \in Nat
  /\ BufSize \in Nat \ {0}
  /\ MaxRead \in Nat

VARIABLES
  current,       \* the process on the CPU
  state,         \* proc->state, "FREE" for memory that holds no proc_struct
  wait_state,    \* proc->wait_state, "none" for 0
  exiting,       \* the processes with PF_EXITING in proc->flags
  need_resched,  \* the processes with proc->need_resched set
  pool,          \* the run queue
  parent, cptr, optr, yptr,  \* proc->parent, youngest child, older and younger sibling
  nr_process,
  pc,            \* where in the kernel (or in user mode) a process stands
  tgt,           \* the pid argument of the do_wait or do_kill in progress
  timers,        \* the processes with a timer in timer_list
  kbdq,          \* the processes with a wait_t in the wait queue of stdin
  avail,         \* p_wpos - p_rpos: unread characters of stdin
  rem            \* len - ret: characters a dev_stdin_read still wants

links == <<parent, cptr, optr, yptr>>
stdin == <<kbdq, avail, rem>>
vars  == <<current, state, wait_state, exiting, need_resched, pool, links,
           nr_process, pc, tgt, timers, stdin>>

Proc == Users \cup {idle, init}

(***************************************************************************)
(* Where a process calls schedule(), and where it goes on once it has the  *)
(* CPU again.  "idle" is the loop of cpu_idle, "trapret" the end of trap().*)
(***************************************************************************)
Resume == [idle         |-> "idle",
           trapret      |-> "user",
           wait_sched   |-> "wait_woken",
           sleep_sched  |-> "sleep_woken",
           kbd_sched    |-> "kbd_woken",
           zombie_sched |-> "dead",
           init_sched   |-> "wait"]

-----------------------------------------------------------------------------
Kids(p)     == {q \in Proc : state[q] # "FREE" /\ parent[q] = p}
ReapAny(S)  == S                             \* mutant: do_wait forgets to test the state
Zombies(S)  == {q \in S : state[q] = "ZOMBIE"}
Wanted(p)   == {q \in Kids(p) : tgt[p] = AnyChild \/ q = tgt[p]}
InUser(p)   == current = p /\ p \in Users /\ pc[p] = "user"
In(p, l)    == current = p /\ pc[p] = l
Goto(p, l)  == pc' = [pc EXCEPT ![p] = l]

\* Mutant: wakeup_proc enqueues the running process too.
WakeupCurrent(S, st) ==
  LET asleep == {q \in S : st[q] # "RUNNABLE"}
  IN  /\ state' = [q \in Proc |-> IF q \in asleep THEN "RUNNABLE" ELSE st[q]]
      /\ wait_state' = [q \in Proc |-> IF q \in asleep THEN "none" ELSE wait_state[q]]
      /\ pool' = pool \cup (asleep \ {idle})

\* wakeup_proc on every process of S, when st is the state at that moment.
WakeupProc(S, st) ==
  LET asleep == {q \in S : st[q] # "RUNNABLE"}
  IN  /\ state' = [q \in Proc |-> IF q \in asleep THEN "RUNNABLE" ELSE st[q]]
      /\ wait_state' = [q \in Proc |-> IF q \in asleep THEN "none" ELSE wait_state[q]]
      /\ pool' = pool \cup (asleep \ {current, idle})

\* set_links: c becomes the youngest child of p.
SetLinks(p, c) ==
  /\ parent' = [parent EXCEPT ![c] = p]
  /\ optr' = [optr EXCEPT ![c] = cptr[p]]
  /\ yptr' = [q \in Proc |-> IF q = c THEN NoProc
                             ELSE IF q = cptr[p] THEN c ELSE yptr[q]]
  /\ cptr' = [cptr EXCEPT ![p] = c]
  /\ nr_process' = nr_process + 1

\* Mutant: the first child's departure does not move cptr on.
KeepCptr(z) ==
  /\ parent' = [parent EXCEPT ![z] = NoProc]
  /\ yptr' = [q \in Proc |-> IF q = z THEN NoProc
                             ELSE IF q = optr[z] THEN yptr[z] ELSE yptr[q]]
  /\ optr' = [q \in Proc |-> IF q = z THEN NoProc
                             ELSE IF q = yptr[z] THEN optr[z] ELSE optr[q]]
  /\ nr_process' = nr_process - 1
  /\ UNCHANGED cptr

\* remove_links; kfree follows, so what z itself points to is forgotten.
RemoveLinks(z) ==
  /\ parent' = [parent EXCEPT ![z] = NoProc]
  /\ yptr' = [q \in Proc |-> IF q = z THEN NoProc
                             ELSE IF q = optr[z] THEN yptr[z] ELSE yptr[q]]
  /\ optr' = [q \in Proc |-> IF q = z THEN NoProc
                             ELSE IF q = yptr[z] THEN optr[z] ELSE optr[q]]
  /\ cptr' = IF yptr[z] = NoProc THEN [cptr EXCEPT ![parent[z]] = optr[z]] ELSE cptr
  /\ nr_process' = nr_process - 1

\* The part of do_fork after the allocations succeeded: alloc_proc, set_links,
\* wakeup_proc.  The child first runs at forkret, which returns to user mode.
DoFork(p, c, after) ==
  /\ nr_process < MaxProcess
  /\ state[c] = "FREE"
  /\ state' = [state EXCEPT ![c] = "RUNNABLE"]
  /\ pool' = pool \cup {c}
  /\ SetLinks(p, c)
  /\ pc' = [pc EXCEPT ![p] = after, ![c] = "user"]
  /\ UNCHANGED <<current, wait_state, exiting, need_resched, tgt, timers, stdin>>

\* Mutant: do_exit leaves its children where they are.
AdoptNone(p) == UNCHANGED links

\* Mutant: a child moved to init keeps its younger sibling.
AdoptKeepYptr(p) ==
  LET kids == Kids(p)
  IN  /\ parent' = [q \in Proc |-> IF q \in kids THEN init ELSE parent[q]]
      /\ optr' = [q \in Proc |-> IF q \notin kids THEN optr[q]
                                 ELSE IF yptr[q] = NoProc THEN cptr[init] ELSE yptr[q]]
      /\ cptr' = [cptr EXCEPT ![p] = NoProc,
                              ![init] = IF kids = {} THEN @
                                        ELSE CHOOSE k \in kids : optr[k] = NoProc]
      /\ UNCHANGED yptr

\* The loop of do_exit moves the children of p one by one, youngest first, to the
\* front of init's children, which reverses them.
Adopt(p) ==
  LET kids == Kids(p)
      last == CHOOSE k \in kids : optr[k] = NoProc
  IN  /\ parent' = [q \in Proc |-> IF q \in kids THEN init ELSE parent[q]]
      /\ optr' = [q \in Proc |-> IF q \notin kids THEN optr[q]
                                 ELSE IF yptr[q] = NoProc THEN cptr[init] ELSE yptr[q]]
      /\ yptr' = [q \in Proc |-> IF q \in kids THEN optr[q]
                                 ELSE IF kids # {} /\ q = cptr[init] THEN cptr[p]
                                 ELSE yptr[q]]
      /\ cptr' = [cptr EXCEPT ![p] = NoProc,
                              ![init] = IF kids = {} THEN @ ELSE last]

\* Mutant: init is not told of the zombies it is given.
WakeParentOnly(p) == {q \in {parent[p]} : wait_state[q] = "CHILD"}

\* Mutant: init is taken to poll for its children.
WakeNotInit(p) == {q \in {parent[p]} \ {init} : wait_state[q] = "CHILD"}

\* Whom do_exit wakes: the parent, and init if it is given a zombie.
ExitWakes(p) ==
  {q \in {parent[p]} : wait_state[q] = "CHILD"}
    \cup {q \in {init} : wait_state[q] = "CHILD" /\ Zombies(Kids(p)) # {}}

\* do_exit up to its call of schedule().
DoExit(p) ==
  /\ WakeupProc(ExitWakes(p), [state EXCEPT ![p] = "ZOMBIE"])
  /\ Adopt(p)
  /\ tgt' = [tgt EXCEPT ![p] = NoProc]
  /\ Goto(p, "zombie_sched")
  /\ UNCHANGED <<current, exiting, need_resched, nr_process, timers, stdin>>

-----------------------------------------------------------------------------
(* System calls of a user process. *)

Fork(p, c) == InUser(p) /\ c \in Users /\ DoFork(p, c, "trapret")

\* A system call that leaves this state alone: one that fails (do_fork undoes what
\* it allocated, do_kill finds nobody), sleep(0), getpid, or one on files.
NoEffect(p) ==
  /\ InUser(p)
  /\ Goto(p, "trapret")
  /\ UNCHANGED <<current, state, wait_state, exiting, need_resched, pool, links,
                 nr_process, tgt, timers, stdin>>

Exit(p) == InUser(p) /\ DoExit(p)

Yield(p) ==
  /\ InUser(p)
  /\ need_resched' = need_resched \cup {p}
  /\ Goto(p, "trapret")
  /\ UNCHANGED <<current, state, wait_state, exiting, pool, links, nr_process,
                 tgt, timers, stdin>>

Wait(p, t) ==
  /\ InUser(p)
  /\ t \in {AnyChild} \cup {q \in Users : state[q] # "FREE"}
  /\ tgt' = [tgt EXCEPT ![p] = t]
  /\ Goto(p, "wait")
  /\ UNCHANGED <<current, state, wait_state, exiting, need_resched, pool, links,
                 nr_process, timers, stdin>>

\* do_wait, label found: unhash_proc, remove_links, put_kstack, kfree.
WaitReap(p, z) ==
  /\ In(p, "wait")
  /\ z \in Zombies(Wanted(p))
  /\ state' = [state EXCEPT ![z] = "FREE"]
  /\ exiting' = exiting \ {z}
  /\ RemoveLinks(z)
  /\ tgt' = [tgt EXCEPT ![p] = IF p = init THEN AnyChild ELSE NoProc]
  /\ pc' = [pc EXCEPT ![p] = IF p = init THEN "init_sched" ELSE "trapret",
                      ![z] = "none"]
  /\ UNCHANGED <<current, wait_state, need_resched, pool, timers, stdin>>

\* do_wait with haskid and no zombie, up to its call of schedule().
WaitBlock(p) ==
  /\ In(p, "wait")
  /\ Wanted(p) # {}
  /\ Zombies(Wanted(p)) = {}
  /\ state' = [state EXCEPT ![p] = "SLEEPING"]
  /\ wait_state' = [wait_state EXCEPT ![p] = "CHILD"]
  /\ Goto(p, "wait_sched")
  /\ UNCHANGED <<current, exiting, need_resched, pool, links, nr_process, tgt,
                 timers, stdin>>

\* do_wait returns -E_BAD_PROC.  init_main then leaves its loop and ends.
WaitNone(p) ==
  /\ In(p, "wait")
  /\ Wanted(p) = {}
  /\ tgt' = [tgt EXCEPT ![p] = NoProc]
  /\ Goto(p, IF p = init THEN "halt" ELSE "trapret")
  /\ UNCHANGED <<current, state, wait_state, exiting, need_resched, pool, links,
                 nr_process, timers, stdin>>

\* Mutant: do_wait does not look at PF_EXITING when it is woken.
WaitAgain(p) ==
  /\ In(p, "wait_woken")
  /\ Goto(p, "wait")
  /\ UNCHANGED <<current, state, wait_state, exiting, need_resched, pool, links,
                 nr_process, tgt, timers, stdin>>

\* do_wait, after schedule() returned: leave if killed, else goto repeat.
WaitWoken(p) ==
  /\ In(p, "wait_woken")
  /\ \/ p \in exiting /\ DoExit(p)
     \/ /\ p \notin exiting
        /\ Goto(p, "wait")
        /\ UNCHANGED <<current, state, wait_state, exiting, need_resched, pool,
                       links, nr_process, tgt, timers, stdin>>

\* do_kill up to and including its test of wait_state.  Killing init is a
\* kernel panic by design ("initproc exit") and no program of user/ does it.
Kill(p, t) ==
  /\ InUser(p)
  /\ t \in Users /\ state[t] # "FREE"
  /\ exiting' = exiting \cup {t}
  /\ IF t \notin exiting /\ wait_state[t] # "none"
       THEN tgt' = [tgt EXCEPT ![p] = t] /\ Goto(p, "kill")
       ELSE UNCHANGED tgt /\ Goto(p, "trapret")
  /\ UNCHANGED <<current, state, wait_state, need_resched, pool, links,
                 nr_process, timers, stdin>>

\* do_kill's call of wakeup_proc; an interrupt may have woken the target already.
KillWake(p) ==
  /\ In(p, "kill")
  /\ WakeupProc({tgt[p]}, state)
  /\ tgt' = [tgt EXCEPT ![p] = NoProc]
  /\ Goto(p, "trapret")
  /\ UNCHANGED <<current, exiting, need_resched, links, nr_process, timers, stdin>>

\* do_sleep up to its call of schedule().
Sleep(p) ==
  /\ InUser(p)
  /\ state' = [state EXCEPT ![p] = "SLEEPING"]
  /\ wait_state' = [wait_state EXCEPT ![p] = "TIMER"]
  /\ timers' = timers \cup {p}
  /\ Goto(p, "sleep_sched")
  /\ UNCHANGED <<current, exiting, need_resched, pool, links, nr_process, tgt, stdin>>

\* Mutant: do_sleep trusts that its timer has run out.
KeepTimer(p) ==
  /\ In(p, "sleep_woken")
  /\ Goto(p, "trapret")
  /\ UNCHANGED <<current, state, wait_state, exiting, need_resched, pool, links,
                 nr_process, tgt, timers, stdin>>

\* do_sleep after schedule() returned: del_timer.
SleepWoken(p) ==
  /\ In(p, "sleep_woken")
  /\ timers' = timers \ {p}
  /\ Goto(p, "trapret")
  /\ UNCHANGED <<current, state, wait_state, exiting, need_resched, pool, links,
                 nr_process, tgt, stdin>>

\* The loop of dev_stdin_read, with interrupts disabled, when n characters
\* are still wanted: up to its return or its call of schedule().
ReadLoop(p, n) ==
  IF avail >= n
    THEN /\ avail' = avail - n
         /\ rem' = [rem EXCEPT ![p] = 0]
         /\ kbdq' = kbdq
         /\ Goto(p, "trapret")
         /\ UNCHANGED <<state, wait_state>>
    ELSE /\ avail' = 0
         /\ rem' = [rem EXCEPT ![p] = n - avail]
         /\ kbdq' = kbdq \cup {p}
         /\ state' = [state EXCEPT ![p] = "SLEEPING"]
         /\ wait_state' = [wait_state EXCEPT ![p] = "KBD"]
         /\ Goto(p, "kbd_sched")

Read(p, n) ==
  /\ InUser(p)
  /\ ReadLoop(p, n)
  /\ UNCHANGED <<current, exiting, need_resched, pool, links, nr_process, tgt, timers>>

\* dev_stdin_read after schedule() returned.  wakeup_queue takes the wait_t off
\* the queue as it sets WT_KBD in it; a wait_t still queued says WT_INTERRUPTED.
ReadWoken(p) ==
  /\ In(p, "kbd_woken")
  /\ \/ p \notin kbdq /\ ReadLoop(p, rem[p])
     \/ /\ p \in kbdq
        /\ kbdq' = kbdq \ {p}
        /\ rem' = [rem EXCEPT ![p] = 0]
        /\ Goto(p, "trapret")
        /\ UNCHANGED <<state, wait_state, avail>>
  /\ UNCHANGED <<current, exiting, need_resched, pool, links, nr_process, tgt, timers>>

-----------------------------------------------------------------------------
(* The end of trap(), on the way back to user mode. *)

TrapExit(p) == In(p, "trapret") /\ p \in exiting /\ DoExit(p)

TrapIret(p) ==
  /\ In(p, "trapret")
  /\ p \notin exiting \cup need_resched
  /\ Goto(p, "user")
  /\ UNCHANGED <<current, state, wait_state, exiting, need_resched, pool, links,
                 nr_process, tgt, timers, stdin>>

\* schedule(), with proc_run of the process it picks.
Schedule(next) ==
  LET here   == pc[current]
      queued == pool \cup {q \in {current} \ {idle} : state[q] = "RUNNABLE"}
  IN  /\ here \in DOMAIN Resume
      /\ here = "idle" => current \in need_resched
      /\ here = "trapret" => current \in need_resched \ exiting
      /\ next \in IF queued = {} THEN {idle} ELSE queued
      /\ pool' = queued \ {next}
      /\ need_resched' = need_resched \ {current}
      /\ current' = next
      /\ Goto(current, Resume[here])
      /\ UNCHANGED <<state, wait_state, exiting, links, nr_process, tgt, timers, stdin>>

\* init_main creates user_main, which execs a user program, and then waits.  The
\* kernel threads of check_sync are the subject of module PhilMonitor.
InitFork(c) == In(init, "boot") /\ c \in Users /\ DoFork(init, c, "wait")

\* init_main has ended, and the kernel with it.
Halted == pc[init] = "halt" /\ UNCHANGED vars

-----------------------------------------------------------------------------
(* Interrupts.  One taken in user mode returns through the end of trap(). *)

Interrupted == pc' = [pc EXCEPT ![current] = IF @ = "user" THEN "trapret" ELSE @]

\* run_timer_list, when the timers of D reach 0.  The time slice of the running
\* process may end (sched_class_proc_tick); idle always asks for a schedule().
Tick(D) ==
  /\ pc[init] # "halt"
  /\ D \subseteq timers
  /\ WakeupProc(D, state)
  /\ timers' = timers \ D
  /\ \/ need_resched' = need_resched \cup {current}
     \/ current # idle /\ UNCHANGED need_resched
  /\ Interrupted
  /\ UNCHANGED <<current, exiting, links, nr_process, tgt, stdin>>

\* Mutant: a character that does not fit is counted all the same.
KeyOverrun ==
  /\ pc[init] # "halt"
  /\ avail' = avail + 1
  /\ WakeupProc(kbdq, state)
  /\ kbdq' = {}
  /\ Interrupted
  /\ UNCHANGED <<current, exiting, need_resched, links, nr_process, tgt, timers, rem>>

\* Mutant: one character wakes one reader (wakeup_first).
KeyWakesOne ==
  /\ pc[init] # "halt"
  /\ avail' = IF avail < BufSize THEN avail + 1 ELSE avail
  /\ \E S \in SUBSET kbdq : /\ Cardinality(S) = IF kbdq = {} THEN 0 ELSE 1
                            /\ WakeupProc(S, state)
                            /\ kbdq' = kbdq \ S
  /\ Interrupted
  /\ UNCHANGED <<current, exiting, need_resched, links, nr_process, tgt, timers, rem>>

\* dev_stdin_write of one character.
Key ==
  /\ pc[init] # "halt"
  /\ avail' = IF avail < BufSize THEN avail + 1 ELSE avail
  /\ WakeupProc(kbdq, state)
  /\ kbdq' = {}
  /\ Interrupted
  /\ UNCHANGED <<current, exiting, need_resched, links, nr_process, tgt, timers, rem>>

-----------------------------------------------------------------------------
\* At the end of kern_init: idle is about to call schedule() for the first time.
Init ==
  /\ current = idle
  /\ state = [p \in Proc |-> IF p \in Users THEN "FREE" ELSE "RUNNABLE"]
  /\ wait_state = [p \in Proc |-> "none"]
  /\ exiting = {}
  /\ need_resched = {idle}
  /\ pool = {init}
  /\ parent = [p \in Proc |-> IF p = init THEN idle ELSE NoProc]
  /\ cptr = [p \in Proc |-> IF p = idle THEN init ELSE NoProc]
  /\ optr = [p \in Proc |-> NoProc]
  /\ yptr = [p \in Proc |-> NoProc]
  /\ nr_process = 2
  /\ pc = [p \in Proc |-> IF p = idle THEN "idle" ELSE IF p = init THEN "boot" ELSE "none"]
  /\ tgt = [p \in Proc |-> IF p = init THEN AnyChild ELSE NoProc]
  /\ timers = {}
  /\ kbdq = {}
  /\ avail = 0
  /\ rem = [p \in Proc |-> 0]

\* What a process asks of the kernel.
Syscall(p) ==
  \/ \E c \in Users : Fork(p, c)
  \/ NoEffect(p)
  \/ Exit(p)
  \/ Yield(p)
  \/ \E t \in Users \cup {AnyChild} : Wait(p, t)
  \/ \E t \in Users : Kill(p, t)
  \/ Sleep(p)
  \/ \E n \in 1..MaxRead : Read(p, n)

\* What the kernel does on its own once a process is in it.
Kernel(p) ==
  \/ \E z \in Users : WaitReap(p, z)
  \/ WaitBlock(p)
  \/ WaitNone(p)
  \/ WaitWoken(p)
  \/ KillWake(p)
  \/ SleepWoken(p)
  \/ ReadWoken(p)
  \/ TrapExit(p)
  \/ TrapIret(p)

Next ==
  \/ \E p \in Users : Syscall(p)
  \/ \E p \in Users \cup {init} : Kernel(p)
  \/ \E c \in Users : InitFork(c)
  \/ \E next \in Proc : Schedule(next)
  \/ \E D \in SUBSET Users : Tick(D)
  \/ Key
  \/ Halted

Spec == Init /\ [][Next]_vars

(***************************************************************************)
(* Kernel code on the CPU goes on.  The timer interrupt keeps coming, so   *)
(* every timer runs out and every time slice ends.  A process that stays   *)
(* in the run pool gets its turn (module Stride, under Settles below).     *)
(* Processes owe no system call and nobody has to press a key.             *)
(***************************************************************************)
Fairness ==
  /\ WF_vars(\E p \in Users \cup {init} : Kernel(p))
  /\ WF_vars(\E c \in Users : InitFork(c))
  /\ WF_vars(\E next \in Proc : Schedule(next))
  /\ \A p \in Proc : SF_vars(Schedule(p))
  /\ \A p \in Users : WF_vars(\E D \in SUBSET Users : p \in D /\ Tick(D))
  /\ WF_vars(\E D \in SUBSET Users : Tick(D) /\ current \in need_resched')

\* The stride scheduler starves no member of the run pool once nobody joins it any
\* more by a fork or a wakeup, but may if that goes on for ever (module Stride).
Settles == <>[][pool' \subseteq pool \cup {current}]_vars

FairSpec == Spec /\ Fairness /\ Settles

-----------------------------------------------------------------------------
(* Properties. *)

Pcs == {"none", "user", "boot", "wait", "wait_woken", "kill", "sleep_woken",
        "kbd_woken", "dead", "halt"} \cup DOMAIN Resume

\* The types of the variables; those of cptr, optr and yptr follow from FamilyOK.
TypeOK ==
  /\ current \in Proc
  /\ state \in [Proc -> {"FREE", "RUNNABLE", "SLEEPING", "ZOMBIE"}]
  /\ wait_state \in [Proc -> {"none", "CHILD", "TIMER", "KBD"}]
  /\ exiting \subseteq Users
  /\ need_resched \subseteq Proc
  /\ pool \subseteq Proc
  /\ parent \in [Proc -> Proc \cup {NoProc}]
  /\ nr_process \in Int
  /\ pc \in [Proc -> Pcs]
  /\ tgt \in [Proc -> Users \cup {NoProc, AnyChild}]
  /\ timers \subseteq Users
  /\ kbdq \subseteq Users
  /\ avail \in 0..BufSize
  /\ rem \in [Proc -> 0..MaxRead]

\* The run pool holds exactly the processes that could run and do not: a runnable
\* process outside it would never run again, and one that is in it without being
\* runnable, or while it has the CPU, would run when it must not.
RunPoolExact ==
  \A p \in Proc : p \in pool <=> state[p] = "RUNNABLE" /\ p \notin {current, idle}

StateFits(p) ==
  /\ state[p] = "FREE" <=> pc[p] = "none"
  /\ state[p] = "ZOMBIE" <=> pc[p] \in {"zombie_sched", "dead"}
  /\ state[p] = "SLEEPING" <=> wait_state[p] # "none"
  /\ wait_state[p] = "CHILD" => pc[p] \in {"wait_sched", "wait_woken"}
  /\ wait_state[p] = "TIMER" => pc[p] \in {"sleep_sched", "sleep_woken"}
  /\ wait_state[p] = "KBD"   => pc[p] \in {"kbd_sched", "kbd_woken"}

\* Where a process stands goes with its state: a zombie never comes back from its
\* last schedule(), whoever has wait_state set sleeps in the call that set it, nobody
\* but the running process is anywhere but in user mode or behind a schedule(), and
\* do_kill never wakes a process that has died since it looked.
ControlOK ==
  /\ \A p \in Proc : StateFits(p)
  /\ \A p \in Proc \ {current} : pc[p] \in {Resume[l] : l \in DOMAIN Resume} \cup {"none", "boot"}
  /\ pc[current] = "kill" =>
       tgt[current] \in Users /\ state[tgt[current]] \in {"RUNNABLE", "SLEEPING"}
  /\ state[current] = "RUNNABLE" \/ pc[current] \in DOMAIN Resume
  /\ state[idle] = "RUNNABLE" /\ pc[idle] = "idle"
  /\ pc[init] \in {"boot", "wait", "wait_sched", "wait_woken", "init_sched", "halt"}
  /\ parent[init] = idle
  /\ \A p \in Proc \ {idle} :
       IF state[p] = "FREE" THEN parent[p] = NoProc ELSE parent[p] \in Proc \ {p}

\* A parent asleep in do_wait has a child it waits for and none it could reap: no
\* exit, and no orphan handed to init, went unnoticed.
NoLostChildWakeup ==
  \A p \in Proc : wait_state[p] = "CHILD" =>
    state[p] = "SLEEPING" /\ Wanted(p) # {} /\ Zombies(Wanted(p)) = {}

\* A reader asleep on the keyboard has its wait_t in the queue, and the buffer is
\* empty: no character that came in the window before schedule() is missed.
NoLostKey ==
  \A p \in Proc : wait_state[p] = "KBD" =>
    state[p] = "SLEEPING" /\ p \in kbdq /\ avail = 0

\* timer_t and wait_t live on the stack of the process that sleeps.  One is linked
\* into a list only while its process is in the function that owns it, so neither
\* an early wakeup by do_kill nor a late interrupt leaves a dangling link or wakes
\* a zombie (assert in wakeup_proc); and a process asleep on a timer has one.
StackRefsLive ==
  /\ \A p \in timers : pc[p] \in {"sleep_sched", "sleep_woken"} /\ state[p] # "ZOMBIE"
  /\ \A p \in kbdq : pc[p] \in {"kbd_sched", "kbd_woken"} /\ state[p] # "ZOMBIE"
  /\ \A p \in Proc : wait_state[p] = "TIMER" => state[p] = "SLEEPING" /\ p \in timers

\* The list of children that starts at cptr and goes on by optr visits exactly the
\* children, once each, and yptr leads back: do_wait finds every child, however
\* forks, adoptions by init and reaps from the middle of a list interleave.
FamilyOK ==
  \A p \in Proc : state[p] # "FREE" =>
    LET n == Cardinality(Kids(p))
        walk[i \in 0..n] == IF i = 0 THEN cptr[p]
                            ELSE IF walk[i-1] \in Proc THEN optr[walk[i-1]] ELSE NoProc
    IN  /\ {walk[i] : i \in 0..n-1} = Kids(p)
        /\ walk[n] = NoProc
        /\ \A i \in 0..n-1 : yptr[walk[i]] = IF i = 0 THEN NoProc ELSE walk[i-1]

\* A proc_struct given back to kmalloc is reachable from nowhere: no link, queue or
\* timer names it, its parent was alive to the end, and nr_process forgets it.
NoDangling ==
  /\ \A f \in {parent, cptr, optr, yptr} : \A p \in Proc :
       state[p] # "FREE" /\ f[p] # NoProc => state[f[p]] # "FREE"
  /\ \A p \in Proc \ {idle} : state[p] # "FREE" =>
       parent[p] # NoProc /\ state[parent[p]] # "ZOMBIE"
  /\ \A p \in pool \cup timers \cup kbdq \cup {current} : state[p] # "FREE"
  /\ nr_process = Cardinality({p \in Proc : state[p] # "FREE"})

\* The assertions at the end of init_main: do_wait told init that it has no child
\* only when every process there ever was has been reaped.
InitQuits ==
  pc[init] = "halt" =>
    /\ cptr[init] = NoProc /\ yptr[init] = NoProc /\ optr[init] = NoProc
    /\ nr_process = 2
    /\ \A p \in Users : state[p] = "FREE"

\* An orphan that is dead, or dies, is reaped: init sleeps in do_wait for its own
\* children and must be woken for those it is given.
OrphanReaped ==
  \A p \in Users : state[p] = "ZOMBIE" /\ parent[p] = init ~> state[p] = "FREE"

\* A process that do_kill finds asleep in do_wait or do_sleep dies.
KilledSleeperDies ==
  \A p, q \in Users :
    In(q, "kill") /\ tgt[q] = p /\ wait_state[p] \in {"CHILD", "TIMER"} ~> state[p] = "ZOMBIE"

\* What the state diagram at the head of proc.c says of SYS_kill, and proc.h of
\* interruptible wait states: a process that has been killed exits.
KilledDies == \A p \in Users : p \in exiting ~> state[p] \in {"ZOMBIE", "FREE"}

\* A process as others see it: a slot without a proc_struct is none, and one that
\* is RUNNABLE or SLEEPING is alive.
Life == [p \in Proc |-> IF state[p] = "FREE" THEN "none"
                        ELSE IF state[p] = "ZOMBIE" THEN "zombie" ELSE "alive"]

LC == INSTANCE Lifecycle WITH Procs <- Proc, life <- Life

\* Every step of the kernel creates one process, ends one, reaps one or changes
\* none: no interleaving of exit, kill, wait and the interrupts loses a process,
\* revives it, frees it early or leaves it with a dead parent.
ImplementsLifecycle == LC!Spec
=============================================================================
