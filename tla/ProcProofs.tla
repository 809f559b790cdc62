----------------------------- MODULE ProcProofs -----------------------------
(***************************************************************************)
(* What module Proc guarantees for every set of processes, every buffer    *)
(* size and every bound: its invariants, and that it implements Lifecycle. *)
(*                                                                         *)
(* The invariants are proved together.  None is inductive alone: the run   *)
(* pool stays exact only if schedule() and wakeup_proc() find processes in *)
(* the states that ControlOK ties to their program counters, and ControlOK *)
(* needs StackRefsLive, since a timer that names a dead process would wake *)
(* it.  There is one lemma for each stretch of kernel code, and in it one  *)
(* step for each invariant.                                                *)
(*                                                                         *)
(* The family tree of module Proc, for every set of processes: the lists   *)
(* of children are what do_wait takes them for, nothing refers to a freed  *)
(* proc_struct, and init ends only when it is alone.                       *)
(*                                                                         *)
(* The proofs add a history to the links: ord[q] tells when q was put into *)
(* the list it is in.  The links are right if, among the children of one   *)
(* process, optr and yptr lead to the neighbours in that order and cptr to *)
(* the latest.  do_exit reverses the list it moves, so it deals out new    *)
(* numbers, above all old ones.  A second history, dep, grows from parent  *)
(* to child: it shows that whoever is alive descends from init.            *)
(***************************************************************************)
EXTENDS Proc, FiniteSetTheorems, TLAPS

Inv ==
  /\ TypeOK
  /\ RunPoolExact
  /\ ControlOK
  /\ StackRefsLive
  /\ NoLostKey
  /\ NoLostChildWakeup

\* The invariants hold when idle is about to call schedule() for the first time.
LEMMA InitInv == Init => Inv
  <1> SUFFICES ASSUME Init PROVE Inv
    OBVIOUS
  <1> USE ProcAssumption DEF Init
  <1>1. TypeOK
    BY DEF TypeOK, Proc, Pcs, Resume
  <1>2. RunPoolExact
    BY DEF RunPoolExact, Proc
  <1>3. ControlOK
    BY DEF ControlOK, StateFits, Proc, Resume
  <1>4. StackRefsLive
    BY DEF StackRefsLive, Proc
  <1>5. NoLostKey
    BY DEF NoLostKey, Proc
  <1>6. NoLostChildWakeup
    BY DEF NoLostChildWakeup, Proc
  <1> QED BY <1>1, <1>2, <1>3, <1>4, <1>5, <1>6 DEF Inv

-----------------------------------------------------------------------------
(* System calls and what the kernel does on behalf of a process. *)

\* do_fork: the child is runnable and in the run pool, and alone refers to its slot.
LEMMA ForkInv ==
  ASSUME NEW p \in Users, NEW c \in Users, Inv, Fork(p, c)
  PROVE  Inv'
  <1> USE ProcAssumption DEF Inv, Goto, links, stdin, Fork, InUser, DoFork, SetLinks
  <1>1. TypeOK'
    BY DEF TypeOK, ControlOK, StateFits, Proc, Pcs, Resume
  <1>2. RunPoolExact'
    BY DEF TypeOK, RunPoolExact, ControlOK, StateFits, Proc, Resume
  <1>3. ControlOK'
    BY DEF TypeOK, ControlOK, StateFits, Proc, Resume
  <1>4. StackRefsLive'
    BY DEF TypeOK, ControlOK, StateFits, StackRefsLive, Proc, Resume
  <1>5. NoLostKey'
    BY DEF TypeOK, ControlOK, StateFits, NoLostKey, Proc, Resume
  <1>6. NoLostChildWakeup'
    BY DEF TypeOK, ControlOK, StateFits, NoLostChildWakeup, Proc, Resume, Kids, Wanted, Zombies
  <1> QED BY <1>1, <1>2, <1>3, <1>4, <1>5, <1>6

\* init_main creates its first process.
LEMMA InitForkInv ==
  ASSUME NEW c \in Users, Inv, InitFork(c)
  PROVE  Inv'
  <1> USE ProcAssumption DEF Inv, Goto, links, stdin, InitFork, In, DoFork, SetLinks
  <1>1. TypeOK'
    BY DEF TypeOK, ControlOK, StateFits, Proc, Pcs, Resume
  <1>2. RunPoolExact'
    BY DEF TypeOK, RunPoolExact, ControlOK, StateFits, Proc, Resume
  <1>3. ControlOK'
    BY DEF TypeOK, ControlOK, StateFits, Proc, Resume
  <1>4. StackRefsLive'
    BY DEF TypeOK, ControlOK, StateFits, StackRefsLive, Proc, Resume
  <1>5. NoLostKey'
    BY DEF TypeOK, ControlOK, StateFits, NoLostKey, Proc, Resume
  <1>6. NoLostChildWakeup'
    BY DEF TypeOK, ControlOK, StateFits, NoLostChildWakeup, Proc, Resume, Kids, Wanted, Zombies
  <1> QED BY <1>1, <1>2, <1>3, <1>4, <1>5, <1>6

\* A system call that changes nothing here only comes to the end of trap().
LEMMA NoEffectInv ==
  ASSUME NEW p \in Users, Inv, NoEffect(p)
  PROVE  Inv'
  <1> USE ProcAssumption DEF Inv, Goto, links, stdin, NoEffect, InUser
  <1>1. TypeOK'
    BY DEF TypeOK, ControlOK, StateFits, Proc, Pcs, Resume
  <1>2. RunPoolExact'
    BY DEF TypeOK, RunPoolExact, ControlOK, StateFits, Proc, Resume
  <1>3. ControlOK'
    BY DEF TypeOK, ControlOK, StateFits, Proc, Resume
  <1>4. StackRefsLive'
    BY DEF TypeOK, ControlOK, StateFits, StackRefsLive, Proc, Resume
  <1>5. NoLostKey'
    BY DEF TypeOK, ControlOK, StateFits, NoLostKey, Proc, Resume
  <1>6. NoLostChildWakeup'
    BY DEF TypeOK, ControlOK, StateFits, NoLostChildWakeup, Proc, Resume, Kids, Wanted, Zombies
  <1> QED BY <1>1, <1>2, <1>3, <1>4, <1>5, <1>6

\* do_yield.
LEMMA YieldInv ==
  ASSUME NEW p \in Users, Inv, Yield(p)
  PROVE  Inv'
  <1> USE ProcAssumption DEF Inv, Goto, links, stdin, Yield, InUser
  <1>1. TypeOK'
    BY DEF TypeOK, ControlOK, StateFits, Proc, Pcs, Resume
  <1>2. RunPoolExact'
    BY DEF TypeOK, RunPoolExact, ControlOK, StateFits, Proc, Resume
  <1>3. ControlOK'
    BY DEF TypeOK, ControlOK, StateFits, Proc, Resume
  <1>4. StackRefsLive'
    BY DEF TypeOK, ControlOK, StateFits, StackRefsLive, Proc, Resume
  <1>5. NoLostKey'
    BY DEF TypeOK, ControlOK, StateFits, NoLostKey, Proc, Resume
  <1>6. NoLostChildWakeup'
    BY DEF TypeOK, ControlOK, StateFits, NoLostChildWakeup, Proc, Resume, Kids, Wanted, Zombies
  <1> QED BY <1>1, <1>2, <1>3, <1>4, <1>5, <1>6

\* do_wait begins.
LEMMA WaitInv ==
  ASSUME NEW p \in Users, NEW t \in Users \cup {AnyChild}, Inv, Wait(p, t)
  PROVE  Inv'
  <1> USE ProcAssumption DEF Inv, Goto, links, stdin, Wait, InUser
  <1>1. TypeOK'
    BY DEF TypeOK, ControlOK, StateFits, Proc, Pcs, Resume
  <1>2. RunPoolExact'
    BY DEF TypeOK, RunPoolExact, ControlOK, StateFits, Proc, Resume
  <1>3. ControlOK'
    BY DEF TypeOK, ControlOK, StateFits, Proc, Resume
  <1>4. StackRefsLive'
    BY DEF TypeOK, ControlOK, StateFits, StackRefsLive, Proc, Resume
  <1>5. NoLostKey'
    BY DEF TypeOK, ControlOK, StateFits, NoLostKey, Proc, Resume
  <1>6. NoLostChildWakeup'
    BY DEF TypeOK, ControlOK, StateFits, NoLostChildWakeup, Proc, Resume, Kids, Wanted, Zombies
  <1> QED BY <1>1, <1>2, <1>3, <1>4, <1>5, <1>6

\* do_wait frees a zombie: it is in no queue, and no sleeper waits for it.
LEMMA WaitReapInv ==
  ASSUME NEW p \in Users \cup {init}, NEW z \in Users, Inv, WaitReap(p, z)
  PROVE  Inv'
  <1> USE ProcAssumption DEF Inv, Goto, links, stdin, WaitReap, In, RemoveLinks, Zombies, Wanted, Kids
  <1>1. TypeOK'
    BY DEF TypeOK, ControlOK, StateFits, Proc, Pcs, Resume
  <1>2. RunPoolExact'
    BY DEF TypeOK, RunPoolExact, ControlOK, StateFits, Proc, Resume
  <1>3. ControlOK'
    BY DEF TypeOK, ControlOK, StateFits, Proc, Resume
  <1>4. StackRefsLive'
    BY DEF TypeOK, ControlOK, StateFits, StackRefsLive, Proc, Resume
  <1>5. NoLostKey'
    BY DEF TypeOK, ControlOK, StateFits, NoLostKey, Proc, Resume
  <1>6. NoLostChildWakeup'
    BY DEF TypeOK, ControlOK, StateFits, NoLostChildWakeup, Proc, Resume, Kids, Wanted, Zombies
  <1> QED BY <1>1, <1>2, <1>3, <1>4, <1>5, <1>6

\* do_wait blocks only when there is a child to wait for and none to reap.
LEMMA WaitBlockInv ==
  ASSUME NEW p \in Users \cup {init}, Inv, WaitBlock(p)
  PROVE  Inv'
  <1> USE ProcAssumption DEF Inv, Goto, links, stdin, WaitBlock, In, Zombies, Wanted, Kids
  <1>1. TypeOK'
    BY DEF TypeOK, ControlOK, StateFits, Proc, Pcs, Resume
  <1>2. RunPoolExact'
    BY DEF TypeOK, RunPoolExact, ControlOK, StateFits, Proc, Resume
  <1>3. ControlOK'
    BY DEF TypeOK, ControlOK, StateFits, Proc, Resume
  <1>4. StackRefsLive'
    BY DEF TypeOK, ControlOK, StateFits, StackRefsLive, Proc, Resume
  <1>5. NoLostKey'
    BY DEF TypeOK, ControlOK, StateFits, NoLostKey, Proc, Resume
  <1>6. NoLostChildWakeup'
    BY DEF TypeOK, ControlOK, StateFits, NoLostChildWakeup, Proc, Resume, Kids, Wanted, Zombies
  <1> QED BY <1>1, <1>2, <1>3, <1>4, <1>5, <1>6

\* do_wait finds no child.
LEMMA WaitNoneInv ==
  ASSUME NEW p \in Users \cup {init}, Inv, WaitNone(p)
  PROVE  Inv'
  <1> USE ProcAssumption DEF Inv, Goto, links, stdin, WaitNone, In
  <1>1. TypeOK'
    BY DEF TypeOK, ControlOK, StateFits, Proc, Pcs, Resume
  <1>2. RunPoolExact'
    BY DEF TypeOK, RunPoolExact, ControlOK, StateFits, Proc, Resume
  <1>3. ControlOK'
    BY DEF TypeOK, ControlOK, StateFits, Proc, Resume
  <1>4. StackRefsLive'
    BY DEF TypeOK, ControlOK, StateFits, StackRefsLive, Proc, Resume
  <1>5. NoLostKey'
    BY DEF TypeOK, ControlOK, StateFits, NoLostKey, Proc, Resume
  <1>6. NoLostChildWakeup'
    BY DEF TypeOK, ControlOK, StateFits, NoLostChildWakeup, Proc, Resume, Kids, Wanted, Zombies
  <1> QED BY <1>1, <1>2, <1>3, <1>4, <1>5, <1>6

\* do_kill marks a process and looks at its wait_state.
LEMMA KillInv ==
  ASSUME NEW p \in Users, NEW t \in Users, Inv, Kill(p, t)
  PROVE  Inv'
  <1> USE ProcAssumption DEF Inv, Goto, links, stdin, Kill, InUser
  <1>1. TypeOK'
    BY DEF TypeOK, ControlOK, StateFits, Proc, Pcs, Resume
  <1>2. RunPoolExact'
    BY DEF TypeOK, RunPoolExact, ControlOK, StateFits, Proc, Resume
  <1>3. ControlOK'
    BY DEF TypeOK, ControlOK, StateFits, Proc, Resume
  <1>4. StackRefsLive'
    BY DEF TypeOK, ControlOK, StateFits, StackRefsLive, Proc, Resume
  <1>5. NoLostKey'
    BY DEF TypeOK, ControlOK, StateFits, NoLostKey, Proc, Resume
  <1>6. NoLostChildWakeup'
    BY DEF TypeOK, ControlOK, StateFits, NoLostChildWakeup, Proc, Resume, Kids, Wanted, Zombies
  <1> QED BY <1>1, <1>2, <1>3, <1>4, <1>5, <1>6

\* do_kill wakes a process that cannot have died since it looked.
LEMMA KillWakeInv ==
  ASSUME NEW p \in Users \cup {init}, Inv, KillWake(p)
  PROVE  Inv'
  <1> USE ProcAssumption DEF Inv, Goto, links, stdin, KillWake, In, WakeupProc
  <1>1. TypeOK'
    BY DEF TypeOK, ControlOK, StateFits, Proc, Pcs, Resume
  <1>2. RunPoolExact'
    BY DEF TypeOK, RunPoolExact, ControlOK, StateFits, Proc, Resume
  <1>3. ControlOK'
    BY DEF TypeOK, ControlOK, StateFits, Proc, Resume
  <1>4. StackRefsLive'
    BY DEF TypeOK, ControlOK, StateFits, StackRefsLive, Proc, Resume
  <1>5. NoLostKey'
    BY DEF TypeOK, ControlOK, StateFits, NoLostKey, Proc, Resume
  <1>6. NoLostChildWakeup'
    BY DEF TypeOK, ControlOK, StateFits, NoLostChildWakeup, Proc, Resume, Kids, Wanted, Zombies
  <1> QED BY <1>1, <1>2, <1>3, <1>4, <1>5, <1>6

\* do_sleep arms a timer and goes to sleep.
LEMMA SleepInv ==
  ASSUME NEW p \in Users, Inv, Sleep(p)
  PROVE  Inv'
  <1> USE ProcAssumption DEF Inv, Goto, links, stdin, Sleep, InUser
  <1>1. TypeOK'
    BY DEF TypeOK, ControlOK, StateFits, Proc, Pcs, Resume
  <1>2. RunPoolExact'
    BY DEF TypeOK, RunPoolExact, ControlOK, StateFits, Proc, Resume
  <1>3. ControlOK'
    BY DEF TypeOK, ControlOK, StateFits, Proc, Resume
  <1>4. StackRefsLive'
    BY DEF TypeOK, ControlOK, StateFits, StackRefsLive, Proc, Resume
  <1>5. NoLostKey'
    BY DEF TypeOK, ControlOK, StateFits, NoLostKey, Proc, Resume
  <1>6. NoLostChildWakeup'
    BY DEF TypeOK, ControlOK, StateFits, NoLostChildWakeup, Proc, Resume, Kids, Wanted, Zombies
  <1> QED BY <1>1, <1>2, <1>3, <1>4, <1>5, <1>6

\* do_sleep deletes its timer once it runs again, so that it is awake.
LEMMA SleepWokenInv ==
  ASSUME NEW p \in Users \cup {init}, Inv, SleepWoken(p)
  PROVE  Inv'
  <1> USE ProcAssumption DEF Inv, Goto, links, stdin, SleepWoken, In
  <1>1. TypeOK'
    BY DEF TypeOK, ControlOK, StateFits, Proc, Pcs, Resume
  <1>2. RunPoolExact'
    BY DEF TypeOK, RunPoolExact, ControlOK, StateFits, Proc, Resume
  <1>3. ControlOK'
    BY DEF TypeOK, ControlOK, StateFits, Proc, Resume
  <1>4. StackRefsLive'
    BY DEF TypeOK, ControlOK, StateFits, StackRefsLive, Proc, Resume
  <1>5. NoLostKey'
    BY DEF TypeOK, ControlOK, StateFits, NoLostKey, Proc, Resume
  <1>6. NoLostChildWakeup'
    BY DEF TypeOK, ControlOK, StateFits, NoLostChildWakeup, Proc, Resume, Kids, Wanted, Zombies
  <1> QED BY <1>1, <1>2, <1>3, <1>4, <1>5, <1>6

\* dev_stdin_read, to its end or to its call of schedule().
LEMMA ReadInv ==
  ASSUME NEW p \in Users, NEW n \in 1..MaxRead, Inv, Read(p, n)
  PROVE  Inv'
  <1> USE ProcAssumption DEF Inv, Goto, links, stdin, Read, ReadLoop, InUser
  <1>1. TypeOK'
    BY DEF TypeOK, ControlOK, StateFits, Proc, Pcs, Resume
  <1>2. RunPoolExact'
    BY DEF TypeOK, RunPoolExact, ControlOK, StateFits, Proc, Resume
  <1>3. ControlOK'
    BY DEF TypeOK, ControlOK, StateFits, Proc, Resume
  <1>4. StackRefsLive'
    BY DEF TypeOK, ControlOK, StateFits, StackRefsLive, Proc, Resume
  <1>5. NoLostKey'
    BY DEF TypeOK, ControlOK, StateFits, NoLostKey, Proc, Resume
  <1>6. NoLostChildWakeup'
    BY DEF TypeOK, ControlOK, StateFits, NoLostChildWakeup, Proc, Resume, Kids, Wanted, Zombies
  <1> QED BY <1>1, <1>2, <1>3, <1>4, <1>5, <1>6

\* dev_stdin_read after schedule().
LEMMA ReadWokenInv ==
  ASSUME NEW p \in Users \cup {init}, Inv, ReadWoken(p)
  PROVE  Inv'
  <1> USE ProcAssumption DEF Inv, Goto, links, stdin, ReadWoken, ReadLoop, In
  <1>1. TypeOK'
    BY DEF TypeOK, ControlOK, StateFits, Proc, Pcs, Resume
  <1>2. RunPoolExact'
    BY DEF TypeOK, RunPoolExact, ControlOK, StateFits, Proc, Resume
  <1>3. ControlOK'
    BY DEF TypeOK, ControlOK, StateFits, Proc, Resume
  <1>4. StackRefsLive'
    BY DEF TypeOK, ControlOK, StateFits, StackRefsLive, Proc, Resume
  <1>5. NoLostKey'
    BY DEF TypeOK, ControlOK, StateFits, NoLostKey, Proc, Resume
  <1>6. NoLostChildWakeup'
    BY DEF TypeOK, ControlOK, StateFits, NoLostChildWakeup, Proc, Resume, Kids, Wanted, Zombies
  <1> QED BY <1>1, <1>2, <1>3, <1>4, <1>5, <1>6

\* The return to user mode.
LEMMA TrapIretInv ==
  ASSUME NEW p \in Users \cup {init}, Inv, TrapIret(p)
  PROVE  Inv'
  <1> USE ProcAssumption DEF Inv, Goto, links, stdin, TrapIret, In
  <1>1. TypeOK'
    BY DEF TypeOK, ControlOK, StateFits, Proc, Pcs, Resume
  <1>2. RunPoolExact'
    BY DEF TypeOK, RunPoolExact, ControlOK, StateFits, Proc, Resume
  <1>3. ControlOK'
    BY DEF TypeOK, ControlOK, StateFits, Proc, Resume
  <1>4. StackRefsLive'
    BY DEF TypeOK, ControlOK, StateFits, StackRefsLive, Proc, Resume
  <1>5. NoLostKey'
    BY DEF TypeOK, ControlOK, StateFits, NoLostKey, Proc, Resume
  <1>6. NoLostChildWakeup'
    BY DEF TypeOK, ControlOK, StateFits, NoLostChildWakeup, Proc, Resume, Kids, Wanted, Zombies
  <1> QED BY <1>1, <1>2, <1>3, <1>4, <1>5, <1>6

\* do_exit, from wherever it is called: it wakes only processes that sleep in
\* do_wait, and every sleeper that gains a zombie child is among them.
LEMMA ExitInv ==
  ASSUME NEW p \in Users, current = p, state[p] = "RUNNABLE",
         pc[p] \in {"user", "trapret", "wait_woken"}, Inv, DoExit(p)
  PROVE  Inv'
  <1> USE ProcAssumption DEF Inv, Goto, links, stdin, DoExit, WakeupProc, Adopt, ExitWakes, Zombies, Kids
  <1>1. TypeOK'
    BY DEF TypeOK, ControlOK, StateFits, Proc, Pcs, Resume
  <1>2. RunPoolExact'
    BY DEF TypeOK, RunPoolExact, ControlOK, StateFits, Proc, Resume
  <1>3. ControlOK'
    BY DEF TypeOK, ControlOK, StateFits, Proc, Resume
  <1>4. StackRefsLive'
    BY DEF TypeOK, ControlOK, StateFits, StackRefsLive, Proc, Resume
  <1>5. NoLostKey'
    BY DEF TypeOK, ControlOK, StateFits, NoLostKey, Proc, Resume
  <1>6. NoLostChildWakeup'
    <2> HIDE DEF Inv, DoExit
    <2> SUFFICES ASSUME NEW q \in Proc, wait_state'[q] = "CHILD"
                 PROVE  /\ state'[q] = "SLEEPING"
                        /\ Wanted(q)' # {}
                        /\ Zombies(Wanted(q))' = {}
      BY DEF NoLostChildWakeup
    <2>1. DoExit(p) /\ TypeOK /\ ControlOK /\ parent[p] \in Proc \ {p}
      BY DEF Inv, ControlOK, StateFits, Proc
    <2>2. /\ wait_state[q] = "CHILD"
          /\ state[q] = "SLEEPING" /\ state'[q] = "SLEEPING"
          /\ q # p /\ q \notin ExitWakes(p)
      BY <2>1 DEF DoExit, WakeupProc, ExitWakes, TypeOK, ControlOK, StateFits, Zombies
    <2>3. Wanted(q) # {} /\ Zombies(Wanted(q)) = {}
      BY <2>2 DEF Inv, NoLostChildWakeup
    <2>4. parent[p] # q /\ (q = init => Zombies(Kids(p)) = {})
      BY <2>1, <2>2 DEF ExitWakes
    <2>5. tgt'[q] = tgt[q]
      BY <2>1, <2>2 DEF DoExit, TypeOK
    <2>6. \A k \in Proc \ {p} : /\ state'[k] = "FREE" <=> state[k] = "FREE"
                                /\ state'[k] = "ZOMBIE" <=> state[k] = "ZOMBIE"
      BY <2>1 DEF DoExit, WakeupProc, TypeOK, ExitWakes, ControlOK, StateFits, Zombies
    <2>7. \A k \in Proc : parent'[k] = IF k \in Kids(p) THEN init ELSE parent[k]
      BY <2>1 DEF DoExit, Adopt
    <2>8. Wanted(q)' \subseteq Wanted(q) \cup (IF q = init THEN Kids(p) ELSE {})
      BY <2>2, <2>4, <2>5, <2>6, <2>7 DEF Wanted, Kids
    <2>9. Wanted(q) \subseteq Wanted(q)'
      BY <2>2, <2>4, <2>5, <2>6, <2>7 DEF Wanted, Kids
    <2>10. p \notin Wanted(q)'
      BY <2>1, <2>4, <2>7 DEF Wanted, Kids
    <2> QED BY <2>2, <2>3, <2>4, <2>6, <2>8, <2>9, <2>10 DEF Zombies, Wanted, Kids
  <1> QED BY <1>1, <1>2, <1>3, <1>4, <1>5, <1>6

-----------------------------------------------------------------------------
(* The context switch and the interrupts. *)

\* schedule() gives the CPU to a runnable process of the pool, or to idle.
LEMMA ScheduleInv ==
  ASSUME NEW next \in Proc, Inv, Schedule(next)
  PROVE  Inv'
  <1> USE ProcAssumption DEF Inv, Goto, links, stdin, Schedule
  <1>1. TypeOK'
    BY DEF TypeOK, ControlOK, StateFits, Proc, Pcs, Resume
  <1>2. RunPoolExact'
    BY DEF TypeOK, RunPoolExact, ControlOK, StateFits, Proc, Resume
  <1>3. ControlOK'
    <2>1. ASSUME NEW q \in Proc PROVE StateFits(q)'
      BY DEF TypeOK, ControlOK, StateFits, Proc, Resume
    <2>2. state[next] = "RUNNABLE"
      BY DEF TypeOK, RunPoolExact, ControlOK
    <2>3. pc'[next] # "kill"
      BY DEF TypeOK, ControlOK, Resume
    <2>4. \A p \in Proc \ {current'} :
            pc'[p] \in {Resume[l] : l \in DOMAIN Resume} \cup {"none", "boot"}
      BY DEF TypeOK, ControlOK, Resume
    <2>5. /\ pc'[idle] = "idle"
          /\ pc'[init] \in {"boot", "wait", "wait_sched", "wait_woken", "init_sched", "halt"}
      BY DEF TypeOK, ControlOK, Resume
    <2>6. UNCHANGED <<parent, tgt, state>>
      OBVIOUS
    <2> QED BY <2>1, <2>2, <2>3, <2>4, <2>5, <2>6 DEF ControlOK
  <1>4. StackRefsLive'
    BY DEF TypeOK, ControlOK, StateFits, StackRefsLive, Proc, Resume
  <1>5. NoLostKey'
    BY DEF TypeOK, ControlOK, StateFits, NoLostKey, Proc, Resume
  <1>6. NoLostChildWakeup'
    BY DEF TypeOK, ControlOK, StateFits, NoLostChildWakeup, Proc, Resume, Kids, Wanted, Zombies
  <1> QED BY <1>1, <1>2, <1>3, <1>4, <1>5, <1>6

\* An interrupt that wakes living processes leaves everybody where the state fits.
LEMMA InterruptControl ==
  ASSUME NEW S \in SUBSET Proc, Inv, Interrupted, WakeupProc(S, state),
         \A q \in S : state[q] \in {"RUNNABLE", "SLEEPING"},
         UNCHANGED <<current, parent, tgt>>
  PROVE  ControlOK'
  <1>1. ASSUME NEW q \in Proc PROVE StateFits(q)'
    BY DEF Inv, TypeOK, ControlOK, StateFits, WakeupProc, Interrupted, Proc, Resume
  <1>2. \A q \in Proc :
          pc'[q] = IF q = current /\ pc[q] = "user" THEN "trapret" ELSE pc[q]
    BY DEF Inv, TypeOK, Interrupted
  <1>3. \A q \in Proc :
          \/ state'[q] = state[q]
          \/ state[q] = "SLEEPING" /\ state'[q] = "RUNNABLE"
    BY DEF WakeupProc
  <1> QED BY ProcAssumption, <1>1, <1>2, <1>3 DEF Inv, TypeOK, ControlOK, Proc, Resume

\* run_timer_list: a timer in the list belongs to a process that is alive.
LEMMA TickInv ==
  ASSUME NEW D \in SUBSET Users, Inv, Tick(D)
  PROVE  Inv'
  <1> USE ProcAssumption DEF Inv, Goto, links, stdin, Tick, Interrupted, WakeupProc
  <1>1. TypeOK'
    BY DEF TypeOK, ControlOK, StateFits, Proc, Pcs, Resume
  <1>2. RunPoolExact'
    BY DEF TypeOK, RunPoolExact, ControlOK, StateFits, Proc, Resume
  <1>3. ControlOK'
    <2>1. \A q \in D : state[q] \in {"RUNNABLE", "SLEEPING"}
      BY DEF StackRefsLive, ControlOK, StateFits, TypeOK, Proc
    <2> QED BY <2>1, InterruptControl DEF Proc
  <1>4. StackRefsLive'
    BY DEF TypeOK, ControlOK, StateFits, StackRefsLive, Proc, Resume
  <1>5. NoLostKey'
    BY DEF TypeOK, ControlOK, StateFits, NoLostKey, Proc, Resume
  <1>6. NoLostChildWakeup'
    BY DEF TypeOK, ControlOK, StateFits, NoLostChildWakeup, Proc, Resume, Kids, Wanted, Zombies
  <1> QED BY <1>1, <1>2, <1>3, <1>4, <1>5, <1>6

\* dev_stdin_write: so does a wait_t in the queue of stdin.
LEMMA KeyInv ==
  ASSUME Inv, Key
  PROVE  Inv'
  <1> USE ProcAssumption DEF Inv, Goto, links, stdin, Key, Interrupted, WakeupProc
  <1>1. TypeOK'
    BY DEF TypeOK, ControlOK, StateFits, Proc, Pcs, Resume
  <1>2. RunPoolExact'
    BY DEF TypeOK, RunPoolExact, ControlOK, StateFits, Proc, Resume
  <1>3. ControlOK'
    <2>1. \A q \in kbdq : q \in Proc /\ state[q] \in {"RUNNABLE", "SLEEPING"}
      BY DEF StackRefsLive, ControlOK, StateFits, TypeOK, Proc
    <2> QED BY <2>1, InterruptControl
  <1>4. StackRefsLive'
    BY DEF TypeOK, ControlOK, StateFits, StackRefsLive, Proc, Resume
  <1>5. NoLostKey'
    BY DEF TypeOK, ControlOK, StateFits, NoLostKey, Proc, Resume
  <1>6. NoLostChildWakeup'
    BY DEF TypeOK, ControlOK, StateFits, NoLostChildWakeup, Proc, Resume, Kids, Wanted, Zombies
  <1> QED BY <1>1, <1>2, <1>3, <1>4, <1>5, <1>6

-----------------------------------------------------------------------------
(* Every step, and the theorems. *)

\* Every step of the kernel preserves the invariants.
LEMMA NextInv == Inv /\ [Next]_vars => Inv'
  <1> SUFFICES ASSUME Inv, [Next]_vars PROVE Inv'
    OBVIOUS
  <1>3. ASSUME NEW p \in Users \cup {init}, current = p, DoExit(p), p \in exiting,
                  pc[p] \in {"trapret", "wait_woken"}
           PROVE  Inv'
    <2>1. p \in Users /\ state[p] = "RUNNABLE"
      BY <1>3, ProcAssumption DEF Inv, TypeOK, ControlOK, StateFits, Proc, Resume
    <2> QED BY <1>3, <2>1, ExitInv
  <1>4. ASSUME UNCHANGED vars PROVE Inv'
    BY <1>4 DEF Inv, vars, links, stdin, TypeOK, RunPoolExact, ControlOK, StateFits,
                   StackRefsLive, NoLostKey, NoLostChildWakeup, Wanted, Kids, Zombies
  <1>1. ASSUME NEW p \in Users, Syscall(p) PROVE Inv'
    <2>1. ASSUME Exit(p) PROVE Inv'
      BY <2>1, ExitInv DEF Exit, InUser, Inv, TypeOK, ControlOK, Resume
    <2> QED BY <1>1, <2>1, ForkInv, NoEffectInv, YieldInv, WaitInv, KillInv, SleepInv, ReadInv
            DEF Syscall
  <1>2. ASSUME NEW p \in Users \cup {init}, Kernel(p) PROVE Inv'
    <2>1. ASSUME WaitWoken(p) PROVE Inv'
      <3>1. CASE p \in exiting
        BY <2>1, <3>1, <1>3 DEF WaitWoken, In
      <3>2. CASE p \notin exiting
        BY <2>1, <3>2, ProcAssumption
           DEF WaitWoken, In, Goto, links, stdin, Inv, TypeOK, RunPoolExact, ControlOK, StateFits,
               StackRefsLive, NoLostKey, NoLostChildWakeup, Wanted, Kids, Zombies, Proc, Pcs, Resume
      <3> QED BY <3>1, <3>2
    <2>2. ASSUME TrapExit(p) PROVE Inv'
      BY <2>2, <1>3 DEF TrapExit, In
    <2> QED BY <1>2, <2>1, <2>2, WaitReapInv, WaitBlockInv, WaitNoneInv, KillWakeInv,
               SleepWokenInv, ReadWokenInv, TrapIretInv
            DEF Kernel
  <1> QED BY <1>1, <1>2, <1>4, InitForkInv, ScheduleInv, TickInv, KeyInv DEF Next, Halted

\* The conjunction of the invariants is one.
LEMMA SpecInv == Spec => []Inv
  BY InitInv, NextInv, PTL DEF Spec

\* The types of the variables, and so that no reader takes more characters than
\* stdin holds, nor the keyboard puts more in it than the buffer can.
THEOREM TypesCorrect == Spec => []TypeOK
  BY SpecInv, PTL DEF Inv

\* The run pool holds the runnable processes that wait for the CPU, and no others.
THEOREM RunPoolCorrect == Spec => []RunPoolExact
  BY SpecInv, PTL DEF Inv

\* A process stands only where its state allows, and do_kill never wakes the dead.
THEOREM ControlCorrect == Spec => []ControlOK
  BY SpecInv, PTL DEF Inv

\* No timer_t or wait_t outlives the call on whose stack it lives.
THEOREM StackRefsCorrect == Spec => []StackRefsLive
  BY SpecInv, PTL DEF Inv

\* No reader of the keyboard sleeps while there are characters to read.
THEOREM KeyWakeupCorrect == Spec => []NoLostKey
  BY SpecInv, PTL DEF Inv

\* No parent sleeps in do_wait while it has a zombie to reap.
THEOREM ChildWakeupCorrect == Spec => []NoLostChildWakeup
  BY SpecInv, PTL DEF Inv

-----------------------------------------------------------------------------
(* The refinement: what each stretch of code is to the life of processes. *)

\* What others see of a process does not change when a sleeper is woken.
LEMMA WakeupLife ==
  ASSUME NEW S \in SUBSET Proc, Inv, WakeupProc(S, state),
         \A q \in S : state[q] \in {"RUNNABLE", "SLEEPING"}
  PROVE  Life' = Life
  BY DEF WakeupProc, Life

\* do_fork creates a process.
LEMMA ForkCreates ==
  ASSUME NEW p \in Users \cup {init}, NEW c \in Users, NEW after, Inv,
         current = p, pc[p] \in {"user", "boot"}, DoFork(p, c, after)
  PROVE  LC!Create(p, c)
  <1> USE ProcAssumption DEF Inv, DoFork, SetLinks, Life, Proc
  <1>1. Life[p] = "alive" /\ Life[c] = "none"
    BY DEF TypeOK, ControlOK, StateFits, Resume
  <1>2. Life' = [Life EXCEPT ![c] = "alive"]
    BY DEF TypeOK
  <1> QED BY <1>1, <1>2 DEF LC!Create, LC!Alive

\* do_exit ends the running process and gives all its children to init.
LEMMA ExitDies ==
  ASSUME NEW p \in Users, Inv, current = p, state[p] = "RUNNABLE", DoExit(p)
  PROVE  LC!Die(p)
  <1> USE ProcAssumption DEF Inv, DoExit
  <1>1. \A q \in ExitWakes(p) : state[q] = "SLEEPING" /\ q # p /\ q \in Proc
    BY DEF ExitWakes, TypeOK, ControlOK, StateFits, Zombies, Proc
  <1>2. Life' = [Life EXCEPT ![p] = "zombie"]
    BY <1>1 DEF WakeupProc, Life, Proc, TypeOK
  <1>3. \A q \in Proc : q \in Kids(p) <=> parent[q] = p
    BY DEF Kids, TypeOK, ControlOK, Proc
  <1>4. parent' = [q \in Proc |-> IF parent[q] = p THEN init ELSE parent[q]]
    BY <1>3 DEF Adopt
  <1>5. Life[p] = "alive" /\ p \notin {idle, init}
    BY DEF Life, Proc
  <1> QED BY <1>2, <1>4, <1>5 DEF LC!Die, LC!Alive

\* do_wait frees a zombie whose parent is the process that calls it.
LEMMA WaitReaps ==
  ASSUME NEW p \in Users \cup {init}, NEW z \in Users, Inv, WaitReap(p, z)
  PROVE  LC!Reap(p, z)
  <1> USE ProcAssumption DEF Inv, WaitReap, In, Life, Proc
  <1>1. Life[p] = "alive"
    BY DEF TypeOK, ControlOK, StateFits, Resume
  <1>2. parent[z] = p /\ Life[z] = "zombie"
    BY DEF Zombies, Wanted, Kids
  <1>3. Life' = [Life EXCEPT ![z] = "none"]
    BY DEF TypeOK
  <1>4. parent' = [parent EXCEPT ![z] = NoProc]
    BY DEF RemoveLinks
  <1> QED BY <1>1, <1>2, <1>3, <1>4 DEF LC!Reap, LC!Alive

\* The three calls that change who is related to whom, and all other steps.
Forks(p, c) ==
  current = p /\ pc[p] \in {"user", "boot"} /\ \E after \in {"trapret", "wait"} : DoFork(p, c, after)
Exits(p) == current = p /\ state[p] = "RUNNABLE" /\ DoExit(p)

FamilyChanges ==
  \/ \E p \in Users \cup {init} : \E c \in Users : Forks(p, c) \/ WaitReap(p, c)
  \/ \E p \in Users : Exits(p)

Quiet == UNCHANGED <<links, nr_process, Life>>

\* Every step creates a process, ends one, reaps one, or is quiet.
LEMMA NextKinds == Inv /\ [Next]_vars => FamilyChanges \/ Quiet
  <1> SUFFICES ASSUME Inv, [Next]_vars PROVE FamilyChanges \/ Quiet
    OBVIOUS
  <1> USE ProcAssumption
  <1>1. ASSUME NEW p \in Users \cup {init}, current = p, DoExit(p), pc[p] # "kill",
               p \in exiting \/ pc[p] = "user", pc[p] \in {"user", "trapret", "wait_woken"}
        PROVE  FamilyChanges
    <2>1. p \in Users /\ state[p] = "RUNNABLE"
      BY <1>1 DEF Inv, TypeOK, ControlOK, StateFits, Proc, Resume
    <2> QED BY <1>1, <2>1 DEF Exits, FamilyChanges
  <1>2. ASSUME NEW p \in Users, Syscall(p)
        PROVE  FamilyChanges \/ Quiet
    <2>1. ASSUME NEW c \in Users, Fork(p, c) PROVE FamilyChanges
      BY <2>1 DEF Fork, InUser, Forks, FamilyChanges
    <2>2. ASSUME Exit(p) PROVE FamilyChanges
      BY <2>2, <1>1 DEF Exit, InUser
    <2>3. ASSUME Sleep(p) \/ \E n \in 1..MaxRead : Read(p, n)
          PROVE  Quiet
      <3>1. state[p] = "RUNNABLE" /\ p \in Proc
        BY <2>3 DEF Sleep, Read, InUser, Inv, TypeOK, ControlOK, StateFits, Proc, Resume
      <3> QED BY <2>3, <3>1 DEF Sleep, Read, ReadLoop, Quiet, Life, links, Inv, TypeOK
    <2>4. ASSUME \/ NoEffect(p) \/ Yield(p)
                 \/ \E t \in Users \cup {AnyChild} : Wait(p, t)
                 \/ \E t \in Users : Kill(p, t)
          PROVE  Quiet
      BY <2>4 DEF NoEffect, Yield, Wait, Kill, Quiet, Life, links
    <2> QED BY <1>2, <2>1, <2>2, <2>3, <2>4 DEF Syscall
  <1>3. ASSUME NEW p \in Users \cup {init}, Kernel(p)
        PROVE  FamilyChanges \/ Quiet
    <2>1. ASSUME NEW z \in Users, WaitReap(p, z) PROVE FamilyChanges
      BY <2>1 DEF FamilyChanges
    <2>2. ASSUME WaitBlock(p) \/ ReadWoken(p) PROVE Quiet
      <3>1. state[p] = "RUNNABLE" /\ p \in Proc
        BY <2>2 DEF WaitBlock, ReadWoken, In, Inv, TypeOK, ControlOK, StateFits, Proc, Resume
      <3> QED BY <2>2, <3>1 DEF WaitBlock, ReadWoken, ReadLoop, Quiet, Life, links, Inv, TypeOK
    <2>3. ASSUME KillWake(p) PROVE Quiet
      <3>1. tgt[p] \in Proc /\ state[tgt[p]] \in {"RUNNABLE", "SLEEPING"}
        BY <2>3 DEF KillWake, In, Inv, ControlOK, Proc
      <3> QED BY <2>3, <3>1, WakeupLife DEF KillWake, links, Quiet
    <2>4. ASSUME WaitWoken(p) \/ TrapExit(p)
          PROVE  FamilyChanges \/ Quiet
      BY <2>4, <1>1 DEF WaitWoken, TrapExit, In, Quiet, Life, links
    <2>5. ASSUME WaitNone(p) \/ SleepWoken(p) \/ TrapIret(p)
          PROVE  Quiet
      BY <2>5 DEF WaitNone, SleepWoken, TrapIret, Quiet, Life, links
    <2> QED BY <1>3, <2>1, <2>2, <2>3, <2>4, <2>5 DEF Kernel
  <1>4. ASSUME NEW c \in Users, InitFork(c) PROVE FamilyChanges
    BY <1>4 DEF InitFork, In, Forks, FamilyChanges
  <1>5. ASSUME NEW next \in Proc, Schedule(next) PROVE Quiet
    BY <1>5 DEF Schedule, Quiet, Life, links
  <1>6. ASSUME NEW D \in SUBSET Users, Tick(D) PROVE Quiet
    <2>1. \A q \in D : q \in Proc /\ state[q] \in {"RUNNABLE", "SLEEPING"}
      BY <1>6 DEF Tick, Inv, StackRefsLive, ControlOK, StateFits, TypeOK, Proc
    <2> QED BY <1>6, <2>1, WakeupLife DEF Tick, links, Proc, Quiet
  <1>7. ASSUME Key PROVE Quiet
    <2>1. \A q \in kbdq : q \in Proc /\ state[q] \in {"RUNNABLE", "SLEEPING"}
      BY <1>7 DEF Key, Inv, StackRefsLive, ControlOK, StateFits, TypeOK, Proc
    <2> QED BY <1>7, <2>1, WakeupLife DEF Key, links, Quiet
  <1>8. ASSUME UNCHANGED vars PROVE Quiet
    BY <1>8 DEF vars, links, Quiet, Life
  <1> QED BY <1>2, <1>3, <1>4, <1>5, <1>6, <1>7, <1>8 DEF Next, Halted

\* Every step of the kernel is a step of Lifecycle or changes nothing of it.
LEMMA NextLife == Inv /\ [Next]_vars => [LC!Next]_<<Life, parent>>
  <1> SUFFICES ASSUME Inv, FamilyChanges \/ Quiet PROVE LC!Next \/ UNCHANGED <<Life, parent>>
    BY NextKinds
  <1>1. ASSUME NEW p \in Users \cup {init}, NEW c \in Users, Forks(p, c) \/ WaitReap(p, c)
        PROVE  LC!Next
    BY <1>1, ForkCreates, WaitReaps DEF Forks, LC!Next, Proc
  <1>2. ASSUME NEW p \in Users, Exits(p) PROVE LC!Next
    BY <1>2, ExitDies DEF Exits, LC!Next, Proc
  <1> QED BY <1>1, <1>2 DEF FamilyChanges, Quiet, links

\* The kernel implements the abstract life cycle of processes: no interleaving of
\* exit, kill, wait and the interrupts loses a process, revives it, frees it early
\* or leaves it with a parent that is dead.
THEOREM LifecycleImplemented == Spec => ImplementsLifecycle
  <1>1. Init => LC!Init
    BY ProcAssumption DEF Init, LC!Init, Life, Proc
  <1> QED BY <1>1, SpecInv, NextLife, PTL DEF Spec, ImplementsLifecycle, LC!Spec

-----------------------------------------------------------------------------
(* The family tree. *)

(* The links, given as functions of their own. *)

Pointers == [Proc -> Proc \cup {NoProc}]

\* No two siblings were put into their list at the same time.
Distinct(par, ord) ==
  \A a, b \in Proc : par[a] # NoProc /\ par[a] = par[b] /\ ord[a] = ord[b] => a = b

\* x is the next older sibling of q.
OlderIs(par, ord, q, x) ==
  IF x = NoProc
    THEN \A k \in Proc : par[k] = par[q] => ord[q] <= ord[k]
    ELSE /\ x \in Proc /\ par[x] = par[q] /\ ord[x] < ord[q]
         /\ \A k \in Proc : par[k] = par[q] => ord[k] <= ord[x] \/ ord[q] <= ord[k]

\* x is the next younger sibling of q.
YoungerIs(par, ord, q, x) ==
  IF x = NoProc
    THEN \A k \in Proc : par[k] = par[q] => ord[k] <= ord[q]
    ELSE /\ x \in Proc /\ par[x] = par[q] /\ ord[q] < ord[x]
         /\ \A k \in Proc : par[k] = par[q] => ord[k] <= ord[q] \/ ord[x] <= ord[k]

\* x is the youngest child of p.
YoungestIs(par, ord, p, x) ==
  IF x = NoProc
    THEN \A k \in Proc : par[k] # p
    ELSE /\ x \in Proc /\ par[x] = p
         /\ \A k \in Proc : par[k] = p => ord[k] <= ord[x]

SiblingsOf(par, o, y, ord, q) ==
  IF par[q] = NoProc THEN o[q] = NoProc /\ y[q] = NoProc
  ELSE OlderIs(par, ord, q, o[q]) /\ YoungerIs(par, ord, q, y[q])

LinkedBy(par, c, o, y, ord) ==
  /\ Distinct(par, ord)
  /\ \A q \in Proc : SiblingsOf(par, o, y, ord, q)
  /\ \A p \in Proc : YoungestIs(par, ord, p, c[p])

Typed(par, c, o, y) == par \in Pointers /\ c \in Pointers /\ o \in Pointers /\ y \in Pointers

\* The links are right in the order of some history.
Linked(par, c, o, y) ==
  /\ Typed(par, c, o, y)
  /\ \E B \in Nat : \E ord \in [Proc -> 0..B] : LinkedBy(par, c, o, y, ord)

\* set_links, remove_links and the loop of do_exit, on links given as functions.
Added(par, c, o, y, p, n, par2, c2, o2, y2) ==
  /\ par2 = [par EXCEPT ![n] = p]
  /\ o2 = [o EXCEPT ![n] = c[p]]
  /\ y2 = [q \in Proc |-> IF q = n THEN NoProc ELSE IF q = c[p] THEN n ELSE y[q]]
  /\ c2 = [c EXCEPT ![p] = n]

Removed(par, c, o, y, z, par2, c2, o2, y2) ==
  /\ par2 = [par EXCEPT ![z] = NoProc]
  /\ y2 = [q \in Proc |-> IF q = z THEN NoProc ELSE IF q = o[z] THEN y[z] ELSE y[q]]
  /\ o2 = [q \in Proc |-> IF q = z THEN NoProc ELSE IF q = y[z] THEN o[z] ELSE o[q]]
  /\ c2 = IF y[z] = NoProc THEN [c EXCEPT ![par[z]] = o[z]] ELSE c

Moved(par, c, o, y, p, g, last, par2, c2, o2, y2) ==
  LET K == {q \in Proc : par[q] = p}
  IN  /\ par2 = [q \in Proc |-> IF q \in K THEN g ELSE par[q]]
      /\ o2 = [q \in Proc |-> IF q \notin K THEN o[q] ELSE IF y[q] = NoProc THEN c[g] ELSE y[q]]
      /\ y2 = [q \in Proc |-> IF q \in K THEN o[q]
                              ELSE IF K # {} /\ q = c[g] THEN c[p] ELSE y[q]]
      /\ c2 = [c EXCEPT ![p] = NoProc, ![g] = IF K = {} THEN @ ELSE last]
      /\ K # {} => last \in K /\ o[last] = NoProc

\* A new process becomes the youngest child, numbered above all others.
LEMMA AddKeeps ==
  ASSUME NEW par, NEW c, NEW o, NEW y, NEW par2, NEW c2, NEW o2, NEW y2,
         Linked(par, c, o, y), NEW p \in Proc, NEW n \in Proc, p # n, par[n] = NoProc,
         Added(par, c, o, y, p, n, par2, c2, o2, y2)
  PROVE  Linked(par2, c2, o2, y2)
  <1> USE ProcAssumption
  <1>n. NoProc \notin Proc
    BY DEF Proc
  <1>1. PICK B \in Nat : \E ord \in [Proc -> 0..B] : LinkedBy(par, c, o, y, ord)
    BY DEF Linked
  <1>2. PICK ord \in [Proc -> 0..B] : LinkedBy(par, c, o, y, ord)
    BY <1>1
  <1> DEFINE ord2 == [ord EXCEPT ![n] = B + 1]
  <1>3. ord2 \in [Proc -> 0..(B + 1)] /\ B + 1 \in Nat
    OBVIOUS
  <1>4. \A q \in Proc : ord[q] \in Nat /\ ord[q] <= B /\ ord2[q] = IF q = n THEN B + 1 ELSE ord[q]
    OBVIOUS
  <1> HIDE DEF ord2
  <1>5. par \in Pointers /\ c \in Pointers /\ o \in Pointers /\ y \in Pointers
    BY DEF Linked, Typed
  <1>6. Typed(par2, c2, o2, y2)
    BY <1>5 DEF Typed, Added, Pointers
  <1>7. /\ \A q \in Proc : par2[q] = IF q = n THEN p ELSE par[q]
        /\ \A q \in Proc : o2[q] = IF q = n THEN c[p] ELSE o[q]
        /\ \A q \in Proc : y2[q] = IF q = n THEN NoProc ELSE IF q = c[p] THEN n ELSE y[q]
        /\ \A q \in Proc : c2[q] = IF q = p THEN n ELSE c[q]
    BY <1>5 DEF Added, Pointers
  <1>8. YoungestIs(par, ord, p, c[p])
    BY <1>2 DEF LinkedBy
  <1>9. Distinct(par2, ord2)
    BY <1>2, <1>4, <1>7 DEF Distinct, LinkedBy
  <1>10. ASSUME NEW q \in Proc PROVE SiblingsOf(par2, o2, y2, ord2, q)
    <2>1. SiblingsOf(par, o, y, ord, q)
      BY <1>2 DEF LinkedBy
    <2>2. CASE q = n
      BY <2>2, <1>n, <1>4, <1>7, <1>8 DEF SiblingsOf, OlderIs, YoungerIs, YoungestIs
    <2>3. CASE q # n /\ par[q] = NoProc
      BY <2>1, <2>3, <1>n, <1>4, <1>7, <1>8 DEF SiblingsOf, YoungestIs
    <2>4. CASE q # n /\ par[q] # NoProc
      <3>1. OlderIs(par, ord, q, o[q]) /\ YoungerIs(par, ord, q, y[q])
        BY <2>1, <2>4 DEF SiblingsOf
      <3>2. OlderIs(par2, ord2, q, o2[q])
        BY <2>4, <3>1, <1>n, <1>4, <1>7 DEF OlderIs
      <3>3. YoungerIs(par2, ord2, q, y2[q])
        <4>1. CASE q = c[p]
          BY <4>1, <2>4, <1>n, <1>4, <1>7, <1>8 DEF YoungerIs, YoungestIs
        <4>2. CASE q # c[p]
          <5>1. y[q] = NoProc => par[q] # p
            BY <4>2, <2>4, <3>1, <1>2, <1>n, <1>4, <1>8 DEF YoungerIs, YoungestIs, LinkedBy, Distinct
          <5> QED BY <5>1, <4>2, <2>4, <3>1, <1>n, <1>4, <1>7 DEF YoungerIs
        <4> QED BY <4>1, <4>2
      <3> QED BY <3>2, <3>3, <2>4, <1>7 DEF SiblingsOf
    <2> QED BY <2>2, <2>3, <2>4
  <1>11. ASSUME NEW q \in Proc PROVE YoungestIs(par2, ord2, q, c2[q])
    <2>1. YoungestIs(par, ord, q, c[q])
      BY <1>2 DEF LinkedBy
    <2> QED BY <2>1, <1>n, <1>4, <1>7 DEF YoungestIs
  <1>12. LinkedBy(par2, c2, o2, y2, ord2)
    BY <1>9, <1>10, <1>11 DEF LinkedBy
  <1> QED BY <1>3, <1>6, <1>12 DEF Linked

\* A process without children leaves its list; the others keep their order.
LEMMA RemoveKeeps ==
  ASSUME NEW par, NEW c, NEW o, NEW y, NEW par2, NEW c2, NEW o2, NEW y2,
         Linked(par, c, o, y), NEW z \in Proc, par[z] \in Proc \ {z},
         Removed(par, c, o, y, z, par2, c2, o2, y2)
  PROVE  Linked(par2, c2, o2, y2)
  <1> USE ProcAssumption
  <1>n. NoProc \notin Proc
    BY DEF Proc
  <1>1. PICK B \in Nat : \E ord \in [Proc -> 0..B] : LinkedBy(par, c, o, y, ord)
    BY DEF Linked
  <1>2. PICK ord \in [Proc -> 0..B] : LinkedBy(par, c, o, y, ord)
    BY <1>1
  <1>4. \A q \in Proc : ord[q] \in Nat
    OBVIOUS
  <1>5. par \in Pointers /\ c \in Pointers /\ o \in Pointers /\ y \in Pointers
    BY DEF Linked, Typed
  <1>6. Typed(par2, c2, o2, y2)
    BY <1>5 DEF Typed, Removed, Pointers
  <1>7. /\ \A q \in Proc : par2[q] = IF q = z THEN NoProc ELSE par[q]
        /\ \A q \in Proc : o2[q] = IF q = z THEN NoProc ELSE IF q = y[z] THEN o[z] ELSE o[q]
        /\ \A q \in Proc : y2[q] = IF q = z THEN NoProc ELSE IF q = o[z] THEN y[z] ELSE y[q]
        /\ \A q \in Proc : c2[q] = IF y[z] = NoProc /\ q = par[z] THEN o[z] ELSE c[q]
    BY <1>5 DEF Removed, Pointers
  <1>8. OlderIs(par, ord, z, o[z]) /\ YoungerIs(par, ord, z, y[z])
    BY <1>2, <1>n DEF LinkedBy, SiblingsOf
  <1>d. Distinct(par, ord)
    BY <1>2 DEF LinkedBy
  <1>9. Distinct(par2, ord)
    BY <1>d, <1>7 DEF Distinct
  <1>10. ASSUME NEW q \in Proc PROVE SiblingsOf(par2, o2, y2, ord, q)
    <2>1. SiblingsOf(par, o, y, ord, q)
      BY <1>2 DEF LinkedBy
    <2>2. CASE q = z \/ par[q] = NoProc
      BY <2>1, <2>2, <1>n, <1>7, <1>8 DEF SiblingsOf, OlderIs, YoungerIs
    <2>4. CASE q # z /\ par[q] # NoProc
      <3>1. OlderIs(par, ord, q, o[q]) /\ YoungerIs(par, ord, q, y[q])
        BY <2>1, <2>4 DEF SiblingsOf
      <3>2. OlderIs(par2, ord, q, o2[q])
        <4>1. CASE q = y[z]
          BY <4>1, <2>4, <3>1, <1>n, <1>4, <1>7, <1>8, <1>d DEF OlderIs, YoungerIs, Distinct
        <4>2. CASE q # y[z]
          <5>1. o[q] # z
            BY <4>2, <2>4, <3>1, <1>d, <1>n, <1>4, <1>8 DEF OlderIs, YoungerIs, Distinct
          <5> QED BY <5>1, <4>2, <2>4, <3>1, <1>n, <1>4, <1>7 DEF OlderIs
        <4> QED BY <4>1, <4>2
      <3>3. YoungerIs(par2, ord, q, y2[q])
        <4>1. CASE q = o[z]
          BY <4>1, <2>4, <3>1, <1>n, <1>4, <1>7, <1>8, <1>d DEF OlderIs, YoungerIs, Distinct
        <4>2. CASE q # o[z]
          <5>1. y[q] # z
            BY <4>2, <2>4, <3>1, <1>d, <1>n, <1>4, <1>8 DEF OlderIs, YoungerIs, Distinct
          <5> QED BY <5>1, <4>2, <2>4, <3>1, <1>n, <1>4, <1>7 DEF YoungerIs
        <4> QED BY <4>1, <4>2
      <3> QED BY <3>2, <3>3, <2>4, <1>7 DEF SiblingsOf
    <2> QED BY <2>2, <2>4
  <1>11. ASSUME NEW q \in Proc PROVE YoungestIs(par2, ord, q, c2[q])
    <2>1. YoungestIs(par, ord, q, c[q])
      BY <1>2 DEF LinkedBy
    <2>2. CASE y[z] = NoProc /\ q = par[z]
      BY <2>2, <1>n, <1>4, <1>7, <1>8, <1>d DEF YoungestIs, OlderIs, YoungerIs, Distinct
    <2>3. CASE ~(y[z] = NoProc /\ q = par[z])
      <3>1. c[q] # z
        BY <2>1, <2>3, <1>n, <1>4, <1>8 DEF YoungestIs, YoungerIs
      <3> QED BY <2>1, <2>3, <3>1, <1>n, <1>4, <1>7 DEF YoungestIs
    <2> QED BY <2>2, <2>3
  <1>12. LinkedBy(par2, c2, o2, y2, ord)
    BY <1>9, <1>10, <1>11 DEF LinkedBy
  <1> QED BY <1>6, <1>12 DEF Linked

\* The children of p pass to g: they come after all others, in the reverse order.
LEMMA MoveKeeps ==
  ASSUME NEW par, NEW c, NEW o, NEW y, NEW par2, NEW c2, NEW o2, NEW y2,
         Linked(par, c, o, y), NEW p \in Proc, NEW g \in Proc, p # g, NEW last,
         Moved(par, c, o, y, p, g, last, par2, c2, o2, y2)
  PROVE  Linked(par2, c2, o2, y2)
  <1> USE ProcAssumption
  <1>n. NoProc \notin Proc
    BY DEF Proc
  <1>1. PICK B \in Nat : \E ord \in [Proc -> 0..B] : LinkedBy(par, c, o, y, ord)
    BY DEF Linked
  <1>2. PICK ord \in [Proc -> 0..B] : LinkedBy(par, c, o, y, ord)
    BY <1>1
  <1> DEFINE ord2 == [q \in Proc |-> IF par[q] = p THEN 2 * B + 1 - ord[q] ELSE ord[q]]
  <1>o. \A q \in Proc : ord[q] \in Nat /\ ord[q] <= B
    OBVIOUS
  <1>3. ord2 \in [Proc -> 0..(2 * B + 1)] /\ 2 * B + 1 \in Nat
    BY <1>o
  <1>4. \A q \in Proc : /\ ord[q] \in Nat /\ ord[q] <= B
                        /\ ord2[q] = IF par[q] = p THEN 2 * B + 1 - ord[q] ELSE ord[q]
    BY <1>o
  <1> HIDE DEF ord2
  <1>5. par \in Pointers /\ c \in Pointers /\ o \in Pointers /\ y \in Pointers
    BY DEF Linked, Typed
  <1>6. Typed(par2, c2, o2, y2)
    BY <1>5 DEF Typed, Moved, Pointers
  <1> DEFINE some == \E q \in Proc : par[q] = p
  <1>7. /\ \A q \in Proc : par2[q] = IF par[q] = p THEN g ELSE par[q]
        /\ \A q \in Proc : o2[q] = IF par[q] # p THEN o[q]
                                   ELSE IF y[q] = NoProc THEN c[g] ELSE y[q]
        /\ \A q \in Proc : y2[q] = IF par[q] = p THEN o[q]
                                   ELSE IF some /\ q = c[g] THEN c[p] ELSE y[q]
        /\ \A q \in Proc : c2[q] = IF q = p THEN NoProc
                                   ELSE IF q = g /\ some THEN last ELSE c[q]
        /\ some => last \in Proc /\ par[last] = p /\ o[last] = NoProc
    BY <1>5 DEF Moved, Pointers
  <1> HIDE DEF some
  <1>8. YoungestIs(par, ord, p, c[p]) /\ YoungestIs(par, ord, g, c[g])
    BY <1>2 DEF LinkedBy
  <1>d. Distinct(par, ord)
    BY <1>2 DEF LinkedBy
  <1>s. \A q \in Proc : par[q] = p => some
    BY DEF some
  <1>9. Distinct(par2, ord2)
    BY <1>d, <1>n, <1>4, <1>7 DEF Distinct
  <1>10. ASSUME NEW q \in Proc PROVE SiblingsOf(par2, o2, y2, ord2, q)
    <2>1. SiblingsOf(par, o, y, ord, q)
      BY <1>2 DEF LinkedBy
    <2>2. CASE par[q] = NoProc
      BY <2>1, <2>2, <1>n, <1>7, <1>8 DEF SiblingsOf, YoungestIs
    <2>3. CASE par[q] # NoProc
      <3>1. OlderIs(par, ord, q, o[q]) /\ YoungerIs(par, ord, q, y[q])
        BY <2>1, <2>3 DEF SiblingsOf
      <3>2. CASE par[q] = p
        <4>1. OlderIs(par2, ord2, q, o2[q])
          <5>1. CASE y[q] = NoProc
            BY <5>1, <3>1, <3>2, <1>n, <1>4, <1>7, <1>8 DEF OlderIs, YoungerIs, YoungestIs
          <5>2. CASE y[q] # NoProc
            BY <5>2, <3>1, <3>2, <1>n, <1>4, <1>7 DEF OlderIs, YoungerIs
          <5> QED BY <5>1, <5>2
        <4>2. YoungerIs(par2, ord2, q, y2[q])
          BY <3>1, <3>2, <1>n, <1>4, <1>7 DEF OlderIs, YoungerIs
        <4> QED BY <4>1, <4>2, <3>2, <1>n, <1>7 DEF SiblingsOf
      <3>3. CASE par[q] # p
        <4>1. OlderIs(par2, ord2, q, o2[q])
          BY <3>1, <3>3, <1>n, <1>4, <1>7 DEF OlderIs
        <4>2. YoungerIs(par2, ord2, q, y2[q])
          <5>1. CASE some /\ par[q] = g
            <6>1. CASE q = c[g]
              BY <6>1, <5>1, <3>1, <3>3, <1>n, <1>4, <1>7, <1>8 DEF some, YoungerIs, YoungestIs
            <6>2. CASE q # c[g]
              <7>1. y[q] # NoProc
                BY <6>2, <5>1, <3>1, <1>d, <1>n, <1>4, <1>8 DEF YoungerIs, YoungestIs, Distinct
              <7> QED BY <7>1, <6>2, <5>1, <3>1, <3>3, <1>n, <1>4, <1>7 DEF YoungerIs
            <6> QED BY <6>1, <6>2
          <5>2. CASE ~some \/ par[q] # g
            <6>1. y2[q] = y[q]
              BY <5>2, <3>3, <1>7, <1>8, <1>n DEF YoungestIs
            <6> QED BY <6>1, <5>2, <3>1, <3>3, <1>n, <1>4, <1>7, <1>s DEF YoungerIs
          <5> QED BY <5>1, <5>2
        <4> QED BY <4>1, <4>2, <2>3, <3>3, <1>7 DEF SiblingsOf
      <3> QED BY <3>2, <3>3
    <2> QED BY <2>2, <2>3
  <1>11. ASSUME NEW q \in Proc PROVE YoungestIs(par2, ord2, q, c2[q])
    <2>1. YoungestIs(par, ord, q, c[q])
      BY <1>2 DEF LinkedBy
    <2>2. CASE q = p
      BY <2>2, <1>n, <1>7 DEF YoungestIs
    <2>3. CASE q = g /\ some
      <3>1. OlderIs(par, ord, last, NoProc)
        BY <2>3, <1>2, <1>n, <1>7 DEF LinkedBy, SiblingsOf
      <3> QED BY <2>3, <3>1, <1>n, <1>4, <1>7 DEF YoungestIs, OlderIs
    <2>4. CASE q # p /\ ~(q = g /\ some)
      BY <2>1, <2>4, <1>n, <1>4, <1>7, <1>s DEF YoungestIs
    <2> QED BY <2>2, <2>3, <2>4
  <1>12. LinkedBy(par2, c2, o2, y2, ord2)
    BY <1>9, <1>10, <1>11 DEF LinkedBy
  <1> QED BY <1>3, <1>6, <1>12 DEF Linked
-----------------------------------------------------------------------------
(* What links that are right give to whoever follows them. *)

\* Every set of numbers that is not empty has a smallest one.
LEMMA SmallestOf ==
  ASSUME NEW T, T \subseteq Nat, T # {}
  PROVE  \E x \in T : \A y \in T : x <= y
  <1>1. PICK x \in T : \A y \in T : ~(<<y, x>> \in OpToRel(<, Nat))
    BY NatLessThanWellFounded, WFMin
  <1>2. \A y \in T : ~(y < x)
    BY <1>1 DEF OpToRel
  <1> QED BY <1>2

\* There are m numbers below m.
LEMMA FirstNumbers ==
  ASSUME NEW m \in Nat
  PROVE  IsFiniteSet(0..(m - 1)) /\ Cardinality(0..(m - 1)) = m
  <1>1. \A a, b \in Int : /\ IsFiniteSet(a..b)
                          /\ Cardinality(a..b) = IF a > b THEN 0 ELSE b - a + 1
    BY FS_Interval
  <1>2. 0 \in Int /\ m - 1 \in Int
    OBVIOUS
  <1> DEFINE b == m - 1
  <1>3. b \in Int /\ b = m - 1
    OBVIOUS
  <1> HIDE DEF b
  <1>4. /\ IsFiniteSet(0..b)
        /\ Cardinality(0..b) = IF 0 > b THEN 0 ELSE b - 0 + 1
    BY <1>1, <1>2, <1>3
  <1> QED BY <1>3, <1>4

ChildrenIn(par, p) == {q \in Proc : par[q] = p}

\* w is the walk along optr that starts at the youngest child of p.
Walked(c, o, p, n, w) ==
  w = [i \in 0..n |-> IF i = 0 THEN c[p]
                      ELSE IF w[i - 1] \in Proc THEN o[w[i - 1]] ELSE NoProc]

\* There is a walk of every length.
LEMMA WalkExists ==
  ASSUME NEW c, NEW o, NEW p, NEW n \in Nat
  PROVE  \E w : Walked(c, o, p, n, w)
  <1> DEFINE Bad == {m \in Nat : ~(\E w : Walked(c, o, p, m, w))}
  <1>1. SUFFICES ASSUME Bad # {} PROVE FALSE
    OBVIOUS
  <1>2. PICK m \in Bad : \A k \in Bad : m <= k
    <2>1. Bad \subseteq Nat /\ Bad # {}
      BY <1>1
    <2> QED BY ONLY <2>1, SmallestOf
  <1>3. m \in Nat /\ ~(\E w : Walked(c, o, p, m, w))
    BY <1>2
  <1>4. CASE m = 0
    <2>1. Walked(c, o, p, 0, [i \in 0..0 |-> c[p]])
      BY DEF Walked
    <2> QED BY <1>3, <1>4, <2>1
  <1>5. CASE m # 0
    <2>1. m - 1 \in Nat /\ m - 1 \notin Bad
      BY <1>2, <1>3, <1>5
    <2>2. PICK v : Walked(c, o, p, m - 1, v)
      BY <2>1
    <2> DEFINE x == IF v[m - 1] \in Proc THEN o[v[m - 1]] ELSE NoProc
               w == [i \in 0..m |-> IF i = m THEN x ELSE v[i]]
    <2>3. \A i \in 0..(m - 1) : v[i] = IF i = 0 THEN c[p]
                                      ELSE IF v[i - 1] \in Proc THEN o[v[i - 1]] ELSE NoProc
      BY <2>2 DEF Walked
    <2>4. \A i \in 0..m : w[i] = IF i = 0 THEN c[p]
                                ELSE IF w[i - 1] \in Proc THEN o[w[i - 1]] ELSE NoProc
      <3> SUFFICES ASSUME NEW i \in 0..m
                   PROVE  w[i] = IF i = 0 THEN c[p]
                                 ELSE IF w[i - 1] \in Proc THEN o[w[i - 1]] ELSE NoProc
        OBVIOUS
      <3>1. i # 0 => i - 1 \in 0..m /\ w[i - 1] = v[i - 1]
        BY <1>3
      <3>2. CASE i = m
        BY <3>1, <3>2, <1>5
      <3>3. CASE i # m
        <4>1. i \in 0..(m - 1) /\ w[i] = v[i]
          BY <1>3, <3>3
        <4> QED BY <3>1, <4>1, <2>3
      <3> QED BY <3>2, <3>3
    <2>5. Walked(c, o, p, m, w)
      <3>1. w = [i \in 0..m |-> w[i]]
        OBVIOUS
      <3> HIDE DEF w
      <3> QED BY <3>1, <2>4 DEF Walked
    <2> QED BY <1>3, <2>5
  <1> QED BY <1>4, <1>5

\* So the recursive definition of one defines it.
LEMMA WalkDefined ==
  ASSUME NEW c, NEW o, NEW p, NEW n \in Nat
  PROVE  LET walk[i \in 0..n] == IF i = 0 THEN c[p]
                                 ELSE IF walk[i-1] \in Proc THEN o[walk[i-1]] ELSE NoProc
         IN  Walked(c, o, p, n, walk)
  <1>1. \E w : Walked(c, o, p, n, w)
    BY WalkExists
  <1>2. Walked(c, o, p, n, CHOOSE w : Walked(c, o, p, n, w))
    BY ONLY <1>1
  <1> QED BY <1>2 DEF Walked

\* The walk visits the n members of K, once each, and yptr leads back.
WalkGood(y, K, n, w) ==
  /\ {w[i] : i \in 0..(n - 1)} = K
  /\ w[n] = NoProc
  /\ \A i \in 0..(n - 1) : y[w[i]] = IF i = 0 THEN NoProc ELSE w[i - 1]

\* As long as it has not come to the end, the walk goes from child to older child.
LEMMA WalkDescends ==
  ASSUME NEW par, NEW c, NEW o, NEW y, NEW B \in Nat, NEW ord \in [Proc -> 0..B],
         LinkedBy(par, c, o, y, ord), NEW p \in Proc, NEW n \in Nat, NEW w, Walked(c, o, p, n, w)
  PROVE  /\ \A i \in 0..n : w[i] \in ChildrenIn(par, p) \cup {NoProc}
         /\ w[0] = c[p]
         /\ \A i \in 1..n : w[i - 1] = NoProc => w[i] = NoProc
         /\ \A i \in 1..n : w[i - 1] # NoProc => w[i] = o[w[i - 1]]
         /\ \A i, j \in 0..n : i < j /\ w[j] # NoProc => w[i] # NoProc /\ ord[w[j]] < ord[w[i]]
  <1> USE ProcAssumption
  <1>n. NoProc \notin Proc
    BY DEF Proc
  <1>o. \A q \in Proc : ord[q] \in Nat
    OBVIOUS
  <1>1. w[0] = c[p]
    BY DEF Walked
  <1>2. \A i \in 1..n : w[i] = IF w[i - 1] \in Proc THEN o[w[i - 1]] ELSE NoProc
    <2> SUFFICES ASSUME NEW i \in 1..n
                 PROVE  w[i] = IF w[i - 1] \in Proc THEN o[w[i - 1]] ELSE NoProc
      OBVIOUS
    <2>1. i \in 0..n /\ i # 0
      OBVIOUS
    <2> QED BY <2>1 DEF Walked
  <1> DEFINE Good(i) == w[i] \in ChildrenIn(par, p) \cup {NoProc}
  <1>3. Good(0)
    <2>1. YoungestIs(par, ord, p, c[p])
      BY DEF LinkedBy
    <2> QED BY <1>1, <2>1 DEF YoungestIs, ChildrenIn
  <1>4. ASSUME NEW i \in 1..n, Good(i - 1)
        PROVE  /\ Good(i)
               /\ w[i] # NoProc => /\ w[i - 1] # NoProc
                                   /\ w[i] = o[w[i - 1]]
                                   /\ ord[w[i]] < ord[w[i - 1]]
    <2>1. CASE w[i - 1] = NoProc
      BY <1>2, <1>n, <2>1
    <2>2. CASE w[i - 1] # NoProc
      <3>1. w[i - 1] \in Proc /\ par[w[i - 1]] = p
        BY <1>4, <2>2 DEF ChildrenIn
      <3>2. OlderIs(par, ord, w[i - 1], o[w[i - 1]])
        BY <3>1, <1>n DEF LinkedBy, SiblingsOf
      <3> QED BY <2>2, <3>1, <3>2, <1>2, <1>n DEF OlderIs, ChildrenIn
    <2> QED BY <2>1, <2>2
  <1>5. ASSUME NEW i \in 0..n PROVE Good(i)
    <2> DEFINE T == {j \in 0..n : ~Good(j)}
    <2>1. SUFFICES ASSUME T # {} PROVE FALSE
      BY <1>5
    <2>2. PICK m \in T : \A j \in T : m <= j
      <3>1. T \subseteq Nat /\ T # {}
        BY <2>1
      <3> QED BY ONLY <3>1, SmallestOf
    <2>3. m \in 1..n /\ m - 1 \in 0..n
      BY <1>3, <2>2
    <2>4. Good(m - 1)
      BY <2>2, <2>3
    <2> QED BY <1>4, <2>2, <2>3, <2>4
  <1> DEFINE Falls(i, j) == w[j] # NoProc => w[i] # NoProc /\ ord[w[j]] < ord[w[i]]
  <1>6. ASSUME NEW i \in 0..n, NEW j \in 0..n, i < j PROVE Falls(i, j)
    <2> DEFINE T == {k \in 0..n : i < k /\ ~Falls(i, k)}
    <2>1. SUFFICES ASSUME T # {} PROVE FALSE
      BY <1>6
    <2>2. PICK m \in T : \A k \in T : m <= k
      <3>1. T \subseteq Nat /\ T # {}
        BY <2>1
      <3> QED BY ONLY <3>1, SmallestOf
    <2>3. m \in 1..n /\ m - 1 \in 0..n /\ m - 1 \notin T /\ i < m /\ ~Falls(i, m)
      BY <2>2
    <2>4. w[m] # NoProc /\ w[m - 1] # NoProc /\ ord[w[m]] < ord[w[m - 1]]
      BY <1>4, <1>5, <2>3
    <2>5. i = m - 1 \/ (w[i] # NoProc /\ ord[w[m - 1]] < ord[w[i]])
      BY <2>3, <2>4
    <2>6. \A k \in 0..n : w[k] # NoProc => ord[w[k]] \in Nat
      BY <1>5, <1>o DEF ChildrenIn
    <2>7. i = m - 1
      BY <2>3, <2>4, <2>5, <2>6
    <2> QED BY <2>3, <2>4, <2>7
  <1>7. \A i \in 1..n : i - 1 \in 0..n
    OBVIOUS
  <1>8. \A i \in 0..n : w[i] \in Proc \/ w[i] = NoProc
    BY <1>5 DEF ChildrenIn
  <1> HIDE DEF Good, Falls
  <1>9. \A i \in 0..n : w[i] \in ChildrenIn(par, p) \cup {NoProc}
    BY <1>5 DEF Good
  <1>10. \A i \in 1..n : w[i - 1] = NoProc => w[i] = NoProc
    BY <1>2, <1>n
  <1>11. \A i \in 1..n : w[i - 1] # NoProc => w[i] = o[w[i - 1]]
    BY <1>2, <1>7, <1>8
  <1>12. \A i, j \in 0..n : i < j /\ w[j] # NoProc => w[i] # NoProc /\ ord[w[j]] < ord[w[i]]
    BY <1>6 DEF Falls
  <1> QED BY <1>1, <1>9, <1>10, <1>11, <1>12

\* No child is left out, and there is no room for the walk to go on.
LEMMA WalkExact ==
  ASSUME NEW par, NEW c, NEW o, NEW y, NEW B \in Nat, NEW ord \in [Proc -> 0..B],
         LinkedBy(par, c, o, y, ord), NEW p \in Proc, IsFiniteSet(ChildrenIn(par, p)),
         NEW w, Walked(c, o, p, Cardinality(ChildrenIn(par, p)), w)
  PROVE  WalkGood(y, ChildrenIn(par, p), Cardinality(ChildrenIn(par, p)), w)
  <1> USE ProcAssumption
  <1>n. NoProc \notin Proc
    BY DEF Proc
  <1>o. \A q \in Proc : ord[q] \in Nat
    OBVIOUS
  <1> DEFINE K == ChildrenIn(par, p)
             n == Cardinality(K)
  <1>1. n \in Nat
    BY FS_CardinalityType
  <1>k. \A q \in K : q \in Proc /\ par[q] = p /\ q # NoProc
    BY <1>n DEF ChildrenIn
  <1>f. IsFiniteSet(K)
    OBVIOUS
  <1>d. Distinct(par, ord)
    BY DEF LinkedBy
  <1>y. YoungestIs(par, ord, p, c[p])
    BY DEF LinkedBy
  <1>s. \A q \in K : OlderIs(par, ord, q, o[q]) /\ YoungerIs(par, ord, q, y[q])
    BY <1>n DEF LinkedBy, SiblingsOf, ChildrenIn
  <1>q. \A q \in Proc : par[q] = p => q \in K
    BY DEF ChildrenIn
  <1>w. Walked(c, o, p, n, w)
    OBVIOUS
  <1> HIDE DEF n
  <1>2. /\ \A i \in 0..n : w[i] \in K \cup {NoProc}
        /\ w[0] = c[p]
        /\ \A i \in 1..n : w[i - 1] = NoProc => w[i] = NoProc
        /\ \A i \in 1..n : w[i - 1] # NoProc => w[i] = o[w[i - 1]]
        /\ \A i, j \in 0..n : i < j /\ w[j] # NoProc => w[i] # NoProc /\ ord[w[j]] < ord[w[i]]
    BY <1>1, <1>w, WalkDescends
  <1> HIDE DEF K
  <1>3. w[n] = NoProc
    <2>1. SUFFICES ASSUME w[n] # NoProc PROVE FALSE
      OBVIOUS
    <2>2. \A i \in 0..n : w[i] \in K
      <3> SUFFICES ASSUME NEW i \in 0..n PROVE w[i] \in K
        OBVIOUS
      <3>1. i = n \/ i < n
        BY <1>1
      <3>2. n \in 0..n
        BY <1>1
      <3> QED BY <1>2, <2>1, <3>1, <3>2
    <2>3. \A i, j \in 0..n : i # j => w[i] # w[j]
      <3> SUFFICES ASSUME NEW i \in 0..n, NEW j \in 0..n, i # j, w[i] = w[j] PROVE FALSE
        OBVIOUS
      <3>1. i < j \/ j < i
        BY <1>1
      <3> QED BY <1>1, <1>2, <2>2, <1>k, <1>o, <3>1
    <2>4. [i \in 0..n |-> w[i]] \in Injection(0..n, K)
      BY <2>2, <2>3 DEF Injection, IsInjective
    <2>5. Cardinality(0..n) <= n
      BY <2>4, <1>f, FS_Injection DEF n
    <2>6. Cardinality(0..n) = n + 1
      BY <1>1, FS_Interval
    <2> QED BY <1>1, <2>5, <2>6
  <1> DEFINE T == {i \in 0..n : w[i] = NoProc}
  <1>4. PICK m \in T : \A i \in T : m <= i
    <2>1. T \subseteq Nat /\ T # {}
      BY <1>1, <1>3
    <2> QED BY ONLY <2>1, SmallestOf
  <1>5. /\ m \in 0..n /\ w[m] = NoProc
        /\ \A i \in 0..(m - 1) : i \in 0..n /\ w[i] \in K
    <2>1. ASSUME NEW i \in 0..(m - 1) PROVE i \in 0..n /\ w[i] \in K
      <3>1. i \in 0..n /\ i \notin T
        BY <1>1, <1>4
      <3> QED BY <1>2, <3>1
    <2> QED BY <1>4, <2>1
  <1> HIDE DEF T
  <1>6. ASSUME NEW k \in K PROVE \E i \in 0..(m - 1) : w[i] = k
    <2>1. SUFFICES ASSUME \A i \in 0..(m - 1) : w[i] # k PROVE FALSE
      BY <1>6
    <2> DEFINE Below(i) == ord[k] < ord[w[i]]
               D == {i \in 0..(m - 1) : ~Below(i)}
    <2>2. ASSUME NEW i \in 0..(m - 1) PROVE Below(i)
      <3>1. SUFFICES ASSUME D # {} PROVE FALSE
        BY <2>2
      <3>2. PICK j \in D : \A i2 \in D : j <= i2
        <4>1. D \subseteq Nat /\ D # {}
          BY <3>1
        <4> QED BY ONLY <4>1, SmallestOf
      <3>3. j \in 0..(m - 1) /\ ~Below(j) /\ w[j] \in K /\ w[j] # k
        BY <3>2, <1>5, <2>1
      <3>4. CASE j = 0
        <4>1. ord[k] <= ord[w[0]]
          BY <3>3, <3>4, <1>2, <1>k, <1>y DEF YoungestIs
        <4>2. ord[k] # ord[w[0]]
          BY <3>3, <3>4, <1>d, <1>k, <1>n DEF Distinct
        <4> QED BY <3>3, <3>4, <4>1, <4>2, <1>k, <1>o
      <3>5. CASE j # 0
        <4>1. j - 1 \in 0..(m - 1) /\ j \in 1..n /\ j - 1 \notin D
          BY <3>2, <3>5, <1>5, <1>1
        <4>2. Below(j - 1) /\ w[j - 1] \in K
          BY <4>1, <1>5
        <4>3. w[j] = o[w[j - 1]]
          BY <4>1, <4>2, <1>2, <1>k
        <4>4. ord[k] <= ord[w[j]] \/ ord[w[j - 1]] <= ord[k]
          BY <3>3, <4>2, <4>3, <1>s, <1>k, <1>n DEF OlderIs
        <4>5. ord[k] # ord[w[j]]
          BY <3>3, <1>d, <1>k, <1>n DEF Distinct
        <4> QED BY <3>3, <4>2, <4>4, <4>5, <1>k, <1>o
      <3> QED BY <3>4, <3>5
    <2>3. CASE m = 0
      BY <2>3, <1>2, <1>5, <1>y, <1>k DEF YoungestIs
    <2>4. CASE m # 0
      <3>1. m - 1 \in 0..(m - 1) /\ m \in 1..n
        BY <1>5, <1>1, <2>4
      <3>2. w[m - 1] \in K /\ o[w[m - 1]] = NoProc
        BY <3>1, <1>2, <1>5, <1>k
      <3>3. ord[w[m - 1]] <= ord[k]
        BY <3>2, <1>s, <1>k DEF OlderIs
      <3> QED BY <3>1, <3>2, <3>3, <2>2, <1>k, <1>o
    <2> QED BY <2>3, <2>4
  <1>7. m = n
    <2>1. [i \in 0..(m - 1) |-> w[i]] \in Surjection(0..(m - 1), K)
      BY <1>5, <1>6 DEF Surjection
    <2>2. IsFiniteSet(0..(m - 1)) /\ Cardinality(0..(m - 1)) = m
      BY <1>5, <1>1, FirstNumbers
    <2>3. Cardinality(K) <= m
      BY <2>1, <2>2, FS_Surjection
    <2> QED BY <2>3, <1>5, <1>1 DEF n
  <1>8. {w[i] : i \in 0..(n - 1)} = K
    BY <1>5, <1>6, <1>7
  <1>9. ASSUME NEW i \in 0..(n - 1) PROVE y[w[i]] = IF i = 0 THEN NoProc ELSE w[i - 1]
    <2>1. w[i] \in K /\ i \in 0..n
      BY <1>5, <1>7
    <2>2. YoungerIs(par, ord, w[i], y[w[i]])
      BY <2>1, <1>s
    <2>3. CASE i = 0
      BY <2>1, <2>2, <2>3, <1>2, <1>y, <1>k, <1>o, <1>n DEF YoungerIs, YoungestIs
    <2>4. CASE i # 0
      <3>1. i - 1 \in 0..(n - 1) /\ i \in 1..n
        BY <1>1, <2>4
      <3>2. w[i - 1] \in K /\ w[i] = o[w[i - 1]]
        BY <3>1, <1>2, <1>5, <1>7, <1>k
      <3>3. OlderIs(par, ord, w[i - 1], w[i])
        BY <3>2, <1>s
      <3> QED BY <2>1, <2>2, <2>4, <3>2, <3>3, <1>k, <1>o, <1>n, <1>d DEF YoungerIs, OlderIs, Distinct
    <2> QED BY <2>3, <2>4
  <1> QED BY <1>3, <1>8, <1>9 DEF WalkGood, K, n
-----------------------------------------------------------------------------
(* The family of the running kernel. *)

Live == {q \in Proc : state[q] # "FREE"}

\* Whoever has a proc_struct has a living parent, except idle, which has none, and
\* idle has no child but init.
ParentsLive ==
  /\ parent[idle] = NoProc
  /\ \A q \in Users : parent[q] # idle
  /\ \A q \in Proc \ {idle} : state[q] # "FREE" => state[parent[q]] \notin {"FREE", "ZOMBIE"}

\* Everybody descends from init: dep grows on every way down from it.
DescendBy(par, dep) ==
  /\ dep[init] = 0
  /\ \A q \in Users : par[q] # NoProc => dep[par[q]] < dep[q]

Descend == \E dep \in [Proc -> Nat] : DescendBy(parent, dep)

Counted == IsFiniteSet(Live) /\ nr_process = Cardinality(Live)

\* init waits for any child, and has left do_wait for good only when nobody is left.
InitWaits ==
  /\ pc[init] # "halt" => tgt[init] = AnyChild
  /\ pc[init] = "halt" => \A q \in Users : state[q] = "FREE"

Family ==
  /\ Linked(parent, cptr, optr, yptr)
  /\ ParentsLive
  /\ Descend
  /\ Counted
  /\ InitWaits

\* The family when idle is about to call schedule() for the first time.
LEMMA InitFamily == Init => Family
  <1> SUFFICES ASSUME Init PROVE Family
    OBVIOUS
  <1> USE ProcAssumption DEF Init
  <1>n. NoProc \notin Proc /\ idle \in Proc /\ init \in Proc
    BY DEF Proc
  <1>1. Linked(parent, cptr, optr, yptr)
    <2> DEFINE ord == [q \in Proc |-> 0]
    <2>1. ord \in [Proc -> 0..0] /\ \A q \in Proc : ord[q] = 0
      OBVIOUS
    <2> HIDE DEF ord
    <2>2. Typed(parent, cptr, optr, yptr)
      BY <1>n DEF Typed, Pointers
    <2>3. Distinct(parent, ord)
      BY DEF Distinct
    <2>4. \A q \in Proc : SiblingsOf(parent, optr, yptr, ord, q)
      BY <1>n, <2>1 DEF SiblingsOf, OlderIs, YoungerIs
    <2>5. \A p \in Proc : YoungestIs(parent, ord, p, cptr[p])
      BY <1>n, <2>1 DEF YoungestIs
    <2> QED BY <2>1, <2>2, <2>3, <2>4, <2>5 DEF Linked, LinkedBy
  <1>2. ParentsLive
    BY DEF ParentsLive, Proc
  <1>3. Descend
    <2> DEFINE dep == [q \in Proc |-> 0]
    <2>1. dep \in [Proc -> Nat] /\ DescendBy(parent, dep)
      BY DEF DescendBy, Proc
    <2> QED BY <2>1 DEF Descend
  <1>4. Counted
    <2>1. Live = {idle} \cup {init}
      BY DEF Live, Proc
    <2>2. IsFiniteSet({idle}) /\ Cardinality({idle}) = 1
      BY FS_Singleton
    <2>3. IsFiniteSet({idle} \cup {init}) /\ Cardinality({idle} \cup {init}) = 1 + 1
      BY <2>2, FS_AddElement
    <2> QED BY <2>1, <2>3 DEF Counted
  <1>5. InitWaits
    BY DEF InitWaits, Proc
  <1> QED BY <1>1, <1>2, <1>3, <1>4, <1>5 DEF Family

\* Who is alive and who is dead can be read from Life.
LEMMA LifeOfState ==
  /\ \A q \in Proc : (Life[q] = "none" <=> state[q] = "FREE")
  /\ \A q \in Proc : (Life[q] = "zombie" <=> state[q] = "ZOMBIE")
  /\ \A q \in Proc : (Life'[q] = "none" <=> state'[q] = "FREE")
  /\ \A q \in Proc : (Life'[q] = "zombie" <=> state'[q] = "ZOMBIE")
  BY DEF Life

\* What the invariants of ProcProofs say of the life of processes.
LEMMA LifeFacts ==
  ASSUME Inv
  PROVE  /\ Life[idle] = "alive" /\ Life[init] = "alive" /\ parent[init] = idle
         /\ \A q \in Proc \ {idle} :
              IF Life[q] = "none" THEN parent[q] = NoProc ELSE parent[q] \in Proc \ {q}
  <1>1. state[init] \notin {"FREE", "ZOMBIE"} /\ state[idle] = "RUNNABLE"
    BY ProcAssumption DEF Inv, ControlOK, StateFits, Proc, Resume
  <1> QED BY <1>1, ProcAssumption DEF Inv, ControlOK, Life, Proc
\* A list of children has an oldest member, which has no older sibling.
LEMMA OldestExists ==
  ASSUME NEW par, NEW c, NEW o, NEW y, Linked(par, c, o, y), NEW p \in Proc,
         {q \in Proc : par[q] = p} # {}
  PROVE  \E k \in {q \in Proc : par[q] = p} : o[k] = NoProc
  <1> USE ProcAssumption
  <1>n. NoProc \notin Proc
    BY DEF Proc
  <1>1. PICK B \in Nat : \E ord \in [Proc -> 0..B] : LinkedBy(par, c, o, y, ord)
    BY DEF Linked
  <1>2. PICK ord \in [Proc -> 0..B] : LinkedBy(par, c, o, y, ord)
    BY <1>1
  <1> DEFINE T == {ord[q] : q \in {r \in Proc : par[r] = p}}
  <1>3. PICK m \in T : \A i \in T : m <= i
    <2>1. T \subseteq Nat /\ T # {}
      OBVIOUS
    <2> QED BY ONLY <2>1, SmallestOf
  <1>4. PICK k \in Proc : par[k] = p /\ ord[k] = m
    BY <1>3
  <1>5. OlderIs(par, ord, k, o[k])
    BY <1>2, <1>4, <1>n DEF LinkedBy, SiblingsOf
  <1>6. \A q \in Proc : par[q] = p => ord[q] \in Nat /\ ord[k] <= ord[q]
    BY <1>3, <1>4
  <1>7. o[k] = NoProc
    BY <1>4, <1>5, <1>6 DEF OlderIs
  <1> QED BY <1>4, <1>7
Tree == Linked(parent, cptr, optr, yptr) /\ ParentsLive /\ Descend /\ Counted

\* do_fork: the child is younger than its siblings and deeper than its parent.
LEMMA ForkTree ==
  ASSUME NEW p \in Users \cup {init}, NEW c \in Users, Inv, Tree, Forks(p, c)
  PROVE  Tree'
  <1> USE ProcAssumption
  <1>n. NoProc \notin Proc /\ idle \in Proc /\ p \in Proc /\ c \in Proc /\ c \notin {idle, init}
    BY DEF Proc
  <1>1. PICK after \in {"trapret", "wait"} : DoFork(p, c, after)
    BY DEF Forks
  <1>2. LC!Create(p, c)
    BY <1>1, ForkCreates DEF Forks
  <1>3. /\ Life[p] = "alive" /\ Life[c] = "none" /\ p # c
        /\ Life' = [Life EXCEPT ![c] = "alive"]
        /\ parent' = [parent EXCEPT ![c] = p]
    BY <1>2 DEF LC!Create, LC!Alive
  <1>4. parent \in Pointers /\ parent[c] = NoProc
    BY <1>3, <1>n, LifeFacts DEF Tree, Linked, Typed
  <1>5. \A q \in Proc : /\ Life'[q] = IF q = c THEN "alive" ELSE Life[q]
                        /\ parent'[q] = IF q = c THEN p ELSE parent[q]
    BY <1>3, <1>4 DEF Pointers, Life
  <1>6. Linked(parent', cptr', optr', yptr')
    <2>1. Added(parent, cptr, optr, yptr, p, c, parent', cptr', optr', yptr')
      BY <1>1 DEF DoFork, SetLinks, Added
    <2>2. Linked(parent, cptr, optr, yptr)
      BY DEF Tree
    <2> QED BY ONLY <1>3, <1>4, <1>n, <2>1, <2>2, ProcAssumption, AddKeeps
  <1>7. ParentsLive'
    <2>1. ParentsLive
      BY DEF Tree
    <2>2. \A q \in Proc \ {idle} : Life[q] # "none" =>
            parent[q] \in Proc /\ Life[parent[q]] \notin {"none", "zombie"}
      BY <2>1, LifeFacts, LifeOfState DEF ParentsLive
    <2>3. p # idle /\ \A q \in Users : q \in Proc
      BY DEF Proc
    <2>4. parent'[idle] = NoProc /\ \A q \in Users : parent'[q] # idle
      BY <2>1, <2>3, <1>5, <1>n DEF ParentsLive
    <2>5. \A q \in Proc \ {idle} : Life'[q] # "none" =>
            parent'[q] \in Proc /\ Life'[parent'[q]] \notin {"none", "zombie"}
      BY <2>2, <1>3, <1>5, <1>n
    <2> QED BY <2>4, <2>5, LifeOfState DEF ParentsLive
  <1>8. Descend'
    <2>1. PICK dep \in [Proc -> Nat] : DescendBy(parent, dep)
      BY DEF Tree, Descend
    <2> DEFINE dep2 == [dep EXCEPT ![c] = dep[p] + 1]
    <2>2. dep2 \in [Proc -> Nat] /\ \A q \in Proc : dep2[q] = IF q = c THEN dep[p] + 1 ELSE dep[q]
      BY <1>n
    <2> HIDE DEF dep2
    <2>3. \A q \in Users : q # c => parent[q] # c
      <3>1. ParentsLive /\ state[c] = "FREE"
        BY <1>3, <1>n, LifeOfState DEF Tree
      <3>2. \A q \in Users : q \in Proc \ {idle}
        BY DEF Proc
      <3> QED BY <3>1, <3>2, <1>n, LifeFacts, LifeOfState DEF ParentsLive
    <2>4. \A q \in Users : q \in Proc /\ (parent[q] # NoProc => parent[q] \in Proc)
      BY <1>4 DEF Pointers, Proc
    <2>5. DescendBy(parent', dep2)
      BY <2>1, <2>2, <2>3, <2>4, <1>3, <1>5, <1>n DEF DescendBy, Proc
    <2> QED BY <2>2, <2>5 DEF Descend
  <1>9. Counted'
    <2>1. Live' = Live \cup {c} /\ c \notin Live
      BY <1>3, <1>5, <1>n, LifeOfState DEF Live
    <2>2. nr_process' = nr_process + 1
      BY <1>1 DEF DoFork, SetLinks
    <2> QED BY <2>1, <2>2, FS_AddElement DEF Tree, Counted
  <1> QED BY <1>6, <1>7, <1>8, <1>9 DEF Tree

\* do_wait frees a zombie that has no child any more.
LEMMA ReapTree ==
  ASSUME NEW p \in Users \cup {init}, NEW z \in Users, Inv, Tree, WaitReap(p, z)
  PROVE  Tree'
  <1> USE ProcAssumption
  <1>n. NoProc \notin Proc /\ idle \in Proc /\ p \in Proc /\ z \in Proc /\ z \notin {idle, init}
    BY DEF Proc
  <1>2. LC!Reap(p, z)
    BY WaitReaps
  <1>3. /\ Life[p] = "alive" /\ Life[z] = "zombie" /\ p # z /\ parent[z] = p
        /\ Life' = [Life EXCEPT ![z] = "none"]
        /\ parent' = [parent EXCEPT ![z] = NoProc]
    BY <1>2 DEF LC!Reap, LC!Alive
  <1>4. parent \in Pointers
    BY DEF Tree, Linked, Typed
  <1>5. \A q \in Proc : /\ Life'[q] = IF q = z THEN "none" ELSE Life[q]
                        /\ parent'[q] = IF q = z THEN NoProc ELSE parent[q]
    BY <1>3, <1>4 DEF Pointers, Life
  <1>6. Linked(parent', cptr', optr', yptr')
    <2>1. Removed(parent, cptr, optr, yptr, z, parent', cptr', optr', yptr')
      BY DEF WaitReap, RemoveLinks, Removed
    <2>2. Linked(parent, cptr, optr, yptr) /\ parent[z] \in Proc \ {z}
      BY <1>3, <1>n DEF Tree
    <2> QED BY ONLY <1>n, <2>1, <2>2, ProcAssumption, RemoveKeeps
  <1>7. ParentsLive'
    <2>1. ParentsLive
      BY DEF Tree
    <2>2. \A q \in Proc \ {idle} : Life[q] # "none" =>
            parent[q] \in Proc /\ Life[parent[q]] \notin {"none", "zombie"}
      BY <2>1, LifeFacts, LifeOfState DEF ParentsLive
    <2>3. \A q \in Users : q \in Proc
      BY DEF Proc
    <2>4. parent'[idle] = NoProc /\ \A q \in Users : parent'[q] # idle
      BY <2>1, <2>3, <1>5, <1>n DEF ParentsLive
    <2>5. \A q \in Proc \ {idle} : Life'[q] # "none" =>
            parent'[q] \in Proc /\ Life'[parent'[q]] \notin {"none", "zombie"}
      BY <2>2, <1>3, <1>5, <1>n
    <2> QED BY <2>4, <2>5, LifeOfState DEF ParentsLive
  <1>8. Descend'
    <2>1. PICK dep \in [Proc -> Nat] : DescendBy(parent, dep)
      BY DEF Tree, Descend
    <2>2. DescendBy(parent', dep)
      BY <2>1, <1>5 DEF DescendBy, Proc
    <2> QED BY <2>1, <2>2 DEF Descend
  <1>9. Counted'
    <2>1. Live' = Live \ {z} /\ z \in Live
      BY <1>3, <1>5, <1>n, LifeOfState DEF Live
    <2>2. nr_process' = nr_process - 1
      BY DEF WaitReap, RemoveLinks
    <2> QED BY <2>1, <2>2, FS_RemoveElement DEF Tree, Counted
  <1> QED BY <1>6, <1>7, <1>8, <1>9 DEF Tree

\* do_exit hands its children to init, which lives and is above them all.
LEMMA ExitTree ==
  ASSUME NEW p \in Users, Inv, Tree, Exits(p)
  PROVE  Tree'
  <1> USE ProcAssumption
  <1>n. NoProc \notin Proc /\ idle \in Proc /\ init \in Proc /\ p \in Proc /\ p \notin {idle, init}
    BY DEF Proc
  <1>2. LC!Die(p)
    BY ExitDies DEF Exits
  <1>3. /\ Life[p] = "alive"
        /\ Life' = [Life EXCEPT ![p] = "zombie"]
        /\ parent' = [q \in Proc |-> IF parent[q] = p THEN init ELSE parent[q]]
    BY <1>2 DEF LC!Die, LC!Alive
  <1>4. parent \in Pointers
    BY DEF Tree, Linked, Typed
  <1>5. \A q \in Proc : /\ Life'[q] = IF q = p THEN "zombie" ELSE Life[q]
                        /\ parent'[q] = IF parent[q] = p THEN init ELSE parent[q]
    BY <1>3, <1>4 DEF Pointers, Life
  <1>k. Kids(p) = {q \in Proc : parent[q] = p}
    <2>1. \A q \in Proc : parent[q] = p => state[q] # "FREE"
      BY <1>n, LifeFacts, LifeOfState DEF Tree, ParentsLive
    <2> QED BY <2>1 DEF Kids
  <1>6. Linked(parent', cptr', optr', yptr')
    <2> DEFINE last == CHOOSE k \in Kids(p) : optr[k] = NoProc
    <2>1. Linked(parent, cptr, optr, yptr)
      BY DEF Tree
    <2>2. Kids(p) # {} => last \in Kids(p) /\ optr[last] = NoProc
      <3>1. SUFFICES ASSUME Kids(p) # {} PROVE \E k \in Kids(p) : optr[k] = NoProc
        OBVIOUS
      <3>2. {q \in Proc : parent[q] = p} # {}
        BY <3>1, <1>k
      <3>3. \E k \in {q \in Proc : parent[q] = p} : optr[k] = NoProc
        BY ONLY <3>2, <2>1, <1>n, OldestExists
      <3> QED BY <3>3, <1>k
    <2>3. Moved(parent, cptr, optr, yptr, p, init, last, parent', cptr', optr', yptr')
      BY <2>2, <1>k DEF Exits, DoExit, Adopt, Moved
    <2> HIDE DEF last
    <2> QED BY ONLY <1>n, <2>1, <2>3, ProcAssumption, MoveKeeps
  <1>7. ParentsLive'
    <2>1. ParentsLive
      BY DEF Tree
    <2>2. \A q \in Proc \ {idle} : Life[q] # "none" =>
            parent[q] \in Proc /\ Life[parent[q]] \notin {"none", "zombie"}
      BY <2>1, LifeFacts, LifeOfState DEF ParentsLive
    <2>3. \A q \in Users : q \in Proc
      BY DEF Proc
    <2>4. parent'[idle] = NoProc /\ \A q \in Users : parent'[q] # idle
      BY <2>1, <2>3, <1>5, <1>n DEF ParentsLive
    <2>5. \A q \in Proc \ {idle} : Life'[q] # "none" =>
            parent'[q] \in Proc /\ Life'[parent'[q]] \notin {"none", "zombie"}
      BY <2>2, <1>3, <1>5, <1>n, LifeFacts
    <2> QED BY <2>4, <2>5, LifeOfState DEF ParentsLive
  <1>8. Descend'
    <2>1. PICK dep \in [Proc -> Nat] : DescendBy(parent, dep)
      BY DEF Tree, Descend
    <2>2. \A q \in Users : q \in Proc
      BY DEF Proc
    <2>3. DescendBy(parent', dep)
      BY <2>1, <2>2, <1>5, <1>n DEF DescendBy
    <2> QED BY <2>1, <2>3 DEF Descend
  <1>9. Counted'
    <2>1. Live' = Live
      BY <1>3, <1>5, <1>n, LifeOfState DEF Live
    <2>2. nr_process' = nr_process
      BY DEF Exits, DoExit
    <2> QED BY <2>1, <2>2 DEF Tree, Counted
  <1> QED BY <1>6, <1>7, <1>8, <1>9 DEF Tree

\* A quiet step changes no link, no count and nobody's life.
LEMMA QuietTree == Inv /\ Tree /\ Quiet => Tree'
  <1> SUFFICES ASSUME Inv, Tree, Quiet PROVE Tree'
    OBVIOUS
  <1>1. /\ UNCHANGED <<parent, cptr, optr, yptr, nr_process>>
        /\ \A q \in Proc : Life'[q] = Life[q]
    BY DEF Quiet, links
  <1>2. Live' = Live
    BY <1>1, LifeOfState DEF Live
  <1>3. ParentsLive'
    <2>1. \A q \in Proc \ {idle} : state[q] # "FREE" => parent[q] \in Proc
      BY LifeFacts, LifeOfState
    <2> QED BY <1>1, <2>1, LifeOfState DEF Tree, ParentsLive
  <1> QED BY <1>1, <1>2, <1>3 DEF Tree, Descend, Counted
-----------------------------------------------------------------------------
(* How init comes to its end. *)

\* A kernel whose init has ended does nothing more.
LEMMA HaltStops == Inv /\ pc[init] = "halt" /\ [Next]_vars => UNCHANGED vars
  <1> SUFFICES ASSUME Inv, pc[init] = "halt", Next PROVE UNCHANGED vars
    OBVIOUS
  <1> USE ProcAssumption
  <1>1. current = init
    BY DEF Inv, ControlOK, Proc, Resume
  <1>2. ASSUME NEW p \in Users, Syscall(p) PROVE FALSE
    BY <1>1, <1>2 DEF Syscall, Fork, NoEffect, Exit, Yield, Wait, Kill, Sleep, Read, InUser
  <1>3. ASSUME NEW p \in Users \cup {init}, Kernel(p) PROVE FALSE
    BY <1>1, <1>3 DEF Kernel, WaitReap, WaitBlock, WaitNone, WaitWoken, KillWake, SleepWoken,
                      ReadWoken, TrapExit, TrapIret, In
  <1>4. ~(\E next \in Proc : Schedule(next))
    BY <1>1 DEF Schedule, Resume
  <1>5. ~(\E c \in Users : InitFork(c))
    BY DEF InitFork, In
  <1>6. ~(\E D \in SUBSET Users : Tick(D)) /\ ~Key
    BY DEF Tick, Key
  <1> QED BY <1>2, <1>3, <1>4, <1>5, <1>6 DEF Next, Halted

\* init waits for any child until do_wait tells it that it has none.
LEMMA InitGoesOn ==
  ASSUME Inv, pc[init] # "halt", tgt[init] = AnyChild, [Next]_vars
  PROVE  (pc'[init] # "halt" /\ tgt'[init] = AnyChild) \/ WaitNone(init)
  <1> USE ProcAssumption
  <1> DEFINE G == pc'[init] # "halt" /\ tgt'[init] = AnyChild
  <1>t. init \in Proc /\ init \notin Users /\ pc \in [Proc -> Pcs] /\ current \in Proc
        /\ tgt \in [Proc -> Users \cup {NoProc, AnyChild}]
        /\ pc[init] \in {"boot", "wait", "wait_sched", "wait_woken", "init_sched"}
    BY DEF Proc, Inv, TypeOK, ControlOK
  <1>1. ASSUME NEW p \in Users, DoExit(p) PROVE G
    BY <1>1, <1>t DEF DoExit, Goto
  <1>2. ASSUME NEW p \in Users \cup {init}, NEW c \in Users, NEW after \in {"trapret", "wait"},
               DoFork(p, c, after)
        PROVE  G
    BY <1>2, <1>t DEF DoFork
  <1>3. ASSUME NEW p \in Users, Syscall(p) PROVE G
    <2>1. ASSUME Exit(p) \/ \E c \in Users : Fork(p, c) PROVE G
      BY <2>1, <1>1, <1>2 DEF Exit, Fork
    <2>2. ASSUME \/ NoEffect(p) \/ Yield(p) \/ Sleep(p)
                 \/ \E t \in Users \cup {AnyChild} : Wait(p, t)
                 \/ \E t \in Users : Kill(p, t)
          PROVE  G
      BY <2>2, <1>t DEF NoEffect, Yield, Wait, Kill, Sleep, Goto
    <2>3. ASSUME NEW n \in 1..MaxRead, Read(p, n) PROVE G
      BY <2>3, <1>t DEF Read, ReadLoop, Goto
    <2> QED BY <1>3, <2>1, <2>2, <2>3 DEF Syscall
  <1>4. ASSUME NEW p \in Users \cup {init}, Kernel(p) PROVE G \/ WaitNone(init)
    <2>1. ASSUME NEW z \in Users, WaitReap(p, z) PROVE G
      BY <2>1, <1>t DEF WaitReap
    <2>2. ASSUME WaitBlock(p) \/ WaitNone(p) PROVE G \/ WaitNone(init)
      BY <2>2, <1>t DEF WaitBlock, WaitNone, Goto
    <2>3. ASSUME WaitWoken(p) \/ TrapExit(p) PROVE G
      <3>1. ASSUME DoExit(p), p \in exiting PROVE G
        BY <3>1, <1>1 DEF Inv, TypeOK
      <3> QED BY <2>3, <3>1, <1>t DEF WaitWoken, TrapExit, Goto
    <2>4. ASSUME KillWake(p) \/ SleepWoken(p) \/ TrapIret(p) PROVE G
      BY <2>4, <1>t DEF KillWake, SleepWoken, TrapIret, In, Goto
    <2>5. ASSUME ReadWoken(p) PROVE G
      BY <2>5, <1>t DEF ReadWoken, ReadLoop, In, Goto
    <2> QED BY <1>4, <2>1, <2>2, <2>3, <2>4, <2>5 DEF Kernel
  <1>5. ASSUME NEW c \in Users, InitFork(c) PROVE G
    BY <1>5, <1>2 DEF InitFork
  <1>6. ASSUME NEW next \in Proc, Schedule(next) PROVE G
    BY <1>6, <1>t DEF Schedule, Goto, Resume
  <1>7. ASSUME Key \/ \E D \in SUBSET Users : Tick(D) PROVE G
    BY <1>7, <1>t DEF Key, Tick, Interrupted
  <1>8. ASSUME UNCHANGED vars PROVE G
    BY <1>8 DEF vars
  <1> QED BY <1>3, <1>4, <1>5, <1>6, <1>7, <1>8 DEF Next, Halted

\* If init has no child then nobody is left: whoever is least deep would be its child.
LEMMA NobodyLeft ==
  ASSUME Inv, Tree, Kids(init) = {}
  PROVE  \A q \in Users : state[q] = "FREE"
  <1> USE ProcAssumption
  <1>n. NoProc \notin Proc /\ init \in Proc /\ \A q \in Users : q \in Proc \ {idle}
    BY DEF Proc
  <1>1. PICK dep \in [Proc -> Nat] : DescendBy(parent, dep)
    BY DEF Tree, Descend
  <1> DEFINE T == {dep[q] : q \in {r \in Users : state[r] # "FREE"}}
  <1>2. SUFFICES ASSUME T # {} PROVE FALSE
    OBVIOUS
  <1>3. PICK m \in T : \A i \in T : m <= i
    <2>1. T \subseteq Nat /\ T # {}
      BY <1>2, <1>n
    <2> QED BY ONLY <2>1, SmallestOf
  <1>4. PICK q \in Users : state[q] # "FREE" /\ dep[q] = m
    BY <1>3
  <1>5. /\ parent[q] \in Proc /\ state[parent[q]] # "FREE"
        /\ parent[q] # idle /\ parent[q] # NoProc
    BY <1>4, <1>n, LifeFacts, LifeOfState DEF Tree, ParentsLive
  <1>6. parent[q] \in Users
    BY <1>4, <1>5, <1>n DEF Kids, Proc
  <1>7. dep[parent[q]] < m /\ dep[parent[q]] \in T
    BY <1>1, <1>4, <1>5, <1>6 DEF DescendBy
  <1>8. m \in Nat /\ dep[parent[q]] \in Nat
    BY <1>4, <1>5, <1>n
  <1> QED BY <1>3, <1>7, <1>8

\* Every step keeps what init waits for.
LEMMA NextInitWaits ==
  ASSUME Inv, Tree, InitWaits, [Next]_vars
  PROVE  InitWaits'
  <1>1. CASE pc[init] = "halt"
    BY <1>1, HaltStops DEF vars, InitWaits
  <1>2. CASE pc[init] # "halt"
    <2>1. CASE WaitNone(init)
      <3>1. Wanted(init) = {} /\ tgt[init] = AnyChild /\ state' = state
        BY <2>1, <1>2 DEF WaitNone, InitWaits
      <3>2. Kids(init) = {}
        BY <3>1 DEF Wanted
      <3>3. pc'[init] = "halt"
        BY <2>1, ProcAssumption DEF WaitNone, Goto, Inv, TypeOK, Proc
      <3> QED BY <3>1, <3>2, <3>3, NobodyLeft DEF InitWaits
    <2>2. CASE ~WaitNone(init)
      BY <1>2, <2>2, InitGoesOn DEF InitWaits
    <2> QED BY <2>1, <2>2
  <1> QED BY <1>1, <1>2

\* Every step of the kernel keeps the family in order.
LEMMA NextFamily == Inv /\ Family /\ [Next]_vars => Family'
  <1> SUFFICES ASSUME Inv, Family, [Next]_vars PROVE Family'
    OBVIOUS
  <1>1. Tree /\ InitWaits
    BY DEF Family, Tree
  <1>2. Tree'
    BY <1>1, NextKinds, ForkTree, ReapTree, ExitTree, QuietTree DEF FamilyChanges
  <1>3. InitWaits'
    BY <1>1, NextInitWaits
  <1> QED BY <1>2, <1>3 DEF Family, Tree

-----------------------------------------------------------------------------
(* The invariants of the runs follow from the family. *)

\* A process has finitely many children.
LEMMA KidsFinite ==
  ASSUME Inv, Family, NEW p \in Proc
  PROVE  Kids(p) = ChildrenIn(parent, p) /\ IsFiniteSet(Kids(p))
  <1>n. NoProc \notin Proc
    BY ProcAssumption DEF Proc
  <1>1. \A q \in Proc : parent[q] = p => state[q] # "FREE"
    BY <1>n, LifeFacts, LifeOfState DEF Family, ParentsLive
  <1>2. Kids(p) = ChildrenIn(parent, p)
    BY <1>1 DEF Kids, ChildrenIn
  <1>3. Kids(p) \in SUBSET Live /\ IsFiniteSet(Live)
    BY DEF Kids, Live, Family, Counted
  <1> QED BY <1>2, <1>3, FS_Subset

\* The walk that FamilyOK speaks of is the walk of the lemmas above.
LEMMA ListsRight == Inv /\ Family => FamilyOK
  <1> SUFFICES ASSUME Inv, Family, NEW p \in Proc
               PROVE  LET n == Cardinality(Kids(p))
                          walk[i \in 0..n] == IF i = 0 THEN cptr[p]
                                              ELSE IF walk[i-1] \in Proc THEN optr[walk[i-1]] ELSE NoProc
                      IN  /\ {walk[i] : i \in 0..n-1} = Kids(p)
                          /\ walk[n] = NoProc
                          /\ \A i \in 0..n-1 : yptr[walk[i]] = IF i = 0 THEN NoProc ELSE walk[i-1]
    BY DEF FamilyOK
  <1> DEFINE n == Cardinality(Kids(p))
             walk[i \in 0..n] == IF i = 0 THEN cptr[p]
                                 ELSE IF walk[i-1] \in Proc THEN optr[walk[i-1]] ELSE NoProc
  <1>1. Kids(p) = ChildrenIn(parent, p) /\ IsFiniteSet(Kids(p))
    BY KidsFinite
  <1>2. PICK B \in Nat : \E ord \in [Proc -> 0..B] : LinkedBy(parent, cptr, optr, yptr, ord)
    BY DEF Family, Linked
  <1>3. PICK ord \in [Proc -> 0..B] : LinkedBy(parent, cptr, optr, yptr, ord)
    BY <1>2
  <1>5. n = Cardinality(ChildrenIn(parent, p)) /\ n \in Nat
    BY <1>1, FS_CardinalityType
  <1>6. Walked(cptr, optr, p, n, walk)
    BY <1>5, WalkDefined
  <1> HIDE DEF walk, n
  <1>7. WalkGood(yptr, ChildrenIn(parent, p), n, walk)
    BY <1>1, <1>3, <1>5, <1>6, WalkExact
  <1>8. WalkGood(yptr, Kids(p), n, walk)
    BY <1>1, <1>7
  <1> QED BY <1>8 DEF WalkGood, walk, n

\* No pointer between proc_structs, and no queue, names a free one.
LEMMA NothingDangles == Inv /\ Family => NoDangling
  <1> SUFFICES ASSUME Inv, Family PROVE NoDangling
    OBVIOUS
  <1>n. NoProc \notin Proc
    BY ProcAssumption DEF Proc
  <1>1. \A q \in Proc : parent[q] # NoProc => state[q] # "FREE"
    BY LifeFacts, LifeOfState DEF Family, ParentsLive
  <1>2. PICK B \in Nat : \E ord \in [Proc -> 0..B] : LinkedBy(parent, cptr, optr, yptr, ord)
    BY DEF Family, Linked
  <1>3. PICK ord \in [Proc -> 0..B] : LinkedBy(parent, cptr, optr, yptr, ord)
    BY <1>2
  <1>4. ASSUME NEW p \in Proc, state[p] # "FREE"
        PROVE  /\ parent[p] # NoProc => state[parent[p]] # "FREE"
               /\ cptr[p] # NoProc => state[cptr[p]] # "FREE"
               /\ optr[p] # NoProc => state[optr[p]] # "FREE"
               /\ yptr[p] # NoProc => state[yptr[p]] # "FREE"
    <2>1. SiblingsOf(parent, optr, yptr, ord, p) /\ YoungestIs(parent, ord, p, cptr[p])
      BY <1>3 DEF LinkedBy
    <2>2. parent[p] # NoProc => state[parent[p]] # "FREE"
      BY <1>4 DEF Family, ParentsLive
    <2> QED BY <2>1, <2>2, <1>1, <1>n DEF SiblingsOf, OlderIs, YoungerIs, YoungestIs
  <1>5. \A p \in Proc \ {idle} : state[p] # "FREE" =>
          parent[p] # NoProc /\ state[parent[p]] # "ZOMBIE"
    BY <1>n, LifeFacts, LifeOfState DEF Family, ParentsLive
  <1>6. \A p \in pool \cup timers \cup kbdq \cup {current} : state[p] # "FREE"
    BY DEF Inv, TypeOK, RunPoolExact, StackRefsLive, ControlOK, StateFits, Proc, Resume
  <1>7. nr_process = Cardinality({p \in Proc : state[p] # "FREE"})
    BY DEF Family, Counted, Live
  <1> QED BY <1>4, <1>5, <1>6, <1>7 DEF NoDangling

\* When init ends its child and sibling pointers are null and two processes are left.
LEMMA InitAlone == Inv /\ Family => InitQuits
  <1> SUFFICES ASSUME Inv, Family, pc[init] = "halt"
               PROVE  /\ cptr[init] = NoProc /\ yptr[init] = NoProc /\ optr[init] = NoProc
                      /\ nr_process = 2
                      /\ \A p \in Users : state[p] = "FREE"
    BY DEF InitQuits
  <1> USE ProcAssumption
  <1>n. NoProc \notin Proc /\ idle \in Proc /\ init \in Proc
    BY DEF Proc
  <1>1. \A p \in Users : state[p] = "FREE" /\ parent[p] = NoProc /\ p \in Proc
    <2>1. \A p \in Users : state[p] = "FREE" /\ p \in Proc \ {idle}
      BY DEF Family, InitWaits, Proc
    <2> QED BY <2>1, LifeFacts, LifeOfState
  <1>2. parent[init] = idle /\ parent[idle] = NoProc
    BY LifeFacts DEF Family, ParentsLive
  <1>3. \A q \in Proc : q = init \/ parent[q] = NoProc
    BY <1>1, <1>2 DEF Proc
  <1>4. PICK B \in Nat : \E ord \in [Proc -> 0..B] : LinkedBy(parent, cptr, optr, yptr, ord)
    BY DEF Family, Linked
  <1>5. PICK ord \in [Proc -> 0..B] : LinkedBy(parent, cptr, optr, yptr, ord)
    BY <1>4
  <1>6. SiblingsOf(parent, optr, yptr, ord, init) /\ YoungestIs(parent, ord, init, cptr[init])
    BY <1>5, <1>n DEF LinkedBy
  <1>7. ord[init] \in Nat
    BY <1>n
  <1>8. cptr[init] = NoProc /\ yptr[init] = NoProc /\ optr[init] = NoProc
    BY <1>2, <1>3, <1>6, <1>7, <1>n DEF SiblingsOf, OlderIs, YoungerIs, YoungestIs
  <1>9. nr_process = 2
    <2>1. Life[idle] = "alive" /\ Life[init] = "alive"
      BY LifeFacts
    <2>2. Live = {idle} \cup {init}
      BY <1>1, <1>n, <2>1, LifeOfState DEF Live, Proc
    <2>3. IsFiniteSet({idle}) /\ Cardinality({idle}) = 1
      BY FS_Singleton
    <2>4. IsFiniteSet({idle} \cup {init}) /\ Cardinality({idle} \cup {init}) = 1 + 1
      BY <2>3, FS_AddElement
    <2> QED BY <2>2, <2>4 DEF Family, Counted
  <1> QED BY <1>1, <1>8, <1>9

\* The family is in order in every reachable state.
LEMMA SpecFamily == Spec => [](Inv /\ Family)
  <1>1. Init => Inv /\ Family
    BY InitInv, InitFamily
  <1>2. Inv /\ Family /\ [Next]_vars => (Inv /\ Family)'
    BY NextInv, NextFamily
  <1> QED BY <1>1, <1>2, PTL DEF Spec

\* However forks, adoptions by init and reaps interleave, do_wait finds every child.
THEOREM ListsCorrect == Spec => []FamilyOK
  BY SpecFamily, ListsRight, PTL

\* No link, queue or timer names a proc_struct that was given back, whoever lives has
\* a parent that lives, and nr_process counts the living and the dead not yet reaped.
THEOREM NothingDangling == Spec => []NoDangling
  BY SpecFamily, NothingDangles, PTL

\* The assertions at the end of init_main hold: init ends only when it is alone.
THEOREM InitEndsAlone == Spec => []InitQuits
  BY SpecFamily, InitAlone, PTL
=============================================================================
