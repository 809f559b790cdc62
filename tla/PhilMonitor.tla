---------------------------- MODULE PhilMonitor ----------------------------
(***************************************************************************)
(* The dining philosophers of check_sync.c that use a monitor, with the    *)
(* monitor of sync/monitor.c they run in: cond_signal hands the monitor to *)
(* the thread it wakes and waits on the semaphore next until that thread   *)
(* leaves the monitor or waits again (Hoare's rule).                       *)
(***************************************************************************)
EXTENDS Naturals, Sequences, FiniteSets

CONSTANTS
  N,      \* philosophers
  Times   \* meals each of them takes

ASSUME PhilAssumption == N \in Nat \ {0, 1} /\ Times \in Nat \ {0}

Threads  == 0..N-1
NoThread == N

Mutex == <<"mutex">>
NextSem == <<"next">>
Cv(i) == <<"cv", i>>     \* mtp->cv[i].sem
Sems  == {Mutex, NextSem} \cup {Cv(i) : i \in Threads}

VARIABLES
  cpu, ready, pc, value, queue,  \* the kernel threads and semaphores (KSem)
  phase,       \* state_condvar
  count,       \* cv[i].count
  next_count,  \* mtp->next_count
  iter         \* meals a philosopher has begun

INSTANCE KSem

vars == <<cpu, ready, pc, value, queue, phase, count, next_count, iter>>

Left(i)  == (i + N - 1) % N
Right(i) == (i + 1) % N

Runs(i, l) == cpu = i /\ pc[i] = l

\* Mutant: only one neighbour is looked at.
MayEatOneSide(k, ph) == ph[k] = "HUNGRY" /\ ph[Left(k)] # "EATING"

\* The test of phi_test_condvar on philosopher k, in phases ph.
MayEat(k, ph) == ph[k] = "HUNGRY" /\ ph[Left(k)] # "EATING" /\ ph[Right(k)] # "EATING"

\* Mutant: the monitor is left by its mutex even if a signaller waits for it.
ExitByMutex == Mutex

\* The semaphore that passes the monitor on when a thread leaves it or waits.
ExitSem == IF next_count > 0 THEN NextSem ELSE Mutex

-----------------------------------------------------------------------------
\* phi_take_forks_condvar and phi_put_forks_condvar begin, after a do_sleep.
Enter(i) ==
  /\ \/ Runs(i, "thought") /\ Down(i, Mutex, "hungry")
     \/ Runs(i, "ate")     /\ Down(i, Mutex, "put")
  /\ UNCHANGED <<phase, count, next_count, iter>>

\* phi_test_condvar(i) on itself: nobody waits on its own condition.
Hungry(i) ==
  /\ Runs(i, "hungry")
  /\ LET ph == [phase EXCEPT ![i] = "HUNGRY"]
     IN  phase' = IF MayEat(i, ph) THEN [ph EXCEPT ![i] = "EATING"] ELSE ph
  /\ Goto(i, "check")
  /\ UNCHANGED <<cpu, ready, value, queue, count, next_count, iter>>

\* cond_wait, up to its down().
CondWait(i) ==
  /\ Runs(i, "check")
  /\ phase[i] # "EATING"
  /\ count' = [count EXCEPT ![i] = @ + 1]
  /\ UpDown(i, ExitSem, Cv(i), "waited")
  /\ UNCHANGED <<phase, next_count, iter>>

\* cond_wait after its down(), back to the head of the while loop.
CondWaited(i) ==
  /\ Runs(i, "waited")
  /\ count' = [count EXCEPT ![i] = @ - 1]
  /\ Goto(i, "check")
  /\ UNCHANGED <<cpu, ready, value, queue, phase, next_count, iter>>

\* phi_put_forks_condvar: state_condvar[i] = THINKING.
Put(i) ==
  /\ Runs(i, "put")
  /\ phase' = [phase EXCEPT ![i] = "THINKING"]
  /\ Goto(i, "left")
  /\ UNCHANGED <<cpu, ready, value, queue, count, next_count, iter>>

\* Mutant: a hungry neighbour is signalled whether it may eat or not.
SignalHungry(i, l, k, signalled, done) ==
  /\ Runs(i, l)
  /\ phase' = IF MayEat(k, phase) THEN [phase EXCEPT ![k] = "EATING"] ELSE phase
  /\ IF count[k] > 0
       THEN next_count' = next_count + 1 /\ UpDown(i, Cv(k), NextSem, signalled)
       ELSE Goto(i, done) /\ UNCHANGED <<cpu, ready, value, queue, next_count>>
  /\ UNCHANGED <<count, iter>>

\* phi_test_condvar(k) called by i, with cond_signal up to its down().
Test(i, l, k, signalled, done) ==
  /\ Runs(i, l)
  /\ phase' = IF MayEat(k, phase) THEN [phase EXCEPT ![k] = "EATING"] ELSE phase
  /\ IF MayEat(k, phase) /\ count[k] > 0
       THEN next_count' = next_count + 1 /\ UpDown(i, Cv(k), NextSem, signalled)
       ELSE Goto(i, done) /\ UNCHANGED <<cpu, ready, value, queue, next_count>>
  /\ UNCHANGED <<count, iter>>

TestLeft(i)  == Test(i, "left", Left(i), "left_signalled", "right")
TestRight(i) == Test(i, "right", Right(i), "right_signalled", "put_leave")

\* cond_signal after its down().
CondSignalled(i) ==
  /\ \/ Runs(i, "left_signalled")  /\ Goto(i, "right")
     \/ Runs(i, "right_signalled") /\ Goto(i, "put_leave")
  /\ next_count' = next_count - 1
  /\ UNCHANGED <<cpu, ready, value, queue, phase, count, iter>>

\* The end of both routines, and the do_sleep that follows; after the last meal
\* the thread ends instead.
Leave(i) ==
  /\ \/ Runs(i, "check") /\ phase[i] = "EATING" /\ Goto(i, "eating") /\ UNCHANGED iter
     \/ /\ Runs(i, "put_leave")
        /\ Goto(i, IF iter[i] < Times THEN "thinking" ELSE "quit")
        /\ iter' = [iter EXCEPT ![i] = IF iter[i] < Times THEN @ + 1 ELSE @]
  /\ Up(ExitSem)
  /\ cpu' = NoThread
  /\ UNCHANGED <<phase, count, next_count>>

\* The timer of do_sleep runs out.
Awake(i) ==
  /\ \/ pc[i] = "thinking" /\ Goto(i, "thought")
     \/ pc[i] = "eating"   /\ Goto(i, "ate")
  /\ ready' = ready \cup {i}
  /\ UNCHANGED <<cpu, value, queue, phase, count, next_count, iter>>

Done == (\A i \in Threads : pc[i] = "quit") /\ UNCHANGED vars

\* Each philosopher has been created and sleeps for the first time.
Init ==
  /\ cpu = NoThread
  /\ ready = {}
  /\ pc = [i \in Threads |-> "thinking"]
  /\ value = [s \in Sems |-> IF s = Mutex THEN 1 ELSE 0]
  /\ queue = [s \in Sems |-> <<>>]
  /\ phase = [i \in Threads |-> "THINKING"]
  /\ count = [i \in Threads |-> 0]
  /\ next_count = 0
  /\ iter = [i \in Threads |-> 1]

Step(i) ==
  \/ Enter(i) \/ Hungry(i) \/ CondWait(i) \/ CondWaited(i)
  \/ Put(i) \/ TestLeft(i) \/ TestRight(i) \/ CondSignalled(i) \/ Leave(i)
  \/ Awake(i)
  \/ Dispatch(i) /\ UNCHANGED <<phase, count, next_count, iter>>

Next == (\E i \in Threads : Step(i)) \/ Done

\* A thread on the CPU goes on, an idle CPU is given away, a sleep ends.
Spec == Init /\ [][Next]_vars /\ WF_vars(\E i \in Threads : Step(i))

-----------------------------------------------------------------------------
(* Properties. *)

InMonitor == {"hungry", "check", "waited", "put", "left", "left_signalled",
              "right", "right_signalled", "put_leave"}

\* The types; no semaphore counts beyond 1, so no up() is ever lost or doubled.
TypeOK ==
  /\ cpu \in Threads \cup {NoThread}
  /\ ready \subseteq Threads
  /\ pc \in [Threads -> InMonitor \cup {"thinking", "thought", "eating", "ate", "quit"}]
  /\ value \in [Sems -> 0..1]
  /\ queue \in [Sems -> Seq(Threads)]
  /\ phase \in [Threads -> {"THINKING", "HUNGRY", "EATING"}]
  /\ count \in [Threads -> 0..1]
  /\ next_count \in 0..N
  /\ iter \in [Threads -> 1..Times]

Blocked == {i \in Threads : \E s \in Sems : \E n \in DOMAIN queue[s] : queue[s][n] = i}

\* The assert in __up: whoever is first in the queue of a semaphore is asleep on it.
QueuedAsleep == Blocked \cap (ready \cup {cpu}) = {}

\* No two neighbours eat at the same time.
NeighboursExclude ==
  \A i \in Threads : phase[i] = "EATING" => phase[Right(i)] # "EATING"

\* One thread at most is active in the monitor, through all the handing over
\* between mutex, next and the conditions; the mutex is free exactly when there is
\* none, and then no signaller is left waiting for its turn.
MonitorExclusive ==
  LET active == {i \in Threads \ Blocked : pc[i] \in InMonitor}
  IN  /\ Cardinality(active) = 1 - value[Mutex]
      /\ active = {} => next_count = 0

\* What cond_signal promises: when the thread it woke goes on, the condition it
\* waited for holds, whoever ran in between.
SignalledMayEat ==
  \A i \in Threads \ Blocked : pc[i] = "waited" => phase[i] = "EATING"

\* Every philosopher takes all its meals: no deadlock, no lost signal.
AllQuit == <>(\A i \in Threads : pc[i] = "quit")
=============================================================================
