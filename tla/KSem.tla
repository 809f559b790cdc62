-------------------------------- MODULE KSem --------------------------------
(***************************************************************************)
(* Kernel semaphores (sync/sem.c, with the wait queues of sync/wait.c) and *)
(* the kernel threads that use them.  Kernel threads are not preempted: a  *)
(* thread keeps the CPU until it blocks, sleeps or ends, and schedule()    *)
(* then gives it to some runnable thread.  up() hands the semaphore to the *)
(* first waiter without touching value, so a woken waiter has it already.  *)
(* A thread in down() waits in state WT_KSEM, which do_kill does not       *)
(* interrupt, and so __down always returns 0 and down() never fails.       *)
(***************************************************************************)
EXTENDS Naturals, Sequences, FiniteSets

CONSTANTS Threads, Sems, NoThread

VARIABLES
  cpu,     \* the thread on the CPU
  ready,   \* the runnable threads that wait for it
  pc,      \* where a thread goes on
  value,   \* sem->value
  queue    \* the threads in sem->wait_queue

Goto(t, l) == pc' = [pc EXCEPT ![t] = l]

\* Mutant: the first waiter is woken but stays in the queue.
UpKeep(s) ==
  IF queue[s] = <<>>
    THEN value' = [value EXCEPT ![s] = @ + 1] /\ UNCHANGED <<queue, ready>>
    ELSE ready' = ready \cup {Head(queue[s])} /\ UNCHANGED <<value, queue>>

\* up().
Up(s) ==
  IF queue[s] = <<>>
    THEN value' = [value EXCEPT ![s] = @ + 1] /\ UNCHANGED <<queue, ready>>
    ELSE /\ queue' = [queue EXCEPT ![s] = Tail(@)]
         /\ ready' = ready \cup {Head(queue[s])}
         /\ UNCHANGED value

\* t calls down() and goes on at l, at once or when it has been woken.
Down(t, s, l) ==
  /\ Goto(t, l)
  /\ IF value[s] > 0
       THEN value' = [value EXCEPT ![s] = @ - 1] /\ UNCHANGED <<cpu, queue>>
       ELSE /\ queue' = [queue EXCEPT ![s] = Append(@, t)]
            /\ cpu' = NoThread
            /\ UNCHANGED value
  /\ UNCHANGED ready

\* t calls up(s) and then down(d), where value[d] may be what up(s) made it.
UpDown(t, s, d, l) ==
  LET hand == queue[s] # <<>>
      v    == IF hand THEN value ELSE [value EXCEPT ![s] = @ + 1]
      q    == IF hand THEN [queue EXCEPT ![s] = Tail(@)] ELSE queue
  IN  /\ Goto(t, l)
      /\ ready' = IF hand THEN ready \cup {Head(queue[s])} ELSE ready
      /\ IF v[d] > 0
           THEN value' = [v EXCEPT ![d] = @ - 1] /\ queue' = q /\ UNCHANGED cpu
           ELSE value' = v /\ queue' = [q EXCEPT ![d] = Append(@, t)] /\ cpu' = NoThread

\* schedule(), when the running thread has left the CPU.
Dispatch(t) ==
  /\ cpu = NoThread
  /\ t \in ready
  /\ cpu' = t
  /\ ready' = ready \ {t}
  /\ UNCHANGED <<pc, value, queue>>
=============================================================================
