------------------------------- MODULE Stride -------------------------------
(***************************************************************************)
(* The stride scheduler: default_sched.c with the skew heap it keeps the   *)
(* run pool in, and schedule() and wakeup_proc() that drive it.  Strides   *)
(* are unsigned words that wrap around and are compared by the sign of     *)
(* their difference.  A word has one bit more than BIG_STRIDE, the largest *)
(* positive number (2^31 - 1 in the code).                                 *)
(***************************************************************************)
EXTENDS Integers, FiniteSets

CONSTANTS
  init,        \* initproc, which is there from the start
  Late,        \* processes that are created, and may end, along the way
  Sleepers,    \* the processes that may block
  idle,        \* idleproc, never in the pool
  Null,        \* no process
  Priorities,  \* what processes set their priority to
  Big,         \* BIG_STRIDE
  MaxSlice     \* MAX_TIME_SLICE

Procs == {init} \cup Late
Links == Procs \cup {Null}
Word  == 2 * (Big + 1)        \* lab6_stride wraps around here

ASSUME StrideAssumption ==
  /\ Big \in Nat \ {0}
  /\ MaxSlice \in Nat \ {0}
  /\ Priorities \subseteq 1..Big
  /\ IsFiniteSet(Late)
  /\ init \notin Late
  /\ Sleepers \subseteq Procs
  /\ {idle, Null} \cap Procs = {}

VARIABLES
  current,
  state,         \* "ready" for PROC_RUNNABLE, "asleep", or "none"
  need_resched,  \* of the current process
  stride,        \* lab6_stride
  priority,      \* lab6_priority, 0 until it is set
  slice,         \* time_slice
  pool           \* rq->lab6_run_pool, the root, and the links of the entries in the heap

vars == <<current, state, need_resched, stride, priority, slice, pool>>

-----------------------------------------------------------------------------
\* Mutant: strides are compared as the unsigned words they are.
PlainLess(p, q) == stride[p] < stride[q]

\* proc_stride_comp_f(p, q) == -1: the 32-bit difference is negative.
Less(p, q) == (stride[p] - stride[q]) % Word > Big

\* A skew heap.  Entries that are not in it have no links, left or right or up.
Heaps == [root : Links, left : [Procs -> Links], right : [Procs -> Links], parent : [Procs -> Links]]

\* skew_heap_init, also for an entry that has left the heap: nobody looks at it then.
Single(h, p) == [h EXCEPT !.left[p] = Null, !.right[p] = Null, !.parent[p] = Null]

\* Entry x becomes the root of the heap, or the left child of entry p.
Hang(h, p, x) ==
  IF p = Null THEN [h EXCEPT !.root = x]
  ELSE IF x = Null THEN [h EXCEPT !.left[p] = x]
  ELSE [h EXCEPT !.left[p] = x, !.parent[x] = p]

\* One call of skew_heap_merge, for the heaps at a and b; what it returns becomes the left
\* child of last.  The root that comes first takes its left heap to the right; its right
\* heap and the other one are merged next, to become its left one.
Call ==
  [s \in [heap : Heaps, last : Links, a : Links, b : Links] |->
     LET x == IF s.a = Null THEN s.b ELSE IF s.b = Null \/ Less(s.a, s.b) THEN s.a ELSE s.b
         h == Hang(s.heap, s.last, x)
     IN  IF Null \in {s.a, s.b} THEN [s EXCEPT !.heap = h]
         ELSE [heap |-> [h EXCEPT !.right[x] = h.left[x], !.left[x] = Null],
               last |-> x,
               a    |-> IF x = s.a THEN h.right[x] ELSE s.a,
               b    |-> IF x = s.a THEN s.b ELSE h.right[x]]]

\* Where skew_heap_merge is after n calls, when it begins with s.
Calls(s, n) == LET after[k \in Nat] == IF k = 0 THEN s ELSE Call[after[k - 1]] IN after[n]

\* skew_heap_merge of the heaps at a and b.  There is one call for each entry at most, and
\* the last returns what is left.
Merge(h, a, b) ==
  Calls([heap |-> h, last |-> Null, a |-> a, b |-> b], Cardinality(Procs) + 1).heap

\* Mutant: a process that is enqueued goes to the root.
InsertRoot(h, p) == [Hang(Single(h, p), p, h.root) EXCEPT !.root = p]

\* skew_heap_insert.
Insert(h, p) == Merge(Single(h, p), h.root, p)

\* skew_heap_remove: what is left of the heap at p takes its place.
Remove(h, p) ==
  LET up  == h.parent[p]
      m   == Merge(h, h.left[p], h.right[p])
      rep == m.root
      g   == IF rep = Null THEN m ELSE [m EXCEPT !.parent[rep] = up]
  IN  Single(IF up = Null THEN g
             ELSE IF h.left[up] = p THEN [g EXCEPT !.left[up] = rep, !.root = h.root]
             ELSE [g EXCEPT !.right[up] = rep, !.root = h.root], p)

\* stride_enqueue's handling of the time slice.
Renewed(n) == IF n = 0 \/ n > MaxSlice THEN MaxSlice ELSE n

\* The step by which pick_next advances the stride of p.
Pass(p) == IF priority[p] = 0 THEN Big ELSE Big \div priority[p]

\* Mutant: the stride does not wrap around.
NoWrap(p) == stride[p] + Pass(p)

Advanced(p) == (stride[p] + Pass(p)) % Word

-----------------------------------------------------------------------------
\* schedule(): enqueue current if it is runnable, pick_next, dequeue, proc_run.
Schedule ==
  LET again == current # idle /\ state[current] = "ready"
  IN  /\ need_resched \/ (current # idle /\ state[current] # "ready")
      /\ need_resched' = FALSE
      /\ slice' = IF again THEN [slice EXCEPT ![current] = Renewed(@)] ELSE slice
      /\ \E h \in {IF again THEN Insert(pool, current) ELSE pool} :
           IF h.root = Null
             THEN current' = idle /\ UNCHANGED stride /\ pool' = h
             ELSE /\ current' = h.root
                  /\ stride' = [stride EXCEPT ![h.root] = Advanced(h.root)]
                  /\ pool' = Remove(h, h.root)
      /\ UNCHANGED <<state, priority>>

\* sched_class_proc_tick, with stride_proc_tick.
Tick ==
  /\ IF current = idle
       THEN need_resched' = TRUE /\ UNCHANGED slice
       ELSE LET n == IF slice[current] > 0 THEN slice[current] - 1 ELSE 0
            IN  /\ slice' = [slice EXCEPT ![current] = n]
                /\ need_resched' = (need_resched \/ n = 0)
  /\ UNCHANGED <<current, state, stride, priority, pool>>

Running(p) == current = p /\ state[p] = "ready"

Yield(p) ==
  /\ Running(p)
  /\ need_resched' = TRUE
  /\ UNCHANGED <<current, state, stride, priority, slice, pool>>

\* lab6_set_priority.
SetPriority(p, n) ==
  /\ Running(p)
  /\ priority' = [priority EXCEPT ![p] = n]
  /\ UNCHANGED <<current, state, need_resched, stride, slice, pool>>

\* do_sleep, do_wait and the other places that set PROC_SLEEPING before schedule().
Block(p) ==
  /\ Running(p) /\ p \in Sleepers
  /\ state' = [state EXCEPT ![p] = "asleep"]
  /\ UNCHANGED <<current, need_resched, stride, priority, slice, pool>>

\* Mutant: wakeup_proc enqueues the process although it is still running.
WakeupTwice(p) ==
  /\ state[p] = "asleep"
  /\ state' = [state EXCEPT ![p] = "ready"]
  /\ pool' = Insert(pool, p)
  /\ slice' = [slice EXCEPT ![p] = Renewed(@)]
  /\ UNCHANGED <<current, need_resched, stride, priority>>

\* wakeup_proc: a process that has not left the CPU yet is not enqueued.
Wakeup(p) ==
  /\ state[p] = "asleep"
  /\ state' = [state EXCEPT ![p] = "ready"]
  /\ IF p = current
       THEN UNCHANGED <<pool, slice>>
       ELSE /\ pool' = Insert(pool, p)
            /\ slice' = [slice EXCEPT ![p] = Renewed(@)]
  /\ UNCHANGED <<current, need_resched, stride, priority>>

\* do_fork: alloc_proc has set stride, priority and slice to 0; wakeup_proc enqueues.
Fork(p, c) ==
  /\ Running(p)
  /\ c \in Late \ {current} /\ state[c] = "none"
  /\ state' = [state EXCEPT ![c] = "ready"]
  /\ slice' = [slice EXCEPT ![c] = Renewed(0)]
  /\ pool' = Insert(pool, c)
  /\ UNCHANGED <<current, need_resched, stride, priority>>

\* do_exit.  What the proc_struct held is of no use any more and is cleared here.
Exit(p) ==
  /\ Running(p) /\ p \in Late
  /\ state' = [state EXCEPT ![p] = "none"]
  /\ stride' = [stride EXCEPT ![p] = 0]
  /\ priority' = [priority EXCEPT ![p] = 0]
  /\ slice' = [slice EXCEPT ![p] = 0]
  /\ UNCHANGED <<current, need_resched, pool>>

\* initproc has been forked; idleproc has the CPU.
Init ==
  /\ current = idle
  /\ state = [p \in Procs |-> IF p = init THEN "ready" ELSE "none"]
  /\ need_resched = TRUE
  /\ stride = [p \in Procs |-> 0]
  /\ priority = [p \in Procs |-> 0]
  /\ slice = [p \in Procs |-> IF p = init THEN MaxSlice ELSE 0]
  /\ LET none == [p \in Procs |-> Null]
     IN  pool = [root |-> init, left |-> none, right |-> none, parent |-> none]

Next ==
  \/ Schedule
  \/ Tick
  \/ \E p \in Procs : \/ Yield(p) \/ Block(p) \/ Wakeup(p) \/ Exit(p)
                     \/ \E n \in Priorities : SetPriority(p, n)
                     \/ \E c \in Late : Fork(p, c)

\* The timer interrupt keeps coming, and schedule() is called when it is due.
Fairness == WF_vars(Schedule) /\ WF_vars(Tick)

Spec == Init /\ [][Next]_vars /\ Fairness

-----------------------------------------------------------------------------
(* Properties. *)

\* The types of the variables.
TypeOK ==
  /\ current \in Procs \cup {idle}
  /\ state \in [Procs -> {"ready", "asleep", "none"}]
  /\ need_resched \in BOOLEAN
  /\ stride \in [Procs -> 0..Word-1]
  /\ priority \in [Procs -> Priorities \cup {0}]
  /\ slice \in [Procs -> 0..MaxSlice]
  /\ pool \in Heaps

\* Who competes for the CPU, and who waits for it.
Ready   == {p \in Procs : state[p] = "ready"}
Waiting == Ready \ {current}

\* The processes in the heap: who is reached from the root.
Members ==
  LET Closed(S) == /\ {pool.root} \ {Null} \subseteq S
                   /\ \A p \in S : {pool.left[p], pool.right[p]} \ {Null} \subseteq S
  IN  {p \in Procs : \A S \in SUBSET Procs : Closed(S) => p \in S}

\* The heap holds every runnable process but the running one, once: inserting,
\* removing the root and merging lose and duplicate nobody, even when stale strides
\* make the comparison no order.  The links up are those down in reverse, so that
\* skew_heap_remove takes the root for the root.
PoolExact ==
  /\ Members = Waiting
  /\ \A p \in Members :
       /\ pool.parent[p] = Null <=> pool.root = p
       /\ pool.left[p] = pool.right[p] => pool.left[p] = Null
       /\ \A q \in Members : pool.parent[p] = q <=> p \in {pool.left[q], pool.right[q]}

\* The strides of those who compete are in a window when one of them has a stride that
\* all others are ahead of by at most BIG_STRIDE: the sign of a difference then orders
\* them.
InWindow ==
  Ready # {} => \E m \in Ready : \A p \in Ready : (stride[p] - stride[m]) % Word <= Big
Joining == ~(Ready' \subseteq Ready)

\* Scheduling keeps the strides in a window, however often they wrap around; only a
\* process that joins with stride 0 or with the stride it fell asleep with ends it.
StaysInWindow == [][InWindow /\ ~Joining => InWindow']_vars

\* The comment on stride_pick_next says that it returns a process with the smallest
\* stride of the run queue.  It does when the strides are in a window, whatever they
\* were when the processes were put into the heap.
PicksMinimum ==
  [][InWindow =>
       \A p \in Procs : stride'[p] # stride[p] /\ state'[p] = "ready" =>
         \A q \in Waiting' : ~Less(q, p)]_vars

\* A process in the run pool gets the CPU.
NoStarvation == \A p \in Procs : p \in Waiting ~> current = p

\* Processes that join with a stale stride can keep another one waiting by coming
\* and going for ever.  But whatever strides they leave behind, once nobody forks or
\* wakes up any more every process in the run pool gets the CPU.
NoStarvationOnceSettled == <>[][~Joining]_vars => NoStarvation
=============================================================================
