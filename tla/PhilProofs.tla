----------------------------- MODULE PhilProofs -----------------------------
(***************************************************************************)
(* What module PhilMonitor guarantees for every number of philosophers and *)
(* of meals.                                                               *)
(*                                                                         *)
(* The exclusion of neighbours rests on the exclusion of the monitor: a    *)
(* philosopher changes the phase of another one only because nobody else   *)
(* is active in the monitor.  That in turn rests on who waits where, for   *)
(* the monitor is handed from thread to thread through three kinds of      *)
(* semaphores.  Inv ties the waiting threads of each semaphore to their    *)
(* program counters, and these to the phases and to the two counters of    *)
(* the monitor.                                                            *)
(***************************************************************************)
EXTENDS PhilMonitor, FiniteSetTheorems, TLAPS

Elements(q) == {q[n] : n \in DOMAIN q}
Distinct(q) == \A m, n \in DOMAIN q : q[m] = q[n] => m = n

\* The threads that wait on semaphore s when the queues are q.
On(q, s) == Elements(q[s])

Signalled  == {"left_signalled", "right_signalled"}
Signallers == {i \in Threads : pc[i] \in Signalled}
Active     == {i \in Threads \ Blocked : pc[i] \in InMonitor}

\* The semaphore that a thread waits on goes with its program counter.
Fits(s, i, l) ==
  \/ s = Mutex   /\ l \in {"hungry", "put"}
  \/ s = NextSem /\ l \in Signalled
  \/ s = Cv(i)   /\ l = "waited"

\* Whoever waits on a semaphore waits once, on this one only, and does not run.
Waiting ==
  /\ \A s \in Sems : Distinct(queue[s])
  /\ \A s \in Sems : \A i \in On(queue, s) : Fits(s, i, pc[i]) /\ i \notin ready /\ i # cpu

\* A thread runs or is runnable, not both, and a thread that sleeps is neither.
Running ==
  /\ cpu \notin ready
  /\ \A i \in Threads : i \in ready \/ i = cpu => pc[i] \notin {"thinking", "eating"}

\* The mutex stands for the absence of an active thread; next and the conditions
\* never count; next_count counts the threads between the two halves of cond_signal.
Monitor ==
  /\ value[NextSem] = 0
  /\ \A k \in Threads : value[Cv(k)] = 0
  /\ value[Mutex] = 1 => Active = {} /\ Signallers = {}
  /\ value[Mutex] = 0 => \E i \in Threads : Active = {i}
  /\ next_count = Cardinality(Signallers)

\* The phase and the condition of a philosopher follow its program counter.
Phases ==
  \A i \in Threads :
    /\ pc[i] \notin {"check", "waited", "eating", "ate", "put"} => phase[i] = "THINKING"
    /\ pc[i] \in {"eating", "ate", "put"} => phase[i] = "EATING"
    /\ pc[i] \in {"check", "waited"} => phase[i] # "THINKING"
    /\ pc[i] = "waited" => phase[i] = IF i \in Blocked THEN "HUNGRY" ELSE "EATING"
    /\ count[i] = IF pc[i] = "waited" THEN 1 ELSE 0

\* A philosopher that may eat and has not been told is about to be looked at.
NoneMissed ==
  \A k \in Threads : MayEat(k, phase) =>
    \E j \in Threads :
      \/ pc[j] = "left" /\ k \in {Left(j), Right(j)}
      \/ pc[j] \in {"left_signalled", "right"} /\ k = Right(j)

Types ==
  /\ cpu \in Threads \cup {NoThread}
  /\ ready \subseteq Threads
  /\ pc \in [Threads -> InMonitor \cup {"thinking", "thought", "eating", "ate", "quit"}]
  /\ value \in [Sems -> 0..1]
  /\ queue \in [Sems -> Seq(Threads)]
  /\ phase \in [Threads -> {"THINKING", "HUNGRY", "EATING"}]
  /\ count \in [Threads -> 0..1]
  /\ iter \in [Threads -> 1..Times]

Inv == Types /\ Waiting /\ Running /\ Monitor /\ Phases /\ NeighboursExclude /\ NoneMissed

-----------------------------------------------------------------------------
(* Queues. *)

\* Taking the first waiter leaves the others.
LEMMA Dequeue ==
  ASSUME NEW S, NEW q \in Seq(S), q # <<>>, Distinct(q)
  PROVE  /\ Head(q) \in Elements(q)
         /\ Tail(q) \in Seq(S)
         /\ Distinct(Tail(q))
         /\ Elements(Tail(q)) = Elements(q) \ {Head(q)}
  <1>1. /\ Len(q) \in Nat \ {0}
        /\ DOMAIN q = 1 .. Len(q)
        /\ Tail(q) \in Seq(S)
        /\ Len(Tail(q)) = Len(q) - 1
        /\ DOMAIN Tail(q) = 1 .. Len(q) - 1
        /\ Head(q) = q[1]
        /\ \A n \in 1 .. Len(q) - 1 : Tail(q)[n] = q[n + 1]
    OBVIOUS
  <1>2. Head(q) \in Elements(q)
    BY <1>1 DEF Elements
  <1>3. Distinct(Tail(q))
    BY <1>1 DEF Distinct
  <1>4. ASSUME NEW x \in Elements(Tail(q)) PROVE x \in Elements(q) \ {Head(q)}
    <2>1. PICK n \in 1 .. Len(q) - 1 : x = q[n + 1]
      BY <1>1, <1>4 DEF Elements
    <2>2. n + 1 \in DOMAIN q /\ n + 1 # 1 /\ 1 \in DOMAIN q
      BY <1>1
    <2> QED BY <1>1, <2>1, <2>2 DEF Elements, Distinct
  <1>5. ASSUME NEW x \in Elements(q), x # Head(q) PROVE x \in Elements(Tail(q))
    <2>1. PICK n \in 1 .. Len(q) : x = q[n]
      BY <1>1 DEF Elements
    <2>2. n - 1 \in DOMAIN Tail(q) /\ Tail(q)[n - 1] = x
      BY <1>1, <1>5, <2>1
    <2> QED BY <2>2 DEF Elements
  <1> QED BY <1>1, <1>2, <1>3, <1>4, <1>5

\* A thread that begins to wait is added to the others.
LEMMA Enqueue ==
  ASSUME NEW S, NEW q \in Seq(S), NEW t \in S, t \notin Elements(q), Distinct(q)
  PROVE  /\ Append(q, t) \in Seq(S)
         /\ Distinct(Append(q, t))
         /\ Elements(Append(q, t)) = Elements(q) \cup {t}
  <1>1. /\ Len(q) \in Nat
        /\ DOMAIN q = 1 .. Len(q)
        /\ Append(q, t) \in Seq(S)
        /\ DOMAIN Append(q, t) = 1 .. Len(q) + 1
        /\ Append(q, t)[Len(q) + 1] = t
        /\ \A n \in 1 .. Len(q) : Append(q, t)[n] = q[n]
    OBVIOUS
  <1>2. Distinct(Append(q, t))
    BY <1>1 DEF Distinct, Elements
  <1>3. Elements(Append(q, t)) = Elements(q) \cup {t}
    BY <1>1 DEF Elements
  <1> QED BY <1>1, <1>2, <1>3

\* A queue is empty exactly when nobody is in it.
LEMMA Empty == ASSUME NEW S, NEW q \in Seq(S) PROVE q = <<>> <=> Elements(q) = {}
  BY DEF Elements

-----------------------------------------------------------------------------
(* The table. *)

\* LEFT and RIGHT of a philosopher.
LEMMA Neighbours ==
  ASSUME NEW i \in Threads
  PROVE  /\ Left(i) = IF i = 0 THEN N - 1 ELSE i - 1
         /\ Right(i) = IF i = N - 1 THEN 0 ELSE i + 1
  BY PhilAssumption DEF Threads, Left, Right

\* Being a neighbour is mutual.
LEMMA Table ==
  ASSUME NEW i \in Threads
  PROVE  /\ Left(i) \in Threads /\ Right(i) \in Threads
         /\ Left(i) # i /\ Right(i) # i
         /\ Left(Right(i)) = i /\ Right(Left(i)) = i
  BY Neighbours, PhilAssumption DEF Threads

\* The semaphores are distinct and none is in two classes.
LEMMA Semaphores ==
  /\ Mutex # NextSem
  /\ \A k : Cv(k) # Mutex /\ Cv(k) # NextSem
  /\ \A k, l : Cv(k) = Cv(l) => k = l
  /\ Mutex \in Sems /\ NextSem \in Sems /\ \A k \in Threads : Cv(k) \in Sems
  /\ \A s \in Sems : s = Mutex \/ s = NextSem \/ \E k \in Threads : s = Cv(k)
  BY DEF Mutex, NextSem, Cv, Sems

-----------------------------------------------------------------------------
(* What the operations on semaphores do to the sets of waiting threads. *)

\* up() wakes a waiter, if there is one, and gives it the semaphore.
LEMMA UpHands ==
  ASSUME Types, Waiting, NEW s \in Sems, Up(s)
  PROVE  /\ queue' \in [Sems -> Seq(Threads)]
         /\ \A r \in Sems : Distinct(queue'[r])
         /\ \A r \in Sems \ {s} : On(queue', r) = On(queue, r)
         /\ \/ /\ On(queue, s) = {} /\ On(queue', s) = {}
               /\ value' = [value EXCEPT ![s] = @ + 1] /\ ready' = ready
            \/ \E h \in On(queue, s) : /\ On(queue', s) = On(queue, s) \ {h}
                                /\ value' = value /\ ready' = ready \cup {h}
  <1>1. queue \in [Sems -> Seq(Threads)] /\ \A r \in Sems : Distinct(queue[r])
    BY DEF Types, Waiting
  <1>2. CASE queue[s] = <<>>
    <2>1. queue' = queue /\ value' = [value EXCEPT ![s] = @ + 1] /\ ready' = ready
      BY <1>2 DEF Up
    <2>2. On(queue, s) = {}
      BY <1>1, <1>2, Empty DEF On
    <2> QED BY <1>1, <2>1, <2>2 DEF On
  <1>3. CASE queue[s] # <<>>
    <2> DEFINE h == Head(queue[s])
    <2>1. /\ queue' = [queue EXCEPT ![s] = Tail(@)]
          /\ value' = value /\ ready' = ready \cup {h}
      BY <1>3 DEF Up
    <2>2. /\ h \in Elements(queue[s])
          /\ Tail(queue[s]) \in Seq(Threads)
          /\ Distinct(Tail(queue[s]))
          /\ Elements(Tail(queue[s])) = Elements(queue[s]) \ {h}
      BY <1>1, <1>3, Dequeue
    <2>3. queue'[s] = Tail(queue[s]) /\ \A r \in Sems \ {s} : queue'[r] = queue[r]
      BY <1>1, <2>1
    <2> HIDE DEF h
    <2>4. queue' \in [Sems -> Seq(Threads)]
      BY <1>1, <2>1, <2>2
    <2>5. \A r \in Sems : Distinct(queue'[r])
      BY <1>1, <2>2, <2>3
    <2>6. On(queue', s) = On(queue, s) \ {h} /\ h \in On(queue, s) /\ \A r \in Sems \ {s} : On(queue', r) = On(queue, r)
      BY <2>2, <2>3 DEF On
    <2> QED BY <2>1, <2>4, <2>5, <2>6
  <1> QED BY <1>2, <1>3

\* down() on a semaphore that is not free puts the thread in its queue.
LEMMA DownWaits ==
  ASSUME Types, Waiting, NEW t \in Threads, NEW d \in Sems, NEW l,
         value[d] = 0, t \notin On(queue, d), Down(t, d, l)
  PROVE  /\ queue' \in [Sems -> Seq(Threads)]
         /\ \A r \in Sems : Distinct(queue'[r])
         /\ \A r \in Sems \ {d} : On(queue', r) = On(queue, r)
         /\ On(queue', d) = On(queue, d) \cup {t}
         /\ value' = value /\ ready' = ready /\ cpu' = NoThread
  <1>1. queue \in [Sems -> Seq(Threads)] /\ \A r \in Sems : Distinct(queue[r])
    BY DEF Types, Waiting
  <1>2. /\ queue' = [queue EXCEPT ![d] = Append(@, t)]
        /\ value' = value /\ ready' = ready /\ cpu' = NoThread
    BY DEF Down
  <1>3. /\ Append(queue[d], t) \in Seq(Threads)
        /\ Distinct(Append(queue[d], t))
        /\ Elements(Append(queue[d], t)) = Elements(queue[d]) \cup {t}
    BY <1>1, Enqueue DEF On
  <1>4. queue'[d] = Append(queue[d], t) /\ \A r \in Sems \ {d} : queue'[r] = queue[r]
    BY <1>1, <1>2
  <1>5. queue' \in [Sems -> Seq(Threads)]
    BY <1>1, <1>2, <1>3
  <1>6. \A r \in Sems : Distinct(queue'[r])
    BY <1>1, <1>3, <1>4
  <1>7. On(queue', d) = On(queue, d) \cup {t} /\ \A r \in Sems \ {d} : On(queue', r) = On(queue, r)
    BY <1>3, <1>4 DEF On
  <1> QED BY <1>2, <1>5, <1>6, <1>7

\* up(s) and then down(d): somebody else goes on and the thread waits.
LEMMA UpDownHands ==
  ASSUME Types, Waiting, NEW t \in Threads, NEW s \in Sems, NEW d \in Sems, NEW l,
         s # d, value[d] = 0, t \notin On(queue, d), UpDown(t, s, d, l)
  PROVE  /\ queue' \in [Sems -> Seq(Threads)]
         /\ \A r \in Sems : Distinct(queue'[r])
         /\ \A r \in Sems \ {s, d} : On(queue', r) = On(queue, r)
         /\ On(queue', d) = On(queue, d) \cup {t}
         /\ cpu' = NoThread
         /\ \/ /\ On(queue, s) = {} /\ On(queue', s) = {}
               /\ value' = [value EXCEPT ![s] = @ + 1] /\ ready' = ready
            \/ \E h \in On(queue, s) : /\ On(queue', s) = On(queue, s) \ {h}
                                /\ value' = value /\ ready' = ready \cup {h}
  <1>1. /\ queue \in [Sems -> Seq(Threads)]
        /\ value \in [Sems -> 0..1]
        /\ \A r \in Sems : Distinct(queue[r])
    BY DEF Types, Waiting
  <1>2. /\ Append(queue[d], t) \in Seq(Threads)
        /\ Distinct(Append(queue[d], t))
        /\ Elements(Append(queue[d], t)) = Elements(queue[d]) \cup {t}
    BY <1>1, Enqueue DEF On
  <1>3. CASE queue[s] = <<>>
    <2>1. /\ queue' = [queue EXCEPT ![d] = Append(@, t)]
          /\ value' = [value EXCEPT ![s] = @ + 1]
          /\ ready' = ready /\ cpu' = NoThread
      BY <1>1, <1>3 DEF UpDown
    <2>2. queue'[d] = Append(queue[d], t) /\ \A r \in Sems \ {d} : queue'[r] = queue[r]
      BY <1>1, <2>1
    <2>3. queue' \in [Sems -> Seq(Threads)]
      BY <1>1, <1>2, <2>1
    <2>4. \A r \in Sems : Distinct(queue'[r])
      BY <1>1, <1>2, <2>2
    <2>5. On(queue', d) = On(queue, d) \cup {t} /\ \A r \in Sems \ {d} : On(queue', r) = On(queue, r)
      BY <1>2, <2>2 DEF On
    <2>6. On(queue, s) = {}
      BY <1>1, <1>3, Empty DEF On
    <2> QED BY <2>1, <2>3, <2>4, <2>5, <2>6
  <1>4. CASE queue[s] # <<>>
    <2> DEFINE h == Head(queue[s])
               q == [queue EXCEPT ![s] = Tail(@)]
    <2>1. /\ queue' = [q EXCEPT ![d] = Append(@, t)]
          /\ value' = value /\ ready' = ready \cup {h} /\ cpu' = NoThread
      BY <1>1, <1>4 DEF UpDown
    <2>2. /\ h \in Elements(queue[s])
          /\ Tail(queue[s]) \in Seq(Threads)
          /\ Distinct(Tail(queue[s]))
          /\ Elements(Tail(queue[s])) = Elements(queue[s]) \ {h}
      BY <1>1, <1>4, Dequeue
    <2>3. /\ q \in [Sems -> Seq(Threads)]
          /\ q[s] = Tail(queue[s]) /\ \A r \in Sems \ {s} : q[r] = queue[r]
      BY <1>1, <2>2
    <2> HIDE DEF h, q
    <2>4. /\ queue' \in [Sems -> Seq(Threads)]
          /\ queue'[d] = Append(queue[d], t)
          /\ queue'[s] = Tail(queue[s])
          /\ \A r \in Sems \ {s, d} : queue'[r] = queue[r]
      BY <1>2, <2>1, <2>3
    <2>5. \A r \in Sems : Distinct(queue'[r])
      BY <1>1, <1>2, <2>2, <2>4
    <2>6. /\ On(queue', d) = On(queue, d) \cup {t}
          /\ On(queue', s) = On(queue, s) \ {h} /\ h \in On(queue, s)
          /\ \A r \in Sems \ {s, d} : On(queue', r) = On(queue, r)
      BY <1>2, <2>2, <2>4 DEF On
    <2> QED BY <2>1, <2>4, <2>5, <2>6
  <1> QED BY <1>3, <1>4

\* Only threads wait.
LEMMA OnThreads ==
  ASSUME Inv
  PROVE  \A s \in Sems : On(queue, s) \subseteq Threads
  BY DEF Inv, Types, On, Elements

\* The blocked threads are those on some queue.
LEMMA BlockedOn == Blocked = {i \in Threads : \E s \in Sems : i \in On(queue, s)}
  BY DEF Blocked, On, Elements

\* The same in the next state.
LEMMA BlockedOnNext == Blocked' = {i \in Threads : \E s \in Sems : i \in On(queue', s)}
  BY DEF Blocked, On, Elements

\* A thread that is active and on the CPU is the only active one.
LEMMA Alone ==
  ASSUME Inv, NEW i \in Threads, cpu = i, pc[i] \in InMonitor
  PROVE  /\ i \notin Blocked
         /\ Active = {i}
         /\ value[Mutex] = 0
         /\ \A j \in Threads \ {i} : pc[j] \in InMonitor => j \in Blocked
  <1>1. i \notin Blocked
    BY BlockedOn DEF Inv, Waiting
  <1>2. i \in Active
    BY <1>1 DEF Active
  <1>3. value[Mutex] \in 0..1
    BY Semaphores DEF Inv, Types
  <1>4. value[Mutex] = 0 /\ Active = {i}
    BY <1>2, <1>3 DEF Inv, Monitor
  <1> QED BY <1>1, <1>4 DEF Active

\* Where a thread waits follows from its program counter.
LEMMA WaitsOn ==
  ASSUME Inv, NEW j \in Blocked
  PROVE  \/ pc[j] \in {"hungry", "put"} /\ j \in On(queue, Mutex)
         \/ pc[j] \in Signalled /\ j \in On(queue, NextSem)
         \/ pc[j] = "waited" /\ On(queue, Cv(j)) = {j}
  BY BlockedOn, Semaphores DEF Inv, Waiting, Fits, Signalled

\* The thread that leaves the monitor frees the mutex only if no signaller waits.
LEMMA Exit ==
  ASSUME Inv, NEW i \in Threads, cpu = i, pc[i] \in InMonitor \ Signalled
  PROVE  /\ ExitSem \in {Mutex, NextSem}
         /\ On(queue, ExitSem) = {} => ExitSem = Mutex /\ Signallers = {}
  <1>1. ExitSem \in {Mutex, NextSem}
    BY DEF ExitSem
  <1>2. IsFiniteSet(Signallers)
    <2>1. IsFiniteSet(Threads)
      BY FS_Interval, PhilAssumption DEF Threads
    <2> QED BY <2>1, FS_Subset DEF Signallers
  <1>3. next_count \in Nat /\ (next_count = 0 <=> Signallers = {})
    BY <1>2, FS_EmptySet, FS_CardinalityType DEF Inv, Monitor
  <1>4. ASSUME NEW j \in Signallers PROVE j \in On(queue, NextSem)
    <2>1. j \in Threads \ {i} /\ pc[j] \in Signalled /\ pc[j] \in InMonitor
      BY DEF Signallers, Signalled, InMonitor
    <2>2. j \in Blocked
      BY <2>1, Alone
    <2> QED BY <2>1, <2>2, WaitsOn DEF Signalled
  <1> QED BY <1>1, <1>3, <1>4 DEF ExitSem

-----------------------------------------------------------------------------
(* The steps. *)

\* The threads counted by next_count are finitely many.
LEMMA SignallersFinite == IsFiniteSet(Signallers)
  <1>1. IsFiniteSet(Threads)
    BY FS_Interval, PhilAssumption DEF Threads
  <1> QED BY <1>1, FS_Subset DEF Signallers

\* Everybody sleeps, nobody waits and the mutex is free.
LEMMA InitInv == Init => Inv
  <1> SUFFICES ASSUME Init PROVE Inv
    OBVIOUS
  <1> USE PhilAssumption
  <1>1. Types
    BY DEF Init, Types, NoThread
  <1>2. \A s \in Sems : On(queue, s) = {} /\ Distinct(queue[s])
    BY DEF Init, On, Elements, Distinct
  <1>3. Blocked = {} /\ Active = {} /\ Signallers = {}
    BY <1>2, BlockedOn DEF Init, Active, InMonitor, Signallers, Signalled
  <1>4. Waiting
    BY <1>2, Semaphores DEF Waiting
  <1>5. Running
    BY DEF Init, Running, NoThread, Threads
  <1>6. Monitor
    BY <1>3, Semaphores, FS_EmptySet DEF Init, Monitor
  <1>7. Phases
    BY <1>3 DEF Init, Phases
  <1>8. NeighboursExclude /\ NoneMissed
    BY DEF Init, NeighboursExclude, NoneMissed, MayEat
  <1> QED BY <1>1, <1>4, <1>5, <1>6, <1>7, <1>8 DEF Inv

\* A philosopher begins a routine: it takes the mutex or waits for it.
LEMMA EnterInv ==
  ASSUME Inv, NEW i \in Threads, Enter(i)
  PROVE  Inv'
  <1>1. PICK l \in {"hungry", "put"} :
          /\ cpu = i /\ Down(i, Mutex, l)
          /\ pc[i] = IF l = "hungry" THEN "thought" ELSE "ate"
    BY DEF Enter, Runs
  <1>2. /\ UNCHANGED <<phase, count, next_count, iter>>
        /\ ready' = ready /\ pc' = [pc EXCEPT ![i] = l]
    BY <1>1 DEF Enter, Down, Goto
  <1>3. pc' \in [Threads -> InMonitor \cup {"thinking", "thought", "eating", "ate", "quit"}]
    BY <1>2 DEF Inv, Types, InMonitor
  <1>4. pc'[i] = l /\ \A j \in Threads \ {i} : pc'[j] = pc[j]
    BY <1>2 DEF Inv, Types
  <1>5. i \notin Blocked /\ i \notin Active /\ i \notin ready
    BY <1>1, BlockedOn DEF Inv, Waiting, Active, InMonitor, Running
  <1>6. Signallers' = Signallers
    BY <1>1, <1>4 DEF Signallers, Signalled
  <1>7. NeighboursExclude' /\ NoneMissed'
    BY <1>1, <1>2, <1>4 DEF Inv, NeighboursExclude, NoneMissed, MayEat
  <1>8. CASE value[Mutex] > 0
    <2>1. /\ value' = [value EXCEPT ![Mutex] = @ - 1]
          /\ UNCHANGED <<cpu, queue>>
      BY <1>1, <1>8 DEF Down
    <2>2. /\ value[Mutex] = 1 /\ value'[Mutex] = 0
          /\ value' \in [Sems -> 0..1]
          /\ \A s \in Sems \ {Mutex} : value'[s] = value[s]
      BY <1>8, <2>1, Semaphores DEF Inv, Types
    <2>3. Blocked' = Blocked /\ \A s : On(queue', s) = On(queue, s)
      BY <2>1 DEF Blocked, On
    <2>4. Active' = {i}
      BY <1>1, <1>4, <1>5, <2>2, <2>3 DEF Inv, Monitor, Active, InMonitor
    <2>5. Types'
      BY <1>2, <1>3, <2>1, <2>2 DEF Inv, Types
    <2>6. Waiting'
      BY <1>2, <1>4, <1>5, <2>1, <2>3, BlockedOn, Semaphores DEF Inv, Waiting
    <2>7. Running'
      BY <1>1, <1>2, <1>4, <2>1 DEF Inv, Running
    <2>8. Monitor'
      BY <1>2, <1>6, <2>2, <2>4, Semaphores DEF Inv, Monitor
    <2>9. Phases'
      BY <1>1, <1>2, <1>4, <2>3 DEF Inv, Phases
    <2> QED BY <1>7, <2>5, <2>6, <2>7, <2>8, <2>9 DEF Inv
  <1>9. CASE ~(value[Mutex] > 0)
    <2>1. value[Mutex] = 0 /\ i \notin On(queue, Mutex)
      BY <1>5, <1>9, BlockedOn, Semaphores DEF Inv, Types
    <2>2. /\ queue' \in [Sems -> Seq(Threads)]
          /\ \A r \in Sems : Distinct(queue'[r])
          /\ \A r \in Sems \ {Mutex} : On(queue', r) = On(queue, r)
          /\ On(queue', Mutex) = On(queue, Mutex) \cup {i}
          /\ value' = value /\ cpu' = NoThread
      BY <1>1, <2>1, DownWaits, Semaphores DEF Inv
    <2>3. Blocked' = Blocked \cup {i}
      BY <2>2, BlockedOn, BlockedOnNext, Semaphores
    <2>4. Active' = Active
      BY <1>4, <1>5, <2>3 DEF Active
    <2>5. Types'
      BY <1>2, <1>3, <2>2 DEF Inv, Types
    <2>6. Waiting'
      <3> SUFFICES ASSUME NEW s \in Sems, NEW j \in On(queue', s)
                   PROVE  Fits(s, j, pc'[j]) /\ j \notin ready' /\ j # cpu'
        BY <2>2 DEF Waiting
      <3>1. j \in Threads
        BY <2>2 DEF On, Elements
      <3>2. j # cpu'
        BY <2>2, <3>1, PhilAssumption DEF NoThread, Threads
      <3>3. CASE j = i
        BY <1>2, <1>4, <1>5, <2>2, <3>2, <3>3, BlockedOn DEF Fits
      <3>4. CASE j # i
        BY <1>2, <1>4, <2>2, <3>1, <3>2, <3>4 DEF Inv, Waiting
      <3> QED BY <3>3, <3>4
    <2>7. Running'
      BY <1>1, <1>2, <1>4, <1>5, <2>2, PhilAssumption DEF Inv, Types, Running, NoThread, Threads
    <2>8. Monitor'
      BY <1>2, <1>6, <2>2, <2>4 DEF Inv, Monitor
    <2>9. Phases'
      BY <1>1, <1>2, <1>4, <2>3 DEF Inv, Phases
    <2> QED BY <1>7, <2>5, <2>6, <2>7, <2>8, <2>9 DEF Inv
  <1> QED BY <1>8, <1>9

\* A step of the active thread inside the monitor that leaves the semaphores alone.
LEMMA InsideInv ==
  ASSUME Inv, NEW i \in Threads, cpu = i, pc[i] \in InMonitor,
         NEW l \in InMonitor, Goto(i, l),
         UNCHANGED <<cpu, ready, value, queue>>
  PROVE  /\ pc' \in [Threads -> InMonitor \cup {"thinking", "thought", "eating", "ate", "quit"}]
         /\ pc'[i] = l /\ \A j \in Threads \ {i} : pc'[j] = pc[j]
         /\ Blocked' = Blocked
         /\ Active' = {i} /\ value'[Mutex] = 0
         /\ Waiting'
         /\ Running'
  <1>1. /\ pc' \in [Threads -> InMonitor \cup {"thinking", "thought", "eating", "ate", "quit"}]
        /\ pc'[i] = l /\ \A j \in Threads \ {i} : pc'[j] = pc[j]
    BY DEF Inv, Types, Goto
  <1>2. Blocked' = Blocked
    BY DEF Blocked
  <1>3. i \notin Blocked /\ Active = {i} /\ value'[Mutex] = 0
    BY Alone
  <1>4. Active' = {i}
    BY <1>1, <1>2, <1>3 DEF Active
  <1>5. Waiting'
    BY <1>1, <1>3, BlockedOn, OnThreads DEF Inv, Waiting
  <1>6. Running'
    BY <1>1 DEF Inv, Running, InMonitor
  <1> QED BY <1>1, <1>2, <1>3, <1>4, <1>5, <1>6

\* phi_test_condvar on itself.
LEMMA HungryInv ==
  ASSUME Inv, NEW i \in Threads, Hungry(i)
  PROVE  Inv'
  <1>1. /\ cpu = i /\ pc[i] = "hungry" /\ Goto(i, "check")
        /\ UNCHANGED <<cpu, ready, value, queue, count, next_count, iter>>
    BY DEF Hungry, Runs
  <1>2. "check" \in InMonitor /\ "hungry" \in InMonitor
    BY DEF InMonitor
  <1>3. /\ pc' \in [Threads -> InMonitor \cup {"thinking", "thought", "eating", "ate", "quit"}]
        /\ pc'[i] = "check" /\ \A j \in Threads \ {i} : pc'[j] = pc[j]
        /\ Blocked' = Blocked
        /\ Active' = {i} /\ value'[Mutex] = 0
        /\ Waiting'
        /\ Running'
    BY <1>1, <1>2, InsideInv
  <1> DEFINE ph == [phase EXCEPT ![i] = "HUNGRY"]
  <1>4. phase' = IF MayEat(i, ph) THEN [ph EXCEPT ![i] = "EATING"] ELSE ph
    BY DEF Hungry
  <1>5. Left(i) \in Threads \ {i} /\ Right(i) \in Threads \ {i}
    BY Table
  <1>6. /\ phase' \in [Threads -> {"THINKING", "HUNGRY", "EATING"}]
        /\ \A j \in Threads \ {i} : phase'[j] = phase[j]
        /\ phase'[i] = IF phase[Left(i)] # "EATING" /\ phase[Right(i)] # "EATING"
                         THEN "EATING" ELSE "HUNGRY"
    BY <1>4, <1>5 DEF Inv, Types, MayEat
  <1>7. Signallers' = Signallers
    BY <1>1, <1>3 DEF Signallers, Signalled
  <1>8. Types'
    BY <1>1, <1>3, <1>6 DEF Inv, Types
  <1>9. Monitor'
    BY <1>1, <1>3, <1>7 DEF Inv, Monitor
  <1>10. Phases'
    BY <1>1, <1>3, <1>6 DEF Inv, Phases
  <1>11. NeighboursExclude'
    <2> SUFFICES ASSUME NEW j \in Threads, phase'[j] = "EATING", phase'[Right(j)] = "EATING"
                 PROVE  FALSE
      BY DEF NeighboursExclude
    <2>1. Right(j) \in Threads /\ Right(j) # j /\ Left(Right(j)) = j
      BY Table
    <2> QED BY <1>6, <2>1 DEF Inv, NeighboursExclude
  <1>12. NoneMissed'
    <2> SUFFICES ASSUME NEW k \in Threads, MayEat(k, phase')
                 PROVE  \E j \in Threads :
                          \/ pc'[j] = "left" /\ k \in {Left(j), Right(j)}
                          \/ pc'[j] \in {"left_signalled", "right"} /\ k = Right(j)
      BY DEF NoneMissed
    <2>1. k # i
      BY <1>5, <1>6 DEF MayEat
    <2>2. phase[i] = "THINKING"
      BY <1>1 DEF Inv, Phases
    <2>3. MayEat(k, phase)
      <3>1. Left(k) \in Threads /\ Right(k) \in Threads
        BY Table
      <3> QED BY <1>6, <2>1, <2>2, <3>1 DEF MayEat
    <2>4. PICK j \in Threads :
             \/ pc[j] = "left" /\ k \in {Left(j), Right(j)}
             \/ pc[j] \in {"left_signalled", "right"} /\ k = Right(j)
      BY <2>3 DEF Inv, NoneMissed
    <2> QED BY <1>1, <1>3, <2>4
  <1> QED BY <1>3, <1>8, <1>9, <1>10, <1>11, <1>12 DEF Inv

\* cond_wait after its down().
LEMMA CondWaitedInv ==
  ASSUME Inv, NEW i \in Threads, CondWaited(i)
  PROVE  Inv'
  <1>1. /\ cpu = i /\ pc[i] = "waited" /\ Goto(i, "check")
        /\ count' = [count EXCEPT ![i] = @ - 1]
        /\ UNCHANGED <<cpu, ready, value, queue, phase, next_count, iter>>
    BY DEF CondWaited, Runs
  <1>2. "check" \in InMonitor /\ "waited" \in InMonitor
    BY DEF InMonitor
  <1>3. /\ pc' \in [Threads -> InMonitor \cup {"thinking", "thought", "eating", "ate", "quit"}]
        /\ pc'[i] = "check" /\ \A j \in Threads \ {i} : pc'[j] = pc[j]
        /\ Blocked' = Blocked
        /\ Active' = {i} /\ value'[Mutex] = 0
        /\ Waiting'
        /\ Running'
    BY <1>1, <1>2, InsideInv
  <1>4. count[i] = 1
    BY <1>1 DEF Inv, Phases
  <1>5. /\ count' \in [Threads -> 0..1]
        /\ count'[i] = 0 /\ \A j \in Threads \ {i} : count'[j] = count[j]
    BY <1>1, <1>4 DEF Inv, Types
  <1>6. Signallers' = Signallers
    BY <1>1, <1>3 DEF Signallers, Signalled
  <1>7. Types'
    BY <1>1, <1>3, <1>5 DEF Inv, Types
  <1>8. Monitor'
    BY <1>1, <1>3, <1>6 DEF Inv, Monitor
  <1>9. Phases'
    BY <1>1, <1>3, <1>5 DEF Inv, Phases
  <1>10. NeighboursExclude' /\ NoneMissed'
    BY <1>1, <1>3 DEF Inv, NeighboursExclude, NoneMissed, MayEat
  <1> QED BY <1>3, <1>7, <1>8, <1>9, <1>10 DEF Inv

\* A philosopher puts its forks down: its neighbours may eat now.
LEMMA PutInv ==
  ASSUME Inv, NEW i \in Threads, Put(i)
  PROVE  Inv'
  <1>1. /\ cpu = i /\ pc[i] = "put" /\ Goto(i, "left")
        /\ phase' = [phase EXCEPT ![i] = "THINKING"]
        /\ UNCHANGED <<cpu, ready, value, queue, count, next_count, iter>>
    BY DEF Put, Runs
  <1>2. "left" \in InMonitor /\ "put" \in InMonitor
    BY DEF InMonitor
  <1>3. /\ pc' \in [Threads -> InMonitor \cup {"thinking", "thought", "eating", "ate", "quit"}]
        /\ pc'[i] = "left" /\ \A j \in Threads \ {i} : pc'[j] = pc[j]
        /\ Blocked' = Blocked
        /\ Active' = {i} /\ value'[Mutex] = 0
        /\ Waiting'
        /\ Running'
    BY <1>1, <1>2, InsideInv
  <1>4. /\ phase' \in [Threads -> {"THINKING", "HUNGRY", "EATING"}]
        /\ phase'[i] = "THINKING" /\ \A j \in Threads \ {i} : phase'[j] = phase[j]
    BY <1>1 DEF Inv, Types
  <1>5. Signallers' = Signallers
    BY <1>1, <1>3 DEF Signallers, Signalled
  <1>6. Types'
    BY <1>1, <1>3, <1>4 DEF Inv, Types
  <1>7. Monitor'
    BY <1>1, <1>3, <1>5 DEF Inv, Monitor
  <1>8. Phases'
    BY <1>1, <1>3, <1>4 DEF Inv, Phases
  <1>9. NeighboursExclude'
    BY <1>4, Table DEF Inv, NeighboursExclude
  <1>10. NoneMissed'
    <2> SUFFICES ASSUME NEW k \in Threads, MayEat(k, phase')
                 PROVE  \E j \in Threads :
                          \/ pc'[j] = "left" /\ k \in {Left(j), Right(j)}
                          \/ pc'[j] \in {"left_signalled", "right"} /\ k = Right(j)
      BY DEF NoneMissed
    <2>1. Left(k) \in Threads /\ Right(k) \in Threads /\ Left(Right(k)) = k /\ Right(Left(k)) = k
      BY Table
    <2>2. CASE Left(k) = i \/ Right(k) = i
      BY <1>3, <2>1, <2>2
    <2>3. CASE Left(k) # i /\ Right(k) # i
      <3>1. MayEat(k, phase)
        BY <1>4, <2>1, <2>3 DEF MayEat
      <3>2. PICK j \in Threads :
               \/ pc[j] = "left" /\ k \in {Left(j), Right(j)}
               \/ pc[j] \in {"left_signalled", "right"} /\ k = Right(j)
        BY <3>1 DEF Inv, NoneMissed
      <3> QED BY <1>1, <1>3, <3>2
    <2> QED BY <2>2, <2>3
  <1> QED BY <1>3, <1>6, <1>7, <1>8, <1>9, <1>10 DEF Inv

\* cond_signal after its down(): the signaller has the monitor again.
LEMMA CondSignalledInv ==
  ASSUME Inv, NEW i \in Threads, CondSignalled(i)
  PROVE  Inv'
  <1>1. PICK l \in {"right", "put_leave"} :
          /\ cpu = i /\ Goto(i, l)
          /\ pc[i] = IF l = "right" THEN "left_signalled" ELSE "right_signalled"
    BY DEF CondSignalled, Runs
  <1>2. /\ next_count' = next_count - 1
        /\ UNCHANGED <<cpu, ready, value, queue, phase, count, iter>>
    BY DEF CondSignalled
  <1>3. l \in InMonitor /\ pc[i] \in InMonitor
    BY <1>1 DEF InMonitor
  <1>4. /\ pc' \in [Threads -> InMonitor \cup {"thinking", "thought", "eating", "ate", "quit"}]
        /\ pc'[i] = l /\ \A j \in Threads \ {i} : pc'[j] = pc[j]
        /\ Blocked' = Blocked
        /\ Active' = {i} /\ value'[Mutex] = 0
        /\ Waiting'
        /\ Running'
    BY <1>1, <1>2, <1>3, InsideInv
  <1>5. Signallers' = Signallers \ {i} /\ i \in Signallers
    BY <1>1, <1>4 DEF Signallers, Signalled
  <1>6. Types'
    BY <1>2, <1>4 DEF Inv, Types
  <1>7. Monitor'
    <2>1. next_count' = Cardinality(Signallers')
      BY <1>2, <1>5, SignallersFinite, FS_RemoveElement DEF Inv, Monitor
    <2> QED BY <1>2, <1>4, <2>1 DEF Inv, Monitor
  <1>8. Phases'
    BY <1>1, <1>2, <1>4 DEF Inv, Phases
  <1>9. NeighboursExclude'
    BY <1>2 DEF Inv, NeighboursExclude
  <1>10. NoneMissed'
    BY <1>1, <1>2, <1>4 DEF Inv, NoneMissed, MayEat
  <1> QED BY <1>4, <1>6, <1>7, <1>8, <1>9, <1>10 DEF Inv

\* do_sleep runs out.
LEMMA AwakeInv ==
  ASSUME Inv, NEW i \in Threads, Awake(i)
  PROVE  Inv'
  <1>1. PICK l \in {"thought", "ate"} :
          /\ Goto(i, l)
          /\ pc[i] = IF l = "thought" THEN "thinking" ELSE "eating"
    BY DEF Awake
  <1>2. /\ ready' = ready \cup {i}
        /\ UNCHANGED <<cpu, value, queue, phase, count, next_count, iter>>
    BY DEF Awake
  <1>3. /\ pc' \in [Threads -> InMonitor \cup {"thinking", "thought", "eating", "ate", "quit"}]
        /\ pc'[i] = l /\ \A j \in Threads \ {i} : pc'[j] = pc[j]
    BY <1>1 DEF Inv, Types, Goto
  <1>4. Blocked' = Blocked
    BY <1>2 DEF Blocked
  <1>5. i \notin Blocked
    BY <1>1, BlockedOn DEF Inv, Waiting, Fits, Signalled
  <1>6. Active' = Active /\ Signallers' = Signallers
    BY <1>1, <1>3, <1>4 DEF Active, InMonitor, Signallers, Signalled
  <1>7. Types'
    BY <1>2, <1>3 DEF Inv, Types
  <1>8. Waiting'
    BY <1>2, <1>3, <1>5, BlockedOn, OnThreads DEF Inv, Waiting
  <1>9. Running'
    BY <1>1, <1>2, <1>3 DEF Inv, Running
  <1>10. Monitor'
    BY <1>2, <1>6 DEF Inv, Monitor
  <1>11. Phases'
    BY <1>1, <1>2, <1>3, <1>4 DEF Inv, Phases
  <1>12. NeighboursExclude' /\ NoneMissed'
    BY <1>1, <1>2, <1>3 DEF Inv, NeighboursExclude, NoneMissed, MayEat
  <1> QED BY <1>7, <1>8, <1>9, <1>10, <1>11, <1>12 DEF Inv

\* schedule().
LEMMA DispatchInv ==
  ASSUME Inv, NEW i \in Threads, Dispatch(i), UNCHANGED <<phase, count, next_count, iter>>
  PROVE  Inv'
  <1>1. /\ cpu' = i /\ i \in ready /\ ready' = ready \ {i}
        /\ UNCHANGED <<pc, value, queue>>
    BY DEF Dispatch
  <1>2. Blocked' = Blocked
    BY <1>1 DEF Blocked
  <1>3. Active' = Active /\ Signallers' = Signallers
    BY <1>1, <1>2 DEF Active, Signallers
  <1>4. Types'
    BY <1>1 DEF Inv, Types
  <1>5. Waiting'
    BY <1>1 DEF Inv, Waiting
  <1>6. Running'
    BY <1>1 DEF Inv, Running
  <1>7. Monitor'
    BY <1>1, <1>3 DEF Inv, Monitor
  <1>8. Phases'
    BY <1>1, <1>2 DEF Inv, Phases
  <1>9. NeighboursExclude' /\ NoneMissed'
    BY <1>1 DEF Inv, NeighboursExclude, NoneMissed, MayEat
  <1> QED BY <1>4, <1>5, <1>6, <1>7, <1>8, <1>9 DEF Inv

\* The end of a routine: the monitor goes to a signaller, or to a thread that waits
\* for the mutex, or to nobody.
LEMMA LeaveInv ==
  ASSUME Inv, NEW i \in Threads, Leave(i)
  PROVE  Inv'
  <1>1. PICK l \in {"eating", "thinking", "quit"} :
          /\ cpu = i /\ Goto(i, l)
          /\ l = "eating" => pc[i] = "check" /\ phase[i] = "EATING"
          /\ l # "eating" => pc[i] = "put_leave"
    BY DEF Leave, Runs
  <1>2. /\ Up(ExitSem) /\ cpu' = NoThread
        /\ UNCHANGED <<phase, count, next_count>>
    BY DEF Leave
  <1>3. iter' \in [Threads -> 1..Times]
    <2>1. iter \in [Threads -> 1..Times] /\ iter[i] \in 1..Times /\ Times \in Nat
      BY PhilAssumption DEF Inv, Types
    <2>2. \/ iter' = iter
          \/ iter[i] < Times /\ iter' = [iter EXCEPT ![i] = iter[i] + 1]
          \/ iter' = [iter EXCEPT ![i] = iter[i]]
      BY DEF Leave
    <2> QED BY <2>1, <2>2
  <1>4. /\ pc' \in [Threads -> InMonitor \cup {"thinking", "thought", "eating", "ate", "quit"}]
        /\ pc'[i] = l /\ \A j \in Threads \ {i} : pc'[j] = pc[j]
    BY <1>1 DEF Inv, Types, Goto
  <1>5. pc[i] \in InMonitor \ Signalled
    BY <1>1 DEF InMonitor, Signalled
  <1>6. /\ i \notin Blocked /\ Active = {i} /\ value[Mutex] = 0
        /\ \A j \in Threads \ {i} : pc[j] \in InMonitor => j \in Blocked
    BY <1>1, <1>5, Alone
  <1>7. /\ ExitSem \in {Mutex, NextSem} /\ ExitSem \in Sems
        /\ On(queue, ExitSem) = {} => ExitSem = Mutex /\ Signallers = {}
    BY <1>1, <1>5, Exit, Semaphores
  <1>8. /\ queue' \in [Sems -> Seq(Threads)]
        /\ \A r \in Sems : Distinct(queue'[r])
        /\ \A r \in Sems \ {ExitSem} : On(queue', r) = On(queue, r)
        /\ \/ /\ On(queue, ExitSem) = {} /\ On(queue', ExitSem) = {}
              /\ value' = [value EXCEPT ![ExitSem] = @ + 1] /\ ready' = ready
           \/ \E h \in On(queue, ExitSem) :
                /\ On(queue', ExitSem) = On(queue, ExitSem) \ {h}
                /\ value' = value /\ ready' = ready \cup {h}
    BY <1>2, <1>7, UpHands DEF Inv
  <1>9. Signallers' = Signallers
    BY <1>1, <1>4, <1>5 DEF Signallers, Signalled
  <1>10. NeighboursExclude' /\ NoneMissed'
    BY <1>1, <1>2, <1>4 DEF Inv, NeighboursExclude, NoneMissed, MayEat
  <1>11. NoThread \notin Threads
    BY PhilAssumption DEF NoThread, Threads
  <1>12. CASE On(queue, ExitSem) = {}
    <2>1. /\ ExitSem = Mutex /\ Signallers = {}
          /\ \A r \in Sems : On(queue', r) = On(queue, r)
          /\ value' = [value EXCEPT ![Mutex] = @ + 1] /\ ready' = ready
      BY <1>7, <1>8, <1>12
    <2>2. /\ value' \in [Sems -> 0..1] /\ value'[Mutex] = 1
          /\ \A s \in Sems \ {Mutex} : value'[s] = value[s]
      BY <1>6, <2>1, Semaphores DEF Inv, Types
    <2>3. Blocked' = Blocked
      BY <2>1, BlockedOn, BlockedOnNext
    <2>4. Active' = {}
      BY <1>1, <1>4, <1>6, <2>3 DEF Active, InMonitor
    <2>5. Types'
      BY <1>2, <1>3, <1>4, <1>8, <2>1, <2>2 DEF Inv, Types
    <2>6. Waiting'
      BY <1>2, <1>4, <1>6, <1>8, <1>11, <2>1, BlockedOn, OnThreads DEF Inv, Waiting
    <2>7. Running'
      BY <1>1, <1>2, <1>4, <1>11, <2>1 DEF Inv, Types, Running
    <2>8. Monitor'
      BY <1>2, <1>9, <2>1, <2>2, <2>4, Semaphores DEF Inv, Monitor
    <2>9. Phases'
      BY <1>1, <1>2, <1>4, <2>3 DEF Inv, Phases
    <2> QED BY <1>10, <2>5, <2>6, <2>7, <2>8, <2>9 DEF Inv
  <1>13. CASE On(queue, ExitSem) # {}
    <2>1. PICK h \in On(queue, ExitSem) :
             /\ On(queue', ExitSem) = On(queue, ExitSem) \ {h}
             /\ value' = value /\ ready' = ready \cup {h}
      BY <1>8, <1>13
    <2>2. /\ h \in Threads \ {i} /\ h \in Blocked
          /\ pc[h] \in {"hungry", "put", "left_signalled", "right_signalled"}
          /\ \A s \in Sems \ {ExitSem} : h \notin On(queue, s)
      BY <1>6, <1>7, BlockedOn, OnThreads, Semaphores DEF Inv, Waiting, Fits, Signalled
    <2>3. Blocked' = Blocked \ {h}
      <3>1. \A r \in Sems : On(queue', r) = On(queue, r) \ {h}
        BY <1>8, <2>1, <2>2
      <3> QED BY <3>1, BlockedOn, BlockedOnNext
    <2>4. Active' = {h}
      <3>1. h \in Active'
        BY <1>4, <2>2, <2>3 DEF Active, InMonitor
      <3>2. ASSUME NEW j \in Active' PROVE j = h
        <4>1. j \in Threads /\ pc'[j] \in InMonitor /\ j # i
          BY <1>1, <1>4 DEF Active, InMonitor
        <4>2. j \in Blocked
          BY <1>4, <1>6, <4>1
        <4> QED BY <2>3, <4>2 DEF Active
      <3> QED BY <3>1, <3>2
    <2>5. Types'
      BY <1>2, <1>3, <1>4, <1>8, <1>11, <2>1, <2>2 DEF Inv, Types
    <2>6. Waiting'
      <3> SUFFICES ASSUME NEW s \in Sems, NEW j \in On(queue', s)
                   PROVE  Fits(s, j, pc'[j]) /\ j \notin ready' /\ j # cpu'
        BY <1>8 DEF Waiting
      <3>1. j \in On(queue, s) /\ j # h
        BY <1>8, <2>1, <2>2
      <3>2. j \in Threads /\ j # i
        BY <1>6, <3>1, BlockedOn, OnThreads
      <3> QED BY <1>2, <1>4, <1>11, <2>1, <3>1, <3>2 DEF Inv, Waiting
    <2>7. Running'
      BY <1>1, <1>2, <1>4, <1>11, <2>1, <2>2 DEF Inv, Types, Running
    <2>8. Monitor'
      BY <1>2, <1>6, <1>9, <2>1, <2>2, <2>4 DEF Inv, Monitor
    <2>9. Phases'
      BY <1>1, <1>2, <1>4, <2>2, <2>3 DEF Inv, Phases
    <2> QED BY <1>10, <2>5, <2>6, <2>7, <2>8, <2>9 DEF Inv
  <1> QED BY <1>12, <1>13

\* cond_wait up to its down(): the philosopher lets somebody else in, or frees the mutex.
LEMMA CondWaitInv ==
  ASSUME Inv, NEW i \in Threads, CondWait(i)
  PROVE  Inv'
  <1>1. /\ cpu = i /\ pc[i] = "check" /\ phase[i] # "EATING"
        /\ count' = [count EXCEPT ![i] = @ + 1]
        /\ UpDown(i, ExitSem, Cv(i), "waited")
        /\ UNCHANGED <<phase, next_count, iter>>
    BY DEF CondWait, Runs
  <1>2. /\ pc' \in [Threads -> InMonitor \cup {"thinking", "thought", "eating", "ate", "quit"}]
        /\ pc'[i] = "waited" /\ \A j \in Threads \ {i} : pc'[j] = pc[j]
    BY <1>1 DEF Inv, Types, UpDown, Goto, InMonitor
  <1>3. pc[i] \in InMonitor \ Signalled
    BY <1>1 DEF InMonitor, Signalled
  <1>4. /\ i \notin Blocked /\ Active = {i} /\ value[Mutex] = 0 /\ i \notin ready
        /\ \A j \in Threads \ {i} : pc[j] \in InMonitor => j \in Blocked
    BY <1>1, <1>3, Alone DEF Inv, Running
  <1>5. /\ ExitSem \in {Mutex, NextSem} /\ ExitSem \in Sems /\ Cv(i) \in Sems /\ ExitSem # Cv(i)
        /\ On(queue, ExitSem) = {} => ExitSem = Mutex /\ Signallers = {}
    BY <1>1, <1>3, Exit, Semaphores
  <1>6. value[Cv(i)] = 0 /\ i \notin On(queue, Cv(i))
    BY <1>4, <1>5, BlockedOn DEF Inv, Monitor
  <1>7. /\ queue' \in [Sems -> Seq(Threads)]
        /\ \A r \in Sems : Distinct(queue'[r])
        /\ \A r \in Sems \ {ExitSem, Cv(i)} : On(queue', r) = On(queue, r)
        /\ On(queue', Cv(i)) = On(queue, Cv(i)) \cup {i}
        /\ cpu' = NoThread
        /\ \/ /\ On(queue, ExitSem) = {} /\ On(queue', ExitSem) = {}
              /\ value' = [value EXCEPT ![ExitSem] = @ + 1] /\ ready' = ready
           \/ \E h \in On(queue, ExitSem) :
                /\ On(queue', ExitSem) = On(queue, ExitSem) \ {h}
                /\ value' = value /\ ready' = ready \cup {h}
    BY <1>1, <1>5, <1>6, UpDownHands DEF Inv
  <1>8. /\ count' \in [Threads -> 0..1]
        /\ count'[i] = 1 /\ \A j \in Threads \ {i} : count'[j] = count[j]
    <2>1. count[i] = 0 /\ count \in [Threads -> 0..1]
      BY <1>1 DEF Inv, Types, Phases
    <2> QED BY <1>1, <2>1
  <1>9. phase[i] = "HUNGRY"
    BY <1>1 DEF Inv, Types, Phases
  <1>10. Signallers' = Signallers
    BY <1>2, <1>3 DEF Signallers, Signalled
  <1>11. NeighboursExclude' /\ NoneMissed'
    BY <1>1, <1>2 DEF Inv, NeighboursExclude, NoneMissed, MayEat
  <1>12. NoThread \notin Threads
    BY PhilAssumption DEF NoThread, Threads
  <1>13. CASE On(queue, ExitSem) = {}
    <2>1. /\ ExitSem = Mutex /\ Signallers = {}
          /\ \A r \in Sems \ {Cv(i)} : On(queue', r) = On(queue, r)
          /\ value' = [value EXCEPT ![Mutex] = @ + 1] /\ ready' = ready
      BY <1>5, <1>7, <1>13
    <2>2. /\ value' \in [Sems -> 0..1] /\ value'[Mutex] = 1
          /\ \A s \in Sems \ {Mutex} : value'[s] = value[s]
      BY <1>4, <2>1, Semaphores DEF Inv, Types
    <2>3. Blocked' = Blocked \cup {i}
      <3>1. \A r \in Sems : On(queue', r) = IF r = Cv(i) THEN On(queue, r) \cup {i} ELSE On(queue, r)
        BY <1>7, <2>1
      <3> QED BY <1>5, <3>1, BlockedOn, BlockedOnNext
    <2>4. Active' = {}
      BY <1>2, <1>4, <2>3 DEF Active
    <2>5. Types'
      BY <1>1, <1>2, <1>7, <1>8, <2>1, <2>2 DEF Inv, Types
    <2>6. Waiting'
      <3> SUFFICES ASSUME NEW s \in Sems, NEW j \in On(queue', s)
                   PROVE  Fits(s, j, pc'[j]) /\ j \notin ready' /\ j # cpu'
        BY <1>7 DEF Waiting
      <3>1. CASE j \in On(queue, s)
        <4>1. j \in Threads /\ j # i
          BY <1>4, <3>1, BlockedOn, OnThreads
        <4> QED BY <1>2, <1>7, <1>12, <2>1, <3>1, <4>1 DEF Inv, Waiting
      <3>2. CASE j \notin On(queue, s)
        <4>1. s = Cv(i) /\ j = i
          BY <1>7, <2>1, <3>2
        <4> QED BY <1>2, <1>4, <1>7, <1>12, <2>1, <4>1 DEF Fits
      <3> QED BY <3>1, <3>2
    <2>7. Running'
      BY <1>2, <1>7, <1>12, <2>1 DEF Inv, Types, Running
    <2>8. Monitor'
      BY <1>1, <1>10, <2>1, <2>2, <2>4, Semaphores DEF Inv, Monitor
    <2>9. Phases'
      BY <1>1, <1>2, <1>8, <1>9, <2>3 DEF Inv, Phases
    <2> QED BY <1>11, <2>5, <2>6, <2>7, <2>8, <2>9 DEF Inv
  <1>14. CASE On(queue, ExitSem) # {}
    <2>1. PICK h \in On(queue, ExitSem) :
             /\ On(queue', ExitSem) = On(queue, ExitSem) \ {h}
             /\ value' = value /\ ready' = ready \cup {h}
      BY <1>7, <1>14
    <2>2. /\ h \in Threads \ {i} /\ h \in Blocked
          /\ pc[h] \in {"hungry", "put", "left_signalled", "right_signalled"}
          /\ \A s \in Sems \ {ExitSem} : h \notin On(queue, s)
      BY <1>4, <1>5, BlockedOn, OnThreads, Semaphores DEF Inv, Waiting, Fits, Signalled
    <2>3. Blocked' = (Blocked \ {h}) \cup {i}
      <3>1. \A r \in Sems : On(queue', r) =
              IF r = Cv(i) THEN (On(queue, r) \ {h}) \cup {i} ELSE On(queue, r) \ {h}
        BY <1>5, <1>7, <2>1, <2>2
      <3> QED BY <1>5, <2>2, <3>1, BlockedOn, BlockedOnNext
    <2>4. Active' = {h}
      <3>1. h \in Active'
        BY <1>2, <2>2, <2>3 DEF Active, InMonitor
      <3>2. ASSUME NEW j \in Active' PROVE j = h
        <4>1. j \in Threads /\ pc'[j] \in InMonitor /\ j # i
          BY <2>3 DEF Active
        <4>2. j \in Blocked
          BY <1>2, <1>4, <4>1
        <4> QED BY <2>3, <4>2 DEF Active
      <3> QED BY <3>1, <3>2
    <2>5. Types'
      BY <1>1, <1>2, <1>7, <1>8, <2>1, <2>2 DEF Inv, Types
    <2>6. Waiting'
      <3> SUFFICES ASSUME NEW s \in Sems, NEW j \in On(queue', s)
                   PROVE  Fits(s, j, pc'[j]) /\ j \notin ready' /\ j # cpu'
        BY <1>7 DEF Waiting
      <3>1. CASE j \in On(queue, s)
        <4>1. j \in Threads /\ j # i
          BY <1>4, <3>1, BlockedOn, OnThreads
        <4>2. j # h
          BY <1>5, <1>7, <2>1, <2>2, <3>1, <4>1
        <4> QED BY <1>2, <1>7, <1>12, <2>1, <3>1, <4>1, <4>2 DEF Inv, Waiting
      <3>2. CASE j \notin On(queue, s)
        <4>1. s = Cv(i) /\ j = i
          BY <1>7, <2>1, <3>2
        <4> QED BY <1>2, <1>4, <1>7, <1>12, <2>1, <2>2, <4>1 DEF Fits
      <3> QED BY <3>1, <3>2
    <2>7. Running'
      BY <1>2, <1>7, <1>12, <2>1, <2>2 DEF Inv, Types, Running
    <2>8. Monitor'
      BY <1>1, <1>4, <1>10, <2>1, <2>2, <2>4 DEF Inv, Monitor
    <2>9. Phases'
      BY <1>1, <1>2, <1>8, <1>9, <2>2, <2>3 DEF Inv, Phases
    <2> QED BY <1>11, <2>5, <2>6, <2>7, <2>8, <2>9 DEF Inv
  <1> QED BY <1>13, <1>14

\* phi_test_condvar on a neighbour k: if k may eat, it eats, and it waits for that on
\* its condition; the thread that tells it hands the monitor over.
LEMMA TestInv ==
  ASSUME Inv, NEW i \in Threads, NEW l, NEW k, NEW signalled, NEW done,
         Test(i, l, k, signalled, done),
         \/ /\ l = "left" /\ k = Left(i)
            /\ signalled = "left_signalled" /\ done = "right"
         \/ /\ l = "right" /\ k = Right(i)
            /\ signalled = "right_signalled" /\ done = "put_leave"
  PROVE  Inv'
  <1>1. /\ cpu = i /\ pc[i] = l
        /\ phase' = IF MayEat(k, phase) THEN [phase EXCEPT ![k] = "EATING"] ELSE phase
        /\ UNCHANGED <<count, iter>>
    BY DEF Test, Runs
  <1>2. /\ l \in InMonitor /\ signalled \in InMonitor /\ done \in InMonitor
        /\ l \notin Signalled /\ done \notin Signalled /\ signalled \in Signalled
    BY DEF InMonitor, Signalled
  <1>3. k \in Threads /\ k # i
    BY Table
  <1>4. /\ i \notin Blocked /\ Active = {i} /\ value[Mutex] = 0 /\ i \notin ready
        /\ \A j \in Threads \ {i} : pc[j] \in InMonitor => j \in Blocked
    BY <1>1, <1>2, Alone DEF Inv, Running
  <1>5. /\ phase' \in [Threads -> {"THINKING", "HUNGRY", "EATING"}]
        /\ \A j \in Threads \ {k} : phase'[j] = phase[j]
        /\ phase'[k] = IF MayEat(k, phase) THEN "EATING" ELSE phase[k]
    BY <1>1, <1>3 DEF Inv, Types
  <1>6. NeighboursExclude'
    <2> SUFFICES ASSUME NEW j \in Threads, phase'[j] = "EATING", phase'[Right(j)] = "EATING"
                 PROVE  FALSE
      BY DEF NeighboursExclude
    <2>1. Right(j) \in Threads /\ Right(j) # j /\ Left(Right(j)) = j
      BY Table
    <2> QED BY <1>5, <2>1 DEF Inv, NeighboursExclude, MayEat
  <1>7. ASSUME \A j \in Threads \ {i} : pc'[j] = pc[j], pc'[i] \in {signalled, done}
        PROVE  NoneMissed'
    <2> SUFFICES ASSUME NEW m \in Threads, MayEat(m, phase')
                 PROVE  \E j \in Threads :
                          \/ pc'[j] = "left" /\ m \in {Left(j), Right(j)}
                          \/ pc'[j] \in {"left_signalled", "right"} /\ m = Right(j)
      BY DEF NoneMissed
    <2>1. Left(m) \in Threads /\ Right(m) \in Threads
      BY Table
    <2>2. MayEat(m, phase) /\ m # k
      BY <1>5, <2>1 DEF MayEat
    <2>3. PICK j \in Threads :
             \/ pc[j] = "left" /\ m \in {Left(j), Right(j)}
             \/ pc[j] \in {"left_signalled", "right"} /\ m = Right(j)
      BY <2>2 DEF Inv, NoneMissed
    <2>4. CASE j = i
      BY <1>1, <1>7, <2>2, <2>3, <2>4
    <2>5. CASE j # i
      BY <1>7, <2>3, <2>5
    <2> QED BY <2>4, <2>5
  <1>8. MayEat(k, phase) => pc[k] = "waited" /\ k \in Blocked /\ count[k] = 1
    <2> SUFFICES ASSUME MayEat(k, phase)
                 PROVE  pc[k] = "waited" /\ k \in Blocked /\ count[k] = 1
      OBVIOUS
    <2>1. pc[k] \in {"check", "waited"}
      BY <1>3 DEF MayEat, Inv, Phases
    <2>2. k \in Blocked
      BY <1>3, <1>4, <2>1 DEF InMonitor
    <2>3. pc[k] = "waited"
      BY <2>1, <2>2, WaitsOn DEF Signalled
    <2> QED BY <1>3, <2>2, <2>3 DEF Inv, Phases
  <1>9. CASE ~MayEat(k, phase)
    <2>1. Goto(i, done) /\ UNCHANGED <<cpu, ready, value, queue, next_count>>
      BY <1>9 DEF Test
    <2>2. /\ pc' \in [Threads -> InMonitor \cup {"thinking", "thought", "eating", "ate", "quit"}]
          /\ pc'[i] = done /\ \A j \in Threads \ {i} : pc'[j] = pc[j]
          /\ Blocked' = Blocked
          /\ Active' = {i} /\ value'[Mutex] = 0
          /\ Waiting'
          /\ Running'
      BY <1>1, <1>2, <2>1, InsideInv
    <2>3. Signallers' = Signallers
      BY <1>1, <1>2, <2>2 DEF Signallers
    <2>4. phase' = phase
      BY <1>1, <1>9
    <2>5. Types'
      BY <1>1, <2>1, <2>2, <2>4 DEF Inv, Types
    <2>6. Monitor'
      BY <2>1, <2>2, <2>3 DEF Inv, Monitor
    <2>7. Phases'
      BY <1>1, <2>2, <2>4 DEF Inv, Phases
    <2> QED BY <1>6, <1>7, <2>2, <2>5, <2>6, <2>7 DEF Inv
  <1>10. CASE MayEat(k, phase)
    <2>1. next_count' = next_count + 1 /\ UpDown(i, Cv(k), NextSem, signalled)
      BY <1>8, <1>10 DEF Test
    <2>2. /\ pc' \in [Threads -> InMonitor \cup {"thinking", "thought", "eating", "ate", "quit"}]
          /\ pc'[i] = signalled /\ \A j \in Threads \ {i} : pc'[j] = pc[j]
      BY <1>2, <2>1 DEF Inv, Types, UpDown, Goto
    <2>3. /\ Cv(k) \in Sems /\ NextSem \in Sems /\ Cv(k) # NextSem
          /\ value[NextSem] = 0 /\ i \notin On(queue, NextSem)
          /\ On(queue, Cv(k)) = {k}
      BY <1>3, <1>4, <1>8, <1>10, BlockedOn, Semaphores, WaitsOn DEF Inv, Monitor, Signalled
    <2>4. /\ queue' \in [Sems -> Seq(Threads)]
          /\ \A r \in Sems : Distinct(queue'[r])
          /\ \A r \in Sems \ {Cv(k), NextSem} : On(queue', r) = On(queue, r)
          /\ On(queue', NextSem) = On(queue, NextSem) \cup {i}
          /\ cpu' = NoThread
          /\ \/ /\ On(queue, Cv(k)) = {} /\ On(queue', Cv(k)) = {}
                /\ value' = [value EXCEPT ![Cv(k)] = @ + 1] /\ ready' = ready
             \/ \E h \in On(queue, Cv(k)) :
                  /\ On(queue', Cv(k)) = On(queue, Cv(k)) \ {h}
                  /\ value' = value /\ ready' = ready \cup {h}
      <3>1. Types /\ Waiting
        BY DEF Inv
      <3>2. PICK s \in Sems : s = Cv(k)
        BY <2>3
      <3>3. UpDown(i, s, NextSem, signalled) /\ s # NextSem
        BY <2>1, <2>3, <3>2
      <3>4. /\ queue' \in [Sems -> Seq(Threads)]
            /\ \A r \in Sems : Distinct(queue'[r])
            /\ \A r \in Sems \ {s, NextSem} : On(queue', r) = On(queue, r)
            /\ On(queue', NextSem) = On(queue, NextSem) \cup {i}
            /\ cpu' = NoThread
            /\ \/ /\ On(queue, s) = {} /\ On(queue', s) = {}
                  /\ value' = [value EXCEPT ![s] = @ + 1] /\ ready' = ready
               \/ \E h \in On(queue, s) :
                    /\ On(queue', s) = On(queue, s) \ {h}
                    /\ value' = value /\ ready' = ready \cup {h}
        BY <2>3, <3>1, <3>3, UpDownHands
      <3> QED BY <3>2, <3>4
    <2>5. On(queue', Cv(k)) = {} /\ value' = value /\ ready' = ready \cup {k}
      BY <2>3, <2>4
    <2>6. \A s \in Sems \ {Cv(k)} : k \notin On(queue, s)
      BY <1>3, <1>8, <1>10, Semaphores DEF Inv, Waiting, Fits, Signalled
    <2>7. Blocked' = (Blocked \ {k}) \cup {i}
      <3>1. \A r \in Sems : On(queue', r) =
              IF r = NextSem THEN (On(queue, r) \ {k}) \cup {i} ELSE On(queue, r) \ {k}
        BY <2>3, <2>4, <2>5, <2>6
      <3> QED BY <1>3, <2>3, <3>1, BlockedOn, BlockedOnNext
    <2>8. Active' = {k}
      <3>1. k \in Active'
        BY <1>3, <1>8, <1>10, <2>2, <2>7 DEF Active, InMonitor
      <3>2. ASSUME NEW j \in Active' PROVE j = k
        <4>1. j \in Threads /\ pc'[j] \in InMonitor /\ j # i
          BY <2>7 DEF Active
        <4>2. j \in Blocked
          BY <1>4, <2>2, <4>1
        <4> QED BY <2>7, <4>2 DEF Active
      <3> QED BY <3>1, <3>2
    <2>9. Signallers' = Signallers \cup {i} /\ i \notin Signallers
      BY <1>1, <1>2, <2>2 DEF Signallers
    <2>10. NoThread \notin Threads
      BY PhilAssumption DEF NoThread, Threads
    <2>11. Types'
      BY <1>1, <1>3, <1>5, <2>2, <2>4, <2>5 DEF Inv, Types
    <2>12. Waiting'
      <3> SUFFICES ASSUME NEW s \in Sems, NEW j \in On(queue', s)
                   PROVE  Fits(s, j, pc'[j]) /\ j \notin ready' /\ j # cpu'
        BY <2>4 DEF Waiting
      <3>1. CASE j \in On(queue, s)
        <4>1. j \in Threads /\ j # i
          BY <1>4, <3>1, BlockedOn, OnThreads
        <4>2. j # k
          BY <2>4, <2>5, <2>6, <3>1
        <4> QED BY <2>2, <2>4, <2>5, <2>10, <3>1, <4>1, <4>2 DEF Inv, Waiting
      <3>2. CASE j \notin On(queue, s)
        <4>1. s = NextSem /\ j = i
          BY <2>4, <2>5, <3>2
        <4> QED BY <1>2, <1>3, <1>4, <2>2, <2>4, <2>5, <2>10, <4>1 DEF Fits
      <3> QED BY <3>1, <3>2
    <2>13. Running'
      BY <1>2, <1>3, <1>8, <1>10, <2>2, <2>4, <2>5, <2>10 DEF Inv, Types, Running, InMonitor
    <2>14. Monitor'
      <3>1. next_count' = Cardinality(Signallers')
        BY <2>1, <2>9, SignallersFinite, FS_AddElement DEF Inv, Monitor
      <3> QED BY <1>3, <1>4, <2>5, <2>8, <3>1 DEF Inv, Monitor
    <2>15. Phases'
      <3> SUFFICES ASSUME NEW j \in Threads
                   PROVE  (/\ pc[j] \notin {"check", "waited", "eating", "ate", "put"} => phase[j] = "THINKING"
                           /\ pc[j] \in {"eating", "ate", "put"} => phase[j] = "EATING"
                           /\ pc[j] \in {"check", "waited"} => phase[j] # "THINKING"
                           /\ pc[j] = "waited" => phase[j] = IF j \in Blocked THEN "HUNGRY" ELSE "EATING"
                           /\ count[j] = IF pc[j] = "waited" THEN 1 ELSE 0)'
        BY DEF Phases
      <3>1. CASE j = i
        BY <1>1, <1>3, <1>5, <2>2, <3>1 DEF Inv, Phases
      <3>2. CASE j = k
        BY <1>1, <1>3, <1>5, <1>8, <1>10, <2>2, <2>7, <3>2
      <3>3. CASE j # i /\ j # k
        BY <1>1, <1>5, <2>2, <2>7, <3>3 DEF Inv, Phases
      <3> QED BY <3>1, <3>2, <3>3
    <2> QED BY <1>6, <1>7, <2>2, <2>11, <2>12, <2>13, <2>14, <2>15 DEF Inv
  <1> QED BY <1>9, <1>10

-----------------------------------------------------------------------------
(* The theorems. *)

\* Each step preserves the invariant.
LEMMA NextInv == Inv /\ [Next]_vars => Inv'
  <1> SUFFICES ASSUME Inv, [Next]_vars PROVE Inv'
    OBVIOUS
  <1>1. ASSUME NEW i \in Threads, Step(i) PROVE Inv'
    <2>1. CASE TestLeft(i)
      BY <2>1, TestInv DEF TestLeft
    <2>2. CASE TestRight(i)
      BY <2>2, TestInv DEF TestRight
    <2>3. CASE Dispatch(i) /\ UNCHANGED <<phase, count, next_count, iter>>
      BY <2>3, DispatchInv
    <2> QED
      BY <1>1, <2>1, <2>2, <2>3, EnterInv, HungryInv, CondWaitInv, CondWaitedInv, PutInv,
         CondSignalledInv, LeaveInv, AwakeInv DEF Step
  <1>2. CASE UNCHANGED vars
    BY <1>2 DEF vars, Inv, Types, Waiting, Running, Monitor, Phases, NeighboursExclude,
         NoneMissed, Blocked, Active, Signallers, MayEat, On, Fits
  <1> QED BY <1>1, <1>2 DEF Next, Done

\* The inductive invariant holds in every reachable state.
THEOREM Invariance == Spec => []Inv
  BY InitInv, NextInv, PTL DEF Spec

\* The types; no semaphore counts beyond 1, so no up() is ever lost or doubled, and
\* next_count never exceeds the number of threads.
THEOREM TypeCorrect == Spec => []TypeOK
  <1>1. Inv => TypeOK
    <2> SUFFICES ASSUME Inv PROVE TypeOK
      OBVIOUS
    <2>1. IsFiniteSet(Threads) /\ Cardinality(Threads) = N
      BY FS_Interval, PhilAssumption DEF Threads
    <2>2. Signallers \in SUBSET Threads
      BY DEF Signallers
    <2>3. next_count \in 0..N
      BY <2>1, <2>2, FS_Subset, FS_CardinalityType, PhilAssumption DEF Inv, Monitor
    <2> QED BY <2>3 DEF Inv, Types, TypeOK
  <1> QED BY <1>1, Invariance, PTL

\* A thread that waits on a semaphore neither runs nor is runnable: the assert in __up.
THEOREM QueuedThreadsSleep == Spec => []QueuedAsleep
  <1>1. Inv => QueuedAsleep
    BY BlockedOn DEF Inv, Waiting, QueuedAsleep
  <1> QED BY <1>1, Invariance, PTL

\* No two neighbours eat at the same time, at a table of any size.
THEOREM Exclusion == Spec => []NeighboursExclude
  BY Invariance, PTL DEF Inv

\* At most one thread is active in the monitor, and the mutex is free exactly when none is.
THEOREM MonitorIsExclusive == Spec => []MonitorExclusive
  <1>1. Inv => MonitorExclusive
    <2> SUFFICES ASSUME Inv PROVE MonitorExclusive
      OBVIOUS
    <2>1. value[Mutex] \in 0..1
      BY Semaphores DEF Inv, Types
    <2>2. Cardinality(Active) = 1 - value[Mutex]
      <3>1. CASE value[Mutex] = 1
        <4>1. Active = {}
          BY <3>1 DEF Inv, Monitor
        <4> QED BY <3>1, <4>1, FS_EmptySet
      <3>2. CASE value[Mutex] = 0
        <4>1. PICK i \in Threads : Active = {i}
          BY <3>2 DEF Inv, Monitor
        <4> QED BY <3>2, <4>1, FS_Singleton
      <3> QED BY <2>1, <3>1, <3>2
    <2>3. Active = {} => next_count = 0
      BY <2>1, FS_EmptySet DEF Inv, Monitor
    <2> QED BY <2>2, <2>3 DEF MonitorExclusive, Active
  <1> QED BY <1>1, Invariance, PTL

\* The thread that cond_signal woke finds the condition it waited for true.
THEOREM SignalKept == Spec => []SignalledMayEat
  <1>1. Inv => SignalledMayEat
    BY DEF Inv, Phases, SignalledMayEat
  <1> QED BY <1>1, Invariance, PTL

\* No signal is missed: when nobody is active in the monitor, no philosopher that
\* waits on its condition could eat.
THEOREM NoSignalMissed == Spec => [](Active = {} => \A k \in Threads : ~MayEat(k, phase))
  <1>1. Inv => (Active = {} => \A k \in Threads : ~MayEat(k, phase))
    <2> SUFFICES ASSUME Inv, Active = {}, NEW k \in Threads, MayEat(k, phase) PROVE FALSE
      OBVIOUS
    <2>1. PICK j \in Threads : pc[j] \in {"left", "left_signalled", "right"}
      BY DEF Inv, NoneMissed
    <2>2. j \in Blocked
      BY <2>1 DEF Active, InMonitor
    <2>3. j \in Signallers
      BY <2>1, <2>2, WaitsOn DEF Signallers, Signalled
    <2>4. value[Mutex] \in 0..1
      BY Semaphores DEF Inv, Types
    <2> QED BY <2>3, <2>4 DEF Inv, Monitor
  <1> QED BY <1>1, Invariance, PTL
=============================================================================
