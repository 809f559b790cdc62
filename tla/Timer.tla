------------------------------- MODULE Timer -------------------------------
(***************************************************************************)
(* timer_list of sched.c: the armed timers in the order they run out, each *)
(* with the ticks it has left after the one before it.  do_sleep adds its  *)
(* timer and deletes it when it runs again, after the timer ran out or     *)
(* after do_kill woke the process early; run_timer_list counts the ticks.  *)
(* All of it runs with interrupts disabled, so each call is one step.      *)
(***************************************************************************)
EXTENDS Integers, SequencesExt

CONSTANTS
  Procs,     \* the processes that sleep
  MaxSleep   \* the longest sleep (a bound)

ASSUME TimerAssumption == MaxSleep \in Nat \ {0}

VARIABLES
  timer_list,  \* of [proc, expires], expires relative to the timer before
  phase        \* "awake", "asleep" in do_sleep, or "woken" but not yet running again

vars == <<timer_list, phase>>

Entry(p, n) == [proc |-> p, expires |-> n]

\* What is left of timer->expires when the loop of add_timer comes to place i.
Rest(n, tl) ==
  LET rest[i \in 1..(Len(tl) + 1)] == IF i = 1 THEN n ELSE rest[i - 1] - tl[i - 1].expires
  IN  rest

\* Where the loop stops: before the first timer that runs out later, or at the end.
StopsAt(n, tl, i) ==
  /\ i \in 1..(Len(tl) + 1)
  /\ i <= Len(tl) => Rest(n, tl)[i] < tl[i].expires
  /\ \A j \in 1..(i - 1) : tl[j].expires <= Rest(n, tl)[j]

\* Mutant: the timer that follows is not made relative to the new one.
InsertOnly(p, n, tl) ==
  LET i == CHOOSE i \in 1..(Len(tl) + 1) : StopsAt(n, tl, i)
  IN  InsertAt(tl, i, Entry(p, Rest(n, tl)[i]))

\* add_timer: the timer that follows becomes relative to the new one.
AddTimer(p, n, tl) ==
  LET i    == CHOOSE i \in 1..(Len(tl) + 1) : StopsAt(n, tl, i)
      left == Rest(n, tl)[i]
  IN  InsertAt(IF i > Len(tl) THEN tl ELSE [tl EXCEPT ![i].expires = @ - left],
               i, Entry(p, left))

Armed(p, tl)   == \E i \in DOMAIN tl : tl[i].proc = p
PlaceOf(p, tl) == CHOOSE i \in DOMAIN tl : tl[i].proc = p

\* Mutant: do_sleep trusts that its timer has run out.
DelNothing(p, tl) == tl

\* del_timer: the ticks of the timer that goes are added to the one behind it.
\* Nothing to do for a timer that ran out: it was unlinked then.
DelTimer(p, tl) ==
  LET i == PlaceOf(p, tl)
  IN  IF ~Armed(p, tl) THEN tl
      ELSE RemoveAt(IF i = Len(tl) THEN tl
                    ELSE [tl EXCEPT ![i + 1].expires = @ + tl[i].expires], i)

\* Mutant: run_timer_list looks at one timer a tick.
ExpiredOne(tl) == {i \in DOMAIN tl : i = 1 /\ tl[1].expires = 0}

\* The loop of run_timer_list: the timers at the head that have no tick left.
Expired(tl) == {i \in DOMAIN tl : \A j \in 1..i : tl[j].expires = 0}

Sleep(p, n) ==
  /\ phase[p] = "awake"
  /\ phase' = [phase EXCEPT ![p] = "asleep"]
  /\ timer_list' = AddTimer(p, n, timer_list)

\* do_kill wakes the sleeper; its timer stays until it runs.
Kill(p) ==
  /\ phase[p] = "asleep"
  /\ phase' = [phase EXCEPT ![p] = "woken"]
  /\ UNCHANGED timer_list

Resume(p) ==
  /\ phase[p] = "woken"
  /\ phase' = [phase EXCEPT ![p] = "awake"]
  /\ timer_list' = DelTimer(p, timer_list)

\* run_timer_list.  It asserts that the first timer has a tick left.
Tick ==
  /\ timer_list # <<>>
  /\ timer_list[1].expires # 0
  /\ LET tl   == [timer_list EXCEPT ![1].expires = @ - 1]
         done == Expired(tl)
     IN  /\ timer_list' = SubSeq(tl, Cardinality(done) + 1, Len(tl))
         /\ phase' = [p \in Procs |-> IF \E i \in done : tl[i].proc = p
                                        THEN "woken" ELSE phase[p]]

Init ==
  /\ timer_list = <<>>
  /\ phase = [p \in Procs |-> "awake"]

Next ==
  \/ Tick
  \/ \E p \in Procs : Kill(p) \/ Resume(p) \/ \E n \in 1..MaxSleep : Sleep(p, n)

\* The timer interrupt keeps coming.
Spec == Init /\ [][Next]_vars /\ WF_vars(Tick)

-----------------------------------------------------------------------------
(* Properties. *)

\* The types, and one timer at most for each process.
TypeOK ==
  /\ timer_list \in Seq([proc : Procs, expires : 0..MaxSleep])
  /\ phase \in [Procs -> {"awake", "asleep", "woken"}]
  /\ \A i, j \in DOMAIN timer_list : timer_list[i].proc = timer_list[j].proc => i = j

\* assert(timer->expires != 0) at the head of run_timer_list: deleting and adding
\* among timers that run out together never leaves one behind with no tick left.
HeadHasTicks == timer_list # <<>> => timer_list[1].expires # 0

\* Ticks until the timer at place i runs out: its own and those of the ones before it.
Due(tl) ==
  LET due[i \in 0..Len(tl)] == IF i = 0 THEN 0 ELSE due[i - 1] + tl[i].expires
  IN  due

Left(p) == IF Armed(p, timer_list) THEN Due(timer_list)[PlaceOf(p, timer_list)] ELSE 0

Abs == INSTANCE TimerAbs WITH left <- [p \in Procs |-> Left(p)]

\* The differences kept in the list always add up: whatever timers come and go
\* around it, a sleeper is woken by exactly the tick it asked for.
ImplementsTimerAbs == Abs!Spec

\* add_timer, run_timer_list: whatever is added in front of it, killed and deleted for
\* ever, the timer of a sleeper comes to the head and runs out.  This needs the timer
\* interrupt, and no turn of any process.
TimerRunsOut == \A p \in Procs : phase[p] = "asleep" ~> phase[p] = "woken"
=============================================================================
