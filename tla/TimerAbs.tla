----------------------------- MODULE TimerAbs ------------------------------
(***************************************************************************)
(* What do_sleep promises: a process that sleeps for n ticks is woken by   *)
(* the n-th tick from now, neither earlier nor later, unless it is killed; *)
(* it then leaves nothing behind.                                          *)
(***************************************************************************)
EXTENDS Naturals

CONSTANTS Procs, MaxSleep

VARIABLES
  phase,  \* "awake", "asleep" in do_sleep, or "woken" but not yet running again
  left    \* ticks until the timer of a process runs out, 0 if it has none

vars == <<phase, left>>

Sleep(p, n) ==
  /\ phase[p] = "awake"
  /\ phase' = [phase EXCEPT ![p] = "asleep"]
  /\ left' = [left EXCEPT ![p] = n]

Kill(p) ==
  /\ phase[p] = "asleep"
  /\ phase' = [phase EXCEPT ![p] = "woken"]
  /\ UNCHANGED left

Resume(p) ==
  /\ phase[p] = "woken"
  /\ phase' = [phase EXCEPT ![p] = "awake"]
  /\ left' = [left EXCEPT ![p] = 0]

Tick ==
  /\ left' = [p \in Procs |-> IF left[p] = 0 THEN 0 ELSE left[p] - 1]
  /\ phase' = [p \in Procs |-> IF left[p] = 1 THEN "woken" ELSE phase[p]]

Init ==
  /\ phase = [p \in Procs |-> "awake"]
  /\ left = [p \in Procs |-> 0]

Next ==
  \/ Tick
  \/ \E p \in Procs : Kill(p) \/ Resume(p) \/ \E n \in 1..MaxSleep : Sleep(p, n)

Spec == Init /\ [][Next]_vars /\ WF_vars(Tick)
=============================================================================
