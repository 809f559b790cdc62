----------------------------- MODULE Lifecycle -----------------------------
(***************************************************************************)
(* What the process component promises to its users, with no word of how:  *)
(* a process is created by a living parent, dies once and for good, hands  *)
(* its children to init when it does, and stays a zombie until the process *)
(* that is then its parent, itself alive, reaps it.                        *)
(***************************************************************************)
CONSTANTS Procs, idle, init, NoProc

VARIABLES life, parent

Alive(p) == life[p] = "alive"

Create(p, c) ==
  /\ Alive(p)
  /\ life[c] = "none"
  /\ life' = [life EXCEPT ![c] = "alive"]
  /\ parent' = [parent EXCEPT ![c] = p]

Die(p) ==
  /\ Alive(p) /\ p \notin {idle, init}
  /\ life' = [life EXCEPT ![p] = "zombie"]
  /\ parent' = [q \in Procs |-> IF parent[q] = p THEN init ELSE parent[q]]

Reap(p, z) ==
  /\ Alive(p)
  /\ parent[z] = p
  /\ life[z] = "zombie"
  /\ life' = [life EXCEPT ![z] = "none"]
  /\ parent' = [parent EXCEPT ![z] = NoProc]

Init ==
  /\ life = [p \in Procs |-> IF p \in {idle, init} THEN "alive" ELSE "none"]
  /\ parent = [p \in Procs |-> IF p = init THEN idle ELSE NoProc]

Next ==
  \/ \E p \in Procs : Die(p)
  \/ \E p, q \in Procs : Create(p, q) \/ Reap(p, q)

Spec == Init /\ [][Next]_<<life, parent>>
=============================================================================
