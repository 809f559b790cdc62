------------------------------ MODULE HeapAbs -------------------------------
(***************************************************************************)
(* What the allocators promise: a caller who asks for some room gets room  *)
(* nobody else has, or nothing, and has it until he gives it back.         *)
(***************************************************************************)
EXTENDS Integers

CONSTANTS Memory, Sizes   \* addresses, and how much callers ask for

VARIABLE live             \* the objects <<first address, size>> callers have

Range(o) == o[1]..(o[1] + o[2] - 1)

Allocate(a, n) ==
  /\ Range(<<a, n>>) \subseteq Memory
  /\ \A o \in live : Range(o) \cap Range(<<a, n>>) = {}
  /\ live' = live \cup {<<a, n>>}

Release(o) == live' = live \ {o}

Init == live = {}
Next == \/ \E a \in Memory, n \in Sizes : Allocate(a, n)
        \/ \E o \in live : Release(o)
Spec == Init /\ [][Next]_live
=============================================================================
