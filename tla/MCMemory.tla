------------------------------ MODULE MCMemory ------------------------------
(* Programs for Memory: what an ELF file may ask for, in pages. *)
EXTENDS Memory

Segment(a, b, w) == [start |-> a, end |-> b, write |-> w, short |-> FALSE]
Cut(a, b, w)     == [start |-> a, end |-> b, write |-> w, short |-> TRUE]

\* Code, a hole, and data next to the stack in both page tables; the same of which the
\* data is cut short; ranges that collide with the stack and with a later range, and
\* one that is not user memory.
MCPrograms ==
  { <<Segment(0, 1, FALSE), Segment(2, 4, TRUE)>>,
    <<Segment(0, 1, FALSE), Cut(2, 4, TRUE)>>,
    <<Segment(3, 5, TRUE)>>,
    <<Segment(0, 1, TRUE), Segment(3, 7, TRUE)>>,
    <<Segment(1, 2, TRUE), Segment(0, 2, FALSE)>> }
=============================================================================
