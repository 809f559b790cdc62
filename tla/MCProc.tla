------------------------------- MODULE MCProc -------------------------------
(* Small instances of module Proc for TLC. *)
EXTENDS Proc, TLC

\* Users are interchangeable: no action or invariant tells one from another.
Symmetry == Permutations(Users)
=============================================================================
