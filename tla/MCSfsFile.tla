----------------------------- MODULE MCSfsFile -----------------------------
(* SfsFile for TLC: files and descriptors may be exchanged, blocks may not, *)
(* since the free map hands out the first one that is free.                *)
EXTENDS SfsFile, TLC

Symmetry == Permutations(Files) \cup Permutations(Fds)
=============================================================================
