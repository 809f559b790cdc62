------------------------------ MODULE FlatFile ------------------------------
(***************************************************************************)
(* What a file system promises its callers: a file is a sequence of bytes, *)
(* a descriptor a position in one.  Writing beyond the end and seeking     *)
(* beyond it fill the gap with zeros; closing a file, whoever did it last, *)
(* changes nothing in it.  Only when there is no space is a call cut short.*)
(***************************************************************************)
EXTENDS Naturals, Sequences

CONSTANTS Files, NoFile, Fds, Vals, MaxLen, MaxSize

VARIABLES
  content,  \* the bytes of each file
  full,     \* files that cannot grow to their largest size for want of space
  fds,      \* [file, pos, readable, writable] of each descriptor
  panic     \* "none" while the machine runs

vars == <<content, full, fds, panic>>

Closed == [file |-> NoFile, pos |-> 0, readable |-> FALSE, writable |-> FALSE]

\* The bytes of c with n copies of v written at pos.
Overwrite(c, pos, n, v) ==
  [i \in 1..(IF pos + n > Len(c) THEN pos + n ELSE Len(c)) |->
     IF i \in pos+1..pos+n THEN v ELSE IF i <= Len(c) THEN c[i] ELSE 0]

Open(d, f, r, w) ==
  /\ fds[d] = Closed
  /\ \E p \in 0..MaxSize :
       /\ fds' = [fds EXCEPT ![d] = [file |-> f, pos |-> p, readable |-> r, writable |-> w]]
       /\ content' \in {content, [content EXCEPT ![f] = <<>>]}
       /\ p \in {0, Len(content'[f])}

Close(d) ==
  /\ fds' = [fds EXCEPT ![d] = Closed]
  /\ UNCHANGED content

Dup(d, e) ==
  /\ fds[e] = Closed
  /\ fds' = [fds EXCEPT ![e] = fds[d]]
  /\ UNCHANGED content

Least(m, n) == IF m < n THEN m ELSE n

Read(d, len) ==
  LET left == Len(content[fds[d].file]) - Least(fds[d].pos, Len(content[fds[d].file]))
      most == Least(len, left)
  IN  /\ fds[d].readable
      /\ \E n \in 0..most : /\ fds' = [fds EXCEPT ![d].pos = @ + n]
                            /\ n = most \/ fds[d].file \in full
      /\ UNCHANGED content

\* With no space for a single byte the gap may still be filled.
Write(d, len, v) ==
  LET most == Least(len, MaxSize - fds[d].pos)
  IN  /\ fds[d].writable
      /\ \E n \in 0..most :
           /\ fds' = [fds EXCEPT ![d].pos = @ + n]
           /\ n = most \/ fds[d].file \in full
           /\ \/ content' = [content EXCEPT ![fds[d].file] = Overwrite(@, fds[d].pos, n, v)]
              \/ n = 0 /\ UNCHANGED content

Seek(d, p) ==
  LET size == Len(content[fds[d].file])
  IN  /\ fds' = [fds EXCEPT ![d].pos = p]
      /\ content' = [content EXCEPT ![fds[d].file] =
                       IF p > size THEN Overwrite(@, size, p - size, 0) ELSE @]

Init ==
  /\ content = [f \in Files |-> <<>>]
  /\ full \subseteq Files
  /\ fds = [d \in Fds |-> Closed]
  /\ panic = "none"

Stop == panic' # "none" /\ UNCHANGED <<content, fds>>

Operation ==
  \E d \in Fds :
    \/ \E f \in Files, r, w \in BOOLEAN : Open(d, f, r, w)
    \/ /\ fds[d] # Closed
       /\ \/ Close(d)
          \/ \E e \in Fds : Dup(d, e)
          \/ \E len \in 1..MaxLen : Read(d, len)
          \/ \E len \in 1..MaxLen, v \in Vals : Write(d, len, v)
          \/ \E p \in 0..MaxSize-1 : Seek(d, p)

Next == panic = "none" /\ (Stop \/ (UNCHANGED panic /\ Operation))

Spec == Init /\ [][Next]_vars
=============================================================================
