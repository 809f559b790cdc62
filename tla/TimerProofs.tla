---------------------------- MODULE TimerProofs -----------------------------
(***************************************************************************)
(* What timer_list guarantees for every set of processes and every length  *)
(* of sleep: its types, that the first timer has a tick left when          *)
(* run_timer_list asserts it, and that each step keeps the promise of      *)
(* TimerAbs.                                                               *)
(*                                                                         *)
(* The list holds differences, and the promise is about their sums.  So    *)
(* the proofs speak of the sums: Due(tl)[i] is the number of ticks until   *)
(* the timer at place i runs out.  AddInserts, DelRemoves and TickTicks    *)
(* say what the operations do to owners and sums, whatever the differences *)
(* are: one is put in, one taken out, all lowered by one and the first few *)
(* dropped.  From there on nothing refers to a difference any more.  The   *)
(* invariant is that all sums are positive and owners distinct: two timers *)
(* with the same sum are two entries of which the second has difference 0, *)
(* and the first one's is never 0 since its sum is not.                    *)
(***************************************************************************)
EXTENDS Timer, FiniteSetTheorems, TLAPS

\* Every set of numbers that is not empty has a smallest one.
LEMMA Least ==
  ASSUME NEW T, T \subseteq Nat, T # {}
  PROVE  \E x \in T : \A y \in T : x <= y
  <1>1. PICK x \in T : \A y \in T : ~(<<y, x>> \in OpToRel(<, Nat))
    BY NatLessThanWellFounded, WFMin
  <1>2. \A y \in T : ~(y < x)
    BY <1>1 DEF OpToRel
  <1> QED BY <1>2

-----------------------------------------------------------------------------
(* The two helpers on sequences, element by element. *)

\* InsertAt shifts the rest of a sequence up by one.
LEMMA InsertAtIs ==
  ASSUME NEW S, NEW s \in Seq(S), NEW e \in S, NEW i \in 1..(Len(s) + 1)
  PROVE  /\ InsertAt(s, i, e) \in Seq(S)
         /\ Len(InsertAt(s, i, e)) = Len(s) + 1
         /\ \A k \in 1..(Len(s) + 1) :
              InsertAt(s, i, e)[k] = IF k < i THEN s[k] ELSE IF k = i THEN e ELSE s[k - 1]
  <1>n. i \in Nat /\ Len(s) \in Nat
    OBVIOUS
  <1> DEFINE a == SubSeq(s, 1, i - 1)
             b == SubSeq(s, i, Len(s))
  <1>1. a \in Seq(S) /\ Len(a) = i - 1 /\ \A k \in 1..(i - 1) : a[k] = s[k]
    OBVIOUS
  <1>2. b \in Seq(S) /\ Len(b) = Len(s) + 1 - i /\ \A k \in 1..(Len(s) + 1 - i) : b[k] = s[k + i - 1]
    OBVIOUS
  <1> HIDE DEF a, b
  <1>3. InsertAt(s, i, e) = a \o <<e>> \o b
    BY DEF InsertAt, a, b
  <1> DEFINE c == a \o <<e>>
  <1>4. c \in Seq(S) /\ Len(c) = i /\ \A k \in 1..i : c[k] = IF k < i THEN s[k] ELSE e
    <2>1. c \in Seq(S) /\ Len(c) = i
      BY <1>1
    <2>2. \A k \in 1..i : c[k] = IF k < i THEN a[k] ELSE e
      BY <1>n, <1>1
    <2> QED BY <1>1, <2>1, <2>2
  <1>5. InsertAt(s, i, e) = c \o b
    BY <1>3
  <1> HIDE DEF c
  <1>6. c \o b \in Seq(S) /\ Len(c \o b) = Len(s) + 1
    <2>1. c \in Seq(S) /\ b \in Seq(S)
      BY <1>2, <1>4
    <2>2. c \o b \in Seq(S) /\ Len(c \o b) = Len(c) + Len(b)
      BY ONLY <2>1
    <2>3. Len(c) = i /\ Len(b) = Len(s) + 1 - i
      BY <1>2, <1>4
    <2> QED BY <1>n, <2>2, <2>3
  <1>7. ASSUME NEW k \in 1..(Len(s) + 1)
        PROVE  (c \o b)[k] = IF k < i THEN s[k] ELSE IF k = i THEN e ELSE s[k - 1]
    <2>1. CASE k <= i
      <3>1. k \in 1..Len(c) /\ (c \o b)[k] = c[k]
        BY <1>2, <1>4, <2>1
      <3> QED BY <1>4, <2>1, <3>1
    <2>2. CASE k > i
      <3>1. k - i \in 1..Len(b) /\ (c \o b)[k] = b[k - i]
        BY <1>2, <1>4, <2>2
      <3> QED BY <1>2, <2>2, <3>1
    <2>3. k <= i \/ k > i
      BY <1>n
    <2> QED BY ONLY <2>1, <2>2, <2>3
  <1> QED BY <1>5, <1>6, <1>7

\* RemoveAt closes the gap.
LEMMA RemoveAtIs ==
  ASSUME NEW S, NEW s \in Seq(S), NEW i \in 1..Len(s)
  PROVE  /\ RemoveAt(s, i) \in Seq(S)
         /\ Len(RemoveAt(s, i)) = Len(s) - 1
         /\ \A k \in 1..(Len(s) - 1) : RemoveAt(s, i)[k] = IF k < i THEN s[k] ELSE s[k + 1]
  <1>n. i \in Nat /\ Len(s) \in Nat
    OBVIOUS
  <1> DEFINE a == SubSeq(s, 1, i - 1)
             b == SubSeq(s, i + 1, Len(s))
  <1>1. a \in Seq(S) /\ Len(a) = i - 1 /\ \A k \in 1..(i - 1) : a[k] = s[k]
    OBVIOUS
  <1>2. b \in Seq(S) /\ Len(b) = Len(s) - i /\ \A k \in 1..(Len(s) - i) : b[k] = s[k + i]
    OBVIOUS
  <1> HIDE DEF a, b
  <1>3. RemoveAt(s, i) = a \o b
    BY DEF RemoveAt, a, b
  <1>4. a \o b \in Seq(S) /\ Len(a \o b) = Len(s) - 1
    <2>1. a \o b \in Seq(S) /\ Len(a \o b) = Len(a) + Len(b)
      <3>1. a \in Seq(S) /\ b \in Seq(S)
        BY <1>1, <1>2
      <3> QED BY ONLY <3>1
    <2> QED BY <1>n, <1>1, <1>2, <2>1
  <1>5. ASSUME NEW k \in 1..(Len(s) - 1)
        PROVE  (a \o b)[k] = IF k < i THEN s[k] ELSE s[k + 1]
    <2>1. CASE k < i
      <3>1. k \in 1..Len(a) /\ (a \o b)[k] = a[k]
        BY <1>1, <1>2, <2>1
      <3> QED BY <1>1, <2>1, <3>1
    <2>2. CASE k >= i
      <3>1. k - (i - 1) \in 1..Len(b) /\ (a \o b)[k] = b[k - (i - 1)]
        BY <1>1, <1>2, <2>2
      <3> QED BY <1>2, <2>2, <3>1
    <2>3. k < i \/ k >= i
      BY <1>n
    <2> QED BY ONLY <2>1, <2>2, <2>3
  <1> QED BY <1>3, <1>4, <1>5

-----------------------------------------------------------------------------
(* The ticks until each timer runs out, as sums over the list. *)

Timers == [proc : Procs, expires : Nat]

\* d holds the sums of the ticks of tl.
Sums(tl, d) ==
  /\ DOMAIN d = 0..Len(tl)
  /\ d[0] = 0
  /\ \A i \in 1..Len(tl) : d[i] = d[i - 1] + tl[i].expires

SumsTo(tl, m, d) == d = [i \in 0..m |-> IF i = 0 THEN 0 ELSE d[i - 1] + tl[i].expires]

\* Every list has sums.
LEMMA SumsExist ==
  ASSUME NEW tl \in Seq(Timers)
  PROVE  \E d : SumsTo(tl, Len(tl), d)
  <1> DEFINE Bad == {m \in Nat : ~(\E d : SumsTo(tl, m, d))}
  <1>1. SUFFICES ASSUME Bad # {} PROVE FALSE
    <2>1. Len(tl) \in Nat
      OBVIOUS
    <2> QED BY <2>1
  <1>2. PICK m \in Bad : \A k \in Bad : m <= k
    <2>1. Bad \subseteq Nat /\ Bad # {}
      BY <1>1
    <2> QED BY ONLY <2>1, Least
  <1>3. m \in Nat /\ ~(\E d : SumsTo(tl, m, d))
    BY <1>2
  <1>4. CASE m = 0
    <2>1. SumsTo(tl, 0, [i \in 0..0 |-> 0])
      BY DEF SumsTo
    <2> QED BY <1>3, <1>4, <2>1
  <1>5. CASE m # 0
    <2>1. m - 1 \in Nat /\ m - 1 \notin Bad
      BY <1>2, <1>3, <1>5
    <2>2. PICK c : SumsTo(tl, m - 1, c)
      BY <2>1
    <2> DEFINE x == c[m - 1] + tl[m].expires
               d == [i \in 0..m |-> IF i = m THEN x ELSE c[i]]
    <2>3. \A i \in 0..(m - 1) : c[i] = IF i = 0 THEN 0 ELSE c[i - 1] + tl[i].expires
      BY <2>2 DEF SumsTo
    <2>4. \A i \in 0..m : d[i] = IF i = 0 THEN 0 ELSE d[i - 1] + tl[i].expires
      <3> SUFFICES ASSUME NEW i \in 0..m
                   PROVE  d[i] = IF i = 0 THEN 0 ELSE d[i - 1] + tl[i].expires
        OBVIOUS
      <3>1. i # 0 => i - 1 \in 0..m /\ d[i - 1] = c[i - 1]
        BY <1>3
      <3>2. CASE i = m
        BY <3>1, <3>2, <1>5
      <3>3. CASE i # m
        <4>1. i \in 0..(m - 1) /\ d[i] = c[i]
          BY <1>3, <3>3
        <4> QED BY <3>1, <4>1, <2>3
      <3> QED BY <3>2, <3>3
    <2>5. SumsTo(tl, m, d)
      <3>1. d = [i \in 0..m |-> d[i]]
        OBVIOUS
      <3> HIDE DEF d
      <3> QED BY <3>1, <2>4 DEF SumsTo
    <2> QED BY <1>3, <2>5
  <1> QED BY <1>4, <1>5

\* Due computes them.
LEMMA DueSums ==
  ASSUME NEW tl \in Seq(Timers)
  PROVE  Sums(tl, Due(tl)) /\ SumsTo(tl, Len(tl), Due(tl))
  <1>1. \E d : SumsTo(tl, Len(tl), d)
    BY SumsExist
  <1>2. SumsTo(tl, Len(tl), CHOOSE d : SumsTo(tl, Len(tl), d))
    BY ONLY <1>1
  <1>3. Due(tl) = CHOOSE d : SumsTo(tl, Len(tl), d)
    BY DEF Due, SumsTo
  <1>4. SumsTo(tl, Len(tl), Due(tl))
    BY <1>2, <1>3
  <1>5. Sums(tl, Due(tl))
    BY <1>4 DEF SumsTo, Sums
  <1> QED BY <1>4, <1>5

\* There is only one way to add up a list.
LEMMA SumsUnique ==
  ASSUME NEW tl \in Seq(Timers), NEW d, Sums(tl, d), NEW e, Sums(tl, e)
  PROVE  \A i \in 0..Len(tl) : d[i] = e[i]
  <1> DEFINE Bad == {i \in 0..Len(tl) : d[i] # e[i]}
  <1>1. SUFFICES ASSUME Bad # {} PROVE FALSE
    OBVIOUS
  <1>2. PICK m \in Bad : \A k \in Bad : m <= k
    <2>1. Bad \subseteq Nat /\ Bad # {}
      BY <1>1
    <2> QED BY ONLY <2>1, Least
  <1>3. m # 0
    BY <1>2 DEF Sums
  <1>4. m \in 1..Len(tl) /\ m - 1 \in 0..Len(tl) /\ m - 1 \notin Bad
    BY <1>2, <1>3
  <1> QED BY <1>2, <1>4 DEF Sums

\* The sums are numbers and do not fall.
LEMMA SumsGrow ==
  ASSUME NEW tl \in Seq(Timers), NEW d, Sums(tl, d)
  PROVE  /\ \A i \in 0..Len(tl) : d[i] \in Nat
         /\ \A i, j \in 0..Len(tl) : i <= j => d[i] <= d[j]
  <1>0. \A i \in 1..Len(tl) : tl[i].expires \in Nat
    <2> SUFFICES ASSUME NEW i \in 1..Len(tl) PROVE tl[i].expires \in Nat
      OBVIOUS
    <2>1. tl[i] \in Timers
      OBVIOUS
    <2> QED BY <2>1 DEF Timers
  <1>1. ASSUME NEW i \in 0..Len(tl) PROVE d[i] \in Nat
    <2> DEFINE Bad == {j \in 0..Len(tl) : d[j] \notin Nat}
    <2>1. SUFFICES ASSUME Bad # {} PROVE FALSE
      OBVIOUS
    <2>2. PICK m \in Bad : \A k \in Bad : m <= k
      <3>1. Bad \subseteq Nat /\ Bad # {}
        BY <2>1
      <3> QED BY ONLY <3>1, Least
    <2>3. m # 0
      BY <2>2 DEF Sums
    <2>4. m \in 1..Len(tl) /\ m - 1 \in 0..Len(tl) /\ m - 1 \notin Bad
      BY <2>2, <2>3
    <2>5. d[m] = d[m - 1] + tl[m].expires
      BY <2>4 DEF Sums
    <2>6. d[m - 1] \in Nat /\ tl[m].expires \in Nat
      BY <1>0, <2>4
    <2> QED BY <2>2, <2>5, <2>6
  <1>2. ASSUME NEW i \in 0..Len(tl), NEW j \in 0..Len(tl), i <= j PROVE d[i] <= d[j]
    <2> DEFINE Bad == {k \in 0..Len(tl) : i <= k /\ ~(d[i] <= d[k])}
    <2>1. SUFFICES ASSUME Bad # {} PROVE FALSE
      BY <1>2
    <2>2. PICK m \in Bad : \A k \in Bad : m <= k
      <3>1. Bad \subseteq Nat /\ Bad # {}
        BY <2>1
      <3> QED BY ONLY <3>1, Least
    <2>3. m # i /\ d[i] \in Nat /\ d[m] \in Nat
      BY <1>1, <2>2
    <2>4. m \in 1..Len(tl) /\ m - 1 \in 0..Len(tl) /\ i <= m - 1 /\ m - 1 \notin Bad
      BY <2>2, <2>3
    <2>5. d[i] <= d[m - 1] /\ d[m - 1] \in Nat /\ d[m] = d[m - 1] + tl[m].expires
      BY <1>1, <2>4 DEF Sums
    <2> QED BY <1>0, <2>2, <2>3, <2>4, <2>5
  <1> QED BY <1>1, <1>2

-----------------------------------------------------------------------------
(* What each operation does to the list, told by who is in it and when he is due. *)

\* t is tl with a timer of p, due in n ticks, before place i.
Inserted(tl, i, p, n, t) ==
  /\ t \in Seq(Timers) /\ i \in 1..(Len(tl) + 1) /\ Len(t) = Len(tl) + 1
  /\ \A k \in 1..(Len(tl) + 1) :
       /\ t[k].proc = IF k < i THEN tl[k].proc ELSE IF k = i THEN p ELSE tl[k - 1].proc
       /\ Due(t)[k] = IF k < i THEN Due(tl)[k] ELSE IF k = i THEN n ELSE Due(tl)[k - 1]

\* t is tl without the timer at place i.
Removed(tl, i, t) ==
  /\ t \in Seq(Timers) /\ Len(t) = Len(tl) - 1
  /\ \A k \in 1..(Len(tl) - 1) :
       /\ t[k].proc = IF k < i THEN tl[k].proc ELSE tl[k + 1].proc
       /\ Due(t)[k] = IF k < i THEN Due(tl)[k] ELSE Due(tl)[k + 1]

\* t is tl one tick later: the first m timers were due and are gone.
Ticked(tl, m, t) ==
  /\ t \in Seq(Timers) /\ m \in 0..Len(tl) /\ Len(t) = Len(tl) - m
  /\ \A k \in 1..m : Due(tl)[k] = 1
  /\ \A k \in 1..(Len(tl) - m) :
       /\ t[k].proc = tl[k + m].proc
       /\ Due(tl)[k + m] # 1 /\ Due(t)[k] = Due(tl)[k + m] - 1

RestTo(n, tl, r) ==
  r = [i \in 1..(Len(tl) + 1) |-> IF i = 1 THEN n ELSE r[i - 1] - tl[i - 1].expires]

\* When add_timer comes to place i it has taken off what the timers before it have.
LEMMA RestIs ==
  ASSUME NEW tl \in Seq(Timers), NEW n \in Nat
  PROVE  \A i \in 1..(Len(tl) + 1) : Rest(n, tl)[i] = n - Due(tl)[i - 1]
  <1>n. Len(tl) \in Nat
    OBVIOUS
  <1>1. Sums(tl, Due(tl)) /\ \A i \in 0..Len(tl) : Due(tl)[i] \in Nat
    BY DueSums, SumsGrow
  <1>e. \A i \in 1..Len(tl) : tl[i].expires \in Nat
    <2> SUFFICES ASSUME NEW i \in 1..Len(tl) PROVE tl[i].expires \in Nat
      OBVIOUS
    <2>1. tl[i] \in Timers
      OBVIOUS
    <2> QED BY <2>1 DEF Timers
  <1> DEFINE r == [i \in 1..(Len(tl) + 1) |-> n - Due(tl)[i - 1]]
  <1>2. \A i \in 1..(Len(tl) + 1) : r[i] = IF i = 1 THEN n ELSE r[i - 1] - tl[i - 1].expires
    <2> SUFFICES ASSUME NEW i \in 1..(Len(tl) + 1)
                 PROVE  r[i] = IF i = 1 THEN n ELSE r[i - 1] - tl[i - 1].expires
      OBVIOUS
    <2>1. CASE i = 1
      BY <1>1, <1>n, <2>1 DEF Sums
    <2>2. CASE i # 1
      <3>1. i - 1 \in 1..Len(tl) /\ i - 1 \in 1..(Len(tl) + 1) /\ (i - 1) - 1 \in 0..Len(tl)
        BY <1>n, <2>2
      <3>2. Due(tl)[i - 1] = Due(tl)[(i - 1) - 1] + tl[i - 1].expires
        BY <1>1, <3>1 DEF Sums
      <3>3. r[i] = n - Due(tl)[i - 1] /\ r[i - 1] = n - Due(tl)[(i - 1) - 1]
        BY <3>1
      <3>4. tl[i - 1].expires \in Nat /\ Due(tl)[(i - 1) - 1] \in Nat
        BY <1>1, <1>e, <3>1
      <3> QED BY <2>2, <3>2, <3>3, <3>4
    <2> QED BY <2>1, <2>2
  <1>3. RestTo(n, tl, r)
    <2>1. r = [i \in 1..(Len(tl) + 1) |-> r[i]]
      OBVIOUS
    <2> HIDE DEF r
    <2> QED BY <1>2, <2>1 DEF RestTo
  <1>4. RestTo(n, tl, CHOOSE x : RestTo(n, tl, x))
    <2>1. \E x : RestTo(n, tl, x)
      BY <1>3
    <2> QED BY ONLY <2>1
  <1>5. RestTo(n, tl, Rest(n, tl))
    BY <1>4 DEF RestTo, Rest
  <1> DEFINE R == Rest(n, tl)
  <1> HIDE DEF r, R
  <1>6. \A i \in 1..(Len(tl) + 1) : R[i] = IF i = 1 THEN n ELSE R[i - 1] - tl[i - 1].expires
    BY <1>5 DEF RestTo, R
  <1>7. \A i \in 1..(Len(tl) + 1) : r[i] = n - Due(tl)[i - 1]
    BY DEF r
  <1>8. \A i \in 1..(Len(tl) + 1) : R[i] = r[i]
    <2> DEFINE Bad == {i \in 1..(Len(tl) + 1) : R[i] # r[i]}
    <2>1. SUFFICES ASSUME Bad # {} PROVE FALSE
      OBVIOUS
    <2>2. PICK m \in Bad : \A k \in Bad : m <= k
      <3>1. Bad \subseteq Nat /\ Bad # {}
        BY <2>1
      <3> QED BY ONLY <3>1, Least
    <2>3. m \in 1..(Len(tl) + 1) /\ R[m] # r[m] /\ m # 1
      BY <1>2, <1>6, <2>2
    <2>4. m - 1 \in 1..(Len(tl) + 1) /\ m - 1 \notin Bad
      BY <1>n, <2>2, <2>3
    <2> QED BY <1>2, <1>6, <2>3, <2>4
  <1> QED BY <1>7, <1>8 DEF R

\* A list as long as its sums has no others.
LEMMA DueIs ==
  ASSUME NEW tl \in Seq(Timers), NEW d, Sums(tl, d)
  PROVE  \A i \in 0..Len(tl) : Due(tl)[i] = d[i]
  <1>1. Sums(tl, Due(tl))
    BY DueSums
  <1> QED BY <1>1, SumsUnique

\* What is known of one timer of a list.
LEMMA TimerAt ==
  ASSUME NEW tl \in Seq(Timers), NEW i \in 1..Len(tl)
  PROVE  /\ tl[i] \in Timers /\ tl[i].proc \in Procs /\ tl[i].expires \in Nat
         /\ Due(tl)[i] \in Nat /\ Due(tl)[i - 1] \in Nat
         /\ Due(tl)[i] = Due(tl)[i - 1] + tl[i].expires
  <1>1. tl[i] \in Timers
    OBVIOUS
  <1>2. i \in 0..Len(tl) /\ i - 1 \in 0..Len(tl)
    OBVIOUS
  <1>3. Sums(tl, Due(tl)) /\ \A j \in 0..Len(tl) : Due(tl)[j] \in Nat
    BY DueSums, SumsGrow
  <1> QED BY <1>1, <1>2, <1>3 DEF Timers, Sums

\* add_timer inserts the timer where it is due.
LEMMA AddInserts ==
  ASSUME NEW tl \in Seq(Timers), NEW p \in Procs, NEW n \in Nat
  PROVE  \E i \in 1..(Len(tl) + 1) : Inserted(tl, i, p, n, AddTimer(p, n, tl))
  <1>n. Len(tl) \in Nat
    OBVIOUS
  <1>0. Due(tl)[0] = 0
    BY DueSums DEF Sums
  <1>r. \A i \in 1..(Len(tl) + 1) : Rest(n, tl)[i] = n - Due(tl)[i - 1]
    BY RestIs
  <1>1. \E i \in 1..(Len(tl) + 1) : StopsAt(n, tl, i)
    <2> DEFINE T == {i \in 1..(Len(tl) + 1) : i <= Len(tl) => Rest(n, tl)[i] < tl[i].expires}
    <2>1. PICK i \in T : \A j \in T : i <= j
      <3>1. T \subseteq Nat /\ Len(tl) + 1 \in T
        BY <1>n
      <3>2. T # {}
        BY <3>1
      <3> QED BY ONLY <3>1, <3>2, Least
    <2>2. ASSUME NEW j \in 1..(i - 1) PROVE tl[j].expires <= Rest(n, tl)[j]
      <3>1. j \in 1..Len(tl) /\ j \in 1..(Len(tl) + 1) /\ j \notin T
        BY <1>n, <2>1
      <3>2. tl[j].expires \in Nat /\ Due(tl)[j - 1] \in Nat
        BY <3>1, TimerAt
      <3> QED BY <1>r, <3>1, <3>2
    <2> QED BY <2>1, <2>2 DEF StopsAt
  <1> DEFINE i == CHOOSE j \in 1..(Len(tl) + 1) : StopsAt(n, tl, j)
             left == Rest(n, tl)[i]
             mid == IF i > Len(tl) THEN tl ELSE [tl EXCEPT ![i].expires = @ - left]
             t == AddTimer(p, n, tl)
  <1>2. i \in 1..(Len(tl) + 1) /\ StopsAt(n, tl, i)
    BY <1>1
  <1>3. t = InsertAt(mid, i, Entry(p, left))
    BY DEF AddTimer
  <1>m. mid = IF i > Len(tl) THEN tl ELSE [tl EXCEPT ![i].expires = @ - left]
    OBVIOUS
  <1>l. left = n - Due(tl)[i - 1]
    BY <1>2, <1>r
  <1> HIDE DEF i, left, mid, t
  <1>s. i \in Nat /\ i - 1 \in 0..Len(tl)
    BY <1>n, <1>2
  <1>4. left \in Nat
    <2>1. CASE i = 1
      BY <1>0, <1>l, <2>1
    <2>2. CASE i # 1
      <3>1. i - 1 \in 1..Len(tl) /\ i - 1 \in 1..(i - 1) /\ i - 1 \in 1..(Len(tl) + 1)
        BY <1>n, <1>2, <2>2
      <3>2. tl[i - 1].expires <= n - Due(tl)[(i - 1) - 1]
        BY <1>2, <1>r, <3>1 DEF StopsAt
      <3>3. /\ tl[i - 1].expires \in Nat /\ Due(tl)[i - 1] \in Nat /\ Due(tl)[(i - 1) - 1] \in Nat
            /\ Due(tl)[i - 1] = Due(tl)[(i - 1) - 1] + tl[i - 1].expires
        BY <3>1, TimerAt
      <3> QED BY <1>l, <3>2, <3>3
    <2> QED BY <2>1, <2>2
  <1>5. i <= Len(tl) => /\ i \in 1..Len(tl) /\ left < tl[i].expires /\ tl[i].expires \in Nat
                        /\ tl[i].proc \in Procs
    <2> SUFFICES ASSUME i <= Len(tl)
                 PROVE  /\ i \in 1..Len(tl) /\ left < tl[i].expires /\ tl[i].expires \in Nat
                        /\ tl[i].proc \in Procs
      OBVIOUS
    <2>1. i \in 1..Len(tl)
      BY <1>n, <1>2
    <2>2. left < tl[i].expires
      BY <1>2, <2>1 DEF StopsAt, left
    <2> QED BY <2>1, <2>2, TimerAt
  <1>6. /\ mid \in Seq(Timers) /\ Len(mid) = Len(tl)
        /\ \A k \in 1..Len(tl) :
             /\ mid[k].proc = tl[k].proc
             /\ mid[k].expires = IF k = i THEN tl[k].expires - left ELSE tl[k].expires
    <2>1. CASE i > Len(tl)
      <3>1. mid = tl
        BY <1>m, <2>1
      <3> QED BY <1>n, <1>s, <2>1, <3>1
    <2>2. CASE ~(i > Len(tl))
      <3>1. mid = [tl EXCEPT ![i] = [tl[i] EXCEPT !.expires = tl[i].expires - left]]
        BY <1>m, <2>2
      <3> DEFINE e == [tl[i] EXCEPT !.expires = tl[i].expires - left]
      <3>2. i \in 1..Len(tl) /\ tl[i] \in Timers /\ tl[i].expires - left \in Nat
        BY <1>4, <1>5, <1>n, <1>s, <2>2, TimerAt
      <3>3. e \in Timers /\ e.proc = tl[i].proc /\ e.expires = tl[i].expires - left
        BY <3>2 DEF Timers
      <3> HIDE DEF e
      <3>4. mid = [tl EXCEPT ![i] = e]
        BY <3>1 DEF e
      <3> QED BY <3>2, <3>3, <3>4
    <2> QED BY <2>1, <2>2
  <1>7. Entry(p, left) \in Timers /\ Entry(p, left).proc = p /\ Entry(p, left).expires = left
    BY <1>4 DEF Entry, Timers
  <1>8. /\ t \in Seq(Timers)
        /\ Len(t) = Len(tl) + 1
        /\ \A k \in 1..(Len(tl) + 1) :
              t[k] = IF k < i THEN mid[k] ELSE IF k = i THEN Entry(p, left) ELSE mid[k - 1]
    <2> DEFINE e == Entry(p, left)
    <2>1. mid \in Seq(Timers) /\ i \in 1..(Len(mid) + 1) /\ e \in Timers
      BY <1>2, <1>6, <1>7
    <2> HIDE DEF e
    <2>2. /\ InsertAt(mid, i, e) \in Seq(Timers)
          /\ Len(InsertAt(mid, i, e)) = Len(mid) + 1
          /\ \A k \in 1..(Len(mid) + 1) :
                InsertAt(mid, i, e)[k] = IF k < i THEN mid[k] ELSE IF k = i THEN e ELSE mid[k - 1]
      BY ONLY <2>1, InsertAtIs
    <2> QED BY <1>3, <1>6, <2>2 DEF e
  <1> DEFINE d == [k \in 0..(Len(tl) + 1) |-> IF k < i THEN Due(tl)[k]
                                             ELSE IF k = i THEN n ELSE Due(tl)[k - 1]]
  <1>9. \A k \in 0..(Len(tl) + 1) :
          d[k] = IF k < i THEN Due(tl)[k] ELSE IF k = i THEN n ELSE Due(tl)[k - 1]
    OBVIOUS
  <1>10. DOMAIN d = 0..Len(t)
    BY <1>8
  <1> HIDE DEF d
  <1>11. ASSUME NEW k \in 1..(Len(tl) + 1) PROVE d[k] = d[k - 1] + t[k].expires
    <2>0. k \in Nat /\ k \in 0..(Len(tl) + 1) /\ k - 1 \in 0..(Len(tl) + 1)
      BY <1>n
    <2>1. CASE k < i
      <3>1. k \in 1..Len(tl) /\ k # i /\ k - 1 < i
        BY <1>n, <1>2, <1>s, <2>1
      <3>2. t[k].expires = tl[k].expires
        BY <1>6, <1>8, <2>1, <3>1
      <3>3. d[k] = Due(tl)[k] /\ d[k - 1] = Due(tl)[k - 1]
        BY <1>9, <2>0, <2>1, <3>1
      <3> QED BY <3>1, <3>2, <3>3, TimerAt
    <2>2. CASE k = i
      <3>1. t[k].expires = left /\ k - 1 < i
        BY <1>7, <1>8, <1>s, <2>2
      <3>2. d[k] = n /\ d[k - 1] = Due(tl)[i - 1]
        BY <1>9, <2>0, <2>2, <3>1, <1>s
      <3>3. Due(tl)[i - 1] \in Nat
        BY <1>s, DueSums, SumsGrow
      <3> QED BY <1>l, <3>1, <3>2, <3>3
    <2>3. CASE k = i + 1
      <3>1. i \in 1..Len(tl) /\ k - 1 = i /\ ~(k < i) /\ k # i
        BY <1>n, <1>2, <1>s, <2>3
      <3>2. t[k].expires = tl[i].expires - left
        BY <1>6, <1>8, <3>1
      <3>3. d[k] = Due(tl)[i] /\ d[k - 1] = n
        BY <1>9, <2>0, <1>s, <3>1
      <3>4. /\ tl[i].expires \in Nat /\ Due(tl)[i - 1] \in Nat /\ Due(tl)[i] \in Nat
            /\ Due(tl)[i] = Due(tl)[i - 1] + tl[i].expires
        BY <3>1, TimerAt
      <3> QED BY <1>l, <3>2, <3>3, <3>4
    <2>4. CASE k > i + 1
      <3>1. k - 1 \in 1..Len(tl) /\ ~(k < i) /\ k # i /\ k - 1 # i /\ ~(k - 1 < i)
        BY <1>n, <1>s, <2>4
      <3>2. t[k].expires = tl[k - 1].expires
        BY <1>6, <1>8, <3>1
      <3>3. d[k] = Due(tl)[k - 1] /\ d[k - 1] = Due(tl)[(k - 1) - 1]
        BY <1>9, <2>0, <3>1
      <3>4. Due(tl)[k - 1] = Due(tl)[(k - 1) - 1] + tl[k - 1].expires
        BY <3>1, TimerAt
      <3> QED BY <3>2, <3>3, <3>4
    <2>5. k < i \/ k = i \/ k = i + 1 \/ k > i + 1
      BY <2>0, <1>s
    <2> QED BY ONLY <2>1, <2>2, <2>3, <2>4, <2>5
  <1>12. Sums(t, d)
    <2>1. d[0] = 0
      <3>1. 0 \in 0..(Len(tl) + 1) /\ 0 < i
        BY <1>n, <1>2
      <3> QED BY <1>0, <1>9, <3>1
    <2> QED BY <1>8, <1>10, <1>11, <2>1 DEF Sums
  <1>13. \A k \in 0..Len(t) : Due(t)[k] = d[k]
    BY <1>8, <1>12, DueIs
  <1>14. ASSUME NEW k \in 1..(Len(tl) + 1)
         PROVE  /\ t[k].proc = IF k < i THEN tl[k].proc ELSE IF k = i THEN p ELSE tl[k - 1].proc
                /\ Due(t)[k] = IF k < i THEN Due(tl)[k] ELSE IF k = i THEN n ELSE Due(tl)[k - 1]
    <2>1. k \in 0..(Len(tl) + 1) /\ k \in 0..Len(t) /\ k \in Nat
      BY <1>n, <1>8
    <2>2. (k < i => k \in 1..Len(tl)) /\ (~(k < i) /\ k # i => k - 1 \in 1..Len(tl))
      BY <1>n, <1>s, <1>2, <2>1
    <2> QED BY <1>6, <1>7, <1>8, <1>9, <1>13, <2>1, <2>2
  <1>15. Inserted(tl, i, p, n, t)
    BY <1>2, <1>8, <1>14 DEF Inserted
  <1> QED BY <1>2, <1>15 DEF t
\* There are m numbers from 1 to m.
LEMMA FirstCount ==
  ASSUME NEW m \in Nat
  PROVE  Cardinality(1..m) = m
  <1>1. \A a, b \in Int : Cardinality(a..b) = IF a > b THEN 0 ELSE b - a + 1
    BY FS_Interval
  <1>2. Cardinality(1..m) = IF 1 > m THEN 0 ELSE m - 1 + 1
    BY <1>1
  <1> QED BY <1>2
\* del_timer takes the timer out, and nobody else is due sooner or later for it.
LEMMA DelRemoves ==
  ASSUME NEW tl \in Seq(Timers), NEW p \in Procs, Armed(p, tl)
  PROVE  \E i \in 1..Len(tl) : tl[i].proc = p /\ Removed(tl, i, DelTimer(p, tl))
  <1>n. Len(tl) \in Nat
    OBVIOUS
  <1> DEFINE i == PlaceOf(p, tl)
             mid == IF i = Len(tl) THEN tl
                    ELSE [tl EXCEPT ![i + 1].expires = @ + tl[i].expires]
             t == DelTimer(p, tl)
  <1>2. i \in 1..Len(tl) /\ tl[i].proc = p
    BY DEF Armed, PlaceOf
  <1>3. t = RemoveAt(mid, i)
    BY DEF DelTimer
  <1>m. mid = IF i = Len(tl) THEN tl ELSE [tl EXCEPT ![i + 1].expires = @ + tl[i].expires]
    OBVIOUS
  <1> HIDE DEF i, mid, t
  <1>s. i \in Nat /\ i - 1 \in 0..Len(tl)
    BY <1>n, <1>2
  <1>6. /\ mid \in Seq(Timers) /\ Len(mid) = Len(tl)
        /\ \A k \in 1..Len(tl) :
             /\ mid[k].proc = tl[k].proc
             /\ mid[k].expires = IF k = i + 1 THEN tl[k].expires + tl[i].expires ELSE tl[k].expires
    <2>1. CASE i = Len(tl)
      <3>1. mid = tl
        BY <1>m, <2>1
      <3> QED BY <1>n, <1>s, <2>1, <3>1
    <2>2. CASE i # Len(tl)
      <3> DEFINE e == [tl[i + 1] EXCEPT !.expires = tl[i + 1].expires + tl[i].expires]
      <3>1. mid = [tl EXCEPT ![i + 1] = e]
        BY <1>m, <2>2
      <3>2. i + 1 \in 1..Len(tl)
        BY <1>2, <1>n, <2>2
      <3>3. tl[i + 1] \in Timers /\ tl[i + 1].expires + tl[i].expires \in Nat
        BY <1>2, <3>2, TimerAt
      <3>4. e \in Timers /\ e.proc = tl[i + 1].proc /\ e.expires = tl[i + 1].expires + tl[i].expires
        BY <3>3 DEF Timers
      <3> HIDE DEF e
      <3> QED BY <3>1, <3>2, <3>4
    <2> QED BY <2>1, <2>2
  <1>8. /\ t \in Seq(Timers)
        /\ Len(t) = Len(tl) - 1
        /\ \A k \in 1..(Len(tl) - 1) : t[k] = IF k < i THEN mid[k] ELSE mid[k + 1]
    <2>1. mid \in Seq(Timers) /\ i \in 1..Len(mid)
      BY <1>2, <1>6
    <2>2. /\ RemoveAt(mid, i) \in Seq(Timers)
          /\ Len(RemoveAt(mid, i)) = Len(mid) - 1
          /\ \A k \in 1..(Len(mid) - 1) :
                RemoveAt(mid, i)[k] = IF k < i THEN mid[k] ELSE mid[k + 1]
      BY ONLY <2>1, RemoveAtIs
    <2> QED BY <1>3, <1>6, <2>2
  <1> DEFINE d == [k \in 0..(Len(tl) - 1) |-> IF k < i THEN Due(tl)[k] ELSE Due(tl)[k + 1]]
  <1>9. \A k \in 0..(Len(tl) - 1) : d[k] = IF k < i THEN Due(tl)[k] ELSE Due(tl)[k + 1]
    OBVIOUS
  <1>10. DOMAIN d = 0..Len(t)
    BY <1>8
  <1> HIDE DEF d
  <1>11. ASSUME NEW k \in 1..(Len(tl) - 1) PROVE d[k] = d[k - 1] + t[k].expires
    <2>0. /\ k \in Nat /\ k \in 0..(Len(tl) - 1) /\ k - 1 \in 0..(Len(tl) - 1)
          /\ k \in 1..Len(tl) /\ k + 1 \in 1..Len(tl)
      BY <1>n
    <2>1. CASE k < i
      <3>1. k # i + 1 /\ k - 1 < i
        BY <2>0, <1>s, <2>1
      <3>2. t[k].expires = tl[k].expires
        BY <1>6, <1>8, <2>0, <2>1, <3>1
      <3>3. d[k] = Due(tl)[k] /\ d[k - 1] = Due(tl)[k - 1]
        BY <1>9, <2>0, <2>1, <3>1
      <3> QED BY <2>0, <3>2, <3>3, TimerAt
    <2>2. CASE k = i
      <3>1. ~(k < i) /\ k - 1 < i
        BY <2>0, <1>s, <2>2
      <3>2. t[k].expires = tl[i + 1].expires + tl[i].expires
        BY <1>6, <1>8, <2>0, <2>2, <3>1
      <3>3. d[k] = Due(tl)[i + 1] /\ d[k - 1] = Due(tl)[i - 1]
        BY <1>9, <2>0, <2>2, <3>1
      <3>4. /\ tl[i].expires \in Nat /\ Due(tl)[i - 1] \in Nat
            /\ Due(tl)[i] = Due(tl)[i - 1] + tl[i].expires
        BY <1>2, TimerAt
      <3>5. /\ tl[i + 1].expires \in Nat
            /\ Due(tl)[i + 1] = Due(tl)[(i + 1) - 1] + tl[i + 1].expires
        BY <2>0, <2>2, TimerAt
      <3>6. (i + 1) - 1 = i
        BY <1>s
      <3> QED BY <3>2, <3>3, <3>4, <3>5, <3>6
    <2>3. CASE k > i
      <3>1. ~(k < i) /\ ~(k - 1 < i) /\ k + 1 # i + 1 /\ (k - 1) + 1 = k /\ (k + 1) - 1 = k
        BY <2>0, <1>s, <2>3
      <3>2. t[k].expires = tl[k + 1].expires
        BY <1>6, <1>8, <2>0, <3>1
      <3>3. d[k] = Due(tl)[k + 1] /\ d[k - 1] = Due(tl)[k]
        BY <1>9, <2>0, <3>1
      <3>4. Due(tl)[k + 1] = Due(tl)[(k + 1) - 1] + tl[k + 1].expires
        BY <2>0, TimerAt
      <3> QED BY <3>1, <3>2, <3>3, <3>4
    <2>4. k < i \/ k = i \/ k > i
      BY <2>0, <1>s
    <2> QED BY ONLY <2>1, <2>2, <2>3, <2>4
  <1>12. Sums(t, d)
    <2>1. d[0] = 0
      <3>1. 0 \in 0..(Len(tl) - 1) /\ 0 < i
        BY <1>n, <1>2
      <3> QED BY <1>9, <3>1, DueSums DEF Sums
    <2> QED BY <1>8, <1>10, <1>11, <2>1 DEF Sums
  <1>13. \A k \in 0..Len(t) : Due(t)[k] = d[k]
    BY <1>8, <1>12, DueIs
  <1>14. ASSUME NEW k \in 1..(Len(tl) - 1)
         PROVE  /\ t[k].proc = IF k < i THEN tl[k].proc ELSE tl[k + 1].proc
                /\ Due(t)[k] = IF k < i THEN Due(tl)[k] ELSE Due(tl)[k + 1]
    <2>1. k \in 0..(Len(tl) - 1) /\ k \in 0..Len(t) /\ k \in 1..Len(tl) /\ k + 1 \in 1..Len(tl)
      BY <1>n, <1>8
    <2> QED BY <1>6, <1>8, <1>9, <1>13, <2>1
  <1>15. Removed(tl, i, t)
    BY <1>8, <1>14 DEF Removed
  <1> QED BY <1>2, <1>15 DEF t

\* The list that run_timer_list leaves behind.
AfterTick(tl) ==
  LET less == [tl EXCEPT ![1].expires = @ - 1]
  IN  SubSeq(less, Cardinality(Expired(less)) + 1, Len(less))

\* run_timer_list takes one tick off everybody and removes those who are due.
LEMMA TickTicks ==
  ASSUME NEW tl \in Seq(Timers), tl # <<>>, tl[1].expires # 0
  PROVE  \E m \in 0..Len(tl) :
           /\ Ticked(tl, m, AfterTick(tl))
           /\ Expired([tl EXCEPT ![1].expires = @ - 1]) = 1..m
           /\ \A k \in 1..Len(tl) : [tl EXCEPT ![1].expires = @ - 1][k].proc = tl[k].proc
  <1>n. Len(tl) \in Nat /\ Len(tl) # 0 /\ 1 \in 1..Len(tl)
    OBVIOUS
  <1> DEFINE less == [tl EXCEPT ![1].expires = @ - 1]
             e == [tl[1] EXCEPT !.expires = tl[1].expires - 1]
             t == AfterTick(tl)
  <1>1. tl[1] \in Timers /\ tl[1].expires \in Nat
    BY <1>n, TimerAt
  <1>2. e \in Timers /\ e.proc = tl[1].proc /\ e.expires = tl[1].expires - 1
    BY <1>1 DEF Timers
  <1>3. less = [tl EXCEPT ![1] = e]
    OBVIOUS
  <1>t. t = SubSeq(less, Cardinality(Expired(less)) + 1, Len(less))
    BY DEF AfterTick
  <1> HIDE DEF less, e, t
  <1>4. /\ less \in Seq(Timers) /\ Len(less) = Len(tl)
        /\ \A k \in 1..Len(tl) :
             /\ less[k].proc = tl[k].proc
             /\ less[k].expires = IF k = 1 THEN tl[k].expires - 1 ELSE tl[k].expires
    BY <1>n, <1>2, <1>3
  <1> DEFINE d == [k \in 0..Len(tl) |-> IF k = 0 THEN 0 ELSE Due(tl)[k] - 1]
  <1>5. \A k \in 0..Len(tl) : d[k] = IF k = 0 THEN 0 ELSE Due(tl)[k] - 1
    OBVIOUS
  <1>6. DOMAIN d = 0..Len(less)
    BY <1>4
  <1> HIDE DEF d
  <1>7. ASSUME NEW k \in 1..Len(tl) PROVE d[k] = d[k - 1] + less[k].expires
    <2>1. k \in 0..Len(tl) /\ k - 1 \in 0..Len(tl)
      BY <1>n
    <2>2. /\ tl[k].expires \in Nat /\ Due(tl)[k] \in Nat /\ Due(tl)[k - 1] \in Nat
          /\ Due(tl)[k] = Due(tl)[k - 1] + tl[k].expires
      BY TimerAt
    <2>3. CASE k = 1
      <3>1. Due(tl)[k - 1] = 0
        BY <2>3, DueSums DEF Sums
      <3> QED BY <1>4, <1>5, <2>1, <2>2, <2>3, <3>1
    <2>4. CASE k # 1
      <3>1. k # 0 /\ k - 1 # 0
        BY <2>4
      <3>2. d[k] = Due(tl)[k] - 1 /\ d[k - 1] = Due(tl)[k - 1] - 1
        BY <1>5, <2>1, <3>1
      <3>3. less[k].expires = tl[k].expires
        BY <1>4, <2>4
      <3> QED BY <2>2, <3>2, <3>3
    <2> QED BY <2>3, <2>4
  <1>8. Sums(less, d)
    <2>1. d[0] = 0
      BY <1>5, <1>n
    <2> QED BY <1>4, <1>6, <1>7, <2>1 DEF Sums
  <1>9. /\ \A k \in 0..Len(tl) : Due(less)[k] = d[k] /\ d[k] \in Nat
        /\ \A j, k \in 0..Len(tl) : j <= k => d[j] <= d[k]
    <2>1. /\ \A k \in 0..Len(less) : Due(less)[k] = d[k]
          /\ \A k \in 0..Len(less) : d[k] \in Nat
          /\ \A j, k \in 0..Len(less) : j <= k => d[j] <= d[k]
      BY <1>4, <1>8, DueIs, SumsGrow
    <2> QED BY <1>4, <2>1
  <1>10. \A k \in 1..Len(tl) : k \in Expired(less) <=> d[k] = 0
    <2> SUFFICES ASSUME NEW k \in 1..Len(tl) PROVE k \in Expired(less) <=> d[k] = 0
      OBVIOUS
    <2>1. k \in DOMAIN less
      BY <1>4
    <2>2. \A j \in 1..k : j \in 1..Len(tl) /\ j \in 0..Len(tl) /\ j - 1 \in 0..Len(tl) /\ j <= k
                          /\ k \in 0..Len(tl)
      BY <1>n
    <2>3. ASSUME d[k] = 0, NEW j \in 1..k PROVE less[j].expires = 0
      <3>1. d[j] <= d[k] /\ d[j] \in Nat /\ d[j - 1] \in Nat
        BY <1>9, <2>2
      <3>2. less[j].expires \in Nat
        BY <1>4, <2>2, TimerAt
      <3>3. d[j] = d[j - 1] + less[j].expires
        BY <1>7, <2>2
      <3> QED BY <2>3, <3>1, <3>2, <3>3
    <2>4. ASSUME \A j \in 1..k : less[j].expires = 0 PROVE d[k] = 0
      <3> DEFINE Bad == {j \in 0..k : d[j] # 0}
      <3>1. SUFFICES ASSUME Bad # {} PROVE FALSE
        <4>1. k \in 0..k
          BY <1>n
        <4> QED BY <4>1
      <3>2. PICK j \in Bad : \A x \in Bad : j <= x
        <4>1. Bad \subseteq Nat /\ Bad # {}
          BY <1>n, <3>1
        <4> QED BY ONLY <4>1, Least
      <3>3. j # 0
        BY <1>8, <3>2 DEF Sums
      <3>4. j \in 1..k /\ j - 1 \in 0..k /\ j - 1 \notin Bad /\ d[j] # 0
        BY <1>n, <3>2, <3>3
      <3>5. d[j] = d[j - 1] + less[j].expires /\ less[j].expires = 0 /\ d[j - 1] = 0
        BY <1>7, <2>2, <2>4, <3>4
      <3> QED BY <3>4, <3>5
    <2> QED BY <2>1, <2>3, <2>4 DEF Expired
  <1>11. PICK m \in 0..Len(tl) : /\ \A k \in 1..m : d[k] = 0
                                 /\ \A k \in 1..Len(tl) : k > m => d[k] # 0
    <2> DEFINE T == {k \in 0..Len(tl) : \A x \in 1..Len(tl) : x > k => d[x] # 0}
    <2>1. PICK m \in T : \A x \in T : m <= x
      <3>1. T \subseteq Nat /\ Len(tl) \in T
        BY <1>n
      <3>2. T # {}
        BY <3>1
      <3> QED BY ONLY <3>1, <3>2, Least
    <2>2. ASSUME NEW k \in 1..m PROVE d[k] = 0
      <3>0. m \in 1..Len(tl) /\ m - 1 \in 0..Len(tl) /\ ~(m <= m - 1)
        BY <1>n, <2>1
      <3>1. m - 1 \notin T
        BY <2>1, <3>0
      <3>2. PICK x \in 1..Len(tl) : x > m - 1 /\ d[x] = 0
        BY <3>0, <3>1
      <3>3. x = m
        BY <2>1, <3>0, <3>2
      <3>4. d[m] = 0 /\ d[k] <= d[m] /\ d[k] \in Nat
        BY <1>9, <1>n, <3>0, <3>2, <3>3
      <3> QED BY <3>4
    <2> QED BY <2>1, <2>2
  <1>12. Expired(less) = 1..m
    <2>1. \A k \in Expired(less) : k \in 1..Len(tl)
      BY <1>4 DEF Expired
    <2>2. \A k \in 1..m : k \in 1..Len(tl) /\ ~(k > m)
      BY <1>n
    <2>3. \A k \in 1..Len(tl) : k \in 1..m \/ k > m
      BY <1>n
    <2> QED BY <1>10, <1>11, <2>1, <2>2, <2>3
  <1>13. Cardinality(Expired(less)) = m
    <2>1. Cardinality(1..m) = m
      BY <1>n, FirstCount
    <2> QED BY <1>12, <2>1
  <1>14. t = SubSeq(less, m + 1, Len(tl))
    BY <1>4, <1>13, <1>t
  <1>15. /\ t \in Seq(Timers) /\ Len(t) = Len(tl) - m
         /\ \A k \in 1..(Len(tl) - m) : t[k] = less[k + m]
    BY <1>4, <1>14, <1>n
  <1> DEFINE f == [k \in 0..(Len(tl) - m) |-> d[k + m]]
  <1>16. \A k \in 0..(Len(tl) - m) : f[k] = d[k + m]
    OBVIOUS
  <1>17. DOMAIN f = 0..Len(t)
    BY <1>15
  <1> HIDE DEF f
  <1>18. Sums(t, f)
    <2>1. f[0] = 0
      <3>1. 0 \in 0..(Len(tl) - m) /\ f[0] = d[m]
        BY <1>16, <1>n
      <3>2. m = 0 \/ m \in 1..m
        BY <1>n
      <3> QED BY <1>8, <1>11, <3>1, <3>2 DEF Sums
    <2>2. ASSUME NEW k \in 1..(Len(tl) - m) PROVE f[k] = f[k - 1] + t[k].expires
      <3>1. /\ k \in 0..(Len(tl) - m) /\ k - 1 \in 0..(Len(tl) - m)
            /\ k + m \in 1..Len(tl) /\ (k + m) - 1 = (k - 1) + m
        BY <1>n
      <3>2. d[k + m] = d[(k + m) - 1] + less[k + m].expires
        BY <1>7, <3>1
      <3> QED BY <1>15, <1>16, <3>1, <3>2
    <2> QED BY <1>15, <1>17, <2>1, <2>2 DEF Sums
  <1>19. \A k \in 0..Len(t) : Due(t)[k] = f[k]
    BY <1>15, <1>18, DueIs
  <1>20. ASSUME NEW k \in 1..m PROVE Due(tl)[k] = 1
    <2>1. k \in 0..Len(tl) /\ k \in 1..Len(tl) /\ k # 0
      BY <1>n
    <2>2. d[k] = 0 /\ d[k] = Due(tl)[k] - 1
      BY <1>5, <1>11, <2>1
    <2>3. Due(tl)[k] \in Nat
      BY <2>1, TimerAt
    <2> QED BY <2>2, <2>3
  <1>21. ASSUME NEW k \in 1..(Len(tl) - m)
         PROVE  /\ t[k].proc = tl[k + m].proc
                /\ Due(tl)[k + m] # 1 /\ Due(t)[k] = Due(tl)[k + m] - 1
    <2>1. /\ k \in 0..(Len(tl) - m) /\ k \in 0..Len(t) /\ k + m \in 1..Len(tl)
          /\ k + m \in 0..Len(tl) /\ k + m # 0 /\ k + m > m
      BY <1>n, <1>15
    <2>2. Due(tl)[k + m] \in Nat /\ d[k + m] = Due(tl)[k + m] - 1 /\ d[k + m] # 0
      BY <1>5, <1>11, <2>1, TimerAt
    <2> QED BY <1>4, <1>15, <1>16, <1>19, <2>1, <2>2
  <1>22. Ticked(tl, m, t)
    BY <1>15, <1>20, <1>21 DEF Ticked
  <1> QED BY <1>4, <1>12, <1>22 DEF t, less
-----------------------------------------------------------------------------
(* What the operations do to the ticks that a process has left. *)

Distinct(tl) == \A i, j \in 1..Len(tl) : tl[i].proc = tl[j].proc => i = j

\* Every timer of the list is still to run out, and none later than it can.
Ahead(tl) == \A i \in 1..Len(tl) : Due(tl)[i] \in 1..MaxSleep

LeftIn(q, tl) == IF Armed(q, tl) THEN Due(tl)[PlaceOf(q, tl)] ELSE 0

\* The only timer of a process is the one that counts for it.
LEMMA LeftAt ==
  ASSUME NEW tl \in Seq(Timers), Distinct(tl), NEW q
  PROVE  /\ \A i \in 1..Len(tl) : tl[i].proc = q => LeftIn(q, tl) = Due(tl)[i]
         /\ (\A i \in 1..Len(tl) : tl[i].proc # q) => LeftIn(q, tl) = 0
  <1>1. ASSUME NEW i \in 1..Len(tl), tl[i].proc = q PROVE LeftIn(q, tl) = Due(tl)[i]
    <2>1. Armed(q, tl)
      BY <1>1 DEF Armed
    <2>2. PlaceOf(q, tl) \in 1..Len(tl) /\ tl[PlaceOf(q, tl)].proc = q
      BY <1>1 DEF PlaceOf
    <2>3. PlaceOf(q, tl) = i
      BY <1>1, <2>2 DEF Distinct
    <2> QED BY <2>1, <2>3 DEF LeftIn
  <1> QED BY <1>1 DEF LeftIn, Armed

\* t has the timers of tl and one of p, who is due in n ticks.
Gains(tl, p, n, t) ==
  /\ Distinct(t) /\ Ahead(t)
  /\ \A k \in 1..Len(t) : t[k].proc = p \/ \E j \in 1..Len(tl) : t[k].proc = tl[j].proc
  /\ \A q : LeftIn(q, t) = IF q = p THEN n ELSE LeftIn(q, tl)

\* add_timer gives its process n ticks and leaves all others what they have.
LEMMA InsertedLeft ==
  ASSUME NEW tl \in Seq(Timers), Distinct(tl), Ahead(tl), NEW i, NEW p, NEW n \in 1..MaxSleep, NEW t,
         Inserted(tl, i, p, n, t), ~Armed(p, tl)
  PROVE  Gains(tl, p, n, t)
  <1>n. /\ Len(tl) \in Nat /\ t \in Seq(Timers) /\ i \in 1..(Len(tl) + 1) /\ i \in Nat
        /\ Len(t) = Len(tl) + 1
    BY DEF Inserted
  <1> DEFINE from(k) == IF k < i THEN k ELSE k - 1
             to(j) == IF j < i THEN j ELSE j + 1
  <1>1. \A k \in 1..Len(t) : k = i \/ (k # i /\ from(k) \in 1..Len(tl))
    BY <1>n
  <1>2. \A j, k \in 1..Len(t) : j # i /\ k # i /\ from(j) = from(k) => j = k
    BY <1>n
  <1>3. \A k \in 1..Len(t) : k # i => t[k].proc = tl[from(k)].proc /\ Due(t)[k] = Due(tl)[from(k)]
    BY <1>n DEF Inserted
  <1>0. \A k \in 1..Len(tl) : tl[k].proc # p
    BY DEF Armed
  <1>4. t[i].proc = p /\ Due(t)[i] = n /\ i \in 1..Len(t)
    BY <1>n DEF Inserted
  <1>5. \A j \in 1..Len(tl) : to(j) \in 1..Len(t) /\ to(j) # i /\ from(to(j)) = j
    BY <1>n
  <1> HIDE DEF from, to
  <1>6. Distinct(t)
    <2> SUFFICES ASSUME NEW j \in 1..Len(t), NEW k \in 1..Len(t), t[j].proc = t[k].proc PROVE j = k
      BY DEF Distinct
    <2>1. CASE j = i \/ k = i
      BY <1>0, <1>1, <1>3, <1>4, <2>1
    <2>2. CASE j # i /\ k # i
      BY <1>1, <1>2, <1>3, <2>2 DEF Distinct
    <2> QED BY <2>1, <2>2
  <1>7. Ahead(t)
    <2> SUFFICES ASSUME NEW k \in 1..Len(t) PROVE Due(t)[k] \in 1..MaxSleep
      BY DEF Ahead
    <2> QED BY <1>1, <1>3, <1>4 DEF Ahead
  <1>8. ASSUME NEW q PROVE LeftIn(q, t) = IF q = p THEN n ELSE LeftIn(q, tl)
    <2>1. CASE q = p
      BY <1>4, <1>6, <1>n, <2>1, LeftAt
    <2>2. CASE q # p /\ \E j \in 1..Len(tl) : tl[j].proc = q
      <3>1. PICK j \in 1..Len(tl) : tl[j].proc = q
        BY <2>2
      <3>2. LeftIn(q, tl) = Due(tl)[j]
        BY <3>1, LeftAt
      <3>3. to(j) \in 1..Len(t) /\ t[to(j)].proc = q /\ Due(t)[to(j)] = Due(tl)[j]
        BY <1>3, <1>5, <3>1
      <3>4. LeftIn(q, t) = Due(t)[to(j)]
        BY <1>6, <1>n, <3>3, LeftAt
      <3> QED BY <2>2, <3>2, <3>3, <3>4
    <2>3. CASE q # p /\ ~(\E j \in 1..Len(tl) : tl[j].proc = q)
      <3>1. \A k \in 1..Len(t) : t[k].proc # q
        BY <1>1, <1>3, <1>4, <2>3
      <3>2. LeftIn(q, tl) = 0 /\ LeftIn(q, t) = 0
        BY <1>6, <1>n, <2>3, <3>1, LeftAt
      <3> QED BY <2>3, <3>2
    <2> QED BY <2>1, <2>2, <2>3
  <1>9. \A k \in 1..Len(t) : t[k].proc = p \/ \E j \in 1..Len(tl) : t[k].proc = tl[j].proc
    BY <1>1, <1>3, <1>4
  <1> QED BY <1>6, <1>7, <1>8, <1>9 DEF Gains

\* del_timer takes the ticks of its process and leaves all others what they have.
LEMMA RemovedLeft ==
  ASSUME NEW tl \in Seq(Timers), Distinct(tl), Ahead(tl), NEW i \in 1..Len(tl), NEW p, NEW t,
         Removed(tl, i, t), tl[i].proc = p
  PROVE  /\ Distinct(t) /\ Ahead(t)
         /\ \A k \in 1..Len(t) : t[k].proc # p /\ \E j \in 1..Len(tl) : t[k].proc = tl[j].proc
         /\ \A q : LeftIn(q, t) = IF q = p THEN 0 ELSE LeftIn(q, tl)
  <1>n. Len(tl) \in Nat /\ t \in Seq(Timers) /\ i \in Nat /\ Len(t) = Len(tl) - 1
    BY DEF Removed
  <1> DEFINE from(k) == IF k < i THEN k ELSE k + 1
             to(j) == IF j < i THEN j ELSE j - 1
  <1>1. \A k \in 1..Len(t) : from(k) \in 1..Len(tl) /\ from(k) # i
    BY <1>n
  <1>2. \A j, k \in 1..Len(t) : from(j) = from(k) => j = k
    BY <1>n
  <1>3. \A k \in 1..Len(t) : t[k].proc = tl[from(k)].proc /\ Due(t)[k] = Due(tl)[from(k)]
    BY <1>n DEF Removed
  <1>5. \A j \in 1..Len(tl) : j # i => to(j) \in 1..Len(t) /\ from(to(j)) = j
    BY <1>n
  <1> HIDE DEF from, to
  <1>4. \A k \in 1..Len(t) : t[k].proc # p
    BY <1>1, <1>3 DEF Distinct
  <1>6. Distinct(t)
    <2> SUFFICES ASSUME NEW j \in 1..Len(t), NEW k \in 1..Len(t), t[j].proc = t[k].proc PROVE j = k
      BY DEF Distinct
    <2> QED BY <1>1, <1>2, <1>3 DEF Distinct
  <1>7. Ahead(t)
    <2> SUFFICES ASSUME NEW k \in 1..Len(t) PROVE Due(t)[k] \in 1..MaxSleep
      BY DEF Ahead
    <2> QED BY <1>1, <1>3 DEF Ahead
  <1>8. ASSUME NEW q PROVE LeftIn(q, t) = IF q = p THEN 0 ELSE LeftIn(q, tl)
    <2>1. CASE q = p
      BY <1>4, <1>6, <1>n, <2>1, LeftAt
    <2>2. CASE q # p /\ \E j \in 1..Len(tl) : tl[j].proc = q
      <3>1. PICK j \in 1..Len(tl) : tl[j].proc = q
        BY <2>2
      <3>2. LeftIn(q, tl) = Due(tl)[j]
        BY <3>1, LeftAt
      <3>3. to(j) \in 1..Len(t) /\ t[to(j)].proc = q /\ Due(t)[to(j)] = Due(tl)[j]
        BY <1>3, <1>5, <2>2, <3>1
      <3>4. LeftIn(q, t) = Due(t)[to(j)]
        BY <1>6, <1>n, <3>3, LeftAt
      <3> QED BY <2>2, <3>2, <3>3, <3>4
    <2>3. CASE q # p /\ ~(\E j \in 1..Len(tl) : tl[j].proc = q)
      <3>1. \A k \in 1..Len(t) : t[k].proc # q
        BY <1>1, <1>3, <2>3
      <3>2. LeftIn(q, tl) = 0 /\ LeftIn(q, t) = 0
        BY <1>6, <1>n, <2>3, <3>1, LeftAt
      <3> QED BY <2>3, <3>2
    <2> QED BY <2>1, <2>2, <2>3
  <1> QED BY <1>1, <1>3, <1>4, <1>6, <1>7, <1>8

\* run_timer_list takes a tick from everybody and removes those who had just one.
LEMMA TickedLeft ==
  ASSUME NEW tl \in Seq(Timers), Distinct(tl), Ahead(tl), NEW m, NEW t, Ticked(tl, m, t)
  PROVE  /\ Distinct(t) /\ Ahead(t)
         /\ \A k \in 1..Len(t) : \E j \in (m + 1)..Len(tl) : t[k].proc = tl[j].proc
         /\ \A q : LeftIn(q, t) = IF LeftIn(q, tl) = 0 THEN 0 ELSE LeftIn(q, tl) - 1
         /\ \A q : LeftIn(q, tl) = 1 <=> \E j \in 1..m : tl[j].proc = q
  <1>n. Len(tl) \in Nat /\ t \in Seq(Timers) /\ m \in 0..Len(tl) /\ m \in Nat /\ Len(t) = Len(tl) - m
    BY DEF Ticked
  <1>1. \A k \in 1..Len(t) : k + m \in 1..Len(tl) /\ k + m \in (m + 1)..Len(tl)
    BY <1>n
  <1>2. \A k \in 1..Len(t) : t[k].proc = tl[k + m].proc /\ Due(tl)[k + m] # 1
                             /\ Due(t)[k] = Due(tl)[k + m] - 1
    BY <1>n DEF Ticked
  <1>3. \A j \in 1..Len(tl) : \/ j \in 1..m
                              \/ j \notin 1..m /\ j - m \in 1..Len(t) /\ (j - m) + m = j
    BY <1>n
  <1>4. \A j \in 1..m : Due(tl)[j] = 1 /\ j \in 1..Len(tl)
    BY <1>n DEF Ticked
  <1>6. Distinct(t)
    <2> SUFFICES ASSUME NEW j \in 1..Len(t), NEW k \in 1..Len(t), t[j].proc = t[k].proc PROVE j = k
      BY DEF Distinct
    <2>1. j + m = k + m
      BY <1>1, <1>2 DEF Distinct
    <2> QED BY <1>n, <2>1
  <1>7. Ahead(t)
    <2> SUFFICES ASSUME NEW k \in 1..Len(t) PROVE Due(t)[k] \in 1..MaxSleep
      BY DEF Ahead
    <2>1. Due(tl)[k + m] \in 1..MaxSleep
      BY <1>1 DEF Ahead
    <2> QED BY <1>2, <2>1, TimerAssumption
  <1>8. ASSUME NEW q
        PROVE  /\ LeftIn(q, t) = IF LeftIn(q, tl) = 0 THEN 0 ELSE LeftIn(q, tl) - 1
               /\ LeftIn(q, tl) = 1 <=> \E j \in 1..m : tl[j].proc = q
    <2>1. CASE ~(\E j \in 1..Len(tl) : tl[j].proc = q)
      <3>1. \A k \in 1..Len(t) : t[k].proc # q
        BY <1>1, <1>2, <2>1
      <3>2. LeftIn(q, tl) = 0 /\ LeftIn(q, t) = 0
        BY <1>6, <1>n, <2>1, <3>1, LeftAt
      <3> QED BY <1>4, <2>1, <3>2
    <2>2. ASSUME NEW j \in 1..Len(tl), tl[j].proc = q, j \in 1..m
          PROVE  /\ LeftIn(q, t) = IF LeftIn(q, tl) = 0 THEN 0 ELSE LeftIn(q, tl) - 1
                 /\ LeftIn(q, tl) = 1 <=> \E x \in 1..m : tl[x].proc = q
      <3>1. LeftIn(q, tl) = 1
        BY <1>4, <2>2, LeftAt
      <3>2. ASSUME NEW k \in 1..Len(t), t[k].proc = q PROVE FALSE
        <4>1. k + m = j
          BY <1>1, <1>2, <2>2, <3>2 DEF Distinct
        <4> QED BY <1>2, <1>4, <2>2, <3>2, <4>1
      <3>3. LeftIn(q, t) = 0
        BY <1>6, <1>n, <3>2, LeftAt
      <3> QED BY <2>2, <3>1, <3>3
    <2>3. ASSUME NEW j \in 1..Len(tl), tl[j].proc = q, j \notin 1..m
          PROVE  /\ LeftIn(q, t) = IF LeftIn(q, tl) = 0 THEN 0 ELSE LeftIn(q, tl) - 1
                 /\ LeftIn(q, tl) = 1 <=> \E x \in 1..m : tl[x].proc = q
      <3>1. LeftIn(q, tl) = Due(tl)[j] /\ Due(tl)[j] \in 1..MaxSleep
        BY <2>3, LeftAt DEF Ahead
      <3>2. j - m \in 1..Len(t) /\ (j - m) + m = j
        BY <1>3, <2>3
      <3>3. t[j - m].proc = q /\ Due(t)[j - m] = Due(tl)[j] - 1 /\ Due(tl)[j] # 1
        BY <1>2, <2>3, <3>2
      <3>4. LeftIn(q, t) = Due(t)[j - m]
        BY <1>6, <1>n, <3>2, <3>3, LeftAt
      <3>5. ~(\E x \in 1..m : tl[x].proc = q)
        BY <1>4, <2>3 DEF Distinct
      <3>6. LeftIn(q, tl) # 0
        BY <3>1, TimerAssumption
      <3> QED BY <3>1, <3>3, <3>4, <3>5, <3>6
    <2> QED BY <2>1, <2>2, <2>3
  <1> QED BY <1>1, <1>2, <1>6, <1>7, <1>8

-----------------------------------------------------------------------------
(* The inductive invariant. *)

Phases == {"awake", "asleep", "woken"}

\* One timer at most for each process, each still to run out within MaxSleep
\* ticks, and none of a process that is awake.
Inv ==
  /\ timer_list \in Seq(Timers)
  /\ phase \in [Procs -> Phases]
  /\ Distinct(timer_list)
  /\ Ahead(timer_list)
  /\ \A i \in 1..Len(timer_list) : phase[timer_list[i].proc] # "awake"

\* The ticks of the refinement mapping are those of the lemmas above.
LEMMA LeftIs == \A p : Left(p) = LeftIn(p, timer_list)
  BY DEF Left, LeftIn

\* The empty list is right.
LEMMA InitInv == Init => Inv /\ \A q : LeftIn(q, timer_list) = 0
  <1> SUFFICES ASSUME Init PROVE Inv /\ \A q : LeftIn(q, timer_list) = 0
    OBVIOUS
  <1>1. timer_list \in Seq(Timers) /\ Len(timer_list) = 0
    BY DEF Init
  <1>2. Distinct(timer_list) /\ Ahead(timer_list)
    BY <1>1 DEF Distinct, Ahead
  <1>3. phase \in [Procs -> Phases]
    BY DEF Init, Phases
  <1>4. \A q : LeftIn(q, timer_list) = 0
    BY <1>1 DEF LeftIn, Armed
  <1> QED BY <1>1, <1>2, <1>3, <1>4 DEF Inv

\* What a step has to show: the invariant again, and the abstract step.
Sleeps(p, n) ==
  /\ phase[p] = "awake"
  /\ phase' = [phase EXCEPT ![p] = "asleep"]
  /\ \A q : LeftIn(q, timer_list)' = IF q = p THEN n ELSE LeftIn(q, timer_list)

Resumes(p) ==
  /\ phase[p] = "woken"
  /\ phase' = [phase EXCEPT ![p] = "awake"]
  /\ \A q : LeftIn(q, timer_list)' = IF q = p THEN 0 ELSE LeftIn(q, timer_list)

Ticks ==
  /\ phase' = [p \in Procs |-> IF LeftIn(p, timer_list) = 1 THEN "woken" ELSE phase[p]]
  /\ \A q : LeftIn(q, timer_list)' = IF LeftIn(q, timer_list) = 0 THEN 0
                                     ELSE LeftIn(q, timer_list) - 1

\* do_sleep of a process that is awake, and so has no timer.
LEMMA SleepStep ==
  ASSUME Inv, NEW p \in Procs, NEW n \in 1..MaxSleep, Sleep(p, n)
  PROVE  Inv' /\ Sleeps(p, n)
  <1> DEFINE tl == timer_list
             t == timer_list'
  <1>0. n \in 1..MaxSleep /\ n \in Nat /\ tl \in Seq(Timers) /\ Distinct(tl) /\ Ahead(tl)
    BY DEF Inv
  <1>1. phase[p] = "awake" /\ phase' = [phase EXCEPT ![p] = "asleep"] /\ t = AddTimer(p, n, tl)
    BY DEF Sleep
  <1>2. ~Armed(p, tl)
    BY <1>1 DEF Inv, Armed
  <1>3. PICK i : Inserted(tl, i, p, n, t)
    BY <1>0, <1>1, AddInserts
  <1> HIDE DEF tl, t
  <1>4. /\ Distinct(t) /\ Ahead(t)
        /\ \A k \in 1..Len(t) : t[k].proc = p \/ \E j \in 1..Len(tl) : t[k].proc = tl[j].proc
        /\ \A q : LeftIn(q, t) = IF q = p THEN n ELSE LeftIn(q, tl)
    <2>1. Gains(tl, p, n, t)
      BY ONLY <1>0, <1>2, <1>3, InsertedLeft
    <2> QED BY <2>1 DEF Gains
  <1>5. Sleeps(p, n)
    BY <1>1, <1>4 DEF Sleeps, tl, t
  <1>6. t \in Seq(Timers)
    BY <1>3 DEF Inserted
  <1>7. phase' \in [Procs -> Phases]
    BY <1>1 DEF Inv, Phases
  <1>8. ASSUME NEW k \in 1..Len(t) PROVE phase'[t[k].proc] # "awake"
    <2>1. t[k].proc \in Procs
      BY <1>6, TimerAt
    <2> QED BY <1>1, <1>4, <2>1 DEF Inv, tl
  <1> QED BY <1>4, <1>5, <1>6, <1>7, <1>8 DEF Inv, t

\* do_kill leaves the timer of the sleeper where it is.
LEMMA KillStep ==
  ASSUME Inv, NEW p \in Procs, Kill(p)
  PROVE  Inv' /\ \A q : LeftIn(q, timer_list)' = LeftIn(q, timer_list)
  <1>1. phase[p] = "asleep" /\ phase' = [phase EXCEPT ![p] = "woken"] /\ timer_list' = timer_list
    BY DEF Kill
  <1>2. phase' \in [Procs -> Phases]
    BY <1>1 DEF Inv, Phases
  <1>3. \A i \in 1..Len(timer_list) : phase'[timer_list[i].proc] # "awake"
    <2> SUFFICES ASSUME NEW i \in 1..Len(timer_list) PROVE phase'[timer_list[i].proc] # "awake"
      OBVIOUS
    <2>1. timer_list[i].proc \in Procs /\ phase[timer_list[i].proc] # "awake"
      BY TimerAt DEF Inv
    <2> QED BY <1>1, <2>1 DEF Inv
  <1>4. Inv'
    BY <1>1, <1>2, <1>3 DEF Inv
  <1> QED BY <1>1, <1>4

\* The end of do_sleep: the timer is deleted, if it did not run out before.
LEMMA ResumeStep ==
  ASSUME Inv, NEW p \in Procs, Resume(p)
  PROVE  Inv' /\ Resumes(p)
  <1> DEFINE tl == timer_list
             t == timer_list'
  <1>0. tl \in Seq(Timers) /\ Distinct(tl) /\ Ahead(tl)
    BY DEF Inv
  <1>1. phase[p] = "woken" /\ phase' = [phase EXCEPT ![p] = "awake"] /\ t = DelTimer(p, tl)
    BY DEF Resume
  <1> HIDE DEF tl, t
  <1>2. /\ t \in Seq(Timers) /\ Distinct(t) /\ Ahead(t)
        /\ \A k \in 1..Len(t) : t[k].proc # p /\ \E j \in 1..Len(tl) : t[k].proc = tl[j].proc
        /\ \A q : LeftIn(q, t) = IF q = p THEN 0 ELSE LeftIn(q, tl)
    <2>1. CASE Armed(p, tl)
      <3>1. PICK i \in 1..Len(tl) : tl[i].proc = p /\ Removed(tl, i, t)
        BY <1>0, <1>1, <2>1, DelRemoves
      <3>2. t \in Seq(Timers)
        BY <3>1 DEF Removed
      <3>3. i \in 1..Len(tl) /\ tl[i].proc = p /\ Removed(tl, i, t)
        BY <3>1
      <3> QED BY ONLY <1>0, <3>2, <3>3, RemovedLeft
    <2>2. CASE ~Armed(p, tl)
      <3>1. t = tl
        BY <1>1, <2>2 DEF DelTimer
      <3>2. \A k \in 1..Len(tl) : tl[k].proc # p
        BY <1>0, <2>2 DEF Armed
      <3>3. LeftIn(p, tl) = 0
        BY <2>2 DEF LeftIn
      <3> QED BY <1>0, <3>1, <3>2, <3>3
    <2> QED BY <2>1, <2>2
  <1>5. Resumes(p)
    BY <1>1, <1>2 DEF Resumes, tl, t
  <1>7. phase' \in [Procs -> Phases]
    BY <1>1 DEF Inv, Phases
  <1>8. ASSUME NEW k \in 1..Len(t) PROVE phase'[t[k].proc] # "awake"
    <2>1. t[k].proc \in Procs
      BY <1>2, TimerAt
    <2> QED BY <1>1, <1>2, <2>1 DEF Inv, tl
  <1> QED BY <1>2, <1>5, <1>7, <1>8 DEF Inv, t

\* run_timer_list.
LEMMA TickStep ==
  ASSUME Inv, Tick
  PROVE  Inv' /\ Ticks
  <1> DEFINE tl == timer_list
             t == timer_list'
             less == [tl EXCEPT ![1].expires = @ - 1]
  <1>0. tl \in Seq(Timers) /\ Distinct(tl) /\ Ahead(tl)
    BY DEF Inv
  <1>1. /\ tl # <<>> /\ tl[1].expires # 0
        /\ t = AfterTick(tl)
        /\ phase' = [p \in Procs |-> IF \E i \in Expired(less) : less[i].proc = p
                                       THEN "woken" ELSE phase[p]]
    BY DEF Tick, AfterTick
  <1> HIDE DEF tl, t, less
  <1>2. PICK m : Ticked(tl, m, t) /\ Expired(less) = 1..m
                 /\ \A i \in 1..Len(tl) : less[i].proc = tl[i].proc
    BY <1>0, <1>1, TickTicks DEF less
  <1>3. /\ Distinct(t) /\ Ahead(t)
        /\ \A k \in 1..Len(t) : \E j \in (m + 1)..Len(tl) : t[k].proc = tl[j].proc
        /\ \A q : LeftIn(q, t) = IF LeftIn(q, tl) = 0 THEN 0 ELSE LeftIn(q, tl) - 1
        /\ \A q : LeftIn(q, tl) = 1 <=> \E j \in 1..m : tl[j].proc = q
    <2>1. Ticked(tl, m, t)
      BY <1>2
    <2> QED BY ONLY <1>0, <2>1, TickedLeft
  <1>4. t \in Seq(Timers) /\ m \in 0..Len(tl) /\ m \in Nat /\ Len(tl) \in Nat
    BY <1>0, <1>2 DEF Ticked
  <1>5. phase' = [p \in Procs |-> IF LeftIn(p, tl) = 1 THEN "woken" ELSE phase[p]]
    <2>1. ASSUME NEW p PROVE (\E i \in Expired(less) : less[i].proc = p) <=> LeftIn(p, tl) = 1
      BY <1>2, <1>3, <1>4
    <2> QED BY <1>1, <2>1
  <1>6. Ticks
    BY <1>3, <1>5 DEF Ticks, tl, t
  <1>7. phase' \in [Procs -> Phases]
    BY <1>5 DEF Inv, Phases
  <1>8. ASSUME NEW k \in 1..Len(t) PROVE phase'[t[k].proc] # "awake"
    <2>1. PICK j \in (m + 1)..Len(tl) : t[k].proc = tl[j].proc
      BY <1>3
    <2>2. j \in 1..Len(tl)
      BY <1>4
    <2>3. tl[j].proc \in Procs /\ phase[tl[j].proc] # "awake"
      BY <1>0, <2>2, TimerAt DEF Inv, tl
    <2> QED BY <1>5, <2>1, <2>3
  <1> QED BY <1>3, <1>4, <1>6, <1>7, <1>8 DEF Inv, t

\* Each step preserves the invariant.
LEMMA NextInv == Inv /\ [Next]_vars => Inv'
  <1> SUFFICES ASSUME Inv, [Next]_vars PROVE Inv'
    OBVIOUS
  <1>1. CASE Tick
    BY <1>1, TickStep
  <1>2. ASSUME NEW p \in Procs, Kill(p) PROVE Inv'
    BY <1>2, KillStep
  <1>3. ASSUME NEW p \in Procs, Resume(p) PROVE Inv'
    BY <1>3, ResumeStep
  <1>4. ASSUME NEW p \in Procs, NEW n \in 1..MaxSleep, Sleep(p, n) PROVE Inv'
    BY <1>4, SleepStep
  <1>5. CASE UNCHANGED vars
    BY <1>5 DEF vars, Inv
  <1> QED BY <1>1, <1>2, <1>3, <1>4, <1>5 DEF Next

\* The inductive invariant holds in every reachable state.
THEOREM Invariance == Spec => []Inv
  <1>1. Init => Inv
    BY InitInv
  <1> QED BY <1>1, NextInv, PTL DEF Spec

\* The list holds timers, at most one for each process, none further than MaxSleep away.
THEOREM TypeCorrect == Spec => []TypeOK
  <1>1. Inv => TypeOK
    <2> SUFFICES ASSUME Inv PROVE TypeOK
      OBVIOUS
    <2>0. timer_list \in Seq(Timers) /\ Len(timer_list) \in Nat /\ DOMAIN timer_list = 1..Len(timer_list)
      BY DEF Inv
    <2> DEFINE T == [proc : Procs, expires : 0..MaxSleep]
    <2>1. ASSUME NEW i \in 1..Len(timer_list) PROVE timer_list[i] \in T
      <3>1. /\ timer_list[i] \in Timers /\ timer_list[i].expires \in Nat
            /\ Due(timer_list)[i] \in Nat /\ Due(timer_list)[i - 1] \in Nat
            /\ Due(timer_list)[i] = Due(timer_list)[i - 1] + timer_list[i].expires
        BY <2>0, TimerAt
      <3>2. Due(timer_list)[i] \in 1..MaxSleep
        BY DEF Inv, Ahead
      <3>3. timer_list[i].expires \in 0..MaxSleep
        BY <3>1, <3>2, TimerAssumption
      <3> QED BY <3>1, <3>3 DEF Timers
    <2> HIDE DEF T
    <2>2. timer_list \in Seq(T)
      BY <2>0, <2>1
    <2>3. timer_list \in Seq([proc : Procs, expires : 0..MaxSleep])
      BY <2>2 DEF T
    <2>4. phase \in [Procs -> {"awake", "asleep", "woken"}]
      BY DEF Inv, Phases
    <2>5. \A i, j \in DOMAIN timer_list : timer_list[i].proc = timer_list[j].proc => i = j
      BY <2>0 DEF Inv, Distinct
    <2> QED BY <2>3, <2>4, <2>5 DEF TypeOK
  <1> QED BY <1>1, Invariance, PTL

\* The assert at the head of run_timer_list holds: the first timer has a tick left.
THEOREM HeadCorrect == Spec => []HeadHasTicks
  <1>1. Inv => HeadHasTicks
    <2> SUFFICES ASSUME Inv, timer_list # <<>> PROVE timer_list[1].expires # 0
      BY DEF HeadHasTicks
    <2>1. timer_list \in Seq(Timers) /\ 1 \in 1..Len(timer_list)
      BY DEF Inv
    <2>2. Due(timer_list)[1] = Due(timer_list)[1 - 1] + timer_list[1].expires
      BY <2>1, TimerAt
    <2>3. Due(timer_list)[0] = 0
      BY <2>1, DueSums DEF Sums
    <2>4. Due(timer_list)[1] \in 1..MaxSleep /\ timer_list[1].expires \in Nat
      BY <2>1, TimerAt DEF Inv, Ahead
    <2> QED BY <2>2, <2>3, <2>4
  <1> QED BY <1>1, Invariance, PTL

\* Every step of the list is a step of the promise of do_sleep or changes nothing of
\* it: whatever timers come and go around it, a sleeper is woken by the very tick it
\* asked for.  (The fairness that ImplementsTimerAbs adds is left to the model checker.)
THEOREM Refinement == Spec => Abs!Init /\ [][Abs!Next]_(Abs!vars)
  <1> DEFINE abs == [p \in Procs |-> Left(p)]
  <1>0. abs = [p \in Procs |-> LeftIn(p, timer_list)]
    BY LeftIs
  <1>1. Init => Abs!Init
    <2> SUFFICES ASSUME Init PROVE Abs!Init
      OBVIOUS
    <2>1. abs = [p \in Procs |-> 0]
      BY <1>0, InitInv
    <2> QED BY <2>1 DEF Init, Abs!Init
  <1>2. Inv /\ [Next]_vars => [Abs!Next]_(Abs!vars)
    <2> SUFFICES ASSUME Inv, [Next]_vars PROVE [Abs!Next]_(Abs!vars)
      OBVIOUS
    <2>0. abs' = [p \in Procs |-> LeftIn(p, timer_list)']
      BY LeftIs DEF Left, LeftIn
    <2>1. CASE Tick
      <3>1. Ticks
        BY <2>1, TickStep
      <3>2. Abs!Tick
        BY <1>0, <2>0, <3>1 DEF Ticks, Abs!Tick
      <3> QED BY <3>2 DEF Abs!Next
    <2>2. ASSUME NEW p \in Procs, Kill(p) PROVE Abs!Next
      <3>1. \A q : LeftIn(q, timer_list)' = LeftIn(q, timer_list)
        BY <2>2, KillStep
      <3>2. Abs!Kill(p)
        BY <1>0, <2>0, <2>2, <3>1 DEF Kill, Abs!Kill
      <3> QED BY <3>2 DEF Abs!Next
    <2>3. ASSUME NEW p \in Procs, Resume(p) PROVE Abs!Next
      <3>1. Resumes(p)
        BY <2>3, ResumeStep
      <3>2. Abs!Resume(p)
        BY <1>0, <2>0, <3>1 DEF Resumes, Abs!Resume
      <3> QED BY <3>2 DEF Abs!Next
    <2>4. ASSUME NEW p \in Procs, NEW n \in 1..MaxSleep, Sleep(p, n) PROVE Abs!Next
      <3>1. Sleeps(p, n)
        BY <2>4, SleepStep
      <3>2. Abs!Sleep(p, n)
        BY <1>0, <2>0, <3>1 DEF Sleeps, Abs!Sleep
      <3> QED BY <3>2 DEF Abs!Next
    <2>5. CASE UNCHANGED vars
      <3>1. UNCHANGED Abs!vars
        BY <1>0, <2>0, <2>5 DEF vars, Abs!vars
      <3> QED BY <3>1
    <2> QED BY <2>1, <2>2, <2>3, <2>4, <2>5 DEF Next
  <1> QED BY <1>1, <1>2, Invariance, PTL DEF Spec
=============================================================================
