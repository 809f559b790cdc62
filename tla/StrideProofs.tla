---------------------------- MODULE StrideProofs ----------------------------
(***************************************************************************)
(* Proofs about Stride, for any number of processes, any BIG_STRIDE and    *)
(* any priorities up to it.                                                *)
(*                                                                         *)
(* A skew heap is described by its links and without recursion (Forest):   *)
(* links down and links up agree, and nothing less than all its entries    *)
(* has the roots and is closed under the links down.  A call of            *)
(* skew_heap_merge moves one root to what is linked already and leaves the *)
(* two heaps still to be merged as further roots (Between, CallForest);    *)
(* after as many calls as there are processes nothing is left to merge     *)
(* (MergeOK).  The invariant StrideInv says that the heap has exactly the  *)
(* processes that wait, and that skew_heap_merge could have chosen the     *)
(* upper of any two that are linked (Over).                                *)
(*                                                                         *)
(* Over is no order.  When the strides are in a window it is the order of  *)
(* their distances from the last of them (Distances), and so the root is a *)
(* minimum (RootFirst) and the window moves on with it (WindowStays).      *)
(***************************************************************************)
EXTENDS Stride, FiniteSetTheorems, TLAPS

-----------------------------------------------------------------------------
(* Heaps. *)

\* The entries below entry p.
Kids(l, r, p) == {l[p], r[p]} \ {Null}

\* Whoever is above and whoever is below them are in S, too.
DownClosed(l, r, S) == \A p \in S : Kids(l, r, p) \subseteq S

\* What hangs together: the entries D are those below the roots R, and each has its place.
Forest(l, r, u, D, R) ==
  /\ l \in [Procs -> Links] /\ r \in [Procs -> Links] /\ u \in [Procs -> Links]
  /\ D \subseteq Procs /\ R \subseteq D
  /\ \A p \in D : l[p] = r[p] => l[p] = Null
  /\ \A p \in D : \A c \in Kids(l, r, p) : c \in D \ R /\ u[c] = p
  /\ \A c \in D \ R : u[c] \in D /\ c \in Kids(l, r, u[c])
  /\ \A S \in SUBSET D : R \subseteq S /\ DownClosed(l, r, S) => S = D

\* Null is no process.
LEMMA NullApart == Null \notin Procs /\ Null \in Links /\ Procs \subseteq Links
  BY StrideAssumption DEF Links

\* While skew_heap_merge runs: what it has linked so far ends at last, to the left of which
\* the heaps at a and b will be.
Between(l, r, u, D, root, last, a, b, X) ==
  /\ a \in D \cup {Null} /\ b \in D \cup {Null} /\ (a = b => a = Null)
  /\ X \subseteq D /\ a \notin X /\ b \notin X
  /\ IF last = Null
       THEN X = {} /\ Forest(l, r, u, D, {a, b} \ {Null})
       ELSE /\ last \in X /\ root \in X /\ l[last] = Null
            /\ ~(a = Null /\ b = Null)
            /\ Forest(l, r, u, D, {root, a, b} \ {Null})
            /\ \A x \in X : x = root \/ u[x] \in X
            /\ \A S \in SUBSET D : root \in S /\ DownClosed(l, r, S) => last \in S

\* What one call of skew_heap_merge makes of the links that calls itself again, x being the
\* root it returns.
CallMakes(l, r, u, root, last, x, l2, r2, u2, root2) ==
  /\ l2 = [p \in Procs |-> IF p = x THEN Null ELSE IF p = last THEN x ELSE l[p]]
  /\ r2 = [p \in Procs |-> IF p = x THEN l[x] ELSE r[p]]
  /\ u2 = [p \in Procs |-> IF p = x /\ last # Null THEN last ELSE u[p]]
  /\ root2 = IF last = Null THEN x ELSE root

\* Such a call keeps everything together.
LEMMA CallForest ==
  ASSUME NEW l, NEW r, NEW u, NEW D, NEW root, NEW last, NEW a, NEW b, NEW X,
         Between(l, r, u, D, root, last, a, b, X), a # Null, b # Null,
         NEW x, NEW y, (x = a /\ y = b) \/ (x = b /\ y = a),
         NEW l2, NEW r2, NEW u2, NEW root2, CallMakes(l, r, u, root, last, x, l2, r2, u2, root2)
  PROVE  /\ Between(l2, r2, u2, D, root2, x, r[x], y, X \cup {x})
         /\ Between(l2, r2, u2, D, root2, x, y, r[x], X \cup {x})
  <1> DEFINE z  == r[x]
             R  == IF last = Null THEN {a, b} ELSE {root, a, b}
             R2 == {root2, z, y} \ {Null}
             Y  == X \cup {x}
  <1>0. /\ l2 = [p \in Procs |-> IF p = x THEN Null ELSE IF p = last THEN x ELSE l[p]]
        /\ r2 = [p \in Procs |-> IF p = x THEN l[x] ELSE r[p]]
        /\ u2 = [p \in Procs |-> IF p = x /\ last # Null THEN last ELSE u[p]]
        /\ root2 = IF last = Null THEN x ELSE root
    BY DEF CallMakes
  <1>1. /\ Forest(l, r, u, D, R) /\ x \in R /\ y \in R /\ x # y /\ x # Null /\ y # Null
        /\ Null \notin R /\ x \notin X /\ y \notin X /\ X \subseteq D
    BY NullApart DEF Between, Forest
  <1>2. last # Null => /\ last \in X /\ root \in X /\ l[last] = Null /\ root \in R
                       /\ \A w \in X : w = root \/ u[w] \in X
                       /\ \A S \in SUBSET D : root \in S /\ DownClosed(l, r, S) => last \in S
    BY DEF Between
  <1>3. last = Null => X = {}
    BY DEF Between
  <1>4. /\ l \in [Procs -> Links] /\ r \in [Procs -> Links] /\ u \in [Procs -> Links]
        /\ D \subseteq Procs /\ R \subseteq D /\ Null \notin D
        /\ \A p \in D : l[p] = r[p] => l[p] = Null
        /\ \A p \in D : \A c \in Kids(l, r, p) : c \in D \ R /\ u[c] = p
        /\ \A c \in D \ R : u[c] \in D /\ c \in Kids(l, r, u[c])
        /\ \A S \in SUBSET D : R \subseteq S /\ DownClosed(l, r, S) => S = D
    BY <1>1, NullApart DEF Forest
  <1>5. last # Null => last # x /\ last \in D
    BY <1>1, <1>2
  <1>6. /\ x \in D /\ x \in Procs /\ y \in D
        /\ l2 \in [Procs -> Links] /\ r2 \in [Procs -> Links] /\ u2 \in [Procs -> Links]
    BY <1>0, <1>1, <1>4, <1>5, NullApart
  <1>7. z = Null \/ (z \in D /\ z \notin R /\ u[z] = x /\ z # x /\ z # y /\ z # l[x])
    BY <1>1, <1>4, <1>6 DEF Kids
  <1>8. R2 = (R \cup {z}) \ (IF last = Null THEN {Null} ELSE {x, Null}) /\ root2 \in Y /\ root2 \in R
    BY <1>0, <1>1, <1>2, <1>7
  <1>9. z \notin Y
    <2>1. CASE z = Null
      BY <1>1, <1>4, <1>6, <2>1
    <2>2. CASE z # Null
      BY <1>1, <1>2, <1>3, <1>7, <2>2
    <2> QED BY <2>1, <2>2
  <1>10. /\ \A p \in D : p # x /\ p # last => Kids(l2, r2, p) = Kids(l, r, p)
         /\ Kids(l2, r2, x) = {l[x]} \ {Null}
         /\ last # Null => Kids(l2, r2, last) = Kids(l, r, last) \cup {x}
    <2>1. \A p \in D : p # x /\ p # last => l2[p] = l[p] /\ r2[p] = r[p]
      BY <1>0, <1>4
    <2>2. l2[x] = Null /\ r2[x] = l[x]
      BY <1>0, <1>6
    <2>3. last # Null => l2[last] = x /\ r2[last] = r[last] /\ l[last] = Null
      BY <1>0, <1>2, <1>4, <1>5
    <2>4. x # Null
      BY <1>1
    <2> QED BY <2>1, <2>2, <2>3, <2>4 DEF Kids
  <1>11. Kids(l, r, x) = ({l[x]} \cup {z}) \ {Null}
    BY DEF Kids
  <1> HIDE DEF z, R, R2, Y
  <1>12. \A p \in D : l2[p] = r2[p] => l2[p] = Null
    <2> SUFFICES ASSUME NEW p \in D, l2[p] = r2[p] PROVE l2[p] = Null
      OBVIOUS
    <2>1. CASE p = x
      BY <1>0, <1>6, <2>1
    <2>2. CASE p # x /\ p = last
      <3>1. l2[p] = x /\ r2[p] = r[p]
        BY <1>0, <1>4, <2>2
      <3>2. x \notin Kids(l, r, p)
        BY <1>1, <1>4
      <3> QED BY <1>1, <3>1, <3>2 DEF Kids
    <2>3. CASE p # x /\ p # last
      BY <1>0, <1>4, <2>3
    <2> QED BY <2>1, <2>2, <2>3
  <1>13. \A p \in D : \A c \in Kids(l2, r2, p) : c \in D \ R2 /\ u2[c] = p
    <2> SUFFICES ASSUME NEW p \in D, NEW c \in Kids(l2, r2, p) PROVE c \in D \ R2 /\ u2[c] = p
      OBVIOUS
    <2>1. CASE p = x
      <3>1. c = l[x] /\ c # Null /\ c \in Kids(l, r, x)
        BY <1>10, <1>11, <2>1
      <3>2. c \in D \ R /\ u[c] = x
        BY <1>4, <1>6, <3>1
      <3>3. c # x /\ c # z
        BY <1>1, <1>7, <3>1, <3>2
      <3>4. u2[c] = u[c]
        BY <1>0, <1>4, <3>2, <3>3
      <3> QED BY <1>8, <2>1, <3>2, <3>3, <3>4
    <2>2. CASE p = last /\ p # x /\ c = x
      <3>1. last # Null
        BY <1>4, <2>2
      <3> QED BY <1>0, <1>6, <1>8, <2>2, <3>1
    <2>3. CASE p # x /\ ~(p = last /\ c = x)
      <3>1. c \in Kids(l, r, p)
        BY <1>4, <1>10, <2>3
      <3>2. c \in D \ R /\ u[c] = p
        BY <1>4, <3>1
      <3>3. c # x /\ c # z
        BY <1>1, <1>4, <1>7, <2>3, <3>2
      <3>4. u2[c] = u[c]
        BY <1>0, <1>4, <3>2, <3>3
      <3> QED BY <1>8, <3>2, <3>3, <3>4
    <2> QED BY <2>1, <2>2, <2>3
  <1>14. \A c \in D \ R2 : u2[c] \in D /\ c \in Kids(l2, r2, u2[c])
    <2> SUFFICES ASSUME NEW c \in D, c \notin R2 PROVE u2[c] \in D /\ c \in Kids(l2, r2, u2[c])
      OBVIOUS
    <2>1. CASE c = x
      <3>1. last # Null
        BY <1>1, <1>8, <2>1
      <3>2. u2[c] = last
        BY <1>0, <1>6, <2>1, <3>1
      <3> QED BY <1>5, <1>10, <2>1, <3>1, <3>2
    <2>2. CASE c # x
      <3>1. c \notin R /\ c # z
        BY <1>4, <1>8, <2>2
      <3>2. u[c] \in D /\ c \in Kids(l, r, u[c]) /\ u2[c] = u[c]
        BY <1>0, <1>4, <2>2, <3>1
      <3>3. CASE u[c] = x
        BY <1>4, <1>10, <1>11, <3>1, <3>2, <3>3
      <3>4. CASE u[c] # x
        BY <1>4, <1>10, <3>2, <3>4
      <3> QED BY <3>3, <3>4
    <2> QED BY <2>1, <2>2
  <1>15. ASSUME NEW S \in SUBSET D, root2 \in S, DownClosed(l2, r2, S) PROVE x \in S
    <2>1. CASE last = Null
      BY <1>0, <1>15, <2>1
    <2>2. CASE last # Null
      <3> SUFFICES ASSUME x \notin S PROVE FALSE
        OBVIOUS
      <3>1. DownClosed(l, r, S)
        <4> SUFFICES ASSUME NEW p \in S PROVE Kids(l, r, p) \subseteq S
          BY DEF DownClosed
        <4>1. Kids(l2, r2, p) \subseteq S /\ p # x /\ p \in D
          BY <1>15 DEF DownClosed
        <4>2. CASE p = last
          BY <1>10, <2>2, <4>1, <4>2
        <4>3. CASE p # last
          BY <1>10, <4>1, <4>3
        <4> QED BY <4>2, <4>3
      <3>2. last \in S
        BY <1>0, <1>2, <1>15, <2>2, <3>1
      <3>3. Kids(l2, r2, last) \subseteq S
        BY <1>15, <3>2 DEF DownClosed
      <3> QED BY <1>10, <2>2, <3>3
    <2> QED BY <2>1, <2>2
  <1>16. ASSUME NEW S \in SUBSET D, R2 \subseteq S, DownClosed(l2, r2, S) PROVE S = D
    <2>1. root2 \in S
      <3>1. root2 \in R2
        BY <1>4, <1>8 DEF R2
      <3> QED BY <1>16, <3>1
    <2>2. x \in S
      BY <1>15, <1>16, <2>1
    <2>3. R \subseteq S /\ (z # Null => z \in S)
      BY <1>1, <1>8, <1>16, <2>2
    <2>4. DownClosed(l, r, S)
      <3> SUFFICES ASSUME NEW p \in S PROVE Kids(l, r, p) \subseteq S
        BY DEF DownClosed
      <3>1. Kids(l2, r2, p) \subseteq S /\ p \in D
        BY <1>16 DEF DownClosed
      <3>2. CASE p = x
        BY <1>10, <1>11, <2>3, <3>1, <3>2
      <3>3. CASE p # x
        BY <1>4, <1>10, <3>1, <3>3
      <3> QED BY <3>2, <3>3
    <2> QED BY <1>4, <2>3, <2>4
  <1>17. R2 \subseteq D
    BY <1>4, <1>7, <1>8
  <1>18. Forest(l2, r2, u2, D, R2)
    BY <1>4, <1>6, <1>12, <1>13, <1>14, <1>16, <1>17 DEF Forest
  <1>19. \A w \in Y : w = root2 \/ u2[w] \in Y
    <2> SUFFICES ASSUME NEW w \in Y, w # root2 PROVE u2[w] \in Y
      OBVIOUS
    <2>1. CASE w = x
      <3>1. last # Null
        BY <1>0, <2>1
      <3> QED BY <1>0, <1>2, <1>6, <2>1, <3>1 DEF Y
    <2>2. CASE w # x
      <3>1. w \in X /\ last # Null
        BY <1>3, <2>2 DEF Y
      <3>2. u[w] \in X /\ u2[w] = u[w]
        BY <1>0, <1>1, <1>2, <1>4, <2>2, <3>1
      <3> QED BY <3>2 DEF Y
    <2> QED BY <2>1, <2>2
  <1>20. /\ x \in Y /\ root2 \in Y /\ l2[x] = Null /\ y # Null /\ Y \subseteq D /\ y \notin Y /\ z \notin Y
         /\ z \in D \cup {Null} /\ y \in D /\ y # z
    BY <1>0, <1>1, <1>4, <1>6, <1>7, <1>8, <1>9 DEF Y
  <1>21. R2 = {root2, z, y} \ {Null} /\ R2 = {root2, y, z} \ {Null}
    BY DEF R2
  <1>22. x # Null
    BY <1>1
  <1>23. Between(l2, r2, u2, D, root2, x, z, y, Y)
    BY <1>15, <1>18, <1>19, <1>20, <1>21, <1>22 DEF Between
  <1>24. Between(l2, r2, u2, D, root2, x, y, z, Y)
    BY <1>15, <1>18, <1>19, <1>20, <1>21, <1>22 DEF Between
  <1> QED BY <1>23, <1>24 DEF Y, z

\* The last call, of which x is what is left.
LEMMA LastForest ==
  ASSUME NEW l, NEW r, NEW u, NEW D, NEW root, NEW last, NEW a, NEW b, NEW X,
         Between(l, r, u, D, root, last, a, b, X),
         NEW x, (b = Null /\ x = a) \/ (a = Null /\ x = b),
         NEW l2, l2 = [p \in Procs |-> IF p = last THEN x ELSE l[p]],
         NEW u2, u2 = [p \in Procs |-> IF p = x /\ last # Null THEN last ELSE u[p]],
         NEW root2, root2 = IF last = Null THEN x ELSE root
  PROVE  Forest(l2, r, u2, D, {root2} \ {Null})
  <1>1. CASE last = Null
    <2>1. Forest(l, r, u, D, {a, b} \ {Null})
      BY <1>1 DEF Between
    <2>2. {a, b} \ {Null} = {root2} \ {Null}
      BY <1>1
    <2>3. l \in [Procs -> Links] /\ u \in [Procs -> Links]
      BY <2>1 DEF Forest
    <2>4. l2 = l /\ u2 = u
      BY <1>1, <2>3, NullApart
    <2> QED BY <2>1, <2>2, <2>4
  <1>2. CASE last # Null
    <2> DEFINE R == {root, x}
    <2>1. /\ last \in X /\ root \in X /\ l[last] = Null /\ X \subseteq D /\ x \notin X /\ x # Null /\ x \in D
          /\ \A S \in SUBSET D : root \in S /\ DownClosed(l, r, S) => last \in S
      BY <1>2 DEF Between
    <2>2. Forest(l, r, u, D, R)
      <3>1. {root, a, b} \ {Null} = R
        BY <2>1, NullApart DEF Between, Forest
      <3> QED BY <1>2, <3>1 DEF Between
    <2>3. /\ l \in [Procs -> Links] /\ r \in [Procs -> Links] /\ u \in [Procs -> Links]
          /\ D \subseteq Procs /\ R \subseteq D /\ Null \notin D
          /\ \A p \in D : l[p] = r[p] => l[p] = Null
          /\ \A p \in D : \A c \in Kids(l, r, p) : c \in D \ R /\ u[c] = p
          /\ \A c \in D \ R : u[c] \in D /\ c \in Kids(l, r, u[c])
          /\ \A S \in SUBSET D : R \subseteq S /\ DownClosed(l, r, S) => S = D
      BY <2>2, NullApart DEF Forest
    <2>4. /\ l2 \in [Procs -> Links] /\ u2 \in [Procs -> Links]
          /\ last \in D /\ last # x /\ root # x /\ root2 = root
      BY <1>2, <2>1, <2>3, NullApart
    <2>5. /\ \A p \in D : p # last => Kids(l2, r, p) = Kids(l, r, p)
          /\ Kids(l2, r, last) = Kids(l, r, last) \cup {x}
      <3>1. \A p \in D : p # last => l2[p] = l[p]
        BY <2>3
      <3>2. l2[last] = x /\ l[last] = Null
        BY <2>1, <2>3
      <3> QED BY <2>1, <3>1, <3>2 DEF Kids
    <2>6. \A p \in D : l2[p] = r[p] => l2[p] = Null
      <3> SUFFICES ASSUME NEW p \in D, l2[p] = r[p] PROVE l2[p] = Null
        OBVIOUS
      <3>1. CASE p = last
        <4>1. l2[p] = x /\ x \notin Kids(l, r, p)
          BY <2>3, <3>1
        <4> QED BY <4>1 DEF Kids
      <3>2. CASE p # last
        BY <2>3, <3>2
      <3> QED BY <3>1, <3>2
    <2>7. ASSUME NEW p \in D, NEW c \in Kids(l2, r, p) PROVE c \in D \ {root} /\ u2[c] = p
      <3>1. CASE p = last /\ c = x
        BY <1>2, <2>1, <2>3, <2>4, <3>1
      <3>2. CASE ~(p = last /\ c = x)
        <4>1. c \in Kids(l, r, p)
          BY <2>5, <2>7, <3>2
        <4>2. c \in D \ R /\ u[c] = p
          BY <2>3, <4>1
        <4> QED BY <2>3, <4>2
      <3> QED BY <3>1, <3>2
    <2>8. ASSUME NEW c \in D, c # root PROVE u2[c] \in D /\ c \in Kids(l2, r, u2[c])
      <3>1. CASE c = x
        <4>1. u2[c] = last
          BY <1>2, <2>3, <3>1
        <4> QED BY <2>4, <2>5, <3>1, <4>1
      <3>2. CASE c # x
        <4>1. u[c] \in D /\ c \in Kids(l, r, u[c]) /\ u2[c] = u[c]
          BY <2>3, <2>8, <3>2
        <4> QED BY <2>5, <4>1
      <3> QED BY <3>1, <3>2
    <2>9. ASSUME NEW S \in SUBSET D, root \in S, DownClosed(l2, r, S) PROVE S = D
      <3>1. DownClosed(l, r, S)
        BY <2>5, <2>9 DEF DownClosed
      <3>2. last \in S
        BY <2>1, <2>9, <3>1
      <3>3. x \in S
        BY <2>5, <2>9, <3>2 DEF DownClosed
      <3> QED BY <2>3, <2>9, <3>1, <3>3
    <2>10. {root2} \ {Null} = {root}
      BY <2>3, <2>4
    <2>11. \A p \in D : \A c \in Kids(l2, r, p) : c \in D \ {root} /\ u2[c] = p
      BY <2>7
    <2>12. \A c \in D \ {root} : u2[c] \in D /\ c \in Kids(l2, r, u2[c])
      BY <2>8
    <2>13. \A S \in SUBSET D : {root} \subseteq S /\ DownClosed(l2, r, S) => S = D
      BY <2>9
    <2>14. {root} \subseteq D
      BY <2>3
    <2>15. Forest(l2, r, u2, D, {root})
      BY <2>3, <2>4, <2>6, <2>11, <2>12, <2>13, <2>14 DEF Forest
    <2> QED BY <2>10, <2>15
  <1> QED BY <1>1, <1>2

-----------------------------------------------------------------------------
(* The order. *)

\* p may be above q in the heap: skew_heap_merge would choose p, in one order or the other.
Over(st, p, q) ==
  \/ (st[p] - st[q]) % Word > Big
  \/ ~((st[q] - st[p]) % Word > Big)

Ordered(st, l, r, D) == \A p \in D : \A c \in Kids(l, r, p) : Over(st, p, c)

\* The call that calls itself again keeps it.
LEMMA CallOrdered ==
  ASSUME NEW st, NEW l, NEW r, NEW D \in SUBSET Procs, Ordered(st, l, r, D),
         l \in [Procs -> Links], r \in [Procs -> Links],
         NEW last \in D \cup {Null}, NEW x \in D, NEW y, Over(st, x, y),
         last # Null => Over(st, last, x) /\ last # x,
         NEW l2, l2 = [p \in Procs |-> IF p = x THEN Null ELSE IF p = last THEN x ELSE l[p]],
         NEW r2, r2 = [p \in Procs |-> IF p = x THEN l[x] ELSE r[p]]
  PROVE  Ordered(st, l2, r2, D) /\ (r[x] # Null => Over(st, x, r[x]))
  <1>1. r[x] # Null => Over(st, x, r[x])
    BY DEF Ordered, Kids
  <1>2. ASSUME NEW p \in D, NEW c \in Kids(l2, r2, p) PROVE Over(st, p, c)
    <2>1. CASE p = x
      <3>1. c = l[x] /\ c # Null
        BY <1>2, <2>1 DEF Kids
      <3> QED BY <2>1, <3>1 DEF Ordered, Kids
    <2>2. CASE p # x /\ p = last
      <3>1. l2[p] = x /\ r2[p] = r[p] /\ last # Null
        BY <2>2, NullApart
      <3>2. c = x \/ c \in Kids(l, r, p)
        BY <1>2, <3>1 DEF Kids
      <3> QED BY <2>2, <3>1, <3>2 DEF Ordered
    <2>3. CASE p # x /\ p # last
      <3>1. l2[p] = l[p] /\ r2[p] = r[p]
        BY <2>3
      <3> QED BY <1>2, <3>1 DEF Ordered, Kids
    <2> QED BY <2>1, <2>2, <2>3
  <1> QED BY <1>1, <1>2 DEF Ordered

\* So does the last one.
LEMMA LastOrdered ==
  ASSUME NEW st, NEW l, NEW r, NEW D \in SUBSET Procs, Ordered(st, l, r, D),
         l \in [Procs -> Links],
         NEW last, NEW x, last # Null /\ x # Null => Over(st, last, x),
         NEW l2, l2 = [p \in Procs |-> IF p = last THEN x ELSE l[p]]
  PROVE  Ordered(st, l2, r, D)
  <1>1. ASSUME NEW p \in D, NEW c \in Kids(l2, r, p) PROVE Over(st, p, c)
    <2>1. CASE p = last
      <3>1. l2[p] = x /\ last # Null
        BY <2>1, NullApart
      <3>2. c # Null /\ (c = x \/ c \in Kids(l, r, p))
        BY <1>1, <3>1 DEF Kids
      <3> QED BY <2>1, <3>1, <3>2 DEF Ordered
    <2>2. CASE p # last
      <3>1. l2[p] = l[p]
        BY <2>2
      <3> QED BY <1>1, <3>1 DEF Ordered, Kids
    <2> QED BY <2>1, <2>2
  <1> QED BY <1>1 DEF Ordered

-----------------------------------------------------------------------------
(* The calls of skew_heap_merge. *)

States == [heap : Heaps, last : Links, a : Links, b : Links]

\* The root that skew_heap_merge chooses.
First(s) == IF Less(s.a, s.b) THEN s.a ELSE s.b

\* A heap is its links.
LEMMA HeapFields ==
  ASSUME NEW h
  PROVE  h \in Heaps <=> /\ h = [root |-> h.root, left |-> h.left, right |-> h.right, parent |-> h.parent]
                         /\ h.root \in Links
                         /\ h.left \in [Procs -> Links]
                         /\ h.right \in [Procs -> Links]
                         /\ h.parent \in [Procs -> Links]
  BY DEF Heaps

\* The link of p becomes v.
Put(f, p, v) == [q \in Procs |-> IF q = p THEN v ELSE f[q]]

\* That is what EXCEPT does; Null has no link.
LEMMA PutIs ==
  ASSUME NEW f \in [Procs -> Links], NEW p, NEW v \in Links
  PROVE  /\ Put(f, p, v) \in [Procs -> Links]
         /\ Put(f, p, v) = [f EXCEPT ![p] = v]
         /\ p \notin Procs => Put(f, p, v) = f
  BY DEF Put

\* Hanging entry x below p, or making it the root.
LEMMA HangIs ==
  ASSUME NEW h \in Heaps, NEW p \in Links, NEW x \in Links, p # Null => x # Null
  PROVE  LET g == Hang(h, p, x)
         IN  /\ g \in Heaps
             /\ g.root = IF p = Null THEN x ELSE h.root
             /\ g.left = Put(h.left, p, x)
             /\ g.right = h.right
             /\ g.parent = IF p = Null THEN h.parent ELSE Put(h.parent, x, p)
  <1>1. /\ h.root \in Links /\ h.left \in [Procs -> Links]
        /\ h.right \in [Procs -> Links] /\ h.parent \in [Procs -> Links]
    BY DEF Heaps
  <1>2. CASE p = Null
    <2>1. Hang(h, p, x) = [h EXCEPT !.root = x]
      BY <1>2 DEF Hang
    <2>2. h.left = Put(h.left, p, x)
      BY <1>1, <1>2, PutIs, NullApart
    <2>3. [h EXCEPT !.root = x] \in Heaps
      BY DEF Heaps
    <2> QED BY <1>2, <2>1, <2>2, <2>3 DEF Heaps
  <1>3. CASE p # Null
    <2>1. p \in Procs /\ x \in Procs
      BY <1>3 DEF Links
    <2>2. Hang(h, p, x) = [h EXCEPT !.left[p] = x, !.parent[x] = p]
      BY <1>3 DEF Hang
    <2> DEFINE g == [h EXCEPT !.left[p] = x, !.parent[x] = p]
    <2>3. /\ g.root = h.root /\ g.right = h.right
          /\ g.left = [h.left EXCEPT ![p] = x]
          /\ g.parent = [h.parent EXCEPT ![x] = p]
          /\ g \in Heaps
      BY <1>1, <2>1 DEF Heaps
    <2> HIDE DEF g
    <2>4. g.left = Put(h.left, p, x) /\ g.parent = Put(h.parent, x, p)
      BY <1>1, <2>3, PutIs
    <2> QED BY <1>3, <2>2, <2>3, <2>4 DEF g
  <1> QED BY <1>2, <1>3

\* What a call does that calls itself again.
LEMMA CallIs ==
  ASSUME NEW s \in States, s.a # Null, s.b # Null, NEW x, x = First(s), x # s.last
  PROVE  LET t == Call[s]
             h == s.heap
             g == t.heap
         IN  /\ t \in States
             /\ g.root = IF s.last = Null THEN x ELSE h.root
             /\ g.left = Put(Put(h.left, s.last, x), x, Null)
             /\ g.right = Put(h.right, x, h.left[x])
             /\ g.parent = IF s.last = Null THEN h.parent ELSE Put(h.parent, x, s.last)
             /\ t.last = x
             /\ t.a = IF x = s.a THEN h.right[x] ELSE s.a
             /\ t.b = IF x = s.a THEN s.b ELSE h.right[x]
  <1> DEFINE h == s.heap
             p == s.last
             k == Hang(h, p, x)
             g == [k EXCEPT !.right[x] = k.left[x], !.left[x] = Null]
             t == [heap |-> g, last |-> x,
                   a |-> IF x = s.a THEN k.right[x] ELSE s.a,
                   b |-> IF x = s.a THEN s.b ELSE k.right[x]]
  <1>1. /\ h \in Heaps /\ p \in Links /\ s.a \in Procs /\ s.b \in Procs
        /\ h.left \in [Procs -> Links] /\ h.right \in [Procs -> Links]
    BY DEF States, Links, Heaps
  <1>2. x \in Procs /\ x # Null /\ x \in Links
    BY <1>1, NullApart DEF First
  <1>3. Call[s] = t
    <2>1. (IF s.a = Null THEN s.b ELSE IF s.b = Null \/ Less(s.a, s.b) THEN s.a ELSE s.b) = x
      BY DEF First
    <2> QED BY <2>1 DEF Call, States
  <1> HIDE DEF h, p
  <1>4. /\ k \in Heaps /\ k.root = IF p = Null THEN x ELSE h.root
        /\ k.left = Put(h.left, p, x) /\ k.right = h.right
        /\ k.parent = IF p = Null THEN h.parent ELSE Put(h.parent, x, p)
    <2>1. h \in Heaps /\ p \in Links /\ x \in Links /\ (p # Null => x # Null)
      BY <1>1, <1>2
    <2>2. k \in Heaps
      BY <2>1, HangIs
    <2>3. k.root = IF p = Null THEN x ELSE h.root
      BY <2>1, HangIs
    <2>4. k.left = Put(h.left, p, x)
      BY <2>1, HangIs
    <2>5. k.right = h.right
      BY <2>1, HangIs
    <2>6. k.parent = IF p = Null THEN h.parent ELSE Put(h.parent, x, p)
      BY <2>1, HangIs
    <2> QED BY <2>2, <2>3, <2>4, <2>5, <2>6
  <1> HIDE DEF k
  <1>5. /\ g \in Heaps /\ g.root = k.root /\ g.parent = k.parent
        /\ g.left = [k.left EXCEPT ![x] = Null] /\ g.right = [k.right EXCEPT ![x] = k.left[x]]
    BY <1>2, <1>4, NullApart DEF Heaps
  <1>6. /\ k.left \in [Procs -> Links] /\ k.right \in [Procs -> Links]
        /\ k.left[x] = h.left[x] /\ k.right[x] = h.right[x] /\ h.right[x] \in Links /\ h.left[x] \in Links
    <2>1. x # p
      BY DEF p
    <2> QED BY <1>1, <1>2, <1>4, <2>1 DEF Put, Heaps
  <1> HIDE DEF g
  <1>7. g.left = Put(k.left, x, Null) /\ g.right = Put(k.right, x, k.left[x])
    BY <1>5, <1>6, PutIs, NullApart
  <1>8. t \in States
    BY <1>1, <1>2, <1>5, <1>6 DEF States, Links
  <1>9. /\ t.heap = g /\ t.last = x /\ t.a = IF x = s.a THEN h.right[x] ELSE s.a
        /\ t.b = IF x = s.a THEN s.b ELSE h.right[x]
    BY <1>6
  <1> HIDE DEF t
  <1> QED BY <1>3, <1>4, <1>5, <1>6, <1>7, <1>8, <1>9 DEF h, p

\* What the last call does.
LEMMA LastIs ==
  ASSUME NEW s \in States, Null \in {s.a, s.b}
  PROVE  Call[s] = [s EXCEPT !.heap = Hang(@, s.last, IF s.a = Null THEN s.b ELSE s.a)]
  BY DEF Call, States

\* Entries D are being merged; a and b were the roots, and u the links up.
Underway(s, D, a, b, u, X) ==
  /\ s \in States
  /\ Between(s.heap.left, s.heap.right, s.heap.parent, D, s.heap.root, s.last, s.a, s.b, X)
  /\ Ordered(stride, s.heap.left, s.heap.right, D)
  /\ s.last # Null => \A y \in {s.a, s.b} \ {Null} : Over(stride, s.last, y)
  /\ IF s.last = Null THEN {s.a, s.b} = {a, b} /\ s.heap.parent = u
     ELSE s.heap.root \in {a, b} /\ s.heap.parent[s.heap.root] = u[s.heap.root]

\* They have been merged to heap h, whose root is one of the two.
Merged(h, D, a, b, u) ==
  /\ h \in Heaps
  /\ Forest(h.left, h.right, h.parent, D, {h.root} \ {Null})
  /\ Ordered(stride, h.left, h.right, D)
  /\ h.root \in {a, b}
  /\ h.root = Null => a = Null /\ b = Null
  /\ h.root # Null => h.parent[h.root] = u[h.root]

\* Nothing is left to do.
Ended(s, D, a, b, u) == s \in States /\ Null \in {s.a, s.b} /\ Merged(s.heap, D, a, b, u) /\ Call[s] = s

\* A call that calls itself again.
LEMMA CallGoesOn ==
  ASSUME NEW s, NEW D, NEW a, NEW b, NEW u, NEW X, Underway(s, D, a, b, u, X), Null \notin {s.a, s.b}
  PROVE  \E x \in D \ X : Underway(Call[s], D, a, b, u, X \cup {x})
  <1> DEFINE h == s.heap
             x == First(s)
             y == IF x = s.a THEN s.b ELSE s.a
             t == Call[s]
             g == t.heap
             last == s.last
             root2 == IF last = Null THEN x ELSE h.root
  <1>1. /\ s \in States /\ s.a # Null /\ s.b # Null /\ s.a # s.b
        /\ Between(h.left, h.right, h.parent, D, h.root, last, s.a, s.b, X)
        /\ s.a \in D /\ s.b \in D /\ s.a \notin X /\ s.b \notin X /\ X \subseteq D
    BY DEF Underway, Between
  <1>2. /\ (x = s.a /\ y = s.b) \/ (x = s.b /\ y = s.a)
        /\ Over(stride, x, y)
    BY <1>1 DEF First, Over, Less
  <1>3. last # Null => last \in X
    BY <1>1 DEF Between
  <1>4. x \in D /\ x \notin X /\ x # last /\ x # Null
    BY <1>1, <1>2, <1>3
  <1>5. /\ D \subseteq Procs /\ last \in D \cup {Null}
        /\ h.left \in [Procs -> Links] /\ h.right \in [Procs -> Links] /\ h.parent \in [Procs -> Links]
    BY <1>1, <1>3 DEF Between, Forest
  <1>6. /\ t \in States
        /\ g.root = root2
        /\ g.left = Put(Put(h.left, last, x), x, Null)
        /\ g.right = Put(h.right, x, h.left[x])
        /\ g.parent = IF last = Null THEN h.parent ELSE Put(h.parent, x, last)
        /\ t.last = x
        /\ t.a = IF x = s.a THEN h.right[x] ELSE s.a
        /\ t.b = IF x = s.a THEN s.b ELSE h.right[x]
    BY <1>1, <1>4, CallIs
  <1>7. /\ Ordered(stride, h.left, h.right, D)
        /\ last # Null => \A w \in {s.a, s.b} \ {Null} : Over(stride, last, w)
        /\ IF last = Null THEN {s.a, s.b} = {a, b} /\ h.parent = u
           ELSE h.root \in {a, b} /\ h.parent[h.root] = u[h.root]
    BY DEF Underway
  <1>8. last # Null => h.root \in X
    BY <1>1 DEF Between
  <1> HIDE DEF h, x, y, t, g, last, root2
  <1>9. \/ t.a = h.right[x] /\ t.b = y
        \/ t.a = y /\ t.b = h.right[x]
    <2>1. CASE x = s.a
      <3>1. y = s.b
        BY <1>1, <1>2, <2>1
      <3>2. t.a = h.right[x] /\ t.b = s.b
        BY <1>6, <2>1
      <3> QED BY <3>1, <3>2
    <2>2. CASE x # s.a
      <3>1. y = s.a
        BY <1>2, <2>2
      <3>2. t.a = s.a /\ t.b = h.right[x]
        BY <1>6, <2>2
      <3> QED BY <3>1, <3>2
    <2> QED BY <2>1, <2>2
  <1>10. /\ g.left = [p \in Procs |-> IF p = x THEN Null ELSE IF p = last THEN x ELSE h.left[p]]
         /\ g.right = [p \in Procs |-> IF p = x THEN h.left[x] ELSE h.right[p]]
         /\ g.parent = [p \in Procs |-> IF p = x /\ last # Null THEN last ELSE h.parent[p]]
    <2>1. g.left = [p \in Procs |-> IF p = x THEN Null ELSE IF p = last THEN x ELSE h.left[p]]
      BY <1>6 DEF Put
    <2>2. g.right = [p \in Procs |-> IF p = x THEN h.left[x] ELSE h.right[p]]
      BY <1>6 DEF Put
    <2>3. g.parent = [p \in Procs |-> IF p = x /\ last # Null THEN last ELSE h.parent[p]]
      <3>1. CASE last = Null
        BY <1>5, <1>6, <3>1
      <3>2. CASE last # Null
        BY <1>6, <3>2 DEF Put
      <3> QED BY <3>1, <3>2
    <2> QED BY <2>1, <2>2, <2>3
  <1>11. root2 = IF last = Null THEN x ELSE h.root
    BY DEF root2
  <1>12. /\ Between(g.left, g.right, g.parent, D, root2, x, h.right[x], y, X \cup {x})
         /\ Between(g.left, g.right, g.parent, D, root2, x, y, h.right[x], X \cup {x})
    <2>1. CallMakes(h.left, h.right, h.parent, h.root, last, x, g.left, g.right, g.parent, root2)
      BY <1>10, <1>11 DEF CallMakes
    <2> QED BY <1>1, <1>2, <2>1, CallForest
  <1>13. Ordered(stride, g.left, g.right, D) /\ (h.right[x] # Null => Over(stride, x, h.right[x]))
    <2>1. last # Null => Over(stride, last, x) /\ last # x
      BY <1>1, <1>2, <1>4, <1>7
    <2> QED BY <1>2, <1>4, <1>5, <1>7, <1>10, <2>1, CallOrdered
  <1>14. g.root \in {a, b} /\ g.parent[g.root] = u[g.root]
    <2>1. CASE last = Null
      BY <1>2, <1>4, <1>5, <1>6, <1>7, <1>11, <2>1
    <2>2. CASE last # Null
      <3>1. h.root # x /\ h.root \in Procs
        BY <1>1, <1>4, <1>5, <1>8, <2>2
      <3> QED BY <1>6, <1>7, <1>10, <1>11, <2>2, <3>1
    <2> QED BY <2>1, <2>2
  <1>15. Underway(t, D, a, b, u, X \cup {x})
    <2>1. Between(g.left, g.right, g.parent, D, g.root, t.last, t.a, t.b, X \cup {x})
      BY <1>6, <1>9, <1>12
    <2>2. \A w \in {t.a, t.b} \ {Null} : Over(stride, t.last, w)
      BY <1>2, <1>6, <1>9, <1>13
    <2> QED BY <1>4, <1>6, <1>13, <1>14, <2>1, <2>2 DEF Underway, g
  <1> QED BY <1>4, <1>15 DEF t

\* A call that returns.
LEMMA CallReturns ==
  ASSUME NEW s, NEW D, NEW a, NEW b, NEW u, NEW X, Underway(s, D, a, b, u, X), Null \in {s.a, s.b}
  PROVE  Ended(Call[s], D, a, b, u)
  <1> DEFINE h == s.heap
             x == IF s.a = Null THEN s.b ELSE s.a
             last == s.last
             g == Hang(h, last, x)
             t == [s EXCEPT !.heap = g]
  <1>1. /\ s \in States
        /\ Between(h.left, h.right, h.parent, D, h.root, last, s.a, s.b, X)
        /\ last # Null => last \in X /\ h.root \in X /\ x # Null
        /\ x \in D \cup {Null} /\ X \subseteq D /\ x \notin X
        /\ (s.b = Null /\ x = s.a) \/ (s.a = Null /\ x = s.b)
    BY DEF Underway, Between
  <1>2. /\ D \subseteq Procs /\ h \in Heaps /\ last \in Links
        /\ h.left \in [Procs -> Links] /\ h.right \in [Procs -> Links] /\ h.parent \in [Procs -> Links]
    <2>1. h \in Heaps /\ last \in Links
      BY <1>1 DEF States
    <2>2. D \subseteq Procs
      BY <1>1 DEF Between, Forest
    <2> QED BY <2>1, <2>2, HeapFields
  <1>3. x \in Links
    BY <1>1, <1>2 DEF Links
  <1>4. /\ Ordered(stride, h.left, h.right, D)
        /\ last # Null => \A w \in {s.a, s.b} \ {Null} : Over(stride, last, w)
        /\ IF last = Null THEN {s.a, s.b} = {a, b} /\ h.parent = u
           ELSE h.root \in {a, b} /\ h.parent[h.root] = u[h.root]
    BY DEF Underway
  <1>5. Call[s] = t
    BY <1>1, LastIs
  <1>6. /\ t \in States /\ t.heap = g /\ t.last = last /\ t.a = s.a /\ t.b = s.b
    <2>1. g \in Heaps
      <3> HIDE DEF h, x, last
      <3> QED BY <1>1, <1>2, <1>3, HangIs
    <2> QED BY <1>1, <2>1 DEF States
  <1> HIDE DEF h, x, last
  <1>7. /\ g.root = IF last = Null THEN x ELSE h.root
        /\ g.left = Put(h.left, last, x)
        /\ g.right = h.right
        /\ g.parent = IF last = Null THEN h.parent ELSE Put(h.parent, x, last)
        /\ g \in Heaps
    <2>1. h \in Heaps /\ last \in Links /\ x \in Links /\ (last # Null => x # Null)
      BY <1>1, <1>2, <1>3
    <2>2. g.root = IF last = Null THEN x ELSE h.root
      BY <2>1, HangIs
    <2>3. g.left = Put(h.left, last, x)
      BY <2>1, HangIs
    <2>4. g.right = h.right /\ g \in Heaps
      BY <2>1, HangIs
    <2>5. g.parent = IF last = Null THEN h.parent ELSE Put(h.parent, x, last)
      BY <2>1, HangIs
    <2> QED BY <2>2, <2>3, <2>4, <2>5
  <1> DEFINE g2 == Hang(g, last, x)
  <1>8. g2 = g
    <2>1. CASE last = Null
      <3>1. g = [h EXCEPT !.root = x] /\ g2 = [g EXCEPT !.root = x]
        BY <2>1 DEF Hang
      <3> QED BY <1>2, <3>1 DEF Heaps
    <2>2. CASE last # Null
      <3>1. g2 = [g EXCEPT !.left[last] = x, !.parent[x] = last]
        BY <1>1, <2>2 DEF Hang
      <3>2. g.left[last] = x /\ g.parent[x] = last
        <4>1. last \in Procs /\ x \in Procs
          BY <1>1, <1>2, <2>2
        <4> HIDE DEF g
        <4> QED BY <1>7, <2>2, <4>1 DEF Put
      <3> HIDE DEF g, g2
      <3>3. /\ [g.left EXCEPT ![last] = x] = g.left
            /\ [g.parent EXCEPT ![x] = last] = g.parent
        BY <1>7, <3>2 DEF Heaps
      <3>4. [g EXCEPT !.left[last] = x, !.parent[x] = last] = g
        BY <1>7, <3>3 DEF Heaps
      <3> QED BY <3>1, <3>4
    <2> QED BY <2>1, <2>2
  <1>9. Call[t] = t
    <2>1. Call[t] = [t EXCEPT !.heap = Hang(t.heap, t.last, IF t.a = Null THEN t.b ELSE t.a)]
      <3>1. t \in States /\ Null \in {t.a, t.b}
        BY <1>6
      <3> HIDE DEF t
      <3> QED BY <3>1, LastIs
    <2>2. Hang(t.heap, t.last, IF t.a = Null THEN t.b ELSE t.a) = g
      <3>1. (IF t.a = Null THEN t.b ELSE t.a) = x
        BY <1>6 DEF x
      <3> HIDE DEF t, g
      <3> QED BY <1>6, <1>8, <3>1 DEF g2
    <2>3. [t EXCEPT !.heap = g] = t
      <3> HIDE DEF t, g
      <3> QED BY <1>6 DEF States
    <2> HIDE DEF t, g
    <2> QED BY <2>1, <2>2, <2>3
  <1> HIDE DEF g, t
  <1>10. /\ g.left = [p \in Procs |-> IF p = last THEN x ELSE h.left[p]]
         /\ g.parent = [p \in Procs |-> IF p = x /\ last # Null THEN last ELSE h.parent[p]]
    <2>1. g.left = [p \in Procs |-> IF p = last THEN x ELSE h.left[p]]
      BY <1>7 DEF Put
    <2>2. g.parent = [p \in Procs |-> IF p = x /\ last # Null THEN last ELSE h.parent[p]]
      <3>1. CASE last = Null
        BY <1>2, <1>7, <3>1
      <3>2. CASE last # Null
        BY <1>7, <3>2 DEF Put
      <3> QED BY <3>1, <3>2
    <2> QED BY <2>1, <2>2
  <1>11. Forest(g.left, g.right, g.parent, D, {g.root} \ {Null})
    BY <1>1, <1>7, <1>10, LastForest
  <1>12. Ordered(stride, g.left, g.right, D)
    <2>1. last # Null /\ x # Null => Over(stride, last, x)
      BY <1>1, <1>4
    <2> QED BY <1>2, <1>4, <1>7, <1>10, <2>1, LastOrdered
  <1>13. /\ g.root \in {a, b}
         /\ g.root = Null => a = Null /\ b = Null
         /\ g.root # Null => g.parent[g.root] = u[g.root]
    <2>1. CASE last = Null
      <3>1. g.root = x /\ x \in {a, b} /\ g.parent = u
        BY <1>1, <1>4, <1>7, <2>1
      <3>2. x = Null => a = Null /\ b = Null
        BY <1>1, <1>4, <2>1
      <3> QED BY <3>1, <3>2
    <2>2. CASE last # Null
      <3>1. h.root # x /\ h.root \in Procs /\ h.root # Null
        BY <1>1, <1>2, <2>2, NullApart
      <3> QED BY <1>4, <1>7, <1>10, <2>2, <3>1
    <2> QED BY <2>1, <2>2
  <1>14. Null \in {t.a, t.b}
    BY <1>6
  <1> QED BY <1>5, <1>6, <1>7, <1>9, <1>11, <1>12, <1>13, <1>14 DEF Ended, Merged

-----------------------------------------------------------------------------
(* skew_heap_merge, skew_heap_insert, skew_heap_remove. *)

\* Calls is the recursion that it is defined by.
LEMMA CallsAre ==
  ASSUME NEW s, NEW n \in Nat
  PROVE  Calls(s, n) = IF n = 0 THEN s ELSE Call[Calls(s, n - 1)]
  <1> DEFINE after[k \in Nat] == IF k = 0 THEN s ELSE Call[after[k - 1]]
  <1>1. after = [k \in Nat |-> IF k = 0 THEN s ELSE Call[after[k - 1]]]
    OBVIOUS
  <1>2. Calls(s, n) = after[n] /\ Calls(s, n - 1) = after[n - 1]
    BY DEF Calls
  <1> HIDE DEF after
  <1>3. after[n] = IF n = 0 THEN s ELSE Call[after[n - 1]]
    BY <1>1
  <1> QED BY <1>2, <1>3

\* Processes are finitely many.
LEMMA ProcsFinite == IsFiniteSet(Procs) /\ Cardinality(Procs) \in Nat
  <1>1. IsFiniteSet(Procs)
    BY StrideAssumption, FS_AddElement, FS_Union, FS_Singleton DEF Procs
  <1> QED BY <1>1, FS_CardinalityType

\* A set of numbers has a smallest one.
LEMMA Smallest == ASSUME NEW T \in SUBSET Nat, T # {} PROVE \E n \in T : \A k \in T : n <= k
  <1>1. PICK n \in T : \A k \in T : ~(<<k, n>> \in OpToRel(<, Nat))
    BY NatLessThanWellFounded, WFMin
  <1>2. \A k \in T : ~(k < n)
    BY <1>1 DEF OpToRel
  <1> QED BY <1>2

\* Numbers are reached from 0.
LEMMA Rounds == ASSUME NEW Q, 0 \in Q, \A k \in Q : k + 1 \in Q PROVE \A k \in Nat : k \in Q
  <1> DEFINE T == Nat \ Q
  <1> SUFFICES ASSUME T # {} PROVE FALSE
    OBVIOUS
  <1>1. PICK x \in T : \A y \in T : x <= y
    BY Smallest
  <1>2. x \in Nat /\ x \notin Q /\ x # 0
    OBVIOUS
  <1>3. x - 1 \in Nat /\ ~(x <= x - 1) /\ (x - 1) + 1 = x
    BY <1>2
  <1>4. x - 1 \in Q
    BY <1>1, <1>3
  <1> QED BY <1>2, <1>3, <1>4

\* Two heaps become one.
LEMMA MergeOK ==
  ASSUME NEW h \in Heaps, NEW D, NEW a \in D \cup {Null}, NEW b \in D \cup {Null}, a = b => a = Null,
         Forest(h.left, h.right, h.parent, D, {a, b} \ {Null}), Ordered(stride, h.left, h.right, D)
  PROVE  Merged(Merge(h, a, b), D, a, b, h.parent)
  <1> DEFINE s == [heap |-> h, last |-> Null, a |-> a, b |-> b]
             E(k) == Ended(Calls(s, k), D, a, b, h.parent)
             W(k) == \E X \in SUBSET D : Cardinality(X) = k /\ Underway(Calls(s, k), D, a, b, h.parent, X)
             B == {k \in Nat : ~E(k) /\ ~W(k)}
  <1>1. D \subseteq Procs
    BY DEF Forest
  <1>2. \A X \in SUBSET D : IsFiniteSet(X) /\ Cardinality(X) \in Nat /\ Cardinality(X) <= Cardinality(Procs)
    BY <1>1, ProcsFinite, FS_Subset, FS_CardinalityType
  <1>3. W(0)
    <2>1. /\ s \in States /\ s.heap = h /\ s.last = Null /\ s.a = a /\ s.b = b
      BY <1>1, NullApart DEF States, Links
    <2> HIDE DEF s
    <2>2. Between(h.left, h.right, h.parent, D, h.root, Null, a, b, {})
      BY DEF Between
    <2>3. Underway(s, D, a, b, h.parent, {})
      BY <2>1, <2>2 DEF Underway
    <2>4. Calls(s, 0) = s
      BY CallsAre
    <2>5. Cardinality({}) = 0
      BY FS_EmptySet
    <2> QED BY <2>3, <2>4, <2>5
  <1>4. ASSUME NEW k \in Nat, E(k) PROVE E(k + 1)
    <2>1. Calls(s, k + 1) = Call[Calls(s, k)]
      <3>1. k + 1 \in Nat /\ k + 1 # 0 /\ (k + 1) - 1 = k
        OBVIOUS
      <3> HIDE DEF s
      <3> QED BY <3>1, CallsAre
    <2>2. Call[Calls(s, k)] = Calls(s, k)
      BY <1>4 DEF Ended
    <2> QED BY <1>4, <2>1, <2>2
  <1>5. ASSUME NEW k \in Nat, W(k) PROVE E(k + 1) \/ W(k + 1)
    <2> DEFINE t == Calls(s, k)
    <2>1. Calls(s, k + 1) = Call[t]
      <3>1. k + 1 \in Nat /\ k + 1 # 0 /\ (k + 1) - 1 = k
        OBVIOUS
      <3> HIDE DEF s
      <3> QED BY <3>1, CallsAre
    <2>2. PICK X \in SUBSET D : Cardinality(X) = k /\ Underway(t, D, a, b, h.parent, X)
      BY <1>5
    <2> HIDE DEF s, t
    <2>3. CASE Null \in {t.a, t.b}
      BY <2>1, <2>2, <2>3, CallReturns
    <2>4. CASE Null \notin {t.a, t.b}
      <3>1. PICK x \in D \ X : Underway(Call[t], D, a, b, h.parent, X \cup {x})
        BY <2>2, <2>4, CallGoesOn
      <3>2. Cardinality(X \cup {x}) = k + 1
        BY <1>2, <2>2, FS_AddElement
      <3> QED BY <2>1, <3>1, <3>2
    <2> QED BY <2>3, <2>4
  <1>6. \A k \in Nat : E(k) \/ W(k)
    <2> DEFINE Q == {k \in Nat : E(k) \/ W(k)}
    <2>1. 0 \in Q
      BY <1>3
    <2>2. ASSUME NEW k \in Q PROVE k + 1 \in Q
      <3>1. k \in Nat /\ (E(k) \/ W(k))
        OBVIOUS
      <3>2. E(k + 1) \/ W(k + 1)
        <4> HIDE DEF E, W
        <4> QED BY <1>4, <1>5, <3>1
      <3> QED BY <3>1, <3>2
    <2> HIDE DEF Q
    <2>3. \A k \in Nat : k \in Q
      BY <2>1, <2>2, Rounds
    <2> QED BY <2>3 DEF Q
  <1> DEFINE n == Cardinality(Procs) + 1
  <1>7. n \in Nat /\ ~W(n)
    <2>1. n \in Nat /\ ~(n <= Cardinality(Procs))
      BY ProcsFinite
    <2> HIDE DEF n
    <2> QED BY <1>2, <2>1
  <1>8. E(n)
    <2> HIDE DEF E, W
    <2> QED BY <1>6, <1>7
  <1>9. Merge(h, a, b) = Calls(s, n).heap
    BY DEF Merge
  <1> HIDE DEF s, n
  <1> QED BY <1>8, <1>9 DEF Ended

\* The heap of the entries D, ordered by the strides st.
Tree(h, st, D) ==
  /\ h \in Heaps
  /\ Forest(h.left, h.right, h.parent, D, {h.root} \ {Null})
  /\ Ordered(st, h.left, h.right, D)
  /\ h.root # Null => h.parent[h.root] = Null

\* What hangs together does not depend on the links of other entries, nor on those up from
\* the roots.
LEMMA ForestAgrees ==
  ASSUME NEW l, NEW r, NEW u, NEW D, NEW R, Forest(l, r, u, D, R),
         NEW l2 \in [Procs -> Links], NEW r2 \in [Procs -> Links], NEW u2 \in [Procs -> Links],
         \A q \in D : l2[q] = l[q] /\ r2[q] = r[q],
         \A q \in D \ R : u2[q] = u[q]
  PROVE  /\ Forest(l2, r2, u2, D, R)
         /\ \A st : Ordered(st, l, r, D) => Ordered(st, l2, r2, D)
  <1>1. \A q \in D : Kids(l2, r2, q) = Kids(l, r, q)
    BY DEF Kids
  <1>2. \A S \in SUBSET D : DownClosed(l2, r2, S) => DownClosed(l, r, S)
    BY <1>1 DEF DownClosed
  <1>3. D \subseteq Procs /\ R \subseteq D
    BY DEF Forest
  <1>4. \A p \in D : l2[p] = r2[p] => l2[p] = Null
    BY DEF Forest
  <1>5. \A p \in D : \A c \in Kids(l2, r2, p) : c \in D \ R /\ u2[c] = p
    BY <1>1 DEF Forest
  <1>6. \A c \in D \ R : u2[c] \in D /\ c \in Kids(l2, r2, u2[c])
    BY <1>1 DEF Forest
  <1>7. \A S \in SUBSET D : R \subseteq S /\ DownClosed(l2, r2, S) => S = D
    BY <1>2 DEF Forest
  <1> QED BY <1>1, <1>3, <1>4, <1>5, <1>6, <1>7 DEF Forest, Ordered

\* An entry without links can be one more root.
LEMMA ForestGrows ==
  ASSUME NEW l, NEW r, NEW u, NEW D, NEW R, Forest(l, r, u, D, R),
         NEW p \in Procs \ D, l[p] = Null, r[p] = Null
  PROVE  /\ Forest(l, r, u, D \cup {p}, R \cup {p})
         /\ \A st : Ordered(st, l, r, D) => Ordered(st, l, r, D \cup {p})
  <1> DEFINE D2 == D \cup {p}
             R2 == R \cup {p}
  <1>1. Kids(l, r, p) = {}
    BY DEF Kids
  <1>2. /\ l \in [Procs -> Links] /\ r \in [Procs -> Links] /\ u \in [Procs -> Links]
        /\ D2 \subseteq Procs /\ R2 \subseteq D2
    BY DEF Forest
  <1>3. \A q \in D2 : l[q] = r[q] => l[q] = Null
    BY DEF Forest
  <1>4. \A q \in D2 : \A c \in Kids(l, r, q) : c \in D2 \ R2 /\ u[c] = q
    BY <1>1 DEF Forest
  <1>5. \A c \in D2 \ R2 : u[c] \in D2 /\ c \in Kids(l, r, u[c])
    BY DEF Forest
  <1>6. ASSUME NEW S \in SUBSET D2, R2 \subseteq S, DownClosed(l, r, S) PROVE S = D2
    <2>1. \A q \in S \ {p} : Kids(l, r, q) \subseteq S \ {p}
      BY <1>4, <1>6 DEF DownClosed
    <2>2. DownClosed(l, r, S \ {p})
      BY <2>1 DEF DownClosed
    <2>3. S \ {p} \in SUBSET D /\ R \subseteq S \ {p}
      BY <1>6 DEF Forest
    <2>4. S \ {p} = D
      BY <2>2, <2>3 DEF Forest
    <2> QED BY <1>6, <2>4
  <1>7. \A S \in SUBSET D2 : R2 \subseteq S /\ DownClosed(l, r, S) => S = D2
    BY <1>6
  <1>8. Forest(l, r, u, D2, R2)
    <2> HIDE DEF D2, R2
    <2> QED BY <1>2, <1>3, <1>4, <1>5, <1>7 DEF Forest
  <1>9. \A st : Ordered(st, l, r, D) => Ordered(st, l, r, D2)
    BY <1>1 DEF Ordered
  <1> QED BY <1>8, <1>9

\* Without its root, what hung below it are the roots.
LEMMA ForestShrinks ==
  ASSUME NEW l, NEW r, NEW u, NEW D, NEW p, Forest(l, r, u, D, {p})
  PROVE  /\ Forest(l, r, u, D \ {p}, Kids(l, r, p))
         /\ \A st : Ordered(st, l, r, D) => Ordered(st, l, r, D \ {p})
  <1> DEFINE D2 == D \ {p}
             R2 == Kids(l, r, p)
  <1>1. /\ l \in [Procs -> Links] /\ r \in [Procs -> Links] /\ u \in [Procs -> Links]
        /\ D \subseteq Procs /\ p \in D
        /\ \A q \in D : l[q] = r[q] => l[q] = Null
        /\ \A q \in D : \A c \in Kids(l, r, q) : c \in D \ {p} /\ u[c] = q
        /\ \A c \in D \ {p} : u[c] \in D /\ c \in Kids(l, r, u[c])
        /\ \A S \in SUBSET D : {p} \subseteq S /\ DownClosed(l, r, S) => S = D
    BY DEF Forest
  <1>2. D2 \subseteq Procs /\ R2 \subseteq D2
    BY <1>1
  <1>3. \A q \in D2 : l[q] = r[q] => l[q] = Null
    BY <1>1
  <1>4. \A q \in D2 : \A c \in Kids(l, r, q) : c \in D2 \ R2 /\ u[c] = q
    BY <1>1
  <1>5. \A c \in D2 \ R2 : u[c] \in D2 /\ c \in Kids(l, r, u[c])
    BY <1>1
  <1>6. ASSUME NEW S \in SUBSET D2, R2 \subseteq S, DownClosed(l, r, S) PROVE S = D2
    <2>1. DownClosed(l, r, S \cup {p})
      BY <1>6 DEF DownClosed
    <2>2. S \cup {p} = D
      BY <1>1, <2>1
    <2> QED BY <2>2
  <1>7. \A S \in SUBSET D2 : R2 \subseteq S /\ DownClosed(l, r, S) => S = D2
    BY <1>6
  <1>8. Forest(l, r, u, D2, R2)
    <2> HIDE DEF D2, R2
    <2> QED BY <1>1, <1>2, <1>3, <1>4, <1>5, <1>7 DEF Forest
  <1>9. \A st : Ordered(st, l, r, D) => Ordered(st, l, r, D2)
    BY DEF Ordered
  <1> QED BY <1>8, <1>9

\* skew_heap_init.
LEMMA SingleIs ==
  ASSUME NEW h \in Heaps, NEW p \in Procs
  PROVE  LET g == Single(h, p)
         IN  /\ g \in Heaps /\ g.root = h.root
             /\ g.left = Put(h.left, p, Null)
             /\ g.right = Put(h.right, p, Null)
             /\ g.parent = Put(h.parent, p, Null)
  <1> DEFINE g == [h EXCEPT !.left[p] = Null, !.right[p] = Null, !.parent[p] = Null]
  <1>1. g \in Heaps
    BY NullApart DEF Heaps
  <1>2. /\ g.root = h.root
        /\ g.left = [h.left EXCEPT ![p] = Null]
        /\ g.right = [h.right EXCEPT ![p] = Null]
        /\ g.parent = [h.parent EXCEPT ![p] = Null]
    BY DEF Heaps
  <1>3. h.left \in [Procs -> Links] /\ h.right \in [Procs -> Links] /\ h.parent \in [Procs -> Links]
    BY DEF Heaps
  <1> HIDE DEF g
  <1>4. /\ g.left = Put(h.left, p, Null) /\ g.right = Put(h.right, p, Null)
        /\ g.parent = Put(h.parent, p, Null)
    BY <1>2, <1>3, PutIs, NullApart
  <1>5. Single(h, p) = g
    BY DEF Single, g
  <1> QED BY <1>1, <1>2, <1>4, <1>5

\* skew_heap_insert.
LEMMA InsertOK ==
  ASSUME NEW h, NEW D, Tree(h, stride, D), NEW p \in Procs \ D
  PROVE  Tree(Insert(h, p), stride, D \cup {p})
  <1> DEFINE g == Single(h, p)
             i == Insert(h, p)
  <1>1. h \in Heaps /\ Forest(h.left, h.right, h.parent, D, {h.root} \ {Null}) /\ D \subseteq Procs
    BY DEF Tree, Forest
  <1>2. /\ g \in Heaps /\ g.root = h.root
        /\ g.left = Put(h.left, p, Null) /\ g.right = Put(h.right, p, Null)
        /\ g.parent = Put(h.parent, p, Null)
    BY <1>1, SingleIs
  <1>3. /\ g.left \in [Procs -> Links] /\ g.right \in [Procs -> Links] /\ g.parent \in [Procs -> Links]
        /\ h.root \in Links
    BY <1>1, <1>2, HeapFields
  <1>4. Merge(g, h.root, p) = i
    BY DEF Insert
  <1> HIDE DEF g, i
  <1>5. /\ g.left[p] = Null /\ g.right[p] = Null /\ g.parent[p] = Null
        /\ \A q \in D : g.left[q] = h.left[q] /\ g.right[q] = h.right[q] /\ g.parent[q] = h.parent[q]
    BY <1>1, <1>2 DEF Put
  <1>6. Forest(g.left, g.right, g.parent, D, {h.root} \ {Null}) /\ Ordered(stride, g.left, g.right, D)
    <2>1. Forest(g.left, g.right, g.parent, D, {h.root} \ {Null})
      BY <1>1, <1>3, <1>5, ForestAgrees
    <2>2. Ordered(stride, h.left, h.right, D)
      BY DEF Tree
    <2>3. Ordered(stride, g.left, g.right, D)
      BY <1>1, <1>3, <1>5, <2>2, ForestAgrees
    <2> QED BY <2>1, <2>3
  <1>7. /\ Forest(g.left, g.right, g.parent, D \cup {p}, ({h.root} \ {Null}) \cup {p})
        /\ Ordered(stride, g.left, g.right, D \cup {p})
    BY <1>5, <1>6, ForestGrows
  <1>8. h.root \in D \cup {Null} /\ p # h.root /\ p # Null
    BY <1>1, NullApart DEF Forest
  <1>9. ({h.root} \ {Null}) \cup {p} = {h.root, p} \ {Null}
    BY <1>8
  <1>10. Merged(i, D \cup {p}, h.root, p, g.parent)
    BY <1>2, <1>4, <1>7, <1>8, <1>9, MergeOK
  <1>11. i.root # Null => i.parent[i.root] = Null
    <2>1. i.root \in {h.root, p} /\ (i.root # Null => i.parent[i.root] = g.parent[i.root])
      BY <1>10 DEF Merged
    <2>2. h.root # Null => g.parent[h.root] = Null
      BY <1>5, <1>8 DEF Tree
    <2> QED BY <1>5, <2>1, <2>2
  <1> QED BY <1>10, <1>11 DEF Merged, Tree, i

\* skew_heap_remove, of the root.
LEMMA RemoveOK ==
  ASSUME NEW h, NEW D, Tree(h, stride, D), h.root # Null
  PROVE  h.root \in D /\ Tree(Remove(h, h.root), stride, D \ {h.root})
  <1> DEFINE p == h.root
             a == h.left[p]
             b == h.right[p]
             E == D \ {p}
             g == Merge(h, a, b)
             k == IF g.root = Null THEN g ELSE [g EXCEPT !.parent[g.root] = Null]
             i == Single(k, p)
  <1>1. /\ h \in Heaps /\ Forest(h.left, h.right, h.parent, D, {p}) /\ p \in D /\ D \subseteq Procs
        /\ h.parent[p] = Null /\ Ordered(stride, h.left, h.right, D)
    <2>1. {h.root} \ {Null} = {p}
      OBVIOUS
    <2> QED BY <2>1 DEF Tree, Forest
  <1>2. Remove(h, p) = i
    BY <1>1 DEF Remove
  <1> HIDE DEF p, g, k, i
  <1>3. Forest(h.left, h.right, h.parent, E, {a, b} \ {Null}) /\ Ordered(stride, h.left, h.right, E)
    BY <1>1, ForestShrinks DEF Kids
  <1>4. a \in E \cup {Null} /\ b \in E \cup {Null} /\ (a = b => a = Null)
    <2>1. {a, b} \ {Null} \subseteq E
      BY <1>3 DEF Forest
    <2>2. a = b => a = Null
      BY <1>1 DEF Forest
    <2> QED BY <2>1, <2>2
  <1> HIDE DEF a, b
  <1>5. Merged(g, E, a, b, h.parent)
    <2> HIDE DEF E
    <2> QED BY <1>1, <1>3, <1>4, MergeOK DEF g
  <1>6. /\ g \in Heaps /\ Forest(g.left, g.right, g.parent, E, {g.root} \ {Null})
        /\ Ordered(stride, g.left, g.right, E)
    BY <1>5 DEF Merged
  <1>7. /\ g.left \in [Procs -> Links] /\ g.right \in [Procs -> Links] /\ g.parent \in [Procs -> Links]
        /\ g.root \in Links /\ E \subseteq Procs /\ p \in Procs /\ p \notin E /\ g.root \in E \cup {Null}
    <2>1. g.root \in E \cup {Null}
      BY <1>6 DEF Forest
    <2> QED BY <1>1, <1>6, <2>1, HeapFields
  <1>8. /\ k \in Heaps /\ k.root = g.root /\ k.left = g.left /\ k.right = g.right
        /\ g.root # Null => k.parent = Put(g.parent, g.root, Null)
        /\ g.root = Null => k.parent = g.parent
    <2>1. CASE g.root = Null
      BY <1>6, <2>1 DEF k
    <2>2. CASE g.root # Null
      <3>1. g.root \in Procs
        BY <1>7, <2>2
      <3>2. k = [g EXCEPT !.parent[g.root] = Null]
        BY <2>2 DEF k
      <3>3. /\ k \in Heaps /\ k.root = g.root /\ k.left = g.left /\ k.right = g.right
            /\ k.parent = [g.parent EXCEPT ![g.root] = Null]
        BY <1>6, <3>1, <3>2, NullApart DEF Heaps
      <3>4. k.parent = Put(g.parent, g.root, Null)
        BY <1>7, <3>3, PutIs, NullApart
      <3> QED BY <2>2, <3>3, <3>4
    <2> QED BY <2>1, <2>2
  <1>9. /\ i \in Heaps /\ i.root = g.root
        /\ i.left = Put(g.left, p, Null) /\ i.right = Put(g.right, p, Null)
        /\ i.parent = Put(k.parent, p, Null)
    BY <1>7, <1>8, SingleIs DEF i
  <1>10. i.left \in [Procs -> Links] /\ i.right \in [Procs -> Links] /\ i.parent \in [Procs -> Links]
    BY <1>9, HeapFields
  <1>11. /\ \A q \in E : i.left[q] = g.left[q] /\ i.right[q] = g.right[q]
         /\ \A q \in E \ ({g.root} \ {Null}) : i.parent[q] = g.parent[q]
         /\ g.root # Null => i.parent[g.root] = Null
    <2>1. \A q \in E : q # p /\ q \in Procs /\ q # Null
      BY <1>7, NullApart
    <2>2. \A q \in E : i.left[q] = g.left[q] /\ i.right[q] = g.right[q]
      BY <1>9, <2>1 DEF Put
    <2>3. \A q \in E : i.parent[q] = k.parent[q]
      BY <1>9, <2>1 DEF Put
    <2>4. \A q \in E \ ({g.root} \ {Null}) : k.parent[q] = g.parent[q]
      BY <1>8, <2>1 DEF Put
    <2>5. g.root # Null => k.parent[g.root] = Null /\ g.root \in E
      BY <1>7, <1>8 DEF Put
    <2> QED BY <2>2, <2>3, <2>4, <2>5
  <1> HIDE DEF E
  <1>12. Forest(i.left, i.right, i.parent, E, {i.root} \ {Null})
    BY <1>6, <1>9, <1>10, <1>11, ForestAgrees
  <1>13. Ordered(stride, i.left, i.right, E)
    BY <1>6, <1>10, <1>11, ForestAgrees
  <1>14. Tree(i, stride, E)
    BY <1>9, <1>11, <1>12, <1>13 DEF Tree
  <1> QED BY <1>1, <1>2, <1>14 DEF p, E

\* The heap is ordered by other strides, too, if they are those of its entries.
LEMMA TreeAgrees ==
  ASSUME NEW h, NEW st, NEW D, Tree(h, st, D), NEW st2, \A q \in D : st2[q] = st[q]
  PROVE  Tree(h, st2, D)
  <1>1. \A p \in D : \A c \in Kids(h.left, h.right, p) : c \in D
    BY DEF Tree, Forest
  <1>2. \A p \in D : \A c \in Kids(h.left, h.right, p) : Over(st2, p, c)
    BY <1>1 DEF Tree, Ordered, Over
  <1> QED BY <1>2 DEF Tree, Ordered

\* It has a root when it has an entry.
LEMMA TreeEmpty ==
  ASSUME NEW h, NEW st, NEW D, Tree(h, st, D)
  PROVE  h.root = Null <=> D = {}
  <1>1. Forest(h.left, h.right, h.parent, D, {h.root} \ {Null})
    BY DEF Tree
  <1>2. h.root = Null => DownClosed(h.left, h.right, {})
    BY DEF DownClosed
  <1> QED BY <1>1, <1>2 DEF Forest

-----------------------------------------------------------------------------
(* Words. *)

\* A word has one bit more than BIG_STRIDE.
LEMMA WordIs == Big \in Nat /\ Word = 2 * Big + 2 /\ Word \in Nat /\ Word > 0
  BY StrideAssumption DEF Word

\* What a word is after an addition or a subtraction.
LEMMA ModIs ==
  ASSUME NEW x \in Int
  PROVE  /\ x % Word \in 0..Word-1
         /\ x \in 0..Word-1 => x % Word = x
         /\ x \in -Word..-1 => x % Word = x + Word
         /\ x \in Word..2*Word-1 => x % Word = x - Word
  <1>1. Word \in Nat \ {0}
    BY WordIs
  <1> DEFINE w == Word
  <1>2. w \in Nat \ {0}
    BY <1>1
  <1> HIDE DEF w
  <1>3. x % w \in 0..w-1
    BY <1>2
  <1>4. x \in 0..w-1 => x % w = x
    BY <1>2
  <1>5. x \in -w..-1 => x % w = x + w
    BY <1>2
  <1>6. x \in w..2*w-1 => x % w = x - w
    BY <1>2
  <1> QED BY <1>3, <1>4, <1>5, <1>6 DEF w

\* The distances from z, when they are at most BIG_STRIDE, are ordered as the words are.
LEMMA Distances ==
  ASSUME NEW x \in 0..Word-1, NEW y \in 0..Word-1, NEW z \in 0..Word-1,
         (x - z) % Word <= Big, (y - z) % Word <= Big
  PROVE  /\ (x - y) % Word > Big <=> (x - z) % Word < (y - z) % Word
         /\ (y - z) % Word <= (x - z) % Word => (x - y) % Word <= Big
  <1> DEFINE D(i, j) == (i - j) % Word
  <1>1. \A i, j \in 0..Word-1 : D(i, j) = IF j <= i THEN i - j ELSE i - j + Word
    <2> SUFFICES ASSUME NEW i \in 0..Word-1, NEW j \in 0..Word-1
                 PROVE  D(i, j) = IF j <= i THEN i - j ELSE i - j + Word
      OBVIOUS
    <2>1. i - j \in Int /\ (j <= i => i - j \in 0..Word-1) /\ (~(j <= i) => i - j \in -Word..-1)
      BY WordIs
    <2> QED BY <2>1, ModIs
  <1> HIDE DEF D
  <1>2. /\ D(x, z) = IF z <= x THEN x - z ELSE x - z + Word
        /\ D(y, z) = IF z <= y THEN y - z ELSE y - z + Word
        /\ D(x, y) = IF y <= x THEN x - y ELSE x - y + Word
    BY <1>1
  <1>3. D(x, z) <= Big /\ D(y, z) <= Big
    BY DEF D
  <1>4. (D(x, y) > Big <=> D(x, z) < D(y, z)) /\ (D(y, z) <= D(x, z) => D(x, y) <= Big)
    BY <1>2, <1>3, WordIs
  <1> QED BY <1>4 DEF D

\* Advancing by at most BIG_STRIDE.
LEMMA Advance ==
  ASSUME NEW x \in 0..Word-1, NEW n \in 0..Big
  PROVE  (x + n) % Word \in 0..Word-1 /\ (((x + n) % Word) - x) % Word = n
  <1> DEFINE v == x + n
             y == v % Word
  <1>1. v \in Int /\ (v \in 0..Word-1 \/ v \in Word..2*Word-1)
    BY WordIs
  <1> HIDE DEF v
  <1>2. y \in 0..Word-1 /\ (y = v \/ y = v - Word)
    BY <1>1, ModIs
  <1> HIDE DEF y
  <1>3. y - x = n \/ y - x = n - Word
    BY <1>2, WordIs DEF v
  <1>4. n \in 0..Word-1 /\ n - Word \in -Word..-1 /\ y - x \in Int
    BY <1>2, WordIs
  <1>5. (y - x) % Word = n
    <2>1. CASE y - x = n
      BY <1>4, <2>1, ModIs
    <2>2. CASE y - x = n - Word
      <3>1. (y - x) % Word = (y - x) + Word
        BY <1>4, <2>2, ModIs
      <3> QED BY <2>2, <3>1, WordIs
    <2> QED BY <1>3, <2>1, <2>2
  <1> QED BY <1>2, <1>5 DEF y, v

\* All of D are at most BIG_STRIDE ahead of stride z.
Ahead(st, D, z) == z \in 0..Word-1 /\ \A p \in D : (st[p] - z) % Word <= Big

\* Then they are ahead of the stride of one of them.
LEMMA WindowBegins ==
  ASSUME NEW st \in [Procs -> 0..Word-1], NEW D \in SUBSET Procs, D # {}, NEW z, Ahead(st, D, z)
  PROVE  \E m \in D : Ahead(st, D, st[m])
  <1> DEFINE o(p) == (st[p] - z) % Word
             T == {o(p) : p \in D}
  <1>1. \A p \in D : st[p] \in 0..Word-1 /\ z \in 0..Word-1 /\ o(p) <= Big
    BY DEF Ahead
  <1>2. \A p \in D : o(p) \in Nat
    <2> SUFFICES ASSUME NEW p \in D PROVE o(p) \in Nat
      OBVIOUS
    <2>1. st[p] - z \in Int
      BY <1>1
    <2>2. o(p) \in 0..Word-1
      BY <2>1, ModIs
    <2> QED BY <2>2
  <1> HIDE DEF o
  <1>3. T \subseteq Nat /\ T # {}
    BY <1>2
  <1>4. PICK n \in T : \A k \in T : n <= k
    BY <1>3, Smallest
  <1>5. PICK m \in D : o(m) = n
    BY <1>4
  <1>6. \A p \in D : o(m) <= o(p)
    BY <1>4, <1>5
  <1>7. \A p \in D : (st[p] - st[m]) % Word <= Big
    <2> SUFFICES ASSUME NEW p \in D PROVE (st[p] - st[m]) % Word <= Big
      OBVIOUS
    <2> QED BY <1>1, <1>6, Distances DEF o
  <1> QED BY <1>1, <1>7 DEF Ahead

\* In a window nobody in the heap comes before its root.
LEMMA RootFirst ==
  ASSUME NEW h, NEW st \in [Procs -> 0..Word-1], NEW D, Tree(h, st, D), h.root # Null,
         NEW z, Ahead(st, D, z)
  PROVE  Ahead(st, D, st[h.root])
  <1> DEFINE o(p) == (st[p] - z) % Word
             S == {q \in D : o(h.root) <= o(q)}
  <1>1. /\ D \subseteq Procs /\ h.root \in D
        /\ \A p \in D : \A c \in Kids(h.left, h.right, p) : c \in D
        /\ \A X \in SUBSET D : {h.root} \subseteq X /\ DownClosed(h.left, h.right, X) => X = D
    <2>1. {h.root} \ {Null} = {h.root}
      OBVIOUS
    <2> QED BY <2>1 DEF Tree, Forest
  <1>2. \A p \in D : st[p] \in 0..Word-1 /\ z \in 0..Word-1 /\ (st[p] - z) % Word <= Big
    BY <1>1 DEF Ahead
  <1>3. \A p \in D : o(p) \in Nat
    <2> SUFFICES ASSUME NEW p \in D PROVE o(p) \in Nat
      OBVIOUS
    <2>1. st[p] - z \in Int
      BY <1>2
    <2>2. o(p) \in 0..Word-1
      BY <2>1, ModIs
    <2> QED BY <2>2
  <1>4. \A p \in D : \A c \in Kids(h.left, h.right, p) : o(p) <= o(c)
    <2> SUFFICES ASSUME NEW p \in D, NEW c \in Kids(h.left, h.right, p) PROVE o(p) <= o(c)
      OBVIOUS
    <2>1. c \in D /\ Over(st, p, c)
      BY <1>1 DEF Tree, Ordered
    <2>2. (st[p] - st[c]) % Word > Big => o(p) < o(c)
      BY <1>2, <2>1, Distances
    <2>3. (st[c] - st[p]) % Word > Big <=> o(c) < o(p)
      BY <1>2, <2>1, Distances
    <2> HIDE DEF o
    <2> QED BY <1>3, <2>1, <2>2, <2>3 DEF Over
  <1> HIDE DEF o
  <1>5. DownClosed(h.left, h.right, S)
    BY <1>1, <1>3, <1>4 DEF DownClosed
  <1>6. h.root \in S
    BY <1>1, <1>3
  <1>7. \A q \in D : o(h.root) <= o(q)
    BY <1>1, <1>5, <1>6
  <1>8. \A q \in D : (st[q] - st[h.root]) % Word <= Big
    <2> SUFFICES ASSUME NEW q \in D PROVE (st[q] - st[h.root]) % Word <= Big
      OBVIOUS
    <2> QED BY <1>1, <1>2, <1>7, Distances DEF o
  <1> QED BY <1>1, <1>2, <1>8 DEF Ahead

-----------------------------------------------------------------------------
(* The inductive invariant. *)

\* The heap holds those who wait.
StrideInv == TypeOK /\ Tree(pool, stride, Waiting)

\* pick_next advances by at most BIG_STRIDE.
LEMMA PassIs ==
  ASSUME TypeOK, NEW p \in Procs
  PROVE  Pass(p) \in 0..Big /\ Advanced(p) \in 0..Word-1
  <1>0. Big \in Nat /\ Priorities \subseteq 1..Big /\ stride[p] \in 0..Word-1 /\ priority[p] \in Priorities \cup {0}
    BY StrideAssumption DEF TypeOK
  <1>1. priority[p] \in 0..Big
    <2>1. CASE priority[p] = 0
      BY <1>0, <2>1
    <2>2. CASE priority[p] \in Priorities
      <3>1. priority[p] \in 1..Big
        BY <1>0, <2>2
      <3> QED BY <1>0, <3>1
    <2> QED BY <1>0, <2>1, <2>2
  <1>2. Pass(p) \in 0..Big
    <2>1. CASE priority[p] = 0
      BY <1>0, <2>1 DEF Pass
    <2>2. CASE priority[p] # 0
      <3> DEFINE n == priority[p]
      <3>1. n \in 1..Big
        BY <1>0, <1>1, <2>2
      <3> HIDE DEF n
      <3>2. Big \div n \in 0..Big
        BY <1>0, <3>1
      <3> QED BY <2>2, <3>2 DEF Pass, n
    <2> QED BY <2>1, <2>2
  <1>3. (stride[p] + Pass(p)) % Word \in 0..Word-1
    BY <1>0, <1>2, Advance
  <1> QED BY <1>2, <1>3 DEF Advanced

\* A slice that stride_enqueue has looked at is no longer than MAX_TIME_SLICE.
LEMMA RenewedIs ==
  ASSUME NEW n \in Nat
  PROVE  Renewed(n) \in 0..MaxSlice
  BY StrideAssumption DEF Renewed

\* Who waits is a process that is ready, and not the running one.
LEMMA WaitingIs ==
  /\ Waiting = Ready \ {current} /\ Ready \subseteq Procs /\ Waiting \subseteq Procs
  /\ \A p \in Procs : p \in Ready <=> state[p] = "ready"
  BY DEF Waiting, Ready

\* At the start initproc is the heap.
LEMMA InvInit == Init => StrideInv
  <1> SUFFICES ASSUME Init PROVE StrideInv
    OBVIOUS
  <1> USE DEF Init
  <1>1. init \in Procs /\ init # Null /\ init # idle /\ init \in Links /\ Null \in Links
    BY StrideAssumption, NullApart DEF Procs
  <1>2. TypeOK
    <2>1. 0 \in 0..Word-1 /\ 0 \in 0..MaxSlice /\ MaxSlice \in 0..MaxSlice
      BY WordIs, StrideAssumption
    <2>2. pool \in Heaps
      BY <1>1 DEF Heaps
    <2> QED BY <2>1, <2>2 DEF TypeOK
  <1>3. Waiting = {init}
    BY <1>1 DEF Waiting, Ready
  <1>4. /\ pool.root = init
        /\ \A p \in Procs : pool.left[p] = Null /\ pool.right[p] = Null /\ pool.parent[p] = Null
    BY DEF Heaps
  <1>5. pool \in Heaps
    BY <1>2 DEF TypeOK
  <1> HIDE DEF Init
  <1>6. \A p \in Procs : Kids(pool.left, pool.right, p) = {}
    BY <1>4 DEF Kids
  <1>7. Forest(pool.left, pool.right, pool.parent, {init}, {init})
    <2>1. pool.left \in [Procs -> Links] /\ pool.right \in [Procs -> Links] /\ pool.parent \in [Procs -> Links]
      BY <1>5, HeapFields
    <2> QED BY <1>1, <1>4, <1>6, <2>1 DEF Forest
  <1>8. Ordered(stride, pool.left, pool.right, {init})
    BY <1>1, <1>6 DEF Ordered
  <1>9. {pool.root} \ {Null} = {init}
    BY <1>1, <1>4
  <1> QED BY <1>1, <1>2, <1>3, <1>4, <1>5, <1>7, <1>8, <1>9 DEF StrideInv, Tree

\* What schedule() finds in the heap after it has put current back: everybody who is ready.
Again == current # idle /\ state[current] = "ready"
Found == IF Again THEN Insert(pool, current) ELSE pool

\* It is the heap of all who compete.
LEMMA FoundReady == ASSUME StrideInv PROVE Tree(Found, stride, Ready)
  <1>1. /\ Tree(pool, stride, Waiting) /\ current \in Procs \cup {idle} /\ idle \notin Procs
        /\ \A p \in Procs : p \in Ready <=> state[p] = "ready"
        /\ Waiting = Ready \ {current} /\ Ready \subseteq Procs
    BY WaitingIs, StrideAssumption DEF StrideInv, TypeOK
  <1>2. CASE Again
    <2>1. current \in Procs \ Waiting /\ current \in Ready
      BY <1>1, <1>2 DEF Again
    <2>2. Tree(Insert(pool, current), stride, Waiting \cup {current})
      BY <1>1, <2>1, InsertOK
    <2>3. Waiting \cup {current} = Ready
      BY <1>1, <2>1
    <2> QED BY <1>2, <2>2, <2>3 DEF Found
  <1>3. CASE ~Again
    <2>1. Waiting = Ready
      BY <1>1, <1>3 DEF Again
    <2> QED BY <1>1, <1>3, <2>1 DEF Found
  <1> QED BY <1>2, <1>3

\* What schedule() does with it.
LEMMA ScheduleIs ==
  ASSUME Schedule
  PROVE  /\ slice' = IF Again THEN [slice EXCEPT ![current] = Renewed(@)] ELSE slice
         /\ need_resched' = FALSE /\ UNCHANGED <<state, priority>>
         /\ Found.root = Null => current' = idle /\ stride' = stride /\ pool' = Found
         /\ Found.root # Null => /\ current' = Found.root
                                 /\ stride' = [stride EXCEPT ![Found.root] = Advanced(Found.root)]
                                 /\ pool' = Remove(Found, Found.root)
  BY DEF Schedule, Again, Found

\* schedule() takes the one it runs out of the heap, whose stride is not compared until it
\* comes back.
LEMMA ScheduleTree == ASSUME StrideInv, Schedule PROVE Tree(pool', stride', Waiting')
  <1>1. Tree(Found, stride, Ready)
    BY FoundReady
  <1>2. state' = state /\ Ready' = Ready /\ Waiting' = Ready \ {current'}
    BY ScheduleIs DEF Ready, Waiting
  <1>3. CASE Found.root = Null
    <2>1. stride' = stride /\ pool' = Found /\ Ready = {}
      BY <1>1, <1>3, ScheduleIs, TreeEmpty
    <2> QED BY <1>1, <1>2, <2>1
  <1>4. CASE Found.root # Null
    <2> DEFINE p == Found.root
    <2>1. current' = p /\ stride' = [stride EXCEPT ![p] = Advanced(p)] /\ pool' = Remove(Found, p)
      BY <1>4, ScheduleIs
    <2>2. p \in Ready /\ Tree(Remove(Found, p), stride, Ready \ {p})
      BY <1>1, <1>4, RemoveOK
    <2>3. \A q \in Ready \ {p} : stride'[q] = stride[q]
      BY <2>1 DEF StrideInv, TypeOK, Ready
    <2> HIDE DEF p
    <2>4. Tree(pool', stride', Ready \ {p})
      BY <2>1, <2>2, <2>3, TreeAgrees
    <2> QED BY <1>2, <2>1, <2>4
  <1> QED BY <1>3, <1>4

\* It keeps the types.
LEMMA ScheduleType == ASSUME StrideInv, Schedule PROVE TypeOK'
  <1>1. pool' \in Heaps
    BY ScheduleTree DEF Tree
  <1>2. /\ current \in Procs \cup {idle} /\ slice \in [Procs -> 0..MaxSlice]
        /\ stride \in [Procs -> 0..Word-1]
    BY DEF StrideInv, TypeOK
  <1>3. slice' \in [Procs -> 0..MaxSlice]
    <2>1. Again => current \in Procs /\ slice[current] \in Nat
      BY <1>2 DEF Again
    <2>2. Again => Renewed(slice[current]) \in 0..MaxSlice
      BY <2>1, RenewedIs
    <2> QED BY <1>2, <2>1, <2>2, ScheduleIs
  <1>4. Found.root # Null => Found.root \in Procs
    <2>1. Tree(Found, stride, Ready)
      BY FoundReady
    <2>2. Found \in Heaps
      BY <2>1 DEF Tree
    <2> QED BY <2>2, HeapFields DEF Links
  <1>5. Found.root # Null => Advanced(Found.root) \in 0..Word-1
    BY <1>4, PassIs DEF StrideInv
  <1>6. stride' \in [Procs -> 0..Word-1] /\ current' \in Procs \cup {idle}
    BY <1>2, <1>4, <1>5, ScheduleIs
  <1>7. state' = state /\ priority' = priority /\ need_resched' = FALSE
    BY ScheduleIs
  <1> QED BY <1>1, <1>3, <1>6, <1>7 DEF StrideInv, TypeOK

\* The other steps that change the heap insert process p, which was not ready.
LEMMA JoinTree ==
  ASSUME StrideInv, NEW p \in Procs, p \notin Ready, p # current,
         state' = [state EXCEPT ![p] = "ready"], pool' = Insert(pool, p), UNCHANGED <<current, stride>>
  PROVE  Tree(pool', stride', Waiting')
  <1>1. Tree(pool, stride, Waiting) /\ p \in Procs \ Waiting
    BY DEF StrideInv, Waiting
  <1>2. Tree(Insert(pool, p), stride, Waiting \cup {p})
    BY <1>1, InsertOK
  <1>3. Waiting' = Waiting \cup {p}
    BY DEF StrideInv, TypeOK, Waiting, Ready
  <1> QED BY <1>2, <1>3

\* Those that change neither the heap nor who waits in it.
LEMMA SameTree ==
  ASSUME StrideInv, pool' = pool, Waiting' = Waiting, \A q \in Waiting : stride'[q] = stride[q]
  PROVE  Tree(pool', stride', Waiting')
  <1>1. Tree(pool, stride, Waiting)
    BY DEF StrideInv
  <1>2. Tree(pool, stride', Waiting)
    BY <1>1, TreeAgrees
  <1> QED BY <1>2

\* Every step keeps the invariant.
LEMMA InvNext == StrideInv /\ [Next]_vars => StrideInv'
  <1> SUFFICES ASSUME StrideInv, [Next]_vars PROVE StrideInv'
    OBVIOUS
  <1>0. /\ TypeOK /\ current \in Procs \cup {idle} /\ idle \notin Procs
        /\ state \in [Procs -> {"ready", "asleep", "none"}] /\ stride \in [Procs -> 0..Word-1]
        /\ slice \in [Procs -> 0..MaxSlice] /\ priority \in [Procs -> Priorities \cup {0}]
    BY StrideAssumption DEF StrideInv, TypeOK
  <1>1. CASE Schedule
    BY <1>1, ScheduleTree, ScheduleType DEF StrideInv
  <1>2. CASE Tick
    <2>1. current' = current /\ state' = state /\ stride' = stride /\ pool' = pool /\ priority' = priority
      BY <1>2 DEF Tick
    <2>2. Waiting' = Waiting
      BY <2>1 DEF Waiting, Ready
    <2>3. slice' \in [Procs -> 0..MaxSlice] /\ need_resched' \in BOOLEAN
      <3>1. CASE current = idle
        BY <1>0, <1>2, <3>1 DEF Tick
      <3>2. CASE current # idle
        <4>1. current \in Procs /\ slice[current] \in 0..MaxSlice /\ MaxSlice \in Nat
          BY <1>0, <3>2, StrideAssumption
        <4> DEFINE n == IF slice[current] > 0 THEN slice[current] - 1 ELSE 0
        <4>2. n \in 0..MaxSlice
          BY <4>1
        <4>3. slice' = [slice EXCEPT ![current] = n] /\ need_resched' = (need_resched \/ n = 0)
          BY <1>2, <3>2 DEF Tick
        <4>4. need_resched' \in BOOLEAN
          BY <4>3
        <4> HIDE DEF n
        <4> QED BY <1>0, <4>1, <4>2, <4>3, <4>4
      <3> QED BY <3>1, <3>2
    <2>4. TypeOK'
      BY <2>1, <2>3 DEF StrideInv, TypeOK
    <2>5. Tree(pool', stride', Waiting')
      BY <2>1, <2>2, SameTree
    <2> QED BY <2>4, <2>5 DEF StrideInv
  <1>3. ASSUME NEW p \in Procs, Yield(p) PROVE StrideInv'
    <2>1. /\ need_resched' = TRUE
          /\ UNCHANGED <<current, state, stride, priority, slice, pool>>
      BY <1>3 DEF Yield
    <2>2. Waiting' = Waiting
      BY <2>1 DEF Waiting, Ready
    <2>3. TypeOK'
      BY <2>1 DEF StrideInv, TypeOK
    <2> QED BY <2>1, <2>2, <2>3, SameTree DEF StrideInv
  <1>4. ASSUME NEW p \in Procs, NEW n \in Priorities, SetPriority(p, n) PROVE StrideInv'
    <2>1. /\ priority' = [priority EXCEPT ![p] = n]
          /\ UNCHANGED <<current, state, need_resched, stride, slice, pool>>
      BY <1>4 DEF SetPriority
    <2>2. Waiting' = Waiting
      BY <2>1 DEF Waiting, Ready
    <2>3. TypeOK'
      BY <1>0, <2>1 DEF StrideInv, TypeOK
    <2> QED BY <2>1, <2>2, <2>3, SameTree DEF StrideInv
  <1>5. ASSUME NEW p \in Procs, Block(p) PROVE StrideInv'
    <2>1. /\ current = p /\ state' = [state EXCEPT ![p] = "asleep"]
          /\ UNCHANGED <<current, need_resched, stride, priority, slice, pool>>
      BY <1>5 DEF Block, Running
    <2>2. Waiting' = Waiting
      BY <1>0, <2>1 DEF Waiting, Ready
    <2>3. TypeOK'
      BY <1>0, <2>1 DEF StrideInv, TypeOK
    <2> QED BY <2>1, <2>2, <2>3, SameTree DEF StrideInv
  <1>6. ASSUME NEW p \in Procs, Exit(p) PROVE StrideInv'
    <2>1. /\ current = p /\ state' = [state EXCEPT ![p] = "none"]
          /\ stride' = [stride EXCEPT ![p] = 0] /\ priority' = [priority EXCEPT ![p] = 0]
          /\ slice' = [slice EXCEPT ![p] = 0]
          /\ UNCHANGED <<current, need_resched, pool>>
      BY <1>6 DEF Exit, Running
    <2>2. Waiting' = Waiting
      BY <1>0, <2>1 DEF Waiting, Ready
    <2>3. 0 \in 0..Word-1 /\ 0 \in 0..MaxSlice
      BY WordIs, StrideAssumption
    <2>4. TypeOK'
      BY <1>0, <2>1, <2>3 DEF StrideInv, TypeOK
    <2>5. \A q \in Waiting : stride'[q] = stride[q]
      BY <1>0, <2>1 DEF Waiting, Ready
    <2> QED BY <2>1, <2>2, <2>4, <2>5, SameTree DEF StrideInv
  <1>7. ASSUME NEW p \in Procs, Wakeup(p) PROVE StrideInv'
    <2>1. /\ state[p] = "asleep" /\ state' = [state EXCEPT ![p] = "ready"]
          /\ UNCHANGED <<current, need_resched, stride, priority>>
      BY <1>7 DEF Wakeup
    <2>2. p \notin Ready
      BY <2>1 DEF Ready
    <2>3. CASE p = current
      <3>1. pool' = pool /\ slice' = slice
        BY <1>7, <2>3 DEF Wakeup
      <3>2. Waiting' = Waiting
        BY <1>0, <2>1, <2>3 DEF Waiting, Ready
      <3>3. TypeOK'
        BY <1>0, <2>1, <3>1 DEF StrideInv, TypeOK
      <3> QED BY <2>1, <3>1, <3>2, <3>3, SameTree DEF StrideInv
    <2>4. CASE p # current
      <3>1. pool' = Insert(pool, p) /\ slice' = [slice EXCEPT ![p] = Renewed(@)]
        BY <1>7, <2>4 DEF Wakeup
      <3>2. Tree(pool', stride', Waiting')
        BY <2>1, <2>2, <2>4, <3>1, JoinTree
      <3>3. Renewed(slice[p]) \in 0..MaxSlice
        BY <1>0, RenewedIs
      <3>4. pool' \in Heaps
        BY <3>2 DEF Tree
      <3>5. TypeOK'
        BY <1>0, <2>1, <3>1, <3>3, <3>4 DEF StrideInv, TypeOK
      <3> QED BY <3>2, <3>5 DEF StrideInv
    <2> QED BY <2>3, <2>4
  <1>8. ASSUME NEW p \in Procs, NEW c \in Late, Fork(p, c) PROVE StrideInv'
    <2>1. /\ c # current /\ state[c] = "none" /\ state' = [state EXCEPT ![c] = "ready"]
          /\ slice' = [slice EXCEPT ![c] = Renewed(0)] /\ pool' = Insert(pool, c)
          /\ UNCHANGED <<current, need_resched, stride, priority>>
      BY <1>8 DEF Fork
    <2>2. c \in Procs /\ c \notin Ready
      BY <2>1 DEF Ready, Procs
    <2>3. Tree(pool', stride', Waiting')
      BY <2>1, <2>2, JoinTree
    <2>4. Renewed(0) \in 0..MaxSlice
      BY RenewedIs
    <2>5. pool' \in Heaps
      BY <2>3 DEF Tree
    <2>6. TypeOK'
      BY <1>0, <2>1, <2>2, <2>4, <2>5 DEF StrideInv, TypeOK
    <2> QED BY <2>3, <2>6 DEF StrideInv
  <1>9. CASE UNCHANGED vars
    <2>1. UNCHANGED <<current, state, need_resched, stride, priority, slice, pool>>
      BY <1>9 DEF vars
    <2>2. Waiting' = Waiting
      BY <2>1 DEF Waiting, Ready
    <2>3. TypeOK'
      BY <2>1 DEF StrideInv, TypeOK
    <2> QED BY <2>1, <2>2, <2>3, SameTree DEF StrideInv
  <1> QED BY <1>1, <1>2, <1>3, <1>4, <1>5, <1>6, <1>7, <1>8, <1>9 DEF Next

\* It always holds.
LEMMA Inv == Spec => []StrideInv
  BY InvInit, InvNext, PTL DEF Spec

-----------------------------------------------------------------------------
(* The heap holds who waits. *)

\* Who is reached from the root is who waits, and the links up lead back.
LEMMA PoolRight == StrideInv => PoolExact
  <1> SUFFICES ASSUME StrideInv PROVE PoolExact
    OBVIOUS
  <1> DEFINE l == pool.left
             r == pool.right
             u == pool.parent
             R == {pool.root} \ {Null}
             D == Waiting
             Closed(S) == R \subseteq S /\ \A p \in S : Kids(l, r, p) \subseteq S
  <1>1. /\ D \subseteq Procs /\ R \subseteq D
        /\ \A p \in D : l[p] = r[p] => l[p] = Null
        /\ \A p \in D : \A c \in Kids(l, r, p) : c \in D \ R /\ u[c] = p
        /\ \A c \in D \ R : u[c] \in D /\ c \in Kids(l, r, u[c])
        /\ \A S \in SUBSET D : R \subseteq S /\ DownClosed(l, r, S) => S = D
        /\ pool.root # Null => u[pool.root] = Null
    BY DEF StrideInv, Tree, Forest
  <1>2. Members = {p \in Procs : \A S \in SUBSET Procs : Closed(S) => p \in S}
    BY DEF Members, Kids
  <1> HIDE DEF D, l, r, u
  <1>3. Closed(D) /\ D \in SUBSET Procs
    BY <1>1
  <1>4. ASSUME NEW p \in D, NEW S \in SUBSET Procs, Closed(S) PROVE p \in S
    <2>1. R \subseteq S \cap D
      BY <1>1, <1>4
    <2>2. \A q \in S \cap D : Kids(l, r, q) \subseteq S \cap D
      BY <1>1, <1>4
    <2>3. DownClosed(l, r, S \cap D)
      BY <2>2 DEF DownClosed
    <2>4. S \cap D = D
      BY <1>1, <2>1, <2>3
    <2> QED BY <2>4
  <1>5. Members = D
    <2>1. Members \subseteq D
      BY <1>2, <1>3
    <2>2. D \subseteq Members
      BY <1>1, <1>2, <1>4
    <2> QED BY <2>1, <2>2
  <1>6. ASSUME NEW p \in D PROVE u[p] = Null <=> pool.root = p
    <2>1. p # Null /\ Null \notin D
      BY <1>1, NullApart
    <2>2. CASE pool.root = p
      BY <1>1, <2>1, <2>2
    <2>3. CASE pool.root # p
      <3>1. u[p] \in D
        BY <1>1, <2>3
      <3> QED BY <2>1, <2>3, <3>1
    <2> QED BY <2>2, <2>3
  <1>7. ASSUME NEW p \in D, NEW q \in D PROVE u[p] = q <=> p \in {l[q], r[q]}
    <2>1. p # Null /\ q # Null
      BY <1>1, NullApart
    <2>2. p \in {l[q], r[q]} => u[p] = q
      BY <1>1, <2>1 DEF Kids
    <2>3. ASSUME u[p] = q PROVE p \in {l[q], r[q]}
      <3>1. p \notin R
        BY <1>1, <2>1, <2>3
      <3>2. p \in Kids(l, r, u[p])
        BY <1>1, <3>1
      <3> QED BY <2>3, <3>2 DEF Kids
    <2> QED BY <2>2, <2>3
  <1>8. \A p \in Members :
          /\ u[p] = Null <=> pool.root = p
          /\ l[p] = r[p] => l[p] = Null
          /\ \A q \in Members : u[p] = q <=> p \in {l[q], r[q]}
    BY <1>1, <1>5, <1>6, <1>7
  <1> QED BY <1>5, <1>8 DEF PoolExact, D, l, r, u

-----------------------------------------------------------------------------
(* Strides in a window. *)

\* In a window, all who compete are ahead of one of them.
LEMMA InWindowIs ==
  ASSUME TypeOK
  PROVE  InWindow <=> (Ready # {} => \E m \in Ready : Ahead(stride, Ready, stride[m]))
  <1>1. \A m \in Ready : stride[m] \in 0..Word-1
    BY WaitingIs DEF TypeOK
  <1> QED BY <1>1 DEF InWindow, Ahead

\* schedule() runs a process that nobody comes before.
LEMMA ScheduleFirst ==
  ASSUME StrideInv, InWindow, Found.root # Null
  PROVE  Found.root \in Ready /\ Ahead(stride, Ready, stride[Found.root])
  <1>1. Tree(Found, stride, Ready)
    BY FoundReady
  <1>2. Found.root \in Ready
    BY <1>1, RemoveOK
  <1>3. TypeOK /\ stride \in [Procs -> 0..Word-1]
    BY DEF StrideInv, TypeOK
  <1>4. PICK m \in Ready : Ahead(stride, Ready, stride[m])
    BY <1>2, <1>3, InWindowIs
  <1>5. Ahead(stride, Ready, stride[Found.root])
    BY <1>1, <1>3, <1>4, RootFirst
  <1> QED BY <1>2, <1>5

\* Only schedule() changes the stride of a process that is ready afterwards.
LEMMA PickedFirst ==
  ASSUME StrideInv, [Next]_vars, InWindow,
         NEW p \in Procs, stride'[p] # stride[p], state'[p] = "ready", NEW q \in Waiting'
  PROVE  ~Less(q, p)
  <1>1. CASE Schedule
    <2>1. Found.root # Null /\ stride' = [stride EXCEPT ![Found.root] = Advanced(Found.root)]
      BY <1>1, ScheduleIs
    <2>2. p = Found.root
      BY <2>1 DEF StrideInv, TypeOK
    <2>3. q \in Ready
      BY <1>1, ScheduleIs DEF Waiting, Ready
    <2>4. Ahead(stride, Ready, stride[p])
      BY <2>1, <2>2, ScheduleFirst
    <2>5. (stride[q] - stride[p]) % Word <= Big
      BY <2>3, <2>4 DEF Ahead
    <2>6. stride[q] - stride[p] \in Int /\ Big \in Nat
      BY <2>3, WordIs, WaitingIs DEF StrideInv, TypeOK
    <2>7. (stride[q] - stride[p]) % Word \in 0..Word-1
      BY <2>6, ModIs
    <2> QED BY <2>5, <2>6, <2>7 DEF Less
  <1>2. CASE Tick
    BY <1>2 DEF Tick
  <1>3. ASSUME NEW x \in Procs, Yield(x) \/ Block(x) \/ Wakeup(x) PROVE FALSE
    BY <1>3 DEF Yield, Block, Wakeup
  <1>4. ASSUME NEW x \in Procs, NEW n \in Priorities, SetPriority(x, n) PROVE FALSE
    BY <1>4 DEF SetPriority
  <1>5. ASSUME NEW x \in Procs, NEW c \in Late, Fork(x, c) PROVE FALSE
    BY <1>5 DEF Fork
  <1>6. ASSUME NEW x \in Procs, Exit(x) PROVE FALSE
    <2>1. stride' = [stride EXCEPT ![x] = 0] /\ state' = [state EXCEPT ![x] = "none"]
      BY <1>6 DEF Exit
    <2>2. p = x
      BY <2>1 DEF StrideInv, TypeOK
    <2> QED BY <2>1, <2>2 DEF StrideInv, TypeOK
  <1>7. CASE UNCHANGED vars
    BY <1>7 DEF vars
  <1> QED BY <1>1, <1>2, <1>3, <1>4, <1>5, <1>6, <1>7 DEF Next

\* Who competes after a step without a newcomer still has a stride, ahead of an old one.
LEMMA StaysAhead ==
  ASSUME TypeOK', NEW z, Ahead(stride', Ready', z)
  PROVE  InWindow'
  <1>1. CASE Ready' = {}
    BY <1>1 DEF InWindow
  <1>2. CASE Ready' # {}
    <2>1. stride' \in [Procs -> 0..Word-1] /\ Ready' \in SUBSET Procs
      BY DEF TypeOK, Ready
    <2>2. PICK m \in Ready' : Ahead(stride', Ready', stride'[m])
      BY <1>2, <2>1, WindowBegins
    <2> QED BY <2>2 DEF InWindow, Ahead
  <1> QED BY <1>1, <1>2

\* A step that leaves the strides of those who go on competing as they are.
LEMMA WindowSame ==
  ASSUME TypeOK, TypeOK', InWindow, Ready' \subseteq Ready, \A q \in Ready' : stride'[q] = stride[q]
  PROVE  InWindow'
  <1>1. CASE Ready = {}
    BY <1>1 DEF InWindow
  <1>2. CASE Ready # {}
    <2>1. PICK m \in Ready : Ahead(stride, Ready, stride[m])
      BY <1>2, InWindowIs
    <2>2. Ahead(stride', Ready', stride[m])
      BY <2>1 DEF Ahead
    <2> QED BY <2>2, StaysAhead
  <1> QED BY <1>1, <1>2

\* The window stays while nobody joins.
LEMMA WindowStays ==
  ASSUME StrideInv, [Next]_vars, InWindow, ~Joining
  PROVE  InWindow'
  <1>0. TypeOK /\ TypeOK' /\ Ready' \subseteq Ready
    BY InvNext DEF StrideInv, Joining
  <1>1. CASE Schedule
    <2>1. CASE Found.root = Null
      BY <1>0, <1>1, <2>1, ScheduleIs, WindowSame
    <2>2. CASE Found.root # Null
      <3> DEFINE p == Found.root
      <3>1. p \in Ready /\ Ahead(stride, Ready, stride[p])
        BY <2>2, ScheduleFirst
      <3>2. stride' = [stride EXCEPT ![p] = Advanced(p)]
        BY <1>1, <2>2, ScheduleIs
      <3> HIDE DEF p
      <3>3. p \in Procs /\ stride[p] \in 0..Word-1 /\ Pass(p) \in 0..Big
        BY <1>0, <3>1, WaitingIs, PassIs DEF TypeOK
      <3>4. (Advanced(p) - stride[p]) % Word <= Big
        BY <3>3, Advance DEF Advanced
      <3>5. \A q \in Ready : (stride'[q] - stride[p]) % Word <= Big
        <4>1. stride'[p] = Advanced(p) /\ \A q \in Ready \ {p} : stride'[q] = stride[q]
          BY <1>0, <3>2, <3>3, WaitingIs DEF TypeOK
        <4>2. \A q \in Ready \ {p} : (stride'[q] - stride[p]) % Word <= Big
          BY <3>1, <4>1 DEF Ahead
        <4> QED BY <3>4, <4>1, <4>2
      <3>6. Ahead(stride', Ready', stride[p])
        BY <1>0, <3>3, <3>5 DEF Ahead
      <3> QED BY <1>0, <3>6, StaysAhead
    <2> QED BY <2>1, <2>2
  <1>2. CASE Tick
    BY <1>0, <1>2, WindowSame DEF Tick
  <1>3. ASSUME NEW x \in Procs, Yield(x) \/ Block(x) \/ Wakeup(x) PROVE InWindow'
    <2>1. stride' = stride
      BY <1>3 DEF Yield, Block, Wakeup
    <2> QED BY <1>0, <2>1, WindowSame
  <1>4. ASSUME NEW x \in Procs, NEW n \in Priorities, SetPriority(x, n) PROVE InWindow'
    BY <1>0, <1>4, WindowSame DEF SetPriority
  <1>5. ASSUME NEW x \in Procs, NEW c \in Late, Fork(x, c) PROVE InWindow'
    BY <1>0, <1>5, WindowSame DEF Fork
  <1>6. ASSUME NEW x \in Procs, Exit(x) PROVE InWindow'
    <2>1. stride' = [stride EXCEPT ![x] = 0] /\ state' = [state EXCEPT ![x] = "none"]
      BY <1>6 DEF Exit
    <2>2. \A q \in Ready' : q \in Procs /\ q # x
      BY <1>0, <2>1 DEF TypeOK, Ready
    <2>3. \A q \in Ready' : stride'[q] = stride[q]
      BY <1>0, <2>1, <2>2 DEF TypeOK
    <2> QED BY <1>0, <2>3, WindowSame
  <1>7. CASE UNCHANGED vars
    BY <1>0, <1>7, WindowSame DEF vars
  <1> QED BY <1>1, <1>2, <1>3, <1>4, <1>5, <1>6, <1>7 DEF Next

-----------------------------------------------------------------------------
(* The theorems. *)

\* Strides never leave the range of a word, slices that of MAX_TIME_SLICE.
THEOREM TypeCorrect == Spec => []TypeOK
  <1>1. StrideInv => TypeOK
    BY DEF StrideInv
  <1> QED BY <1>1, Inv, PTL

\* However processes are enqueued and dequeued, and whatever their strides, the run pool
\* loses and duplicates nobody.
THEOREM PoolStaysExact == Spec => []PoolExact
  BY Inv, PoolRight, PTL

\* While the strides are in a window, stride_pick_next returns a process that no process
\* left in the heap comes before.
THEOREM MinimumPicked == Spec => PicksMinimum
  <1> DEFINE A == InWindow => \A p \in Procs : stride'[p] # stride[p] /\ state'[p] = "ready" =>
                    \A q \in Waiting' : ~Less(q, p)
  <1>1. StrideInv /\ [Next]_vars => [A]_vars
    BY PickedFirst
  <1>2. Spec => [][A]_vars
    BY <1>1, Inv, PTL DEF Spec
  <1> QED BY <1>2 DEF PicksMinimum

\* Nothing but a process that joins with an old stride ends the window.
THEOREM WindowKept == Spec => StaysInWindow
  <1>1. StrideInv /\ [Next]_vars => [InWindow /\ ~Joining => InWindow']_vars
    BY WindowStays
  <1>2. Spec => [][InWindow /\ ~Joining => InWindow']_vars
    BY <1>1, Inv, PTL DEF Spec
  <1> QED BY <1>2 DEF StaysInWindow
=============================================================================
