---------------------------- MODULE MemoryProofs ----------------------------
(***************************************************************************)
(* Proofs about Memory, for any number of processes and frames and all     *)
(* programs: every frame is free or used once and counted so, areas do not *)
(* overlap, and the kernel does not fault on a buffer that it has checked. *)
(*                                                                         *)
(* An operation works on one mm_struct and on the free frames.  Fits says  *)
(* that these account for every frame but those of X: the frames of the    *)
(* other processes, the kernel stack, and a page that has been taken and   *)
(* not yet mapped.  Each operation is shown to keep Fits; Lower and Lift   *)
(* go from the system to the memory of one process and back.               *)
(***************************************************************************)
EXTENDS Memory, FiniteSetTheorems, TLAPS

\* Every set of numbers that is not empty has a smallest one.
LEMMA Least ==
  ASSUME NEW S, S \subseteq Nat, S # {}
  PROVE  \E x \in S : \A y \in S : x <= y
  <1>1. PICK x \in S : \A y \in S : ~(<<y, x>> \in OpToRel(<, Nat))
    BY NatLessThanWellFounded, WFMin
  <1>2. \A y \in S : ~(y < x)
    BY <1>1 DEF OpToRel
  <1> QED BY <1>2

\* The first of some numbers is one of them.
LEMMA MinIn ==
  ASSUME NEW S, S \subseteq Nat, S # {}
  PROVE  Min(S) \in S
  <1>1. \E x \in S : \A y \in S : x <= y
    BY Least
  <1>2. Min(S) = CHOOSE x \in S : \A y \in S : x <= y
    BY DEF Min
  <1> QED BY <1>1, <1>2

-----------------------------------------------------------------------------
(* What is said of a memory m, of which X are the frames that are used outside of m.mm, *)
(* with the reference counts of r.                                                      *)

\* The fields of a memory.
Shaped(m) ==
  /\ {"free", "ref", "mm", "err"} \subseteq DOMAIN m
  /\ {"pgdir", "vmas", "pt", "pte"} \subseteq DOMAIN m.mm
  /\ m.free \subseteq Frames
  /\ m.ref \in [Frames -> Int]

\* The mm_struct s uses frame f.
Holds(s, f) ==
  \/ f = s.pgdir
  \/ \E t \in DOMAIN s.pt : f = s.pt[t]
  \/ \E v \in DOMAIN s.pte : f = s.pte[v].frame

\* The frames it uses.
Used(s) == {f \in Frames : Holds(s, f)}

\* Each frame serves s for one thing.
Once(s) ==
  /\ \A t \in DOMAIN s.pt : s.pt[t] \in Frames /\ s.pt[t] # s.pgdir
  /\ \A v \in DOMAIN s.pte : s.pte[v].frame \in Frames /\ s.pte[v].frame # s.pgdir
  /\ \A t, u \in DOMAIN s.pt : s.pt[t] = s.pt[u] => t = u
  /\ \A v, w \in DOMAIN s.pte : s.pte[v].frame = s.pte[w].frame => v = w
  /\ \A t \in DOMAIN s.pt, v \in DOMAIN s.pte : s.pt[t] # s.pte[v].frame

\* Page tables and pages are counted once, the page directory is not.
RefsOf(s, rf) ==
  /\ s.pgdir \in Frames => rf[s.pgdir] = 0
  /\ \A t \in DOMAIN s.pt : rf[s.pt[t]] = 1
  /\ \A v \in DOMAIN s.pte : rf[s.pte[v].frame] = 1

\* Each frame is free, used by m.mm, or one of X, and only one of these.
Fits(m, X, r) ==
  /\ Shaped(m)
  /\ Once(m.mm) /\ RefsOf(m.mm, m.ref)
  /\ X \subseteq Frames
  /\ \A f \in Frames : /\ f \in X => f \notin m.free /\ ~Holds(m.mm, f) /\ m.ref[f] = r[f]
                       /\ f \in m.free => ~Holds(m.mm, f) /\ m.ref[f] = 0
                       /\ f \in X \/ f \in m.free \/ Holds(m.mm, f)

\* Areas do not overlap; what is mapped lies in one, and so does a page of each page table.
SpaceOK(s) ==
  /\ \A a \in s.vmas : a.start \in 0..V-1 /\ a.end \in 1..V /\ a.start < a.end /\ a.write \in BOOLEAN
  /\ \A a, b \in s.vmas : a # b => Area(a) \cap Area(b) = {}
  /\ \A v \in DOMAIN s.pte : \E a \in s.vmas : v \in Area(a) /\ a.write = s.pte[v].write
  /\ \A t \in DOMAIN s.pt : \E a \in s.vmas : \E v \in Area(a) : t = v \div T

\* The errors after which the kernel goes on, and those that stop it.
Goes == {"no", "invalid"}
Stops == {"exhausted", "overlap"}

\* The kernel has stopped, or the memory is as it should be.
Good(m, X, r) ==
  /\ m.err \in Goes \cup Stops
  /\ m.err \in Goes => Fits(m, X, r) /\ SpaceOK(m.mm) /\ m.mm.pgdir \in Frames

-----------------------------------------------------------------------------
(* The fields of the memory after each operation. *)

\* The fields of n.
Fields(n, fr, rf, pgdir, vmas, pt, pte, err) ==
  /\ {"free", "ref", "mm", "err"} \subseteq DOMAIN n
  /\ {"pgdir", "vmas", "pt", "pte"} \subseteq DOMAIN n.mm
  /\ n.free = fr /\ n.ref = rf /\ n.err = err
  /\ n.mm.pgdir = pgdir /\ n.mm.vmas = vmas /\ n.mm.pt = pt /\ n.mm.pte = pte

\* alloc_page takes the first free frame, and nothing else changes.
LEMMA AllocPageIs ==
  ASSUME NEW m, Shaped(m), m.err = "no", m.free # {}
  PROVE  /\ Frame(m) \in m.free
         /\ Fields(AllocPage(m), m.free \ {Frame(m)}, m.ref, m.mm.pgdir, m.mm.vmas, m.mm.pt, m.mm.pte, "no")
         /\ AllocPage(m).mm = m.mm
  <1>1. Frame(m) \in m.free
    <2>1. m.free \subseteq Nat
      BY MemoryAssumption DEF Shaped, Frames
    <2> QED BY <2>1, MinIn DEF Frame
  <1>2. AllocPage(m) = [m EXCEPT !.free = @ \ {Frame(m)}]
    BY DEF AllocPage, Strict
  <1> QED BY <1>1, <1>2 DEF Shaped, Fields

\* get_pte: a page table that is missing is allocated and counted once.
LEMMA GetPteIs ==
  ASSUME NEW m, Shaped(m), NEW v
  PROVE  /\ v \div T \in DOMAIN m.mm.pt => GetPte(m, v) = m
         /\ m.err # "no" => GetPte(m, v) = m
         /\ v \div T \notin DOMAIN m.mm.pt /\ m.err = "no" /\ m.free = {} => GetPte(m, v).err = "exhausted"
         /\ v \div T \notin DOMAIN m.mm.pt /\ m.err = "no" /\ m.free # {} =>
              /\ Frame(m) \in m.free
              /\ Fields(GetPte(m, v), m.free \ {Frame(m)}, [m.ref EXCEPT ![Frame(m)] = 1], m.mm.pgdir,
                        m.mm.vmas, Put(m.mm.pt, v \div T, Frame(m)), m.mm.pte, "no")
  <1> DEFINE t == v \div T
             f == Frame(m)
             a == AllocPage(m)
  <1>0. GetPte(m, v) = IF t \in DOMAIN m.mm.pt THEN m
                       ELSE Strict(a, [a EXCEPT !.ref[f] = 1, !.mm.pt = Put(@, t, f)])
    BY DEF GetPte
  <1> HIDE DEF t, f
  <1>1. ASSUME m.err # "no" PROVE GetPte(m, v) = m
    BY <1>0, <1>1 DEF Strict, AllocPage
  <1>2. ASSUME t \notin DOMAIN m.mm.pt, m.err = "no", m.free = {} PROVE GetPte(m, v).err = "exhausted"
    <2>1. a = [m EXCEPT !.err = "exhausted"]
      BY <1>2 DEF AllocPage, Strict
    <2>2. a.err = "exhausted"
      BY <2>1 DEF Shaped
    <2> QED BY <1>0, <1>2, <2>2 DEF Strict
  <1>3. ASSUME t \notin DOMAIN m.mm.pt, m.err = "no", m.free # {}
        PROVE  /\ f \in m.free
               /\ Fields(GetPte(m, v), m.free \ {f}, [m.ref EXCEPT ![f] = 1], m.mm.pgdir,
                         m.mm.vmas, Put(m.mm.pt, t, f), m.mm.pte, "no")
    <2>1. f \in m.free /\ a.err = "no"
          /\ Fields(a, m.free \ {f}, m.ref, m.mm.pgdir, m.mm.vmas, m.mm.pt, m.mm.pte, "no")
      BY <1>3, AllocPageIs DEF f, Fields
    <2> HIDE DEF a
    <2>2. GetPte(m, v) = [a EXCEPT !.ref[f] = 1, !.mm.pt = Put(@, t, f)]
      BY <1>0, <1>3, <2>1 DEF Strict
    <2> QED BY <2>1, <2>2 DEF Fields
  <1> QED BY <1>0, <1>1, <1>2, <1>3 DEF t, f

\* The pages of vs that are mapped to f.
Entries(m, vs, f) == {v \in vs \cap DOMAIN m.mm.pte : m.mm.pte[v].frame = f}

\* page_remove_pte, for pages that are mapped once each: a count that falls to 0 frees the
\* frame, and the other entries stay.
LEMMA RemovePtesIs ==
  ASSUME NEW m, Shaped(m), Once(m.mm), NEW vs
  PROVE  /\ Shaped(RemovePtes(m, vs))
         /\ RemovePtes(m, vs).err = m.err
         /\ \A f \in Frames :
              /\ RemovePtes(m, vs).ref[f] = IF Entries(m, vs, f) = {} THEN m.ref[f] ELSE m.ref[f] - 1
              /\ f \in RemovePtes(m, vs).free <=>
                   f \in m.free \/ (Entries(m, vs, f) # {} /\ m.ref[f] = 1)
         /\ RemovePtes(m, vs).mm.pgdir = m.mm.pgdir
         /\ RemovePtes(m, vs).mm.vmas = m.mm.vmas
         /\ RemovePtes(m, vs).mm.pt = m.mm.pt
         /\ DOMAIN RemovePtes(m, vs).mm.pte = DOMAIN m.mm.pte \ vs
         /\ \A v \in DOMAIN m.mm.pte \ vs : RemovePtes(m, vs).mm.pte[v] = m.mm.pte[v]
  <1> DEFINE gone    == vs \cap DOMAIN m.mm.pte
             Lost(f) == Cardinality({v \in gone : m.mm.pte[v].frame = f})
             left    == [f \in Frames |-> m.ref[f] - Lost(f)]
             more    == {f \in Frames : Lost(f) > 0 /\ left[f] = 0}
             rest    == Restrict(m.mm.pte, DOMAIN m.mm.pte \ gone)
             n       == RemovePtes(m, vs)
  <1>1. n = [m EXCEPT !.ref = left, !.free = @ \cup more, !.mm.pte = rest]
    BY DEF RemovePtes
  <1>2. ASSUME NEW f \in Frames
        PROVE  Lost(f) = IF Entries(m, vs, f) = {} THEN 0 ELSE 1
    <2>1. Lost(f) = Cardinality(Entries(m, vs, f))
      BY DEF Entries
    <2>2. \A v, w \in Entries(m, vs, f) : v = w
      BY DEF Entries, Once
    <2>3. CASE Entries(m, vs, f) = {}
      BY <2>1, <2>3, FS_EmptySet
    <2>4. CASE Entries(m, vs, f) # {}
      <3>1. PICK v : Entries(m, vs, f) = {v}
        BY <2>2, <2>4
      <3>2. Cardinality({v}) = 1
        BY FS_Singleton
      <3> QED BY <2>1, <2>4, <3>1, <3>2
    <2> QED BY <2>3, <2>4
  <1> HIDE DEF Lost
  <1>3. \A f \in Frames : left[f] = IF Entries(m, vs, f) = {} THEN m.ref[f] ELSE m.ref[f] - 1
    BY <1>2 DEF Shaped
  <1>4. left \in [Frames -> Int]
    BY <1>2 DEF Shaped
  <1>5. \A f \in Frames : f \in more <=> (Entries(m, vs, f) # {} /\ m.ref[f] = 1)
    BY <1>2, <1>3 DEF Shaped
  <1>6. rest = [v \in DOMAIN m.mm.pte \ vs |-> m.mm.pte[v]]
    BY DEF Restrict
  <1>7. more \subseteq Frames
    OBVIOUS
  <1> HIDE DEF left, more, rest, gone, n
  <1>8. /\ {"free", "ref", "mm", "err"} \subseteq DOMAIN n
        /\ {"pgdir", "vmas", "pt", "pte"} \subseteq DOMAIN n.mm
        /\ n.free = m.free \cup more /\ n.ref = left /\ n.err = m.err
        /\ n.mm.pgdir = m.mm.pgdir /\ n.mm.vmas = m.mm.vmas /\ n.mm.pt = m.mm.pt /\ n.mm.pte = rest
    BY <1>1 DEF Shaped
  <1>9. Shaped(n)
    BY <1>4, <1>7, <1>8 DEF Shaped
  <1> QED BY <1>3, <1>5, <1>6, <1>8, <1>9 DEF n

\* What the entries say of the pages they are for.
LEMMA RemoveFits ==
  ASSUME NEW m, NEW X, NEW r, Fits(m, X, r), NEW vs
  PROVE  Fits(RemovePtes(m, vs), X, r)
  <1> DEFINE n == RemovePtes(m, vs)
  <1>1. /\ Shaped(n)
        /\ \A f \in Frames :
              /\ n.ref[f] = IF Entries(m, vs, f) = {} THEN m.ref[f] ELSE m.ref[f] - 1
              /\ f \in n.free <=> f \in m.free \/ (Entries(m, vs, f) # {} /\ m.ref[f] = 1)
        /\ n.mm.pgdir = m.mm.pgdir
        /\ n.mm.pt = m.mm.pt
        /\ DOMAIN n.mm.pte = DOMAIN m.mm.pte \ vs
        /\ \A v \in DOMAIN m.mm.pte \ vs : n.mm.pte[v] = m.mm.pte[v]
    BY RemovePtesIs DEF Fits
  <1>2. /\ Shaped(m) /\ Once(m.mm) /\ RefsOf(m.mm, m.ref) /\ X \subseteq Frames
        /\ \A f \in Frames : /\ f \in X => f \notin m.free /\ ~Holds(m.mm, f) /\ m.ref[f] = r[f]
                             /\ f \in m.free => ~Holds(m.mm, f) /\ m.ref[f] = 0
                             /\ f \in X \/ f \in m.free \/ Holds(m.mm, f)
    BY DEF Fits
  <1> HIDE DEF n
  <1>3. ASSUME NEW f \in Frames, Entries(m, vs, f) # {}
        PROVE  /\ m.ref[f] = 1 /\ f \in n.free /\ n.ref[f] = 0 /\ f \notin X /\ ~Holds(n.mm, f)
    <2>1. PICK v \in vs \cap DOMAIN m.mm.pte : m.mm.pte[v].frame = f
      BY <1>3 DEF Entries
    <2>2. m.ref[f] = 1 /\ Holds(m.mm, f)
      BY <1>2, <2>1 DEF RefsOf, Holds
    <2>3. f # m.mm.pgdir /\ (\A t \in DOMAIN m.mm.pt : f # m.mm.pt[t])
          /\ \A w \in DOMAIN m.mm.pte \ vs : f # m.mm.pte[w].frame
      BY <1>2, <2>1 DEF Once
    <2> QED BY <1>1, <1>2, <1>3, <2>2, <2>3 DEF Holds
  <1>4. ASSUME NEW f \in Frames, Entries(m, vs, f) = {}
        PROVE  n.ref[f] = m.ref[f] /\ (f \in n.free <=> f \in m.free) /\ (Holds(n.mm, f) <=> Holds(m.mm, f))
    <2>1. \A v \in vs \cap DOMAIN m.mm.pte : m.mm.pte[v].frame # f
      BY <1>4 DEF Entries
    <2> QED BY <1>1, <1>4, <2>1 DEF Holds
  <1>5. Once(n.mm)
    BY <1>1, <1>2 DEF Once
  <1>6. RefsOf(n.mm, n.ref)
    <2>1. n.mm.pgdir \in Frames => n.ref[n.mm.pgdir] = 0
      <3>1. n.mm.pgdir \in Frames => Entries(m, vs, n.mm.pgdir) = {}
        BY <1>1, <1>2 DEF Once, Entries
      <3> QED BY <1>1, <1>2, <1>4, <3>1 DEF RefsOf
    <2>2. ASSUME NEW t \in DOMAIN n.mm.pt PROVE n.ref[n.mm.pt[t]] = 1
      <3>1. n.mm.pt[t] \in Frames /\ Entries(m, vs, n.mm.pt[t]) = {}
        BY <1>1, <1>2, <2>2 DEF Once, Entries
      <3> QED BY <1>1, <1>2, <1>4, <2>2, <3>1 DEF RefsOf
    <2>3. ASSUME NEW v \in DOMAIN n.mm.pte PROVE n.ref[n.mm.pte[v].frame] = 1
      <3>1. n.mm.pte[v].frame \in Frames /\ Entries(m, vs, n.mm.pte[v].frame) = {}
        BY <1>1, <1>2, <2>3 DEF Once, Entries
      <3> QED BY <1>1, <1>2, <1>4, <2>3, <3>1 DEF RefsOf
    <2> QED BY <2>1, <2>2, <2>3 DEF RefsOf
  <1>7. \A f \in Frames : /\ f \in X => f \notin n.free /\ ~Holds(n.mm, f) /\ n.ref[f] = r[f]
                          /\ f \in n.free => ~Holds(n.mm, f) /\ n.ref[f] = 0
                          /\ f \in X \/ f \in n.free \/ Holds(n.mm, f)
    BY <1>2, <1>3, <1>4
  <1> QED BY <1>1, <1>2, <1>5, <1>6, <1>7 DEF Fits, n

-----------------------------------------------------------------------------
(* The operations on pages keep the memory as it should be. *)

\* The counts, with 0 for a frame that has been taken and not yet used.
Spare(r, f) == [r EXCEPT ![f] = 0]

\* A page that has been taken is used outside of the mm_struct, by the caller.
LEMMA AllocPageFits ==
  ASSUME NEW m, NEW X, NEW r \in [Frames -> Int], Fits(m, X, r), m.err = "no"
  PROVE  \/ AllocPage(m).err = "exhausted"
         \/ /\ AllocPage(m).err = "no" /\ AllocPage(m).mm = m.mm
            /\ Frame(m) \in Frames \ X
            /\ Fits(AllocPage(m), X \cup {Frame(m)}, Spare(r, Frame(m)))
  <1> DEFINE a == AllocPage(m)
             f == Frame(m)
  <1>1. CASE m.free = {}
    <2>1. a = [m EXCEPT !.err = "exhausted"]
      BY <1>1 DEF AllocPage, Strict
    <2> QED BY <2>1 DEF Fits, Shaped
  <1>2. CASE m.free # {}
    <2>1. Shaped(m) /\ m.free \subseteq Frames
      BY DEF Fits, Shaped
    <2>2. /\ f \in m.free
          /\ Fields(a, m.free \ {f}, m.ref, m.mm.pgdir, m.mm.vmas, m.mm.pt, m.mm.pte, "no")
          /\ a.mm = m.mm
      BY <1>2, <2>1, AllocPageIs
    <2> HIDE DEF a, f
    <2>3. Shaped(a) /\ a.err = "no" /\ a.free = m.free \ {f} /\ a.ref = m.ref
      BY <2>1, <2>2 DEF Shaped, Fields
    <2>4. f \in Frames \ X /\ ~Holds(m.mm, f) /\ m.ref[f] = 0
      BY <2>1, <2>2 DEF Fits
    <2>5. Fits(a, X \cup {f}, Spare(r, f))
      BY <2>2, <2>3, <2>4 DEF Fits, Spare
    <2> QED BY <2>2, <2>3, <2>4, <2>5 DEF a, f
  <1> QED BY <1>1, <1>2

\* Page v may be mapped with the given rights.
May(s, v, write) == \E a \in s.vmas : v \in Area(a) /\ a.write = write

\* What an operation that takes pages for m.mm leaves as it was.
Same(m, n) ==
  /\ m.err # "no" => n = m
  /\ n.err = "no" => n.mm.vmas = m.mm.vmas
  /\ n.err # m.err => n.err \in Stops

\* The page table for a page of an area.
LEMMA GetPteGood ==
  ASSUME NEW m, NEW X, NEW r \in [Frames -> Int], Good(m, X, r), NEW v,
         m.err = "no" => \E a \in m.mm.vmas : v \in Area(a)
  PROVE  Good(GetPte(m, v), X, r) /\ Same(m, GetPte(m, v))
  <1> DEFINE n == GetPte(m, v)
             f == Frame(m)
             t == v \div T
  <1>1. CASE m.err # "no"
    <2>1. n = m
      BY <1>1 DEF GetPte, Strict, AllocPage
    <2> QED BY <1>1, <2>1 DEF Same
  <1>2. CASE m.err = "no" /\ t \in DOMAIN m.mm.pt
    <2>1. n = m
      BY <1>2 DEF GetPte
    <2> QED BY <2>1 DEF Same
  <1>3. ASSUME m.err = "no", Shaped(m) PROVE m.free # {} \/ t \in DOMAIN m.mm.pt \/ n.err = "exhausted"
    BY <1>3, GetPteIs
  <1>4. CASE m.err = "no" /\ n.err = "exhausted"
    BY <1>4 DEF Good, Same, Goes, Stops
  <1>5. CASE m.err = "no" /\ t \notin DOMAIN m.mm.pt /\ m.free # {}
    <2>1. Fits(m, X, r) /\ SpaceOK(m.mm) /\ m.mm.pgdir \in Frames /\ Shaped(m) /\ m.free \subseteq Frames
      BY <1>5 DEF Good, Goes, Fits, Shaped
    <2>2. /\ f \in m.free
          /\ Fields(n, m.free \ {f}, [m.ref EXCEPT ![f] = 1], m.mm.pgdir, m.mm.vmas, Put(m.mm.pt, t, f), m.mm.pte, "no")
      BY <1>5, <2>1, GetPteIs
    <2> HIDE DEF n, f, t
    <2>3. /\ n.free = m.free \ {f} /\ n.ref = [m.ref EXCEPT ![f] = 1] /\ n.mm.pgdir = m.mm.pgdir
          /\ n.mm.vmas = m.mm.vmas /\ n.mm.pte = m.mm.pte /\ n.err = "no" /\ n.mm.pt = Put(m.mm.pt, t, f)
      BY <2>2 DEF Fields
    <2>4. /\ DOMAIN n.mm.pt = DOMAIN m.mm.pt \cup {t} /\ n.mm.pt[t] = f
          /\ \A u \in DOMAIN m.mm.pt : n.mm.pt[u] = m.mm.pt[u]
      BY <1>5, <2>3 DEF Put
    <2>5. f \in Frames \ X /\ ~Holds(m.mm, f) /\ m.ref[f] = 0 /\ m.ref \in [Frames -> Int]
      BY <2>1, <2>2 DEF Fits, Shaped
    <2>6. Shaped(n)
      BY <2>1, <2>2, <2>3, <2>5 DEF Shaped, Fields
    <2>7. Once(n.mm)
      BY <2>1, <2>3, <2>4, <2>5 DEF Once, Holds, Fits
    <2>8. RefsOf(n.mm, n.ref)
      BY <2>1, <2>3, <2>4, <2>5 DEF RefsOf, Once, Holds, Fits
    <2>9. \A g \in Frames : Holds(n.mm, g) <=> Holds(m.mm, g) \/ g = f
      BY <2>3, <2>4 DEF Holds
    <2>10. Fits(n, X, r)
      BY <2>1, <2>2, <2>3, <2>5, <2>6, <2>7, <2>8, <2>9 DEF Fits
    <2>11. SpaceOK(n.mm)
      <3>1. \E a \in m.mm.vmas : \E w \in Area(a) : t = w \div T
        BY <1>5 DEF t
      <3> QED BY <2>1, <2>3, <2>4, <3>1 DEF SpaceOK
    <2>12. Good(n, X, r)
      BY <2>1, <2>3, <2>10, <2>11 DEF Good, Goes
    <2>13. Same(m, n)
      BY <1>5, <2>3 DEF Same
    <2> QED BY <2>12, <2>13 DEF n
  <1>6. m.err = "no" => Shaped(m)
    BY DEF Good, Goes, Fits
  <1> QED BY <1>1, <1>2, <1>3, <1>4, <1>5, <1>6

\* The caller gives the page it has taken to the mm_struct; what was mapped there is freed.
LEMMA PageInsertGood ==
  ASSUME NEW m, NEW X, NEW r \in [Frames -> Int], NEW f \in Frames \ X,
         Good(m, X \cup {f}, Spare(r, f)), NEW v, NEW write,
         m.err = "no" => May(m.mm, v, write)
  PROVE  /\ m.err = "no" => Good(PageInsert(m, f, v, write), X, r)
         /\ Same(m, PageInsert(m, f, v, write))
  <1> DEFINE a == GetPte(m, v)
             c == [a EXCEPT !.ref[f] = @ + 1]
             b == RemovePtes(c, {v})
             e == [frame |-> f, write |-> write]
             n == [b EXCEPT !.mm.pte = Put(@, v, e)]
             Y == X \cup {f}
             q == Spare(r, f)
  <1>0. q \in [Frames -> Int] /\ q[f] = 0 /\ \A g \in X : g \in Frames => q[g] = r[g]
    BY DEF Spare
  <1>1. Good(a, Y, q) /\ Same(m, a)
    BY <1>0, GetPteGood DEF May
  <1>2. PageInsert(m, f, v, write) = IF a.err = "no" THEN n ELSE a
    BY DEF PageInsert, Strict
  <1> HIDE DEF a, q
  <1>3. CASE a.err # "no"
    BY <1>1, <1>2, <1>3 DEF Good, Same, Goes, Stops
  <1>4. CASE a.err = "no"
    <2>1. Fits(a, Y, q) /\ SpaceOK(a.mm) /\ a.mm.pgdir \in Frames /\ Shaped(a)
      BY <1>1, <1>4 DEF Good, Goes, Fits
    <2>2. m.err = "no" /\ a.mm.vmas = m.mm.vmas
      BY <1>1, <1>4 DEF Same
    <2>3. /\ Shaped(c) /\ c.free = a.free /\ c.mm = a.mm /\ c.err = "no"
          /\ c.ref = [a.ref EXCEPT ![f] = @ + 1]
      BY <1>4, <2>1 DEF Shaped
    <2>4. a.ref[f] = 0 /\ ~Holds(a.mm, f) /\ f \notin a.free
      BY <1>0, <2>1 DEF Fits
    <2> HIDE DEF c
    <2>5. Fits(c, Y, c.ref)
      <3>1. RefsOf(c.mm, c.ref)
        BY <2>1, <2>3, <2>4 DEF RefsOf, Fits, Shaped, Once, Holds
      <3> QED BY <2>1, <2>3, <2>4, <3>1 DEF Fits, Shaped
    <2>6. Fits(b, Y, c.ref)
      BY <2>5, RemoveFits
    <2>7. /\ Shaped(b) /\ b.err = "no" /\ b.mm.pgdir = a.mm.pgdir /\ b.mm.vmas = a.mm.vmas /\ b.mm.pt = a.mm.pt
          /\ DOMAIN b.mm.pte = DOMAIN a.mm.pte \ {v}
          /\ \A w \in DOMAIN a.mm.pte \ {v} : b.mm.pte[w] = a.mm.pte[w]
      BY <2>3, <2>5, RemovePtesIs DEF Fits
    <2> HIDE DEF b, e
    <2>8. /\ {"free", "ref", "mm", "err"} \subseteq DOMAIN n
          /\ {"pgdir", "vmas", "pt", "pte"} \subseteq DOMAIN n.mm
          /\ n.free = b.free /\ n.ref = b.ref /\ n.err = "no"
          /\ n.mm.pgdir = a.mm.pgdir /\ n.mm.vmas = a.mm.vmas /\ n.mm.pt = a.mm.pt
          /\ n.mm.pte = Put(b.mm.pte, v, e)
      BY <2>7 DEF Shaped
    <2>9. /\ DOMAIN n.mm.pte = DOMAIN a.mm.pte \cup {v} /\ n.mm.pte[v] = e
          /\ DOMAIN b.mm.pte = DOMAIN n.mm.pte \ {v}
          /\ \A w \in DOMAIN n.mm.pte \ {v} : n.mm.pte[w] = b.mm.pte[w] /\ n.mm.pte[w] = a.mm.pte[w]
      BY <2>7, <2>8 DEF Put
    <2> HIDE DEF n
    <2>10. e.frame = f /\ e.write = write
      BY DEF e
    <2>11. f \notin b.free /\ ~Holds(b.mm, f) /\ b.ref[f] = 1
      <3>1. c.ref[f] = 1
        BY <2>1, <2>3, <2>4 DEF Shaped
      <3> QED BY <2>6, <3>1 DEF Fits
    <2>12. \A g \in Frames : Holds(n.mm, g) <=> Holds(b.mm, g) \/ g = f
      BY <2>7, <2>8, <2>9, <2>10 DEF Holds
    <2>13. Once(n.mm)
      <3>1. Once(b.mm)
        BY <2>6 DEF Fits
      <3>2. b.mm.pgdir # f /\ (\A t \in DOMAIN b.mm.pt : b.mm.pt[t] # f)
            /\ \A w \in DOMAIN b.mm.pte : b.mm.pte[w].frame # f
        BY <2>11 DEF Holds
      <3> QED BY <2>7, <2>8, <2>9, <2>10, <3>1, <3>2 DEF Once
    <2>14. RefsOf(n.mm, n.ref)
      BY <2>6, <2>7, <2>8, <2>9, <2>10, <2>11 DEF RefsOf, Fits
    <2>15. \A g \in X : n.ref[g] = r[g]
      <3> SUFFICES ASSUME NEW g \in X PROVE n.ref[g] = r[g]
        OBVIOUS
      <3>1. g \in Frames /\ g # f
        BY <2>1 DEF Fits
      <3>2. n.ref[g] = c.ref[g]
        BY <2>6, <2>8, <3>1 DEF Fits
      <3>3. c.ref[g] = a.ref[g]
        BY <2>1, <2>3, <3>1 DEF Shaped
      <3>4. a.ref[g] = q[g]
        BY <2>1, <3>1 DEF Fits
      <3> QED BY <1>0, <3>1, <3>2, <3>3, <3>4
    <2>16. Shaped(n)
      BY <2>6, <2>7, <2>8 DEF Shaped
    <2>17. Fits(n, X, r)
      BY <2>6, <2>8, <2>11, <2>12, <2>13, <2>14, <2>15, <2>16 DEF Fits
    <2>18. SpaceOK(n.mm)
      <3>1. \E x \in a.mm.vmas : v \in Area(x) /\ x.write = e.write
        BY <2>2, <2>10 DEF May
      <3> QED BY <2>1, <2>8, <2>9, <3>1 DEF SpaceOK
    <2>19. Good(n, X, r)
      BY <2>1, <2>8, <2>17, <2>18 DEF Good, Goes
    <2>20. Same(m, n)
      BY <2>2, <2>8 DEF Same
    <2> QED BY <1>2, <1>4, <2>19, <2>20
  <1> QED BY <1>3, <1>4

\* Nothing happens after an error.
LEMMA StuckOps ==
  ASSUME NEW m, m.err # "no"
  PROVE  /\ AllocPage(m) = m
         /\ \A v : GetPte(m, v) = m
         /\ \A f, v, write : PageInsert(m, f, v, write) = m
  <1>1. AllocPage(m) = m /\ \A v : GetPte(m, v) = m
    BY DEF AllocPage, GetPte, Strict
  <1>2. ASSUME NEW f, NEW v, NEW write PROVE PageInsert(m, f, v, write) = m
    <2>1. GetPte(m, v) = m
      BY <1>1
    <2> QED BY <2>1 DEF PageInsert, Strict
  <1> QED BY <1>1, <1>2

\* pgdir_alloc_page, and the page that copy_range makes: a page is taken and inserted.
LEMMA NewPageGood ==
  ASSUME NEW m, NEW X, NEW r \in [Frames -> Int], Good(m, X, r), NEW v, NEW write,
         m.err = "no" => May(m.mm, v, write)
  PROVE  LET n == PageInsert(AllocPage(m), Frame(m), v, write) IN Good(n, X, r) /\ Same(m, n)
  <1> DEFINE a == AllocPage(m)
             f == Frame(m)
             n == PageInsert(a, f, v, write)
  <1>1. CASE m.err # "no"
    <2>1. n = m
      BY <1>1, StuckOps
    <2> QED BY <1>1, <2>1 DEF Same
  <1>2. CASE m.err = "no" /\ a.err # "no"
    <2>1. Fits(m, X, r)
      BY <1>2 DEF Good, Goes
    <2>2. a.err = "exhausted"
      BY <1>2, <2>1, AllocPageFits
    <2>3. n = a
      BY <2>2, StuckOps
    <2> HIDE DEF n, a
    <2>4. Good(n, X, r) /\ Same(m, n)
      BY <1>2, <2>2, <2>3 DEF Good, Same, Goes, Stops
    <2> QED BY <2>4 DEF n, a
  <1>3. CASE m.err = "no" /\ a.err = "no"
    <2>1. Fits(m, X, r) /\ SpaceOK(m.mm) /\ m.mm.pgdir \in Frames
      BY <1>3 DEF Good, Goes
    <2>2. a.mm = m.mm /\ f \in Frames \ X /\ Fits(a, X \cup {f}, Spare(r, f))
      BY <1>3, <2>1, AllocPageFits
    <2> HIDE DEF a, f
    <2>3. Good(a, X \cup {f}, Spare(r, f))
      BY <1>3, <2>1, <2>2 DEF Good, Goes
    <2>4. a.err = "no" /\ May(a.mm, v, write)
      BY <1>3, <2>2
    <2>5. Good(n, X, r) /\ Same(a, n)
      BY <2>2, <2>3, <2>4, PageInsertGood
    <2>6. Same(m, n)
      BY <1>3, <2>2, <2>5 DEF Same
    <2> QED BY <2>5, <2>6 DEF a, f
  <1> QED BY <1>1, <1>2, <1>3

\* pgdir_alloc_page.
LEMMA PgdirAllocPageGood ==
  ASSUME NEW m, NEW X, NEW r \in [Frames -> Int], Good(m, X, r), NEW v, NEW write,
         m.err = "no" => May(m.mm, v, write)
  PROVE  Good(PgdirAllocPage(m, v, write), X, r) /\ Same(m, PgdirAllocPage(m, v, write))
  BY NewPageGood DEF PgdirAllocPage

\* copy_range for one page.
LEMMA CopyPageGood ==
  ASSUME NEW m, NEW X, NEW r \in [Frames -> Int], Good(m, X, r), NEW v, NEW from,
         m.err = "no" => May(m.mm, v, from.pte[v].write)
  PROVE  Good(CopyPage(m, v, from), X, r) /\ Same(m, CopyPage(m, v, from))
  <1> DEFINE a == GetPte(m, v)
             n == CopyPage(m, v, from)
  <1>1. Good(a, X, r) /\ Same(m, a)
    BY GetPteGood DEF May
  <1>2. n = PageInsert(AllocPage(a), Frame(a), v, from.pte[v].write)
    BY DEF CopyPage
  <1> HIDE DEF a, n
  <1>3. a.err = "no" => May(a.mm, v, from.pte[v].write)
    BY <1>1 DEF Same, May
  <1>4. Good(n, X, r) /\ Same(a, n)
    BY <1>1, <1>2, <1>3, NewPageGood
  <1>5. Same(m, n)
    BY <1>1, <1>4 DEF Same
  <1> QED BY <1>4, <1>5 DEF n

\* An access that the areas allow.
LEMMA TouchGood ==
  ASSUME NEW m, NEW X, NEW r \in [Frames -> Int], Good(m, X, r), NEW v, NEW write,
         m.err = "no" => Allowed(m, v, write)
  PROVE  Good(Touch(m, v, write), X, r) /\ Same(m, Touch(m, v, write))
  <1> DEFINE n == Touch(m, v, write)
             w == \E a \in m.mm.vmas : v \in Area(a) /\ a.write
  <1>1. CASE m.err # "no"
    <2>1. n = m
      BY <1>1 DEF Touch, Strict
    <2> QED BY <1>1, <2>1 DEF Same
  <1>2. CASE m.err = "no"
    <2>1. SpaceOK(m.mm) /\ Allowed(m, v, write)
      BY <1>2 DEF Good, Goes
    <2>2. n = IF v \in DOMAIN m.mm.pte /\ (write => m.mm.pte[v].write) THEN m
              ELSE IF v \in DOMAIN m.mm.pte THEN [m EXCEPT !.err = "non-writable pte"]
              ELSE PgdirAllocPage(m, v, w)
      BY <1>2, <2>1 DEF Touch, Strict
    <2>3. v \in DOMAIN m.mm.pte /\ write => m.mm.pte[v].write
      <3> SUFFICES ASSUME v \in DOMAIN m.mm.pte, write PROVE m.mm.pte[v].write
        OBVIOUS
      <3>1. PICK a \in m.mm.vmas : v \in Area(a) /\ a.write
        BY <2>1 DEF Allowed
      <3>2. PICK b \in m.mm.vmas : v \in Area(b) /\ b.write = m.mm.pte[v].write
        BY <2>1 DEF SpaceOK
      <3>3. a = b
        BY <2>1, <3>1, <3>2 DEF SpaceOK
      <3> QED BY <3>1, <3>2, <3>3
    <2>4. CASE v \in DOMAIN m.mm.pte
      <3>1. n = m
        BY <2>2, <2>3, <2>4
      <3> QED BY <3>1 DEF Same
    <2>5. CASE v \notin DOMAIN m.mm.pte
      <3>1. n = PgdirAllocPage(m, v, w)
        BY <2>2, <2>5
      <3>2. May(m.mm, v, w)
        <4>1. PICK a \in m.mm.vmas : v \in Area(a)
          BY <2>1 DEF Allowed
        <4>2. a.write \in BOOLEAN /\ (a.write => w)
          BY <2>1, <4>1 DEF SpaceOK
        <4>3. w => a.write
          <5> SUFFICES ASSUME NEW b \in m.mm.vmas, v \in Area(b), b.write PROVE a.write
            OBVIOUS
          <5>1. a = b
            BY <2>1, <4>1 DEF SpaceOK
          <5> QED BY <5>1
        <4> QED BY <4>1, <4>2, <4>3, Zenon DEF May
      <3> HIDE DEF w, n
      <3> QED BY <3>1, <3>2, PgdirAllocPageGood DEF n
    <2> QED BY <2>4, <2>5
  <1> QED BY <1>1, <1>2

\* mm_map of an area that is not empty.
LEMMA MmMapGood ==
  ASSUME NEW m, NEW X, NEW r, Good(m, X, r),
         NEW vma, vma.start \in 0..V-1, vma.end \in 1..V+1, vma.start < vma.end,
         vma.write \in BOOLEAN
  PROVE  /\ Good(MmMap(m, vma), X, r)
         /\ m.err # "no" => MmMap(m, vma) = m
         /\ MmMap(m, vma).err = "no" => MmMap(m, vma).mm.vmas = m.mm.vmas \cup {vma}
  <1> DEFINE n == MmMap(m, vma)
  <1>1. CASE m.err # "no"
    BY <1>1 DEF MmMap, Strict
  <1>2. CASE m.err = "no"
    <2>1. Fits(m, X, r) /\ SpaceOK(m.mm) /\ m.mm.pgdir \in Frames /\ Shaped(m)
      BY <1>2 DEF Good, Goes, Fits
    <2>2. CASE vma.end > V \/ \E a \in m.mm.vmas : vma.start \in Area(a)
      <3>1. n = [m EXCEPT !.err = "invalid"]
        BY <1>2, <2>2 DEF MmMap, Strict
      <3>2. n.err = "invalid" /\ n.mm = m.mm /\ n.free = m.free /\ n.ref = m.ref /\ Shaped(n)
        BY <2>1, <3>1 DEF Shaped
      <3> HIDE DEF n
      <3>3. Fits(n, X, r)
        BY <2>1, <3>2 DEF Fits
      <3>4. Good(n, X, r)
        BY <2>1, <3>2, <3>3 DEF Good, Goes
      <3> QED BY <1>2, <3>2, <3>4 DEF n
    <2>3. CASE /\ ~ (vma.end > V \/ \E a \in m.mm.vmas : vma.start \in Area(a))
               /\ \E a \in m.mm.vmas : a.start \in Area(vma)
      <3>1. n = [m EXCEPT !.err = "overlap"]
        BY <1>2, <2>3 DEF MmMap, Strict
      <3>2. n.err = "overlap"
        BY <2>1, <3>1 DEF Shaped
      <3> HIDE DEF n
      <3>3. Good(n, X, r)
        BY <3>2 DEF Good, Goes, Stops
      <3> QED BY <1>2, <3>2, <3>3 DEF n
    <2>4. CASE /\ ~ (vma.end > V)
               /\ \A a \in m.mm.vmas : vma.start \notin Area(a)
               /\ \A a \in m.mm.vmas : a.start \notin Area(vma)
      <3>1. n = [m EXCEPT !.mm.vmas = @ \cup {vma}]
        BY <1>2, <2>4 DEF MmMap, Strict
      <3>2. /\ n.err = "no" /\ n.free = m.free /\ n.ref = m.ref
            /\ n.mm.pgdir = m.mm.pgdir /\ n.mm.pt = m.mm.pt /\ n.mm.pte = m.mm.pte
            /\ n.mm.vmas = m.mm.vmas \cup {vma}
        BY <1>2, <2>1, <3>1 DEF Shaped
      <3>3. Shaped(n)
        BY <2>1, <3>1 DEF Shaped
      <3> HIDE DEF n
      <3>4. \A f \in Frames : Holds(n.mm, f) <=> Holds(m.mm, f)
        BY <3>2 DEF Holds
      <3>5. Once(n.mm) /\ RefsOf(n.mm, n.ref)
        BY <2>1, <3>2 DEF Fits, Once, RefsOf
      <3>6. Fits(n, X, r)
        BY <2>1, <3>2, <3>3, <3>4, <3>5 DEF Fits
      <3>7. \A a \in m.mm.vmas : Area(a) \cap Area(vma) = {}
        <4> SUFFICES ASSUME NEW a \in m.mm.vmas, NEW v \in Area(a), v \in Area(vma) PROVE FALSE
          OBVIOUS
        <4>1. /\ a.start \in Int /\ a.end \in Int /\ vma.start \in Int /\ vma.end \in Int
              /\ a.start < a.end /\ vma.start < vma.end
          BY <2>1 DEF SpaceOK
        <4>2. v \in Int /\ a.start <= v /\ v < a.end /\ vma.start <= v /\ v < vma.end
          BY <4>1 DEF Area
        <4>3. vma.start <= a.start => a.start \in Area(vma)
          BY <4>1, <4>2 DEF Area
        <4>4. a.start <= vma.start => vma.start \in Area(a)
          BY <4>1, <4>2 DEF Area
        <4> QED BY <2>4, <4>1, <4>3, <4>4
      <3>8. SpaceOK(n.mm)
        <4>1. vma.end \in 1..V
          BY <2>4, MemoryAssumption
        <4> QED BY <2>1, <3>2, <3>7, <4>1 DEF SpaceOK
      <3>9. Good(n, X, r)
        BY <2>1, <3>2, <3>6, <3>8 DEF Good, Goes
      <3> QED BY <1>2, <3>2, <3>9 DEF n
    <2> QED BY <2>2, <2>3, <2>4
  <1> QED BY <1>1, <1>2

-----------------------------------------------------------------------------
(* The loops, with the memory u[k] after k rounds of n. *)

\* The areas by the round of dup_mmap in which their turn comes.
Places(from)    == {V - 1 - vma.start : vma \in from.vmas}
AreaAt(k, from) == CHOOSE vma \in from.vmas : vma.start = V - 1 - k

\* pgdir_alloc_page for each page of vs.
AllocLoop(m, vs, write, n, u) ==
  u = [k \in 0..n |-> IF k = 0 THEN m
                      ELSE IF k - 1 \in vs THEN PgdirAllocPage(u[k - 1], k - 1, write)
                      ELSE u[k - 1]]

\* copy_range.
CopyLoop(m, vs, from, n, u) ==
  u = [k \in 0..n |-> IF k = 0 THEN m
                      ELSE IF k - 1 \in vs THEN CopyPage(u[k - 1], k - 1, from)
                      ELSE u[k - 1]]

\* An access to each page of vs.
TouchLoop(m, vs, write, n, u) ==
  u = [k \in 0..n |-> IF k = 0 THEN m
                      ELSE IF k - 1 \in vs THEN Touch(u[k - 1], k - 1, write)
                      ELSE u[k - 1]]

\* The loop of dup_mmap.
AreaLoop(m, from, n, u) ==
  u = [k \in 0..n |-> IF k = 0 THEN m
                      ELSE IF k - 1 \in Places(from) THEN CopyArea(u[k - 1], AreaAt(k - 1, from), from)
                      ELSE u[k - 1]]

\* The loop of load_icode over the program headers.
SegmentLoop(m, prog, n, u) ==
  u = [k \in 0..n |-> IF k = 0 THEN m
                      ELSE IF k - 1 \in 0..Len(prog)-1 THEN LoadSegment(u[k - 1], prog[k - 1 + 1])
                      ELSE u[k - 1]]

\* Each of them can be carried out.
LEMMA AllocLoopExists ==
  ASSUME NEW m, NEW vs, NEW write, NEW n \in Nat
  PROVE  \E u : AllocLoop(m, vs, write, n, u)
  <1> DEFINE Bad == {k \in Nat : ~(\E u : AllocLoop(m, vs, write, k, u))}
  <1>1. SUFFICES ASSUME Bad # {} PROVE FALSE
    OBVIOUS
  <1>2. PICK b \in Bad : \A k \in Bad : b <= k
    <2>1. Bad \subseteq Nat /\ Bad # {}
      BY <1>1
    <2> QED BY ONLY <2>1, Least
  <1>3. b \in Nat /\ ~(\E u : AllocLoop(m, vs, write, b, u))
    BY <1>2
  <1>4. CASE b = 0
    <2>1. AllocLoop(m, vs, write, 0, [k \in 0..0 |-> m])
      BY DEF AllocLoop
    <2> QED BY <1>3, <1>4, <2>1
  <1>5. CASE b # 0
    <2>1. b - 1 \in Nat /\ b - 1 \notin Bad
      BY <1>2, <1>3, <1>5
    <2>2. PICK c : AllocLoop(m, vs, write, b - 1, c)
      BY <2>1
    <2> DEFINE Step(x, k) == IF k \in vs THEN PgdirAllocPage(x, k, write) ELSE x
               d == [k \in 0..b |-> IF k = b THEN Step(c[b - 1], b - 1) ELSE c[k]]
               Is(k) == d[k] = IF k = 0 THEN m ELSE Step(d[k - 1], k - 1)
    <2>3. \A k \in 0..(b - 1) : c[k] = IF k = 0 THEN m ELSE Step(c[k - 1], k - 1)
      BY <2>2 DEF AllocLoop
    <2> HIDE DEF Step
    <2>4. ASSUME NEW k \in 0..b PROVE Is(k)
      <3>1. k # 0 => k - 1 \in 0..b /\ d[k - 1] = c[k - 1]
        BY <1>3
      <3>2. CASE k = b
        BY <1>5, <3>1, <3>2
      <3>3. CASE k # b
        <4>1. k \in 0..(b - 1) /\ d[k] = c[k]
          BY <1>3, <3>3
        <4> QED BY <2>3, <3>1, <4>1
      <3> QED BY <3>2, <3>3
    <2>5. AllocLoop(m, vs, write, b, d)
      <3>1. d = [k \in 0..b |-> d[k]]
        OBVIOUS
      <3> HIDE DEF d
      <3> QED BY <2>4, <3>1 DEF AllocLoop, Step
    <2> QED BY <1>3, <2>5
  <1> QED BY <1>4, <1>5

\* The same for CopyLoop.
LEMMA CopyLoopExists ==
  ASSUME NEW m, NEW vs, NEW from, NEW n \in Nat
  PROVE  \E u : CopyLoop(m, vs, from, n, u)
  <1> DEFINE Bad == {k \in Nat : ~(\E u : CopyLoop(m, vs, from, k, u))}
  <1>1. SUFFICES ASSUME Bad # {} PROVE FALSE
    OBVIOUS
  <1>2. PICK b \in Bad : \A k \in Bad : b <= k
    <2>1. Bad \subseteq Nat /\ Bad # {}
      BY <1>1
    <2> QED BY ONLY <2>1, Least
  <1>3. b \in Nat /\ ~(\E u : CopyLoop(m, vs, from, b, u))
    BY <1>2
  <1>4. CASE b = 0
    <2>1. CopyLoop(m, vs, from, 0, [k \in 0..0 |-> m])
      BY DEF CopyLoop
    <2> QED BY <1>3, <1>4, <2>1
  <1>5. CASE b # 0
    <2>1. b - 1 \in Nat /\ b - 1 \notin Bad
      BY <1>2, <1>3, <1>5
    <2>2. PICK c : CopyLoop(m, vs, from, b - 1, c)
      BY <2>1
    <2> DEFINE Step(x, k) == IF k \in vs THEN CopyPage(x, k, from) ELSE x
               d == [k \in 0..b |-> IF k = b THEN Step(c[b - 1], b - 1) ELSE c[k]]
               Is(k) == d[k] = IF k = 0 THEN m ELSE Step(d[k - 1], k - 1)
    <2>3. \A k \in 0..(b - 1) : c[k] = IF k = 0 THEN m ELSE Step(c[k - 1], k - 1)
      BY <2>2 DEF CopyLoop
    <2> HIDE DEF Step
    <2>4. ASSUME NEW k \in 0..b PROVE Is(k)
      <3>1. k # 0 => k - 1 \in 0..b /\ d[k - 1] = c[k - 1]
        BY <1>3
      <3>2. CASE k = b
        BY <1>5, <3>1, <3>2
      <3>3. CASE k # b
        <4>1. k \in 0..(b - 1) /\ d[k] = c[k]
          BY <1>3, <3>3
        <4> QED BY <2>3, <3>1, <4>1
      <3> QED BY <3>2, <3>3
    <2>5. CopyLoop(m, vs, from, b, d)
      <3>1. d = [k \in 0..b |-> d[k]]
        OBVIOUS
      <3> HIDE DEF d
      <3> QED BY <2>4, <3>1 DEF CopyLoop, Step
    <2> QED BY <1>3, <2>5
  <1> QED BY <1>4, <1>5

\* The same for TouchLoop.
LEMMA TouchLoopExists ==
  ASSUME NEW m, NEW vs, NEW write, NEW n \in Nat
  PROVE  \E u : TouchLoop(m, vs, write, n, u)
  <1> DEFINE Bad == {k \in Nat : ~(\E u : TouchLoop(m, vs, write, k, u))}
  <1>1. SUFFICES ASSUME Bad # {} PROVE FALSE
    OBVIOUS
  <1>2. PICK b \in Bad : \A k \in Bad : b <= k
    <2>1. Bad \subseteq Nat /\ Bad # {}
      BY <1>1
    <2> QED BY ONLY <2>1, Least
  <1>3. b \in Nat /\ ~(\E u : TouchLoop(m, vs, write, b, u))
    BY <1>2
  <1>4. CASE b = 0
    <2>1. TouchLoop(m, vs, write, 0, [k \in 0..0 |-> m])
      BY DEF TouchLoop
    <2> QED BY <1>3, <1>4, <2>1
  <1>5. CASE b # 0
    <2>1. b - 1 \in Nat /\ b - 1 \notin Bad
      BY <1>2, <1>3, <1>5
    <2>2. PICK c : TouchLoop(m, vs, write, b - 1, c)
      BY <2>1
    <2> DEFINE Step(x, k) == IF k \in vs THEN Touch(x, k, write) ELSE x
               d == [k \in 0..b |-> IF k = b THEN Step(c[b - 1], b - 1) ELSE c[k]]
               Is(k) == d[k] = IF k = 0 THEN m ELSE Step(d[k - 1], k - 1)
    <2>3. \A k \in 0..(b - 1) : c[k] = IF k = 0 THEN m ELSE Step(c[k - 1], k - 1)
      BY <2>2 DEF TouchLoop
    <2> HIDE DEF Step
    <2>4. ASSUME NEW k \in 0..b PROVE Is(k)
      <3>1. k # 0 => k - 1 \in 0..b /\ d[k - 1] = c[k - 1]
        BY <1>3
      <3>2. CASE k = b
        BY <1>5, <3>1, <3>2
      <3>3. CASE k # b
        <4>1. k \in 0..(b - 1) /\ d[k] = c[k]
          BY <1>3, <3>3
        <4> QED BY <2>3, <3>1, <4>1
      <3> QED BY <3>2, <3>3
    <2>5. TouchLoop(m, vs, write, b, d)
      <3>1. d = [k \in 0..b |-> d[k]]
        OBVIOUS
      <3> HIDE DEF d
      <3> QED BY <2>4, <3>1 DEF TouchLoop, Step
    <2> QED BY <1>3, <2>5
  <1> QED BY <1>4, <1>5

\* The same for AreaLoop.
LEMMA AreaLoopExists ==
  ASSUME NEW m, NEW from, NEW n \in Nat
  PROVE  \E u : AreaLoop(m, from, n, u)
  <1> DEFINE Bad == {k \in Nat : ~(\E u : AreaLoop(m, from, k, u))}
  <1>1. SUFFICES ASSUME Bad # {} PROVE FALSE
    OBVIOUS
  <1>2. PICK b \in Bad : \A k \in Bad : b <= k
    <2>1. Bad \subseteq Nat /\ Bad # {}
      BY <1>1
    <2> QED BY ONLY <2>1, Least
  <1>3. b \in Nat /\ ~(\E u : AreaLoop(m, from, b, u))
    BY <1>2
  <1>4. CASE b = 0
    <2>1. AreaLoop(m, from, 0, [k \in 0..0 |-> m])
      BY DEF AreaLoop
    <2> QED BY <1>3, <1>4, <2>1
  <1>5. CASE b # 0
    <2>1. b - 1 \in Nat /\ b - 1 \notin Bad
      BY <1>2, <1>3, <1>5
    <2>2. PICK c : AreaLoop(m, from, b - 1, c)
      BY <2>1
    <2> DEFINE Step(x, k) == IF k \in Places(from) THEN CopyArea(x, AreaAt(k, from), from) ELSE x
               d == [k \in 0..b |-> IF k = b THEN Step(c[b - 1], b - 1) ELSE c[k]]
               Is(k) == d[k] = IF k = 0 THEN m ELSE Step(d[k - 1], k - 1)
    <2>3. \A k \in 0..(b - 1) : c[k] = IF k = 0 THEN m ELSE Step(c[k - 1], k - 1)
      BY <2>2 DEF AreaLoop
    <2> HIDE DEF Step
    <2>4. ASSUME NEW k \in 0..b PROVE Is(k)
      <3>1. k # 0 => k - 1 \in 0..b /\ d[k - 1] = c[k - 1]
        BY <1>3
      <3>2. CASE k = b
        BY <1>5, <3>1, <3>2
      <3>3. CASE k # b
        <4>1. k \in 0..(b - 1) /\ d[k] = c[k]
          BY <1>3, <3>3
        <4> QED BY <2>3, <3>1, <4>1
      <3> QED BY <3>2, <3>3
    <2>5. AreaLoop(m, from, b, d)
      <3>1. d = [k \in 0..b |-> d[k]]
        OBVIOUS
      <3> HIDE DEF d
      <3> QED BY <2>4, <3>1 DEF AreaLoop, Step
    <2> QED BY <1>3, <2>5
  <1> QED BY <1>4, <1>5

\* The same for SegmentLoop.
LEMMA SegmentLoopExists ==
  ASSUME NEW m, NEW prog, NEW n \in Nat
  PROVE  \E u : SegmentLoop(m, prog, n, u)
  <1> DEFINE Bad == {k \in Nat : ~(\E u : SegmentLoop(m, prog, k, u))}
  <1>1. SUFFICES ASSUME Bad # {} PROVE FALSE
    OBVIOUS
  <1>2. PICK b \in Bad : \A k \in Bad : b <= k
    <2>1. Bad \subseteq Nat /\ Bad # {}
      BY <1>1
    <2> QED BY ONLY <2>1, Least
  <1>3. b \in Nat /\ ~(\E u : SegmentLoop(m, prog, b, u))
    BY <1>2
  <1>4. CASE b = 0
    <2>1. SegmentLoop(m, prog, 0, [k \in 0..0 |-> m])
      BY DEF SegmentLoop
    <2> QED BY <1>3, <1>4, <2>1
  <1>5. CASE b # 0
    <2>1. b - 1 \in Nat /\ b - 1 \notin Bad
      BY <1>2, <1>3, <1>5
    <2>2. PICK c : SegmentLoop(m, prog, b - 1, c)
      BY <2>1
    <2> DEFINE Step(x, k) == IF k \in 0..Len(prog)-1 THEN LoadSegment(x, prog[k + 1]) ELSE x
               d == [k \in 0..b |-> IF k = b THEN Step(c[b - 1], b - 1) ELSE c[k]]
               Is(k) == d[k] = IF k = 0 THEN m ELSE Step(d[k - 1], k - 1)
    <2>3. \A k \in 0..(b - 1) : c[k] = IF k = 0 THEN m ELSE Step(c[k - 1], k - 1)
      BY <2>2 DEF SegmentLoop
    <2> HIDE DEF Step
    <2>4. ASSUME NEW k \in 0..b PROVE Is(k)
      <3>1. k # 0 => k - 1 \in 0..b /\ d[k - 1] = c[k - 1]
        BY <1>3
      <3>2. CASE k = b
        BY <1>5, <3>1, <3>2
      <3>3. CASE k # b
        <4>1. k \in 0..(b - 1) /\ d[k] = c[k]
          BY <1>3, <3>3
        <4> QED BY <2>3, <3>1, <4>1
      <3> QED BY <3>2, <3>3
    <2>5. SegmentLoop(m, prog, b, d)
      <3>1. d = [k \in 0..b |-> d[k]]
        OBVIOUS
      <3> HIDE DEF d
      <3> QED BY <2>4, <3>1 DEF SegmentLoop, Step
    <2> QED BY <1>3, <2>5
  <1> QED BY <1>4, <1>5

-----------------------------------------------------------------------------
(* The loops keep the memory as it should be. *)

\* Round after round.
LEMMA Rounds ==
  ASSUME NEW n \in Nat, NEW B, 0 \in B, \A k \in 1..n : k - 1 \in B => k \in B
  PROVE  \A k \in 0..n : k \in B
  <1> DEFINE Bad == {k \in 0..n : k \notin B}
  <1>1. SUFFICES ASSUME Bad # {} PROVE FALSE
    OBVIOUS
  <1>2. PICK b \in Bad : \A k \in Bad : b <= k
    <2>1. Bad \subseteq Nat /\ Bad # {}
      BY <1>1
    <2> QED BY ONLY <2>1, Least
  <1>3. b # 0
    BY <1>2
  <1>4. b \in 1..n /\ b - 1 \in 0..n /\ b - 1 \notin Bad
    BY <1>2, <1>3
  <1> QED BY <1>2, <1>4

\* What two operations leave as it was, both leave together.
LEMMA SameTrans == \A m, n, q : Same(m, n) /\ Same(n, q) => Same(m, q)
  BY DEF Same

\* Doing nothing changes nothing.
LEMMA SameSelf == \A m : Same(m, m)
  BY DEF Same

\* pgdir_alloc_page for pages with the rights of their areas.
LEMMA AllocPagesGood ==
  ASSUME NEW m, NEW X, NEW r \in [Frames -> Int], Good(m, X, r), NEW vs, NEW write,
         m.err = "no" => \A v \in vs : May(m.mm, v, write)
  PROVE  Good(PgdirAllocPages(m, vs, write), X, r) /\ Same(m, PgdirAllocPages(m, vs, write))
  <1>0. V \in Nat
    BY MemoryAssumption
  <1> DEFINE u == CHOOSE x : AllocLoop(m, vs, write, V, x)
             B == {k \in 0..V : Good(u[k], X, r) /\ Same(m, u[k])}
  <1>1. AllocLoop(m, vs, write, V, u)
    <2>1. \E x : AllocLoop(m, vs, write, V, x)
      BY <1>0, AllocLoopExists
    <2> QED BY ONLY <2>1
  <1>2. PgdirAllocPages(m, vs, write) = u[V]
    BY DEF PgdirAllocPages, Each, AllocLoop
  <1> HIDE DEF u
  <1>3. \A k \in 0..V : u[k] = IF k = 0 THEN m
                               ELSE IF k - 1 \in vs THEN PgdirAllocPage(u[k - 1], k - 1, write)
                               ELSE u[k - 1]
    BY <1>1 DEF AllocLoop
  <1>4. 0 \in B
    BY <1>0, <1>3, SameSelf
  <1>5. ASSUME NEW k \in 1..V, k - 1 \in B PROVE k \in B
    <2> DEFINE x == u[k - 1]
    <2>1. Good(x, X, r) /\ Same(m, x) /\ k \in 0..V /\ k # 0
      BY <1>0, <1>5
    <2>2. u[k] = IF k - 1 \in vs THEN PgdirAllocPage(x, k - 1, write) ELSE x
      BY <1>3, <2>1
    <2> HIDE DEF x
    <2>3. CASE k - 1 \in vs
      <3>1. x.err = "no" => May(x.mm, k - 1, write)
        BY <2>1, <2>3 DEF Same, May
      <3>2. Good(u[k], X, r) /\ Same(x, u[k])
        BY <2>1, <2>2, <2>3, <3>1, PgdirAllocPageGood
      <3> QED BY <2>1, <3>2, SameTrans
    <2>4. CASE k - 1 \notin vs
      BY <2>1, <2>2, <2>4
    <2> QED BY <2>3, <2>4
  <1>6. \A k \in 0..V : k \in B
    <2> HIDE DEF B
    <2> QED BY ONLY <1>0, <1>4, <1>5, Rounds
  <1> QED BY <1>0, <1>2, <1>6

\* What the kernel does to a buffer whose pages the areas allow it.
LEMMA TouchAllGood ==
  ASSUME NEW m, NEW X, NEW r \in [Frames -> Int], Good(m, X, r), NEW vs, NEW write,
         m.err = "no" => \A v \in vs : Allowed(m, v, write)
  PROVE  Good(TouchAll(m, vs, write), X, r) /\ Same(m, TouchAll(m, vs, write))
  <1>0. V \in Nat
    BY MemoryAssumption
  <1> DEFINE u == CHOOSE x : TouchLoop(m, vs, write, V, x)
             B == {k \in 0..V : Good(u[k], X, r) /\ Same(m, u[k])}
  <1>1. TouchLoop(m, vs, write, V, u)
    <2>1. \E x : TouchLoop(m, vs, write, V, x)
      BY <1>0, TouchLoopExists
    <2> QED BY ONLY <2>1
  <1>2. TouchAll(m, vs, write) = u[V]
    BY DEF TouchAll, Each, TouchLoop
  <1> HIDE DEF u
  <1>3. \A k \in 0..V : u[k] = IF k = 0 THEN m
                               ELSE IF k - 1 \in vs THEN Touch(u[k - 1], k - 1, write)
                               ELSE u[k - 1]
    BY <1>1 DEF TouchLoop
  <1>4. 0 \in B
    BY <1>0, <1>3, SameSelf
  <1>5. ASSUME NEW k \in 1..V, k - 1 \in B PROVE k \in B
    <2> DEFINE x == u[k - 1]
    <2>1. Good(x, X, r) /\ Same(m, x) /\ k \in 0..V /\ k # 0
      BY <1>0, <1>5
    <2>2. u[k] = IF k - 1 \in vs THEN Touch(x, k - 1, write) ELSE x
      BY <1>3, <2>1
    <2> HIDE DEF x
    <2>3. CASE k - 1 \in vs
      <3>1. x.err = "no" => Allowed(x, k - 1, write)
        BY <2>1, <2>3 DEF Same, Allowed
      <3>2. Good(u[k], X, r) /\ Same(x, u[k])
        BY <2>1, <2>2, <2>3, <3>1, TouchGood
      <3> QED BY <2>1, <3>2, SameTrans
    <2>4. CASE k - 1 \notin vs
      BY <2>1, <2>2, <2>4
    <2> QED BY <2>3, <2>4
  <1>6. \A k \in 0..V : k \in B
    <2> HIDE DEF B
    <2> QED BY ONLY <1>0, <1>4, <1>5, Rounds
  <1> QED BY <1>0, <1>2, <1>6

\* The same, when a fault that is not allowed would be a panic: there is none.
LEMMA KernelTouchGood ==
  ASSUME NEW m, NEW X, NEW r \in [Frames -> Int], Good(m, X, r), NEW vs, NEW write,
         m.err = "no" => \A v \in vs : Allowed(m, v, write)
  PROVE  Good(KernelTouch(m, vs, write), X, r) /\ Same(m, KernelTouch(m, vs, write))
  <1> DEFINE a == TouchAll(m, vs, write)
  <1>1. Good(a, X, r) /\ Same(m, a)
    BY TouchAllGood
  <1>2. KernelTouch(m, vs, write) = IF a.err = "fault" THEN [a EXCEPT !.err = "kernel fault"] ELSE a
    BY DEF KernelTouch
  <1> HIDE DEF a
  <1>3. a.err # "fault"
    BY <1>1 DEF Good, Goes, Stops
  <1> QED BY <1>1, <1>2, <1>3

\* copy_range of an area of the parent.
LEMMA CopyAreaGood ==
  ASSUME NEW m, NEW X, NEW r \in [Frames -> Int], Good(m, X, r), NEW from, SpaceOK(from), NEW vma \in from.vmas
  PROVE  Good(CopyArea(m, vma, from), X, r)
  <1>0. V \in Nat
    BY MemoryAssumption
  <1> DEFINE a  == MmMap(m, vma)
             vs == Area(vma) \cap DOMAIN from.pte
             u  == CHOOSE x : CopyLoop(a, vs, from, V, x)
             B  == {k \in 0..V : Good(u[k], X, r) /\ Same(a, u[k])}
  <1>a. /\ vma.start \in 0..V-1 /\ vma.end \in 1..V+1 /\ vma.start < vma.end /\ vma.write \in BOOLEAN
    BY <1>0 DEF SpaceOK
  <1>b. Good(a, X, r) /\ (a.err = "no" => a.mm.vmas = m.mm.vmas \cup {vma})
    BY <1>a, MmMapGood
  <1>c. CopyArea(m, vma, from) = (CHOOSE x : CopyLoop(a, vs, from, V, x))[V]
    BY DEF CopyArea, Each, CopyLoop
  <1> HIDE DEF a
  <1>d. \A v \in vs : from.pte[v].write = vma.write
    BY DEF SpaceOK
  <1>e. \A v \in vs : v \in Area(vma)
    OBVIOUS
  <1> HIDE DEF vs
  <1>1. CopyLoop(a, vs, from, V, u)
    <2>1. \E x : CopyLoop(a, vs, from, V, x)
      BY <1>0, CopyLoopExists
    <2> QED BY ONLY <2>1
  <1>2. CopyArea(m, vma, from) = u[V]
    BY <1>c
  <1> HIDE DEF u
  <1>3. \A k \in 0..V : u[k] = IF k = 0 THEN a
                               ELSE IF k - 1 \in vs THEN CopyPage(u[k - 1], k - 1, from)
                               ELSE u[k - 1]
    BY <1>1 DEF CopyLoop
  <1>4. 0 \in B
    BY <1>0, <1>3, <1>b, SameSelf
  <1>5. ASSUME NEW k \in 1..V, k - 1 \in B PROVE k \in B
    <2> DEFINE x == u[k - 1]
    <2>1. Good(x, X, r) /\ Same(a, x) /\ k \in 0..V /\ k # 0
      BY <1>0, <1>5
    <2>2. u[k] = IF k - 1 \in vs THEN CopyPage(x, k - 1, from) ELSE x
      BY <1>3, <2>1
    <2> HIDE DEF x
    <2>3. CASE k - 1 \in vs
      <3>1. x.err = "no" => vma \in x.mm.vmas
        BY <1>b, <2>1 DEF Same
      <3>2. x.err = "no" => May(x.mm, k - 1, from.pte[k - 1].write)
        BY <1>d, <1>e, <2>3, <3>1 DEF May
      <3>3. Good(u[k], X, r) /\ Same(x, u[k])
        BY <2>1, <2>2, <2>3, <3>2, CopyPageGood
      <3> QED BY <2>1, <3>3, SameTrans
    <2>4. CASE k - 1 \notin vs
      BY <2>1, <2>2, <2>4
    <2> QED BY <2>3, <2>4
  <1>6. \A k \in 0..V : k \in B
    <2> HIDE DEF B
    <2> QED BY ONLY <1>0, <1>4, <1>5, Rounds
  <1> QED BY <1>0, <1>2, <1>6

\* dup_mmap of an mm_struct that is as it should be.
LEMMA DupMmapGood ==
  ASSUME NEW m, NEW X, NEW r \in [Frames -> Int], Good(m, X, r), NEW from, SpaceOK(from)
  PROVE  Good(DupMmap(m, from), X, r)
  <1>0. V \in Nat
    BY MemoryAssumption
  <1> DEFINE u == CHOOSE x : AreaLoop(m, from, V, x)
             B == {k \in 0..V : Good(u[k], X, r)}
  <1>1. AreaLoop(m, from, V, u)
    <2>1. \E x : AreaLoop(m, from, V, x)
      BY <1>0, AreaLoopExists
    <2> QED BY ONLY <2>1
  <1>2. DupMmap(m, from) = u[V]
    BY DEF DupMmap, Each, AreaLoop, AreaAt, Places
  <1> HIDE DEF u
  <1>3. \A k \in 0..V : u[k] = IF k = 0 THEN m
                               ELSE IF k - 1 \in Places(from) THEN CopyArea(u[k - 1], AreaAt(k - 1, from), from)
                               ELSE u[k - 1]
    BY <1>1 DEF AreaLoop
  <1>4. 0 \in B
    BY <1>0, <1>3
  <1>5. ASSUME NEW k \in 1..V, k - 1 \in B PROVE k \in B
    <2> DEFINE x == u[k - 1]
    <2>1. Good(x, X, r) /\ k \in 0..V /\ k # 0
      BY <1>0, <1>5
    <2>2. u[k] = IF k - 1 \in Places(from) THEN CopyArea(x, AreaAt(k - 1, from), from) ELSE x
      BY <1>3, <2>1
    <2> HIDE DEF x
    <2>3. CASE k - 1 \in Places(from)
      <3>1. PICK a \in from.vmas : k - 1 = V - 1 - a.start
        BY <2>3 DEF Places
      <3>2. a.start \in Int
        BY DEF SpaceOK
      <3>3. a.start = V - 1 - (k - 1)
        BY <1>0, <3>1, <3>2
      <3>4. AreaAt(k - 1, from) \in from.vmas
        BY <3>3 DEF AreaAt
      <3>5. Good(u[k], X, r)
        BY <2>1, <2>2, <2>3, <3>4, CopyAreaGood
      <3> QED BY <2>1, <3>5
    <2>4. CASE k - 1 \notin Places(from)
      BY <2>1, <2>2, <2>4
    <2> QED BY <2>3, <2>4
  <1>6. \A k \in 0..V : k \in B
    <2> HIDE DEF B
    <2> QED BY ONLY <1>0, <1>4, <1>5, Rounds
  <1> QED BY <1>0, <1>2, <1>6

\* mm_create and setup_pgdir.
LEMMA NewMmGood ==
  ASSUME NEW m, NEW X, NEW r \in [Frames -> Int], Fits(m, X, r), m.err = "no", m.mm = NoMm
  PROVE  Good(NewMm(m), X, r)
  <1> DEFINE a == AllocPage(m)
             f == Frame(m)
             s == [NoMm EXCEPT !.pgdir = f]
             n == NewMm(m)
  <1>1. n = IF a.err = "no" THEN [a EXCEPT !.mm = s] ELSE a
    BY DEF NewMm, Strict
  <1>2. CASE a.err # "no"
    <2>1. a.err = "exhausted"
      BY <1>2, AllocPageFits
    <2> HIDE DEF a
    <2> QED BY <1>1, <1>2, <2>1 DEF Good, Goes, Stops
  <1>3. CASE a.err = "no"
    <2>1. f \in Frames \ X /\ Fits(a, X \cup {f}, Spare(r, f))
      BY <1>3, AllocPageFits
    <2>2. a.mm = NoMm
      BY <1>3, AllocPageFits
    <2>3. s.pgdir = f /\ s.vmas = {} /\ s.pt = <<>> /\ s.pte = <<>> /\ {"pgdir", "vmas", "pt", "pte"} \subseteq DOMAIN s
      BY DEF NoMm
    <2> HIDE DEF a, f, s, n
    <2>4. DOMAIN s.pt = {} /\ DOMAIN s.pte = {}
      BY <2>3
    <2>5. Shaped(a) /\ n = [a EXCEPT !.mm = s]
      BY <1>1, <1>3, <2>1 DEF Fits
    <2>6. Shaped(n) /\ n.mm = s /\ n.free = a.free /\ n.ref = a.ref /\ n.err = "no"
      BY <1>3, <2>3, <2>5 DEF Shaped
    <2>7. \A g \in Frames : ~Holds(a.mm, g)
      <3>1. NoMm.pgdir = 0 /\ DOMAIN NoMm.pt = {} /\ DOMAIN NoMm.pte = {}
        BY DEF NoMm
      <3>2. 0 \notin Frames
        BY MemoryAssumption DEF Frames
      <3> QED BY <2>2, <3>1, <3>2 DEF Holds
    <2>8. \A g \in Frames : Holds(n.mm, g) <=> g = f
      BY <2>3, <2>4, <2>6 DEF Holds
    <2>9. a.ref[f] = 0 /\ f \notin a.free /\ X \subseteq Frames
      BY <2>1 DEF Fits, Spare
    <2>10. Once(n.mm) /\ RefsOf(n.mm, n.ref)
      BY <2>3, <2>4, <2>6, <2>9 DEF Once, RefsOf
    <2>11. \A g \in X : n.ref[g] = r[g]
      BY <2>1, <2>6 DEF Fits, Spare
    <2>12. Fits(n, X, r)
      BY <2>1, <2>6, <2>7, <2>8, <2>9, <2>10, <2>11 DEF Fits
    <2>13. SpaceOK(n.mm)
      BY <2>3, <2>4, <2>6 DEF SpaceOK
    <2> QED BY <2>1, <2>3, <2>6, <2>12, <2>13 DEF Good, Goes, n
  <1> QED BY <1>2, <1>3

\* free_pages.
LEMMA FreeFramesIs ==
  ASSUME NEW m, Shaped(m), NEW S, S \subseteq Frames
  PROVE  /\ Shaped(FreeFrames(m, S))
         /\ FreeFrames(m, S).free = m.free \cup S
         /\ \A f \in Frames : FreeFrames(m, S).ref[f] = IF f \in S THEN 0 ELSE m.ref[f]
         /\ FreeFrames(m, S).mm = m.mm /\ FreeFrames(m, S).err = m.err
  <1> DEFINE rf == [f \in Frames |-> IF f \in S THEN 0 ELSE m.ref[f]]
             n == FreeFrames(m, S)
  <1>1. n = [m EXCEPT !.free = @ \cup S, !.ref = rf]
    BY DEF FreeFrames
  <1>2. rf \in [Frames -> Int] /\ \A f \in Frames : rf[f] = IF f \in S THEN 0 ELSE m.ref[f]
    BY DEF Shaped
  <1> HIDE DEF rf, n
  <1>3. /\ {"free", "ref", "mm", "err"} \subseteq DOMAIN n
        /\ n.free = m.free \cup S /\ n.ref = rf /\ n.mm = m.mm /\ n.err = m.err
    BY <1>1 DEF Shaped
  <1> QED BY <1>2, <1>3 DEF Shaped, n

\* exit_mmap finds all that is mapped, and all page tables.
LEMMA ExitMmapFits ==
  ASSUME NEW m, NEW X, NEW r, Fits(m, X, r), SpaceOK(m.mm)
  PROVE  LET n == ExitMmap(m) IN
         Fits(n, X, r) /\ DOMAIN n.mm.pt = {} /\ DOMAIN n.mm.pte = {} /\ n.mm.pgdir = m.mm.pgdir /\ n.err = m.err
  <1> DEFINE a      == RemovePtes(m, Areas(m))
             tables == {v \div T : v \in Areas(m)} \cap DOMAIN m.mm.pt
             S      == {m.mm.pt[t] : t \in tables}
             b      == FreeFrames(a, S)
             rest   == Restrict(b.mm.pt, DOMAIN b.mm.pt \ tables)
             n      == ExitMmap(m)
  <1>0. n = [b EXCEPT !.mm.pt = rest]
    BY DEF ExitMmap
  <1>1. Fits(a, X, r)
    BY RemoveFits
  <1>2. /\ a.mm.pgdir = m.mm.pgdir /\ a.mm.pt = m.mm.pt /\ a.err = m.err
        /\ DOMAIN a.mm.pte = DOMAIN m.mm.pte \ Areas(m)
    BY RemovePtesIs DEF Fits
  <1>3. DOMAIN m.mm.pte \subseteq Areas(m)
    BY DEF SpaceOK, Areas
  <1>4. tables = DOMAIN m.mm.pt
    BY DEF SpaceOK, Areas
  <1> HIDE DEF tables, a
  <1>5. S \subseteq Frames /\ Shaped(a)
    BY <1>1, <1>2, <1>4 DEF Fits, Once
  <1>6. \A f \in Frames : f \in S <=> \E t \in DOMAIN m.mm.pt : f = m.mm.pt[t]
    BY <1>4
  <1> HIDE DEF S
  <1>7. /\ Shaped(b) /\ b.free = a.free \cup S /\ b.mm = a.mm /\ b.err = a.err
        /\ \A f \in Frames : b.ref[f] = IF f \in S THEN 0 ELSE a.ref[f]
    BY <1>5, FreeFramesIs
  <1>8. DOMAIN rest = {}
    BY <1>2, <1>4, <1>7 DEF Restrict
  <1> HIDE DEF b, rest, n
  <1>9. /\ Shaped(n) /\ n.free = b.free /\ n.ref = b.ref /\ n.err = b.err
        /\ n.mm.pgdir = b.mm.pgdir /\ n.mm.pt = rest /\ n.mm.pte = b.mm.pte
    BY <1>0, <1>7 DEF Shaped
  <1>10. DOMAIN n.mm.pt = {} /\ DOMAIN n.mm.pte = {} /\ n.mm.pgdir = m.mm.pgdir /\ n.err = m.err
    BY <1>2, <1>3, <1>7, <1>8, <1>9
  <1>11. \A f \in Frames : Holds(n.mm, f) <=> f = m.mm.pgdir
    BY <1>10 DEF Holds
  <1>12. \A f \in Frames : Holds(a.mm, f) <=> f = m.mm.pgdir \/ f \in S
    BY <1>2, <1>3, <1>6 DEF Holds
  <1>13. m.mm.pgdir \notin S
    BY <1>1, <1>2, <1>5, <1>6 DEF Fits, Once
  <1>14. Once(n.mm)
    BY <1>10 DEF Once
  <1>15. RefsOf(n.mm, n.ref)
    BY <1>1, <1>2, <1>7, <1>9, <1>10, <1>13 DEF RefsOf, Fits
  <1>16. Fits(n, X, r)
    BY <1>1, <1>7, <1>9, <1>11, <1>12, <1>13, <1>14, <1>15 DEF Fits
  <1> QED BY <1>10, <1>16 DEF n

\* Nothing is left of an mm_struct, and what it held is free.
LEMMA DropMmFits ==
  ASSUME NEW m, NEW X, NEW r, Fits(m, X, r), SpaceOK(m.mm), m.mm = NoMm \/ m.mm.pgdir \in Frames
  PROVE  Fits(DropMm(m), X, r) /\ DropMm(m).mm = NoMm /\ DropMm(m).err = m.err
  <1>1. CASE m.mm = NoMm
    BY <1>1 DEF DropMm
  <1>2. CASE m.mm # NoMm
    <2> DEFINE a == ExitMmap(m)
               S == {m.mm.pgdir}
               b == FreeFrames(a, S)
               n == DropMm(m)
    <2>1. n = [b EXCEPT !.mm = NoMm]
      BY <1>2 DEF DropMm
    <2>2. Fits(a, X, r) /\ DOMAIN a.mm.pt = {} /\ DOMAIN a.mm.pte = {} /\ a.mm.pgdir = m.mm.pgdir /\ a.err = m.err
      BY ExitMmapFits
    <2>3. S \subseteq Frames /\ m.mm.pgdir \in Frames
      BY <1>2
    <2> HIDE DEF a
    <2>4. /\ Shaped(b) /\ b.free = a.free \cup S /\ b.mm = a.mm /\ b.err = a.err
          /\ \A f \in Frames : b.ref[f] = IF f \in S THEN 0 ELSE a.ref[f]
      <3>1. Shaped(a)
        BY <2>2 DEF Fits
      <3> HIDE DEF S
      <3> QED BY <2>3, <3>1, FreeFramesIs
    <2> HIDE DEF b, n
    <2>5. /\ NoMm.pgdir = 0 /\ DOMAIN NoMm.pt = {} /\ DOMAIN NoMm.pte = {}
          /\ {"pgdir", "vmas", "pt", "pte"} \subseteq DOMAIN NoMm
      BY DEF NoMm
    <2>6. Shaped(n) /\ n.mm = NoMm /\ n.free = b.free /\ n.ref = b.ref /\ n.err = b.err
      BY <2>1, <2>4, <2>5 DEF Shaped
    <2>7. 0 \notin Frames
      BY MemoryAssumption DEF Frames
    <2>8. \A f \in Frames : ~Holds(n.mm, f) /\ (Holds(a.mm, f) <=> f \in S)
      BY <2>2, <2>5, <2>6, <2>7 DEF Holds
    <2>9. Once(n.mm) /\ RefsOf(n.mm, n.ref)
      BY <2>5, <2>6, <2>7 DEF Once, RefsOf
    <2>10. Fits(n, X, r)
      BY <2>2, <2>4, <2>6, <2>8, <2>9 DEF Fits
    <2> QED BY <2>2, <2>4, <2>6, <2>10 DEF n
  <1> QED BY <1>1, <1>2

\* A program header.
SegmentType == [start : 0..V-1, end : 1..V+1, write : BOOLEAN, short : BOOLEAN]

\* load_icode for one program header.
LEMMA LoadSegmentGood ==
  ASSUME NEW m, NEW X, NEW r \in [Frames -> Int], Good(m, X, r), NEW seg \in SegmentType, seg.start < seg.end
  PROVE  Good(LoadSegment(m, seg), X, r)
  <1> DEFINE vma == [start |-> seg.start, end |-> seg.end, write |-> seg.write, stack |-> FALSE]
             vs  == IF seg.short THEN {seg.start} ELSE Area(vma)
             b   == MmMap(m, vma)
             a   == PgdirAllocPages(b, vs, seg.write)
             n   == LoadSegment(m, seg)
  <1>0. n = IF seg.short THEN Strict(a, [a EXCEPT !.err = "invalid"]) ELSE a
    BY DEF LoadSegment
  <1>1. /\ vma.start \in 0..V-1 /\ vma.end \in 1..V+1 /\ vma.start < vma.end /\ vma.write \in BOOLEAN
        /\ vma.write = seg.write /\ vma.start = seg.start
    BY DEF SegmentType
  <1>2. \A v \in vs : v \in Area(vma)
    BY <1>1 DEF Area
  <1> HIDE DEF vma, vs
  <1>3. Good(b, X, r) /\ (b.err = "no" => vma \in b.mm.vmas)
    BY <1>1, MmMapGood
  <1> HIDE DEF b
  <1>4. b.err = "no" => \A v \in vs : May(b.mm, v, seg.write)
    BY <1>1, <1>2, <1>3 DEF May
  <1>5. Good(a, X, r)
    BY <1>3, <1>4, AllocPagesGood
  <1> HIDE DEF a, n
  <1>6. CASE a.err # "no" \/ ~seg.short
    <2>1. n = a
      BY <1>0, <1>6 DEF Strict
    <2> QED BY <1>5, <2>1 DEF n
  <1>7. CASE a.err = "no" /\ seg.short
    <2>1. n = [a EXCEPT !.err = "invalid"]
      BY <1>0, <1>7 DEF Strict
    <2>2. Fits(a, X, r) /\ SpaceOK(a.mm) /\ a.mm.pgdir \in Frames /\ Shaped(a)
      BY <1>5, <1>7 DEF Good, Goes, Fits
    <2>3. n.err = "invalid" /\ n.mm = a.mm /\ n.free = a.free /\ n.ref = a.ref /\ Shaped(n)
      BY <2>1, <2>2 DEF Shaped
    <2>4. Fits(n, X, r)
      BY <2>2, <2>3 DEF Fits
    <2> QED BY <2>2, <2>3, <2>4 DEF Good, Goes, n
  <1> QED BY <1>6, <1>7

\* load_icode: the program is there, or nothing of it.
LEMMA LoadIcodeGood ==
  ASSUME NEW m, NEW X, NEW r \in [Frames -> Int], Fits(m, X, r), m.err = "no", m.mm = NoMm,
         NEW prog \in Programs, NEW args \in 1..ArgPages
  PROVE  LET n == LoadIcode(m, prog, args) IN
         /\ n.err \in Goes \cup Stops
         /\ n.err = "no" => Good(n, X, r)
         /\ n.err = "invalid" => Fits(n, X, r) /\ n.mm = NoMm
  <1>0. /\ V \in Nat /\ Stack \in 1..V /\ StackInit \in 1..Stack /\ args \in 1..Stack
        /\ prog \in Seq(SegmentType) /\ \A i \in 1..Len(prog) : prog[i].start < prog[i].end
    <2>1. V \in Nat /\ Stack \in 1..V /\ StackInit \in 1..Stack /\ args \in 1..Stack
      BY MemoryAssumption
    <2>2. prog \in Seq(SegmentType) /\ \A i \in 1..Len(prog) : prog[i].start < prog[i].end
      BY MemoryAssumption DEF SegmentType
    <2> QED BY <2>1, <2>2
  <1> DEFINE len   == Len(prog)
             new   == NewMm(m)
             u     == CHOOSE x : SegmentLoop(new, prog, len, x)
             B     == {k \in 0..len : Good(u[k], X, r)}
             stack == [start |-> V - Stack, end |-> V, write |-> TRUE, stack |-> TRUE]
             b     == MmMap(u[len], stack)
             vs    == (V - StackInit)..(V - 1)
             a     == PgdirAllocPages(b, vs, TRUE)
             top   == (V - args)..(V - 1)
             n     == LoadIcode(m, prog, args)
  <1>1. SegmentLoop(new, prog, len, u)
    <2>1. len \in Nat
      BY <1>0
    <2>2. \E x : SegmentLoop(new, prog, len, x)
      BY <2>1, SegmentLoopExists
    <2> QED BY ONLY <2>2
  <1>2. n = IF a.err = "invalid" THEN DropMm(a) ELSE KernelTouch(a, top, TRUE)
    BY DEF LoadIcode, Each, SegmentLoop
  <1>3. Good(new, X, r)
    BY NewMmGood
  <1> HIDE DEF u, new
  <1>4. \A k \in 0..len : u[k] = IF k = 0 THEN new
                                 ELSE IF k - 1 \in 0..len-1 THEN LoadSegment(u[k - 1], prog[k - 1 + 1])
                                 ELSE u[k - 1]
    BY <1>1 DEF SegmentLoop
  <1>5. len \in Nat /\ 0 \in B
    BY <1>0, <1>3, <1>4
  <1>6. ASSUME NEW k \in 1..len, k - 1 \in B PROVE k \in B
    <2> DEFINE x == u[k - 1]
    <2>1. Good(x, X, r) /\ k \in 0..len /\ k # 0 /\ k - 1 \in 0..len-1 /\ k - 1 + 1 = k
      BY <1>5, <1>6
    <2>2. u[k] = LoadSegment(x, prog[k])
      BY <1>4, <2>1
    <2>3. prog[k] \in SegmentType /\ prog[k].start < prog[k].end
      BY <1>0
    <2> HIDE DEF x
    <2>4. Good(u[k], X, r)
      BY <2>1, <2>2, <2>3, LoadSegmentGood
    <2> QED BY <2>1, <2>4
  <1>7. Good(u[len], X, r)
    <2> HIDE DEF B, len
    <2>1. \A k \in 0..len : k \in B
      BY ONLY <1>5, <1>6, Rounds
    <2> QED BY <1>5, <2>1 DEF B
  <1>8. /\ stack.start \in 0..V-1 /\ stack.end \in 1..V+1 /\ stack.start < stack.end
        /\ stack.write \in BOOLEAN /\ stack.write = TRUE /\ \A v \in vs \cup top : v \in Area(stack)
    BY <1>0 DEF Area
  <1> HIDE DEF stack, vs, top
  <1>9. Good(b, X, r) /\ (b.err = "no" => stack \in b.mm.vmas)
    BY <1>7, <1>8, MmMapGood
  <1> HIDE DEF b
  <1>10. b.err = "no" => \A v \in vs : May(b.mm, v, TRUE)
    BY <1>8, <1>9 DEF May
  <1>11. Good(a, X, r) /\ Same(b, a)
    BY <1>9, <1>10, AllocPagesGood
  <1> HIDE DEF a, n
  <1>12. CASE a.err # "invalid"
    <2>1. n = KernelTouch(a, top, TRUE)
      BY <1>2, <1>12
    <2>2. a.err = "no" => stack \in a.mm.vmas
      BY <1>9, <1>11 DEF Same
    <2>3. a.err = "no" => \A v \in top : Allowed(a, v, TRUE)
      BY <1>8, <2>2 DEF Allowed
    <2>4. Good(n, X, r) /\ Same(a, n)
      BY <1>11, <2>1, <2>3, KernelTouchGood
    <2>5. n.err # "invalid"
      BY <1>12, <2>4 DEF Same, Stops
    <2> QED BY <2>4, <2>5 DEF Good, n
  <1>13. CASE a.err = "invalid"
    <2>1. n = DropMm(a)
      BY <1>2, <1>13
    <2>2. Fits(a, X, r) /\ SpaceOK(a.mm) /\ a.mm.pgdir \in Frames
      BY <1>11, <1>13 DEF Good, Goes
    <2>3. Fits(n, X, r) /\ n.mm = NoMm /\ n.err = "invalid"
      BY <1>13, <2>1, <2>2, DropMmFits
    <2> QED BY <2>3 DEF Goes, n
  <1> QED BY <1>12, <1>13

-----------------------------------------------------------------------------
(* The inductive invariant. *)

\* The two frames of the kernel stack at k.
StackAt(k) == IF k = 0 THEN {} ELSE {k, k + 1}

\* The frames that processes other than p hold.
Theirs(p, ks, s) ==
  {f \in Frames : \E q \in Procs \ {p} : Holds(s[q], f) \/ f \in StackAt(ks[q])}

\* Every frame is free or held by one process for one thing.
FramesOK(fr, rf, ks, s) ==
  /\ fr \subseteq Frames /\ rf \in [Frames -> Int]
  /\ \A p \in Procs : StackAt(ks[p]) \subseteq Frames /\ Once(s[p]) /\ RefsOf(s[p], rf)
  /\ \A p, q \in Procs : p # q => \A f \in Frames : ~(Holds(s[p], f) /\ Holds(s[q], f))
  /\ \A p, q \in Procs : p # q => StackAt(ks[p]) \cap StackAt(ks[q]) = {}
  /\ \A p, q \in Procs : \A f \in StackAt(ks[p]) : ~Holds(s[q], f)
  /\ \A p \in Procs : \A f \in StackAt(ks[p]) : f \notin fr /\ rf[f] = 0
  /\ \A f \in fr : rf[f] = 0 /\ \A p \in Procs : ~Holds(s[p], f)
  /\ \A f \in Frames : f \in fr \/ \E p \in Procs : Holds(s[p], f) \/ f \in StackAt(ks[p])

\* Every mm_struct has areas that do not overlap, and a page directory.
SpacesWell(s) ==
  /\ s = [p \in Procs |-> s[p]]
  /\ \A p \in Procs : /\ {"pgdir", "vmas", "pt", "pte"} \subseteq DOMAIN s[p]
                      /\ SpaceOK(s[p])
                      /\ s[p] = NoMm \/ s[p].pgdir \in Frames

\* Only the living have an mm_struct, and whoever exists has a kernel stack.
Lives(st, ks, s) ==
  /\ st \in [Procs -> {"none", "live", "zombie"}]
  /\ ks \in [Procs -> 0..F-1]
  /\ \A p \in Procs : /\ ks[p] = 0 <=> st[p] = "none"
                      /\ st[p] # "live" => s[p] = NoMm

\* What every operation preserves.
MemInv ==
  /\ FramesOK(free, ref, kstack, mm)
  /\ SpacesWell(mm)
  /\ Lives(state, kstack, mm)
  /\ NoKernelFault

\* Nothing is held without an mm_struct.
LEMMA NoMmHolds ==
  /\ \A f \in Frames : ~Holds(NoMm, f)
  /\ Once(NoMm) /\ SpaceOK(NoMm) /\ \A rf : RefsOf(NoMm, rf)
  /\ {"pgdir", "vmas", "pt", "pte"} \subseteq DOMAIN NoMm
  <1>1. /\ NoMm.pgdir = 0 /\ DOMAIN NoMm.pt = {} /\ DOMAIN NoMm.pte = {} /\ NoMm.vmas = {}
        /\ {"pgdir", "vmas", "pt", "pte"} \subseteq DOMAIN NoMm
    BY DEF NoMm
  <1>2. 0 \notin Frames
    BY MemoryAssumption DEF Frames
  <1> QED BY <1>1, <1>2 DEF Holds, Once, SpaceOK, RefsOf

\* What a process may work with: its own, and what is free.
LEMMA Lower ==
  ASSUME NEW fr, NEW rf, NEW ks, NEW s, FramesOK(fr, rf, ks, s), SpacesWell(s), NEW p \in Procs,
         NEW m, m = [free |-> fr, ref |-> rf, mm |-> s[p], err |-> "no"]
  PROVE  Fits(m, Theirs(p, ks, s) \cup StackAt(ks[p]), rf)
  <1> DEFINE X == Theirs(p, ks, s) \cup StackAt(ks[p])
  <1>1. Shaped(m) /\ m.free = fr /\ m.ref = rf /\ m.mm = s[p]
    BY DEF FramesOK, SpacesWell, Shaped
  <1>2. Once(m.mm) /\ RefsOf(m.mm, m.ref) /\ X \subseteq Frames
    BY <1>1 DEF FramesOK, Theirs
  <1>3. ASSUME NEW f \in X PROVE f \notin fr /\ ~Holds(s[p], f)
    <2>1. CASE f \in StackAt(ks[p])
      BY <2>1 DEF FramesOK
    <2>2. CASE f \in Theirs(p, ks, s)
      <3>1. PICK q \in Procs \ {p} : Holds(s[q], f) \/ f \in StackAt(ks[q])
        BY <2>2 DEF Theirs
      <3>2. f \in Frames
        BY <2>2 DEF Theirs
      <3> QED BY <3>1, <3>2 DEF FramesOK
    <2> QED BY <2>1, <2>2
  <1>4. ASSUME NEW f \in fr PROVE ~Holds(s[p], f) /\ rf[f] = 0
    BY DEF FramesOK
  <1>5. ASSUME NEW f \in Frames PROVE f \in X \/ f \in fr \/ Holds(s[p], f)
    <2>1. CASE f \in fr
      BY <2>1
    <2>2. CASE \E q \in Procs : Holds(s[q], f) \/ f \in StackAt(ks[q])
      BY <2>2 DEF Theirs
    <2> QED BY <2>1, <2>2 DEF FramesOK
  <1> HIDE DEF X
  <1> QED BY <1>1, <1>2, <1>3, <1>4, <1>5 DEF Fits, X

\* What it has done with that leaves the others what they have.
LEMMA Lift ==
  ASSUME NEW fr, NEW rf, NEW ks, NEW s, FramesOK(fr, rf, ks, s), SpacesWell(s), NEW p \in Procs,
         NEW k, StackAt(k) \subseteq Frames, ks = [q \in Procs |-> ks[q]],
         \A f \in StackAt(k) : rf[f] = 0 /\ f \notin Theirs(p, ks, s),
         NEW n, Fits(n, Theirs(p, ks, s) \cup StackAt(k), rf)
  PROVE  FramesOK(n.free, n.ref, [ks EXCEPT ![p] = k], [s EXCEPT ![p] = n.mm])
  <1> DEFINE X  == Theirs(p, ks, s) \cup StackAt(k)
             k2 == [ks EXCEPT ![p] = k]
             s2 == [s EXCEPT ![p] = n.mm]
  <1>1. k2[p] = k /\ \A q \in Procs \ {p} : k2[q] = ks[q]
    OBVIOUS
  <1>2. s2[p] = n.mm /\ \A q \in Procs \ {p} : s2[q] = s[q]
    BY DEF SpacesWell
  <1>3. /\ Shaped(n) /\ Once(n.mm) /\ RefsOf(n.mm, n.ref) /\ X \subseteq Frames
        /\ \A f \in X : f \notin n.free /\ ~Holds(n.mm, f) /\ n.ref[f] = rf[f]
        /\ \A f \in n.free : f \in Frames /\ ~Holds(n.mm, f) /\ n.ref[f] = 0
        /\ \A f \in Frames : f \in X \/ f \in n.free \/ Holds(n.mm, f)
    BY DEF Fits, Shaped
  <1>4. \A q \in Procs \ {p} : /\ \A f \in Frames : Holds(s[q], f) => f \in X
                               /\ \A f \in StackAt(ks[q]) : f \in X /\ f \notin StackAt(k)
    BY DEF Theirs, FramesOK
  <1>5. \A f \in StackAt(k) : f \in X
    OBVIOUS
  <1>6. \A f \in X : f \in StackAt(k) \/ \E q \in Procs \ {p} : Holds(s[q], f) \/ f \in StackAt(ks[q])
    BY DEF Theirs
  <1>7. \A f \in StackAt(k), q \in Procs \ {p} : ~Holds(s[q], f)
    BY DEF Theirs
  <1> HIDE DEF X, k2, s2
  <1>8. n.free \subseteq Frames /\ n.ref \in [Frames -> Int]
    BY <1>3 DEF Shaped
  <1>9. ASSUME NEW q \in Procs
        PROVE  StackAt(k2[q]) \subseteq Frames /\ Once(s2[q]) /\ RefsOf(s2[q], n.ref)
    <2>1. CASE q = p
      BY <1>1, <1>2, <1>3, <2>1
    <2>2. CASE q # p
      <3>1. StackAt(ks[q]) \subseteq Frames /\ Once(s[q]) /\ RefsOf(s[q], rf)
        BY DEF FramesOK
      <3>2. \A f \in Frames : Holds(s[q], f) => n.ref[f] = rf[f]
        BY <1>3, <1>4, <2>2
      <3>3. RefsOf(s[q], n.ref)
        BY <3>1, <3>2 DEF RefsOf, Once, Holds
      <3> QED BY <1>1, <1>2, <2>2, <3>1, <3>3
    <2> QED BY <2>1, <2>2
  <1>10. ASSUME NEW q \in Procs, NEW w \in Procs, q # w
         PROVE  /\ \A f \in Frames : ~(Holds(s2[q], f) /\ Holds(s2[w], f))
                /\ StackAt(k2[q]) \cap StackAt(k2[w]) = {}
    <2>1. CASE q # p /\ w # p
      BY <1>1, <1>2, <1>10, <2>1 DEF FramesOK
    <2>2. CASE q = p
      BY <1>1, <1>2, <1>3, <1>4, <1>10, <2>2
    <2>3. CASE w = p
      BY <1>1, <1>2, <1>3, <1>4, <1>10, <2>3
    <2> QED BY <2>1, <2>2, <2>3
  <1>11. ASSUME NEW q \in Procs, NEW w \in Procs, NEW f \in StackAt(k2[q])
         PROVE  ~Holds(s2[w], f)
    <2>1. CASE q # p /\ w # p
      BY <1>1, <1>2, <2>1 DEF FramesOK
    <2>2. CASE q = p /\ w # p
      BY <1>1, <1>2, <1>7, <2>2
    <2>3. CASE w = p
      <3>1. f \in X
        BY <1>1, <1>4, <1>5
      <3> QED BY <1>2, <1>3, <2>3, <3>1
    <2> QED BY <2>1, <2>2, <2>3
  <1>12. ASSUME NEW q \in Procs, NEW f \in StackAt(k2[q])
         PROVE  f \notin n.free /\ n.ref[f] = 0
    <2>1. f \in X
      BY <1>1, <1>4, <1>5
    <2>2. rf[f] = 0
      BY <1>1 DEF FramesOK
    <2> QED BY <1>3, <2>1, <2>2
  <1>13. ASSUME NEW f \in n.free
         PROVE  n.ref[f] = 0 /\ \A q \in Procs : ~Holds(s2[q], f)
    BY <1>2, <1>3, <1>4
  <1>14. ASSUME NEW f \in Frames
         PROVE  f \in n.free \/ \E q \in Procs : Holds(s2[q], f) \/ f \in StackAt(k2[q])
    BY <1>1, <1>2, <1>3, <1>6
  <1> QED BY <1>8, <1>9, <1>10, <1>11, <1>12, <1>13, <1>14 DEF FramesOK, k2, s2

\* The memory that a process finds, and what becomes of the system when it is done.
LEMMA MemoryOf ==
  ASSUME MemInv, NEW p \in Procs
  PROVE  /\ Fits(Memory(p), Theirs(p, kstack, mm) \cup StackAt(kstack[p]), ref)
         /\ Memory(p).mm = mm[p] /\ Memory(p).err = "no" /\ Memory(p).free = free /\ Memory(p).ref = ref
         /\ SpaceOK(mm[p]) /\ (mm[p] = NoMm \/ mm[p].pgdir \in Frames)
         /\ ref \in [Frames -> Int]
  <1>1. Memory(p) = [free |-> free, ref |-> ref, mm |-> mm[p], err |-> "no"]
    BY DEF Memory
  <1>2. Fits(Memory(p), Theirs(p, kstack, mm) \cup StackAt(kstack[p]), ref)
    BY <1>1, Lower DEF MemInv
  <1> QED BY <1>1, <1>2 DEF MemInv, SpacesWell, FramesOK

\* Process p, with its stack at k, has ended an operation in n.
Done(n, p, k) ==
  /\ n.err \in Goes \cup Stops \cup {"fault"}
  /\ n.err \in Goes => /\ Fits(n, Theirs(p, kstack, mm) \cup StackAt(k), ref)
                       /\ SpaceOK(n.mm)
                       /\ n.mm = NoMm \/ n.mm.pgdir \in Frames

\* Work that is done right, or the kernel stopping, leaves the system as it should be.
LEMMA OutcomeOK ==
  ASSUME MemInv, stopped = "no", NEW p \in Procs, NEW k,
         StackAt(k) \subseteq Frames, \A f \in StackAt(k) : ref[f] = 0 /\ f \notin Theirs(p, kstack, mm),
         NEW n, Done(n, p, k), Outcome(n, p),
         kstack' = IF Panics(n) THEN kstack ELSE [kstack EXCEPT ![p] = k]
  PROVE  /\ FramesOK(free', ref', kstack', mm') /\ SpacesWell(mm') /\ NoKernelFault'
         /\ mm' = IF Panics(n) THEN mm ELSE [mm EXCEPT ![p] = n.mm]
  <1>1. CASE Panics(n)
    <2>1. n.err \in Stops \cup {"fault"} /\ stopped' = n.err
      BY <1>1 DEF Panics, Goes, Done, Outcome
    <2>2. NoKernelFault'
      BY <2>1 DEF NoKernelFault, Stops
    <2> QED BY <1>1, <2>2 DEF Outcome, MemInv
  <1>2. CASE ~Panics(n)
    <2>1. /\ mm' = [mm EXCEPT ![p] = n.mm] /\ free' = n.free /\ ref' = n.ref /\ stopped' = "no"
          /\ kstack' = [kstack EXCEPT ![p] = k] /\ n.err \in Goes
      BY <1>2 DEF Outcome, Panics, Goes
    <2>2. /\ Fits(n, Theirs(p, kstack, mm) \cup StackAt(k), ref) /\ SpaceOK(n.mm)
          /\ n.mm = NoMm \/ n.mm.pgdir \in Frames
      BY <2>1 DEF Done
    <2>3. FramesOK(free, ref, kstack, mm) /\ SpacesWell(mm) /\ kstack = [q \in Procs |-> kstack[q]]
      BY DEF MemInv, Lives
    <2>4. FramesOK(n.free, n.ref, [kstack EXCEPT ![p] = k], [mm EXCEPT ![p] = n.mm])
      BY <2>2, <2>3, Lift
    <2>5. SpacesWell(mm')
      <3>1. {"pgdir", "vmas", "pt", "pte"} \subseteq DOMAIN n.mm
        BY <2>2 DEF Fits, Shaped
      <3> QED BY <2>1, <2>2, <2>3, <3>1 DEF SpacesWell
    <2>6. NoKernelFault'
      BY <2>1 DEF NoKernelFault
    <2> QED BY <1>2, <2>1, <2>4, <2>5, <2>6
  <1> QED BY <1>1, <1>2

\* The kernel stack that p has will do.
LEMMA OwnStack ==
  ASSUME MemInv, NEW p \in Procs
  PROVE  /\ StackAt(kstack[p]) \subseteq Frames
         /\ \A f \in StackAt(kstack[p]) : ref[f] = 0 /\ f \notin Theirs(p, kstack, mm) /\ f \notin free
         /\ [kstack EXCEPT ![p] = kstack[p]] = kstack
  BY DEF MemInv, FramesOK, Theirs, Lives

\* do_fork: the two frames of the stack are taken first, then those that dup_mmap needs.
LEMMA ForkStep ==
  ASSUME MemInv, stopped = "no", NEW p \in Procs, NEW c \in Procs, Fork(p, c)
  PROVE  MemInv'
  <1> DEFINE base  == Min(Stacks)
             m     == [Memory(c) EXCEPT !.free = @ \ {base, base + 1}]
             new   == NewMm(m)
             child == DupMmap(new, mm[p])
             Th    == Theirs(c, kstack, mm)
             X     == Th \cup StackAt(base)
  <1>1. /\ state[p] = "live" /\ state[c] = "none" /\ Stacks # {} /\ Outcome(child, c)
        /\ IF Panics(child) THEN UNCHANGED <<state, kstack>>
           ELSE state' = [state EXCEPT ![c] = "live"] /\ kstack' = [kstack EXCEPT ![c] = base]
    BY DEF Fork
  <1>2. base \in 1..F-1 /\ base \in free /\ base + 1 \in free /\ F \in Nat
    <2>1. Stacks \subseteq Nat
      BY DEF Stacks
    <2>2. base \in Stacks
      BY <1>1, <2>1, MinIn
    <2> QED BY <2>2, MemoryAssumption DEF Stacks
  <1> HIDE DEF base
  <1>3. StackAt(base) = {base, base + 1}
    BY <1>2 DEF StackAt
  <1>4. kstack[c] = 0 /\ mm[c] = NoMm
    BY <1>1 DEF MemInv, Lives
  <1>5. /\ Fits(Memory(c), Th \cup StackAt(kstack[c]), ref) /\ Memory(c).mm = NoMm /\ Memory(c).err = "no"
        /\ Memory(c).free = free /\ Memory(c).ref = ref /\ ref \in [Frames -> Int]
    BY <1>4, MemoryOf
  <1>6. StackAt(kstack[c]) = {}
    BY <1>4 DEF StackAt
  <1>7. {base, base + 1} \subseteq Frames /\ \A f \in {base, base + 1} : ref[f] = 0 /\ f \notin Th /\ f \in free
    <2>1. \A f \in free : ref[f] = 0 /\ f \in Frames
      BY DEF MemInv, FramesOK
    <2>2. \A f \in free : f \notin Th
      BY DEF MemInv, FramesOK, Theirs
    <2> QED BY <1>2, <2>1, <2>2
  <1>8. Shaped(m) /\ m.mm = NoMm /\ m.err = "no" /\ m.free = free \ {base, base + 1} /\ m.ref = ref
    BY <1>5 DEF Fits, Shaped
  <1> HIDE DEF m, Th
  <1>9. Fits(m, X, ref)
    BY <1>3, <1>5, <1>6, <1>7, <1>8 DEF Fits
  <1>10. Good(new, X, ref)
    BY <1>5, <1>8, <1>9, NewMmGood
  <1>11. SpaceOK(mm[p])
    BY DEF MemInv, SpacesWell
  <1> HIDE DEF new
  <1>12. Good(child, X, ref)
    BY <1>5, <1>10, <1>11, DupMmapGood
  <1> HIDE DEF child
  <1>13. Done(child, c, base)
    BY <1>12 DEF Good, Done, Th, Goes, Stops
  <1>14. kstack' = IF Panics(child) THEN kstack ELSE [kstack EXCEPT ![c] = base]
    BY <1>1
  <1>15. /\ FramesOK(free', ref', kstack', mm') /\ SpacesWell(mm') /\ NoKernelFault'
         /\ mm' = IF Panics(child) THEN mm ELSE [mm EXCEPT ![c] = child.mm]
    BY <1>1, <1>3, <1>7, <1>13, <1>14, OutcomeOK DEF Th
  <1>16. Lives(state', kstack', mm')
    BY <1>1, <1>2, <1>15 DEF MemInv, Lives, SpacesWell
  <1> QED BY <1>15, <1>16 DEF MemInv

\* do_execve: the old mm_struct is dropped, the new one loaded.
LEMMA ExecStep ==
  ASSUME MemInv, stopped = "no", NEW p \in Procs, NEW prog \in Programs, NEW args \in 1..ArgPages,
         Exec(p, prog, args)
  PROVE  MemInv'
  <1> DEFINE d == DropMm(Memory(p))
             n == LoadIcode(d, prog, args)
             X == Theirs(p, kstack, mm) \cup StackAt(kstack[p])
  <1>1. /\ state[p] = "live" /\ Outcome(n, p) /\ kstack' = kstack
        /\ state' = [state EXCEPT ![p] = IF n.err = "invalid" THEN "zombie" ELSE @]
    BY DEF Exec
  <1>2. Fits(d, X, ref) /\ d.mm = NoMm /\ d.err = "no" /\ ref \in [Frames -> Int]
    BY MemoryOf, DropMmFits
  <1> HIDE DEF d, X
  <1>3. /\ n.err \in Goes \cup Stops
        /\ n.err = "no" => Good(n, X, ref)
        /\ n.err = "invalid" => Fits(n, X, ref) /\ n.mm = NoMm
    BY <1>2, LoadIcodeGood
  <1> HIDE DEF n
  <1>4. Done(n, p, kstack[p])
    BY <1>3, NoMmHolds DEF Done, Good, Goes, Stops, X
  <1>5. /\ FramesOK(free', ref', kstack', mm') /\ SpacesWell(mm') /\ NoKernelFault'
        /\ mm' = IF Panics(n) THEN mm ELSE [mm EXCEPT ![p] = n.mm]
    BY <1>1, <1>4, OwnStack, OutcomeOK
  <1>6. Lives(state', kstack', mm')
    BY <1>1, <1>3, <1>5 DEF MemInv, Lives, SpacesWell, Panics
  <1> QED BY <1>5, <1>6 DEF MemInv

\* A step that works on the mm_struct of a living process and goes on.
LEMMA WorkStep ==
  ASSUME MemInv, stopped = "no", NEW p \in Procs, state[p] = "live", UNCHANGED <<state, kstack>>,
         NEW n, Outcome(n, p), n.err = "fault" \/ Good(n, Theirs(p, kstack, mm) \cup StackAt(kstack[p]), ref)
  PROVE  MemInv'
  <1>1. Done(n, p, kstack[p])
    BY DEF Done, Good, Goes, Stops
  <1>2. /\ FramesOK(free', ref', kstack', mm') /\ SpacesWell(mm') /\ NoKernelFault'
        /\ mm' = IF Panics(n) THEN mm ELSE [mm EXCEPT ![p] = n.mm]
    BY <1>1, OwnStack, OutcomeOK
  <1>3. Lives(state', kstack', mm')
    BY <1>2 DEF MemInv, Lives, SpacesWell
  <1> QED BY <1>2, <1>3 DEF MemInv

\* An access of the process, with its page fault.
LEMMA UserAccessStep ==
  ASSUME MemInv, stopped = "no", NEW p \in Procs, NEW v, NEW write, UserAccess(p, v, write)
  PROVE  MemInv'
  <1> DEFINE m == Memory(p)
             n == Touch(m, v, write)
             X == Theirs(p, kstack, mm) \cup StackAt(kstack[p])
  <1>1. state[p] = "live" /\ mm[p] # NoMm /\ Outcome(n, p) /\ UNCHANGED <<state, kstack>>
    BY DEF UserAccess
  <1>2. Good(m, X, ref) /\ m.err = "no" /\ Shaped(m) /\ ref \in [Frames -> Int]
    BY <1>1, MemoryOf DEF Good, Goes, Fits
  <1> HIDE DEF m, X
  <1>3. n.err = "fault" \/ Good(n, X, ref)
    <2>1. CASE Allowed(m, v, write)
      BY <1>2, <2>1, TouchGood
    <2>2. CASE ~Allowed(m, v, write)
      <3>1. n = m \/ n = [m EXCEPT !.err = "fault"]
        BY <1>2, <2>2 DEF Touch, Strict
      <3> QED BY <1>2, <3>1 DEF Shaped
    <2> QED BY <2>1, <2>2
  <1> HIDE DEF n
  <1> QED BY <1>1, <1>3, WorkStep DEF X

\* An access of the kernel to a buffer: what user_mem_check has found cannot fault.
LEMMA CopyUserStep ==
  ASSUME MemInv, stopped = "no", NEW p \in Procs, NEW v, NEW w, NEW write, CopyUser(p, v, w, write)
  PROVE  MemInv'
  <1> DEFINE vs == v..w
             m  == Memory(p)
             n  == KernelTouch(m, vs, write)
             X  == Theirs(p, kstack, mm) \cup StackAt(kstack[p])
  <1>1. /\ state[p] = "live" /\ mm[p] # NoMm /\ UNCHANGED <<state, kstack>> /\ UserMemCheck(m, vs, write)
        /\ Outcome(n, p)
    BY DEF CopyUser
  <1>2. Good(m, X, ref) /\ m.err = "no" /\ ref \in [Frames -> Int]
    BY <1>1, MemoryOf DEF Good, Goes
  <1> HIDE DEF m, X, vs
  <1>3. \A x \in vs : Allowed(m, x, write)
    BY <1>1 DEF UserMemCheck
  <1>4. Good(n, X, ref)
    BY <1>2, <1>3, KernelTouchGood
  <1> HIDE DEF n
  <1> QED BY <1>1, <1>4, WorkStep DEF X

\* do_exit: the mm_struct is dropped, the stack stays.
LEMMA ExitStep ==
  ASSUME MemInv, stopped = "no", NEW p \in Procs, Exit(p)
  PROVE  MemInv'
  <1> DEFINE n == DropMm(Memory(p))
             X == Theirs(p, kstack, mm) \cup StackAt(kstack[p])
  <1>1. /\ state[p] = "live" /\ Outcome(n, p) /\ kstack' = kstack /\ state' = [state EXCEPT ![p] = "zombie"]
    BY DEF Exit
  <1>2. Fits(n, X, ref) /\ n.mm = NoMm /\ n.err = "no"
    BY MemoryOf, DropMmFits
  <1> HIDE DEF n
  <1>3. Done(n, p, kstack[p])
    BY <1>2, NoMmHolds DEF Done, Goes
  <1>4. /\ FramesOK(free', ref', kstack', mm') /\ SpacesWell(mm') /\ NoKernelFault'
        /\ mm' = IF Panics(n) THEN mm ELSE [mm EXCEPT ![p] = n.mm]
    BY <1>1, <1>3, OwnStack, OutcomeOK
  <1>5. Lives(state', kstack', mm')
    BY <1>1, <1>2, <1>4 DEF MemInv, Lives, SpacesWell, Panics
  <1> QED BY <1>4, <1>5 DEF MemInv

\* do_wait: the stack is freed.
LEMMA ReapStep ==
  ASSUME MemInv, stopped = "no", NEW p \in Procs, Reap(p)
  PROVE  MemInv'
  <1> DEFINE S == {kstack[p], kstack[p] + 1}
             m == Memory(p)
             n == FreeFrames(m, S)
             Th == Theirs(p, kstack, mm)
  <1>1. /\ state[p] = "zombie" /\ Outcome(n, p)
        /\ kstack' = [kstack EXCEPT ![p] = 0] /\ state' = [state EXCEPT ![p] = "none"]
    BY DEF Reap
  <1>2. S = StackAt(kstack[p]) /\ mm[p] = NoMm
    BY <1>1 DEF MemInv, Lives, StackAt
  <1>3. Fits(m, Th \cup S, ref) /\ m.mm = NoMm /\ m.err = "no"
    BY <1>2, MemoryOf
  <1>4. S \subseteq Frames /\ \A f \in S : ref[f] = 0 /\ f \notin Th
    BY <1>2, OwnStack
  <1> HIDE DEF S, m, Th
  <1>5. /\ Shaped(n) /\ n.free = m.free \cup S /\ n.mm = m.mm /\ n.err = "no"
        /\ \A f \in Frames : n.ref[f] = IF f \in S THEN 0 ELSE m.ref[f]
    BY <1>3, <1>4, FreeFramesIs DEF Fits
  <1> HIDE DEF n
  <1>6. Fits(n, Th, ref)
    <2>1. Once(n.mm) /\ RefsOf(n.mm, n.ref)
      BY <1>3, <1>5, NoMmHolds
    <2> QED BY <1>3, <1>4, <1>5, <2>1 DEF Fits
  <1>7. StackAt(0) = {}
    BY DEF StackAt
  <1>8. Done(n, p, 0)
    BY <1>3, <1>5, <1>6, <1>7, NoMmHolds DEF Done, Goes, Th
  <1>9. ~Panics(n)
    BY <1>5 DEF Panics
  <1>10. /\ FramesOK(free', ref', kstack', mm') /\ SpacesWell(mm') /\ NoKernelFault'
         /\ mm' = IF Panics(n) THEN mm ELSE [mm EXCEPT ![p] = n.mm]
    BY <1>1, <1>7, <1>8, <1>9, OutcomeOK
  <1>11. Lives(state', kstack', mm')
    <2>1. 0 \in 0..F-1
      BY MemoryAssumption
    <2> QED BY <1>1, <1>3, <1>5, <1>9, <1>10, <2>1 DEF MemInv, Lives, SpacesWell
  <1> QED BY <1>10, <1>11 DEF MemInv

\* user_main has a stack, and all else is free.
LEMMA InitMemory == Init => MemInv
  <1> SUFFICES ASSUME Init PROVE MemInv
    OBVIOUS
  <1>1. first \in Procs /\ F \in Nat /\ F > 1
    BY MemoryAssumption
  <1>2. /\ state = [p \in Procs |-> IF p = first THEN "live" ELSE "none"]
        /\ kstack = [p \in Procs |-> IF p = first THEN 1 ELSE 0]
        /\ mm = [p \in Procs |-> NoMm]
        /\ free = 3..F /\ ref = [f \in Frames |-> 0] /\ stopped = "no"
    BY DEF Init
  <1>3. \A p \in Procs : StackAt(kstack[p]) = IF p = first THEN {1, 2} ELSE {}
    <2>1. StackAt(0) = {} /\ StackAt(1) = {1, 2}
      BY DEF StackAt
    <2>2. \A p \in Procs : kstack[p] = IF p = first THEN 1 ELSE 0
      BY <1>2
    <2> QED BY <2>1, <2>2
  <1>4. \A p \in Procs : /\ Once(mm[p]) /\ SpaceOK(mm[p]) /\ RefsOf(mm[p], ref)
                         /\ {"pgdir", "vmas", "pt", "pte"} \subseteq DOMAIN mm[p]
                         /\ \A f \in Frames : ~Holds(mm[p], f)
    BY <1>2, NoMmHolds
  <1>5. {1, 2} \subseteq Frames /\ \A f \in Frames : f \in 3..F \/ f \in {1, 2}
    BY <1>1 DEF Frames
  <1>6. free \subseteq Frames /\ ref \in [Frames -> Int] /\ \A f \in Frames : ref[f] = 0
    BY <1>1, <1>2 DEF Frames
  <1>7. 1 \notin free /\ 2 \notin free
    BY <1>1, <1>2
  <1>8. FramesOK(free, ref, kstack, mm)
    <2>1. \A p \in Procs : StackAt(kstack[p]) \subseteq Frames /\ Once(mm[p]) /\ RefsOf(mm[p], ref)
      BY <1>3, <1>4, <1>5
    <2>2. \A p, q \in Procs : p # q => \A f \in Frames : ~(Holds(mm[p], f) /\ Holds(mm[q], f))
      BY <1>4
    <2>3. \A p, q \in Procs : p # q => StackAt(kstack[p]) \cap StackAt(kstack[q]) = {}
      BY <1>3
    <2>4. \A p, q \in Procs : \A f \in StackAt(kstack[p]) : ~Holds(mm[q], f)
      BY <1>4, <2>1
    <2>5. \A p \in Procs : \A f \in StackAt(kstack[p]) : f \notin free /\ ref[f] = 0
      BY <1>3, <1>5, <1>6, <1>7
    <2>6. \A f \in free : ref[f] = 0 /\ \A p \in Procs : ~Holds(mm[p], f)
      BY <1>4, <1>6
    <2>7. \A f \in Frames : f \in free \/ \E p \in Procs : Holds(mm[p], f) \/ f \in StackAt(kstack[p])
      BY <1>1, <1>2, <1>3, <1>5
    <2> QED BY <1>6, <2>1, <2>2, <2>3, <2>4, <2>5, <2>6, <2>7 DEF FramesOK
  <1>9. SpacesWell(mm)
    BY <1>2, <1>4 DEF SpacesWell
  <1>10. Lives(state, kstack, mm)
    BY <1>1, <1>2 DEF Lives
  <1>11. NoKernelFault
    BY <1>2 DEF NoKernelFault
  <1> QED BY <1>8, <1>9, <1>10, <1>11 DEF MemInv

\* No operation breaks the invariant.
LEMMA NextMemory == MemInv /\ [Next]_vars => MemInv'
  <1> SUFFICES ASSUME MemInv, [Next]_vars PROVE MemInv'
    OBVIOUS
  <1>1. CASE UNCHANGED vars
    BY <1>1 DEF vars, MemInv, NoKernelFault
  <1>2. CASE Next
    <2>1. PICK p \in Procs : \/ \E c \in Procs : Fork(p, c)
                             \/ \E prog \in Programs, args \in 1..ArgPages : Exec(p, prog, args)
                             \/ \E v \in Space, write \in BOOLEAN : UserAccess(p, v, write)
                             \/ \E v, w \in Space, write \in BOOLEAN : CopyUser(p, v, w, write)
                             \/ Exit(p) \/ Reap(p)
      BY <1>2 DEF Next
    <2>2. stopped = "no"
      BY <1>2 DEF Next
    <2>3. CASE \E c \in Procs : Fork(p, c)
      BY <2>2, <2>3, ForkStep
    <2>4. CASE \E prog \in Programs, args \in 1..ArgPages : Exec(p, prog, args)
      BY <2>2, <2>4, ExecStep
    <2>5. CASE \E v \in Space, write \in BOOLEAN : UserAccess(p, v, write)
      BY <2>2, <2>5, UserAccessStep
    <2>6. CASE \E v, w \in Space, write \in BOOLEAN : CopyUser(p, v, w, write)
      BY <2>2, <2>6, CopyUserStep
    <2>7. CASE Exit(p)
      BY <2>2, <2>7, ExitStep
    <2>8. CASE Reap(p)
      BY <2>2, <2>8, ReapStep
    <2> QED BY <2>1, <2>3, <2>4, <2>5, <2>6, <2>7, <2>8
  <1> QED BY <1>1, <1>2

\* The invariant holds at all times.
LEMMA SpecMemory == Spec => []MemInv
  <1> QED BY InitMemory, NextMemory, PTL DEF Spec

-----------------------------------------------------------------------------
(* The theorems. *)

\* The entries of the page directory, and of the page tables, of one process that map f.
TabUses(p, f) == {<<p, "table", t>> : t \in {u \in DOMAIN mm[p].pt : mm[p].pt[u] = f}}
PagUses(p, f) == {<<p, "page", v>> : v \in {w \in DOMAIN mm[p].pte : mm[p].pte[w].frame = f}}

\* The entries that map a frame, process by process.
LEMMA MapsAre ==
  \A f, x : x \in Maps(f) <=> \E p \in Procs : x \in TabUses(p, f) \/ x \in PagUses(p, f)
  BY DEF Maps, TabUses, PagUses

\* pmm.c, vmm.c: with any memory, programs and processes, every frame is free or used for
\* one thing by one process, and counted so.
THEOREM FramesStayExact == Spec => []FramesExact
  <1>1. MemInv => FramesExact
    <2> SUFFICES ASSUME MemInv, NEW f \in Frames
                 PROVE  /\ Cardinality(Uses(f)) + Cardinality(Maps(f)) = IF f \in free THEN 0 ELSE 1
                        /\ ref[f] = Cardinality(Maps(f))
      BY DEF FramesExact
    <2> DEFINE Held(p) == f \in StackAt(kstack[p])
               Dir(p)  == f = mm[p].pgdir
               Tab(p)  == \E t \in DOMAIN mm[p].pt : mm[p].pt[t] = f
               Pag(p)  == \E v \in DOMAIN mm[p].pte : mm[p].pte[v].frame = f
    <2>0. Cardinality({}) = 0 /\ \A x : Cardinality({x}) = 1
      BY FS_EmptySet, FS_Singleton
    <2>1. Uses(f) = {<<p, "kstack">> : p \in {q \in Procs : Held(q)}} \cup {<<p, "pgdir">> : p \in {q \in Procs : Dir(q)}}
      BY DEF Uses, StackAt
    <2>2. \A x : x \in Maps(f) <=> \E p \in Procs : x \in TabUses(p, f) \/ x \in PagUses(p, f)
      BY MapsAre
    <2>3. \A p \in Procs : Holds(mm[p], f) <=> Dir(p) \/ Tab(p) \/ Pag(p)
      BY DEF Holds
    <2>4. \A p \in Procs : Once(mm[p]) /\ RefsOf(mm[p], ref)
      BY DEF MemInv, FramesOK
    <2>5. \A p, q \in Procs : p # q => ~(Holds(mm[p], f) /\ Holds(mm[q], f)) /\ ~(Held(p) /\ Held(q))
      BY DEF MemInv, FramesOK
    <2>6. \A p, q \in Procs : Held(p) => ~Holds(mm[q], f) /\ f \notin free /\ ref[f] = 0
      BY DEF MemInv, FramesOK
    <2>7. f \in free => ref[f] = 0 /\ \A p \in Procs : ~Holds(mm[p], f) /\ ~Held(p)
      BY <2>6 DEF MemInv, FramesOK
    <2>8. f \in free \/ \E p \in Procs : Holds(mm[p], f) \/ Held(p)
      BY DEF MemInv, FramesOK
    <2>9. (\A p \in Procs : ~Held(p) /\ ~Dir(p)) => Uses(f) = {}
      BY <2>1
    <2>10. (\A p \in Procs : ~Tab(p) /\ ~Pag(p)) => Maps(f) = {}
      BY <2>2 DEF TabUses, PagUses
    <2>11. CASE f \in free
      <3>1. Uses(f) = {} /\ Maps(f) = {} /\ ref[f] = 0
        BY <2>3, <2>7, <2>9, <2>10, <2>11
      <3> QED BY <2>0, <2>11, <3>1
    <2>12. ASSUME NEW p \in Procs, Held(p)
           PROVE  Uses(f) = {<<p, "kstack">>} /\ Maps(f) = {} /\ ref[f] = 0 /\ f \notin free
      <3>1. \A q \in Procs : (Held(q) <=> q = p) /\ ~Dir(q) /\ ~Tab(q) /\ ~Pag(q)
        BY <2>3, <2>5, <2>6, <2>12
      <3> HIDE DEF Held, Dir
      <3>2. Uses(f) = {<<p, "kstack">>}
        BY <2>1, <3>1
      <3> QED BY <2>6, <2>10, <2>12, <3>1, <3>2
    <2>13. ASSUME NEW p \in Procs, Holds(mm[p], f)
           PROVE  \A q \in Procs : ~Held(q) /\ (q # p => ~Dir(q) /\ ~Tab(q) /\ ~Pag(q))
      BY <2>3, <2>5, <2>6, <2>13
    <2>14. ASSUME NEW p \in Procs, Dir(p)
           PROVE  Uses(f) = {<<p, "pgdir">>} /\ Maps(f) = {} /\ ref[f] = 0 /\ f \notin free
      <3>1. Holds(mm[p], f) /\ f \notin free
        BY <2>3, <2>7, <2>14
      <3>2. ~Tab(p) /\ ~Pag(p) /\ ref[f] = 0
        BY <2>4, <2>14 DEF Once, RefsOf
      <3>3. \A q \in Procs : ~Held(q) /\ (Dir(q) <=> q = p) /\ ~Tab(q) /\ ~Pag(q)
        BY <2>13, <2>14, <3>1, <3>2
      <3>4. Maps(f) = {}
        BY <2>10, <3>3
      <3> HIDE DEF Held, Dir
      <3>5. Uses(f) = {<<p, "pgdir">>}
        BY <2>1, <3>3
      <3> QED BY <3>1, <3>2, <3>4, <3>5
    <2>15. ASSUME NEW p \in Procs, NEW t \in DOMAIN mm[p].pt, mm[p].pt[t] = f
           PROVE  Uses(f) = {} /\ Maps(f) = {<<p, "table", t>>} /\ ref[f] = 1 /\ f \notin free
      <3>1. Holds(mm[p], f) /\ f \notin free
        BY <2>3, <2>7, <2>15
      <3>2. ~Dir(p) /\ ~Pag(p) /\ ref[f] = 1 /\ \A u \in DOMAIN mm[p].pt : mm[p].pt[u] = f => u = t
        BY <2>4, <2>15 DEF Once, RefsOf
      <3>3. \A q \in Procs : ~Held(q) /\ ~Dir(q) /\ ~Pag(q) /\ (q # p => ~Tab(q))
        BY <2>13, <3>1, <3>2
      <3>4. Uses(f) = {}
        BY <2>9, <3>3
      <3>5. \A q \in Procs : {u \in DOMAIN mm[q].pt : mm[q].pt[u] = f} = IF q = p THEN {t} ELSE {}
        BY <2>15, <3>2, <3>3
      <3>6. \A q \in Procs : {w \in DOMAIN mm[q].pte : mm[q].pte[w].frame = f} = {}
        BY <3>3
      <3>7. Maps(f) = {<<p, "table", t>>}
        <4>1. \A q \in Procs : TabUses(q, f) = IF q = p THEN {<<p, "table", t>>} ELSE {}
          BY <3>5 DEF TabUses
        <4>2. \A q \in Procs : PagUses(q, f) = {}
          BY <3>6 DEF PagUses
        <4> QED BY <2>2, <4>1, <4>2
      <3> QED BY <3>1, <3>2, <3>4, <3>7
    <2>16. ASSUME NEW p \in Procs, NEW v \in DOMAIN mm[p].pte, mm[p].pte[v].frame = f
           PROVE  Uses(f) = {} /\ Maps(f) = {<<p, "page", v>>} /\ ref[f] = 1 /\ f \notin free
      <3>1. Holds(mm[p], f) /\ f \notin free
        BY <2>3, <2>7, <2>16
      <3>2. ~Dir(p) /\ ~Tab(p) /\ ref[f] = 1 /\ \A w \in DOMAIN mm[p].pte : mm[p].pte[w].frame = f => w = v
        BY <2>4, <2>16 DEF Once, RefsOf
      <3>3. \A q \in Procs : ~Held(q) /\ ~Dir(q) /\ ~Tab(q) /\ (q # p => ~Pag(q))
        BY <2>13, <3>1, <3>2
      <3>4. Uses(f) = {}
        BY <2>9, <3>3
      <3>5. \A q \in Procs : {w \in DOMAIN mm[q].pte : mm[q].pte[w].frame = f} = IF q = p THEN {v} ELSE {}
        BY <2>16, <3>2, <3>3
      <3>6. \A q \in Procs : {u \in DOMAIN mm[q].pt : mm[q].pt[u] = f} = {}
        BY <3>3
      <3>7. Maps(f) = {<<p, "page", v>>}
        <4>1. \A q \in Procs : PagUses(q, f) = IF q = p THEN {<<p, "page", v>>} ELSE {}
          BY <3>5 DEF PagUses
        <4>2. \A q \in Procs : TabUses(q, f) = {}
          BY <3>6 DEF TabUses
        <4> QED BY <2>2, <4>1, <4>2
      <3> QED BY <3>1, <3>2, <3>4, <3>7
    <2>17. CASE \E p \in Procs : Held(p)
      <3>1. PICK p \in Procs : Held(p)
        BY <2>17
      <3>2. Uses(f) = {<<p, "kstack">>} /\ Maps(f) = {} /\ ref[f] = 0 /\ f \notin free
        BY <2>12, <3>1
      <3>3. Cardinality(Uses(f)) = 1 /\ Cardinality(Maps(f)) = 0
        BY <2>0, <3>2, Zenon
      <3> QED BY ONLY <3>2, <3>3
    <2>18. CASE \E p \in Procs : Holds(mm[p], f)
      <3>1. PICK p \in Procs : Dir(p) \/ Tab(p) \/ Pag(p)
        BY <2>3, <2>18
      <3>2. CASE Dir(p)
        <4>1. Uses(f) = {<<p, "pgdir">>} /\ Maps(f) = {} /\ ref[f] = 0 /\ f \notin free
          BY <2>14, <3>2
        <4>2. Cardinality(Uses(f)) = 1 /\ Cardinality(Maps(f)) = 0
          BY <2>0, <4>1, Zenon
        <4> QED BY ONLY <4>1, <4>2
      <3>3. CASE Tab(p)
        <4>1. PICK t \in DOMAIN mm[p].pt : mm[p].pt[t] = f
          BY <3>3
        <4>2. Uses(f) = {} /\ Maps(f) = {<<p, "table", t>>} /\ ref[f] = 1 /\ f \notin free
          BY <2>15, <4>1
        <4>3. Cardinality(Uses(f)) = 0 /\ Cardinality(Maps(f)) = 1
          BY <2>0, <4>2, Zenon
        <4> QED BY ONLY <4>2, <4>3
      <3>4. CASE Pag(p)
        <4>1. PICK v \in DOMAIN mm[p].pte : mm[p].pte[v].frame = f
          BY <3>4
        <4>2. Uses(f) = {} /\ Maps(f) = {<<p, "page", v>>} /\ ref[f] = 1 /\ f \notin free
          BY <2>16, <4>1
        <4>3. Cardinality(Uses(f)) = 0 /\ Cardinality(Maps(f)) = 1
          BY <2>0, <4>2, Zenon
        <4> QED BY ONLY <4>2, <4>3
      <3> QED BY <3>1, <3>2, <3>3, <3>4
    <2> QED BY <2>8, <2>11, <2>17, <2>18
  <1> QED BY <1>1, SpecMemory, PTL

\* vmm.c: for all programs, areas never overlap and pages have the rights of their area.
THEOREM SpacesStayRight == Spec => []SpacesOK
  <1>1. MemInv => SpacesOK
    BY DEF MemInv, SpacesWell, SpaceOK, SpacesOK
  <1> QED BY <1>1, SpecMemory, PTL

\* user_mem_check, do_pgfault: the kernel never faults on a buffer that it has checked.
THEOREM CheckedIsAccessible == Spec => []NoKernelFault
  <1>1. MemInv => NoKernelFault
    BY DEF MemInv
  <1> QED BY <1>1, SpecMemory, PTL
=============================================================================
