------------------------- MODULE HostLaunch_proofs -------------------------
(***************************************************************************)
(* A launch, for every shim, executable and signature file and for every   *)
(* page size, and the certificate cache, for any number of readers,        *)
(* writers and tries.                                                      *)
(*                                                                         *)
(* None of the properties is inductive.  A keep that runs is complete      *)
(* because every segment's pages are added when the segment is mapped, and *)
(* an enclave that misses some has a shorter log than the builder's hash   *)
(* and yet the first page of the executable, so EINIT takes neither the    *)
(* builder's own signature nor one of this or of another executable        *)
(* (LaunchInv, in KeepLaunch).  That no page is added twice needs that the *)
(* check of neighbours in the sorted list of segments is enough for every  *)
(* pair (NeighboursSuffice), and that the measurements agree needs what a  *)
(* concatenation of sequences is; both are inductions over the naturals,   *)
(* which are made from a least element (LeastNumber).                      *)
(*                                                                         *)
(* VcekWhole needs to know what a reader between its two system calls has  *)
(* in its hands: a file that is whole, or one whose writer still holds the *)
(* lock, or gave up, or was killed with the lock in place.  That in turn   *)
(* needs mutual exclusion of the writers, and that a lock nobody holds any *)
(* more (Stuck), because its writer was killed or could not remove it, is  *)
(* never taken or released.                                                *)
(***************************************************************************)
EXTENDS HostLaunch, SequenceTheorems, FiniteSetTheorems, TLAPS

-----------------------------------------------------------------------------
(* Induction over the naturals and over sequences.                         *)

\* A non-empty set of naturals has a least element.
LEMMA LeastNumber ==
    ASSUME NEW S, S \subseteq Nat, S # {}
    PROVE  \E n \in S : \A m \in S : n <= m
<1> DEFINE T == {0 .. n - 1 : n \in S}
<1>1. T \subseteq FiniteSubsetsOf(Nat) /\ T # {}
  <2>1. \A n \in S : IsFiniteSet(0 .. n - 1) /\ 0 .. n - 1 \subseteq Nat
    BY FS_Interval
  <2> QED
    BY <2>1 DEF FiniteSubsetsOf
<1>2. PICK x \in T : \A y \in T : ~(<<y, x>> \in StrictSubsetOrdering(Nat))
  BY <1>1, FS_StrictSubsetOrderingWellFounded, WFMin
<1>3. PICK n \in S : x = 0 .. n - 1
  BY <1>2
<1>4. ASSUME NEW m \in S, m < n PROVE FALSE
  <2>1. 0 .. m - 1 \in T
    OBVIOUS
  <2>2. 0 .. m - 1 \subseteq 0 .. n - 1 /\ m \in 0 .. n - 1 /\ m \notin 0 .. m - 1
    BY <1>4
  <2>3. <<0 .. m - 1, 0 .. n - 1>> \in StrictSubsetOrdering(Nat)
    BY <2>2 DEF StrictSubsetOrdering
  <2> QED
    BY <1>2, <1>3, <2>1, <2>3
<1> QED
  BY <1>4

\* Induction over the naturals, for a set rather than for a predicate.
LEMMA InductiveSet ==
    ASSUME NEW T, 0 \in T, \A n \in Nat : n \in T => n + 1 \in T
    PROVE  Nat \subseteq T
<1> SUFFICES ASSUME Nat \ T # {} PROVE FALSE
  OBVIOUS
<1>1. PICK n \in Nat \ T : \A m \in Nat \ T : n <= m
  BY LeastNumber
<1>2. n - 1 \in Nat /\ n - 1 \notin Nat \ T
  BY <1>1
<1>3. (n - 1) + 1 \in T
  BY <1>2
<1> QED
  BY <1>1, <1>3

\* A function defined by its first value and a step from each to the next.
Iterations(S, F, s0, a, n) ==
    {g \in [a .. a + n -> S] : g[a] = s0 /\ \A i \in a + 1 .. a + n : g[i] = F[i][g[i - 1]]}

LEMMA Iteration ==
    ASSUME NEW S, NEW F \in [Nat -> [S -> S]], NEW s0 \in S, NEW a \in Nat
    PROVE  \A n \in Nat : Iterations(S, F, s0, a, n) # {}
<1> DEFINE Upto(n, g) == g[a] = s0 /\ \A i \in a + 1 .. a + n : g[i] = F[i][g[i - 1]]
           T == {n \in Nat : \E g \in [a .. a + n -> S] : Upto(n, g)}
<1>1. 0 \in T
  <2> DEFINE g == [i \in a .. a + 0 |-> s0]
  <2>1. g \in [a .. a + 0 -> S] /\ g[a] = s0
    OBVIOUS
  <2>2. a + 1 .. a + 0 = {}
    OBVIOUS
  <2>3. Upto(0, g)
    BY <2>1, <2>2
  <2> QED
    BY <2>1, <2>3
<1>2. ASSUME NEW n \in Nat, n \in T PROVE n + 1 \in T
  <2>1. PICK g \in [a .. a + n -> S] : Upto(n, g)
    BY <1>2
  <2> DEFINE next == F[a + n + 1][g[a + n]]
             h == [i \in a .. a + (n + 1) |-> IF i = a + n + 1 THEN next ELSE g[i]]
  <2>2. next \in S
    <3>1. g[a + n] \in S /\ a + n + 1 \in Nat
      OBVIOUS
    <3>2. F[a + n + 1] \in [S -> S]
      BY <3>1
    <3> QED
      BY <3>1, <3>2
  <2> HIDE DEF next
  <2>3. h \in [a .. a + (n + 1) -> S]
    <3>1. ASSUME NEW i \in a .. a + (n + 1), i # a + n + 1 PROVE g[i] \in S
      <4>1. i \in a .. a + n
        BY <3>1
      <4> QED BY <4>1
    <3> QED
      BY <2>2, <3>1
  <2>4. h[a] = s0
    BY <2>1
  <2>5. ASSUME NEW i \in a + 1 .. a + (n + 1) PROVE h[i] = F[i][h[i - 1]]
    <3>1. CASE i = a + n + 1
      <4>1. h[i] = next /\ h[i - 1] = g[a + n]
        BY <3>1
      <4> QED
        BY <3>1, <4>1 DEF next
    <3>2. CASE i # a + n + 1
      <4>1. i \in a + 1 .. a + n /\ i - 1 \in a .. a + n /\ i \in a .. a + (n + 1) /\ i - 1 \in a .. a + (n + 1)
        BY <3>2
      <4>2. h[i] = g[i] /\ h[i - 1] = g[i - 1]
        BY <3>2, <4>1
      <4> QED
        BY <2>1, <4>1, <4>2
    <3> QED
      BY <3>1, <3>2
  <2> HIDE DEF h
  <2>6. Upto(n + 1, h)
    BY <2>4, <2>5
  <2> QED
    BY <2>3, <2>6
<1>3. Nat \subseteq T
  <2> HIDE DEF T
  <2> QED BY <1>1, <1>2, InductiveSet
<1> QED
  BY <1>3 DEF Iterations

\* Such a function stays where its steps stay.
LEMMA IterationStays ==
    ASSUME NEW S, NEW a \in Nat, NEW n \in Nat, NEW f, f[a] \in S,
           \A i \in a + 1 .. a + n : f[i - 1] \in S => f[i] \in S
    PROVE  \A i \in a .. a + n : f[i] \in S
<1> DEFINE T == {m \in Nat : m <= n => f[a + m] \in S}
<1>1. 0 \in T
  OBVIOUS
<1>2. ASSUME NEW m \in Nat, m \in T PROVE m + 1 \in T
  <2>1. CASE m + 1 <= n
    <3>1. a + m + 1 \in a + 1 .. a + n /\ (a + m + 1) - 1 = a + m /\ m <= n
      BY <2>1
    <3>2. f[a + m] \in S
      BY <1>2, <3>1
    <3>3. f[a + m + 1] \in S
      BY <3>1, <3>2
    <3>4. a + (m + 1) = a + m + 1
      OBVIOUS
    <3> QED BY <3>3, <3>4
  <2> QED BY <2>1
<1>3. Nat \subseteq T
  <2> HIDE DEF T
  <2> QED BY <1>1, <1>2, InductiveSet
<1> QED
  <2> SUFFICES ASSUME NEW i \in a .. a + n PROVE f[i] \in S
    OBVIOUS
  <2>1. i - a \in Nat /\ i - a <= n /\ a + (i - a) = i
    OBVIOUS
  <2> QED
    BY <1>3, <2>1

\* A sequence is one over any set that holds its elements.
LEMMA SeqOfElements ==
    ASSUME NEW S, NEW C, NEW s \in Seq(S), \A i \in 1..Len(s) : s[i] \in C
    PROVE  s \in Seq(C)
<1>1. Len(s) \in Nat /\ s \in [1..Len(s) -> S]
  BY LenProperties
<1>2. s \in [1..Len(s) -> C]
  BY <1>1
<1> QED
  BY <1>1, <1>2, SeqDef

-----------------------------------------------------------------------------
(* Sequences of sequences, one behind the other.                           *)

Flattens(f, q) == f[1] = q[1] /\ \A i \in 2..Len(q) : f[i] = f[i - 1] \o q[i]

LEMMA FlattenUnfold ==
    ASSUME NEW R, NEW q \in Seq(Seq(R)), q # <<>>
    PROVE  \E f : Flattens(f, q) /\ FlattenSeq(q) = f[Len(q)] /\ \A i \in 1..Len(q) : f[i] \in Seq(R)
<1> DEFINE n == Len(q)
           Def(f) == [i \in 1..n |-> IF i = 1 THEN q[i] ELSE f[i - 1] \o q[i]]
           flat == CHOOSE f : f = Def(f)
<1>1. n \in Nat /\ n >= 1
  BY LenProperties, EmptySeq
<1>2. \A i \in 1..n : q[i] \in Seq(R)
  BY ElementOfSeq
<1>3. FlattenSeq(q) = flat[n]
  BY <1>1 DEF FlattenSeq
<1>4. \A i \in 1..n : \A u \in Seq(R) : u \o q[i] \in Seq(R)
  BY <1>2, ConcatProperties
<1> HIDE DEF n
<1>5. \E f : f = Def(f)
  <2> DEFINE F == [i \in Nat |-> [u \in Seq(R) |-> IF i \in 1..n THEN u \o q[i] ELSE u]]
  <2>1. F \in [Nat -> [Seq(R) -> Seq(R)]]
    BY <1>4
  <2>2. PICK m \in Nat : m = n - 1 /\ n = 1 + m
    BY <1>1
  <2>3. PICK g \in [1..1 + m -> Seq(R)] :
            g[1] = q[1] /\ \A i \in 1 + 1..1 + m : g[i] = F[i][g[i - 1]]
    <3> HIDE DEF F
    <3>1. q[1] \in Seq(R) /\ 1 \in Nat
      BY <1>1, <1>2
    <3>2. Iterations(Seq(R), F, q[1], 1, m) # {}
      BY <2>1, <3>1, Iteration
    <3> QED
      BY <3>2 DEF Iterations
  <2>4. ASSUME NEW i \in 1..n PROVE g[i] = IF i = 1 THEN q[i] ELSE g[i - 1] \o q[i]
    <3>1. CASE i # 1
      <4>1. i \in Nat /\ i - 1 \in 1..1 + m /\ i \in 1 + 1..1 + m
        BY <2>2, <3>1
      <4>2. g[i - 1] \in Seq(R)
        BY <4>1
      <4>3. F[i][g[i - 1]] = g[i - 1] \o q[i]
        BY <4>1, <4>2
      <4> QED
        BY <2>3, <3>1, <4>1, <4>3
    <3> QED
      BY <2>3, <3>1
  <2>5. g = [i \in 1..n |-> g[i]]
    BY <2>2
  <2>6. g = Def(g)
    BY <2>4, <2>5
  <2> QED
    BY <2>6
<1>6. flat = Def(flat)
  <2> HIDE DEF Def
  <2>1. PICK f : f = Def(f)
    BY <1>5
  <2>2. (CHOOSE g : g = Def(g)) = Def(CHOOSE g : g = Def(g))
    BY <2>1
  <2> QED
    BY <2>2
<1> HIDE DEF flat
<1>7. flat[1] = q[1] /\ \A i \in 2..n : flat[i] = flat[i - 1] \o q[i]
  <2>1. 1 \in 1..n /\ \A i \in 2..n : i \in 1..n /\ i # 1
    BY <1>1
  <2> QED
    BY <1>6, <2>1
<1>8. \A i \in 1..n : flat[i] \in Seq(R)
  <2>1. PICK m \in Nat : m = n - 1 /\ n = 1 + m
    BY <1>1
  <2>2. ASSUME NEW i \in 1 + 1..1 + m, flat[i - 1] \in Seq(R) PROVE flat[i] \in Seq(R)
    <3>1. i \in 1..n /\ i \in 2..n
      BY <2>1
    <3> QED
      BY <1>4, <1>7, <2>2, <3>1
  <2>3. flat[1] \in Seq(R) /\ 1 \in Nat
    BY <1>1, <1>2, <1>7
  <2>4. \A i \in 1..1 + m : flat[i] \in Seq(R)
    BY <2>2, <2>3, IterationStays
  <2> QED
    BY <2>1, <2>4
<1> QED
  BY <1>3, <1>7, <1>8 DEF Flattens, n

LEMMA FlattenNothing == FlattenSeq(<<>>) = <<>>
BY DEF FlattenSeq

LEMMA FlattenTyped ==
    ASSUME NEW R, NEW q \in Seq(Seq(R))
    PROVE  FlattenSeq(q) \in Seq(R)
<1>1. CASE q = <<>>
  BY <1>1, FlattenNothing, EmptySeq
<1>2. CASE q # <<>>
  <2>1. Len(q) \in 1..Len(q)
    BY <1>2, LenProperties, EmptySeq
  <2> QED
    BY <1>2, <2>1, FlattenUnfold
<1> QED
  BY <1>1, <1>2

\* One more sequence comes behind the others.
LEMMA FlattenAppend ==
    ASSUME NEW R, NEW s \in Seq(Seq(R)), NEW e \in Seq(R)
    PROVE  FlattenSeq(Append(s, e)) = FlattenSeq(s) \o e
<1>1. PICK t \in Seq(Seq(R)) : t = Append(s, e)
  BY AppendProperties
<1>2. PICK n \in Nat : n = Len(s)
  BY LenProperties
<1>3. Len(t) = n + 1 /\ (\A i \in 1..n : t[i] = s[i]) /\ t[n + 1] = e /\ t # <<>>
  BY <1>1, <1>2, AppendProperties
<1>4. PICK g : Flattens(g, t) /\ FlattenSeq(t) = g[n + 1] /\ \A i \in 1..(n + 1) : g[i] \in Seq(R)
  BY <1>3, FlattenUnfold
<1>5. CASE s = <<>>
  <2>1. n = 0
    BY <1>2, <1>5
  <2>2. g[1] = e
    BY <1>3, <1>4, <2>1 DEF Flattens
  <2>3. <<>> \o e = e
    BY ConcatEmptySeq
  <2>4. n + 1 = 1
    BY <2>1
  <2>5. FlattenSeq(t) = e
    BY <1>4, <2>2, <2>4
  <2>6. FlattenSeq(s) = <<>>
    BY <1>5, FlattenNothing
  <2> QED
    BY <1>1, <2>3, <2>5, <2>6
<1>6. CASE s # <<>>
  <2>1. n >= 1
    BY <1>2, <1>6, EmptySeq
  <2>2. PICK f : Flattens(f, s) /\ FlattenSeq(s) = f[n]
    BY <1>2, <1>6, FlattenUnfold
  <2> DEFINE I == {i \in Nat : i + 1 <= n => g[i + 1] = f[i + 1]}
  <2>3. 0 \in I
    BY <1>3, <1>4, <2>1, <2>2 DEF Flattens
  <2>4. ASSUME NEW k \in Nat, k \in I PROVE k + 1 \in I
    <3> SUFFICES ASSUME (k + 1) + 1 <= n PROVE g[(k + 1) + 1] = f[(k + 1) + 1]
      BY DEF I
    <3>1. PICK i \in Nat : i = (k + 1) + 1
      OBVIOUS
    <3>2. i \in 2..n /\ i \in 2..(n + 1) /\ i \in 1..n /\ i - 1 = k + 1 /\ k + 1 <= n
      BY <3>1
    <3>3. g[i - 1] = f[i - 1]
      BY <2>4, <3>2
    <3>4. g[i] = g[i - 1] \o t[i] /\ f[i] = f[i - 1] \o s[i] /\ t[i] = s[i]
      BY <1>2, <1>3, <1>4, <2>2, <3>2 DEF Flattens
    <3> QED
      BY <3>1, <3>3, <3>4
  <2>5. Nat \subseteq I
    <3> HIDE DEF I
    <3> QED  BY <2>3, <2>4, InductiveSet
  <2>6. PICK m \in Nat : m + 1 = n
    <3>1. n - 1 \in Nat /\ (n - 1) + 1 = n
      BY <2>1
    <3> QED
      BY <3>1
  <2>7. g[n] = f[n]
    <3>1. m \in I /\ m + 1 <= n
      BY <2>5, <2>6
    <3>2. g[m + 1] = f[m + 1]
      BY <3>1
    <3> QED
      BY <2>6, <3>2
  <2>8. n + 1 \in 2..(n + 1) /\ (n + 1) - 1 = n
    BY <2>1
  <2>9. g[n + 1] = g[n] \o e
    BY <1>3, <1>4, <2>8 DEF Flattens
  <2> QED
    BY <1>1, <1>4, <2>2, <2>7, <2>9
<1> QED
  BY <1>5, <1>6

\* Every element is one of one of the sequences.
LEMMA FlattenParts ==
    ASSUME NEW R, NEW q \in Seq(Seq(R)), NEW C \in SUBSET R,
           \A i \in 1..Len(q) : \A k \in 1..Len(q[i]) : q[i][k] \in C
    PROVE  \A k \in 1..Len(FlattenSeq(q)) : FlattenSeq(q)[k] \in C
<1>1. q \in Seq(Seq(C))
  <2>1. ASSUME NEW i \in 1..Len(q) PROVE q[i] \in Seq(C)
    <3>1. q[i] \in Seq(R)
      BY ElementOfSeq
    <3>2. \A k \in 1..Len(q[i]) : q[i][k] \in C
      OBVIOUS
    <3> QED
      BY <3>1, <3>2, SeqOfElements
  <2> QED
    BY <2>1, SeqOfElements
<1>2. FlattenSeq(q) \in Seq(C)
  BY <1>1, FlattenTyped
<1> QED
  BY <1>2, ElementOfSeq
-----------------------------------------------------------------------------
(* Sorting                                                                 *)

\* The orders with one segment more than those in O.
Extended(s, O) == UNION {{Append(p, i) : i \in Firsts(s, DOMAIN s \ ToSet(p))} : p \in O}

LEMMA SortedUnfold ==
    ASSUME NEW s \in Seq(Segs)
    PROVE  \E f : f[0] = {<<>>} /\ (\A i \in 1..Len(s) : f[i] = Extended(s, f[i - 1])) /\ Sorted(s) = f[Len(s)]
<1> DEFINE n == Len(s)
           Def(f) == [i \in 0..n |-> IF i = 0 THEN {Empty}
                                     ELSE UNION {{Append(p, k) : k \in Firsts(s, DOMAIN s \ ToSet(p))} : p \in f[i - 1]}]
           orders == CHOOSE f : f = Def(f)
           Lists == SUBSET Seq(Nat)
<1>1. n \in Nat /\ DOMAIN s = 1..n
  BY LenProperties
<1>2. Sorted(s) = orders[n]
  BY DEF Sorted
<1>3. \A O \in Lists : Extended(s, O) \in Lists
  <2> SUFFICES ASSUME NEW O \in Lists, NEW x \in Extended(s, O) PROVE x \in Seq(Nat)
    OBVIOUS
  <2>1. PICK p \in O : \E i \in Firsts(s, DOMAIN s \ ToSet(p)) : x = Append(p, i)
    BY DEF Extended
  <2>2. PICK i \in Firsts(s, DOMAIN s \ ToSet(p)) : x = Append(p, i)
    BY <2>1
  <2>3. i \in Nat /\ p \in Seq(Nat)
    BY <1>1 DEF Firsts
  <2> QED
    BY <2>2, <2>3, AppendProperties
<1> HIDE DEF n
<1>4. \E f : f = Def(f)
  <2> DEFINE F == [i \in Nat |-> [O \in Lists |-> Extended(s, O)]]
  <2>1. F \in [Nat -> [Lists -> Lists]]
    <3> HIDE DEF Lists
    <3> QED  BY <1>3
  <2>2. PICK g \in [0..0 + n -> Lists] : g[0] = {<<>>} /\ \A i \in 0 + 1..0 + n : g[i] = F[i][g[i - 1]]
    <3>1. {<<>>} \in Lists
      BY EmptySeq
    <3> HIDE DEF F, Lists
    <3>2. Iterations(Lists, F, {<<>>}, 0, n) # {}
      BY <1>1, <2>1, <3>1, Iteration
    <3> QED
      BY <3>2 DEF Iterations
  <2>3. ASSUME NEW i \in 0..n PROVE g[i] = IF i = 0 THEN {Empty} ELSE Extended(s, g[i - 1])
    <3> HIDE DEF Lists
    <3>1. CASE i # 0
      <4>1. i \in Nat /\ i - 1 \in 0..0 + n /\ i \in 0 + 1..0 + n
        BY <1>1, <3>1
      <4>2. g[i - 1] \in Lists
        BY <4>1
      <4>3. F[i][g[i - 1]] = Extended(s, g[i - 1])
        BY <4>1, <4>2
      <4> QED
        BY <2>2, <3>1, <4>1, <4>3
    <3> QED
      BY <2>2, <3>1 DEF Empty
  <2>4. g = [i \in 0..n |-> g[i]]
    BY <1>1
  <2>5. g = Def(g)
    BY <2>3, <2>4 DEF Extended
  <2> QED
    BY <2>5
<1>5. orders = Def(orders)
  <2> HIDE DEF Def
  <2>1. PICK f : f = Def(f)
    BY <1>4
  <2>2. (CHOOSE g : g = Def(g)) = Def(CHOOSE g : g = Def(g))
    BY <2>1
  <2> QED
    BY <2>2
<1> HIDE DEF orders
<1>6. orders[0] = {<<>>} /\ \A i \in 1..n : orders[i] = Extended(s, orders[i - 1])
  <2>1. 0 \in 0..n /\ \A i \in 1..n : i \in 0..n /\ i # 0
    BY <1>1
  <2> QED
    BY <1>5, <2>1 DEF Extended, Empty
<1> QED
  BY <1>2, <1>6 DEF n

\* Segments in the order of their starts, no segment twice, and the others behind them.
InOrder(s, p) ==
    /\ p \in Seq(1..Len(s))
    /\ \A i, k \in 1..Len(p) : i < k => p[i] # p[k] /\ s[p[i]].start <= s[p[k]].start
    /\ \A i \in 1..Len(p) : \A h \in 1..Len(s) :
          (\A k \in 1..Len(p) : p[k] # h) => s[p[i]].start <= s[h].start

LEMMA ExtendedInOrder ==
    ASSUME NEW s \in Seq(Segs), NEW p, InOrder(s, p), NEW x \in Firsts(s, DOMAIN s \ ToSet(p))
    PROVE  InOrder(s, Append(p, x)) /\ Len(Append(p, x)) = Len(p) + 1
<1>1. PICK n \in Nat : n = Len(s) /\ DOMAIN s = 1..n
  BY LenProperties
<1>2. p \in Seq(1..n)
  BY <1>1 DEF InOrder
<1>3. PICK m \in Nat : m = Len(p) /\ DOMAIN p = 1..m
  BY <1>2, LenProperties
<1>4. /\ x \in 1..n /\ (\A k \in 1..m : p[k] # x)
      /\ \A h \in 1..n : (\A k \in 1..m : p[k] # h) => s[x].start <= s[h].start
  BY <1>1, <1>3 DEF Firsts, ToSet
<1>5. PICK q : q = Append(p, x)
  OBVIOUS
<1>6. q \in Seq(1..n) /\ Len(q) = m + 1 /\ (\A i \in 1..m : q[i] = p[i]) /\ q[m + 1] = x
  BY <1>2, <1>3, <1>4, <1>5, AppendProperties
<1>7. \A i \in 1..m : p[i] \in 1..n
  BY <1>2, <1>3, ElementOfSeq
<1>8. \A i \in 1..n : s[i].start \in Nat
  <2>1. \A i \in 1..n : s[i] \in Segs
    BY <1>1, ElementOfSeq
  <2> QED
    BY <2>1 DEF Segs
<1>9. \A i \in 1..(m + 1) : i \in 1..m \/ i = m + 1
  OBVIOUS
<1>10. \A i, k \in 1..m : i < k => p[i] # p[k] /\ s[p[i]].start <= s[p[k]].start
  BY <1>3 DEF InOrder
<1>11. \A i \in 1..m : \A h \in 1..n : (\A k \in 1..m : p[k] # h) => s[p[i]].start <= s[h].start
  BY <1>1, <1>3 DEF InOrder
<1>12. ASSUME NEW i \in 1..(m + 1), NEW k \in 1..(m + 1), i < k
       PROVE  q[i] # q[k] /\ s[q[i]].start <= s[q[k]].start
  <2>1. i \in 1..m
    BY <1>12
  <2>2. CASE k \in 1..m
    BY <1>6, <1>10, <1>12, <2>1, <2>2
  <2>3. CASE k = m + 1
    BY <1>4, <1>6, <1>11, <2>1, <2>3
  <2> QED
    BY <1>9, <2>2, <2>3
<1>13. ASSUME NEW i \in 1..(m + 1), NEW h \in 1..n, \A k \in 1..(m + 1) : q[k] # h
       PROVE  s[q[i]].start <= s[h].start
  <2>1. \A k \in 1..m : k \in 1..(m + 1) /\ p[k] # h
    BY <1>6, <1>13
  <2>2. CASE i \in 1..m
    BY <1>6, <1>11, <2>1, <2>2
  <2>3. CASE i = m + 1
    BY <1>4, <1>6, <2>1, <2>3
  <2> QED
    BY <1>9, <2>2, <2>3
<1>14. InOrder(s, q)
  BY <1>1, <1>6, <1>12, <1>13 DEF InOrder
<1> QED
  BY <1>3, <1>5, <1>6, <1>14

LEMMA SortedInOrder ==
    ASSUME NEW s \in Seq(Segs), NEW p \in Sorted(s)
    PROVE  InOrder(s, p) /\ Len(p) = Len(s) /\ \A h \in 1..Len(s) : \E i \in 1..Len(s) : p[i] = h
<1>1. PICK n \in Nat : n = Len(s)
  BY LenProperties
<1>2. PICK f : f[0] = {<<>>} /\ (\A i \in 1..n : f[i] = Extended(s, f[i - 1])) /\ Sorted(s) = f[n]
  BY <1>1, SortedUnfold
<1> DEFINE I == {i \in Nat : i <= n => \A q \in f[i] : InOrder(s, q) /\ Len(q) = i}
<1>3. 0 \in I
  <2>1. InOrder(s, <<>>) /\ Len(<<>>) = 0
    <3>1. <<>> \in Seq(1..Len(s)) /\ Len(<<>>) = 0
      BY EmptySeq
    <3> QED
      BY <3>1 DEF InOrder
  <2> QED
    BY <1>2, <2>1
<1>4. ASSUME NEW k \in Nat, k \in I PROVE k + 1 \in I
  <2> SUFFICES ASSUME k + 1 <= n, NEW q \in f[k + 1] PROVE InOrder(s, q) /\ Len(q) = k + 1
    OBVIOUS
  <2>1. k + 1 \in 1..n /\ (k + 1) - 1 = k /\ k <= n
    BY <1>1
  <2>2. f[k + 1] = Extended(s, f[k])
    BY <1>2, <2>1
  <2>3. PICK o \in f[k] : \E x \in Firsts(s, DOMAIN s \ ToSet(o)) : q = Append(o, x)
    BY <2>2 DEF Extended
  <2>4. PICK x \in Firsts(s, DOMAIN s \ ToSet(o)) : q = Append(o, x)
    BY <2>3
  <2>5. InOrder(s, o) /\ Len(o) = k
    BY <1>4, <2>1
  <2>6. InOrder(s, Append(o, x)) /\ Len(Append(o, x)) = Len(o) + 1
    BY <2>5, ExtendedInOrder
  <2> QED
    BY <2>4, <2>5, <2>6
<1>5. Nat \subseteq I
  <2> HIDE DEF I
  <2> QED  BY <1>3, <1>4, InductiveSet
<1>6. InOrder(s, p) /\ Len(p) = n
  BY <1>1, <1>2, <1>5
<1>7. ASSUME NEW h \in 1..n PROVE \E i \in 1..n : p[i] = h
  <2>1. p \in [1..n -> 1..n]
    <3>1. p \in Seq(1..n)
      BY <1>1, <1>6 DEF InOrder
    <3> QED
      BY <1>6, <3>1, LenProperties
  <2>2. \A i, k \in 1..n : p[i] = p[k] => i = k
    <3> SUFFICES ASSUME NEW i \in 1..n, NEW k \in 1..n, p[i] = p[k], i # k PROVE FALSE
      OBVIOUS
    <3>1. i < k \/ k < i
      OBVIOUS
    <3> QED
      BY <1>6, <3>1 DEF InOrder
  <2>3. p \in Injection(1..n, 1..n)
    BY <2>1, <2>2 DEF Injection, IsInjective
  <2>4. IsFiniteSet(1..n)
    BY FS_Interval
  <2>5. p \in Surjection(1..n, 1..n)
    BY <2>3, <2>4, FS_Injection
  <2> QED
    BY <2>5 DEF Surjection
<1> QED
  BY <1>1, <1>6, <1>7

\* The check of neighbours: with the segments in order, no two of them meet.
LEMMA NeighboursSuffice ==
    ASSUME NEW s \in Seq(Segs), NEW p \in Sorted(s), ~OverlapIn(s, p)
    PROVE  Apart(s)
<1>1. PICK n \in Nat : n = Len(s) /\ DOMAIN s = 1..n
  BY LenProperties
<1>2. InOrder(s, p) /\ Len(p) = n /\ \A h \in 1..n : \E i \in 1..n : p[i] = h
  BY <1>1, SortedInOrder
<1>3. \A i \in 1..n : s[i].start \in Nat /\ s[i].end \in Nat
  <2>1. \A i \in 1..n : s[i] \in Segs
    BY <1>1, ElementOfSeq
  <2> QED
    BY <2>1 DEF Segs
<1>4. \A i \in 1..n : p[i] \in 1..n
  <2>1. p \in Seq(1..n)
    BY <1>1, <1>2 DEF InOrder
  <2> QED
    BY <1>2, <2>1, ElementOfSeq
<1>5. \A i, k \in 1..n : i < k => s[p[i]].start <= s[p[k]].start
  BY <1>2 DEF InOrder
<1>6. \A i \in 1..(n - 1) : s[p[i]].end <= s[p[i + 1]].start
  <2> SUFFICES ASSUME NEW i \in 1..(n - 1) PROVE s[p[i]].end <= s[p[i + 1]].start
    OBVIOUS
  <2>1. i \in 1..n /\ i + 1 \in 1..n
    BY <1>1
  <2>2. ~(s[p[i]].end > s[p[i + 1]].start)
    BY <1>1 DEF OverlapIn
  <2> QED
    BY <1>3, <1>4, <2>1, <2>2
<1>7. ASSUME NEW i \in 1..n, NEW k \in 1..n, i < k PROVE s[p[i]].end <= s[p[k]].start
  <2>1. i \in 1..(n - 1) /\ i + 1 \in 1..n
    BY <1>1, <1>7
  <2>2. s[p[i + 1]].start <= s[p[k]].start
    <3>1. CASE i + 1 = k
      BY <1>3, <1>4, <3>1
    <3>2. CASE i + 1 < k
      BY <1>5, <2>1, <3>2
    <3> QED
      BY <1>7, <3>1, <3>2
  <2>3. s[p[i]].end <= s[p[i + 1]].start
    BY <1>6, <2>1
  <2>4. PICK u \in Nat : u = s[p[i]].end
    BY <1>3, <1>4
  <2>5. PICK v \in Nat, w \in Nat : v = s[p[i + 1]].start /\ w = s[p[k]].start
    BY <1>3, <1>4, <2>1
  <2>6. u <= v /\ v <= w
    BY <2>2, <2>3, <2>4, <2>5
  <2>7. u <= w
    BY ONLY <2>6, u \in Nat, v \in Nat, w \in Nat
  <2> QED
    BY <2>4, <2>5, <2>7
<1>8. ASSUME NEW a \in 1..n, NEW b \in 1..n, a # b
      PROVE  s[a].end <= s[b].start \/ s[b].end <= s[a].start
  <2>1. PICK i \in 1..n : p[i] = a
    BY <1>2
  <2>2. PICK k \in 1..n : p[k] = b
    BY <1>2
  <2>3. i < k \/ k < i
    BY <1>8, <2>1, <2>2
  <2> QED
    BY <1>7, <2>1, <2>2, <2>3
<1> QED
  BY <1>1, <1>8 DEF Apart

-----------------------------------------------------------------------------
(* Pages and division.                                                     *)

LEMMA DivMod ==
    ASSUME NEW n \in Nat, NEW s \in Nat \ {0}
    PROVE  n \div s \in Nat /\ n % s \in Nat /\ n % s < s /\ n = s * (n \div s) + (n % s)
OBVIOUS

LEMMA DivUnique ==
    ASSUME NEW s \in Nat \ {0}, NEW a \in Nat, NEW t \in Nat, t < s
    PROVE  (s * a + t) \div s = a /\ (s * a + t) % s = t
<1> DEFINE n == s * a + t
           b == n \div s
           u == n % s
<1>1. n \in Nat
  OBVIOUS
<1>2. b \in Nat /\ u \in Nat /\ u < s /\ n = s * b + u
  BY <1>1, DivMod
<1> HIDE DEF b, u
<1>3. s * a + t = s * b + u
  BY <1>2
<1>4. CASE a > b
  <2>1. PICK d \in Nat : a = b + 1 + d
    <3>1. a - b - 1 \in Nat /\ a = b + 1 + (a - b - 1)
      BY <1>2, <1>4
    <3> QED BY <3>1
  <2>2. s * a = s * b + s + s * d
    BY <1>2, <2>1
  <2>3. s * d \in Nat /\ s * b \in Nat
    BY <1>2
  <2> QED BY <1>2, <1>3, <2>2, <2>3
<1>5. CASE b > a
  <2>1. PICK d \in Nat : b = a + 1 + d
    <3>1. b - a - 1 \in Nat /\ b = a + 1 + (b - a - 1)
      BY <1>2, <1>5
    <3> QED BY <3>1
  <2>2. s * b = s * a + s + s * d
    BY <1>2, <2>1
  <2>3. s * d \in Nat /\ s * a \in Nat
    BY <1>2
  <2> QED BY <1>2, <1>3, <2>2, <2>3
<1>6. a = b
  BY <1>2, <1>4, <1>5
<1>7. t = u
  BY <1>2, <1>3, <1>6
<1> QED
  BY <1>6, <1>7 DEF b, u

LEMMA Cancel ==
    ASSUME NEW a \in Nat, NEW x \in Nat, NEW y \in Nat, a * x < a * y
    PROVE  x < y
<1> SUFFICES ASSUME y <= x PROVE FALSE
  OBVIOUS
<1>1. PICK d \in Nat : x = y + d
  <2>1. x - y \in Nat /\ x = y + (x - y)
    OBVIOUS
  <2> QED
    BY <2>1
<1>2. a * x = a * y + a * d
  BY <1>1
<1>3. a * d \in Nat /\ a * y \in Nat /\ a * x \in Nat
  OBVIOUS
<1> QED
  BY <1>2, <1>3

LEMMA PageIs == Page \in Nat \ {0} /\ Align \in Nat \ {0} /\ Page % Align = 0
BY LaunchAssumption DEF LaunchAssumption

LEMMA DivMonotone ==
    ASSUME NEW P \in Nat \ {0}, NEW a \in Nat, NEW b \in Nat, a <= b
    PROVE  a \div P <= b \div P
<1>1. PICK x \in Nat, t \in Nat : x = a \div P /\ a = P * x + t
  BY DivMod
<1>2. PICK y \in Nat, u \in Nat : y = b \div P /\ u < P /\ b = P * y + u
  BY DivMod
<1>3. P * x \in Nat /\ P * y \in Nat /\ P * (y + 1) = P * y + P /\ y + 1 \in Nat
  OBVIOUS
<1>4. P * x < P * (y + 1)
  BY <1>1, <1>2, <1>3
<1>5. x < y + 1
  BY <1>3, <1>4, Cancel
<1> QED
  BY <1>1, <1>2, <1>5

\* A segment of the pages from f up to l.
Whole(s, f, l) == s.start = Page * f /\ s.end = Page * l

LEMMA PagesOfWhole ==
    ASSUME NEW s, NEW f \in Nat, NEW l \in Nat, Whole(s, f, l), f <= l
    PROVE  /\ PagesOf(s) = l - f /\ PagesOf(s) \in Nat
           /\ \A i \in 1..PagesOf(s) : /\ PageAt(s, i) \in Nat /\ PageAt(s, i) = Page * (f + (i - 1))
                                       /\ s.start <= PageAt(s, i) /\ PageAt(s, i) + Page <= s.end
<1>1. Page \in Nat \ {0}
  BY PageIs
<1>2. PICK P \in Nat \ {0} : P = Page
  BY <1>1
<1>3. PICK d \in Nat : d = l - f /\ l = f + d
  OBVIOUS
<1>4. s.start = P * f /\ s.end = P * l /\ P * f \in Nat /\ P * d \in Nat /\ P * l = P * f + P * d
  BY <1>2, <1>3 DEF Whole
<1>5. s.end - s.start = P * d + 0
  BY <1>4
<1>6. (P * d + 0) \div P = d
  BY DivUnique
<1>7. PagesOf(s) = d
  BY <1>2, <1>5, <1>6 DEF PagesOf
<1>8. ASSUME NEW i \in 1..d
      PROVE  /\ PageAt(s, i) \in Nat /\ PageAt(s, i) = P * (f + (i - 1))
             /\ s.start <= PageAt(s, i) /\ PageAt(s, i) + P <= s.end
  <2>1. PICK j \in Nat : j = i - 1
    OBVIOUS
  <2>2. PICK h \in Nat : d = j + 1 + h
    <3>1. d - j - 1 \in Nat /\ d = j + 1 + (d - j - 1)
      BY <2>1
    <3> QED
      BY <3>1
  <2>3. P * d = P * j + P + P * h /\ P * h \in Nat /\ P * j \in Nat /\ P * (f + j) = P * f + P * j /\ j * P = P * j
    BY <2>2
  <2>4. PageAt(s, i) = P * f + P * j
    BY <1>2, <1>4, <2>1, <2>3 DEF PageAt
  <2> QED
    BY <1>4, <2>1, <2>3, <2>4
<1> QED
  BY <1>2, <1>3, <1>7, <1>8

LEMMA SegmentsWhole ==
    ASSUME NEW b, IsBinary(b), NEW r \in Nat
    PROVE  /\ Segments(b, r) \in Seq(Segs) /\ Len(Segments(b, r)) = Len(b.loads)
           /\ DOMAIN b.loads = 1..Len(b.loads)
           /\ \A k \in 1..Len(b.loads) :
                /\ Segments(b, r)[k].of = <<b.name, k>> /\ Segments(b, r)[k].flags = b.loads[k].flags
                /\ \E f, l \in Nat :
                     /\ Whole(Segments(b, r)[k], f, l) /\ f <= l
                     /\ f = (b.loads[k].vaddr + r) \div Page
                     /\ \A a \in b.loads[k].vaddr..(b.loads[k].vaddr + b.loads[k].memsz - 1) :
                          /\ (a + r) \div Page \in Nat
                          /\ f <= (a + r) \div Page /\ (a + r) \div Page < l
<1>1. PICK P \in Nat \ {0} : P = Page
  BY PageIs
<1>2. PICK n \in Nat : n = Len(b.loads) /\ DOMAIN b.loads = 1..n
  BY LenProperties DEF IsBinary
<1>3. \A k \in 1..n : b.loads[k] \in [vaddr : Nat, memsz : Nat, flags : SUBSET STRING]
  BY <1>2, ElementOfSeq DEF IsBinary
<1> DEFINE S(k) == [of |-> <<b.name, k>>, flags |-> b.loads[k].flags,
                    start |-> ((b.loads[k].vaddr + r) \div Page) * Page,
                    end |-> ((b.loads[k].vaddr + b.loads[k].memsz + r + Page - 1) \div Page) * Page]
<1>4. Segments(b, r) = [k \in 1..n |-> S(k)]
  BY <1>2 DEF Segments
<1>5. ASSUME NEW k \in 1..n
      PROVE  /\ S(k) \in Segs
             /\ \E f, l \in Nat :
                     /\ Whole(S(k), f, l) /\ f <= l
                     /\ f = (b.loads[k].vaddr + r) \div Page
                     /\ \A a \in b.loads[k].vaddr..(b.loads[k].vaddr + b.loads[k].memsz - 1) :
                          /\ (a + r) \div Page \in Nat
                          /\ f <= (a + r) \div Page /\ (a + r) \div Page < l
  <2>1. PICK v \in Nat, m \in Nat : v = b.loads[k].vaddr /\ m = b.loads[k].memsz
    BY <1>3
  <2>2. PICK z \in Nat : z = v + m + r + P - 1
    BY <1>1
  <2>3. PICK f \in Nat : f = (v + r) \div P
    BY DivMod
  <2>4. PICK l \in Nat, t \in Nat : l = z \div P /\ z = P * l + t /\ t < P
    BY DivMod
  <2>5. f <= l
    <3>1. v + r <= z /\ v + r \in Nat
      BY <2>2
    <3> QED
      BY <2>3, <2>4, <3>1, DivMonotone
  <2>6. P * f \in Nat /\ P * l \in Nat /\ f * P = P * f /\ l * P = P * l
    OBVIOUS
  <2>7. S(k).start = P * f /\ S(k).end = P * l
    BY <1>1, <2>1, <2>2, <2>3, <2>4, <2>6
  <2>8. ASSUME NEW a \in v..(v + m - 1)
        PROVE  (a + r) \div P \in Nat /\ f <= (a + r) \div P /\ (a + r) \div P < l
    <3>1. a \in Nat /\ a + r \in Nat /\ v + r \in Nat /\ v + r <= a + r /\ a + r < v + m + r
      OBVIOUS
    <3>2. PICK y \in Nat, u \in Nat : y = (a + r) \div P /\ a + r = P * y + u
      BY <3>1, DivMod
    <3>3. f <= y
      BY <2>3, <3>1, <3>2, DivMonotone
    <3>4. P * y < P * l
      <4>1. P * y <= a + r /\ P * y \in Nat
        BY <3>2
      <4>2. a + r <= z - P
        BY <2>2, <3>1
      <4> QED
        BY <2>4, <2>6, <3>1, <4>1, <4>2
    <3>5. y < l
      BY <3>4, Cancel
    <3> QED
      BY <3>2, <3>3, <3>5
  <2>9. S(k) \in Segs
    <3>1. <<b.name, k>> \in STRING \X Nat
      <4>1. b.name \in STRING
        BY DEF IsBinary
      <4> QED
        BY <4>1
    <3>a. b.loads[k].flags \in SUBSET STRING
      BY <1>3
    <3>2. S(k).start \in Nat /\ S(k).end \in Nat
      BY <2>6, <2>7
    <3> QED
      BY <3>1, <3>a, <3>2 DEF Segs
  <2> HIDE DEF S
  <2>10. Whole(S(k), f, l)
    BY <1>1, <2>7 DEF Whole
  <2> QED
    BY <1>1, <2>1, <2>3, <2>5, <2>8, <2>9, <2>10
<1>6. [k \in 1..n |-> S(k)] \in Seq(Segs) /\ Len([k \in 1..n |-> S(k)]) = n
  <2> HIDE DEF S
  <2>1. [k \in 1..n |-> S(k)] \in [1..n -> Segs]
    BY <1>5
  <2> QED
    BY <2>1
<1>7. \A k \in 1..n : Segments(b, r)[k] = S(k)
  BY <1>4
<1>8. \A k \in 1..n : S(k).of = <<b.name, k>> /\ S(k).flags = b.loads[k].flags
  OBVIOUS
<1> HIDE DEF S
<1>9. ASSUME NEW k \in 1..n
      PROVE  /\ Segments(b, r)[k].of = <<b.name, k>> /\ Segments(b, r)[k].flags = b.loads[k].flags
             /\ \E f, l \in Nat :
                     /\ Whole(Segments(b, r)[k], f, l) /\ f <= l
                     /\ f = (b.loads[k].vaddr + r) \div Page
                     /\ \A a \in b.loads[k].vaddr..(b.loads[k].vaddr + b.loads[k].memsz - 1) :
                          /\ (a + r) \div Page \in Nat
                          /\ f <= (a + r) \div Page /\ (a + r) \div Page < l
  <2>1. PICK x : x = S(k) /\ x = Segments(b, r)[k]
    BY <1>7
  <2> QED
    BY <1>5, <1>8, <2>1
<1>10. Segments(b, r) \in Seq(Segs) /\ Len(Segments(b, r)) = Len(b.loads)
  BY <1>2, <1>4, <1>6
<1> QED
  BY <1>2, <1>9, <1>10
-----------------------------------------------------------------------------
(* The segments of a launch.                                               *)

LEMMA AllWhole ==
    ASSUME NEW sh, NEW ex, IsBinary(sh), IsBinary(ex), sh.slot # Empty
    PROVE  /\ AllSegments(sh, ex) \in Seq(Segs)
           /\ Len(AllSegments(sh, ex)) = Len(sh.loads) + Len(ex.loads)
           /\ Len(sh.loads) \in Nat /\ Len(ex.loads) \in Nat /\ sh.slot[1] \in Nat
           /\ \A k \in 1..Len(sh.loads) : AllSegments(sh, ex)[k] = Segments(sh, 0)[k]
           /\ \A k \in 1..Len(ex.loads) :
                AllSegments(sh, ex)[Len(sh.loads) + k] = Segments(ex, sh.slot[1])[k]
           /\ \A k \in 1..Len(AllSegments(sh, ex)) :
                \E f, l \in Nat : Whole(AllSegments(sh, ex)[k], f, l) /\ f <= l
<1>1. sh.slot[1] \in Nat
  BY DEF IsBinary
<1>2. PICK at \in Nat : at = sh.slot[1]
  BY <1>1
<1>3. PICK m \in Nat, n \in Nat : m = Len(sh.loads) /\ n = Len(ex.loads)
  BY LenProperties DEF IsBinary
<1>4. PICK s \in Seq(Segs), e \in Seq(Segs) :
          s = Segments(sh, 0) /\ Len(s) = m /\ e = Segments(ex, at) /\ Len(e) = n
  BY <1>3, SegmentsWhole
<1>5. \A k \in 1..m : \E f, l \in Nat : Whole(s[k], f, l) /\ f <= l
  BY <1>3, <1>4, SegmentsWhole
<1>6. \A k \in 1..n : \E f, l \in Nat : Whole(e[k], f, l) /\ f <= l
  BY <1>3, <1>4, SegmentsWhole
<1>7. PICK a : a = s \o e /\ a = AllSegments(sh, ex)
  BY <1>2, <1>4 DEF AllSegments
<1>8. a \in Seq(Segs) /\ Len(a) = m + n /\ \A k \in 1..(m + n) : a[k] = IF k <= m THEN s[k] ELSE e[k - m]
  <2>1. s \o e \in Seq(Segs) /\ Len(s \o e) = Len(s) + Len(e)
    BY ConcatProperties
  <2>2. \A k \in 1..(Len(s) + Len(e)) : (s \o e)[k] = IF k <= Len(s) THEN s[k] ELSE e[k - Len(s)]
    BY ConcatProperties
  <2> QED
    BY <1>4, <1>7, <2>1, <2>2
<1>9. \A k \in 1..m : a[k] = s[k]
  <2>1. \A k \in 1..m : k \in 1..(m + n) /\ k <= m
    OBVIOUS
  <2> QED
    BY <1>8, <2>1
<1>10. ASSUME NEW k \in 1..n PROVE a[m + k] = e[k]
  <2>1. m + k \in 1..(m + n) /\ ~(m + k <= m) /\ (m + k) - m = k
    OBVIOUS
  <2> QED
    BY <1>8, <2>1
<1>11. ASSUME NEW k \in 1..(m + n) PROVE \E f, l \in Nat : Whole(a[k], f, l) /\ f <= l
  <2>1. CASE k <= m
    <3>1. k \in 1..m
      BY <2>1
    <3> QED
      BY <1>5, <1>9, <3>1
  <2>2. CASE k > m
    <3>1. PICK h \in 1..n : k = m + h
      <4>1. k - m \in 1..n /\ k = m + (k - m)
        BY <2>2
      <4> QED
        BY <4>1
    <3> QED
      BY <1>6, <1>10, <3>1
  <2> QED
    BY <2>1, <2>2
<1> QED
  BY <1>1, <1>2, <1>3, <1>4, <1>7, <1>8, <1>9, <1>10, <1>11

\* The parts of it that are needed one at a time.
LEMMA AllTyped ==
    ASSUME NEW sh, NEW ex, IsBinary(sh), IsBinary(ex), sh.slot # Empty
    PROVE  AllSegments(sh, ex) \in Seq(Segs)
BY ONLY IsBinary(sh), IsBinary(ex), sh.slot # Empty, AllWhole

LEMMA ExecutableSegment ==
    ASSUME NEW sh, NEW ex, IsBinary(sh), IsBinary(ex), sh.slot # Empty, NEW k \in 1..Len(ex.loads)
    PROVE  AllSegments(sh, ex)[Len(sh.loads) + k] = Segments(ex, sh.slot[1])[k]
<1>1. PICK at \in Nat : at = sh.slot[1]
  BY DEF IsBinary
<1>2. PICK m \in Nat, n \in Nat : m = Len(sh.loads) /\ n = Len(ex.loads)
  BY LenProperties DEF IsBinary
<1>3. PICK s \in Seq(Segs), e \in Seq(Segs) :
          s = Segments(sh, 0) /\ Len(s) = m /\ e = Segments(ex, at) /\ Len(e) = n
  BY <1>2, SegmentsWhole
<1>4. m + k \in 1..(m + n) /\ ~(m + k <= m) /\ (m + k) - m = k
  <2>1. k \in 1..n
    BY <1>2
  <2> QED
    BY ONLY <2>1, m \in Nat, n \in Nat
<1>5. (s \o e)[m + k] = e[k]
  <2>1. \A h \in 1..(Len(s) + Len(e)) : (s \o e)[h] = IF h <= Len(s) THEN s[h] ELSE e[h - Len(s)]
    BY ConcatProperties
  <2> QED
    BY <1>3, <1>4, <2>1
<1> QED
  BY <1>1, <1>2, <1>3, <1>5 DEF AllSegments

LEMMA LoadOk ==
    ASSUME NEW sh, NEW ex, LoadError(sh, ex) = "none"
    PROVE  sh.slot # Empty /\ BinaryOk(ex)
BY DEF LoadError

LEMMA JobIs ==
    ASSUME NEW j \in Jobs
    PROVE  /\ \A t \in {"sgx", "sev", "kvm"} : IsBinary(j.shim[t]) /\ j.shim[t].block % Align = 0
           /\ IsExecutable(j.exec, j.shim) /\ IsBinary(j.exec)
           /\ \A t \in {"sgx", "sev", "kvm"} : j.shim[t].name # j.exec.name
           /\ j.signatures = Empty \/ SignedFor(j.signatures[1], j)
           /\ DOMAIN j.shim = {"kvm", "sev", "sgx"}
<1>1. /\ DOMAIN j.shim = {"kvm", "sev", "sgx"}
      /\ \A t \in DOMAIN j.shim : IsBinary(j.shim[t]) /\ j.shim[t].block % Align = 0
      /\ IsExecutable(j.exec, j.shim)
      /\ j.signatures = Empty \/ SignedFor(j.signatures[1], j)
  BY JobsAssumption DEF JobsAssumption
<1> QED
  BY <1>1 DEF IsExecutable

LEMMA BackendsAre == ToSet(BACKENDS) = {"sgx", "sev", "kvm", "nil"} /\ DOMAIN BACKENDS = 1..4
BY DEF ToSet, BACKENDS

\* While the builder is given segments, these are the ones there are.
LEMMA SegmentFacts ==
    ASSUME TypeOK, SegmentsInv, Building, tech # "none"
    PROVE  /\ tech \in {"sgx", "sev", "kvm"}
           /\ Len(segs) \in Nat /\ DOMAIN segs = 1..Len(segs) /\ bld.next \in Nat
           /\ Shim.block \in Nat /\ Shim.block % Align = 0
           /\ \A k \in 1..Len(segs) : segs[k] \in Segs /\ \E f, l \in Nat : Whole(segs[k], f, l) /\ f <= l
<1>1. tech \in {"sgx", "sev", "kvm"}
  BY BackendsAre DEF TypeOK, Building
<1>2. IsBinary(Shim) /\ IsBinary(job.exec) /\ Shim.block % Align = 0
  BY <1>1, JobIs DEF Shim, TypeOK
<1>3. Shim.slot # Empty /\ segs = AllSegments(Shim, job.exec)
  BY LoadOk DEF SegmentsInv
<1>4. \A k \in 1..Len(segs) : \E f, l \in Nat : Whole(segs[k], f, l) /\ f <= l
  BY <1>2, <1>3, AllWhole
<1>5. segs \in Seq(Segs)
  BY DEF TypeOK
<1>6. Shim.block \in Nat
  BY <1>2 DEF IsBinary
<1>7. bld.next \in Nat
  BY DEF TypeOK, Builders
<1> QED
  BY <1>1, <1>2, <1>4, <1>5, <1>6, <1>7, LenProperties, ElementOfSeq

\* Pages of segments that do not meet are different pages.
LEMMA PagesDiffer ==
    ASSUME NEW s, NEW t, NEW f \in Nat, NEW l \in Nat, NEW g \in Nat, NEW h \in Nat,
           Whole(s, f, l), f <= l, Whole(t, g, h), g <= h,
           s.end <= t.start \/ t.end <= s.start,
           NEW i \in 1..PagesOf(s), NEW k \in 1..PagesOf(t)
    PROVE  PageAt(s, i) # PageAt(t, k)
<1>1. PICK P \in Nat \ {0} : P = Page
  BY PageIs
<1>2. PICK a \in Nat : a = PageAt(s, i) /\ s.start <= a /\ a + P <= s.end
  BY <1>1, PagesOfWhole
<1>3. PICK b \in Nat : b = PageAt(t, k) /\ t.start <= b /\ b + P <= t.end
  BY <1>1, PagesOfWhole
<1>4. s.start \in Nat /\ s.end \in Nat /\ t.start \in Nat /\ t.end \in Nat
  BY PageIs DEF Whole
<1> QED
  BY <1>2, <1>3, <1>4

LEMMA PagesOnce ==
    ASSUME NEW s, NEW f \in Nat, NEW l \in Nat, Whole(s, f, l), f <= l,
           NEW i \in 1..PagesOf(s), NEW k \in 1..PagesOf(s), PageAt(s, i) = PageAt(s, k)
    PROVE  i = k
<1>1. PICK P \in Nat \ {0} : P = Page
  BY PageIs
<1>2. PageAt(s, i) = P * (f + (i - 1)) /\ PageAt(s, k) = P * (f + (k - 1)) /\ PagesOf(s) \in Nat
  BY <1>1, PagesOfWhole
<1>3. PICK x \in Nat, y \in Nat : x = f + (i - 1) /\ y = f + (k - 1)
  BY <1>2
<1>4. P * x = P * y
  <2>1. P * x = PageAt(s, i) /\ P * y = PageAt(s, k)
    BY <1>2, <1>3
  <2> QED
    BY <2>1
<1>5. (P * x + 0) \div P = x /\ (P * y + 0) \div P = y
  BY DivUnique
<1>6. x = y
  <2>1. P * x + 0 = P * x /\ P * y + 0 = P * y
    OBVIOUS
  <2> QED
    BY <1>4, <1>5, <2>1
<1> QED
  BY <1>2, <1>3, <1>6
-----------------------------------------------------------------------------
(* Up to the builder.                                                      *)

LEMMA Nothing == NoDev \in Devs /\ NoBuilder \in Builders /\ Untried \in [outer : 0..Retries, inner : 0..Retries]
<1>1. Retries \in 0..Retries
  BY LaunchAssumption DEF LaunchAssumption
<1>2. Empty \in Seq(Regions) /\ Empty \in Seq(Infos) /\ Empty \in Seq(Entries)
  BY DEF Empty
<1>3. NoDev \in Devs
  BY <1>2 DEF NoDev, Devs
<1>4. NoBuilder \in Builders
  BY <1>2 DEF NoBuilder, Builders
<1> QED
  BY <1>1, <1>3, <1>4 DEF Untried

\* Which jobs may fail with a digest that is not the one expected.
Refusable == short \/ (job.signatures # Empty /\ job.signatures[1].exec # job.exec)

LEMMA FailKeeps ==
    ASSUME LaunchInv, NEW reason \in Reasons, Fail(reason), reason = "digest" => Refusable
    PROVE  LaunchInv'
<1>1. pc' = "failed" /\ why' = reason /\ dev' = NoDev /\ bld' = NoBuilder /\ retry' = Untried
      /\ job' = job /\ tech' = tech /\ segs' = segs /\ short' = short /\ balloons' = balloons
  BY DEF Fail
<1>2. TypeOK'
  <2>1. bld'.next = 1 /\ Len(segs) \in Nat
    BY <1>1, LenProperties DEF NoBuilder, LaunchInv, TypeOK
  <2> QED
    BY <1>1, <2>1, Nothing DEF LaunchInv, TypeOK
<1>3. EarlyInv'
  BY <1>1 DEF LaunchInv, EarlyInv, Early
<1>4. SignedKeepsStart'
  BY <1>1 DEF SignedKeepsStart, Refusable
<1>5. ~Building' /\ pc' # "map" /\ pc' # "running"
  BY <1>1 DEF Building
<1> QED
  BY <1>2, <1>3, <1>4, <1>5
  DEF LaunchInv, SegmentsInv, PagesInv, MeasureInv, RegionsInv, BlocksInv, TcsInv, RunningInv

\* A step with nothing built before it and after it.
LEMMA EarlyKeeps ==
    ASSUME LaunchInv, pc \in Early,
           job' = job, why' = why, segs' = segs, short' = short, balloons' = balloons, bld' = bld,
           retry' \in [outer : 0..Retries, inner : 0..Retries],
           dev' \in Devs, dev'.slots = Empty, dev'.mem = Empty, dev'.log = Empty,
           tech' \in ToSet(BACKENDS),
           pc' \in Early \ {"pick"} \/ (pc' = "running" /\ tech' = "nil"),
           pc' \in {"pick", "signatures", "running"} \/ tech' # "nil",
           pc' \in {"signatures", "load", "running"} \/ (LoadError(Shim, job.exec) = "none")'
    PROVE  LaunchInv'
<1>1. TypeOK'
  BY DEF LaunchInv, TypeOK
<1>2. tech' # "none"
  BY BackendsAre
<1>3. EarlyInv'
  <2>1. bld = NoBuilder /\ short = FALSE /\ why = "none"
    BY DEF LaunchInv, EarlyInv, Early
  <2> QED
    BY <1>2, <2>1 DEF EarlyInv, Early
<1>4. SignedKeepsStart'
  BY DEF SignedKeepsStart, LaunchInv, EarlyInv, Early
<1>5. ~Building' /\ pc' # "map" /\ ~(pc' = "running" /\ tech' # "nil")
  BY DEF Building, Early
<1> QED
  BY <1>1, <1>3, <1>4, <1>5
  DEF LaunchInv, SegmentsInv, PagesInv, MeasureInv, RegionsInv, BlocksInv, TcsInv, RunningInv

\* Facts about a state before the builder.
LEMMA EarlyFacts ==
    ASSUME LaunchInv, pc \in Early
    PROVE  /\ dev \in Devs /\ dev.slots = Empty /\ dev.mem = Empty /\ dev.log = Empty
           /\ retry \in [outer : 0..Retries, inner : 0..Retries]
           /\ pc # "pick" => tech \in ToSet(BACKENDS)
           /\ pc \notin {"pick", "signatures"} => tech \in {"sgx", "sev", "kvm"}
           /\ pc \notin {"pick", "signatures", "load"} => LoadError(Shim, job.exec) = "none"
BY BackendsAre DEF LaunchInv, EarlyInv, TypeOK, Early

LEMMA FirstHaveIs == job \in Jobs => BACKENDS[FirstHave] \in ToSet(BACKENDS)
<1> SUFFICES ASSUME job \in Jobs PROVE FirstHave \in 1..4
  BY BackendsAre DEF ToSet
<1>1. "nil" \in job.have
  BY JobsAssumption DEF JobsAssumption
<1> DEFINE T == {i \in 1..4 : BACKENDS[i] \in job.have}
<1>2. BACKENDS[4] = "nil"
  BY DEF BACKENDS
<1>3. T \subseteq Nat /\ T # {}
  BY <1>1, <1>2
<1>4. PICK i \in T : \A k \in T : i <= k
  <2> HIDE DEF T
  <2> QED  BY <1>3, LeastNumber
<1>5. \A k \in 1..(i - 1) : BACKENDS[k] \notin job.have
  <2> SUFFICES ASSUME NEW k \in 1..(i - 1), BACKENDS[k] \in job.have PROVE FALSE
    OBVIOUS
  <2>1. i \in 1..4 /\ k \in 1..4 /\ k < i
    BY <1>4
  <2>2. k \in T
    BY <2>1
  <2> QED
    BY <1>4, <2>1, <2>2
<1>6. \E n \in DOMAIN BACKENDS : BACKENDS[n] \in job.have /\ \A k \in 1..(n - 1) : BACKENDS[k] \notin job.have
  BY <1>4, <1>5, BackendsAre
<1> QED
  BY <1>6, BackendsAre DEF FirstHave

LEMMA PickKeeps == ASSUME LaunchInv, Pick PROVE LaunchInv'
<1>1. pc = "pick" /\ job \in Jobs
  BY DEF Pick, LaunchInv, TypeOK
<1>2. CASE Fail("backend")
  BY <1>2, FailKeeps DEF Reasons
<1>3. CASE ~Fail("backend")
  <2>1. /\ pc' = "signatures" /\ UNCHANGED <<job, why, retry, segs, dev, bld, short, balloons>>
        /\ tech' = BACKENDS[FirstHave] \/ (job.backend # "any" /\ tech' = job.backend)
    BY <1>3 DEF Pick
  <2>2. tech' \in ToSet(BACKENDS)
    <3>1. job.backend \in {"any"} \cup ToSet(BACKENDS)
      BY <1>1, JobsAssumption DEF JobsAssumption
    <3> QED
      BY <1>1, <2>1, <3>1, FirstHaveIs
  <2>3. pc \in Early /\ pc' \in Early \ {"pick"}
    BY <1>1, <2>1 DEF Early
  <2> QED
    BY <2>1, <2>2, <2>3, EarlyFacts, EarlyKeeps
<1> QED
  BY <1>2, <1>3

LEMMA LoadKeeps == ASSUME LaunchInv, LoadSignatures \/ Load PROVE LaunchInv'
<1>1. pc \in {"signatures", "load"} /\ pc \in Early
  BY DEF LoadSignatures, Load, Early
<1>2. CASE \E r \in Reasons : r # "digest" /\ Fail(r)
  BY <1>2, FailKeeps
<1>3. CASE ~\E r \in Reasons : r # "digest" /\ Fail(r)
  <2>1. ~Fail("signatures") /\ ~Fail("config") /\ ~Fail("header") /\ ~Fail("slot") /\ ~Fail("fit") /\ ~Fail("version")
    BY <1>3 DEF Reasons
  <2>2. CASE LoadSignatures
    <3>1. Goes(IF tech = "nil" THEN "running" ELSE "load") /\ UNCHANGED <<retry, dev, bld>>
      BY <2>1, <2>2 DEF LoadSignatures
    <3>2. /\ pc' = IF tech = "nil" THEN "running" ELSE "load"
          /\ UNCHANGED <<job, tech, why, segs, short, balloons, retry, dev, bld>>
      BY <3>1 DEF Goes
    <3>3. pc' \in Early \ {"pick"} \/ (pc' = "running" /\ tech' = "nil")
      BY <3>2 DEF Early
    <3>4. pc' \in {"pick", "signatures", "running"} \/ tech' # "nil"
      BY <3>2
    <3>5. pc' \in {"signatures", "load", "running"} /\ pc # "pick"
      BY <1>1, <3>2
    <3> QED
      BY <1>1, <3>2, <3>3, <3>4, <3>5, EarlyFacts, EarlyKeeps
  <2>3. CASE Load
    <3>1. LoadError(Shim, job.exec) = "none"
      <4>1. LoadError(Shim, job.exec) \in {"header", "slot", "fit", "version", "none"}
        BY DEF LoadError
      <4> QED
        BY <2>1, <2>3, <4>1 DEF Load
    <3>2. Goes(IF tech = "sgx" THEN "ecreate" ELSE "kvm") /\ UNCHANGED <<retry, dev, bld>> /\ pc = "load"
      BY <2>1, <2>3, <3>1 DEF Load
    <3>3. /\ pc' = IF tech = "sgx" THEN "ecreate" ELSE "kvm"
          /\ UNCHANGED <<job, tech, why, segs, short, balloons, retry, dev, bld>>
      BY <3>2 DEF Goes
    <3>4. (LoadError(Shim, job.exec) = "none")'
      BY <3>1, <3>3 DEF Shim
    <3>5. tech \in {"sgx", "sev", "kvm"}
      BY <1>1, <3>2, EarlyFacts
    <3>6. pc' \in Early \ {"pick"} /\ tech' # "nil" /\ pc # "pick"
      BY <3>2, <3>3, <3>5 DEF Early
    <3> QED
      BY <1>1, <3>3, <3>4, <3>6, EarlyFacts, EarlyKeeps
  <2> QED
    BY <2>2, <2>3
<1> QED
  BY <1>2, <1>3

\* Between Loader::load's checks and the segments: another step of the same launch.
LEMMA OpenKeeps ==
    ASSUME LaunchInv, pc \in Early \ {"pick", "signatures", "load"},
           NEW to \in Early \ {"pick", "signatures", "load"}, Goes(to), bld' = bld,
           retry' \in [outer : 0..Retries, inner : 0..Retries],
           dev' \in Devs, dev'.slots = Empty, dev'.mem = Empty, dev'.log = Empty
    PROVE  LaunchInv'
<1>1. pc' = to /\ UNCHANGED <<job, tech, why, segs, short, balloons>>
  BY DEF Goes
<1>2. pc \in Early /\ pc \notin {"pick", "signatures", "load"}
  OBVIOUS
<1>3. tech \in {"sgx", "sev", "kvm"} /\ tech \in ToSet(BACKENDS) /\ LoadError(Shim, job.exec) = "none"
  BY <1>2, EarlyFacts
<1>4. (LoadError(Shim, job.exec) = "none")'
  BY <1>1, <1>3 DEF Shim
<1> QED
  BY <1>1, <1>2, <1>3, <1>4, EarlyKeeps

LEMMA AgainKeeps ==
    ASSUME LaunchInv, pc \in Early \ {"pick", "signatures", "load"}, Again
    PROVE  LaunchInv'
<1>1. CASE retry.outer = 0
  BY <1>1, FailKeeps DEF Again, Reasons
<1>2. CASE retry.outer # 0
  <2>1. Goes("kvm") /\ dev' = NoDev /\ retry' = [outer |-> retry.outer - 1, inner |-> Retries] /\ bld' = bld
    BY <1>2 DEF Again
  <2>2. retry' \in [outer : 0..Retries, inner : 0..Retries]
    <3>1. retry.outer \in 0..Retries /\ Retries \in Nat
      BY LaunchAssumption DEF LaunchAssumption, LaunchInv, TypeOK
    <3>2. retry.outer - 1 \in 0..Retries /\ Retries \in 0..Retries
      BY <1>2, <3>1
    <3> QED
      BY <2>1, <3>2
  <2>3. dev' \in Devs /\ dev'.slots = Empty /\ dev'.mem = Empty /\ dev'.log = Empty
    BY <2>1, Nothing DEF NoDev
  <2>4. "kvm" \in Early \ {"pick", "signatures", "load"}
    BY DEF Early
  <2> QED
    BY <2>1, <2>2, <2>3, <2>4, OpenKeeps
<1> QED
  BY <1>1, <1>2

LEMMA OpensKeep ==
    ASSUME LaunchInv, OpenKvm \/ OpenSev \/ SnpInit \/ SnpStart \/ Ecreate
    PROVE  LaunchInv'
<1> DEFINE Opening == Early \ {"pick", "signatures", "load"}
<1>1. pc \in Opening /\ pc \in Early
  BY DEF OpenKvm, OpenSev, SnpInit, SnpStart, Ecreate, Early
<1>2. /\ dev \in Devs /\ dev.slots = Empty /\ dev.mem = Empty /\ dev.log = Empty
      /\ retry \in [outer : 0..Retries, inner : 0..Retries]
  BY <1>1, EarlyFacts
<1>3. \A to \in {"kvm", "devsev", "init", "start", "ecreate", "segments"} : to \in Opening
  BY DEF Early
<1>4. \A x \in {"vm", "snp", "started", "created"} :
          LET d == [dev EXCEPT !.state = x] IN d \in Devs /\ d.slots = Empty /\ d.mem = Empty /\ d.log = Empty
  <2>1. PICK R, M, I : R = Seq(Regions) /\ M = Seq(Entries) /\ I = Seq(Infos)
    OBVIOUS
  <2>2. Devs = [state : {"none", "vm", "snp", "started", "created", "running"}, slots : R, mem : M, log : I, vcpus : {0, 1}]
    BY <2>1 DEF Devs
  <2> QED
    BY <1>2, <2>2
<1> HIDE DEF Opening
<1>5. CASE OpenKvm
  <2>1. CASE Again
    BY <1>1, <2>1, AgainKeeps DEF Opening
  <2>2. CASE Fail("kvm")
    BY <2>2, FailKeeps DEF Reasons
  <2>3. CASE dev' = Vm /\ Goes(IF tech = "sev" THEN "devsev" ELSE "segments") /\ UNCHANGED <<retry, bld>>
    <3>1. PICK to \in Opening : Goes(to)
      BY <1>3, <2>3
    <3>2. dev' \in Devs /\ dev'.slots = Empty /\ dev'.mem = Empty /\ dev'.log = Empty
      <4>1. Vm = [state |-> "vm", slots |-> Empty, mem |-> Empty, log |-> Empty, vcpus |-> 0]
        BY DEF Vm, NoDev
      <4>2. Empty \in Seq(Regions) /\ Empty \in Seq(Infos) /\ Empty \in Seq(Entries)
        BY DEF Empty
      <4> QED
        BY <2>3, <4>1, <4>2 DEF Devs
    <3> QED
      BY <1>1, <1>2, <2>3, <3>1, <3>2, OpenKeeps DEF Opening
  <2> QED
    BY <1>5, <2>1, <2>2, <2>3 DEF OpenKvm
<1>6. CASE OpenSev
  <2>1. CASE Again
    BY <1>1, <2>1, AgainKeeps DEF Opening
  <2>2. CASE Goes("init") /\ UNCHANGED <<retry, dev, bld>>
    <3>1. PICK to \in Opening : Goes(to)
      BY <1>3, <2>2
    <3> QED
      BY <1>1, <1>2, <2>2, <3>1, OpenKeeps DEF Opening
  <2>3. CASE retry.inner > 0 /\ Goes("devsev") /\ retry' = [retry EXCEPT !.inner = @ - 1] /\ UNCHANGED <<dev, bld>>
    <3>1. PICK to \in Opening : Goes(to)
      BY <1>3, <2>3
    <3>2. retry' \in [outer : 0..Retries, inner : 0..Retries]
      <4>1. retry.inner \in 0..Retries /\ Retries \in Nat
        BY <1>2, LaunchAssumption DEF LaunchAssumption
      <4>2. retry.inner - 1 \in 0..Retries
        BY <2>3, <4>1
      <4> QED
        BY <1>2, <2>3, <4>2
    <3> QED
      BY <1>1, <1>2, <2>3, <3>1, <3>2, OpenKeeps DEF Opening
  <2> QED
    BY <1>6, <2>1, <2>2, <2>3 DEF OpenSev
<1>7. CASE SnpInit
  <2>1. CASE Again
    BY <1>1, <2>1, AgainKeeps DEF Opening
  <2>2. CASE Goes("start") /\ dev' = [dev EXCEPT !.state = "snp"] /\ UNCHANGED <<retry, bld>>
    <3>1. PICK to \in Opening : Goes(to)
      BY <1>3, <2>2
    <3>2. dev' \in Devs /\ dev'.slots = Empty /\ dev'.mem = Empty /\ dev'.log = Empty
      BY <1>4, <2>2
    <3> QED
      BY <1>1, <1>2, <2>2, <3>1, <3>2, OpenKeeps DEF Opening
  <2> QED
    BY <1>7, <2>1, <2>2 DEF SnpInit
<1>8. CASE SnpStart
  <2>1. CASE Fail("start")
    BY <2>1, FailKeeps DEF Reasons
  <2>2. CASE Goes("segments") /\ dev' = [dev EXCEPT !.state = "started"] /\ retry' = Untried /\ UNCHANGED bld
    <3>1. PICK to \in Opening : Goes(to)
      BY <1>3, <2>2
    <3>2. dev' \in Devs /\ dev'.slots = Empty /\ dev'.mem = Empty /\ dev'.log = Empty
      BY <1>4, <2>2
    <3> QED
      BY <1>1, <2>2, <3>1, <3>2, Nothing, OpenKeeps DEF Opening
  <2> QED
    BY <1>8, <2>1, <2>2 DEF SnpStart
<1>9. CASE Ecreate
  <2>1. CASE Fail("create")
    BY <2>1, FailKeeps DEF Reasons
  <2>2. CASE Goes("segments") /\ dev' = [dev EXCEPT !.state = "created"] /\ UNCHANGED <<retry, bld>>
    <3>1. PICK to \in Opening : Goes(to)
      BY <1>3, <2>2
    <3>2. dev' \in Devs /\ dev'.slots = Empty /\ dev'.mem = Empty /\ dev'.log = Empty
      BY <1>4, <2>2
    <3> QED
      BY <1>1, <1>2, <2>2, <3>1, <3>2, OpenKeeps DEF Opening
  <2> QED
    BY <1>9, <2>1, <2>2 DEF Ecreate
<1> QED
  BY <1>5, <1>6, <1>7, <1>8, <1>9

\* The overlap check lets only segments pass that do not meet.
LEMMA CheckKeeps == ASSUME LaunchInv, CheckSegments PROVE LaunchInv'
<1>1. pc = "segments" /\ pc \in Early
  BY DEF CheckSegments, Early
<1>2. /\ bld = NoBuilder /\ short = FALSE /\ why = "none"
      /\ dev.slots = Empty /\ dev.mem = Empty /\ dev.log = Empty
      /\ tech \in {"sgx", "sev", "kvm"} /\ LoadError(Shim, job.exec) = "none"
  BY <1>1, EarlyFacts DEF LaunchInv, EarlyInv
<1>3. PICK all \in Seq(Segs) : all = AllSegments(Shim, job.exec)
  <2>1. IsBinary(Shim) /\ IsBinary(job.exec)
    BY <1>2, JobIs DEF Shim, LaunchInv, TypeOK
  <2> QED
    BY <1>2, <2>1, LoadOk, AllTyped
<1>4. PICK p \in Sorted(all) :
          IF ~Relocates(Shim) THEN Fail("assert")
          ELSE IF OverlapIn(all, p) THEN Fail("overlap")
          ELSE segs' = all /\ pc' = "map" /\ UNCHANGED <<job, tech, why, retry, dev, bld, short, balloons>>
  BY <1>3 DEF CheckSegments
<1>5. CASE ~Relocates(Shim) \/ OverlapIn(all, p)
  BY <1>4, <1>5, FailKeeps DEF Reasons
<1>6. CASE Relocates(Shim) /\ ~OverlapIn(all, p)
  <2>1. segs' = all /\ pc' = "map" /\ UNCHANGED <<job, tech, why, retry, dev, bld, short, balloons>>
    BY <1>4, <1>6
  <2>2. Apart(all)
    BY <1>6, NeighboursSuffice
  <2>3. bld.next = 1 /\ Len(all) \in Nat /\ bld.regions = <<>> /\ bld.sallyports = {} /\ bld.hash = <<>> /\ bld.tcs = {}
    BY <1>2, LenProperties DEF NoBuilder, Empty
  <2>4. TypeOK'
    BY <2>1, <2>3 DEF LaunchInv, TypeOK
  <2>5. EarlyInv'
    BY <1>2, <2>1 DEF EarlyInv, Early
  <2>6. SegmentsInv'
    BY <1>2, <1>3, <2>1, <2>2 DEF SegmentsInv, Shim
  <2>7. Before' = {}
    BY <2>1, <2>3 DEF Before
  <2>8. dev'.mem = <<>> /\ dev'.log = <<>> /\ dev'.slots = <<>> /\ bld' = bld
    BY <1>2, <2>1 DEF Empty
  <2>9. PagesInv'
    BY <2>7, <2>8 DEF PagesInv
  <2>10. MeasureInv'
    <3>1. FlattenSeq(<<>>) = <<>>
      BY FlattenNothing
    <3>2. [k \in {} |-> SevHash(segs'[k])] = <<>> /\ [k \in {} |-> SgxHash(segs'[k])] = <<>>
      OBVIOUS
    <3>3. FlattenSeq([k \in Before |-> SevHash(segs[k])])' = <<>> /\ FlattenSeq([k \in Before |-> SgxHash(segs[k])])' = <<>>
      BY <2>7, <3>1, <3>2
    <3>4. short' = FALSE
      BY <1>2, <2>1
    <3> QED
      BY <2>3, <2>7, <2>8, <3>3, <3>4 DEF MeasureInv
  <2>11. RegionsInv' /\ BlocksInv'
    BY <2>3, <2>8 DEF RegionsInv, BlocksInv
  <2>12. TcsInv'
    BY <2>3, <2>7, <2>8 DEF TcsInv
  <2>13. RunningInv' /\ SignedKeepsStart'
    BY <1>2, <2>1 DEF RunningInv, SignedKeepsStart
  <2> QED
    BY <2>4, <2>5, <2>6, <2>9, <2>10, <2>11, <2>12, <2>13 DEF LaunchInv
<1> QED
  BY <1>5, <1>6
-----------------------------------------------------------------------------
(* What a segment adds.                                                    *)

LEMMA FlattenNext ==
    ASSUME NEW R, NEW n \in Nat, NEW g, \A k \in 1..(n + 1) : g[k] \in Seq(R)
    PROVE  /\ FlattenSeq([k \in 1..n |-> g[k]]) \in Seq(R)
           /\ FlattenSeq([k \in 1..(n + 1) |-> g[k]]) = FlattenSeq([k \in 1..n |-> g[k]]) \o g[n + 1]
<1> DEFINE s == [k \in 1..n |-> g[k]]
           t == [k \in 1..(n + 1) |-> g[k]]
<1>1. s \in [1..n -> Seq(R)] /\ t \in [1..(n + 1) -> Seq(R)] /\ n + 1 \in Nat
  OBVIOUS
<1>2. s \in Seq(Seq(R)) /\ Len(s) = n /\ t \in Seq(Seq(R)) /\ Len(t) = n + 1
  BY <1>1
<1>3. g[n + 1] \in Seq(R)
  OBVIOUS
<1>4. \A k \in 1..n : s[k] = t[k]
  OBVIOUS
<1>5. t[n + 1] = g[n + 1]
  OBVIOUS
<1> HIDE DEF s, t
<1>6. PICK e \in Seq(R) : e = g[n + 1]
  BY <1>3
<1>7. /\ Append(s, e) \in Seq(Seq(R)) /\ Len(Append(s, e)) = n + 1
      /\ (\A k \in 1..n : Append(s, e)[k] = s[k]) /\ Append(s, e)[n + 1] = e
  BY <1>2, AppendProperties
<1>8. \A k \in 1..(n + 1) : k \in 1..n \/ k = n + 1
  OBVIOUS
<1>9. \A k \in 1..(n + 1) : Append(s, e)[k] = t[k]
  BY <1>4, <1>5, <1>6, <1>7, <1>8
<1>10. Append(s, e) = t
  BY <1>2, <1>7, <1>9, SeqEqual
<1>11. FlattenSeq(Append(s, e)) = FlattenSeq(s) \o e
  BY <1>2, FlattenAppend
<1>12. FlattenSeq(s) \in Seq(R)
  BY <1>2, FlattenTyped
<1> QED
  BY <1>6, <1>10, <1>11, <1>12 DEF s, t

\* A segment of whole pages.
Laid(s) == s \in Segs /\ \E f, l \in Nat : Whole(s, f, l) /\ f <= l

LEMMA LaidPages ==
    ASSUME NEW s, Laid(s)
    PROVE  /\ PagesOf(s) \in Nat /\ s.start \in Nat /\ s.end \in Nat /\ s.of \in STRING \X Nat /\ s.flags \in SUBSET STRING
           /\ \A i \in 1..PagesOf(s) : PageAt(s, i) \in Nat /\ Content(s, i) \in Names
<1>1. s.start \in Nat /\ s.end \in Nat /\ s.of \in STRING \X Nat /\ s.flags \in SUBSET STRING
  BY DEF Laid, Segs
<1>2. PagesOf(s) \in Nat /\ \A i \in 1..PagesOf(s) : PageAt(s, i) \in Nat
  BY PagesOfWhole DEF Laid
<1>3. \A i \in 1..PagesOf(s) : Content(s, i) \in Names
  BY <1>1, <1>2 DEF Content, Names
<1> QED
  BY <1>1, <1>2, <1>3

LEMMA SgxHashIs ==
    ASSUME NEW s, Laid(s)
    PROVE  SgxHash(s) \in Seq(Infos) /\ Len(SgxHash(s)) = PagesOf(s)
<1>1. PICK n \in Nat : n = PagesOf(s)
  BY LaidPages
<1> DEFINE x(i) == [type |-> SgxClass(s), gpa |-> PageAt(s, i),
                    contents |-> IF "unmeasured" \in s.flags THEN Empty ELSE Content(s, i)]
<1>2. ASSUME NEW i \in 1..n PROVE x(i) \in Infos
  <2>1. PageAt(s, i) \in Int /\ Content(s, i) \in Names
    BY <1>1, LaidPages
  <2>2. SgxClass(s) \in Types \cup {"vmsa"}
    BY DEF SgxClass, Types
  <2>3. (IF "unmeasured" \in s.flags THEN Empty ELSE Content(s, i)) \in Hashed
    BY <2>1 DEF Hashed
  <2> QED
    BY <2>1, <2>2, <2>3 DEF Infos
<1> HIDE DEF x
<1>3. [i \in 1..n |-> x(i)] \in [1..n -> Infos]
  BY <1>2
<1>4. [i \in 1..n |-> x(i)] \in Seq(Infos) /\ Len([i \in 1..n |-> x(i)]) = n
  BY <1>3
<1> QED
  BY <1>1, <1>4 DEF SgxHash, x

LEMMA SevHashIs ==
    ASSUME NEW s, Laid(s)
    PROVE  /\ SevHash(s) \in Seq(Infos) /\ SevType(s) \in Types
           /\ PagesOf(s) = 0 => SevHash(s) = <<>>
           /\ PagesOf(s) > 0 /\ (SevType(s) = "normal" \/ PagesOf(s) = 1) => FirmwareLog(s) = SevHash(s)
<1>1. PICK n \in Nat : n = PagesOf(s)
  BY LaidPages
<1>2. SevType(s) \in {"normal", "cpuid", "secrets"} /\ SevType(s) \in Types
  BY DEF SevType, Types
<1> DEFINE x(i) == [type |-> "normal", gpa |-> PageAt(s, i), contents |-> Content(s, i)]
<1>3. ASSUME NEW i \in 1..n PROVE x(i) \in Infos
  <2>1. PageAt(s, i) \in Int /\ Content(s, i) \in Hashed
    BY <1>1, LaidPages DEF Hashed
  <2> QED
    BY <2>1 DEF Infos, Types
<1>4. CASE SevType(s) = "normal"
  <2>1. SevHash(s) = [i \in 1..n |-> x(i)]
    BY <1>1, <1>4 DEF SevHash, Update
  <2>2. FirmwareLog(s) = [i \in 1..n |-> x(i)]
    BY <1>1, <1>4 DEF FirmwareLog, FirmwareInfo
  <2> HIDE DEF x
  <2>3. [i \in 1..n |-> x(i)] \in [1..n -> Infos]
    BY <1>3
  <2>4. [i \in 1..n |-> x(i)] \in Seq(Infos)
    BY <2>3
  <2>5. n = 0 => [i \in 1..n |-> x(i)] = <<>>
    OBVIOUS
  <2> QED
    BY <1>1, <1>2, <2>1, <2>2, <2>4, <2>5
<1>5. CASE SevType(s) # "normal"
  <2> DEFINE u == [type |-> SevType(s), gpa |-> s.start, contents |-> Empty]
  <2>1. u \in Infos
    <3>1. s.start \in Int
      BY LaidPages
    <3> QED
      BY <1>2, <3>1 DEF Infos, Hashed
  <2>2. SevHash(s) = IF n = 0 THEN <<>> ELSE <<u>>
    BY <1>1, <1>5 DEF SevHash, Update, Empty
  <2>3. ASSUME n = 1 PROVE FirmwareLog(s) = <<u>>
    <3>1. FirmwareLog(s) = [i \in 1..1 |-> FirmwareInfo(SevType(s), PageAt(s, i), Content(s, i))]
      BY <1>1, <2>3 DEF FirmwareLog
    <3>2. PageAt(s, 1) = s.start
      <4>1. s.start \in Nat /\ Page \in Nat
        BY LaidPages, PageIs
      <4> QED
        BY <4>1 DEF PageAt
    <3>3. FirmwareInfo(SevType(s), PageAt(s, 1), Content(s, 1)) = u
      BY <1>5, <3>2 DEF FirmwareInfo
    <3>4. [i \in 1..1 |-> FirmwareInfo(SevType(s), PageAt(s, i), Content(s, i))]
             = <<FirmwareInfo(SevType(s), PageAt(s, 1), Content(s, 1))>>
      OBVIOUS
    <3> QED
      BY <3>1, <3>3, <3>4
  <2> HIDE DEF u
  <2>4. <<u>> \in Seq(Infos) /\ <<>> \in Seq(Infos)
    BY <2>1
  <2> QED
    BY <1>1, <1>2, <1>5, <2>2, <2>3, <2>4
<1> QED
  BY <1>4, <1>5

LEMMA LoadedIs ==
    ASSUME NEW s, Laid(s), NEW n \in Nat, n <= PagesOf(s), NEW type \in Types
    PROVE  /\ Loaded(s, n, type) \in Seq(Entries) /\ Len(Loaded(s, n, type)) = n
           /\ \A i \in 1..n : Loaded(s, n, type)[i] = [at |-> PageAt(s, i), type |-> type, contents |-> Content(s, i)]
<1> DEFINE x(i) == [at |-> PageAt(s, i), type |-> type, contents |-> Content(s, i)]
<1>1. ASSUME NEW i \in 1..n PROVE x(i) \in Entries
  <2>1. i \in 1..PagesOf(s)
    BY LaidPages
  <2>2. PageAt(s, i) \in Nat /\ Content(s, i) \in Names
    BY <2>1, LaidPages
  <2> QED
    BY <2>2 DEF Entries
<1>2. Loaded(s, n, type) = [i \in 1..n |-> x(i)]
  BY DEF Loaded
<1> HIDE DEF x
<1>3. [i \in 1..n |-> x(i)] \in [1..n -> Entries]
  BY <1>1
<1>4. [i \in 1..n |-> x(i)] \in Seq(Entries) /\ Len([i \in 1..n |-> x(i)]) = n
  BY <1>3
<1>5. \A i \in 1..n : [k \in 1..n |-> x(k)][i] = x(i)
  OBVIOUS
<1> QED
  BY <1>2, <1>4, <1>5 DEF x

LEMMA TypeForIs ==
    ASSUME NEW s, tech \in {"sgx", "sev", "kvm"}
    PROVE  /\ TypeFor(s.flags) = IF tech = "kvm" THEN "ram" ELSE IF tech = "sev" THEN SevType(s) ELSE SgxClass(s)
           /\ TypeFor(s.flags) \in Types
<1>1. CASE tech = "kvm"
  BY <1>1 DEF TypeFor, Types
<1>2. CASE tech = "sev"
  <2>1. TypeFor(s.flags) = IF "cpuid" \in s.flags THEN "cpuid" ELSE IF "secrets" \in s.flags THEN "secrets" ELSE "normal"
    BY <1>2 DEF TypeFor
  <2>2. CASE "cpuid" \in s.flags
    BY <1>2, <2>1, <2>2 DEF Types, SevType
  <2>3. CASE "cpuid" \notin s.flags /\ "secrets" \in s.flags
    BY <1>2, <2>1, <2>3 DEF Types, SevType
  <2>4. CASE "cpuid" \notin s.flags /\ "secrets" \notin s.flags
    BY <1>2, <2>1, <2>4 DEF Types, SevType
  <2> QED
    BY <2>2, <2>3, <2>4
<1>3. CASE tech = "sgx"
  BY <1>3 DEF TypeFor, Types, SgxClass
<1> QED
  BY <1>1, <1>2, <1>3

\* The segment that is next, and those before it.
LEMMA MapFacts ==
    ASSUME LaunchInv, pc = "map", bld.next <= Len(segs)
    PROVE  /\ tech \in {"sgx", "sev", "kvm"} /\ Building
           /\ Len(segs) \in Nat /\ DOMAIN segs = 1..Len(segs)
           /\ bld.next \in Nat /\ bld.next \in 1..Len(segs) /\ bld.next \in DOMAIN segs
           /\ Shim.block \in Nat /\ Shim.block % Align = 0
           /\ Laid(Seg) /\ \A k \in 1..Len(segs) : Laid(segs[k])
           /\ Before \subseteq 1..Len(segs) /\ 1..bld.next = Before \cup {bld.next} /\ bld.next \notin Before
           /\ \A k \in Before : segs[k].end <= Seg.start \/ Seg.end <= segs[k].start
<1>1. TypeOK /\ SegmentsInv /\ tech # "none" /\ Building
  BY DEF LaunchInv, EarlyInv, Building
<1>2. /\ tech \in {"sgx", "sev", "kvm"}
      /\ Len(segs) \in Nat /\ DOMAIN segs = 1..Len(segs) /\ bld.next \in Nat
      /\ Shim.block \in Nat /\ Shim.block % Align = 0
      /\ \A k \in 1..Len(segs) : Laid(segs[k])
  BY <1>1, SegmentFacts DEF Laid
<1>3. bld.next \in 1..Len(segs)
  BY <1>1, <1>2 DEF TypeOK
<1>4. Before \subseteq 1..Len(segs) /\ 1..bld.next = Before \cup {bld.next} /\ bld.next \notin Before
  BY <1>2, <1>3 DEF Before
<1>5. Apart(segs)
  BY <1>1 DEF SegmentsInv
<1>6. \A k \in Before : segs[k].end <= Seg.start \/ Seg.end <= segs[k].start
  BY <1>2, <1>3, <1>4, <1>5 DEF Apart, Seg
<1>7. Laid(Seg)
  BY <1>2, <1>3 DEF Seg
<1> QED
  BY <1>1, <1>2, <1>3, <1>4, <1>6, <1>7

LEMMA LaidDiffer ==
    ASSUME NEW s, NEW t, Laid(s), Laid(t), s.end <= t.start \/ t.end <= s.start,
           NEW i \in 1..PagesOf(s), NEW k \in 1..PagesOf(t)
    PROVE  PageAt(s, i) # PageAt(t, k)
BY PagesDiffer DEF Laid

LEMMA LaidOnce ==
    ASSUME NEW s, Laid(s), NEW i \in 1..PagesOf(s), NEW k \in 1..PagesOf(s), PageAt(s, i) = PageAt(s, k)
    PROVE  i = k
BY PagesOnce DEF Laid

\* The first n pages of the next segment are added; the others only if none is missing.
LEMMA AddPages ==
    ASSUME LaunchInv, pc = "map", bld.next <= Len(segs),
           NEW n \in Nat, n <= PagesOf(Seg),
           dev'.mem = dev.mem \o Loaded(Seg, n, TypeFor(Seg.flags)),
           bld'.next = bld.next + 1, ~short' => (~short /\ n = PagesOf(Seg)),
           job' = job, tech' = tech, segs' = segs
    PROVE  PagesInv' /\ dev'.mem \in Seq(Entries)
<1>1. PICK x \in Nat : x = bld.next /\ segs[x] = Seg
  BY MapFacts DEF Seg
<1>2. PICK w : w = TypeFor(Seg.flags) /\ w \in Types
  BY MapFacts, TypeForIs
<1>3. PICK m \in Seq(Entries) : m = dev.mem
  BY DEF LaunchInv, TypeOK, Devs
<1>4. PICK e \in Seq(Entries) : e = Loaded(Seg, n, w) /\ Len(e) = n
        /\ \A i \in 1..n : e[i] = [at |-> PageAt(Seg, i), type |-> w, contents |-> Content(Seg, i)]
  BY <1>2, MapFacts, LoadedIs
<1>5. \A i \in 1..n : e[i] = Entry(Seg, i)
  BY <1>2, <1>4 DEF Entry
<1>6. PICK a \in Nat : a = Len(m) /\ DOMAIN m = 1..a
  BY LenProperties
<1>7. PICK v \in Seq(Entries) : /\ v = dev'.mem /\ DOMAIN v = 1..(a + n)
                                /\ \A i \in 1..(a + n) : v[i] = IF i <= a THEN m[i] ELSE e[i - a]
  <2>1. m \o e \in Seq(Entries) /\ Len(m \o e) = Len(m) + Len(e)
    BY ConcatProperties
  <2>2. \A i \in 1..(Len(m) + Len(e)) : (m \o e)[i] = IF i <= Len(m) THEN m[i] ELSE e[i - Len(m)]
    BY ConcatProperties
  <2>3. DOMAIN (m \o e) = 1..Len(m \o e)
    BY <2>1, LenProperties
  <2>4. dev'.mem = m \o e
    BY <1>2, <1>3, <1>4
  <2>5. Len(m) = a /\ Len(e) = n
    BY <1>4, <1>6
  <2>6. PICK v \in Seq(Entries) : v = m \o e
    BY <2>1
  <2>7. DOMAIN v = 1..(a + n) /\ \A i \in 1..(a + n) : v[i] = IF i <= a THEN m[i] ELSE e[i - a]
    BY <2>1, <2>2, <2>3, <2>5, <2>6
  <2> QED
    BY <2>4, <2>6, <2>7
<1>8. \A i \in 1..a : i \in 1..(a + n) /\ v[i] = m[i]
  <2>1. \A i \in 1..a : i \in 1..(a + n) /\ i <= a
    OBVIOUS
  <2> QED
    BY <1>7, <2>1
<1>9. ASSUME NEW i \in 1..n PROVE a + i \in 1..(a + n) /\ v[a + i] = Entry(Seg, i)
  <2>1. a + i \in 1..(a + n) /\ ~(a + i <= a) /\ (a + i) - a = i
    OBVIOUS
  <2> QED
    BY <1>5, <1>7, <2>1
<1>10. \A i \in 1..(a + n) : i \in 1..a \/ \E h \in 1..n : i = a + h
  <2>1. ASSUME NEW i \in 1..(a + n), ~(i \in 1..a) PROVE \E h \in 1..n : i = a + h
    <3>1. i - a \in 1..n /\ i = a + (i - a)
      BY <2>1
    <3> QED
      BY <3>1
  <2> QED
    BY <2>1
<1>11. PICK pages : pages = PagesOf(Seg) /\ pages \in Nat
  BY MapFacts, LaidPages
<1>12. \A i \in 1..n : i \in 1..PagesOf(Seg)
  BY <1>11
<1>13. /\ \A i \in 1..a : \E k \in Before : \E j \in 1..PagesOf(segs[k]) : m[i] = Entry(segs[k], j)
       /\ ~short => \A k \in Before : \A j \in 1..PagesOf(segs[k]) : \E i \in 1..a : m[i] = Entry(segs[k], j)
       /\ \A i, j \in 1..a : m[i].at = m[j].at => i = j
  <2>1. PagesInv /\ Building
    BY MapFacts DEF LaunchInv
  <2>2. DOMAIN dev.mem = 1..a
    BY <1>3, <1>6
  <2>3. \A i \in 1..a : \E k \in Before : \E j \in 1..PagesOf(segs[k]) : m[i] = Entry(segs[k], j)
    <3> SUFFICES ASSUME NEW i \in 1..a PROVE \E k \in Before : \E j \in 1..PagesOf(segs[k]) : m[i] = Entry(segs[k], j)
      OBVIOUS
    <3>1. i \in DOMAIN dev.mem /\ dev.mem[i] = m[i]
      BY <1>3, <2>2
    <3>2. PICK k \in Before : \E j \in 1..PagesOf(segs[k]) : dev.mem[i] = Entry(segs[k], j)
      BY <2>1, <3>1 DEF PagesInv
    <3> QED
      BY <3>1, <3>2
  <2>4. ~short => \A k \in Before : \A j \in 1..PagesOf(segs[k]) : \E i \in 1..a : m[i] = Entry(segs[k], j)
    BY <1>3, <2>1, <2>2 DEF PagesInv
  <2>5. \A i, j \in 1..a : m[i].at = m[j].at => i = j
    BY <1>3, <2>1, <2>2 DEF PagesInv
  <2> QED
    BY <2>3, <2>4, <2>5
<1>14. 1..x = Before \cup {x} /\ x \notin Before
  BY <1>1, MapFacts
<1>15. \A i \in 1..(a + n) : \E k \in 1..x : \E j \in 1..PagesOf(segs[k]) : v[i] = Entry(segs[k], j)
  <2> SUFFICES ASSUME NEW i \in 1..(a + n)
               PROVE  \E k \in 1..x : \E j \in 1..PagesOf(segs[k]) : v[i] = Entry(segs[k], j)
    OBVIOUS
  <2>1. CASE i \in 1..a
    <3>1. PICK k \in Before : \E j \in 1..PagesOf(segs[k]) : m[i] = Entry(segs[k], j)
      BY <1>13, <2>1
    <3> QED
      BY <1>8, <1>14, <2>1, <3>1
  <2>2. CASE \E h \in 1..n : i = a + h
    <3>1. PICK h \in 1..n : i = a + h
      BY <2>2
    <3>2. v[i] = Entry(segs[x], h) /\ h \in 1..PagesOf(segs[x])
      BY <1>1, <1>9, <1>12, <3>1
    <3> QED
      BY <1>14, <3>2
  <2> QED
    BY <1>10, <2>1, <2>2
<1>16. ASSUME ~short' PROVE \A k \in 1..x : \A j \in 1..PagesOf(segs[k]) : \E i \in 1..(a + n) : v[i] = Entry(segs[k], j)
  <2>1. ~short /\ n = PagesOf(Seg)
    BY <1>16
  <2> SUFFICES ASSUME NEW k \in 1..x, NEW j \in 1..PagesOf(segs[k])
               PROVE  \E i \in 1..(a + n) : v[i] = Entry(segs[k], j)
    OBVIOUS
  <2>2. CASE k \in Before
    BY <1>8, <1>13, <2>1, <2>2
  <2>3. CASE k = x
    <3>1. j \in 1..n
      BY <1>1, <2>1, <2>3
    <3> QED
      BY <1>1, <1>9, <2>3, <3>1
  <2> QED
    BY <1>14, <2>2, <2>3
<1>17. \A s, i : Entry(s, i).at = PageAt(s, i)
  BY DEF Entry
<1>18. ASSUME NEW i \in 1..a, NEW h \in 1..n PROVE v[i].at # v[a + h].at
  <2>1. PICK k \in Before : \E j \in 1..PagesOf(segs[k]) : m[i] = Entry(segs[k], j)
    BY <1>13
  <2>2. PICK j \in 1..PagesOf(segs[k]) : m[i] = Entry(segs[k], j)
    BY <2>1
  <2>3. Laid(segs[k]) /\ Laid(Seg) /\ (segs[k].end <= Seg.start \/ Seg.end <= segs[k].start)
    BY MapFacts
  <2>4. PageAt(segs[k], j) # PageAt(Seg, h)
    BY <1>12, <2>3, LaidDiffer
  <2> QED
    BY <1>8, <1>9, <1>17, <2>2, <2>4
<1>19. ASSUME NEW g \in 1..n, NEW h \in 1..n, v[a + g].at = v[a + h].at PROVE g = h
  <2>1. PageAt(Seg, g) = PageAt(Seg, h)
    BY <1>9, <1>17, <1>19
  <2> QED
    BY <1>12, <2>1, MapFacts, LaidOnce
<1>20. \A i, j \in 1..(a + n) : v[i].at = v[j].at => i = j
  <2> SUFFICES ASSUME NEW i \in 1..(a + n), NEW j \in 1..(a + n), v[i].at = v[j].at PROVE i = j
    OBVIOUS
  <2>1. CASE i \in 1..a /\ j \in 1..a
    BY <1>8, <1>13, <2>1
  <2>2. CASE i \in 1..a /\ \E h \in 1..n : j = a + h
    BY <1>18, <2>2
  <2>3. CASE j \in 1..a /\ \E h \in 1..n : i = a + h
    BY <1>18, <2>3
  <2>4. CASE (\E h \in 1..n : i = a + h) /\ (\E h \in 1..n : j = a + h)
    BY <1>19, <2>4
  <2> QED
    BY <1>10, <2>1, <2>2, <2>3, <2>4
<1>21. Before' = 1..x
  BY <1>1 DEF Before
<1>22. \A k \in 1..x : \A i : Entry(segs[k], i)' = Entry(segs[k], i)
  BY DEF Entry, TypeFor
<1>23. /\ \A i \in DOMAIN dev'.mem : \E k \in Before' : \E j \in 1..PagesOf(segs'[k]) : dev'.mem[i] = Entry(segs[k], j)'
       /\ ~short' => \A k \in Before' : \A j \in 1..PagesOf(segs'[k]) :
                        \E i \in DOMAIN dev'.mem : dev'.mem[i] = Entry(segs[k], j)'
       /\ \A i, j \in DOMAIN dev'.mem : dev'.mem[i].at = dev'.mem[j].at => i = j
  <2>1. DOMAIN dev'.mem = 1..(a + n) /\ v = dev'.mem /\ Before' = 1..x /\ segs' = segs
    BY <1>7, <1>21
  <2>2. \A i \in DOMAIN dev'.mem : \E k \in Before' : \E j \in 1..PagesOf(segs'[k]) : dev'.mem[i] = Entry(segs[k], j)'
    <3> SUFFICES ASSUME NEW i \in DOMAIN dev'.mem
                 PROVE  \E k \in Before' : \E j \in 1..PagesOf(segs'[k]) : dev'.mem[i] = Entry(segs[k], j)'
      OBVIOUS
    <3>1. PICK k \in 1..x : \E j \in 1..PagesOf(segs[k]) : v[i] = Entry(segs[k], j)
      BY <1>15, <2>1
    <3>2. PICK j \in 1..PagesOf(segs[k]) : v[i] = Entry(segs[k], j)
      BY <3>1
    <3>3. Entry(segs[k], j)' = Entry(segs[k], j) /\ k \in Before' /\ j \in 1..PagesOf(segs'[k])
      BY <1>22, <2>1
    <3> QED
      BY <2>1, <3>2, <3>3
  <2>3. ~short' => \A k \in Before' : \A j \in 1..PagesOf(segs'[k]) :
                        \E i \in DOMAIN dev'.mem : dev'.mem[i] = Entry(segs[k], j)'
    <3> SUFFICES ASSUME ~short', NEW k \in Before', NEW j \in 1..PagesOf(segs'[k])
                 PROVE  \E i \in DOMAIN dev'.mem : dev'.mem[i] = Entry(segs[k], j)'
      OBVIOUS
    <3>1. k \in 1..x /\ j \in 1..PagesOf(segs[k])
      BY <2>1
    <3>2. PICK i \in 1..(a + n) : v[i] = Entry(segs[k], j)
      BY <1>16, <3>1
    <3>3. Entry(segs[k], j)' = Entry(segs[k], j)
      BY <1>22, <3>1
    <3> QED
      BY <2>1, <3>2, <3>3
  <2>4. \A i, j \in DOMAIN dev'.mem : dev'.mem[i].at = dev'.mem[j].at => i = j
    BY <1>20, <2>1
  <2> QED
    BY <2>2, <2>3, <2>4
<1> QED
  BY <1>7, <1>23 DEF PagesInv

LEMMA NextHash ==
    ASSUME LaunchInv, pc = "map", bld.next <= Len(segs), bld'.next = bld.next + 1, segs' = segs
    PROVE  /\ FlattenSeq([k \in Before |-> SevHash(segs[k])]) \in Seq(Infos)
           /\ FlattenSeq([k \in Before |-> SevHash(segs[k])])'
                = FlattenSeq([k \in Before |-> SevHash(segs[k])]) \o SevHash(Seg)
           /\ FlattenSeq([k \in Before |-> SgxHash(segs[k])]) \in Seq(Infos)
           /\ FlattenSeq([k \in Before |-> SgxHash(segs[k])])'
                = FlattenSeq([k \in Before |-> SgxHash(segs[k])]) \o SgxHash(Seg)
<1>1. PICK n \in Nat : bld.next = n + 1 /\ n + 1 <= Len(segs) /\ Len(segs) \in Nat
  <2>1. bld.next - 1 \in Nat /\ bld.next = (bld.next - 1) + 1 /\ Len(segs) \in Nat
    BY MapFacts
  <2> QED
    BY <2>1
<1>2. Before = 1..n /\ Before' = 1..(n + 1) /\ Seg = segs[n + 1]
  BY <1>1 DEF Before, Seg
<1>3. \A k \in 1..(n + 1) : Laid(segs[k])
  BY <1>1, MapFacts
<1>4. PICK g : g = [k \in 1..(n + 1) |-> SevHash(segs[k])]
  OBVIOUS
<1>5. PICK h : h = [k \in 1..(n + 1) |-> SgxHash(segs[k])]
  OBVIOUS
<1>6. \A k \in 1..(n + 1) : g[k] = SevHash(segs[k]) /\ h[k] = SgxHash(segs[k])
  BY <1>4, <1>5
<1>7. \A k \in 1..(n + 1) : g[k] \in Seq(Infos) /\ h[k] \in Seq(Infos)
  BY <1>3, <1>6, SevHashIs, SgxHashIs
<1>8. /\ FlattenSeq([k \in 1..n |-> g[k]]) \in Seq(Infos)
      /\ FlattenSeq([k \in 1..(n + 1) |-> g[k]]) = FlattenSeq([k \in 1..n |-> g[k]]) \o g[n + 1]
  BY <1>7, FlattenNext
<1>9. /\ FlattenSeq([k \in 1..n |-> h[k]]) \in Seq(Infos)
      /\ FlattenSeq([k \in 1..(n + 1) |-> h[k]]) = FlattenSeq([k \in 1..n |-> h[k]]) \o h[n + 1]
  BY <1>7, FlattenNext
<1>10. [k \in 1..n |-> g[k]] = [k \in Before |-> SevHash(segs[k])] /\ [k \in 1..n |-> h[k]] = [k \in Before |-> SgxHash(segs[k])]
  <2>1. \A k \in 1..n : k \in 1..(n + 1)
    OBVIOUS
  <2> QED
    BY <1>2, <1>6, <2>1
<1>11. [k \in 1..(n + 1) |-> g[k]] = [k \in Before |-> SevHash(segs[k])]'
       /\ [k \in 1..(n + 1) |-> h[k]] = [k \in Before |-> SgxHash(segs[k])]'
  BY <1>2, <1>6
<1>12. g[n + 1] = SevHash(Seg) /\ h[n + 1] = SgxHash(Seg)
  <2>1. n + 1 \in 1..(n + 1)
    OBVIOUS
  <2> QED
    BY <1>2, <1>6, <2>1
<1> QED
  BY <1>8, <1>9, <1>10, <1>11, <1>12

\* What is measured of the next segment, by the firmware or for the enclave.
LEMMA AddSev ==
    ASSUME LaunchInv, pc = "map", bld.next <= Len(segs), bld'.next = bld.next + 1, segs' = segs,
           tech = "sev", tech' = tech, dev'.log = dev.log \o SevHash(Seg)
    PROVE  MeasureInv' /\ dev'.log \in Seq(Infos)
<1>1. dev.log = FlattenSeq([k \in Before |-> SevHash(segs[k])])
  BY DEF LaunchInv, MeasureInv
<1>2. dev'.log = FlattenSeq([k \in Before |-> SevHash(segs[k])])'
  BY <1>1, NextHash
<1>3. dev.log \in Seq(Infos) /\ SevHash(Seg) \in Seq(Infos)
  BY <1>1, NextHash, MapFacts, SevHashIs
<1>4. dev'.log \in Seq(Infos)
  BY <1>3, ConcatProperties
<1> QED
  BY <1>2, <1>4 DEF MeasureInv

LEMMA AddSgx ==
    ASSUME LaunchInv, pc = "map", bld.next <= Len(segs), bld'.next = bld.next + 1, segs' = segs,
           tech = "sgx", tech' = tech,
           NEW n \in Nat, n <= PagesOf(Seg), n = 0 => PagesOf(Seg) = 0,
           dev'.log = dev.log \o SubSeq(SgxHash(Seg), 1, n), bld'.hash = bld.hash \o SgxHash(Seg),
           short' = (short \/ n < PagesOf(Seg))
    PROVE  MeasureInv' /\ dev'.log \in Seq(Infos) /\ bld'.hash \in Seq(Infos)
<1>1. /\ bld.hash = FlattenSeq([k \in Before |-> SgxHash(segs[k])])
      /\ IF short THEN Len(dev.log) < Len(bld.hash) ELSE dev.log = bld.hash
      /\ \A k \in Before : PagesOf(segs[k]) > 0 => \E i \in DOMAIN dev.log : dev.log[i] = SgxHash(segs[k])[1]
  BY DEF LaunchInv, MeasureInv
<1>2. bld'.hash = FlattenSeq([k \in Before |-> SgxHash(segs[k])])'
  BY <1>1, NextHash
<1>3. PICK h \in Seq(Infos) : h = bld.hash
  BY <1>1, NextHash
<1>4. PICK g \in Seq(Infos) : g = dev.log
  BY DEF LaunchInv, TypeOK, Devs
<1>5. PICK e \in Seq(Infos), pages \in Nat : e = SgxHash(Seg) /\ pages = PagesOf(Seg) /\ Len(e) = pages
  BY MapFacts, LaidPages, SgxHashIs
<1>6. PICK c : c = SubSeq(e, 1, n)
  OBVIOUS
<1>7. c \in Seq(Infos) /\ Len(c) = n /\ (\A i \in 1..n : c[i] = e[i])
  <2>1. n <= Len(e) /\ Len(e) \in Nat /\ 1..n \subseteq 1..Len(e)
    BY <1>5
  <2>2. \A i \in 1..n : e[i] \in Infos
    BY <2>1, ElementOfSeq
  <2>3. c = [i \in 1..n |-> e[i]]
    <3>1. c = [i \in 1..(n - 1 + 1) |-> e[1 + i - 1]]
      BY <1>6
    <3>2. 1..(n - 1 + 1) = 1..n /\ \A i \in 1..n : 1 + i - 1 = i
      OBVIOUS
    <3> QED
      BY <3>1, <3>2
  <2>4. [i \in 1..n |-> e[i]] \in [1..n -> Infos]
    BY <2>2
  <2>5. c \in Seq(Infos) /\ Len(c) = n
    BY <2>3, <2>4
  <2> QED
    BY <2>3, <2>5
<1>8. n = pages => c = e
  BY <1>5, <1>7, SeqEqual
<1>9. PICK a \in Nat, b \in Nat : a = Len(g) /\ b = Len(h) /\ DOMAIN g = 1..a
  BY LenProperties
<1>10. /\ g \o c \in Seq(Infos) /\ Len(g \o c) = a + n /\ DOMAIN (g \o c) = 1..(a + n)
       /\ \A i \in 1..(a + n) : (g \o c)[i] = IF i <= a THEN g[i] ELSE c[i - a]
  <2>1. g \o c \in Seq(Infos) /\ Len(g \o c) = Len(g) + Len(c)
    BY <1>7, ConcatProperties
  <2>2. \A i \in 1..(Len(g) + Len(c)) : (g \o c)[i] = IF i <= Len(g) THEN g[i] ELSE c[i - Len(g)]
    BY <1>7, ConcatProperties
  <2>3. DOMAIN (g \o c) = 1..Len(g \o c)
    BY <2>1, LenProperties
  <2>4. Len(g) = a /\ Len(c) = n
    BY <1>7, <1>9
  <2> QED
    BY <2>1, <2>2, <2>3, <2>4
<1>11. h \o e \in Seq(Infos) /\ Len(h \o e) = b + pages
  <2>1. h \o e \in Seq(Infos) /\ Len(h \o e) = Len(h) + Len(e)
    BY ConcatProperties
  <2> QED
    BY <1>5, <1>9, <2>1
<1>12. dev'.log = g \o c /\ bld'.hash = h \o e /\ (short' <=> (short \/ n < pages)) /\ n <= pages
  BY <1>3, <1>4, <1>5, <1>6
<1>13. IF short' THEN Len(dev'.log) < Len(bld'.hash) ELSE dev'.log = bld'.hash
  <2>1. IF short THEN a < b ELSE g = h
    BY <1>1, <1>3, <1>4, <1>9
  <2>2. CASE short'
    <3>1. a + n < b + pages
      <4>1. CASE short
        BY <1>12, <2>1, <4>1
      <4>2. CASE ~short
        BY <1>9, <1>12, <2>1, <2>2, <4>2
      <4> QED
        BY <4>1, <4>2
    <3> QED
      BY <1>10, <1>11, <1>12, <2>2, <3>1
  <2>3. CASE ~short'
    <3>1. ~short /\ n = pages
      BY <1>12, <2>3
    <3> QED
      BY <1>8, <1>12, <2>1, <2>3, <3>1
  <2> QED
    BY <2>2, <2>3
<1>14. PICK x \in Nat : x = bld.next /\ Before' = Before \cup {x} /\ segs[x] = Seg
  <2>1. bld.next \in Nat /\ 1..bld.next = Before \cup {bld.next}
    BY MapFacts
  <2>2. Before' = 1..bld.next
    BY <2>1 DEF Before
  <2> QED
    BY <2>1, <2>2 DEF Seg
<1>15. \A i \in 1..a : i \in 1..(a + n) /\ (g \o c)[i] = g[i]
  <2>1. \A i \in 1..a : i \in 1..(a + n) /\ i <= a
    OBVIOUS
  <2> QED
    BY <1>10, <2>1
<1>16. ASSUME NEW k \in Before', PagesOf(segs[k]) > 0
       PROVE  \E i \in DOMAIN dev'.log : dev'.log[i] = SgxHash(segs[k])[1]
  <2>1. CASE k \in Before
    <3>1. PICK i \in 1..a : g[i] = SgxHash(segs[k])[1]
      BY <1>1, <1>4, <1>9, <1>16, <2>1
    <3> QED
      BY <1>10, <1>12, <1>15, <3>1
  <2>2. CASE k = x
    <3>1. n >= 1 /\ 1 \in 1..n
      BY <1>5, <1>14, <1>16, <2>2
    <3>2. a + 1 \in 1..(a + n) /\ ~(a + 1 <= a) /\ (a + 1) - a = 1
      BY <3>1
    <3>3. (g \o c)[a + 1] = c[1]
      BY <1>10, <3>2
    <3>4. c[1] = SgxHash(segs[k])[1]
      BY <1>5, <1>7, <1>14, <2>2, <3>1
    <3> QED
      BY <1>10, <1>12, <3>2, <3>3, <3>4
  <2> QED
    BY <1>14, <2>1, <2>2
<1> QED
  BY <1>2, <1>10, <1>11, <1>12, <1>13, <1>16 DEF MeasureInv

\* A slot is taken anew, or the last one again.
Kept(b, s) == Len(b) <= Len(s) /\ \A n \in DOMAIN b : b[n] = s[n] /\ s[n].backed
Takes(b, s, r, t) ==
    b \in Seq(Regions) /\ s \in Seq(Regions) /\ Kept(b, s) /\ r \in Regions /\ t = SetRegion(s, Len(b) + 1, r)
Taken(b, t, r) == t \in Seq(Regions) /\ Kept(b, t) /\ Len(b) + 1 <= Len(t) /\ t[Len(b) + 1] = r

LEMMA SlotTaken ==
    ASSUME NEW b, NEW s, NEW r, NEW t, Takes(b, s, r, t)
    PROVE  Taken(b, t, r)
<1>1. b \in Seq(Regions) /\ s \in Seq(Regions) /\ r \in Regions /\ t = SetRegion(s, Len(b) + 1, r)
  BY DEF Takes
<1>2. PICK x \in Nat, y \in Nat : x = Len(b) /\ y = Len(s) /\ DOMAIN b = 1..x /\ DOMAIN s = 1..y /\ x <= y
  BY LenProperties DEF Takes, Kept
<1>3. \A n \in 1..y : s[n] \in Regions
  BY <1>1, <1>2, ElementOfSeq
<1>4. \A n \in 1..x : b[n] = s[n] /\ s[n].backed
  BY <1>2 DEF Takes, Kept
<1>5. CASE x + 1 <= y
  <2>1. t = [s EXCEPT ![x + 1] = r]
    BY <1>1, <1>2, <1>5 DEF SetRegion
  <2>2. \A n \in 1..x : n \in 1..y /\ n # x + 1
    BY <1>2
  <2>3. x + 1 \in 1..y
    BY <1>5
  <2>4. s \in [1..y -> Regions]
    <3>1. s = [n \in DOMAIN s |-> s[n]]
      BY <1>1, LenProperties
    <3> QED
      BY <1>2, <1>3, <3>1
  <2>5. t \in [1..y -> Regions] /\ t[x + 1] = r /\ \A n \in 1..x : t[n] = s[n]
    BY <1>1, <2>1, <2>2, <2>3, <2>4
  <2>6. t \in Seq(Regions) /\ Len(t) = y
    BY <2>5
  <2> QED
    BY <1>2, <1>4, <1>5, <2>5, <2>6 DEF Kept, Taken
<1>6. CASE ~(x + 1 <= y)
  <2>1. t = Append(s, r) /\ x = y
    BY <1>1, <1>2, <1>6 DEF SetRegion
  <2>2. Append(s, r) \in Seq(Regions) /\ Len(Append(s, r)) = Len(s) + 1
        /\ (\A i \in 1..Len(s) : Append(s, r)[i] = s[i]) /\ Append(s, r)[Len(s) + 1] = r
    BY <1>1, AppendProperties
  <2>3. t \in Seq(Regions) /\ Len(t) = x + 1 /\ t[x + 1] = r /\ \A i \in 1..x : t[i] = s[i]
    BY <1>2, <2>1, <2>2
  <2> QED
    BY <1>2, <1>4, <2>3 DEF Kept, Taken
<1> QED
  BY <1>5, <1>6

LEMMA RegionKept ==
    ASSUME NEW b, NEW s, NEW r, NEW t, Takes(b, s, r, t), r.backed = TRUE
    PROVE  Append(b, r) \in Seq(Regions) /\ Kept(Append(b, r), t)
<1>1. Taken(b, t, r)
  BY SlotTaken
<1>2. PICK x \in Nat : x = Len(b) /\ DOMAIN b = 1..x /\ b \in Seq(Regions) /\ r \in Regions
  BY LenProperties DEF Takes
<1>3. /\ Append(b, r) \in Seq(Regions) /\ Len(Append(b, r)) = Len(b) + 1
      /\ (\A i \in 1..Len(b) : Append(b, r)[i] = b[i]) /\ Append(b, r)[Len(b) + 1] = r
  BY <1>2, AppendProperties
<1>4. PICK c \in Seq(Regions) : /\ c = Append(b, r) /\ Len(c) = x + 1 /\ DOMAIN c = 1..(x + 1)
                                /\ c[x + 1] = r /\ \A i \in 1..x : c[i] = b[i]
  BY <1>2, <1>3, LenProperties
<1>5. x + 1 <= Len(t) /\ t[x + 1] = r /\ \A n \in 1..x : b[n] = t[n] /\ t[n].backed
  BY <1>1, <1>2 DEF Taken, Kept
<1>6. \A n \in 1..(x + 1) : n \in 1..x \/ n = x + 1
  BY <1>2
<1>7. \A n \in 1..(x + 1) : c[n] = t[n] /\ t[n].backed
  BY <1>4, <1>5, <1>6
<1>8. Kept(c, t)
  BY <1>4, <1>5, <1>7 DEF Kept
<1> QED
  BY <1>4, <1>8

LEMMA Multiple ==
    ASSUME NEW b \in Nat, b % Align = 0, NEW n \in Nat
    PROVE  n * b \in Nat /\ (n * b) % Align = 0 /\ AlignUp(n * b) = n * b
<1>1. PICK A \in Nat \ {0} : A = Align
  BY PageIs
<1>2. PICK q \in Nat : b = A * q + 0
  <2>1. b \div A \in Nat /\ b = A * (b \div A) + (b % A)
    BY DivMod
  <2> QED
    BY <1>1, <2>1
<1>3. PICK z \in Nat : z = q * n
  OBVIOUS
<1>4. n * b = A * z
  <2>1. n * (A * q) = A * (q * n)
    OBVIOUS
  <2> QED
    BY <1>2, <1>3, <2>1
<1>5. A * z \in Nat /\ A - 1 \in Nat /\ A - 1 < A
  OBVIOUS
<1>6. (A * z + 0) % A = 0
  BY DivUnique
<1>7. (A * z + (A - 1)) \div A = z
  BY <1>5, DivUnique
<1>8. n * b + Align - 1 = A * z + (A - 1) /\ A * z + 0 = A * z /\ z * A = A * z
  BY <1>1, <1>4, <1>5
<1>9. AlignUp(n * b) = n * b
  BY <1>1, <1>4, <1>7, <1>8 DEF AlignUp
<1> QED
  BY <1>1, <1>4, <1>5, <1>6, <1>8, <1>9

LEMMA BlocksAre ==
    ASSUME NEW s, Laid(s), NEW b \in Nat, b % Align = 0,
           NEW a \in {s.start + z : z \in BlockStarts(s.end - s.start, b)}
    PROVE  /\ a \in Nat /\ a + b <= s.end
           /\ \E n \in 0..(s.end - s.start) : a = s.start + n * b
<1>1. PICK x \in Nat, y \in Nat : x = s.start /\ y = s.end
  BY LaidPages
<1>2. PICK z \in BlockStarts(y - x, b) : a = x + z
  BY <1>1
<1>3. PICK n \in 0..(y - x) : AlignUp(n * b) + b <= y - x /\ z = AlignUp(n * b)
  BY <1>2 DEF BlockStarts
<1>4. z = n * b /\ n * b \in Nat /\ n \in Nat
  BY <1>3, Multiple
<1> QED
  BY <1>1, <1>2, <1>3, <1>4

\* A segment's blocks, if any, are added to those there are.
LEMMA AddBlocks ==
    ASSUME LaunchInv, pc = "map", bld.next <= Len(segs), bld'.next = bld.next + 1,
           segs' = segs, job' = job, tech' = tech,
           bld'.sallyports = bld.sallyports \/ bld'.sallyports = bld.sallyports \cup Blocks(Seg)
    PROVE  BlocksInv' /\ bld'.sallyports \in SUBSET Nat
<1>1. BlocksInv /\ Building /\ bld.sallyports \in SUBSET Nat
  BY MapFacts DEF LaunchInv, TypeOK, Builders
<1>2. Before \subseteq Before' /\ bld.next \in Before'
  <2>1. bld.next \in Nat /\ 1..bld.next = Before \cup {bld.next}
    BY MapFacts
  <2> QED
    BY <2>1 DEF Before
<1>3. PICK b \in Nat : b = Shim.block /\ b % Align = 0 /\ Shim' = Shim
  BY MapFacts DEF Shim
<1>4. ASSUME NEW a \in Blocks(Seg)
      PROVE  /\ a \in Nat /\ "sallyport" \in Seg.flags /\ a + b <= Seg.end
             /\ \E n \in 0..(Seg.end - Seg.start) : a = Seg.start + n * b
  <2>1. "sallyport" \in Seg.flags /\ a \in {Seg.start + z : z \in BlockStarts(Seg.end - Seg.start, b)}
    BY <1>3 DEF Blocks
  <2>2. PICK s : s = Seg /\ Laid(s)
    BY MapFacts
  <2>3. a \in {s.start + z : z \in BlockStarts(s.end - s.start, b)}
    BY <2>1, <2>2
  <2>4. /\ a \in Nat /\ a + b <= s.end
        /\ \E n \in 0..(s.end - s.start) : a = s.start + n * b
    BY <1>3, <2>2, <2>3, BlocksAre
  <2> QED
    BY <2>1, <2>2, <2>4
<1>5. ASSUME NEW a \in bld.sallyports \cup Blocks(Seg)
      PROVE  \E k \in Before' : /\ "sallyport" \in segs[k].flags /\ a + b <= segs[k].end
                                /\ \E n \in 0..(segs[k].end - segs[k].start) : a = segs[k].start + n * b
  <2>1. CASE a \in bld.sallyports
    BY <1>1, <1>2, <1>3, <2>1 DEF BlocksInv
  <2>2. CASE a \in Blocks(Seg)
    <3>1. segs[bld.next] = Seg
      BY DEF Seg
    <3> QED
      BY <1>2, <1>4, <2>2, <3>1
  <2> QED
    BY <2>1, <2>2
<1>6. bld'.sallyports \in SUBSET Nat
  BY <1>1, <1>4
<1> QED
  BY <1>3, <1>5, <1>6 DEF BlocksInv

\* The threads' pages are those of the segments for them.
LEMMA AddTcs ==
    ASSUME LaunchInv, pc = "map", bld.next <= Len(segs), bld'.next = bld.next + 1,
           segs' = segs, tech' = tech, ~short' => ~short,
           bld'.tcs = IF "tcs" \in Seg.flags THEN bld.tcs \cup {PageAt(Seg, i) : i \in 1..PagesOf(Seg)} ELSE bld.tcs
    PROVE  TcsInv' /\ bld'.tcs \in SUBSET Nat
<1>1. TcsInv /\ Building /\ bld.tcs \in SUBSET Nat
  BY MapFacts DEF LaunchInv, TypeOK, Builders
<1>2. bld'.tcs \in SUBSET Nat
  BY <1>1, MapFacts, LaidPages
<1> DEFINE T(B) == UNION {{PageAt(segs[k], n) : n \in 1..PagesOf(segs[k])} : k \in {h \in B : "tcs" \in segs[h].flags}}
<1>3. PICK x : x = bld.next /\ segs[x] = Seg /\ Before' = Before \cup {x}
  <2>1. bld.next \in Nat /\ 1..bld.next = Before \cup {bld.next}
    BY MapFacts
  <2>2. Before' = 1..bld.next
    BY <2>1 DEF Before
  <2> QED
    BY <2>1, <2>2 DEF Seg
<1>4. T(Before \cup {x}) = IF "tcs" \in Seg.flags THEN T(Before) \cup {PageAt(Seg, i) : i \in 1..PagesOf(Seg)} ELSE T(Before)
  <2>1. CASE "tcs" \in Seg.flags
    <3>1. {h \in Before \cup {x} : "tcs" \in segs[h].flags} = {h \in Before : "tcs" \in segs[h].flags} \cup {x}
      BY <1>3, <2>1
    <3> QED
      BY <1>3, <2>1, <3>1
  <2>2. CASE "tcs" \notin Seg.flags
    <3>1. {h \in Before \cup {x} : "tcs" \in segs[h].flags} = {h \in Before : "tcs" \in segs[h].flags}
      BY <1>3, <2>2
    <3> QED
      BY <2>2, <3>1
  <2> QED
    BY <2>1, <2>2
<1>5. ASSUME tech = "sgx", ~short' PROVE bld'.tcs = T(Before \cup {x})
  <2>1. bld.tcs = T(Before)
    BY <1>1, <1>5 DEF TcsInv
  <2> HIDE DEF T
  <2> QED
    BY <1>4, <2>1
<1> QED
  BY <1>2, <1>3, <1>5 DEF TcsInv
-----------------------------------------------------------------------------
(* Mapping a segment.                                                      *)

LEMMA MapKeeps ==
    ASSUME LaunchInv, pc = "map", bld.next <= Len(segs), pc' = "map",
           UNCHANGED <<job, tech, why, retry, segs, balloons>>,
           dev' \in Devs, bld' \in Builders, bld'.next = bld.next + 1, short' \in BOOLEAN,
           short' => tech = "sgx",
           PagesInv', MeasureInv', RegionsInv', BlocksInv', TcsInv'
    PROVE  LaunchInv'
<1>1. why = "none" /\ tech # "none" /\ tech # "nil"
  BY DEF LaunchInv, EarlyInv
<1>2. TypeOK'
  <2>1. bld'.next \in 1..(Len(segs) + 1)
    BY MapFacts
  <2> QED
    BY <2>1 DEF LaunchInv, TypeOK
<1>3. EarlyInv'
  BY <1>1 DEF EarlyInv, Early
<1>4. SegmentsInv'
  <2>1. Building /\ SegmentsInv /\ Shim' = Shim
    BY MapFacts DEF LaunchInv, Shim
  <2> QED
    BY <2>1 DEF SegmentsInv
<1>5. RunningInv' /\ SignedKeepsStart'
  BY <1>1 DEF RunningInv, SignedKeepsStart
<1> QED
  BY <1>2, <1>3, <1>4, <1>5 DEF LaunchInv

LEMMA DevIs == ASSUME NEW d \in Devs PROVE d.slots \in Seq(Regions) /\ d.mem \in Seq(Entries) /\ d.log \in Seq(Infos)
BY DEF Devs

LEMMA BuilderIs ==
    ASSUME NEW b \in Builders
    PROVE  /\ b.regions \in Seq(Regions) /\ b.sallyports \in SUBSET Nat /\ b.hash \in Seq(Infos)
           /\ b.tcs \in SUBSET Nat /\ b.next \in Nat
BY DEF Builders

LEMMA LoadedNothing == ASSUME NEW s, NEW type PROVE Loaded(s, 0, type) = <<>>
BY DEF Loaded

LEMMA MapNothingKeeps == ASSUME LaunchInv, MapNothing PROVE LaunchInv'
<1>1. /\ pc = "map" /\ bld.next <= Len(segs) /\ PagesOf(Seg) = 0 /\ pc' = "map" /\ dev' = dev /\ short' = short
      /\ job' = job /\ tech' = tech /\ why' = why /\ retry' = retry /\ segs' = segs /\ balloons' = balloons
      /\ bld' = [bld EXCEPT !.next = @ + 1]
  BY DEF MapNothing, Goes
<1>2. dev \in Devs /\ bld \in Builders /\ short \in BOOLEAN
  BY DEF LaunchInv, TypeOK
<1>3. /\ bld'.next = bld.next + 1 /\ bld' \in Builders /\ bld'.regions = bld.regions
      /\ bld'.sallyports = bld.sallyports /\ bld'.hash = bld.hash /\ bld'.tcs = bld.tcs
  <2>1. PICK n \in Nat : n = bld.next + 1
    BY MapFacts, <1>1
  <2>2. bld' = [bld EXCEPT !.next = n]
    BY <1>1, <2>1
  <2>3. PICK R, I : R = Seq(Regions) /\ I = Seq(Infos)
    OBVIOUS
  <2>4. Builders = [regions : R, sallyports : SUBSET Nat, hash : I, tcs : SUBSET Nat, next : Nat]
    BY <2>3 DEF Builders
  <2> QED
    BY <1>2, <2>1, <2>2, <2>4
<1>4. dev.mem \in Seq(Entries) /\ dev.log \in Seq(Infos) /\ bld.hash \in Seq(Infos)
  BY <1>2, DevIs, BuilderIs
<1>5. dev.mem \o <<>> = dev.mem /\ dev.log \o <<>> = dev.log /\ bld.hash \o <<>> = bld.hash
  BY <1>4, ConcatEmptySeq
<1>6. PagesInv'
  <2>1. PICK n \in Nat : n = 0
    OBVIOUS
  <2>2. dev'.mem = dev.mem \o Loaded(Seg, n, TypeFor(Seg.flags))
    BY <1>1, <1>5, <2>1, LoadedNothing
  <2>3. n <= PagesOf(Seg) /\ (~short' => (~short /\ n = PagesOf(Seg)))
    BY <1>1, <2>1
  <2> QED
    BY <1>1, <1>3, <2>2, <2>3, AddPages
<1>7. MeasureInv'
  <2>1. CASE tech = "sev"
    <3>1. SevHash(Seg) = <<>>
      BY <1>1, MapFacts, SevHashIs
    <3> QED
      BY <1>1, <1>3, <1>5, <2>1, <3>1, AddSev
  <2>2. CASE tech = "sgx"
    <3>1. SgxHash(Seg) = <<>>
      <4>1. SgxHash(Seg) \in Seq(Infos) /\ Len(SgxHash(Seg)) = 0
        BY <1>1, MapFacts, SgxHashIs
      <4> QED
        BY <4>1, EmptySeq
    <3>2. PICK n \in Nat : n = 0
      OBVIOUS
    <3>3. SubSeq(SgxHash(Seg), 1, n) = <<>>
      BY <3>1, <3>2
    <3>4. dev'.log = dev.log \o SubSeq(SgxHash(Seg), 1, n) /\ bld'.hash = bld.hash \o SgxHash(Seg)
      BY <1>1, <1>3, <1>5, <3>1, <3>3
    <3>5. short' = (short \/ n < PagesOf(Seg))
      BY <1>1, <1>2, <3>2
    <3>6. n <= PagesOf(Seg) /\ (n = 0 => PagesOf(Seg) = 0)
      BY <1>1, <3>2
    <3> QED
      BY <1>1, <1>3, <2>2, <3>4, <3>5, <3>6, AddSgx
  <2>3. CASE tech \notin {"sev", "sgx"}
    BY <1>1, <2>3 DEF MeasureInv
  <2> QED
    BY <2>1, <2>2, <2>3
<1>8. RegionsInv'
  <2>1. RegionsInv /\ Building
    BY <1>1, MapFacts DEF LaunchInv
  <2> QED
    BY <1>1, <1>3, <2>1 DEF RegionsInv
<1>9. BlocksInv'
  BY <1>1, <1>3, AddBlocks
<1>10. TcsInv'
  <2>1. bld'.tcs = IF "tcs" \in Seg.flags THEN bld.tcs \cup {PageAt(Seg, i) : i \in 1..PagesOf(Seg)} ELSE bld.tcs
    <3>1. {PageAt(Seg, i) : i \in 1..PagesOf(Seg)} = {}
      BY <1>1
    <3> QED
      BY <1>3, <3>1
  <2> QED
    BY <1>1, <1>3, <2>1, AddTcs
<1>11. short' => tech = "sgx"
  BY <1>1 DEF LaunchInv, EarlyInv
<1> QED
  BY <1>1, <1>2, <1>3, <1>6, <1>7, <1>8, <1>9, <1>10, <1>11, MapKeeps

\* What a builder over KVM hands on of a segment.
Hands(S, M, G) ==
    /\ S = SetRegion(dev.slots, Len(bld.regions) + 1, Region(Seg))
    /\ M = dev.mem \o Loaded(Seg, PagesOf(Seg), TypeFor(Seg.flags))
    /\ G \in Seq(Infos) /\ (tech = "sev" => G = dev.log \o SevHash(Seg))
    /\ dev' = [dev EXCEPT !.slots = S, !.mem = M, !.log = G]
    /\ bld' = Mapped(Seg) /\ Goes("map") /\ retry' = retry

LEMMA HandedKeeps ==
    ASSUME LaunchInv, pc = "map", bld.next <= Len(segs), tech \in {"kvm", "sev"}, NEW S, NEW M, NEW G, Hands(S, M, G)
    PROVE  LaunchInv'
<1>1. /\ pc' = "map" /\ short' = short /\ UNCHANGED <<job, tech, why, retry, segs, balloons>>
      /\ job' = job /\ tech' = tech /\ segs' = segs
  BY DEF Hands, Goes
<1>2. dev \in Devs /\ bld \in Builders /\ short \in BOOLEAN /\ RegionsInv /\ Building /\ Laid(Seg) /\ tech # "sgx"
  BY MapFacts DEF LaunchInv, TypeOK
<1>3. PICK r \in Regions : r = Region(Seg) /\ r.backed = TRUE
  <2>1. PICK f \in Nat, l \in Nat : Whole(Seg, f, l) /\ f <= l
    BY <1>2 DEF Laid
  <2>2. PICK x \in Nat, y \in Nat : x = Seg.start /\ y = Seg.end
    BY <1>2, LaidPages
  <2>3. x <= y
    <3>1. PICK P \in Nat \ {0}, d \in Nat : P = Page /\ l = f + d
      <4>1. l - f \in Nat /\ l = f + (l - f)
        BY <2>1
      <4> QED
        BY <4>1, PageIs
    <3>2. x = P * f /\ y = P * l
      BY <2>1, <2>2, <3>1 DEF Whole
    <3>3. P * l = P * f + P * d /\ P * f \in Nat /\ P * d \in Nat
      BY <3>1
    <3> QED
      BY <3>2, <3>3
  <2>4. PICK z \in Nat : z = y - x
    BY <2>3
  <2>5. Region(Seg) = [gpa |-> x, size |-> z, backed |-> TRUE]
    BY <2>2, <2>4 DEF Region
  <2>6. [gpa |-> x, size |-> z, backed |-> TRUE] \in Regions
    BY DEF Regions
  <2> QED
    BY <2>5, <2>6
<1>4. PICK b \in Seq(Regions), s \in Seq(Regions) : b = bld.regions /\ s = dev.slots
  BY <1>2, DevIs, BuilderIs
<1>5. Takes(b, s, r, S)
  BY <1>2, <1>3, <1>4 DEF RegionsInv, Takes, Kept, Hands
<1>6. PICK c \in Seq(Regions) : c = Append(bld.regions, Region(Seg)) /\ Kept(c, S)
  BY <1>3, <1>4, <1>5, RegionKept
<1>7. S \in Seq(Regions)
  BY <1>5, SlotTaken DEF Taken
<1>8. PICK n \in Nat : n = PagesOf(Seg)
  BY <1>2, LaidPages
<1>9. PICK m \in Seq(Entries) : m = dev.mem
  BY <1>2, DevIs
<1>10. M \in Seq(Entries)
  <2>1. n <= PagesOf(Seg) /\ TypeFor(Seg.flags) \in Types
    BY <1>8, MapFacts, TypeForIs
  <2>2. PICK e \in Seq(Entries) : e = Loaded(Seg, n, TypeFor(Seg.flags))
    BY <1>2, <2>1, LoadedIs
  <2>3. m \o e \in Seq(Entries)
    BY ConcatProperties
  <2> QED
    BY <1>8, <1>9, <2>2, <2>3 DEF Hands
<1>11. dev' \in Devs /\ dev'.slots = S /\ dev'.mem = M /\ dev'.log = G
  <2>1. PICK R, T, I : R = Seq(Regions) /\ T = Seq(Entries) /\ I = Seq(Infos) /\ S \in R /\ M \in T /\ G \in I
    BY <1>7, <1>10 DEF Hands
  <2>2. Devs = [state : {"none", "vm", "snp", "started", "created", "running"}, slots : R, mem : T, log : I, vcpus : {0, 1}]
    BY <2>1 DEF Devs
  <2>3. dev' = [dev EXCEPT !.slots = S, !.mem = M, !.log = G]
    BY DEF Hands
  <2> QED
    BY <1>2, <2>1, <2>2, <2>3
<1>12. PICK B \in SUBSET Nat : B = bld.sallyports \cup Blocks(Seg)
  <2>1. ASSUME NEW a \in Blocks(Seg) PROVE a \in Nat
    <3>1. PICK t : t = Seg /\ Laid(t)
      BY <1>2
    <3>2. PICK k \in Nat : k = Shim.block /\ k % Align = 0
      BY MapFacts
    <3>3. a \in {t.start + z : z \in BlockStarts(t.end - t.start, k)}
      BY <3>1, <3>2 DEF Blocks
    <3> QED
      BY <3>1, <3>2, <3>3, BlocksAre
  <2>2. bld.sallyports \in SUBSET Nat
    BY <1>2, BuilderIs
  <2> QED
    BY <2>1, <2>2
<1>13. PICK x \in Nat : x = bld.next + 1
  BY MapFacts
<1>14. bld' = [bld EXCEPT !.next = x, !.regions = c, !.sallyports = B]
  BY <1>6, <1>12, <1>13 DEF Mapped, Hands
<1>15. /\ bld' \in Builders /\ bld'.next = bld.next + 1 /\ bld'.regions = c
       /\ bld'.sallyports = bld.sallyports \cup Blocks(Seg)
  <2>1. PICK R, I : R = Seq(Regions) /\ I = Seq(Infos) /\ c \in R
    OBVIOUS
  <2>2. Builders = [regions : R, sallyports : SUBSET Nat, hash : I, tcs : SUBSET Nat, next : Nat]
    BY <2>1 DEF Builders
  <2> QED
    BY <1>2, <1>12, <1>13, <1>14, <2>1, <2>2
<1>16. PagesInv'
  <2>1. n <= PagesOf(Seg) /\ (~short' => (~short /\ n = PagesOf(Seg)))
    BY <1>1, <1>2, <1>8
  <2>2. dev'.mem = dev.mem \o Loaded(Seg, n, TypeFor(Seg.flags))
    BY <1>8, <1>11 DEF Hands
  <2> QED
    BY <1>1, <1>15, <2>1, <2>2, AddPages
<1>17. MeasureInv'
  <2>1. CASE tech = "sev"
    <3>1. dev'.log = dev.log \o SevHash(Seg)
      BY <1>11, <2>1 DEF Hands
    <3> QED
      BY <1>1, <1>15, <2>1, <3>1, AddSev
  <2>2. CASE tech = "kvm"
    BY <1>1, <2>2 DEF MeasureInv
  <2> QED
    BY <2>1, <2>2
<1>18. RegionsInv'
  BY <1>6, <1>11, <1>15 DEF RegionsInv, Kept
<1>19. BlocksInv'
  BY <1>1, <1>15, AddBlocks
<1>20. TcsInv'
  BY <1>1, <1>2 DEF TcsInv
<1>21. short' => tech = "sgx"
  BY <1>1 DEF LaunchInv, EarlyInv
<1> QED
  BY <1>1, <1>2, <1>11, <1>15, <1>16, <1>17, <1>18, <1>19, <1>20, <1>21, MapKeeps

LEMMA MapKvmKeeps == ASSUME LaunchInv, MapKvm PROVE LaunchInv'
<1>1. pc = "map" /\ tech = "kvm" /\ bld.next <= Len(segs)
  BY DEF MapKvm
<1>2. CASE Fail("map")
  BY <1>2, FailKeeps DEF Reasons
<1>3. CASE /\ dev' = [dev EXCEPT !.slots = SetRegion(@, Len(bld.regions) + 1, Region(Seg)),
                                !.mem = @ \o Loaded(Seg, PagesOf(Seg), "ram")]
           /\ bld' = Mapped(Seg) /\ Goes("map") /\ retry' = retry
  <2>1. PICK S, M, G : /\ S = SetRegion(dev.slots, Len(bld.regions) + 1, Region(Seg))
                       /\ M = dev.mem \o Loaded(Seg, PagesOf(Seg), TypeFor(Seg.flags)) /\ G = dev.log
    OBVIOUS
  <2>2. TypeFor(Seg.flags) = "ram"
    BY <1>1, TypeForIs
  <2>3. dev' = [dev EXCEPT !.slots = S, !.mem = M]
    BY <1>3, <2>1, <2>2
  <2>4. dev \in Devs /\ G \in Seq(Infos)
    BY <2>1, DevIs DEF LaunchInv, TypeOK
  <2>5. dev' = [dev EXCEPT !.slots = S, !.mem = M, !.log = G]
    <3>1. PICK R, T, I : R = Seq(Regions) /\ T = Seq(Entries) /\ I = Seq(Infos)
      OBVIOUS
    <3>2. Devs = [state : {"none", "vm", "snp", "started", "created", "running"}, slots : R, mem : T, log : I, vcpus : {0, 1}]
      BY <3>1 DEF Devs
    <3> QED
      BY <2>1, <2>3, <2>4, <3>2
  <2> QED
    <3>1. Hands(S, M, G)
      BY <1>1, <1>3, <2>1, <2>4, <2>5 DEF Hands
    <3> QED
      BY <1>1, <3>1, HandedKeeps
<1> QED
  BY <1>2, <1>3 DEF MapKvm

LEMMA MapSevKeeps == ASSUME LaunchInv, MapSev PROVE LaunchInv'
<1>1. pc = "map" /\ tech = "sev" /\ bld.next <= Len(segs) /\ PagesOf(Seg) > 0
  BY DEF MapSev
<1>2. CASE \E reason \in {"map", "cpuid", "assert"} : Fail(reason)
  BY <1>2, FailKeeps DEF Reasons
<1>3. CASE /\ SevType(Seg) = "normal" \/ PagesOf(Seg) = 1
           /\ dev' = SevUpdated(Seg) /\ bld' = Mapped(Seg) /\ Goes("map") /\ retry' = retry
  <2>1. PICK S, M, G : /\ S = SetRegion(dev.slots, Len(bld.regions) + 1, Region(Seg))
                       /\ M = dev.mem \o Loaded(Seg, PagesOf(Seg), TypeFor(Seg.flags)) /\ G = dev.log \o FirmwareLog(Seg)
    OBVIOUS
  <2>2. TypeFor(Seg.flags) = SevType(Seg)
    BY <1>1, TypeForIs
  <2>3. dev' = [dev EXCEPT !.slots = S, !.mem = M, !.log = G]
    BY <1>3, <2>1, <2>2 DEF SevUpdated
  <2>4. FirmwareLog(Seg) = SevHash(Seg) /\ SevHash(Seg) \in Seq(Infos)
    BY <1>1, <1>3, MapFacts, SevHashIs
  <2>5. dev.log \in Seq(Infos)
    BY DevIs DEF LaunchInv, TypeOK
  <2>6. G \in Seq(Infos) /\ G = dev.log \o SevHash(Seg)
    BY <2>1, <2>4, <2>5, ConcatProperties
  <2> QED
    <3>1. Hands(S, M, G)
      BY <1>3, <2>1, <2>3, <2>6 DEF Hands
    <3> QED
      BY <1>1, <3>1, HandedKeeps
<1> QED
  BY <1>2, <1>3 DEF MapSev

\* Some of a segment's pages are added, and all of it is hashed.
LEMMA MapSgxKeeps == ASSUME LaunchInv, MapSgx PROVE LaunchInv'
<1>1. pc = "map" /\ tech = "sgx" /\ bld.next <= Len(segs) /\ PagesOf(Seg) > 0
  BY DEF MapSgx
<1>2. CASE Fail("map")
  BY <1>2, FailKeeps DEF Reasons
<1>3. ASSUME NEW n \in 1..PagesOf(Seg), AddSome(n)
      PROVE  LaunchInv'
  <2>1. /\ pc' = "map" /\ UNCHANGED <<job, tech, why, retry, segs, balloons>>
        /\ job' = job /\ tech' = tech /\ segs' = segs
    BY <1>1, <1>3 DEF AddSome
  <2>2. dev \in Devs /\ bld \in Builders /\ short \in BOOLEAN /\ Laid(Seg)
    BY <1>1, MapFacts DEF LaunchInv, TypeOK
  <2>3. n \in Nat /\ n <= PagesOf(Seg) /\ (n = 0 => PagesOf(Seg) = 0) /\ PagesOf(Seg) \in Nat
    BY <2>2, LaidPages
  <2>4. TypeFor(Seg.flags) = SgxClass(Seg) /\ (SgxClass(Seg) = "tcs" <=> "tcs" \in Seg.flags)
    BY <1>1, TypeForIs DEF SgxClass
  <2>5. PICK M, G : M = dev.mem \o Loaded(Seg, n, SgxClass(Seg)) /\ G = dev.log \o SubSeq(SgxHash(Seg), 1, n)
    OBVIOUS
  <2>6. PICK H, T : /\ H = bld.hash \o SgxHash(Seg)
                    /\ T = IF SgxClass(Seg) = "tcs" THEN bld.tcs \cup {PageAt(Seg, i) : i \in 1..PagesOf(Seg)} ELSE bld.tcs
    OBVIOUS
  <2>7. PICK x \in Nat : x = bld.next + 1
    BY <1>1, MapFacts
  <2>8. dev' = [dev EXCEPT !.mem = M, !.log = G]
    BY <1>3, <2>5 DEF AddSome
  <2>9. bld' = [bld EXCEPT !.next = x, !.hash = H, !.tcs = T]
    BY <1>3, <2>6, <2>7 DEF AddSome
  <2>10. dev'.mem = M /\ dev'.log = G /\ dev'.slots = dev.slots
    BY <2>2, <2>8 DEF Devs
  <2>11. /\ bld'.next = bld.next + 1 /\ bld'.hash = H /\ bld'.tcs = T
         /\ bld'.sallyports = bld.sallyports /\ bld'.regions = bld.regions
    BY <2>2, <2>7, <2>9 DEF Builders
  <2>12. PagesInv' /\ dev'.mem \in Seq(Entries)
    <3>1. ~short' => (~short /\ n = PagesOf(Seg))
      <4>1. short' <=> (short \/ n < PagesOf(Seg))
        BY <1>3 DEF AddSome
      <4> QED
        BY <2>3, <4>1
    <3>2. dev'.mem = dev.mem \o Loaded(Seg, n, TypeFor(Seg.flags))
      BY <2>4, <2>5, <2>10
    <3> QED
      BY <1>1, <2>1, <2>3, <2>11, <3>1, <3>2, AddPages
  <2>13. MeasureInv' /\ dev'.log \in Seq(Infos) /\ bld'.hash \in Seq(Infos)
    <3>1. dev'.log = dev.log \o SubSeq(SgxHash(Seg), 1, n) /\ bld'.hash = bld.hash \o SgxHash(Seg)
      BY <2>5, <2>6, <2>10, <2>11
    <3> QED
      BY <1>1, <1>3, <2>1, <2>3, <2>11, <3>1, AddSgx DEF AddSome
  <2>14. RegionsInv'
    BY <1>1, <2>1 DEF RegionsInv
  <2>15. BlocksInv'
    BY <1>1, <2>1, <2>11, AddBlocks
  <2>16. TcsInv' /\ bld'.tcs \in SUBSET Nat
    <3>1. bld'.tcs = IF "tcs" \in Seg.flags THEN bld.tcs \cup {PageAt(Seg, i) : i \in 1..PagesOf(Seg)} ELSE bld.tcs
      BY <2>4, <2>6, <2>11
    <3>2. ~short' => ~short
      BY <1>3 DEF AddSome
    <3> QED
      BY <1>1, <2>1, <2>11, <3>1, <3>2, AddTcs
  <2>17. dev' \in Devs
    <3>1. PICK R, E, I : R = Seq(Regions) /\ E = Seq(Entries) /\ I = Seq(Infos) /\ M \in E /\ G \in I
      BY <2>10, <2>12, <2>13
    <3>2. Devs = [state : {"none", "vm", "snp", "started", "created", "running"}, slots : R, mem : E, log : I, vcpus : {0, 1}]
      BY <3>1 DEF Devs
    <3> QED
      BY <2>2, <2>8, <3>1, <3>2
  <2>18. bld' \in Builders
    <3>1. PICK R, I : R = Seq(Regions) /\ I = Seq(Infos) /\ H \in I
      BY <2>11, <2>13
    <3>2. Builders = [regions : R, sallyports : SUBSET Nat, hash : I, tcs : SUBSET Nat, next : Nat]
      BY <3>1 DEF Builders
    <3>3. T \in SUBSET Nat
      BY <2>11, <2>16
    <3> QED
      BY <2>2, <2>7, <2>9, <3>1, <3>2, <3>3
  <2>19. short' \in BOOLEAN
    BY <1>3 DEF AddSome
  <2> QED
    BY <1>1, <2>1, <2>11, <2>12, <2>13, <2>14, <2>15, <2>16, <2>17, <2>18, <2>19, MapKeeps
<1> QED
  BY <1>1, <1>2, <1>3 DEF MapSgx
-----------------------------------------------------------------------------
(* The keep is made.                                                       *)

LEMMA DoneFacts ==
    ASSUME LaunchInv, Done
    PROVE  /\ tech \in {"sgx", "sev", "kvm"} /\ Building /\ pc = "map" /\ Len(segs) \in Nat
           /\ bld.next = Len(segs) + 1 /\ Before = 1..Len(segs) /\ Before = DOMAIN segs
           /\ segs = AllSegments(Shim, job.exec) /\ LoadError(Shim, job.exec) = "none"
           /\ IsBinary(Shim) /\ IsExecutable(job.exec, job.shim) /\ IsBinary(job.exec)
           /\ \A k \in 1..Len(segs) : Laid(segs[k])
<1>1. TypeOK /\ SegmentsInv /\ tech # "none" /\ Building /\ pc = "map" /\ bld.next > Len(segs)
  BY DEF LaunchInv, EarlyInv, Building, Done
<1>2. /\ tech \in {"sgx", "sev", "kvm"}
      /\ Len(segs) \in Nat /\ DOMAIN segs = 1..Len(segs) /\ bld.next \in Nat
      /\ \A k \in 1..Len(segs) : Laid(segs[k])
  BY <1>1, SegmentFacts DEF Laid
<1>3. bld.next = Len(segs) + 1
  BY <1>1, <1>2 DEF TypeOK
<1>4. Before = 1..Len(segs)
  BY <1>2, <1>3 DEF Before
<1>5. IsBinary(Shim) /\ IsExecutable(job.exec, job.shim) /\ IsBinary(job.exec)
  BY <1>1, <1>2, JobIs DEF Shim, TypeOK
<1> QED
  BY <1>1, <1>2, <1>3, <1>4, <1>5 DEF SegmentsInv

LEMMA RunKeeps ==
    ASSUME LaunchInv, Done, Running, dev' \in Devs, dev'.slots = dev.slots, dev'.mem = dev.mem,
           IF tech = "sgx" THEN ~short ELSE bld.sallyports # {}
    PROVE  LaunchInv'
<1>1. /\ pc' = "running" /\ bld' = bld /\ short' = short
      /\ UNCHANGED <<job, tech, why, retry, segs, balloons>>
  BY DEF Running, Goes
<1>2. why = "none" /\ tech \in {"sgx", "sev", "kvm"} /\ Building /\ bld.next = Len(segs) + 1
  BY DoneFacts DEF LaunchInv, EarlyInv
<1>3. Before' = Before /\ Shim' = Shim
  BY <1>1 DEF Before, Shim
<1>4. TypeOK'
  BY <1>1 DEF LaunchInv, TypeOK
<1>5. EarlyInv' /\ SignedKeepsStart'
  BY <1>1, <1>2 DEF LaunchInv, EarlyInv, Early, SignedKeepsStart
<1>6. SegmentsInv'
  BY <1>1, <1>2, <1>3 DEF LaunchInv, SegmentsInv
<1>7. PagesInv'
  <2>1. PagesInv
    BY DEF LaunchInv
  <2> QED
    BY <1>1, <1>2, <1>3, <2>1 DEF PagesInv, Entry, TypeFor
<1>8. MeasureInv'
  BY <1>1 DEF MeasureInv
<1>9. RegionsInv'
  BY <1>1, <1>2 DEF LaunchInv, RegionsInv
<1>10. BlocksInv'
  BY <1>1, <1>2, <1>3 DEF LaunchInv, BlocksInv
<1>11. TcsInv'
  BY <1>1, <1>2, <1>3 DEF LaunchInv, TcsInv
<1>12. RunningInv'
  BY <1>1, <1>2 DEF RunningInv
<1> QED
  BY <1>4, <1>5, <1>6, <1>7, <1>8, <1>9, <1>10, <1>11, <1>12 DEF LaunchInv

LEMMA FinishKvmKeeps == ASSUME LaunchInv, FinishKvm PROVE LaunchInv'
<1>1. CASE \E reason \in {"sallyports", "vcpu"} : Fail(reason)
  BY <1>1, FailKeeps DEF Reasons
<1>2. CASE bld.sallyports # {} /\ Running /\ dev' = [dev EXCEPT !.vcpus = 1, !.state = "running"]
  <2>1. Done /\ tech = "kvm"
    BY DEF FinishKvm
  <2>2. dev \in Devs
    BY DEF LaunchInv, TypeOK
  <2>3. dev' \in Devs /\ dev'.slots = dev.slots /\ dev'.mem = dev.mem
    <3>1. PICK R, T, I : R = Seq(Regions) /\ T = Seq(Entries) /\ I = Seq(Infos)
      OBVIOUS
    <3>2. Devs = [state : {"none", "vm", "snp", "started", "created", "running"}, slots : R, mem : T, log : I, vcpus : {0, 1}]
      BY <3>1 DEF Devs
    <3> QED
      BY <1>2, <2>2, <3>2
  <2> QED
    BY <1>2, <2>1, <2>3, RunKeeps
<1> QED
  BY <1>1, <1>2 DEF FinishKvm

\* What sign hashed for these files, if it is the signature's, was for the executable that runs.
LEMMA SignedHash ==
    ASSUME LaunchInv, Done, tech \in {"sgx", "sev"}, job.signatures # Empty, job.signatures[1][tech] # Empty
    PROVE  /\ IsBinary(job.signatures[1].exec) /\ Shim.name # job.signatures[1].exec.name
           /\ job.signatures[1].exec.name = job.exec.name => job.signatures[1].exec = job.exec
           /\ job.signatures[1][tech] = Hash(tech, Shim, job.signatures[1].exec)
<1>1. job \in Jobs
  BY DEF LaunchInv, TypeOK
<1>2. PICK g : g = job.signatures[1] /\ SignedFor(g, job) /\ tech \in DOMAIN job.shim
  BY <1>1, JobIs
<1> QED
  BY <1>2 DEF SignedFor, IsExecutable, Shim

LEMMA SevFinished ==
    ASSUME LaunchInv, Done, tech = "sev"
    PROVE  SevDigest(SevMade) = Hash("sev", Shim, job.exec) /\ SevDigest(SevMade) \in Seq(Infos)
<1>1. dev \in Devs /\ dev.log = FlattenSeq([k \in DOMAIN segs |-> SevHash(segs[k])])
  BY DoneFacts DEF LaunchInv, TypeOK, MeasureInv
<1>2. SevMade.log = dev.log /\ SevMade.vcpus = 1
  BY <1>1 DEF SevMade, Devs
<1>3. [i \in 1..1 |-> VmsaInfo] = <<VmsaInfo>>
  OBVIOUS
<1>4. VmsaInfo = UpdateFinish /\ VmsaInfo \in Infos
  BY DEF VmsaInfo, UpdateFinish, Update, Infos, Hashed
<1>5. SevDigest(SevMade) = dev.log \o <<VmsaInfo>>
  BY <1>2, <1>3 DEF SevDigest
<1>6. dev.log \in Seq(Infos) /\ <<VmsaInfo>> \in Seq(Infos)
  BY <1>1, <1>4, DevIs
<1>7. dev.log \o <<VmsaInfo>> \in Seq(Infos)
  BY <1>6, ConcatProperties
<1>8. segs = AllSegments(Shim, job.exec)
  BY DoneFacts
<1>9. Hash("sev", Shim, job.exec) = dev.log \o <<UpdateFinish>>
  BY <1>1, <1>8 DEF Hash
<1> QED
  BY <1>4, <1>5, <1>7, <1>9

LEMMA FinishSevKeeps == ASSUME LaunchInv, FinishSev PROVE LaunchInv'
<1>1. Done /\ tech = "sev"
  BY DEF FinishSev
<1>2. CASE \E reason \in {"sallyports", "blob", "finish"} : Fail(reason)
  BY <1>2, FailKeeps DEF Reasons
<1>3. CASE /\ job.signatures # Empty /\ job.signatures[1].sev # Empty
           /\ job.signatures[1].sev # SevDigest(SevMade) /\ Fail("digest")
  <2>1. job.signatures[1][tech] = job.signatures[1].sev
    BY <1>1
  <2>2. job.signatures[1].sev = Hash("sev", Shim, job.signatures[1].exec)
    BY <1>1, <1>3, <2>1, SignedHash
  <2>3. job.signatures[1].exec # job.exec
    BY <1>1, <1>3, <2>2, SevFinished
  <2> QED
    BY <1>3, <2>3, FailKeeps DEF Reasons, Refusable
<1>4. CASE /\ bld.sallyports # {} /\ Running
           /\ dev' = [SevMade EXCEPT !.state = "running", !.log = SevDigest(SevMade)]
  <2>1. PICK g \in Seq(Infos) : g = SevDigest(SevMade)
    BY <1>1, SevFinished
  <2>2. dev \in Devs
    BY DEF LaunchInv, TypeOK
  <2>3. dev' \in Devs /\ dev'.slots = dev.slots /\ dev'.mem = dev.mem
    <3>1. PICK R, T, I : R = Seq(Regions) /\ T = Seq(Entries) /\ I = Seq(Infos) /\ g \in I
      OBVIOUS
    <3>2. Devs = [state : {"none", "vm", "snp", "started", "created", "running"}, slots : R, mem : T, log : I, vcpus : {0, 1}]
      BY <3>1 DEF Devs
    <3>3. dev' = [[dev EXCEPT !.vcpus = 1] EXCEPT !.state = "running", !.log = g]
      BY <1>4, <2>1 DEF SevMade
    <3> QED
      BY <2>2, <3>1, <3>2, <3>3
  <2> QED
    BY <1>1, <1>4, <2>3, RunKeeps
<1> QED
  BY <1>2, <1>3, <1>4 DEF FinishSev

LEMMA SgxHashOf ==
    ASSUME NEW s, Laid(s), NEW i \in 1..PagesOf(s)
    PROVE  SgxHash(s)[i].contents = IF "unmeasured" \in s.flags THEN Empty ELSE <<s.of, i>>
BY DEF SgxHash, Content

\* What is hashed for a shim and an executable names no other binary.
LEMMA HashNames ==
    ASSUME NEW sh, NEW ex, IsBinary(sh), IsBinary(ex), sh.slot # Empty,
           NEW i \in DOMAIN Hash("sgx", sh, ex), NEW name \in STRING, NEW k \in Nat, NEW p \in Nat,
           Hash("sgx", sh, ex)[i].contents = <<<<name, k>>, p>>
    PROVE  name \in {sh.name, ex.name}
<1>1. PICK all \in Seq(Segs), n \in Nat : all = AllSegments(sh, ex) /\ n = Len(all) /\ DOMAIN all = 1..n
  BY AllWhole, LenProperties
<1>2. \A h \in 1..n : Laid(all[h])
  BY <1>1, AllWhole, ElementOfSeq DEF Laid
<1>3. \A h \in 1..n : \E m \in Nat : all[h].of \in {<<sh.name, m>>, <<ex.name, m>>}
  <2> SUFFICES ASSUME NEW h \in 1..n PROVE \E m \in Nat : all[h].of \in {<<sh.name, m>>, <<ex.name, m>>}
    OBVIOUS
  <2>1. PICK x \in Nat, y \in Nat, at \in Nat : x = Len(sh.loads) /\ y = Len(ex.loads) /\ at = sh.slot[1] /\ n = x + y
    <3>1. Len(sh.loads) \in Nat /\ Len(ex.loads) \in Nat /\ sh.slot[1] \in Nat
      BY AllWhole
    <3>2. Len(AllSegments(sh, ex)) = Len(sh.loads) + Len(ex.loads)
      BY AllWhole
    <3> QED
      BY <1>1, <3>1, <3>2
  <2>2. CASE h <= x
    <3>1. h \in 1..x /\ h \in Nat
      BY <2>2
    <3>2. all[h] = Segments(sh, 0)[h]
      BY <1>1, <2>1, <3>1, AllWhole
    <3>3. Segments(sh, 0)[h].of = <<sh.name, h>>
      BY <2>1, <3>1, SegmentsWhole
    <3> QED
      BY <3>1, <3>2, <3>3
  <2>3. CASE h > x
    <3>1. PICK m \in 1..y : h = x + m
      <4>1. h \in 1..(x + y)
        BY <2>1
      <4>2. h - x \in 1..y /\ h = x + (h - x)
        BY <2>3, <4>1
      <4> QED
        BY <4>2
    <3>2. all[h] = Segments(ex, at)[m]
      BY <1>1, <2>1, <3>1, AllWhole
    <3>3. Segments(ex, at)[m].of = <<ex.name, m>>
      BY <2>1, <3>1, SegmentsWhole
    <3>4. m \in Nat
      OBVIOUS
    <3> QED
      BY <3>2, <3>3, <3>4
  <2> QED
    BY <2>2, <2>3
<1> DEFINE q == [h \in 1..n |-> SgxHash(all[h])]
           C == {u \in Infos : u.contents = <<<<name, k>>, p>> => name \in {sh.name, ex.name}}
<1>4. \A h \in 1..n : SgxHash(all[h]) \in Seq(Infos) /\ Len(SgxHash(all[h])) = PagesOf(all[h]) /\ PagesOf(all[h]) \in Nat
  BY <1>2, SgxHashIs, LaidPages
<1>5. q \in Seq(Seq(Infos)) /\ Len(q) = n /\ \A h \in 1..n : q[h] = SgxHash(all[h])
  <2>1. q \in [1..n -> Seq(Infos)]
    BY <1>4
  <2> QED
    BY <2>1
<1>6. ASSUME NEW h \in 1..n, NEW e \in 1..Len(SgxHash(all[h])) PROVE SgxHash(all[h])[e] \in C
  <2>1. SgxHash(all[h])[e] \in Infos
    BY <1>4, ElementOfSeq
  <2>2. ASSUME SgxHash(all[h])[e].contents = <<<<name, k>>, p>> PROVE name \in {sh.name, ex.name}
    <3>1. SgxHash(all[h])[e].contents = IF "unmeasured" \in all[h].flags THEN Empty ELSE <<all[h].of, e>>
      BY <1>2, <1>4, SgxHashOf
    <3>2. Empty # <<<<name, k>>, p>>
      BY DEF Empty
    <3>3. <<all[h].of, e>> = <<<<name, k>>, p>>
      BY <2>2, <3>1, <3>2
    <3>4. all[h].of = <<name, k>>
      BY <3>3
    <3>5. PICK m \in Nat : all[h].of \in {<<sh.name, m>>, <<ex.name, m>>}
      BY <1>3
    <3> QED
      BY <3>4, <3>5
  <2> QED
    BY <2>1, <2>2
<1> HIDE DEF C, q
<1>7. C \in SUBSET Infos
  BY DEF C
<1>8. \A h \in 1..Len(q) : \A e \in 1..Len(q[h]) : q[h][e] \in C
  BY <1>5, <1>6
<1>9. \A e \in 1..Len(FlattenSeq(q)) : FlattenSeq(q)[e] \in C
  BY <1>5, <1>7, <1>8, FlattenParts
<1>10. Hash("sgx", sh, ex) = FlattenSeq(q)
  BY <1>1 DEF Hash, q
<1>11. DOMAIN FlattenSeq(q) = 1..Len(FlattenSeq(q))
  <2>1. FlattenSeq(q) \in Seq(Infos)
    BY <1>5, FlattenTyped
  <2> QED
    BY <2>1, LenProperties
<1>12. Hash("sgx", sh, ex)[i] \in C
  BY <1>9, <1>10, <1>11
<1> QED
  BY <1>12 DEF C

\* The first page of the executable that reached the enclave is of a header with memory.
LEMMA ExecutableSeen ==
    ASSUME LaunchInv, Done, tech = "sgx"
    PROVE  \E i \in DOMAIN dev.log : \E k \in Nat : dev.log[i].contents = <<<<job.exec.name, k>>, 1>>
<1>1. PICK ex, sh : ex = job.exec /\ sh = Shim
  OBVIOUS
<1>2. IsBinary(ex) /\ IsBinary(sh) /\ sh.slot # Empty /\ BinaryOk(ex) /\ segs = AllSegments(sh, ex)
  BY <1>1, DoneFacts, LoadOk
<1>3. \A k \in DOMAIN ex.loads : "unmeasured" \notin ex.loads[k].flags
  BY <1>1, DoneFacts DEF IsExecutable
<1>4. PICK x \in Nat, y \in Nat, at \in Nat : x = Len(sh.loads) /\ y = Len(ex.loads) /\ at = sh.slot[1]
  BY <1>2, AllWhole
<1>5. DOMAIN ex.loads = 1..y /\ Len(segs) = x + y
  <2>1. Len(AllSegments(sh, ex)) = Len(sh.loads) + Len(ex.loads)
    BY <1>2, AllWhole
  <2>2. DOMAIN ex.loads = 1..Len(ex.loads)
    BY <1>2, LenProperties DEF IsBinary
  <2> QED
    BY <1>2, <1>4, <2>1, <2>2
<1>6. PICK k \in 1..y : ex.loads[k].vaddr <= ex.entry /\ ex.entry < ex.loads[k].vaddr + ex.loads[k].memsz
  BY <1>2, <1>5 DEF BinaryOk
<1>7. PICK h \in 1..(x + y) : h = x + k
  <2>1. x + k \in 1..(x + y)
    OBVIOUS
  <2> QED
    BY <2>1
<1>8. PICK s : s = segs[h] /\ s = Segments(ex, at)[k]
  <2>1. AllSegments(sh, ex)[Len(sh.loads) + k] = Segments(ex, sh.slot[1])[k]
    BY <1>2, <1>4, ExecutableSegment
  <2>2. segs[h] = Segments(ex, at)[k]
    BY <1>2, <1>4, <1>7, <2>1
  <2> QED
    BY <2>2
<1>9. Laid(s) /\ h \in Before
  BY <1>5, <1>8, DoneFacts
<1>10. s.of = <<ex.name, k>> /\ s.flags = ex.loads[k].flags
  <2>1. Segments(ex, at)[k].of = <<ex.name, k>> /\ Segments(ex, at)[k].flags = ex.loads[k].flags
    BY <1>2, <1>4, SegmentsWhole
  <2> QED
    BY <1>8, <2>1
<1>11. PagesOf(s) \in Nat /\ PagesOf(s) > 0
  <2>1. PICK v \in Nat, m \in Nat : v = ex.loads[k].vaddr /\ m = ex.loads[k].memsz
    <3>1. ex.loads[k] \in [vaddr : Nat, memsz : Nat, flags : SUBSET STRING]
      BY <1>2, <1>5, ElementOfSeq, LenProperties DEF IsBinary
    <3> QED
      BY <3>1
  <2>2. v \in v..(v + m - 1)
    <3>1. m > 0
      <4>1. PICK z \in Nat : z = ex.entry
        BY <1>2 DEF IsBinary
      <4>2. v <= z /\ z < v + m
        BY <1>6, <2>1, <4>1
      <4> QED
        BY <4>2
    <3> QED
      BY <3>1
  <2>3. PICK f \in Nat, l \in Nat : /\ Whole(s, f, l) /\ f <= l
                                    /\ \A a \in v..(v + m - 1) : /\ (a + at) \div Page \in Nat
                                                                 /\ f <= (a + at) \div Page /\ (a + at) \div Page < l
    <3>1. \E f, l \in Nat :
             /\ Whole(Segments(ex, at)[k], f, l) /\ f <= l
             /\ \A a \in ex.loads[k].vaddr..(ex.loads[k].vaddr + ex.loads[k].memsz - 1) :
                  /\ (a + at) \div Page \in Nat
                  /\ f <= (a + at) \div Page /\ (a + at) \div Page < l
      BY <1>2, <1>4, SegmentsWhole
    <3> QED
      BY <1>8, <2>1, <3>1
  <2>4. PICK g \in Nat : f <= g /\ g < l
    BY <2>2, <2>3
  <2>5. PagesOf(s) = l - f
    BY <2>3, PagesOfWhole
  <2> QED
    BY <2>4, <2>5
<1>12. PICK i \in DOMAIN dev.log : dev.log[i] = SgxHash(s)[1]
  <2>1. PagesOf(segs[h]) > 0
    BY <1>8, <1>11
  <2>2. \E i \in DOMAIN dev.log : dev.log[i] = SgxHash(segs[h])[1]
    BY <1>9, <2>1, DoneFacts DEF LaunchInv, MeasureInv
  <2> QED
    BY <1>8, <2>2
<1>13. 1 \in 1..PagesOf(s)
  BY <1>11
<1>14. "unmeasured" \notin s.flags
  BY <1>3, <1>5, <1>10
<1>15. SgxHash(s)[1].contents = <<s.of, 1>>
  BY <1>9, <1>13, <1>14, SgxHashOf
<1> QED
  BY <1>1, <1>10, <1>12, <1>15

\* EINIT compares with what sign, or the builder, hashed.
LEMMA SgxFinished ==
    ASSUME LaunchInv, Done, tech = "sgx"
    PROVE  bld.hash = Hash("sgx", Shim, job.exec) /\ IF short THEN bld.hash # dev.log ELSE bld.hash = dev.log
<1>1. /\ bld.hash = FlattenSeq([k \in DOMAIN segs |-> SgxHash(segs[k])])
      /\ IF short THEN Len(dev.log) < Len(bld.hash) ELSE dev.log = bld.hash
  BY DoneFacts DEF LaunchInv, MeasureInv
<1>2. segs = AllSegments(Shim, job.exec)
  BY DoneFacts
<1>3. bld.hash = Hash("sgx", Shim, job.exec)
  BY <1>1, <1>2 DEF Hash
<1>4. Len(bld.hash) \in Nat
  <2>1. bld.hash \in Seq(Infos)
    BY BuilderIs DEF LaunchInv, TypeOK
  <2> QED
    BY <2>1, LenProperties
<1>5. short => bld.hash # dev.log
  BY <1>1, <1>4
<1> QED
  BY <1>1, <1>3, <1>5

LEMMA FinishSgxKeeps == ASSUME LaunchInv, FinishSgx PROVE LaunchInv'
<1>1. Done /\ tech = "sgx"
  BY DEF FinishSgx
<1>2. CASE \E reason \in {"blob", "finish"} : Fail(reason)
  BY <1>2, FailKeeps DEF Reasons
<1>3. PICK signed : signed = IF job.signatures # Empty THEN job.signatures[1].sgx ELSE bld.hash
  OBVIOUS
<1>4. job.signatures[1][tech] = job.signatures[1].sgx
  BY <1>1
<1>5. CASE (job.signatures # Empty => job.signatures[1].sgx # Empty) /\ signed # dev.log /\ Fail("digest")
  <2>1. Refusable
    <3> SUFFICES ASSUME ~short, job.signatures # Empty => job.signatures[1].exec = job.exec PROVE FALSE
      BY DEF Refusable
    <3>1. bld.hash = Hash("sgx", Shim, job.exec) /\ bld.hash = dev.log
      BY <1>1, SgxFinished
    <3>2. CASE job.signatures = Empty
      BY <1>3, <1>5, <3>1, <3>2
    <3>3. CASE job.signatures # Empty
      <4>1. job.signatures[1].sgx = Hash("sgx", Shim, job.exec)
        BY <1>1, <1>4, <1>5, <3>3, SignedHash
      <4> QED
        BY <1>3, <1>5, <3>1, <3>3, <4>1
    <3> QED
      BY <3>2, <3>3
  <2> QED
    BY <1>5, <2>1, FailKeeps DEF Reasons
<1>6. CASE /\ job.signatures # Empty => job.signatures[1].sgx # Empty
           /\ signed = dev.log /\ Running /\ dev' = [dev EXCEPT !.state = "running"]
  <2>1. ~short
    <3> SUFFICES ASSUME short PROVE FALSE
      OBVIOUS
    <3>1. bld.hash = Hash("sgx", Shim, job.exec) /\ bld.hash # dev.log
      BY <1>1, SgxFinished
    <3>2. job.signatures # Empty
      BY <1>3, <1>6, <3>1
    <3>3. PICK ex : ex = job.signatures[1].exec
      OBVIOUS
    <3>4. /\ IsBinary(ex) /\ Shim.name # ex.name /\ (ex.name = job.exec.name => ex = job.exec)
          /\ dev.log = Hash("sgx", Shim, ex)
      BY <1>1, <1>3, <1>4, <1>6, <3>2, <3>3, SignedHash
    <3>5. ex.name # job.exec.name
      BY <3>1, <3>4
    <3>6. IsBinary(Shim) /\ Shim.slot # Empty /\ Shim.name # job.exec.name /\ job.exec.name \in STRING
      <4>1. IsBinary(Shim) /\ LoadError(Shim, job.exec) = "none" /\ IsExecutable(job.exec, job.shim) /\ IsBinary(job.exec)
        BY <1>1, DoneFacts
      <4>2. job \in Jobs
        BY DEF LaunchInv, TypeOK
      <4>3. Shim.name # job.exec.name
        BY <1>1, <4>2, JobIs DEF Shim
      <4> QED
        BY <4>1, <4>3, LoadOk DEF IsBinary
    <3>7. PICK i \in DOMAIN dev.log : \E k \in Nat : dev.log[i].contents = <<<<job.exec.name, k>>, 1>>
      BY <1>1, ExecutableSeen
    <3>8. PICK k \in Nat, p \in Nat : p = 1 /\ dev.log[i].contents = <<<<job.exec.name, k>>, p>>
      BY <3>7
    <3>9. PICK sh : sh = Shim
      OBVIOUS
    <3>10. PICK name \in STRING : name = job.exec.name
      BY <3>6
    <3>11. i \in DOMAIN Hash("sgx", sh, ex) /\ Hash("sgx", sh, ex)[i].contents = <<<<name, k>>, p>>
      BY <3>4, <3>8, <3>9, <3>10
    <3>12. name \in {sh.name, ex.name}
      BY <3>4, <3>6, <3>9, <3>11, HashNames
    <3> QED
      BY <3>4, <3>5, <3>6, <3>9, <3>10, <3>12
  <2>2. dev \in Devs
    BY DEF LaunchInv, TypeOK
  <2>3. dev' \in Devs /\ dev'.slots = dev.slots /\ dev'.mem = dev.mem
    <3>1. PICK R, T, I : R = Seq(Regions) /\ T = Seq(Entries) /\ I = Seq(Infos)
      OBVIOUS
    <3>2. Devs = [state : {"none", "vm", "snp", "started", "created", "running"}, slots : R, mem : T, log : I, vcpus : {0, 1}]
      BY <3>1 DEF Devs
    <3> QED
      BY <1>6, <2>2, <3>2
  <2> QED
    BY <1>1, <1>6, <2>1, <2>3, RunKeeps
<1> QED
  BY <1>2, <1>3, <1>5, <1>6 DEF FinishSgx

\* A running shim's request for memory changes slots and regions alone.
LEMMA BalloonKeeps ==
    ASSUME LaunchInv, NEW to \in Nat, NEW size \in Nat, Balloon(to, size)
    PROVE  LaunchInv'
<1>1. /\ pc = "running" /\ tech \in {"kvm", "sev"} /\ balloons < MaxBalloons /\ balloons' = balloons + 1
      /\ UNCHANGED <<job, pc, tech, why, retry, segs, short>>
  BY DEF Balloon
<1>2. dev \in Devs /\ bld \in Builders /\ Building /\ why = "none" /\ RegionsInv
  BY <1>1 DEF LaunchInv, TypeOK, EarlyInv, Building
<1>3. PICK r \in Regions : r = [gpa |-> to, size |-> size, backed |-> TRUE] /\ r.backed = TRUE
  <2>1. [gpa |-> to, size |-> size, backed |-> TRUE] \in Regions
    BY DEF Regions
  <2> QED
    BY <2>1
<1>4. PICK u \in Regions : u = [r EXCEPT !.backed = FALSE]
  BY <1>3 DEF Regions
<1>5. PICK b \in Seq(Regions), s \in Seq(Regions) : b = bld.regions /\ s = dev.slots
  BY <1>2, DevIs, BuilderIs
<1>6. Kept(b, s)
  BY <1>1, <1>2, <1>5 DEF RegionsInv, Kept
<1> DEFINE Grown(d, c) == /\ d \in Devs /\ c \in Builders /\ Kept(c.regions, d.slots) /\ d.mem = dev.mem /\ d.log = dev.log
                          /\ c.sallyports = bld.sallyports /\ c.hash = bld.hash /\ c.tcs = bld.tcs /\ c.next = bld.next
<1>7. PICK R, T, I : R = Seq(Regions) /\ T = Seq(Entries) /\ I = Seq(Infos)
  OBVIOUS
<1>8. Devs = [state : {"none", "vm", "snp", "started", "created", "running"}, slots : R, mem : T, log : I, vcpus : {0, 1}]
  BY <1>7 DEF Devs
<1>9. Builders = [regions : R, sallyports : SUBSET Nat, hash : I, tcs : SUBSET Nat, next : Nat]
  BY <1>7 DEF Builders
<1>10. Grown(dev', bld')
  <2>1. CASE UNCHANGED <<dev, bld>>
    <3>1. dev' = dev /\ bld' = bld
      BY <2>1
    <3> QED
      BY <1>2, <1>5, <1>6, <3>1
  <2>2. CASE /\ dev' = [dev EXCEPT !.slots = SetRegion(@, Len(bld.regions) + 1, r)]
             /\ bld' = [bld EXCEPT !.regions = Append(@, r)]
    <3>1. PICK t : t = SetRegion(s, Len(b) + 1, r)
      OBVIOUS
    <3>2. Takes(b, s, r, t)
      BY <1>6, <3>1 DEF Takes
    <3>3. PICK c : c = Append(b, r) /\ c \in R /\ Kept(c, t) /\ t \in R
      BY <1>3, <1>7, <3>2, SlotTaken, RegionKept DEF Taken
    <3>4. dev' = [dev EXCEPT !.slots = t] /\ bld' = [bld EXCEPT !.regions = c]
      BY <1>5, <2>2, <3>1, <3>3
    <3>5. dev' \in Devs /\ dev'.slots = t /\ dev'.mem = dev.mem /\ dev'.log = dev.log
      BY <1>2, <1>8, <3>3, <3>4
    <3>6. /\ bld' \in Builders /\ bld'.regions = c /\ bld'.sallyports = bld.sallyports
          /\ bld'.hash = bld.hash /\ bld'.tcs = bld.tcs /\ bld'.next = bld.next
      BY <1>2, <1>9, <3>3, <3>4
    <3> QED
      BY <3>3, <3>5, <3>6
  <2>3. CASE dev' = [dev EXCEPT !.slots = SetRegion(@, Len(bld.regions) + 1, u)] /\ bld' = bld
    <3>1. PICK t : t = SetRegion(s, Len(b) + 1, u)
      OBVIOUS
    <3>2. Takes(b, s, u, t)
      BY <1>6, <3>1 DEF Takes
    <3>3. t \in R /\ Kept(b, t)
      BY <1>7, <3>2, SlotTaken DEF Taken
    <3>4. dev' = [dev EXCEPT !.slots = t]
      BY <1>5, <2>3, <3>1
    <3>5. dev' \in Devs /\ dev'.slots = t /\ dev'.mem = dev.mem /\ dev'.log = dev.log
      BY <1>2, <1>8, <3>3, <3>4
    <3> QED
      BY <1>2, <1>5, <2>3, <3>3, <3>5
  <2> QED
    BY <1>3, <1>4, <2>1, <2>2, <2>3 DEF Balloon
<1>11. Before' = Before /\ Shim' = Shim
  BY <1>1, <1>10 DEF Before, Shim
<1>12. TypeOK'
  <2>1. balloons + 1 \in 0..MaxBalloons
    <3>1. balloons \in 0..MaxBalloons /\ MaxBalloons \in Nat
      BY LaunchAssumption DEF LaunchAssumption, LaunchInv, TypeOK
    <3> QED
      BY <1>1, <3>1
  <2> QED
    BY <1>1, <1>10, <2>1 DEF LaunchInv, TypeOK
<1>13. EarlyInv' /\ SignedKeepsStart' /\ MeasureInv'
  BY <1>1, <1>2 DEF LaunchInv, EarlyInv, Early, SignedKeepsStart, MeasureInv
<1>14. SegmentsInv'
  BY <1>1, <1>2, <1>11 DEF LaunchInv, SegmentsInv
<1>15. PagesInv'
  <2>1. PagesInv
    BY DEF LaunchInv
  <2> QED
    BY <1>1, <1>2, <1>10, <1>11, <2>1 DEF PagesInv, Entry, TypeFor
<1>16. RegionsInv'
  BY <1>10 DEF RegionsInv, Kept
<1>17. BlocksInv'
  BY <1>1, <1>2, <1>10, <1>11 DEF LaunchInv, BlocksInv
<1>18. TcsInv'
  BY <1>1 DEF TcsInv
<1>19. RunningInv'
  BY <1>1, <1>10 DEF LaunchInv, RunningInv
<1> QED
  BY <1>12, <1>13, <1>14, <1>15, <1>16, <1>17, <1>18, <1>19 DEF LaunchInv

LEMMA LaunchStart == ASSUME Init PROVE LaunchInv
<1>1. TypeOK
  <2>1. segs \in Seq(Segs) /\ Len(segs) = 0 /\ bld.next = 1
    BY DEF Init, Empty, NoBuilder
  <2>2. 0 \in 0..MaxBalloons
    BY LaunchAssumption DEF LaunchAssumption
  <2>3. job \in Jobs /\ tech = "none" /\ pc \in Early /\ why = "none" /\ short \in BOOLEAN /\ balloons = 0
    BY DEF Init, Early
  <2>4. retry \in [outer : 0..Retries, inner : 0..Retries] /\ dev \in Devs /\ bld \in Builders
    BY Nothing DEF Init
  <2> QED
    BY <2>1, <2>2, <2>3, <2>4 DEF TypeOK
<1>2. EarlyInv /\ SegmentsInv /\ PagesInv /\ MeasureInv
  BY DEF Init, EarlyInv, Early, SegmentsInv, PagesInv, MeasureInv, Building, NoDev
<1>3. RegionsInv /\ BlocksInv /\ TcsInv /\ RunningInv /\ SignedKeepsStart
  BY DEF Init, RegionsInv, BlocksInv, TcsInv, RunningInv, SignedKeepsStart, Building
<1> QED
  BY <1>1, <1>2, <1>3 DEF LaunchInv

LEMMA StutterKeeps == ASSUME LaunchInv, UNCHANGED launch PROVE LaunchInv'
<1>1. UNCHANGED <<job, pc, tech, why, retry, segs, dev, bld, short, balloons>>
  BY DEF launch
<1>2. TypeOK' /\ EarlyInv' /\ SignedKeepsStart' /\ RunningInv'
  BY <1>1 DEF LaunchInv, TypeOK, EarlyInv, SignedKeepsStart, RunningInv, Shim
<1>3. Before' = Before /\ Shim' = Shim /\ Building' = Building
  BY <1>1 DEF Before, Shim, Building
<1>4. SegmentsInv'
  BY <1>1, <1>3 DEF LaunchInv, SegmentsInv
<1>5. PagesInv'
  <2>1. PagesInv
    BY DEF LaunchInv
  <2> QED
    BY <1>1, <1>3, <2>1 DEF PagesInv, Entry, TypeFor
<1>6. MeasureInv'
  BY <1>1, <1>3 DEF LaunchInv, MeasureInv
<1>7. RegionsInv' /\ BlocksInv' /\ TcsInv'
  BY <1>1, <1>3 DEF LaunchInv, RegionsInv, BlocksInv, TcsInv
<1> QED
  BY <1>2, <1>4, <1>5, <1>6, <1>7 DEF LaunchInv

LEMMA LaunchStepKeeps == ASSUME LaunchInv, [Next]_launch PROVE LaunchInv'
<1>1. CASE Pick
  BY <1>1, PickKeeps
<1>2. CASE LoadSignatures \/ Load
  BY <1>2, LoadKeeps
<1>3. CASE OpenKvm \/ OpenSev \/ SnpInit \/ SnpStart \/ Ecreate
  BY <1>3, OpensKeep
<1>4. CASE CheckSegments
  BY <1>4, CheckKeeps
<1>5. CASE MapNothing
  BY <1>5, MapNothingKeeps
<1>6. CASE MapKvm
  BY <1>6, MapKvmKeeps
<1>7. CASE MapSev
  BY <1>7, MapSevKeeps
<1>8. CASE MapSgx
  BY <1>8, MapSgxKeeps
<1>9. CASE FinishKvm
  BY <1>9, FinishKvmKeeps
<1>10. CASE FinishSev
  BY <1>10, FinishSevKeeps
<1>11. CASE FinishSgx
  BY <1>11, FinishSgxKeeps
<1>12. CASE \E to \in BalloonAt, n \in {1, 2} : Balloon(to, n * Page)
  <2>1. PICK to \in BalloonAt, n \in {1, 2} : Balloon(to, n * Page)
    BY <1>12
  <2>2. to \in Nat /\ n * Page \in Nat
    BY LaunchAssumption DEF LaunchAssumption
  <2> QED
    BY <2>1, <2>2, BalloonKeeps
<1>13. CASE UNCHANGED launch
  BY <1>13, StutterKeeps
<1> QED
  BY <1>1, <1>2, <1>3, <1>4, <1>5, <1>6, <1>7, <1>8, <1>9, <1>10, <1>11, <1>12, <1>13 DEF Next, LaunchStep
-----------------------------------------------------------------------------
(* What follows for a keep that runs.                                      *)

LEMMA RunningFacts ==
    ASSUME LaunchInv, pc = "running", tech # "nil"
    PROVE  /\ tech \in {"sgx", "sev", "kvm"} /\ Building /\ ~short
           /\ Len(segs) \in Nat /\ DOMAIN segs = 1..Len(segs) /\ Before = 1..Len(segs)
           /\ segs = AllSegments(Shim, job.exec) /\ Apart(segs) /\ Shim.slot # Empty
           /\ IsBinary(Shim) /\ IsBinary(job.exec) /\ Shim # job.exec
           /\ Shim.block \in Nat /\ Shim.block % Align = 0
           /\ \A k \in 1..Len(segs) : Laid(segs[k])
<1>1. TypeOK /\ SegmentsInv /\ tech # "none" /\ Building
  BY DEF LaunchInv, EarlyInv, Building
<1>2. /\ tech \in {"sgx", "sev", "kvm"}
      /\ Len(segs) \in Nat /\ DOMAIN segs = 1..Len(segs)
      /\ Shim.block \in Nat /\ Shim.block % Align = 0
      /\ \A k \in 1..Len(segs) : Laid(segs[k])
  BY <1>1, SegmentFacts DEF Laid
<1>3. bld.next = Len(segs) + 1 /\ ~short
  BY DEF LaunchInv, RunningInv, EarlyInv
<1>4. Before = 1..Len(segs)
  BY <1>2, <1>3 DEF Before
<1>5. IsBinary(Shim) /\ IsBinary(job.exec) /\ Shim # job.exec
  BY <1>1, <1>2, JobIs DEF Shim, TypeOK
<1> QED
  BY <1>1, <1>2, <1>3, <1>4, <1>5, LoadOk DEF SegmentsInv

\* Every header's bytes lie in pages of one of the segments.
LEMMA HeaderPages ==
    ASSUME LaunchInv, pc = "running", tech # "nil", NEW b \in {Shim, job.exec}, NEW k \in DOMAIN b.loads,
           NEW a \in b.loads[k].vaddr..(b.loads[k].vaddr + b.loads[k].memsz - 1)
    PROVE  \E h \in Before : \E n \in 1..PagesOf(segs[h]) :
              Entry(segs[h], n) =
                 [at |-> ((a + Relocation(b)) \div Page) * Page, type |-> TypeFor(b.loads[k].flags),
                  contents |-> <<<<b.name, k>>,
                     ((a + Relocation(b)) \div Page) - ((b.loads[k].vaddr + Relocation(b)) \div Page) + 1>>]
<1>1. PICK sh, ex : sh = Shim /\ ex = job.exec /\ sh # ex
  BY RunningFacts
<1>2. IsBinary(ex) /\ IsBinary(sh) /\ sh.slot # Empty /\ segs = AllSegments(sh, ex)
  BY <1>1, RunningFacts
<1>3. PICK x \in Nat, y \in Nat, at \in Nat : x = Len(sh.loads) /\ y = Len(ex.loads) /\ at = sh.slot[1]
  BY <1>2, AllWhole
<1>4. Before = 1..(x + y)
  <2>1. Len(AllSegments(sh, ex)) = Len(sh.loads) + Len(ex.loads)
    BY <1>2, AllWhole
  <2> QED
    BY <1>2, <1>3, <2>1, RunningFacts
<1>5. PICK r \in Nat : r = Relocation(b)
  BY <1>1, <1>3 DEF Relocation
<1>6. PICK h \in Before : segs[h] = Segments(b, r)[k]
  <2>1. CASE b = sh
    <3>1. r = 0 /\ k \in 1..x
      BY <1>1, <1>2, <1>3, <1>5, <2>1, SegmentsWhole DEF Relocation
    <3>2. k \in 1..(x + y)
      BY <3>1
    <3>3. AllSegments(sh, ex)[k] = Segments(sh, 0)[k]
      BY <1>2, <1>3, <3>1, AllWhole
    <3> QED
      BY <1>2, <1>4, <2>1, <3>1, <3>2, <3>3
  <2>2. CASE b = ex
    <3>1. r = at /\ k \in 1..y
      BY <1>1, <1>2, <1>3, <1>5, <2>2, SegmentsWhole DEF Relocation
    <3>2. x + k \in 1..(x + y)
      BY <3>1
    <3>3. AllSegments(sh, ex)[Len(sh.loads) + k] = Segments(ex, sh.slot[1])[k]
      <4>1. k \in 1..Len(ex.loads)
        BY <1>3, <3>1
      <4> QED
        BY <1>2, <4>1, ExecutableSegment
    <3>4. segs[x + k] = Segments(b, r)[k]
      BY <1>2, <1>3, <2>2, <3>1, <3>3
    <3> QED
      BY <1>4, <3>2, <3>4
  <2> QED
    BY <1>1, <2>1, <2>2
<1>7. IsBinary(b) /\ k \in 1..Len(b.loads)
  BY <1>1, <1>2, SegmentsWhole
<1>8. PICK v \in Nat, m \in Nat : v = b.loads[k].vaddr /\ m = b.loads[k].memsz
  <2>1. b.loads[k] \in [vaddr : Nat, memsz : Nat, flags : SUBSET STRING]
    BY <1>7, ElementOfSeq DEF IsBinary
  <2> QED
    BY <2>1
<1>9. PICK s : s = segs[h] /\ s.of = <<b.name, k>> /\ s.flags = b.loads[k].flags
  <2>1. Segments(b, r)[k].of = <<b.name, k>> /\ Segments(b, r)[k].flags = b.loads[k].flags
    BY <1>7, SegmentsWhole
  <2> QED
    BY <1>6, <2>1
<1>10. PICK f \in Nat, l \in Nat, g \in Nat :
          /\ Whole(s, f, l) /\ f <= l /\ f = (v + r) \div Page
          /\ g = (a + r) \div Page /\ f <= g /\ g < l
  <2>1. \E f, l \in Nat :
           /\ Whole(Segments(b, r)[k], f, l) /\ f <= l
           /\ f = (b.loads[k].vaddr + r) \div Page
           /\ \A c \in b.loads[k].vaddr..(b.loads[k].vaddr + b.loads[k].memsz - 1) :
                /\ (c + r) \div Page \in Nat
                /\ f <= (c + r) \div Page /\ (c + r) \div Page < l
    BY <1>7, SegmentsWhole
  <2>2. PICK f \in Nat, l \in Nat :
           /\ Whole(s, f, l) /\ f <= l /\ f = (v + r) \div Page
           /\ (a + r) \div Page \in Nat /\ f <= (a + r) \div Page /\ (a + r) \div Page < l
    BY <1>6, <1>8, <1>9, <2>1
  <2> QED
    BY <2>2
<1>11. PICK n \in Nat : n = g - f + 1 /\ n \in 1..(l - f) /\ f + (n - 1) = g
  <2>1. g - f + 1 \in Nat /\ g - f + 1 \in 1..(l - f) /\ f + ((g - f + 1) - 1) = g
    BY <1>10
  <2> QED
    BY <2>1
<1>12. n \in 1..PagesOf(s) /\ PageAt(s, n) = Page * (f + (n - 1))
  <2>1. PagesOf(s) = l - f
    BY <1>10, PagesOfWhole
  <2>2. n \in 1..PagesOf(s)
    BY <1>11, <2>1
  <2> QED
    BY <1>10, <2>2, PagesOfWhole
<1>13. PageAt(s, n) = g * Page
  <2>1. Page * g = g * Page
    BY PageIs
  <2> QED
    BY <1>11, <1>12, <2>1
<1>14. Entry(s, n) = [at |-> g * Page, type |-> TypeFor(b.loads[k].flags), contents |-> <<<<b.name, k>>, g - f + 1>>]
  BY <1>9, <1>11, <1>13 DEF Entry, Content
<1>15. g = (a + Relocation(b)) \div Page /\ f = (b.loads[k].vaddr + Relocation(b)) \div Page
  BY <1>5, <1>8, <1>10
<1> QED
  BY <1>9, <1>12, <1>14, <1>15

LEMMA CompleteFollows == ASSUME LaunchInv PROVE KeepComplete
<1> SUFFICES ASSUME pc = "running", tech # "nil"
             PROVE  /\ \A b \in {Shim, job.exec} : \A k \in DOMAIN b.loads :
                          \A a \in b.loads[k].vaddr..(b.loads[k].vaddr + b.loads[k].memsz - 1) :
                             [at |-> ((a + Relocation(b)) \div Page) * Page, type |-> TypeFor(b.loads[k].flags),
                              contents |-> <<<<b.name, k>>,
                                 ((a + Relocation(b)) \div Page) - ((b.loads[k].vaddr + Relocation(b)) \div Page) + 1>>]
                                \in ToSet(dev.mem)
                    /\ \A i, j \in DOMAIN dev.mem : dev.mem[i].at = dev.mem[j].at => i = j
  BY DEF KeepComplete
<1>1. /\ \A k \in Before : \A n \in 1..PagesOf(segs[k]) : \E i \in DOMAIN dev.mem : dev.mem[i] = Entry(segs[k], n)
      /\ \A i, j \in DOMAIN dev.mem : dev.mem[i].at = dev.mem[j].at => i = j
  BY RunningFacts DEF LaunchInv, PagesInv
<1>2. ASSUME NEW b \in {Shim, job.exec}, NEW k \in DOMAIN b.loads,
             NEW a \in b.loads[k].vaddr..(b.loads[k].vaddr + b.loads[k].memsz - 1)
      PROVE  [at |-> ((a + Relocation(b)) \div Page) * Page, type |-> TypeFor(b.loads[k].flags),
              contents |-> <<<<b.name, k>>,
                 ((a + Relocation(b)) \div Page) - ((b.loads[k].vaddr + Relocation(b)) \div Page) + 1>>]
                \in ToSet(dev.mem)
  <2>1. PICK e : e = [at |-> ((a + Relocation(b)) \div Page) * Page, type |-> TypeFor(b.loads[k].flags),
              contents |-> <<<<b.name, k>>,
                 ((a + Relocation(b)) \div Page) - ((b.loads[k].vaddr + Relocation(b)) \div Page) + 1>>]
    OBVIOUS
  <2>2. PICK h \in Before : \E n \in 1..PagesOf(segs[h]) : Entry(segs[h], n) = e
    BY <2>1, HeaderPages
  <2>3. PICK n \in 1..PagesOf(segs[h]) : Entry(segs[h], n) = e
    BY <2>2
  <2>4. PICK i \in DOMAIN dev.mem : dev.mem[i] = e
    BY <1>1, <2>3
  <2> QED
    BY <2>1, <2>4 DEF ToSet
<1> QED
  BY <1>1, <1>2

\* Blocks of one segment are whole blocks apart; those of two lie in segments that do not meet.
LEMMA BlocksApart ==
    ASSUME LaunchInv, pc = "running", tech # "nil", NEW a \in bld.sallyports, NEW b \in bld.sallyports, a < b
    PROVE  a + Shim.block <= b
<1>1. PICK w \in Nat : w = Shim.block
  BY RunningFacts
<1>2. Building /\ BlocksInv /\ Apart(segs) /\ Before = DOMAIN segs /\ \A k \in Before : Laid(segs[k])
  BY RunningFacts DEF LaunchInv
<1>3. PICK k \in Before : a + w <= segs[k].end /\ \E n \in 0..(segs[k].end - segs[k].start) : a = segs[k].start + n * w
  BY <1>1, <1>2 DEF BlocksInv
<1>4. PICK h \in Before : b + w <= segs[h].end /\ \E n \in 0..(segs[h].end - segs[h].start) : b = segs[h].start + n * w
  BY <1>1, <1>2 DEF BlocksInv
<1>5. PICK s \in Nat, e \in Nat, t \in Nat, f \in Nat : s = segs[k].start /\ e = segs[k].end /\ t = segs[h].start /\ f = segs[h].end
  BY <1>2, LaidPages
<1>6. PICK n \in Nat : a = s + n * w
  BY <1>3, <1>5
<1>7. PICK m \in Nat : b = t + m * w
  BY <1>4, <1>5
<1>8. n * w \in Nat /\ m * w \in Nat
  OBVIOUS
<1>9. CASE k = h
  <2>1. w * n < w * m
    <3>1. w * n = n * w /\ w * m = m * w
      OBVIOUS
    <3> QED
      BY <1>5, <1>6, <1>7, <1>8, <1>9, <3>1
  <2>2. n < m
    BY <2>1, Cancel
  <2>3. PICK d \in Nat : m = n + 1 + d
    <3>1. m - n - 1 \in Nat /\ m = n + 1 + (m - n - 1)
      BY <2>2
    <3> QED
      BY <3>1
  <2>4. m * w = n * w + w + d * w /\ d * w \in Nat
    BY <2>3
  <2> QED
    BY <1>1, <1>5, <1>6, <1>7, <1>8, <1>9, <2>4
<1>10. CASE k # h
  <2>1. e <= t \/ f <= s
    BY <1>2, <1>5, <1>10 DEF Apart
  <2>2. a + w <= e /\ b + w <= f
    BY <1>3, <1>4, <1>5
  <2> QED
    BY <1>1, <1>6, <1>7, <1>8, <2>1, <2>2
<1> QED
  BY <1>9, <1>10

LEMMA BlocksAligned ==
    ASSUME LaunchInv, pc = "running", tech # "nil", NEW a \in bld.sallyports
    PROVE  /\ a % Align = 0
           /\ \E s \in ToSet(segs) : "sallyport" \in s.flags /\ s.start <= a /\ a + Shim.block <= s.end
<1>1. PICK w \in Nat : w = Shim.block /\ w % Align = 0
  BY RunningFacts
<1>2. Building /\ BlocksInv /\ Before = DOMAIN segs /\ \A k \in Before : Laid(segs[k])
  BY RunningFacts DEF LaunchInv
<1>3. PICK k \in Before : /\ "sallyport" \in segs[k].flags /\ a + w <= segs[k].end
                          /\ \E n \in 0..(segs[k].end - segs[k].start) : a = segs[k].start + n * w
  BY <1>1, <1>2 DEF BlocksInv
<1>4. PICK s : s = segs[k] /\ Laid(s)
  BY <1>2
<1>5. PICK x \in Nat, y \in Nat, n \in Nat : x = s.start /\ y = s.end /\ a = x + n * w
  BY <1>3, <1>4, LaidPages
<1>6. PICK f \in Nat : x = Page * f
  BY <1>4, <1>5 DEF Laid, Whole
<1>7. PICK A \in Nat \ {0}, P \in Nat : A = Align /\ P = Page /\ P % A = 0
  BY PageIs
<1>8. PICK p \in Nat : P = A * p
  <2>1. P \div A \in Nat /\ P = A * (P \div A) + (P % A)
    BY DivMod
  <2> QED
    BY <1>7, <2>1
<1>9. PICK q \in Nat : w = A * q
  <2>1. w \div A \in Nat /\ w = A * (w \div A) + (w % A)
    BY DivMod
  <2>2. PICK c \in Nat, u \in Nat : u = w % A /\ w = A * c + u
    BY <2>1, DivMod
  <2>3. u = 0
    BY <1>1, <1>7, <2>2
  <2>4. w = A * c
    BY <2>2, <2>3
  <2> QED
    BY <2>4
<1>10. PICK c \in Nat : c = p * f + n * q
  OBVIOUS
<1>11. a = A * c + 0
  <2>1. x = A * (p * f) /\ n * w = A * (n * q)
    <3>1. x = P * f
      BY <1>6, <1>7
    <3>2. (A * p) * f = A * (p * f) /\ n * (A * q) = A * (n * q)
      OBVIOUS
    <3> QED
      BY <1>8, <1>9, <3>1, <3>2
  <2>2. A * (p * f + n * q) = A * (p * f) + A * (n * q) /\ A * (p * f) \in Nat /\ A * (n * q) \in Nat
    OBVIOUS
  <2> QED
    BY <1>5, <1>10, <2>1, <2>2
<1>12. a % A = 0
  BY <1>11, DivUnique
<1>13. s.start <= a
  <2>1. n * w \in Nat
    OBVIOUS
  <2> QED
    BY <1>5, <2>1
<1>14. s \in ToSet(segs)
  BY <1>2, <1>4 DEF ToSet
<1> QED
  BY <1>1, <1>3, <1>4, <1>7, <1>12, <1>13, <1>14

LEMMA DoorsFollow == ASSUME LaunchInv PROVE DoorsSound
<1> SUFFICES ASSUME pc = "running", tech # "nil" PROVE DoorsSound
  BY DEF DoorsSound
<1>1. ASSUME tech = "sgx" PROVE bld.tcs = {m.at : m \in {q \in ToSet(dev.mem) : q.type = "tcs"}}
  <2>1. /\ Building /\ ~short /\ PagesInv
        /\ bld.tcs = UNION {{PageAt(segs[k], n) : n \in 1..PagesOf(segs[k])} : k \in {h \in Before : "tcs" \in segs[h].flags}}
    BY <1>1, RunningFacts DEF LaunchInv, TcsInv
  <2>2. \A s, i : Entry(s, i).at = PageAt(s, i) /\ (Entry(s, i).type = "tcs" <=> "tcs" \in s.flags)
    BY <1>1 DEF Entry, TypeFor
  <2>3. ASSUME NEW p \in bld.tcs PROVE p \in {m.at : m \in {q \in ToSet(dev.mem) : q.type = "tcs"}}
    <3>1. PICK k \in Before : "tcs" \in segs[k].flags /\ p \in {PageAt(segs[k], n) : n \in 1..PagesOf(segs[k])}
      BY <2>1
    <3>2. PICK n \in 1..PagesOf(segs[k]) : p = PageAt(segs[k], n)
      BY <3>1
    <3>3. PICK i \in DOMAIN dev.mem : dev.mem[i] = Entry(segs[k], n)
      BY <2>1 DEF PagesInv
    <3>4. dev.mem[i] \in ToSet(dev.mem) /\ dev.mem[i].at = p /\ dev.mem[i].type = "tcs"
      BY <2>2, <3>1, <3>2, <3>3 DEF ToSet
    <3> QED
      BY <3>4
  <2>4. ASSUME NEW p \in {m.at : m \in {q \in ToSet(dev.mem) : q.type = "tcs"}} PROVE p \in bld.tcs
    <3>1. PICK i \in DOMAIN dev.mem : p = dev.mem[i].at /\ dev.mem[i].type = "tcs"
      BY DEF ToSet
    <3>2. PICK k \in Before : \E n \in 1..PagesOf(segs[k]) : dev.mem[i] = Entry(segs[k], n)
      BY <2>1 DEF PagesInv
    <3>3. PICK n \in 1..PagesOf(segs[k]) : dev.mem[i] = Entry(segs[k], n)
      BY <3>2
    <3>4. p = PageAt(segs[k], n) /\ "tcs" \in segs[k].flags
      BY <2>2, <3>1, <3>3
    <3> QED
      BY <2>1, <3>4
  <2> QED
    BY <2>3, <2>4
<1>2. ASSUME tech # "sgx"
      PROVE  /\ bld.sallyports # {}
             /\ \A n \in DOMAIN bld.regions : bld.regions[n] = dev.slots[n] /\ dev.slots[n].backed
  BY <1>2, RunningFacts DEF LaunchInv, RegionsInv, RunningInv
<1> QED
  BY <1>1, <1>2, BlocksApart, BlocksAligned DEF DoorsSound
-----------------------------------------------------------------------------
(* What the host promises of every launch.                                 *)

(* Whatever the backend, the files, the retries, the failures and the      *)
(* pages a signal kept from an enclave: what a launch has built at each    *)
(* step is what its segments so far ask for (Loader::load and the          *)
(* builders).                                                              *)
THEOREM LaunchAlwaysAccounted == HostSpec => []LaunchInv
<1>1. HostInit => LaunchInv
  BY LaunchStart DEF HostInit
<1>2. LaunchInv /\ [HostNext]_host => LaunchInv'
  <2>1. [HostNext]_host => [Next]_launch
    BY DEF HostNext, host
  <2> QED
    BY <2>1, LaunchStepKeeps
<1> QED
  BY <1>1, <1>2, PTL DEF HostSpec

(* A keep that runs holds every byte of every PT_LOAD header of its shim   *)
(* and of its executable, in the page and with the type asked for, and no  *)
(* page twice (Binary::segments, the overlap check, Mapper::map of the     *)
(* three backends, and EINIT's comparison).                                *)
THEOREM KeepAlwaysComplete == HostSpec => []KeepComplete
<1>1. LaunchInv => KeepComplete
  BY CompleteFollows
<1> QED
  BY <1>1, LaunchAlwaysAccounted, PTL

(* A measurement is refused only when pages did not reach the enclave or   *)
(* the signature is of another executable: sign's hashers and the          *)
(* hardware measure the same pages in the same order, whichever the files. *)
THEOREM SignedKeepsAlwaysStart == HostSpec => []SignedKeepsStart
<1>1. LaunchInv => SignedKeepsStart
  BY DEF LaunchInv
<1> QED
  BY <1>1, LaunchAlwaysAccounted, PTL

(* The blocks of a running keep are aligned, apart and inside the          *)
(* sallyport segment, its TCS pages are pages of the enclave, and its      *)
(* regions are what KVM has in their slots (kvm_builder_map, the SGX       *)
(* builder's tcs list, Keep::map).                                         *)
THEOREM DoorsAlwaysSound == HostSpec => []DoorsSound
<1>1. LaunchInv => DoorsSound
  BY DoorsFollow
<1> QED
  BY <1>1, LaunchAlwaysAccounted, PTL

-----------------------------------------------------------------------------
(* The certificate cache.                                                  *)

\* The writer has created the lock file and not yet removed it.
Locks(w) == wpc[w] \in {"create", "copy", "remove", "giveup", "unlock"}

\* A lock nobody will remove: its writer was killed, or could not remove it.
Stuck == lock # Nobody /\ \A w \in Writers : ~Locks(w)

\* At most one writer holds the lock file, which is its own, and one that
\* exists is that of a writer that holds it, was killed or could not remove it.
Exclusion ==
    /\ \A w \in Writers : Locks(w) => lock = w
    /\ lock # Nobody => Locks(lock) \/ wpc[lock] = "killed" \/ <<lock, "lock">> \in kept

\* A writer that copies or removes works on the file of the cache's name.
OwnsFile == \A w \in Writers : wpc[w] \in {"copy", "remove"} => path = w

\* The file under the cache's name is whole unless it is being written, or its
\* writer was killed, or could not remove it.
Named(f) == \/ data[f] = "whole" \/ wpc[f] \in {"copy", "remove"}
            \/ wpc[f] = "killed" /\ Stuck
            \/ wpc[f] \in {"giveup", "error"} /\ <<f, "cert">> \in kept

\* A file somebody opened: the same, or its writer failed.
Opened(f) == Named(f) \/ wpc[f] \in {"giveup", "error"}

ReadersHold ==
    \A r \in Readers :
        /\ rpc[r] \in {"probe", "copy", "ok"} => held[r] \in Writers
        /\ rpc[r] = "probe" => Opened(held[r])
        /\ rpc[r] = "copy" => data[held[r]] = "whole" \/ wpc[held[r]] = "error"

\* A reader that goes on has tries left.
TriesLeft == \A r \in Readers : rpc[r] \in {"start", "open", "probe"} => left[r] # 0

CacheInv ==
    /\ CacheTypeOK /\ TriesLeft /\ Exclusion /\ OwnsFile
    /\ path # Nobody => Named(path)
    /\ ReadersHold /\ VcekWhole

USE CacheAssumption DEF CacheAssumption

LEMMA CacheInitInv == CacheInit => CacheInv
<1> SUFFICES ASSUME CacheInit PROVE CacheInv
  OBVIOUS
<1>1. CacheTypeOK /\ TriesLeft
  <2>1. Tries \in 0..Tries /\ Tries # 0
    OBVIOUS
  <2> QED
    BY <2>1 DEF CacheInit, CacheTypeOK, TriesLeft, Contents, WriterAt, ReaderAt
<1>2. Exclusion /\ OwnsFile
  BY DEF CacheInit, Exclusion, OwnsFile, Locks
<1>3. ReadersHold /\ VcekWhole
  BY DEF CacheInit, ReadersHold, VcekWhole
<1> QED
  BY <1>1, <1>2, <1>3 DEF CacheInv, CacheInit

\* The types, one action at a time.
LEMMA CacheTypes == CacheTypeOK /\ TriesLeft /\ ReadersHold /\ [CacheNext]_cache => CacheTypeOK' /\ TriesLeft'
<1> SUFFICES ASSUME CacheTypeOK, TriesLeft, ReadersHold, [CacheNext]_cache PROVE CacheTypeOK' /\ TriesLeft'
  OBVIOUS
<1> USE DEF CacheTypeOK, TriesLeft, Contents, WriterAt, ReaderAt, WriterGoes, ReaderGoes,
                            ReaderKeeps, WriterKeeps
<1>1. ASSUME NEW w \in Writers, Write(w) PROVE CacheTypeOK' /\ TriesLeft'
  <2>1. CASE Begin(w)
    BY <2>1 DEF Begin
  <2>2. CASE TakeLock(w)
    BY <2>2 DEF TakeLock
  <2>3. CASE Create(w)
    BY <2>3 DEF Create
  <2>4. CASE Copy(w)
    BY <2>4 DEF Copy
  <2>5. CASE RemoveFile(w)
    BY <2>5 DEF RemoveFile, Stays
  <2>6. CASE GiveUp(w)
    BY <2>6 DEF GiveUp, DropLock, Stays
  <2>7. CASE Unlock(w)
    BY <2>7 DEF Unlock, DropLock, Stays
  <2> QED
    BY <1>1, <2>1, <2>2, <2>3, <2>4, <2>5, <2>6, <2>7 DEF Write
<1>2. ASSUME NEW w \in Writers, Kill(w) PROVE CacheTypeOK' /\ TriesLeft'
  BY <1>2 DEF Kill
<1>3. ASSUME NEW r \in Readers, Read(r) PROVE CacheTypeOK' /\ TriesLeft'
  <2>1. CASE Ask(r)
    BY <2>1 DEF Ask
  <2>2. CASE Open(r)
    <3>1. held' \in [Readers -> Writers \cup {Nobody}] /\ rpc' \in [Readers -> ReaderAt]
      BY <2>2 DEF Open
    <3> QED
      BY <2>2, <3>1 DEF Open
  <2>3. CASE Probe(r)
    <3>1. left[r] \in 0..Tries /\ left[r] # 0
      BY <2>3 DEF Probe
    <3>2. left[r] - 1 \in 0..Tries /\ (left[r] # 1 => left[r] - 1 # 0)
      BY <3>1
    <3>3. left' \in [Readers -> 0..Tries]
      BY <2>3, <3>2 DEF Probe
    <3>4. TriesLeft'
      BY <2>3, <3>2 DEF Probe
    <3> QED
      BY <2>3, <3>3, <3>4 DEF Probe
  <2>4. CASE Deliver(r)
    <3>1. data[held[r]] \in Contents
      BY <2>4 DEF Deliver, ReadersHold
    <3> QED
      BY <2>4, <3>1 DEF Deliver
  <2> QED
    BY <1>3, <2>1, <2>2, <2>3, <2>4 DEF Read
<1>4. CASE UNCHANGED cache
  BY <1>4 DEF cache
<1> QED
  BY <1>1, <1>2, <1>3, <1>4 DEF CacheNext

-----------------------------------------------------------------------------
(* What a writer's step does to the files. *)

\* A lock that a writer left behind stays.
LEMMA StuckStays ==
    ASSUME CacheTypeOK, Exclusion, Stuck, [CacheNext]_cache
    PROVE  Stuck'
<1> USE DEF CacheTypeOK, Stuck, Locks, WriterGoes, ReaderKeeps, WriterKeeps
<1>1. ASSUME NEW w \in Writers, Begin(w) PROVE Stuck'
  BY <1>1 DEF Begin
<1>2. ASSUME NEW w \in Writers, TakeLock(w) PROVE Stuck'
  BY <1>2 DEF TakeLock
<1>3. ASSUME NEW w \in Writers, Create(w) PROVE Stuck'
  BY <1>3 DEF Create
<1>4. ASSUME NEW w \in Writers, Copy(w) PROVE Stuck'
  BY <1>4 DEF Copy
<1>5. ASSUME NEW w \in Writers, RemoveFile(w) PROVE Stuck'
  BY <1>5 DEF RemoveFile, Stays
<1>6. ASSUME NEW w \in Writers, GiveUp(w) PROVE Stuck'
  BY <1>6 DEF GiveUp, DropLock, Stays
<1>7. ASSUME NEW w \in Writers, Unlock(w) PROVE Stuck'
  BY <1>7 DEF Unlock, DropLock, Stays
<1>8. ASSUME NEW w \in Writers, Kill(w) PROVE Stuck'
  BY <1>8 DEF Kill
<1>9. ASSUME NEW r \in Readers, Read(r) PROVE Stuck'
  BY <1>9 DEF Read, Ask, Open, Probe, Deliver
<1>10. CASE UNCHANGED cache
  BY <1>10 DEF cache
<1> QED
  BY <1>1, <1>2, <1>3, <1>4, <1>5, <1>6, <1>7, <1>8, <1>9, <1>10 DEF CacheNext, Write

LEMMA WriterInv ==
    ASSUME CacheInv, NEW w \in Writers, Write(w) \/ Kill(w)
    PROVE  Exclusion' /\ OwnsFile'
<1> USE DEF CacheInv, CacheTypeOK, Exclusion, OwnsFile, Locks, WriterGoes
<1>1. CASE Begin(w)
  BY <1>1 DEF Begin
<1>2. CASE TakeLock(w)
  BY <1>2 DEF TakeLock
<1>3. CASE Create(w)
  BY <1>3 DEF Create
<1>4. CASE Copy(w)
  BY <1>4 DEF Copy
<1>5. CASE RemoveFile(w)
  BY <1>5 DEF RemoveFile, Stays
<1>6. CASE GiveUp(w)
  BY <1>6 DEF GiveUp, DropLock, Stays
<1>7. CASE Unlock(w)
  BY <1>7 DEF Unlock, DropLock, Stays
<1>8. CASE Kill(w)
  BY <1>8 DEF Kill
<1> QED
  BY <1>1, <1>2, <1>3, <1>4, <1>5, <1>6, <1>7, <1>8 DEF Write

\* A file that is whole stays so, and so does a writer's failure.
LEMMA WriterKeepsGood ==
    ASSUME CacheInv, NEW w \in Writers, Write(w) \/ Kill(w), NEW f \in Writers
    PROVE  /\ data[f] = "whole" => data'[f] = "whole"
           /\ wpc[f] = "error" => wpc'[f] = "error"
<1> USE DEF CacheInv, CacheTypeOK, WriterGoes
<1>1. CASE Begin(w)
  BY <1>1 DEF Begin
<1>2. CASE TakeLock(w)
  BY <1>2 DEF TakeLock
<1>3. CASE Create(w)
  BY <1>3 DEF Create
<1>4. CASE Copy(w)
  BY <1>4 DEF Copy
<1>5. CASE RemoveFile(w)
  BY <1>5 DEF RemoveFile, Stays
<1>6. CASE GiveUp(w)
  BY <1>6 DEF GiveUp, DropLock, Stays
<1>7. CASE Unlock(w)
  BY <1>7 DEF Unlock, DropLock, Stays
<1>8. CASE Kill(w)
  BY <1>8 DEF Kill
<1> QED
  BY <1>1, <1>2, <1>3, <1>4, <1>5, <1>6, <1>7, <1>8 DEF Write

\* A killed writer that had the lock leaves it stuck.
LEMMA KillSticks ==
    ASSUME CacheInv, NEW w \in Writers, Kill(w), Locks(w)
    PROVE  Stuck'
BY DEF CacheInv, CacheTypeOK, Exclusion, Locks, Kill, WriterGoes, Stuck

LEMMA WriterNamed ==
    ASSUME CacheInv, NEW w \in Writers, Write(w) \/ Kill(w), path' # Nobody
    PROVE  Named(path)'
<1>0. Stuck => Stuck'
  BY StuckStays DEF CacheInv, CacheNext
<1>1. CASE Kill(w)
  <2>1. path' = path /\ Named(path) /\ data' = data
    BY <1>1 DEF Kill, CacheInv
  <2>2. wpc[path] \in {"copy", "remove", "giveup"} /\ path = w => Stuck'
    BY <1>1, KillSticks DEF Locks
  <2> QED
    BY <1>0, <1>1, <2>1, <2>2 DEF Kill, CacheInv, CacheTypeOK, Named, WriterGoes, OwnsFile
<1> USE DEF CacheInv, CacheTypeOK, Named, WriterGoes, OwnsFile
<1>2. CASE Begin(w)
  BY <1>0, <1>2 DEF Begin
<1>3. CASE TakeLock(w)
  BY <1>0, <1>3 DEF TakeLock
<1>4. CASE Create(w)
  BY <1>0, <1>4 DEF Create
<1>5. CASE Copy(w)
  BY <1>0, <1>5 DEF Copy
<1>6. CASE RemoveFile(w)
  BY <1>0, <1>6 DEF RemoveFile, Stays
<1>7. CASE GiveUp(w)
  BY <1>0, <1>7 DEF GiveUp, DropLock, Stays
<1>8. CASE Unlock(w)
  BY <1>0, <1>8 DEF Unlock, DropLock, Stays
<1> QED
  BY <1>1, <1>2, <1>3, <1>4, <1>5, <1>6, <1>7, <1>8 DEF Write

LEMMA WriterOpened ==
    ASSUME CacheInv, NEW w \in Writers, Write(w) \/ Kill(w), NEW f \in Writers, Opened(f)
    PROVE  Opened(f)'
<1>0. Stuck => Stuck'
  BY StuckStays DEF CacheInv, CacheNext
<1>1. CASE Kill(w)
  <2>2. wpc[f] \in {"copy", "remove", "giveup"} /\ f = w => Stuck'
    BY <1>1, KillSticks DEF Locks
  <2> QED
    BY <1>0, <1>1, <2>2 DEF Kill, CacheInv, CacheTypeOK, Named, Opened, WriterGoes
<1> USE DEF CacheInv, CacheTypeOK, Named, Opened, WriterGoes
<1>2. CASE Begin(w)
  BY <1>0, <1>2 DEF Begin
<1>3. CASE TakeLock(w)
  BY <1>0, <1>3 DEF TakeLock
<1>4. CASE Create(w)
  BY <1>0, <1>4 DEF Create
<1>5. CASE Copy(w)
  BY <1>0, <1>5 DEF Copy
<1>6. CASE RemoveFile(w)
  BY <1>0, <1>6 DEF RemoveFile, Stays
<1>7. CASE GiveUp(w)
  BY <1>0, <1>7 DEF GiveUp, DropLock, Stays
<1>8. CASE Unlock(w)
  BY <1>0, <1>8 DEF Unlock, DropLock, Stays
<1> QED
  BY <1>1, <1>2, <1>3, <1>4, <1>5, <1>6, <1>7, <1>8 DEF Write

LEMMA WriterStep ==
    ASSUME CacheInv, NEW w \in Writers, Write(w) \/ Kill(w)
    PROVE  ReadersHold' /\ VcekWhole'
<1>1. UNCHANGED <<rpc, left, held, got>>
  BY DEF Write, Begin, TakeLock, Create, Copy, RemoveFile, GiveUp, Unlock, DropLock, Kill, ReaderKeeps
<1>2. ReadersHold'
  <2> SUFFICES ASSUME NEW r \in Readers
               PROVE  /\ rpc[r] \in {"probe", "copy", "ok"} => held[r] \in Writers
                      /\ rpc[r] = "probe" => Opened(held[r])'
                      /\ rpc[r] = "copy" => data'[held[r]] = "whole" \/ wpc'[held[r]] = "error"
    BY <1>1 DEF ReadersHold
  <2>1. rpc[r] \in {"probe", "copy", "ok"} => held[r] \in Writers
    BY DEF CacheInv, ReadersHold
  <2>2. ASSUME rpc[r] = "probe" PROVE Opened(held[r])'
    <3>1. held[r] \in Writers /\ Opened(held[r])
      BY <2>2 DEF CacheInv, ReadersHold
    <3>2. held'[r] = held[r]
      BY <1>1
    <3> QED
      BY <1>1, <3>1, <3>2, WriterOpened DEF Opened, Named
  <2>3. ASSUME rpc[r] = "copy" PROVE data'[held[r]] = "whole" \/ wpc'[held[r]] = "error"
    BY <2>3, WriterKeepsGood DEF CacheInv, ReadersHold
  <2> QED
    BY <2>1, <2>2, <2>3
<1>3. VcekWhole'
  <2> SUFFICES ASSUME NEW r \in Readers, rpc[r] = "ok", got[r] # "whole"
               PROVE  wpc'[held[r]] = "error"
    BY <1>1 DEF VcekWhole
  <2>1. held[r] \in Writers /\ wpc[held[r]] = "error"
    BY DEF CacheInv, ReadersHold, VcekWhole
  <2> QED
    BY <2>1, WriterKeepsGood
<1> QED
  BY <1>2, <1>3

-----------------------------------------------------------------------------
(* A reader's step. *)

LEMMA ReaderStep ==
    ASSUME CacheInv, NEW r \in Readers, Read(r)
    PROVE  /\ Exclusion' /\ OwnsFile' /\ (path' # Nobody => Named(path)')
           /\ ReadersHold' /\ VcekWhole'
<1>0. UNCHANGED <<path, lock, data, wpc, kept>>
  BY DEF Read, Ask, Open, Probe, Deliver, WriterKeeps
<1>1. Exclusion' /\ OwnsFile' /\ (path' # Nobody => Named(path)')
  BY <1>0 DEF CacheInv, Exclusion, OwnsFile, Named, Stuck, Locks
<1>2. \A f : Opened(f)' <=> Opened(f)
  BY <1>0 DEF Opened, Named, Stuck, Locks
<1>3. ReadersHold' /\ VcekWhole'
  <2> USE <1>0 DEF CacheInv, CacheTypeOK, ReadersHold, VcekWhole, ReaderGoes
  <2>1. CASE Ask(r)
    BY <2>1, <1>2 DEF Ask
  <2>2. CASE Open(r)
    <3>1. path # Nobody => path \in Writers /\ Opened(path)
      BY DEF Opened
    <3> QED
      BY <2>2, <1>2, <3>1 DEF Open
  <2>3. CASE Probe(r)
    <3>1. lock = Nobody => data[held[r]] = "whole" \/ wpc[held[r]] = "error"
      <4>1. held[r] \in Writers /\ Opened(held[r])  BY <2>3 DEF Probe
      <4>2. lock = Nobody => ~Stuck /\ ~Locks(held[r])  BY <4>1 DEF Exclusion, Stuck
      <4> QED  BY <4>1, <4>2 DEF Opened, Named, Locks
    <3> QED
      BY <2>3, <1>2, <3>1 DEF Probe
  <2>4. CASE Deliver(r)
    BY <2>4, <1>2 DEF Deliver
  <2> QED
    BY <2>1, <2>2, <2>3, <2>4 DEF Read
<1> QED
  BY <1>1, <1>3

LEMMA CacheNextInv == CacheInv /\ [CacheNext]_cache => CacheInv'
<1> SUFFICES ASSUME CacheInv, [CacheNext]_cache PROVE CacheInv'
  OBVIOUS
<1>1. CacheTypeOK' /\ TriesLeft'
  BY CacheTypes DEF CacheInv
<1>2. ASSUME NEW w \in Writers, Write(w) \/ Kill(w) PROVE CacheInv'
  BY <1>1, <1>2, WriterInv, WriterNamed, WriterStep DEF CacheInv
<1>3. ASSUME NEW r \in Readers, Read(r) PROVE CacheInv'
  BY <1>1, <1>3, ReaderStep DEF CacheInv
<1>4. CASE UNCHANGED cache
  BY <1>4 DEF cache, CacheInv, CacheTypeOK, TriesLeft, Exclusion, OwnsFile, Named, Opened, Stuck, Locks,
              ReadersHold, VcekWhole
<1> QED
  BY <1>2, <1>3, <1>4 DEF CacheNext

LEMMA CacheAlways == CacheSpec => []CacheInv
BY CacheInitInv, CacheNextInv, PTL DEF CacheSpec

-----------------------------------------------------------------------------
(* However many keeps and updates use the cache, wherever updates are       *)
(* killed and whichever of their file system calls fail, read (vcek.rs)     *)
(* hands a guest a torn certificate only when the update that was writing   *)
(* it failed.                                                               *)
THEOREM VcekWholeAlways == CacheSpec => []VcekWhole
<1>1. CacheInv => VcekWhole
  BY DEF CacheInv
<1> QED
  BY <1>1, CacheAlways, PTL

(* A lock that exists, or a certificate that is not whole, is that of an    *)
(* update at work, of one that was killed, or of one whose remove_file of   *)
(* that very file failed (write's error paths in vcek.rs).                  *)
THEOREM NothingLeftBehindAlways == CacheSpec => []NothingLeftBehind
<1>1. CacheInv => NothingLeftBehind
  BY DEF CacheInv, CacheTypeOK, Exclusion, Locks, Named, NothingLeftBehind
<1> QED
  BY <1>1, CacheAlways, PTL

(* At most one update at a time is between taking the lock file and         *)
(* removing it, and the file it writes is the one under the cache's name.   *)
THEOREM WritersExclude == CacheSpec => [](Exclusion /\ OwnsFile)
<1>1. CacheInv => Exclusion /\ OwnsFile
  BY DEF CacheInv
<1> QED
  BY <1>1, CacheAlways, PTL
=============================================================================
