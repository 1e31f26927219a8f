--------------------------- MODULE FlattenProofs ---------------------------
(***************************************************************************)
(* What FlattenSeq of the community modules computes.  Its definition is   *)
(* recursive, and the facts about it are proved from this one: a nonempty  *)
(* set of natural numbers has a least element.                             *)
(***************************************************************************)
EXTENDS Naturals, Sequences, FiniteSets, SequencesExt, FiniteSetTheorems, TLAPS

\* Initial segments of the natural numbers are well-founded by inclusion, so
\* that a set of natural numbers has a least element.
LEMMA LeastNatural ==
  ASSUME NEW S \in SUBSET Nat, S # {}
  PROVE  \E n \in S : \A m \in S : n <= m
<1> DEFINE R == StrictSubsetOrdering(Nat)
           T == {0 .. n : n \in S}
<1>1. IsWellFoundedOn(R, FiniteSubsetsOf(Nat))
  BY FS_StrictSubsetOrderingWellFounded
<1>2. T \subseteq FiniteSubsetsOf(Nat) /\ T # {}
  <2>1. \A n \in S : 0 .. n \subseteq Nat /\ IsFiniteSet(0 .. n)
    BY FS_Interval
  <2> QED
    BY <2>1 DEF FiniteSubsetsOf
<1> HIDE DEF R
<1>3. \E x \in T : \A y \in T : <<y, x>> \notin R
  BY <1>1, <1>2, WFMin
<1>4. PICK n \in S : \A y \in T : <<y, 0 .. n>> \notin R
  BY <1>3
<1>5. ASSUME NEW m \in S, ~(n <= m) PROVE FALSE
  <2>1. 0 .. m \subseteq 0 .. n /\ n \in 0 .. n /\ n \notin 0 .. m
    BY <1>5
  <2>2. <<0 .. m, 0 .. n>> \in R
    BY <2>1 DEF R, StrictSubsetOrdering
  <2> QED
    BY <1>4, <2>2
<1> QED
  BY <1>4, <1>5

\* f has what the first n sequences of ss are together, for each n from 1.
Flattens(f, ss, n) ==
  f = [i \in 1 .. n |-> IF i = 1 THEN ss[i] ELSE f[i - 1] \o ss[i]]

LEMMA FlattensAt ==
  ASSUME NEW f, NEW ss, NEW n \in Nat, Flattens(f, ss, n), NEW i \in 1 .. n
  PROVE  f[i] = IF i = 1 THEN ss[i] ELSE f[i - 1] \o ss[i]
BY DEF Flattens

LEMMA FlattenExists ==
  ASSUME NEW ss, NEW n \in Nat
  PROVE  \E f : Flattens(f, ss, n)
<1> DEFINE Bad == {m \in Nat : ~ \E f : Flattens(f, ss, m)}
<1> SUFFICES Bad = {}
  OBVIOUS
<1> SUFFICES ASSUME NEW m \in Bad, \A k \in Bad : m <= k
             PROVE  FALSE
  BY LeastNatural
<1>1. CASE m = 0
  <2> DEFINE f == [i \in 1 .. 0 |-> <<>>]
  <2>1. Flattens(f, ss, 0)
    BY DEF Flattens
  <2> QED
    BY <1>1, <2>1
<1>2. CASE m > 0
  <2>1. m \in Nat /\ m - 1 \in Nat /\ m - 1 \notin Bad
    BY <1>2
  <2>2. PICK f : Flattens(f, ss, m - 1)
    BY <2>1
  <2> DEFINE g == [i \in 1 .. m |-> IF i < m THEN f[i] ELSE
                                   IF i = 1 THEN ss[i] ELSE f[i - 1] \o ss[i]]
  <2>3. ASSUME NEW i \in 1 .. m
        PROVE  g[i] = IF i = 1 THEN ss[i] ELSE g[i - 1] \o ss[i]
    <3>1. i < m => i \in 1 .. m - 1
      BY <2>1
    <3>2. i < m => f[i] = IF i = 1 THEN ss[i] ELSE f[i - 1] \o ss[i]
      BY <2>1, <2>2, <3>1, FlattensAt
    <3>3. i # 1 => i - 1 \in 1 .. m /\ i - 1 < m
      BY <2>1
    <3>4. i # 1 => g[i - 1] = f[i - 1]
      BY <3>3
    <3> QED
      BY <2>1, <3>2, <3>4
  <2>4. g = [i \in 1 .. m |-> g[i]]
    OBVIOUS
  <2> HIDE DEF g
  <2>5. Flattens(g, ss, m)
    BY <2>3, <2>4 DEF Flattens
  <2> QED
    BY <2>5
<1> QED
  BY <1>1, <1>2

LEMMA FlattenUnique ==
  ASSUME NEW ss, NEW tt, NEW n \in Nat, NEW k \in Nat, n <= k,
         \A i \in 1 .. n : ss[i] = tt[i],
         NEW f, Flattens(f, ss, n), NEW g, Flattens(g, tt, k)
  PROVE  \A i \in 1 .. n : f[i] = g[i]
<1> DEFINE Bad == {i \in 1 .. n : f[i] # g[i]}
<1>0. Bad \in SUBSET Nat
  OBVIOUS
<1> SUFFICES ASSUME NEW m \in Bad, \A i \in Bad : m <= i
             PROVE  FALSE
  <2>1. Bad # {} => \E m \in Bad : \A i \in Bad : m <= i
    <3> HIDE DEF Bad
    <3> QED
      BY <1>0, LeastNatural
  <2> QED
    BY <2>1
<1>1. m \in 1 .. n /\ m \in 1 .. k /\ (m # 1 => m - 1 \in 1 .. n /\ m - 1 \notin Bad)
  OBVIOUS
<1>2. m # 1 => f[m - 1] = g[m - 1]
  BY <1>1
<1>3. f[m] = IF m = 1 THEN ss[m] ELSE f[m - 1] \o ss[m]
  BY <1>1, FlattensAt
<1>4. g[m] = IF m = 1 THEN tt[m] ELSE g[m - 1] \o tt[m]
  BY <1>1, FlattensAt
<1> QED
  BY <1>1, <1>2, <1>3, <1>4

LEMMA FlattenIs ==
  ASSUME NEW ss, Len(ss) \in Nat \ {0}
  PROVE  \E f : Flattens(f, ss, Len(ss)) /\ FlattenSeq(ss) = f[Len(ss)]
<1> DEFINE fl[i \in 1 .. Len(ss)] == IF i = 1 THEN ss[i] ELSE fl[i - 1] \o ss[i]
<1>1. \E f : Flattens(f, ss, Len(ss))
  BY FlattenExists
<1>2. Flattens(fl, ss, Len(ss))
  BY <1>1 DEF fl, Flattens
<1>3. FlattenSeq(ss) = fl[Len(ss)]
  BY DEF FlattenSeq
<1> HIDE DEF fl
<1> QED
  BY <1>2, <1>3

\* A single sequence is what it is ...
LEMMA FlattenOne ==
  ASSUME NEW ss, Len(ss) = 1
  PROVE  FlattenSeq(ss) = ss[1]
<1>1. 1 \in Nat \ {0} /\ 1 \in Nat /\ 1 \in 1 .. 1
  OBVIOUS
<1>2. PICK f : Flattens(f, ss, 1) /\ FlattenSeq(ss) = f[1]
  BY <1>1, FlattenIs, Zenon
<1>3. f[1] = ss[1]
  BY <1>2 DEF Flattens
<1> QED
  BY <1>2, <1>3

\* ... and one more is appended to what those before it are.
THEOREM FlattenMore ==
  ASSUME NEW ss, NEW tt, NEW n \in Nat \ {0}, NEW k \in Nat, k = n + 1,
         Len(ss) = n, Len(tt) = k, \A i \in 1 .. n : ss[i] = tt[i]
  PROVE  FlattenSeq(tt) = FlattenSeq(ss) \o tt[k]
<1>1. PICK f : Flattens(f, ss, n) /\ FlattenSeq(ss) = f[n]
  BY FlattenIs
<1>2. PICK g : Flattens(g, tt, k) /\ FlattenSeq(tt) = g[k]
  BY FlattenIs
<1>3. n \in Nat /\ n <= k /\ n \in 1 .. n /\ k \in 1 .. k /\ k # 1 /\ k - 1 = n
  OBVIOUS
<1>4. \A i \in 1 .. n : f[i] = g[i]
  <2>1. Flattens(f, ss, n)
    BY <1>1
  <2>2. Flattens(g, tt, k)
    BY <1>2
  <2>3. \A i \in 1 .. n : ss[i] = tt[i]
    OBVIOUS
  <2> QED
    BY ONLY <1>3, <2>1, <2>2, <2>3, FlattenUnique
<1>5. g[k] = g[k - 1] \o tt[k]
  <2>1. g = [i \in 1 .. k |-> IF i = 1 THEN tt[i] ELSE g[i - 1] \o tt[i]]
    BY <1>2 DEF Flattens
  <2>2. g[k] = IF k = 1 THEN tt[k] ELSE g[k - 1] \o tt[k]
    BY ONLY <1>3, <2>1
  <2> QED
    BY <1>3, <2>2
<1> QED
  BY <1>1, <1>2, <1>3, <1>4, <1>5
=============================================================================
