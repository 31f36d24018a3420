----------------------------- MODULE DataLemmas -----------------------------
(***************************************************************************)
(* What holds of every number, set and table: the least and the greatest   *)
(* element, induction, and the tables that the folds of the community      *)
(* modules choose.  Induction is stated of sets: a property is the set of  *)
(* what has it, so a lemma needs no operator for a parameter.              *)
(***************************************************************************)
EXTENDS Integers, FiniteSetsExt, FiniteSetTheorems, WellFoundedInduction, TLAPS

-----------------------------------------------------------------------------
(* Numbers.                                                                *)

LEMMA LeastOfNat ==
  ASSUME NEW T \in SUBSET Nat, T # {}
  PROVE  \E x \in T : \A y \in T : x <= y
<1> DEFINE R == {pair \in Nat \X Nat : pair[1] < pair[2]}
<1>1. IsWellFoundedOn(R, Nat)
  BY NatLessThanWellFounded DEF OpToRel
<1>2. \A x, y \in Nat : x < y => <<x, y>> \in R
  OBVIOUS
<1> HIDE DEF R
<1>3. PICK x \in T : \A y \in T : <<y, x>> \notin R
  BY <1>1, WFMin
<1>4. \A y \in T : x <= y
  <2> TAKE y \in T
  <2>1. ~(y < x)
    BY <1>2, <1>3
  <2> QED BY <2>1
<1> QED BY <1>4

LEMMA GreatestOfBounded ==
  ASSUME NEW n \in Nat, NEW T \in SUBSET (0 .. n), T # {}
  PROVE  \E x \in T : \A y \in T : y <= x
<1> DEFINE Below == {n - x : x \in T}
<1>0. \A x \in T : x \in Nat /\ n - x \in Nat
  OBVIOUS
<1>1. Below \in SUBSET Nat /\ Below # {}
  BY <1>0
<1>2. PICK least \in Below : \A y \in Below : least <= y
  BY <1>1, LeastOfNat
<1>3. PICK x \in T : least = n - x
  BY <1>2
<1>4. \A y \in T : n - y \in Below
  OBVIOUS
<1> HIDE DEF Below
<1>5. \A y \in T : y <= x
  <2> TAKE y \in T
  <2>1. n - x <= n - y
    BY <1>2, <1>3, <1>4
  <2> QED BY <2>1
<1> QED BY <1>5

LEMMA MaxIsGreatest ==
  ASSUME NEW n \in Nat, NEW T \in SUBSET (0 .. n), T # {}
  PROVE  Max(T) \in T /\ \A y \in T : y <= Max(T)
<1>1. PICK x \in T : \A y \in T : y <= x
  BY GreatestOfBounded
<1>2. \A y \in T : x >= y
  BY <1>1
<1> QED BY <1>2 DEF Max

LEMMA NumbersByInduction ==
  ASSUME NEW T, 0 \in T, \A n \in Nat : n \in T => n + 1 \in T
  PROVE  Nat \subseteq T
<1> DEFINE Bad == {n \in Nat : n \notin T}
<1> SUFFICES ASSUME Bad # {}
             PROVE  FALSE
  OBVIOUS
<1>1. Bad \in SUBSET Nat
  OBVIOUS
<1> HIDE DEF Bad
<1>2. PICK n \in Bad : \A m \in Bad : n <= m
  BY <1>1, LeastOfNat
<1> USE DEF Bad
<1>3. n \in Nat /\ n # 0 /\ n - 1 \in Nat
  BY <1>2
<1>4. n - 1 \in T
  <2>1. n - 1 \notin Bad
    BY <1>2, <1>3
  <2> QED BY <2>1, <1>3
<1>5. (n - 1) + 1 = n
  BY <1>3
<1> QED BY <1>2, <1>3, <1>4, <1>5

-----------------------------------------------------------------------------
(* Sets.                                                                   *)

LEMMA CardinalityOfRest ==
  ASSUME NEW S, IsFiniteSet(S), NEW x \in S
  PROVE  /\ IsFiniteSet(S \ {x}) /\ Cardinality(S) \in Nat /\ Cardinality(S \ {x}) \in Nat
         /\ Cardinality(S) = Cardinality(S \ {x}) + 1
<1>1. IsFiniteSet(S \ {x}) /\ Cardinality(S \ {x}) = Cardinality(S) - 1
  BY FS_RemoveElement
<1>2. Cardinality(S) \in Nat /\ Cardinality(S \ {x}) \in Nat
  BY <1>1, FS_CardinalityType
<1> QED BY <1>1, <1>2

\* What holds of no element at all, and of a set whenever it holds without some
\* element of it, holds of every part of a finite set.
LEMMA SetsByInduction ==
  ASSUME NEW S, IsFiniteSet(S), NEW T, {} \in T,
         \A s \in SUBSET S : s # {} => \E x \in s : s \ {x} \in T => s \in T
  PROVE  SUBSET S \subseteq T
<1> DEFINE Of(n) == {s \in SUBSET S : Cardinality(s) = n}
           Good == {n \in Nat : Of(n) \subseteq T}
<1>0. Cardinality({}) = 0
  BY FS_EmptySet
<1>1. \A s \in SUBSET S : IsFiniteSet(s) /\ Cardinality(s) \in Nat
  BY FS_Subset, FS_CardinalityType
<1>2. 0 \in Good
  BY <1>1, FS_EmptySet
<1>3. ASSUME NEW n \in Nat, n \in Good
      PROVE  n + 1 \in Good
  <2> SUFFICES ASSUME NEW s \in SUBSET S, Cardinality(s) = n + 1
               PROVE  s \in T
    OBVIOUS
  <2>1. s # {}
    <3>1. n + 1 # 0 /\ Cardinality(s) # 0
      OBVIOUS
    <3> QED BY ONLY <1>0, <3>1
  <2>2. PICK x \in s : s \ {x} \in T => s \in T
    BY <2>1
  <2>3. Cardinality(s \ {x}) = n
    BY <1>1, CardinalityOfRest
  <2> QED BY <1>3, <2>2, <2>3
<1> HIDE DEF Good
<1>4. Nat \subseteq Good
  BY <1>2, <1>3, NumbersByInduction
<1> QED BY <1>1, <1>4 DEF Good

-----------------------------------------------------------------------------
(* Folds.  A fold chooses a table of its values for every part of a set:   *)
(* there is one, whatever an element does to the value before it.          *)

\* g[s] is what the fold of s comes to, the element pick[s] taken last.
TableOf(g, S, pick, V, base, step) ==
  /\ g \in [SUBSET S -> V]
  /\ \A s \in SUBSET S :
       g[s] = IF s = {} THEN base ELSE step[<<pick[s], g[s \ {pick[s]}]>>]

LEMMA TableExists ==
  ASSUME NEW S, IsFiniteSet(S), NEW V, NEW base \in V, NEW step \in [S \X V -> V],
         NEW pick, \A s \in SUBSET S : s # {} => pick[s] \in s
  PROVE  \E g : TableOf(g, S, pick, V, base, step)
<1> DEFINE Row(g, s) == g[s] = IF s = {} THEN base ELSE step[<<pick[s], g[s \ {pick[s]}]>>]
           Upto(m) == \E g \in [SUBSET S -> V] :
                        \A s \in SUBSET S : Cardinality(s) <= m => Row(g, s)
           T == {m \in Nat : Upto(m)}
<1>0. \A s \in SUBSET S : IsFiniteSet(s) /\ Cardinality(s) \in Nat
  BY FS_Subset, FS_CardinalityType
<1>9. Cardinality({}) = 0
  BY FS_EmptySet
<1>1. 0 \in T
  <2>1. [s \in SUBSET S |-> base] \in [SUBSET S -> V]
    OBVIOUS
  <2>2. \A s \in SUBSET S : Cardinality(s) <= 0 => s = {}
    BY <1>0, FS_EmptySet
  <2> QED BY <2>1, <2>2
<1>2. ASSUME NEW m \in Nat, Upto(m)
      PROVE  Upto(m + 1)
  <2>1. PICK g \in [SUBSET S -> V] : \A s \in SUBSET S : Cardinality(s) <= m => Row(g, s)
    BY <1>2
  <2> DEFINE Before(s) == s \ {pick[s]}
             h == [s \in SUBSET S |->
                     IF Cardinality(s) = m + 1 THEN step[<<pick[s], g[Before(s)]>>] ELSE g[s]]
  <2>2. \A s \in SUBSET S : s # {} =>
           /\ pick[s] \in S /\ Before(s) \in SUBSET S
           /\ Cardinality(s) = Cardinality(Before(s)) + 1
    BY <1>0, CardinalityOfRest
  <2>3. h \in [SUBSET S -> V]
    <3> SUFFICES ASSUME NEW s \in SUBSET S, Cardinality(s) = m + 1
                 PROVE  step[<<pick[s], g[Before(s)]>>] \in V
      OBVIOUS
    <3>1. s # {}
      <4>1. m + 1 # 0 /\ Cardinality(s) # 0
        OBVIOUS
      <4> QED BY ONLY <1>9, <4>1
    <3>2. <<pick[s], g[Before(s)]>> \in S \X V
      BY <2>2, <3>1
    <3> QED BY <3>2
  <2>4. ASSUME NEW s \in SUBSET S, Cardinality(s) <= m + 1
        PROVE  Row(h, s)
    <3>1. CASE s = {}
      <4>1. Cardinality(s) = 0
        BY <3>1, FS_EmptySet
      <4>2. h[s] = g[s] /\ Row(g, s)
        BY <2>1, <4>1
      <4> QED BY <3>1, <4>2
    <3>2. CASE s # {}
      <4>1. /\ Before(s) \in SUBSET S
            /\ Cardinality(s) = Cardinality(Before(s)) + 1 /\ Cardinality(Before(s)) \in Nat
        BY <1>0, <2>2, <3>2
      <4>2. h[Before(s)] = g[Before(s)]
        BY <2>4, <4>1
      <4>3. CASE Cardinality(s) = m + 1
        BY <3>2, <4>2, <4>3
      <4>4. CASE Cardinality(s) <= m
        BY <2>1, <3>2, <4>1, <4>2, <4>4
      <4> QED BY <1>0, <2>4, <4>3, <4>4
    <3> QED BY <3>1, <3>2
  <2> HIDE DEF h
  <2> QED BY <2>3, <2>4
<1>3. Nat \subseteq T
  <2> HIDE DEF Upto
  <2>1. \A m \in Nat : m \in T => m + 1 \in T
    BY <1>2
  <2> HIDE DEF T
  <2> QED BY <1>1, <2>1, NumbersByInduction
<1>4. Cardinality(S) \in Nat
  BY <1>0
<1>5. Upto(Cardinality(S))
  <2> HIDE DEF Upto
  <2> QED BY <1>3, <1>4
<1>6. \A s \in SUBSET S : Cardinality(s) <= Cardinality(S)
  BY FS_Subset
<1>7. PICK g \in [SUBSET S -> V] :
         \A s \in SUBSET S : Cardinality(s) <= Cardinality(S) => Row(g, s)
  BY <1>5
<1> QED BY <1>6, <1>7 DEF TableOf

\* FoldLeft takes the last place last.
FoldTable(g, n, V, base, step) ==
  /\ g \in [SUBSET (1 .. n) -> V]
  /\ \A s \in SUBSET (1 .. n) :
       g[s] = IF s = {} THEN base ELSE step[<<Max(s), g[s \ {Max(s)}]>>]

LEMMA FoldTableExists ==
  ASSUME NEW n \in Nat, NEW V, NEW base \in V, NEW step \in [(1 .. n) \X V -> V]
  PROVE  \E g : FoldTable(g, n, V, base, step)
<1> DEFINE pick == [s \in SUBSET (1 .. n) |-> Max(s)]
<1>1. IsFiniteSet(1 .. n)
  BY FS_Interval
<1>2. \A s \in SUBSET (1 .. n) : pick[s] = Max(s) /\ (s # {} => pick[s] \in s)
  <2>1. \A s \in SUBSET (1 .. n) : s \in SUBSET (0 .. n)
    OBVIOUS
  <2> QED BY <2>1, MaxIsGreatest
<1> HIDE DEF pick
<1>3. PICK g : TableOf(g, 1 .. n, pick, V, base, step)
  BY <1>1, <1>2, TableExists
<1>4. g \in [SUBSET (1 .. n) -> V]
  BY <1>3 DEF TableOf
<1>5. \A s \in SUBSET (1 .. n) :
         g[s] = IF s = {} THEN base ELSE step[<<pick[s], g[s \ {pick[s]}]>>]
  BY <1>3 DEF TableOf
<1>6. \A s \in SUBSET (1 .. n) :
         g[s] = IF s = {} THEN base ELSE step[<<Max(s), g[s \ {Max(s)}]>>]
  BY ONLY <1>2, <1>5
<1> QED BY <1>4, <1>6 DEF FoldTable

\* The places before the k-th and the k-th.
LEMMA PlacesInTurn ==
  ASSUME NEW k \in Nat \ {0}
  PROVE  /\ 1 .. k # {} /\ Max(1 .. k) = k
         /\ (1 .. k) \ {k} = 1 .. (k - 1)
<1>1. 1 .. k \in SUBSET (0 .. k) /\ k \in 1 .. k /\ k \in Nat
  OBVIOUS
<1>2. Max(1 .. k) \in 1 .. k /\ k <= Max(1 .. k)
  BY <1>1, MaxIsGreatest
<1>3. (1 .. k) \ {k} = 1 .. (k - 1)
  OBVIOUS
<1> QED BY <1>1, <1>2, <1>3

-----------------------------------------------------------------------------
(* Sums.  FoldSet takes an element that it chooses last.                   *)

Some(s) == CHOOSE x \in s : TRUE

SumTable(f, amount, S) ==
  f = [s \in SUBSET S |-> IF s = {} THEN 0 ELSE amount[Some(s)] + f[s \ {Some(s)}]]

LEMMA SumOfNumbers ==
  ASSUME NEW S, IsFiniteSet(S), NEW amount \in [S -> Nat]
  PROVE  /\ \E f : SumTable(f, amount, S)
         /\ \A f : SumTable(f, amount, S) => f[S] \in Nat
<1>1. \A s : s # {} => Some(s) \in s
  BY DEF Some
<1>2. \E f : SumTable(f, amount, S)
  <2> DEFINE pick == [s \in SUBSET S |-> Some(s)]
             step == [x \in S \X Nat |-> amount[x[1]] + x[2]]
  <2>1. step \in [S \X Nat -> Nat]
    OBVIOUS
  <2>2. \A s \in SUBSET S : pick[s] = Some(s) /\ (s # {} => pick[s] \in s)
    BY <1>1
  <2>3. \A x \in S, n \in Nat : step[<<x, n>>] = amount[x] + n
    OBVIOUS
  <2> HIDE DEF pick, step
  <2>4. PICK f : TableOf(f, S, pick, Nat, 0, step)
    BY <2>1, <2>2, TableExists
  <2>5. f = [s \in SUBSET S |-> f[s]] /\ \A s \in SUBSET S : f[s] \in Nat
    BY <2>4 DEF TableOf
  <2>6. ASSUME NEW s \in SUBSET S
        PROVE  f[s] = IF s = {} THEN 0 ELSE amount[Some(s)] + f[s \ {Some(s)}]
    <3>1. CASE s = {}
      BY <2>4, <3>1 DEF TableOf
    <3>2. CASE s # {}
      <4>1. Some(s) \in S /\ f[s \ {Some(s)}] \in Nat
        BY <1>1, <2>5, <3>2
      <4>2. f[s] = step[<<Some(s), f[s \ {Some(s)}]>>]
        BY <2>2, <2>4, <3>2 DEF TableOf
      <4> QED BY <2>3, <3>2, <4>1, <4>2
    <3> QED BY <3>1, <3>2
  <2> QED BY <2>5, <2>6 DEF SumTable
<1>3. ASSUME NEW f, SumTable(f, amount, S)
      PROVE  f[S] \in Nat
  <2> DEFINE T == {s \in SUBSET S : f[s] \in Nat}
  <2>1. {} \in T
    BY <1>3 DEF SumTable
  <2>2. ASSUME NEW s \in SUBSET S, s # {}
        PROVE  \E x \in s : s \ {x} \in T => s \in T
    <3>1. Some(s) \in s /\ amount[Some(s)] \in Nat
      BY <1>1, <2>2
    <3>2. f[s] = amount[Some(s)] + f[s \ {Some(s)}]
      BY <1>3, <2>2 DEF SumTable
    <3>3. f[s \ {Some(s)}] \in Nat => f[s] \in Nat
      BY <3>1, <3>2
    <3> QED BY <3>1, <3>3
  <2> HIDE DEF T
  <2>3. SUBSET S \subseteq T
    BY <2>1, <2>2, SetsByInduction
  <2> QED BY <2>3 DEF T
<1> QED BY <1>2, <1>3
=============================================================================
