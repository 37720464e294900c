------------------------------- MODULE Induction -------------------------------
(***************************************************************************)
(* Induction over data in first-order form.  The library's induction        *)
(* theorems take a predicate as a parameter, which no backend can supply;   *)
(* the lemmas here take sets and functions instead.  They give an           *)
(* induction principle for the naturals, the equations of a left fold over  *)
(* a sequence, and the existence of a sorted enumeration of a finite set.   *)
(***************************************************************************)
EXTENDS Integers, SequencesExt, WellFoundedInduction, FiniteSetTheorems, FunctionTheorems,
        TLAPS

\* A nonempty set of naturals has a least element.
LEMMA LeastElement ==
    ASSUME NEW T, T \subseteq Nat, T # {}
    PROVE  \E m \in T : \A k \in T : m <= k
<1> DEFINE R == {ss \in Nat \X Nat : ss[1] < ss[2]}
<1>1. IsWellFoundedOn(R, Nat)
  BY NatLessThanWellFounded DEF OpToRel
<1>2. \E x \in T : \A y \in T : ~(<<y, x>> \in R)
  <2> HIDE DEF R
  <2> QED
    BY <1>1, WFMin
<1>3. PICK x \in T : \A y \in T : ~(<<y, x>> \in R)
  BY <1>2
<1>4. \A y \in T : x <= y
  <2> TAKE y \in T
  <2>1. x \in Nat /\ y \in Nat
    OBVIOUS
  <2>2. ~(y < x)
    BY <1>3, <2>1
  <2> QED
    BY <2>1, <2>2
<1> QED
  BY <1>4

\* A set that holds 0 and the successor of each natural in it holds every natural.
LEMMA SetInduction ==
    ASSUME NEW T, 0 \in T, \A n \in Nat : n \in T => n + 1 \in T
    PROVE  \A n \in Nat : n \in T
<1> DEFINE U == Nat \ T
<1> SUFFICES ASSUME U # {} PROVE FALSE
  OBVIOUS
<1>1. PICK m \in U : \A k \in U : m <= k
  BY LeastElement
<1>2. m # 0 /\ m - 1 \in Nat
  OBVIOUS
<1>3. m - 1 \in T
  BY <1>1, <1>2
<1>4. m \in T
  BY <1>2, <1>3
<1> QED
  BY <1>4

\* Induction up to a bound.
LEMMA BoundedInduction ==
    ASSUME NEW n \in Nat, NEW T, 0 \in T, \A i \in 0..(n - 1) : i \in T => i + 1 \in T
    PROVE  \A i \in 0..n : i \in T
<1> DEFINE U == {i \in Nat : i <= n => i \in T}
<1>1. 0 \in U
  OBVIOUS
<1>2. \A i \in Nat : i \in U => i + 1 \in U
  OBVIOUS
<1>3. \A i \in Nat : i \in U
  <2> HIDE DEF U
  <2> QED
    BY <1>1, <1>2, SetInduction
<1> QED
  BY <1>3

\* A bounded nonempty set of naturals has a Max, a nonempty one a Min.
LEMMA MaxProperty ==
    ASSUME NEW S, S \subseteq Nat, S # {}, NEW b \in Nat, \A x \in S : x <= b
    PROVE  Max(S) \in S /\ \A y \in S : y <= Max(S)
<1> DEFINE T == {b - x : x \in S}
<1>1. T \subseteq Nat /\ T # {}
  <2>1. \A x \in S : x \in Nat /\ x <= b
    OBVIOUS
  <2>2. \A x \in S : b - x \in Nat
    BY <2>1
  <2>3. PICK x \in S : TRUE
    OBVIOUS
  <2>4. b - x \in T
    OBVIOUS
  <2> QED
    BY <2>2, <2>4
<1>2. PICK m \in T : \A k \in T : m <= k
  <2> HIDE DEF T
  <2> QED
    BY <1>1, LeastElement
<1>3. PICK x \in S : m = b - x
  OBVIOUS
<1>4. \A y \in S : x >= y
  <2> TAKE y \in S
  <2>1. b - x <= b - y
    BY <1>2, <1>3
  <2> QED
    BY <2>1
<1>5. \E z \in S : \A y \in S : z >= y
  BY <1>4
<1>6. Max(S) \in S /\ \A y \in S : Max(S) >= y
  BY <1>5 DEF Max
<1> QED
  BY <1>6

\* A nonempty set of naturals has a Min.
LEMMA MinProperty ==
    ASSUME NEW S, S \subseteq Nat, S # {}
    PROVE  Min(S) \in S /\ \A y \in S : Min(S) <= y
<1>1. \E x \in S : \A y \in S : x <= y
  BY LeastElement
<1> QED
  BY <1>1 DEF Min

--------------------------------------------------------------------------------
(* Folds. *)

\* The Max of 1..n and of its subsets with n in them is n.
LEMMA MaxOfPrefix ==
    ASSUME NEW n \in Nat, NEW s \in SUBSET (1..(n + 1)), n + 1 \in s
    PROVE  Max(s) = n + 1 /\ s \ {Max(s)} \in SUBSET (1..n)
<1>1. s \subseteq Nat /\ s # {} /\ n + 1 \in Nat /\ \A x \in s : x <= n + 1
  OBVIOUS
<1>2. Max(s) \in s /\ \A y \in s : y <= Max(s)
  BY <1>1, MaxProperty
<1>3. Max(s) \in Nat /\ Max(s) <= n + 1 /\ n + 1 <= Max(s)
  BY <1>1, <1>2
<1>4. Max(s) = n + 1
  BY <1>3
<1>5. ASSUME NEW x \in s, x # n + 1 PROVE x \in 1..n
  BY <1>5
<1> QED
  BY <1>4, <1>5

FoldOver(n, base, step, g) ==
    /\ g[{}] = base
    /\ \A s \in SUBSET (1..n) : s # {} => g[s] = step[<<g[s \ {Max(s)}], Max(s)>>]

\* The function that MapThenFoldSet defines by recursion over subsets exists.
LEMMA FoldExists ==
    ASSUME NEW n \in Nat, NEW V, NEW base \in V, NEW step \in [V \X (1..n) -> V]
    PROVE  \E g \in [SUBSET (1..n) -> V] : FoldOver(n, base, step, g)
<1> DEFINE T == {m \in 0..n : \E g \in [SUBSET (1..m) -> V] : FoldOver(m, base, step, g)}
<1>1. 0 \in T
  <2> DEFINE g == [s \in SUBSET (1..0) |-> base]
  <2>1. g \in [SUBSET (1..0) -> V]
    OBVIOUS
  <2>2. FoldOver(0, base, step, g)
    <3>1. \A s \in SUBSET (1..0) : s = {}
      OBVIOUS
    <3>2. {} \in SUBSET (1..0)
      OBVIOUS
    <3> QED
      BY <3>1, <3>2 DEF FoldOver
  <2> QED
    BY <2>1, <2>2
<1>2. ASSUME NEW m \in 0..(n - 1), m \in T PROVE m + 1 \in T
  <2>1. PICK g \in [SUBSET (1..m) -> V] : FoldOver(m, base, step, g)
    BY <1>2
  <2> DEFINE h == [s \in SUBSET (1..(m + 1)) |->
                     IF m + 1 \in s THEN step[<<g[s \ {m + 1}], m + 1>>] ELSE g[s]]
  <2>2. ASSUME NEW s \in SUBSET (1..(m + 1)), m + 1 \in s
        PROVE  /\ s \ {m + 1} \in SUBSET (1..m)
               /\ h[s] = step[<<g[s \ {m + 1}], m + 1>>]
               /\ h[s] \in V
               /\ h[s \ {m + 1}] = g[s \ {m + 1}]
               /\ Max(s) = m + 1
    <3>1. s \ {m + 1} \in SUBSET (1..m)
      BY <2>2
    <3>2. Max(s) = m + 1
      BY <2>2, MaxOfPrefix
    <3>3. <<g[s \ {m + 1}], m + 1>> \in V \X (1..n)
      BY <3>1
    <3>4. s \ {m + 1} \in SUBSET (1..(m + 1))
      BY <3>1
    <3> QED
      BY <2>2, <3>1, <3>2, <3>3, <3>4
  <2>3. ASSUME NEW s \in SUBSET (1..(m + 1)), m + 1 \notin s
        PROVE  s \in SUBSET (1..m) /\ h[s] = g[s] /\ h[s] \in V
    <3>1. s \in SUBSET (1..m)
      BY <2>3
    <3> QED
      BY <2>3, <3>1
  <2>4. h \in [SUBSET (1..(m + 1)) -> V]
    BY <2>2, <2>3
  <2>5. h[{}] = base
    BY <2>1, <2>3 DEF FoldOver
  <2>6. ASSUME NEW s \in SUBSET (1..(m + 1)), s # {}
        PROVE  h[s] = step[<<h[s \ {Max(s)}], Max(s)>>]
    <3>1. CASE m + 1 \in s
      BY <2>2, <3>1
    <3>2. CASE m + 1 \notin s
      <4>1. s \in SUBSET (1..m)
        BY <2>3, <3>2
      <4>2. Max(s) \in s
        <5>1. s \subseteq Nat /\ s # {} /\ m \in Nat /\ \A x \in s : x <= m
          BY <4>1, <2>6
        <5> QED
          BY <5>1, MaxProperty
      <4>3. s \ {Max(s)} \in SUBSET (1..(m + 1)) /\ m + 1 \notin s \ {Max(s)}
        BY <3>2
      <4>4. h[s \ {Max(s)}] = g[s \ {Max(s)}]
        BY <4>3, <2>3
      <4>5. g[s] = step[<<g[s \ {Max(s)}], Max(s)>>]
        BY <4>1, <2>1, <2>6 DEF FoldOver
      <4> QED
        BY <4>4, <4>5, <2>3, <3>2
    <3> QED
      BY <3>1, <3>2
  <2>7. FoldOver(m + 1, base, step, h)
    <3> HIDE DEF h
    <3> QED
      BY <2>5, <2>6 DEF FoldOver
  <2> QED
    <3> HIDE DEF h
    <3> QED
      BY <2>4, <2>7
<1>3. n \in T
  <2> HIDE DEF T
  <2> QED
    BY <1>1, <1>2, BoundedInduction
<1> QED
  BY <1>3

\* As much of these equations as a function keeps of which only that is known.
FoldFrom(n, V, base, step, g) ==
    /\ g[{}] = base
    /\ \A s \in SUBSET (1..n) : s # {} /\ g[s \ {Max(s)}] \in V =>
           g[s] = step[<<g[s \ {Max(s)}], Max(s)>>]

\* The results of the fold g on the prefixes of 1..n
Folded(n, V, base, step, g, acc) ==
    /\ acc \in [0..n -> V]
    /\ acc[0] = base
    /\ \A i \in 1..n : acc[i] = step[<<acc[i - 1], i>>]
    /\ acc[n] = g[1..n]

\* A function that keeps the equations of a fold folds every prefix.
LEMMA FoldPrefixes ==
    ASSUME NEW n \in Nat, NEW V, NEW base \in V, NEW step \in [V \X (1..n) -> V], NEW g,
           FoldFrom(n, V, base, step, g)
    PROVE  \E acc : Folded(n, V, base, step, g, acc)
<1> USE DEF FoldFrom
<1>1. ASSUME NEW i \in 1..n
      PROVE  /\ 1..i \in SUBSET (1..n) /\ 1..i # {}
             /\ Max(1..i) = i
             /\ (1..i) \ {i} = 1..(i - 1)
  <2> DEFINE k == i - 1
  <2>1. k \in Nat /\ i = k + 1
    OBVIOUS
  <2>2. 1..(k + 1) \in SUBSET (1..(k + 1)) /\ k + 1 \in 1..(k + 1)
    BY <2>1
  <2>3. Max(1..(k + 1)) = k + 1
    <3> HIDE DEF k
    <3> QED
      BY <2>1, <2>2, MaxOfPrefix
  <2>4. Max(1..i) = i
    BY <2>1, <2>3
  <2> QED
    BY <2>4
<1> DEFINE T == {i \in 0..n : g[1..i] \in V}
<1>2. 0 \in T
  <2>1. 1..0 = {}
    OBVIOUS
  <2> QED
    BY <2>1
<1>3. ASSUME NEW i \in 0..(n - 1), i \in T PROVE i + 1 \in T
  <2>1. i + 1 \in 1..n /\ (i + 1) - 1 = i
    OBVIOUS
  <2>2. g[1..(i + 1)] = step[<<g[1..i], i + 1>>]
    BY <1>1, <1>3, <2>1
  <2>3. step[<<g[1..i], i + 1>>] \in V
    BY <1>3, <2>1
  <2> QED
    BY <2>1, <2>2, <2>3
<1>4. \A i \in 0..n : i \in T
  <2> HIDE DEF T
  <2> QED
    BY <1>2, <1>3, BoundedInduction
<1> DEFINE acc == [i \in 0..n |-> g[1..i]]
<1>5. acc \in [0..n -> V]
  BY <1>4
<1>6. acc[0] = base
  <2>1. 1..0 = {}
    OBVIOUS
  <2> QED
    BY <2>1
<1>7. ASSUME NEW i \in 1..n PROVE acc[i] = step[<<acc[i - 1], i>>]
  <2>1. i - 1 \in 0..n
    OBVIOUS
  <2>2. g[1..(i - 1)] \in V
    BY <2>1, <1>4
  <2>3. (1..i) \ {Max(1..i)} = 1..(i - 1)
    BY <1>1
  <2>4. g[1..i] = step[<<g[1..(i - 1)], i>>]
    BY <1>1, <2>2, <2>3
  <2> QED
    BY <2>1, <2>4
<1>8. acc[n] = g[1..n]
  OBVIOUS
<1> QED
  <2> HIDE DEF acc
  <2> QED
    BY <1>5, <1>6, <1>7, <1>8 DEF Folded

\* Max of a nonempty part of 1..n is a member of it.
LEMMA MaxOfSubset ==
    ASSUME NEW n \in Nat, NEW s \in SUBSET (1..n), s # {}
    PROVE  Max(s) \in s
<1>1. s \subseteq Nat /\ \A x \in s : x <= n
  OBVIOUS
<1> QED
  BY <1>1, MaxProperty

\* A fold of which is known that it keeps the equations if any function does, as the
\* CHOOSE of a recursive function, folds every prefix.
LEMMA FoldWorks ==
    ASSUME NEW n \in Nat, NEW V, NEW base \in V, NEW step \in [V \X (1..n) -> V], NEW fold,
           (\E h \in [SUBSET (1..n) -> V] : FoldOver(n, base, step, h))
             => FoldFrom(n, V, base, step, fold)
    PROVE  \E acc : Folded(n, V, base, step, fold, acc)
<1>1. FoldFrom(n, V, base, step, fold)
  BY FoldExists
<1> QED
  BY <1>1, FoldPrefixes

--------------------------------------------------------------------------------
(* Sorting. *)

\* A finite nonempty set that a relation orders totally has a greatest element.
LEMMA GreatestElement ==
    ASSUME NEW S, NEW less,
           \A a, b, c \in S : <<a, b>> \in less /\ <<b, c>> \in less => <<a, c>> \in less,
           \A a, b \in S : a # b => <<a, b>> \in less \/ <<b, a>> \in less,
           IsFiniteSet(S), S # {}
    PROVE  \E x \in S : \A y \in S : y # x => <<y, x>> \in less
<1> DEFINE Greatest(U) == \E x \in U : \A y \in U : y # x => <<y, x>> \in less
           T == {m \in 0..Cardinality(S) :
                    \A U \in SUBSET S : Cardinality(U) = m /\ U # {} => Greatest(U)}
<1>1. Cardinality(S) \in Nat
  BY FS_CardinalityType
<1>2. 0 \in T
  <2>1. \A U \in SUBSET S : IsFiniteSet(U)
    BY FS_Subset
  <2>2. \A U \in SUBSET S : Cardinality(U) = 0 => U = {}
    BY <2>1, FS_EmptySet
  <2> QED
    BY <1>1, <2>2
<1>3. ASSUME NEW m \in 0..(Cardinality(S) - 1), m \in T PROVE m + 1 \in T
  <2>1. SUFFICES ASSUME NEW U \in SUBSET S, Cardinality(U) = m + 1
                 PROVE  Greatest(U)
    BY <1>1
  <2>2. IsFiniteSet(U)
    BY FS_Subset
  <2>3. PICK x \in U : TRUE
    BY <2>1, FS_EmptySet, <1>1
  <2>4. Cardinality(U \ {x}) = m
    <3>1. Cardinality(U \ {x}) = Cardinality(U) - 1
      BY <2>2, <2>3, FS_RemoveElement
    <3> QED
      BY <1>1, <2>1, <3>1
  <2>5. CASE U \ {x} = {}
    BY <2>5
  <2>6. CASE U \ {x} # {}
    <3>1. Greatest(U \ {x})
      BY <1>3, <2>4, <2>6
    <3>2. PICK z \in U \ {x} : \A y \in U \ {x} : y # z => <<y, z>> \in less
      BY <3>1
    <3>3. CASE <<x, z>> \in less
      BY <3>2, <3>3
    <3>4. CASE <<z, x>> \in less
      BY <3>2, <3>4
    <3> QED
      BY <3>3, <3>4
  <2> QED
    BY <2>5, <2>6
<1>4. Cardinality(S) \in T
  <2> HIDE DEF T
  <2> QED
    BY <1>1, <1>2, <1>3, BoundedInduction
<1> QED
  BY <1>4, <1>1

\* A finite set that a relation orders totally has an enumeration in ascending order.
LEMMA SortedEnumeration ==
    ASSUME NEW S, NEW less,
           \A a, b, c \in S : <<a, b>> \in less /\ <<b, c>> \in less => <<a, c>> \in less,
           \A a, b \in S : a # b => <<a, b>> \in less \/ <<b, a>> \in less,
           IsFiniteSet(S)
    PROVE  \E seq \in SetToSeqs(S) :
               \A i, j \in DOMAIN seq : i < j => <<seq[i], seq[j]>> \in less
<1> DEFINE Sorted(f, m) ==
              /\ \A i, j \in 1..m : i # j => f[i] # f[j]
              /\ \A i, j \in 1..m : i < j => <<f[i], f[j]>> \in less
           T == {m \in 0..Cardinality(S) :
                    \A U \in SUBSET S : Cardinality(U) = m =>
                        \E f \in [1..m -> U] : Sorted(f, m)}
<1>1. Cardinality(S) \in Nat
  BY FS_CardinalityType
<1>2. 0 \in T
  <2>1. \A U : [i \in 1..0 |-> i] \in [1..0 -> U]
    OBVIOUS
  <2>2. Sorted([i \in 1..0 |-> i], 0)
    OBVIOUS
  <2>3. ASSUME NEW U \in SUBSET S PROVE \E f \in [1..0 -> U] : Sorted(f, 0)
    <3> HIDE DEF Sorted
    <3> QED
      BY <2>1, <2>2
  <2> QED
    <3> HIDE DEF Sorted
    <3> QED
      BY <1>1, <2>3
<1>3. ASSUME NEW m \in 0..(Cardinality(S) - 1), m \in T PROVE m + 1 \in T
  <2>1. SUFFICES ASSUME NEW U \in SUBSET S, Cardinality(U) = m + 1
                 PROVE  \E f \in [1..(m + 1) -> U] : Sorted(f, m + 1)
    BY <1>1
  <2>2. IsFiniteSet(U) /\ U # {}
    BY <1>1, <2>1, FS_Subset, FS_EmptySet
  <2>3. PICK x \in U : \A y \in U : y # x => <<y, x>> \in less
    <3>1. /\ \A a, b, c \in U : <<a, b>> \in less /\ <<b, c>> \in less => <<a, c>> \in less
          /\ \A a, b \in U : a # b => <<a, b>> \in less \/ <<b, a>> \in less
      OBVIOUS
    <3> QED
      BY <2>2, <3>1, GreatestElement
  <2>4. Cardinality(U \ {x}) = m
    <3>1. Cardinality(U \ {x}) = Cardinality(U) - 1
      BY <2>2, <2>3, FS_RemoveElement
    <3> QED
      BY <1>1, <2>1, <3>1
  <2>5. PICK f \in [1..m -> U \ {x}] : Sorted(f, m)
    BY <1>3, <2>4
  <2> DEFINE h == [i \in 1..(m + 1) |-> IF i = m + 1 THEN x ELSE f[i]]
  <2>6. \A i \in 1..m : f[i] \in U /\ f[i] # x /\ h[i] = f[i] /\ i \in 1..(m + 1)
    OBVIOUS
  <2>7. h \in [1..(m + 1) -> U] /\ h[m + 1] = x
    BY <2>6
  <2>8. \A i \in 1..(m + 1) : i \in 1..m \/ i = m + 1
    OBVIOUS
  <2>9. \A i, j \in 1..(m + 1) : i # j => h[i] # h[j]
    <3> HIDE DEF h
    <3> QED
      BY <2>5, <2>6, <2>7, <2>8
  <2>10. \A i, j \in 1..(m + 1) : i < j => <<h[i], h[j]>> \in less
    <3> HIDE DEF h
    <3> SUFFICES ASSUME NEW i \in 1..(m + 1), NEW j \in 1..(m + 1), i < j
                 PROVE  <<h[i], h[j]>> \in less
      OBVIOUS
    <3>1. i \in 1..m
      OBVIOUS
    <3>2. CASE j = m + 1
      BY <2>3, <2>6, <2>7, <3>1, <3>2
    <3>3. CASE j \in 1..m
      BY <2>5, <2>6, <3>1, <3>3
    <3> QED
      BY <2>8, <3>2, <3>3
  <2> QED
    <3> HIDE DEF h
    <3> QED
      BY <2>7, <2>9, <2>10
<1>4. Cardinality(S) \in T
  <2> HIDE DEF T
  <2> QED
    BY <1>1, <1>2, <1>3, BoundedInduction
<1>5. PICK f \in [1..Cardinality(S) -> S] : Sorted(f, Cardinality(S))
  BY <1>4
<1>6. f \in SetToSeqs(S)
  BY <1>5 DEF SetToSeqs
<1> QED
  BY <1>5, <1>6

\* An enumeration of a finite set lists each of its elements.
LEMMA EnumerationCovers ==
    ASSUME NEW S, IsFiniteSet(S), NEW seq \in SetToSeqs(S)
    PROVE  /\ seq \in Seq(S) /\ seq \in [1..Cardinality(S) -> S]
           /\ Cardinality(S) \in Nat /\ Len(seq) = Cardinality(S)
           /\ \A i, j \in 1..Cardinality(S) : i # j => seq[i] # seq[j]
           /\ \A x \in S : \E i \in 1..Cardinality(S) : seq[i] = x
<1> DEFINE n == Cardinality(S)
<1>1. n \in Nat
  BY FS_CardinalityType
<1>2. seq \in [1..n -> S] /\ \A i, j \in 1..n : i # j => seq[i] # seq[j]
  BY DEF SetToSeqs
<1>3. seq \in Injection(1..n, S)
  BY <1>2, Fun_IsInj
<1>4. Cardinality(1..n) = n
  BY <1>1, FS_Interval
<1>5. seq \in Surjection(1..n, S)
  BY <1>3, <1>4, FS_Injection
<1>6. \A x \in S : \E i \in 1..n : seq[i] = x
  BY <1>5 DEF Surjection
<1>7. seq \in Seq(S) /\ Len(seq) = n
  BY <1>1, <1>2
<1> QED
  BY <1>1, <1>2, <1>6, <1>7
================================================================================
