------------------------- MODULE TennisCents_proofs -------------------------
(***************************************************************************)
(* Facts about sums over finite domains, and what allocateCents promises.  *)
(*                                                                         *)
(* SumOf is a fold, that is, a recursive function over the subsets of a    *)
(* domain.  SumOver(f, S) names its value at a subset S; what a sum does   *)
(* is proved by induction on S, in the first-order form of                 *)
(* SubsetInduction: a set of subsets that holds {} and is closed under     *)
(* adding an element holds every finite set.                               *)
(***************************************************************************)
EXTENDS TennisCents, TLAPS, FiniteSetTheorems, FunctionTheorems, NaturalsInduction

(***************************************************************************)
(* Induction.                                                              *)
(***************************************************************************)
\* A nonempty set of naturals has a least element.
LEMMA LeastOf ==
  ASSUME NEW S \in SUBSET Nat, S # {}
  PROVE  \E m \in S : \A n \in S : m <= n
<1> DEFINE R == OpToRel(<, Nat)
<1>1. IsWellFoundedOn(R, Nat)
  BY NatLessThanWellFounded
<1>2. \A x, y \in Nat : x < y => <<x, y>> \in R
  BY DEF OpToRel
<1> HIDE DEF R
<1>3. PICK m \in S : \A n \in S : <<n, m>> \notin R
  BY <1>1, WFMin
<1>4. ASSUME NEW n \in S PROVE m <= n
  <2>1. m \in Nat /\ n \in Nat
    OBVIOUS
  <2>2. ~(n < m)
    BY <1>2, <1>3, <2>1
  <2> QED
    BY <2>1, <2>2
<1> QED
  BY <1>4

\* A set of naturals that holds 0 and, with each, its successor is Nat.
LEMMA SetInduction ==
  ASSUME NEW P \in SUBSET Nat, 0 \in P, \A n \in P : n + 1 \in P
  PROVE  P = Nat
<1> DEFINE rest == Nat \ P
<1>1. SUFFICES ASSUME rest # {} PROVE FALSE
  OBVIOUS
<1>2. PICK m \in rest : \A n \in rest : m <= n
  BY <1>1, LeastOf
<1>3. m \in Nat /\ m # 0 /\ m - 1 \in Nat /\ m - 1 \notin rest
  BY <1>2
<1>4. m - 1 \in P
  BY <1>3
<1>5. (m - 1) + 1 \in P
  BY <1>4
<1> QED
  BY <1>2, <1>3, <1>5

\* A set of subsets of D that holds {} and is closed under adding an element
\* holds D.
LEMMA SubsetInduction ==
  ASSUME NEW D, IsFiniteSet(D), NEW P, {} \in P,
         \A T \in SUBSET D : T \in P => \A x \in D \ T : T \cup {x} \in P
  PROVE  D \in P
<1> DEFINE N == {n \in Nat : \A T \in SUBSET D : Cardinality(T) = n => T \in P}
<1>1. 0 \in N
  BY FS_EmptySet, FS_Subset
<1>2. ASSUME NEW n \in N PROVE n + 1 \in N
  <2>1. SUFFICES ASSUME NEW T \in SUBSET D, Cardinality(T) = n + 1 PROVE T \in P
    OBVIOUS
  <2>2. IsFiniteSet(T) /\ T # {} /\ n \in Nat
    BY <2>1, FS_Subset, FS_EmptySet
  <2>3. PICK x : x \in T
    BY <2>2
  <2>3a. Cardinality(T \ {x}) = Cardinality(T) - 1
    BY <2>2, <2>3, FS_RemoveElement
  <2>4. Cardinality(T \ {x}) = n
    BY <2>1, <2>2, <2>3a
  <2>5. T \ {x} \in P
    BY <2>4
  <2>6. (T \ {x}) \cup {x} \in P
    BY <2>3, <2>5
  <2>7. (T \ {x}) \cup {x} = T
    BY <2>3
  <2> QED
    BY <2>6, <2>7
<1>3. N = Nat
  <2> HIDE DEF N
  <2>1. N \in SUBSET Nat
    BY DEF N
  <2> QED
    BY <1>1, <1>2, <2>1, SetInduction
<1> QED
  BY <1>3, FS_CardinalityType

(***************************************************************************)
(* The fold of SumOf.                                                      *)
(***************************************************************************)
\* One round of the fold: what the sum of f over s is, given it of smaller sets.
Round(f, it, s) ==
  IF s = {} THEN 0 ELSE f[CHOOSE x \in s : TRUE] + it[s \ {CHOOSE x \in s : TRUE}]

Fold(f) == CHOOSE it : it = [s \in SUBSET DOMAIN f |-> Round(f, it, s)]

SumOver(f, S) == Fold(f)[S]

IsAmounts(f) == IsFiniteSet(DOMAIN f) /\ \A x \in DOMAIN f : f[x] \in Int

LEMMA SumIsFold ==
  ASSUME NEW f
  PROVE  SumOf(f) = SumOver(f, DOMAIN f)
BY DEF SumOf, SumOver, Fold, Round, MapThenSumSet, MapThenFoldSet

\* The fold of a finite domain exists: for every n there is a function that goes
\* round by round on the subsets of at most n elements.
LEMMA FoldExists ==
  ASSUME NEW f, IsFiniteSet(DOMAIN f)
  PROVE  Fold(f) = [s \in SUBSET DOMAIN f |-> Round(f, Fold(f), s)]
<1> DEFINE D == DOMAIN f
           Good(it, n) == /\ it = [s \in SUBSET D |-> it[s]]
                          /\ \A s \in SUBSET D : Cardinality(s) <= n => it[s] = Round(f, it, s)
           N == {n \in Nat : \E it : Good(it, n)}
<1>1. 0 \in N
  <2> DEFINE it == [s \in SUBSET D |-> 0]
  <2>1. \A s \in SUBSET D : Cardinality(s) <= 0 => s = {}
    BY FS_Subset, FS_EmptySet, FS_CardinalityType
  <2>2. Good(it, 0)
    BY <2>1 DEF Round
  <2> QED
    BY <2>2
<1>2. ASSUME NEW n \in N PROVE n + 1 \in N
  <2>1. PICK it : Good(it, n)
    OBVIOUS
  <2> DEFINE next == [s \in SUBSET D |-> Round(f, it, s)]
  <2>2. ASSUME NEW s \in SUBSET D, Cardinality(s) <= n + 1
        PROVE  next[s] = Round(f, next, s)
    <3>1. CASE s = {}
      BY <3>1 DEF Round
    <3>2. CASE s # {}
      <4> DEFINE t == s \ {CHOOSE x \in s : TRUE}
      <4>1. t \in SUBSET D /\ (CHOOSE x \in s : TRUE) \in s
        BY <3>2
      <4>2. Cardinality(t) = Cardinality(s) - 1 /\ Cardinality(s) \in Nat
        BY <4>1, FS_Subset, FS_RemoveElement, FS_CardinalityType
      <4>3. Cardinality(t) <= n /\ n \in Nat
        BY <2>2, <4>2
      <4> HIDE DEF t
      <4>4. it[t] = Round(f, it, t) /\ next[t] = Round(f, it, t)
        BY <2>1, <4>1, <4>3
      <4> QED
        BY <3>2, <4>4 DEF Round, t
    <3> QED
      BY <3>1, <3>2
  <2>3. next = [s \in SUBSET D |-> next[s]]
    OBVIOUS
  <2> HIDE DEF next
  <2>4. Good(next, n + 1)
    BY <2>2, <2>3
  <2>5. n + 1 \in Nat
    OBVIOUS
  <2> QED
    BY <2>4, <2>5
<1>3. N = Nat
  <2>1. N \in SUBSET Nat
    OBVIOUS
  <2> HIDE DEF N
  <2> QED
    BY <1>1, <1>2, <2>1, SetInduction
<1>4. Cardinality(D) \in N
  BY <1>3, FS_CardinalityType
<1>5. PICK it : Good(it, Cardinality(D))
  BY <1>4
<1>6. \A s \in SUBSET D : Cardinality(s) <= Cardinality(D)
  BY FS_Subset
<1>7. it = [s \in SUBSET DOMAIN f |-> Round(f, it, s)]
  BY <1>5, <1>6
<1> QED
  BY <1>7 DEF Fold

(***************************************************************************)
(* What sums do.                                                           *)
(***************************************************************************)
LEMMA SumRound ==
  ASSUME NEW f, IsFiniteSet(DOMAIN f), NEW S \in SUBSET DOMAIN f
  PROVE  SumOver(f, S) = IF S = {} THEN 0
                         ELSE f[CHOOSE x \in S : TRUE] + SumOver(f, S \ {CHOOSE x \in S : TRUE})
<1> DEFINE it == Fold(f)
<1>1. it = [s \in SUBSET DOMAIN f |-> Round(f, it, s)]
  BY FoldExists
<1> HIDE DEF it
<1>2. it[S] = Round(f, it, S)
  BY <1>1
<1> QED
  BY <1>2 DEF SumOver, Round, it

LEMMA SumOfNothing ==
  ASSUME NEW f, IsFiniteSet(DOMAIN f)
  PROVE  SumOver(f, {}) = 0
BY SumRound

\* The sum is an integer, and any element may be taken out first.
LEMMA SumTakeOut ==
  ASSUME NEW f, IsAmounts(f), NEW S \in SUBSET DOMAIN f
  PROVE  /\ SumOver(f, S) \in Int
         /\ \A x \in S : SumOver(f, S) = f[x] + SumOver(f, S \ {x})
<1> DEFINE D == DOMAIN f
           Fits(T) == /\ SumOver(f, T) \in Int
                      /\ \A x \in T : SumOver(f, T) = f[x] + SumOver(f, T \ {x})
           N == {n \in Nat : \A T \in SUBSET D : Cardinality(T) <= n => Fits(T)}
<1>0. IsFiniteSet(D) /\ \A x \in D : f[x] \in Int
  BY DEF IsAmounts
<1>1. 0 \in N
  <2>1. \A T \in SUBSET D : Cardinality(T) <= 0 => T = {}
    BY <1>0, FS_Subset, FS_EmptySet, FS_CardinalityType
  <2>2. Fits({})
    BY <1>0, SumOfNothing
  <2> HIDE DEF Fits
  <2> QED
    BY <2>1, <2>2
<1>2. ASSUME NEW n \in N PROVE n + 1 \in N
  <2>1. n \in Nat /\ \A T \in SUBSET D : Cardinality(T) <= n => Fits(T)
    OBVIOUS
  <2>2. ASSUME NEW T \in SUBSET D, Cardinality(T) <= n + 1 PROVE Fits(T)
    <3>1. CASE T = {}
      BY <3>1, <1>0, SumOfNothing
    <3>2. CASE T # {}
      <4> DEFINE c == CHOOSE x \in T : TRUE
      <4>1. c \in T
        BY <3>2
      <4>2. SumOver(f, T) = f[c] + SumOver(f, T \ {c})
        BY <3>2, <1>0, SumRound
      <4> HIDE DEF c
      <4>3. ASSUME NEW x \in T PROVE Fits(T \ {x})
        <5>1. IsFiniteSet(T) /\ Cardinality(T) \in Nat
          BY <1>0, FS_Subset, FS_CardinalityType
        <5>2. Cardinality(T \ {x}) = Cardinality(T) - 1
          BY <5>1, FS_RemoveElement
        <5>3. Cardinality(T \ {x}) <= n
          BY <2>1, <2>2, <5>1, <5>2
        <5> HIDE DEF Fits
        <5> QED
          BY <2>1, <5>3
      <4>4. SumOver(f, T) \in Int
        BY <4>1, <4>2, <4>3, <1>0
      <4>5. ASSUME NEW x \in T, x # c PROVE SumOver(f, T) = f[x] + SumOver(f, T \ {x})
        <5>1. (T \ {c}) \ {x} = (T \ {x}) \ {c}
          OBVIOUS
        <5>2. SumOver(f, T \ {c}) = f[x] + SumOver(f, (T \ {c}) \ {x})
          BY <4>1, <4>3, <4>5
        <5>3. SumOver(f, T \ {x}) = f[c] + SumOver(f, (T \ {x}) \ {c})
          BY <4>1, <4>3, <4>5
        <5>4. SumOver(f, (T \ {c}) \ {x}) \in Int
          <6>1. Fits(T \ {c})
            BY <4>1, <4>3
          <6>2. SumOver(f, T \ {c}) \in Int /\ f[x] \in Int
            BY <6>1, <1>0
          <6>3. (T \ {c}) \ {x} \in SUBSET D /\ Cardinality((T \ {c}) \ {x}) <= n
            <7>1. IsFiniteSet(T) /\ Cardinality(T) \in Nat /\ IsFiniteSet(T \ {c})
              BY <1>0, FS_Subset, FS_CardinalityType
            <7>2. Cardinality(T \ {c}) = Cardinality(T) - 1
              BY <4>1, <7>1, FS_RemoveElement
            <7>3. Cardinality((T \ {c}) \ {x}) = Cardinality(T \ {c}) - 1
              BY <4>1, <4>5, <7>1, FS_RemoveElement
            <7> QED
              BY <2>1, <2>2, <7>1, <7>2, <7>3
          <6> QED
            BY <2>1, <6>3
        <5>5. f[x] \in Int /\ f[c] \in Int
          BY <1>0, <4>1, <4>5
        <5> QED
          BY <4>2, <5>1, <5>2, <5>3, <5>4, <5>5
      <4> QED
        BY <4>2, <4>4, <4>5
    <3> QED
      BY <3>1, <3>2
  <2> HIDE DEF Fits
  <2> QED
    BY <2>1, <2>2
<1>3. N = Nat
  <2>1. N \in SUBSET Nat
    OBVIOUS
  <2> HIDE DEF N
  <2> QED
    BY <1>1, <1>2, <2>1, SetInduction
<1>4. Cardinality(S) \in N
  BY <1>0, <1>3, FS_Subset, FS_CardinalityType
<1>5. Fits(S)
  <2>1. Cardinality(S) \in Nat
    BY <1>0, FS_Subset, FS_CardinalityType
  <2> HIDE DEF Fits
  <2> QED
    BY <1>4, <2>1
<1> QED
  BY <1>5

LEMMA SumType ==
  ASSUME NEW f, IsAmounts(f), NEW S \in SUBSET DOMAIN f
  PROVE  SumOver(f, S) \in Int
BY SumTakeOut

LEMMA SumAdd ==
  ASSUME NEW f, IsAmounts(f), NEW S \in SUBSET DOMAIN f, NEW x \in DOMAIN f \ S
  PROVE  SumOver(f, S \cup {x}) = f[x] + SumOver(f, S)
<1>1. S \cup {x} \in SUBSET DOMAIN f /\ (S \cup {x}) \ {x} = S
  OBVIOUS
<1> QED
  BY <1>1, SumTakeOut

\* Amounts that agree on S have the same sum over S.
LEMMA SumSame ==
  ASSUME NEW f, IsAmounts(f), NEW g, IsAmounts(g),
         NEW S \in SUBSET DOMAIN f, S \subseteq DOMAIN g, \A x \in S : f[x] = g[x]
  PROVE  SumOver(f, S) = SumOver(g, S)
<1> DEFINE P == {T \in SUBSET S : SumOver(f, T) = SumOver(g, T)}
<1>1. {} \in P
  BY SumOfNothing DEF IsAmounts
<1>2. ASSUME NEW T \in SUBSET S, T \in P, NEW x \in S \ T PROVE T \cup {x} \in P
  BY <1>2, SumAdd
<1>3. IsFiniteSet(S)
  BY FS_Subset DEF IsAmounts
<1> HIDE DEF P
<1>4. S \in P
  BY <1>1, <1>2, <1>3, SubsetInduction
<1> QED
  BY <1>4 DEF P

\* Larger amounts have a larger sum.
LEMMA SumLeq ==
  ASSUME NEW f, IsAmounts(f), NEW g, IsAmounts(g),
         NEW S \in SUBSET DOMAIN f, S \subseteq DOMAIN g, \A x \in S : f[x] <= g[x]
  PROVE  SumOver(f, S) <= SumOver(g, S)
<1> DEFINE P == {T \in SUBSET S : SumOver(f, T) <= SumOver(g, T)}
<1>1. {} \in P
  BY SumOfNothing DEF IsAmounts
<1>2. ASSUME NEW T \in SUBSET S, T \in P, NEW x \in S \ T PROVE T \cup {x} \in P
  <2>1. SumOver(f, T) \in Int /\ SumOver(g, T) \in Int /\ SumOver(f, T) <= SumOver(g, T)
    BY <1>2, SumType
  <2>2. f[x] \in Int /\ g[x] \in Int /\ f[x] <= g[x]
    BY DEF IsAmounts
  <2>3. /\ SumOver(f, T \cup {x}) = f[x] + SumOver(f, T)
        /\ SumOver(g, T \cup {x}) = g[x] + SumOver(g, T)
    BY SumAdd
  <2> QED
    BY <2>1, <2>2, <2>3
<1>3. IsFiniteSet(S)
  BY FS_Subset DEF IsAmounts
<1> HIDE DEF P
<1>4. S \in P
  BY <1>1, <1>2, <1>3, SubsetInduction
<1> QED
  BY <1>4 DEF P

\* Sums add up element by element.
LEMMA SumPlus ==
  ASSUME NEW f, IsAmounts(f), NEW g, IsAmounts(g), NEW h, IsAmounts(h),
         NEW S \in SUBSET DOMAIN f, S \subseteq DOMAIN g, S \subseteq DOMAIN h,
         \A x \in S : h[x] = f[x] + g[x]
  PROVE  SumOver(h, S) = SumOver(f, S) + SumOver(g, S)
<1> DEFINE P == {T \in SUBSET S : SumOver(h, T) = SumOver(f, T) + SumOver(g, T)}
<1>1. {} \in P
  BY SumOfNothing DEF IsAmounts
<1>2. ASSUME NEW T \in SUBSET S, T \in P, NEW x \in S \ T PROVE T \cup {x} \in P
  <2>1. /\ SumOver(f, T) \in Int /\ SumOver(g, T) \in Int
        /\ SumOver(h, T) = SumOver(f, T) + SumOver(g, T)
    BY <1>2, SumType
  <2>2. f[x] \in Int /\ g[x] \in Int /\ h[x] = f[x] + g[x]
    BY DEF IsAmounts
  <2>3. /\ SumOver(f, T \cup {x}) = f[x] + SumOver(f, T)
        /\ SumOver(g, T \cup {x}) = g[x] + SumOver(g, T)
        /\ SumOver(h, T \cup {x}) = h[x] + SumOver(h, T)
    BY SumAdd
  <2> QED
    BY <2>1, <2>2, <2>3
<1>3. IsFiniteSet(S)
  BY FS_Subset DEF IsAmounts
<1> HIDE DEF P
<1>4. S \in P
  BY <1>1, <1>2, <1>3, SubsetInduction
<1> QED
  BY <1>4 DEF P

\* A constant factor comes out of a sum.
LEMMA SumTimes ==
  ASSUME NEW f, IsAmounts(f), NEW g, IsAmounts(g), NEW k \in Int,
         NEW S \in SUBSET DOMAIN f, S \subseteq DOMAIN g, \A x \in S : g[x] = k * f[x]
  PROVE  SumOver(g, S) = k * SumOver(f, S)
<1> DEFINE P == {T \in SUBSET S : SumOver(g, T) = k * SumOver(f, T)}
<1>1. {} \in P
  BY SumOfNothing DEF IsAmounts
<1>2. ASSUME NEW T \in SUBSET S, T \in P, NEW x \in S \ T PROVE T \cup {x} \in P
  <2>1. SumOver(f, T) \in Int /\ SumOver(g, T) = k * SumOver(f, T)
    BY <1>2, SumType
  <2>2. f[x] \in Int /\ g[x] = k * f[x]
    BY DEF IsAmounts
  <2>3. /\ SumOver(f, T \cup {x}) = f[x] + SumOver(f, T)
        /\ SumOver(g, T \cup {x}) = g[x] + SumOver(g, T)
    BY SumAdd
  <2>4. \A a, b \in Int : k * a + k * b = k * (a + b)
    OBVIOUS
  <2>5. k * f[x] + k * SumOver(f, T) = k * (f[x] + SumOver(f, T))
    BY <2>1, <2>2, <2>4
  <2>6. SumOver(g, T \cup {x}) = k * SumOver(f, T \cup {x})
    BY <2>1, <2>2, <2>3, <2>5, Zenon
  <2> QED
    BY <2>6
<1>3. IsFiniteSet(S)
  BY FS_Subset DEF IsAmounts
<1> HIDE DEF P
<1>4. S \in P
  BY <1>1, <1>2, <1>3, SubsetInduction
<1> QED
  BY <1>4 DEF P

\* The sum over two disjoint sets.
LEMMA SumUnion ==
  ASSUME NEW f, IsAmounts(f), NEW S \in SUBSET DOMAIN f, NEW T \in SUBSET DOMAIN f,
         S \cap T = {}
  PROVE  SumOver(f, S \cup T) = SumOver(f, S) + SumOver(f, T)
<1> DEFINE P == {U \in SUBSET T : SumOver(f, S \cup U) = SumOver(f, S) + SumOver(f, U)}
<1>1. {} \in P
  <2>1. S \cup {} = S
    OBVIOUS
  <2> QED
    BY <2>1, SumOfNothing, SumType DEF IsAmounts
<1>2. ASSUME NEW U \in SUBSET T, U \in P, NEW x \in T \ U PROVE U \cup {x} \in P
  <2>1. SumOver(f, S \cup U) = SumOver(f, S) + SumOver(f, U)
    BY <1>2
  <2>2. /\ SumOver(f, (S \cup U) \cup {x}) = f[x] + SumOver(f, S \cup U)
        /\ SumOver(f, U \cup {x}) = f[x] + SumOver(f, U)
    BY SumAdd
  <2>3. (S \cup U) \cup {x} = S \cup (U \cup {x})
    OBVIOUS
  <2>4. SumOver(f, S) \in Int /\ SumOver(f, U) \in Int /\ f[x] \in Int
    BY SumType DEF IsAmounts
  <2>5. SumOver(f, S \cup (U \cup {x})) = f[x] + SumOver(f, S \cup U)
    BY <2>2, <2>3
  <2>6. SumOver(f, S \cup (U \cup {x})) = SumOver(f, S) + SumOver(f, U \cup {x})
    <3> HIDE DEF P
    <3> QED
      BY <2>1, <2>2, <2>4, <2>5
  <2> QED
    BY <2>6
<1>3. IsFiniteSet(T)
  BY FS_Subset DEF IsAmounts
<1> HIDE DEF P
<1>4. T \in P
  BY <1>1, <1>2, <1>3, SubsetInduction
<1> QED
  BY <1>4 DEF P

\* A sum of ones and zeros counts the ones.
LEMMA SumCounts ==
  ASSUME NEW f, IsAmounts(f), \A x \in DOMAIN f : f[x] \in {0, 1}, NEW S \in SUBSET DOMAIN f
  PROVE  SumOver(f, S) = Cardinality({x \in S : f[x] = 1})
<1> DEFINE Ones(T) == {x \in T : f[x] = 1}
           P == {T \in SUBSET S : SumOver(f, T) = Cardinality(Ones(T))}
<1>0. IsFiniteSet(S)
  BY FS_Subset DEF IsAmounts
<1>1. {} \in P
  <2>1. Ones({}) = {}
    OBVIOUS
  <2> QED
    BY <2>1, SumOfNothing, FS_EmptySet DEF IsAmounts
<1>2. ASSUME NEW T \in SUBSET S, T \in P, NEW x \in S \ T PROVE T \cup {x} \in P
  <2>1. SumOver(f, T) = Cardinality(Ones(T)) /\ SumOver(f, T) \in Int
    BY <1>2, SumType
  <2>2. SumOver(f, T \cup {x}) = f[x] + SumOver(f, T)
    BY SumAdd
  <2>3. CASE f[x] = 1
    <3>1. Ones(T \cup {x}) = Ones(T) \cup {x} /\ x \notin Ones(T)
      BY <2>3
    <3>2. IsFiniteSet(Ones(T))
      BY <1>0, FS_Subset
    <3> HIDE DEF Ones, P
    <3>3. Cardinality(Ones(T) \cup {x}) = Cardinality(Ones(T)) + 1
      BY <3>1, <3>2, FS_AddElement
    <3>4. SumOver(f, T \cup {x}) = SumOver(f, T) + 1
      BY <2>1, <2>2, <2>3
    <3>5. SumOver(f, T \cup {x}) = Cardinality(Ones(T) \cup {x})
      BY <2>1, <3>3, <3>4
    <3>6. SumOver(f, T \cup {x}) = Cardinality(Ones(T \cup {x}))
      BY <3>1, <3>5
    <3> QED
      BY <3>6 DEF P
  <2>4. CASE f[x] = 0
    <3>1. Ones(T \cup {x}) = Ones(T)
      BY <2>4
    <3> HIDE DEF Ones
    <3>2. SumOver(f, T \cup {x}) = Cardinality(Ones(T \cup {x}))
      BY <2>1, <2>2, <2>4, <3>1
    <3> QED
      BY <3>2
  <2> QED
    BY <2>3, <2>4
<1> HIDE DEF P
<1>3. S \in P
  BY <1>0, <1>1, <1>2, SubsetInduction
<1> QED
  BY <1>3 DEF P

\* Without negative amounts a sum is not negative, no amount exceeds it, and a
\* smaller set has no larger sum.
LEMMA SumOfNaturals ==
  ASSUME NEW f, IsAmounts(f), NEW S \in SUBSET DOMAIN f, \A x \in S : f[x] >= 0
  PROVE  /\ SumOver(f, S) \in Nat
         /\ \A T \in SUBSET S : SumOver(f, T) <= SumOver(f, S)
         /\ \A x \in S : f[x] <= SumOver(f, S)
<1> DEFINE zero == [x \in DOMAIN f |-> 0]
<1>0. \A x \in DOMAIN f : f[x] \in Int
  BY DEF IsAmounts
<1>1. IsAmounts(zero) /\ DOMAIN zero = DOMAIN f /\ \A x \in DOMAIN f : zero[x] = 0
  BY DEF IsAmounts
<1>2. SumOver(zero, S) = 0
  <2>1. SumOver(zero, S) = 0 * SumOver(zero, S)
    BY <1>1, SumTimes
  <2>2. SumOver(zero, S) \in Int
    BY <1>1, SumType
  <2> QED
    BY <2>1, <2>2
<1> HIDE DEF zero
<1>3. ASSUME NEW T \in SUBSET S PROVE SumOver(f, T) >= 0 /\ SumOver(f, T) \in Int
  <2>1. SumOver(zero, T) <= SumOver(f, T)
    BY <1>0, <1>1, SumLeq
  <2>2. SumOver(zero, T) = 0
    <3>1. SumOver(zero, T) = 0 * SumOver(zero, T)
      BY <1>1, SumTimes
    <3>2. SumOver(zero, T) \in Int
      BY <1>1, SumType
    <3> QED
      BY <3>1, <3>2
  <2>3. SumOver(f, T) \in Int
    BY SumType
  <2> QED
    BY <2>1, <2>2, <2>3
<1>4. ASSUME NEW T \in SUBSET S PROVE SumOver(f, T) <= SumOver(f, S)
  <2>1. T \cup (S \ T) = S /\ T \cap (S \ T) = {} /\ S \ T \in SUBSET S
    OBVIOUS
  <2>2. SumOver(f, S) = SumOver(f, T) + SumOver(f, S \ T)
    BY <2>1, SumUnion
  <2> QED
    BY <1>3, <2>1, <2>2
<1>5. ASSUME NEW x \in S PROVE f[x] <= SumOver(f, S)
  <2>1. SumOver(f, S) = f[x] + SumOver(f, S \ {x})
    BY SumTakeOut
  <2> QED
    BY <1>0, <1>3, <2>1
<1> QED
  BY <1>3, <1>4, <1>5

\* Nothing adds up to nothing.
LEMMA SumOfZeros ==
  ASSUME NEW f, IsAmounts(f), NEW S \in SUBSET DOMAIN f, \A x \in S : f[x] = 0
  PROVE  SumOver(f, S) = 0
<1>1. \A x \in S : f[x] = 0 * f[x]
  BY DEF IsAmounts
<1>2. SumOver(f, S) = 0 * SumOver(f, S) /\ SumOver(f, S) \in Int
  BY <1>1, SumTimes, SumType
<1> QED
  BY <1>2

\* Sums over the whole of their domain, as the models write them.
LEMMA SumOfType ==
  ASSUME NEW f, IsAmounts(f)
  PROVE  /\ SumOf(f) \in Int
         /\ (\A x \in DOMAIN f : f[x] >= 0) => SumOf(f) \in Nat
         /\ (\A x \in DOMAIN f : f[x] = 0) => SumOf(f) = 0
BY SumIsFold, SumType, SumOfNaturals, SumOfZeros

LEMMA SumOfEqual ==
  ASSUME NEW f, IsAmounts(f), NEW g, IsAmounts(g), DOMAIN f = DOMAIN g,
         \A x \in DOMAIN f : f[x] = g[x]
  PROVE  SumOf(f) = SumOf(g)
BY SumIsFold, SumSame

LEMMA SumOfLeq ==
  ASSUME NEW f, IsAmounts(f), NEW g, IsAmounts(g), DOMAIN f = DOMAIN g,
         \A x \in DOMAIN f : f[x] <= g[x]
  PROVE  SumOf(f) <= SumOf(g)
BY SumIsFold, SumLeq

LEMMA SumOfPlus ==
  ASSUME NEW f, IsAmounts(f), NEW g, IsAmounts(g), NEW h, IsAmounts(h),
         DOMAIN f = DOMAIN h, DOMAIN g = DOMAIN h, \A x \in DOMAIN h : h[x] = f[x] + g[x]
  PROVE  SumOf(h) = SumOf(f) + SumOf(g)
BY SumIsFold, SumPlus

\* One more summand.
LEMMA SumOfMore ==
  ASSUME NEW f, IsAmounts(f), NEW g, IsAmounts(g), NEW x \in DOMAIN g,
         DOMAIN f = DOMAIN g \ {x}, \A y \in DOMAIN f : f[y] = g[y]
  PROVE  SumOf(g) = g[x] + SumOf(f)
<1>1. SumOver(g, DOMAIN g) = g[x] + SumOver(g, DOMAIN g \ {x})
  BY SumTakeOut
<1>2. SumOver(f, DOMAIN f) = SumOver(g, DOMAIN f)
  BY SumSame
<1> QED
  BY <1>1, <1>2, SumIsFold

\* Summands that are zero may be left out.
LEMMA SumOfWider ==
  ASSUME NEW f, IsAmounts(f), NEW g, IsAmounts(g), DOMAIN f \subseteq DOMAIN g,
         \A y \in DOMAIN f : f[y] = g[y], \A y \in DOMAIN g \ DOMAIN f : g[y] = 0
  PROVE  SumOf(g) = SumOf(f)
<1> DEFINE rest == DOMAIN g \ DOMAIN f
<1>1. DOMAIN f \cup rest = DOMAIN g /\ DOMAIN f \cap rest = {} /\ rest \in SUBSET DOMAIN g
  OBVIOUS
<1>2. SumOver(g, rest) = 0
  BY <1>1, SumOfZeros
<1> HIDE DEF rest
<1>3. SumOver(g, DOMAIN g) = SumOver(g, DOMAIN f) + SumOver(g, rest)
  BY <1>1, SumUnion
<1>4. SumOver(f, DOMAIN f) = SumOver(g, DOMAIN f) /\ SumOver(g, DOMAIN f) \in Int
  BY SumSame, SumType
<1> QED
  BY <1>2, <1>3, <1>4, SumIsFold
\* Summands that some of the terms get on top of what they were.
LEMMA SumOfShifted ==
  ASSUME NEW f, IsAmounts(f), NEW g, IsAmounts(g), NEW d, IsAmounts(d),
         DOMAIN g = DOMAIN f, DOMAIN d \subseteq DOMAIN f,
         \A x \in DOMAIN d : g[x] = f[x] + d[x],
         \A x \in DOMAIN f \ DOMAIN d : g[x] = f[x]
  PROVE  SumOf(g) = SumOf(f) + SumOf(d)
<1> DEFINE e == [x \in DOMAIN f |-> IF x \in DOMAIN d THEN d[x] ELSE 0]
<1>1. DOMAIN e = DOMAIN f /\ \A x \in DOMAIN f : e[x] = IF x \in DOMAIN d THEN d[x] ELSE 0
  OBVIOUS
<1> HIDE DEF e
<1>2. IsAmounts(e)
  BY <1>1 DEF IsAmounts
<1>3. SumOf(e) = SumOf(d)
  BY <1>1, <1>2, SumOfWider
<1>4. \A x \in DOMAIN g : g[x] = f[x] + e[x]
  BY <1>1 DEF IsAmounts
<1>5. SumOf(g) = SumOf(f) + SumOf(e)
  BY <1>1, <1>2, <1>4, SumOfPlus
<1> QED
  BY <1>3, <1>5

\* One term changes.
LEMMA SumOfChanged ==
  ASSUME NEW f, IsAmounts(f), NEW g, IsAmounts(g), DOMAIN g = DOMAIN f,
         NEW x \in DOMAIN f, \A y \in DOMAIN f \ {x} : g[y] = f[y]
  PROVE  SumOf(g) = SumOf(f) + g[x] - f[x]
<1> DEFINE D == DOMAIN f \ {x}
<1>1. D \in SUBSET DOMAIN f /\ D \subseteq DOMAIN g
  OBVIOUS
<1>2. SumOver(f, DOMAIN f) = f[x] + SumOver(f, D) /\ SumOver(g, DOMAIN f) = g[x] + SumOver(g, D)
  BY SumTakeOut
<1>3. SumOver(f, D) = SumOver(g, D)
  BY <1>1, SumSame
<1>4. SumOver(f, D) \in Int /\ f[x] \in Int /\ g[x] \in Int
  BY <1>1, SumType DEF IsAmounts
<1> QED
  BY <1>2, <1>3, <1>4, SumIsFold

\* The same summands under other names.
LEMMA SumOfRenamed ==
  ASSUME NEW f, IsAmounts(f), NEW g, IsAmounts(g),
         NEW m \in [DOMAIN g -> DOMAIN f],
         \A x, y \in DOMAIN g : m[x] = m[y] => x = y,
         \A z \in DOMAIN f : \E x \in DOMAIN g : m[x] = z,
         \A x \in DOMAIN g : g[x] = f[m[x]]
  PROVE  SumOf(g) = SumOf(f)
<1> DEFINE Named(T) == {m[x] : x \in T}
           P == {T \in SUBSET DOMAIN g : SumOver(g, T) = SumOver(f, Named(T))}
<1>1. {} \in P
  <2>1. Named({}) = {}
    OBVIOUS
  <2> QED
    BY <2>1, SumOfNothing DEF IsAmounts
<1>2. ASSUME NEW T \in SUBSET DOMAIN g, T \in P, NEW x \in DOMAIN g \ T PROVE T \cup {x} \in P
  <2>1. Named(T) \in SUBSET DOMAIN f /\ m[x] \in DOMAIN f \ Named(T)
    OBVIOUS
  <2>2. Named(T \cup {x}) = Named(T) \cup {m[x]}
    OBVIOUS
  <2> HIDE DEF Named
  <2>3. SumOver(f, Named(T) \cup {m[x]}) = f[m[x]] + SumOver(f, Named(T))
    BY <2>1, SumAdd
  <2>4. SumOver(g, T \cup {x}) = g[x] + SumOver(g, T)
    BY <1>2, SumAdd
  <2>5. SumOver(g, T) = SumOver(f, Named(T)) /\ g[x] = f[m[x]]
    BY <1>2
  <2>6. SumOver(g, T \cup {x}) = SumOver(f, Named(T \cup {x}))
    BY <2>2, <2>3, <2>4, <2>5
  <2> QED
    BY <2>6
<1>3. Named(DOMAIN g) = DOMAIN f
  OBVIOUS
<1> HIDE DEF Named
<1>4. DOMAIN g \in P
  <2>1. IsFiniteSet(DOMAIN g)
    BY DEF IsAmounts
  <2> HIDE DEF P
  <2> QED
    BY <1>1, <1>2, <2>1, SubsetInduction
<1> QED
  BY <1>3, <1>4, SumIsFold

\* A sum taken by groups: g has for every d the sum of what k puts there.
LEMMA SumOfGroups ==
  ASSUME NEW f, IsAmounts(f), NEW g, IsAmounts(g), NEW k \in [DOMAIN f -> DOMAIN g],
         \A d \in DOMAIN g : g[d] = SumOver(f, {x \in DOMAIN f : k[x] = d})
  PROVE  SumOf(f) = SumOf(g)
<1> DEFINE Into(T) == {x \in DOMAIN f : k[x] \in T}
           P == {T \in SUBSET DOMAIN g : SumOver(g, T) = SumOver(f, Into(T))}
<1>1. {} \in P
  <2>1. Into({}) = {}
    OBVIOUS
  <2> QED
    BY <2>1, SumOfNothing DEF IsAmounts
<1>2. ASSUME NEW T \in SUBSET DOMAIN g, T \in P, NEW d \in DOMAIN g \ T PROVE T \cup {d} \in P
  <2> DEFINE here == {x \in DOMAIN f : k[x] = d}
  <2>1. /\ Into(T) \in SUBSET DOMAIN f /\ here \in SUBSET DOMAIN f
        /\ Into(T) \cap here = {} /\ Into(T \cup {d}) = Into(T) \cup here
    OBVIOUS
  <2>2. g[d] = SumOver(f, here)
    OBVIOUS
  <2> HIDE DEF Into, here
  <2>3. SumOver(f, Into(T) \cup here) = SumOver(f, Into(T)) + SumOver(f, here)
    BY <2>1, SumUnion
  <2>4. SumOver(g, T \cup {d}) = g[d] + SumOver(g, T)
    BY <1>2, SumAdd
  <2>5. SumOver(g, T) = SumOver(f, Into(T))
    BY <1>2
  <2>6. SumOver(g, T) \in Int /\ g[d] \in Int
    BY <1>2, SumType DEF IsAmounts
  <2>7. SumOver(f, Into(T \cup {d})) = SumOver(f, Into(T)) + SumOver(f, here)
    BY <2>1, <2>3
  <2>8. SumOver(f, Into(T \cup {d})) = SumOver(g, T) + g[d]
    BY <2>2, <2>5, <2>7
  <2>9. SumOver(g, T \cup {d}) = SumOver(f, Into(T \cup {d}))
    BY <2>4, <2>6, <2>8
  <2> QED
    BY <2>9
<1>3. Into(DOMAIN g) = DOMAIN f
  OBVIOUS
<1> HIDE DEF Into
<1>4. DOMAIN g \in P
  <2>1. IsFiniteSet(DOMAIN g)
    BY DEF IsAmounts
  <2> HIDE DEF P
  <2> QED
    BY <1>1, <1>2, <2>1, SubsetInduction
<1> QED
  BY <1>3, <1>4, SumIsFold

(***************************************************************************)
(* Ranks in a total order.                                                 *)
(***************************************************************************)
\* ahead[i] is what comes before i in a strict total order of D.
IsOrder(D, ahead) ==
  /\ ahead \in [D -> SUBSET D]
  /\ \A i \in D : i \notin ahead[i]
  /\ \A i, j, k \in D : i \in ahead[j] /\ j \in ahead[k] => i \in ahead[k]
  /\ \A i, j \in D : i = j \/ i \in ahead[j] \/ j \in ahead[i]

\* Counting what is ahead numbers a finite order from 0.
LEMMA RanksNumber ==
  ASSUME NEW D, IsFiniteSet(D), NEW ahead, IsOrder(D, ahead)
  PROVE  [i \in D |-> Cardinality(ahead[i])] \in Bijection(D, 0 .. Cardinality(D) - 1)
<1> DEFINE n == Cardinality(D)
           rank == [i \in D |-> Cardinality(ahead[i])]
<1>0. n \in Nat
  BY FS_CardinalityType
<1>1. \A i \in D : IsFiniteSet(ahead[i]) /\ ahead[i] \in SUBSET D
  BY FS_Subset DEF IsOrder
<1>2. ASSUME NEW i \in D PROVE Cardinality(ahead[i]) \in 0 .. n - 1
  <2>1. ahead[i] \in SUBSET (D \ {i})
    BY DEF IsOrder
  <2>2. IsFiniteSet(D \ {i}) /\ Cardinality(D \ {i}) = n - 1
    BY FS_RemoveElement
  <2>3. Cardinality(ahead[i]) <= Cardinality(D \ {i}) /\ Cardinality(ahead[i]) \in Nat
    BY <1>1, <2>1, <2>2, FS_Subset, FS_CardinalityType
  <2> QED
    BY <1>0, <2>2, <2>3
<1>3. ASSUME NEW i \in D, NEW j \in D, i \in ahead[j]
      PROVE  Cardinality(ahead[i]) # Cardinality(ahead[j])
  <2>1. ahead[i] \in SUBSET ahead[j] /\ ahead[i] # ahead[j]
    BY <1>3 DEF IsOrder
  <2> QED
    BY <1>1, <2>1, FS_Subset
<1>4. rank \in [D -> 0 .. n - 1]
  BY <1>2
<1>5. rank \in Injection(D, 0 .. n - 1)
  <2>1. \A i, j \in D : i # j => rank[i] # rank[j]
    BY <1>3 DEF IsOrder
  <2> HIDE DEF rank
  <2> QED
    BY <1>4, <2>1, Fun_IsInj
<1>6. IsFiniteSet(0 .. n - 1) /\ Cardinality(0 .. n - 1) = n
  BY <1>0, FS_Interval
<1> HIDE DEF rank
<1>7. rank \in Surjection(D, 0 .. n - 1)
  BY <1>5, <1>6, FS_Injection
<1> QED
  BY <1>5, <1>7 DEF Bijection, rank

\* So exactly k elements have fewer than k ahead of them.
LEMMA RanksBelow ==
  ASSUME NEW D, IsFiniteSet(D), NEW ahead, IsOrder(D, ahead),
         NEW k \in 0 .. Cardinality(D)
  PROVE  Cardinality({i \in D : Cardinality(ahead[i]) < k}) = k
<1> DEFINE n == Cardinality(D)
           rank == [i \in D |-> Cardinality(ahead[i])]
           low == {i \in D : rank[i] < k}
           part == [i \in low |-> rank[i]]
<1>0. n \in Nat /\ k \in Nat /\ k <= n
  BY FS_CardinalityType
<1>1. rank \in Bijection(D, 0 .. n - 1)
  BY RanksNumber
<1>2. low = {i \in D : Cardinality(ahead[i]) < k}
  OBVIOUS
<1> HIDE DEF rank, n
<1>3. /\ rank \in [D -> 0 .. n - 1]
      /\ \A i, j \in D : rank[i] = rank[j] => i = j
      /\ \A m \in 0 .. n - 1 : \E i \in D : rank[i] = m
  BY <1>1 DEF Bijection, Injection, Surjection, IsInjective
<1>4. part \in [low -> 0 .. k - 1]
  BY <1>0, <1>3
<1>5. \A i, j \in low : part[i] = part[j] => i = j
  BY <1>3
<1>6. \A m \in 0 .. k - 1 : \E i \in low : part[i] = m
  BY <1>0, <1>3
<1>6a. IsFiniteSet(low)
  BY FS_Subset
<1> HIDE DEF part, low
<1>7. part \in Injection(low, 0 .. k - 1) /\ part \in Surjection(low, 0 .. k - 1)
  BY <1>4, <1>5, <1>6, Fun_IsInj, Fun_IsSurj
<1>8. ExistsBijection(low, 0 .. k - 1)
  BY <1>7 DEF ExistsBijection, Bijection
<1>9. Cardinality(0 .. k - 1) = k
  BY <1>0, FS_Interval
<1>10. Cardinality(low) = k
  BY <1>6a, <1>8, <1>9, FS_Bijection
<1> QED
  BY <1>2, <1>10

(***************************************************************************)
(* allocateCents.                                                          *)
(***************************************************************************)
LEMMA Division ==
  ASSUME NEW a \in Nat, NEW s \in Nat \ {0}
  PROVE  /\ a \div s \in Nat /\ a % s \in 0 .. s - 1
         /\ a = s * (a \div s) + (a % s)
<1>1. a \div s \in Nat
  OBVIOUS
<1>2. a % s \in 0 .. s - 1
  OBVIOUS
<1>3. a = s * (a \div s) + (a % s)
  OBVIOUS
<1> QED
  BY <1>1, <1>2, <1>3

IsWeights(w) ==
  /\ IsFiniteSet(DOMAIN w) /\ DOMAIN w \subseteq Int
  /\ \A i \in DOMAIN w : w[i] \in Nat

\* The pieces of AllocateCents by index: whole cents, remainders, who is ahead of
\* an index for a cent that is left, and how many cents are left.
Whole(total, w) == [i \in DOMAIN w |-> (total * w[i]) \div SumOf(w)]
Rest(total, w)  == [i \in DOMAIN w |-> (total * w[i]) % SumOf(w)]
Ahead(total, w) ==
  [i \in DOMAIN w |->
     {j \in DOMAIN w : \/ Rest(total, w)[j] > Rest(total, w)[i]
                       \/ Rest(total, w)[j] = Rest(total, w)[i] /\ j < i}]
Extra(total, w) == total - SumOf(Whole(total, w))
Bump(total, w) ==
  [i \in DOMAIN w |-> IF Cardinality(Ahead(total, w)[i]) < Extra(total, w) THEN 1 ELSE 0]

LEMMA AllocationByIndex ==
  ASSUME NEW w, IsWeights(w), NEW total \in Nat, SumOf(w) # 0
  PROVE  AllocateCents(total, w)
           = [i \in DOMAIN w |-> Whole(total, w)[i] + Bump(total, w)[i]]
<1> DEFINE D     == DOMAIN w
           sum   == SumOf(w)
           parts == {[index     |-> i,
                      amount    |-> (total * w[i]) \div sum,
                      remainder |-> (total * w[i]) % sum] : i \in D}
           part(i)  == CHOOSE x \in parts : x.index = i
           ahead(x) == {y \in parts :
                          \/ y.remainder > x.remainder
                          \/ y.remainder = x.remainder /\ y.index < x.index}
           row == [i \in D |-> [index     |-> i,
                                amount    |-> Whole(total, w)[i],
                                remainder |-> Rest(total, w)[i]]]
<1>1. parts = {row[i] : i \in D}
  BY DEF Whole, Rest
<1> HIDE DEF parts, row
<1>2. \A i \in D : /\ row[i].index = i /\ row[i].amount = Whole(total, w)[i]
                   /\ row[i].remainder = Rest(total, w)[i]
  BY DEF row
<1>3. ASSUME NEW i \in D PROVE part(i) = row[i]
  <2>1. row[i] \in parts /\ row[i].index = i
    BY <1>1, <1>2
  <2>2. \A x \in parts : x.index = i => x = row[i]
    BY <1>1, <1>2
  <2> QED
    BY <2>1, <2>2
<1>4. ASSUME NEW i \in D PROVE Cardinality(ahead(row[i])) = Cardinality(Ahead(total, w)[i])
  <2> DEFINE A == Ahead(total, w)[i]
             f == [j \in A |-> row[j]]
  <2>1. A \in SUBSET D /\ A = {j \in D : \/ Rest(total, w)[j] > Rest(total, w)[i]
                                         \/ Rest(total, w)[j] = Rest(total, w)[i] /\ j < i}
    BY DEF Ahead
  <2>2. IsFiniteSet(A)
    BY <2>1, FS_Subset DEF IsWeights
  <2>3. ahead(row[i]) = {row[j] : j \in A}
    BY <1>1, <1>2, <2>1
  <2> HIDE DEF A, ahead
  <2>4. f \in [A -> ahead(row[i])]
    BY <2>3
  <2>5. \A j, k \in A : f[j] = f[k] => j = k
    BY <1>2, <2>1
  <2>6. \A y \in ahead(row[i]) : \E j \in A : f[j] = y
    BY <2>3
  <2> HIDE DEF f
  <2>7. f \in Bijection(A, ahead(row[i]))
    BY <2>4, <2>5, <2>6, Fun_IsInj, Fun_IsSurj DEF Bijection
  <2> QED
    BY <2>2, <2>7, FS_Bijection DEF A, ExistsBijection
<1>5. [i \in D |-> part(i).amount] = Whole(total, w)
  <2> HIDE DEF part
  <2>1. \A i \in D : part(i).amount = Whole(total, w)[i]
    BY <1>2, <1>3
  <2>2. Whole(total, w) = [i \in D |-> Whole(total, w)[i]]
    BY DEF Whole
  <2> QED
    BY <2>1, <2>2
<1> DEFINE extra == total - SumOf([i \in D |-> part(i).amount])
<1>6. extra = Extra(total, w)
  <2> HIDE DEF part
  <2> QED
    BY <1>5 DEF Extra
<1>7. AllocateCents(total, w)
        = [i \in D |-> IF sum = 0 THEN 0
                       ELSE part(i).amount
                              + IF Cardinality(ahead(part(i))) < extra THEN 1 ELSE 0]
  BY DEF AllocateCents, parts
<1> HIDE DEF part, ahead, extra
<1>8. ASSUME NEW i \in D
      PROVE  (IF sum = 0 THEN 0
              ELSE part(i).amount + IF Cardinality(ahead(part(i))) < extra THEN 1 ELSE 0)
               = Whole(total, w)[i] + Bump(total, w)[i]
  <2>1. part(i).amount = Whole(total, w)[i]
    BY <1>2, <1>3
  <2>2. Cardinality(ahead(part(i))) = Cardinality(Ahead(total, w)[i])
    BY <1>3, <1>4
  <2>3. Bump(total, w)[i]
          = IF Cardinality(Ahead(total, w)[i]) < Extra(total, w) THEN 1 ELSE 0
    BY DEF Bump
  <2> QED
    BY <2>1, <2>2, <2>3, <1>6
<1> QED
  BY <1>7, <1>8

\* Arithmetic of shares: x cents of a total go to weight v, with whole q and
\* remainder r, over the sum s of the weights.
LEMMA ShareArithmetic ==
  ASSUME NEW s \in Nat \ {0}, NEW total \in Nat, NEW v \in Nat, NEW q \in Nat,
         NEW r \in 0 .. s - 1, total * v = s * q + r
  PROVE  /\ v = 0 => q = 0 /\ r = 0
         /\ total <= s => q <= v
         /\ total <= s /\ r > 0 => q + 1 <= v
<1>1. ASSUME v = 0 PROVE q = 0 /\ r = 0
  <2>1. s * q + r = 0
    BY <1>1
  <2>2. q > 0 => s * q >= s
    OBVIOUS
  <2> QED
    BY <2>1, <2>2
<1>2. ASSUME total <= s PROVE total * v <= s * v
  BY <1>2
<1>3. ASSUME total <= s, q > v PROVE FALSE
  <2>1. s * q >= s * (v + 1)
    BY <1>3
  <2>2. s * (v + 1) = s * v + s
    OBVIOUS
  <2>3. s * v \in Int /\ s * q \in Int /\ total * v \in Int
    OBVIOUS
  <2> QED
    BY <1>2, <1>3, <2>1, <2>2, <2>3
<1>4. ASSUME total <= s, r > 0, q >= v PROVE FALSE
  <2>1. s * q >= s * v
    BY <1>4
  <2>2. s * v \in Int /\ s * q \in Int /\ total * v \in Int
    OBVIOUS
  <2> QED
    BY <1>2, <1>4, <2>1, <2>2
<1> QED
  BY <1>1, <1>3, <1>4

\* The cents that are left: fewer than there are remainders, so that every bump
\* goes to a remainder.
LEMMA BumpsFit ==
  ASSUME NEW w, IsWeights(w), NEW total \in Nat, SumOf(w) \in Nat \ {0}
  PROVE  /\ IsAmounts(Whole(total, w)) /\ IsAmounts(Bump(total, w))
         /\ SumOf(Whole(total, w)) + SumOf(Bump(total, w)) = total
         /\ \A i \in DOMAIN w :
              /\ Whole(total, w)[i] \in Nat /\ Rest(total, w)[i] \in 0 .. SumOf(w) - 1
              /\ total * w[i] = SumOf(w) * Whole(total, w)[i] + Rest(total, w)[i]
              /\ Bump(total, w)[i] \in {0, 1}
              /\ Bump(total, w)[i] = 1 => Rest(total, w)[i] > 0
<1> DEFINE D == DOMAIN w
           s == SumOf(w)
           q == Whole(total, w)
           r == Rest(total, w)
           ahead == Ahead(total, w)
           extra == Extra(total, w)
           bump == Bump(total, w)
           some == [i \in D |-> IF r[i] > 0 THEN 1 ELSE 0]
           positive == {i \in D : r[i] > 0}
           asked == [i \in D |-> total * w[i]]
           whole == [i \in D |-> s * q[i]]
           most == [i \in D |-> (s - 1) * some[i]]
<1>0. IsFiniteSet(D) /\ (\A i \in D : w[i] \in Nat) /\ s \in Nat \ {0} /\ D \subseteq Int
  BY DEF IsWeights
<1>1. ASSUME NEW i \in D
      PROVE  /\ q[i] \in Nat /\ r[i] \in 0 .. s - 1
             /\ total * w[i] = s * q[i] + r[i]
  <2>1. total * w[i] \in Nat
    BY <1>0
  <2>2. q[i] = (total * w[i]) \div s /\ r[i] = (total * w[i]) % s
    BY DEF Whole, Rest
  <2> HIDE DEF q, r, s
  <2> QED
    BY <1>0, <2>1, <2>2, Division
<1>2. DOMAIN q = D /\ DOMAIN r = D /\ DOMAIN bump = D
  BY DEF Whole, Rest, Bump
<1>3. \A i \in D : bump[i] = IF Cardinality(ahead[i]) < extra THEN 1 ELSE 0
  BY DEF Bump
<1>a. ASSUME NEW i \in D
      PROVE  ahead[i] = {j \in D : r[j] > r[i] \/ (r[j] = r[i] /\ j < i)}
  BY DEF Ahead
<1>4. IsOrder(D, ahead)
  <2>1. \A i \in D : ahead[i] = {j \in D : r[j] > r[i] \/ (r[j] = r[i] /\ j < i)}
    BY <1>a
  <2>2. ahead = [i \in D |-> ahead[i]]
    BY DEF Ahead
  <2>3. \A i \in D : r[i] \in Int /\ i \in Int
    BY <1>0, <1>1
  <2> HIDE DEF ahead, r, D
  <2>4. ahead \in [D -> SUBSET D]
    BY <2>1, <2>2
  <2>5. \A i \in D : i \notin ahead[i]
    BY <2>1, <2>3
  <2>6. \A i, j, k \in D : i \in ahead[j] /\ j \in ahead[k] => i \in ahead[k]
    BY <2>1, <2>3
  <2>7. ASSUME NEW i \in D, NEW j \in D, i # j PROVE i \in ahead[j] \/ j \in ahead[i]
    <3>1. r[i] > r[j] \/ r[j] > r[i] \/ (r[i] = r[j] /\ (i < j \/ j < i))
      BY <2>3, <2>7
    <3> QED
      BY <2>1, <3>1
  <2> QED
    BY <2>4, <2>5, <2>6, <2>7 DEF IsOrder
<1>5. /\ IsAmounts(w) /\ IsAmounts(q) /\ IsAmounts(r) /\ IsAmounts(bump) /\ IsAmounts(some)
      /\ IsAmounts(asked) /\ IsAmounts(whole) /\ IsAmounts(most)
  <2> HIDE DEF q, r, bump, s
  <2>1. IsAmounts(w) /\ IsAmounts(q) /\ IsAmounts(r) /\ IsAmounts(bump)
    BY <1>0, <1>1, <1>2, <1>3 DEF IsAmounts
  <2>2. IsAmounts(some) /\ IsAmounts(asked)
    BY <1>0 DEF IsAmounts
  <2>3. IsAmounts(whole) /\ IsAmounts(most)
    BY <1>0, <1>1 DEF IsAmounts
  <2> QED
    BY <2>1, <2>2, <2>3
<1>6. s = SumOver(w, D) /\ SumOf(q) = SumOver(q, D) /\ SumOf(bump) = SumOver(bump, D)
  BY <1>2, SumIsFold
<1> HIDE DEF q, r, bump, some, asked, whole, most, D, s, extra, ahead
<1>7. s * extra = SumOver(r, D)
  <2>1. SumOver(asked, D) = total * s
    BY <1>5, <1>6, SumTimes DEF asked, D
  <2>2. SumOver(whole, D) = s * SumOver(q, D)
    <3>1. DOMAIN whole = D /\ \A i \in D : whole[i] = s * q[i]
      BY DEF whole
    <3>2. s \in Int
      BY <1>0
    <3> QED
      BY <3>1, <3>2, <1>2, <1>5, SumTimes
  <2>3. SumOver(asked, D) = SumOver(whole, D) + SumOver(r, D)
    BY <1>1, <1>2, <1>5, SumPlus DEF asked, whole
  <2>4. extra = total - SumOver(q, D)
    BY <1>6 DEF Extra, extra, q
  <2>5. SumOver(q, D) \in Int /\ SumOver(r, D) \in Int
    BY <1>2, <1>5, SumType
  <2>6. \A a \in Int : s * (total - a) = total * s - s * a
    BY <1>0
  <2> QED
    BY <2>1, <2>2, <2>3, <2>4, <2>5, <2>6, <1>0
<1>8. IsFiniteSet(positive) /\ Cardinality(positive) \in Nat /\ positive \in SUBSET D
      /\ Cardinality(positive) <= Cardinality(D) /\ Cardinality(D) \in Nat
  BY <1>0, FS_Subset, FS_CardinalityType
<1>9. extra \in 0 .. Cardinality(positive)
  <2>1. SumOver(r, D) <= SumOver(most, D)
    <3>1. \A i \in D : r[i] <= most[i]
      BY <1>0, <1>1 DEF most, some
    <3> QED
      BY <1>2, <1>5, <3>1, SumLeq DEF most
  <2>2. SumOver(most, D) = (s - 1) * SumOver(some, D)
    <3>1. DOMAIN most = D /\ DOMAIN some = D /\ \A i \in D : most[i] = (s - 1) * some[i]
      BY DEF most, some
    <3>2. s - 1 \in Int
      BY <1>0
    <3> QED
      BY <3>1, <3>2, <1>5, SumTimes
  <2>3. SumOver(some, D) = Cardinality(positive)
    <3>1. {i \in D : some[i] = 1} = positive
      BY DEF some
    <3>2. DOMAIN some = D /\ \A i \in D : some[i] \in {0, 1}
      BY DEF some
    <3> QED
      BY <1>5, <3>1, <3>2, SumCounts
  <2>4. SumOver(r, D) >= 0
    BY <1>1, <1>2, <1>5, SumOfNaturals
  <2>5. extra \in Int
    <3>1. SumOver(q, D) \in Int
      BY <1>2, <1>5, SumType
    <3> QED
      BY <3>1, <1>6 DEF Extra, extra, q
  <2>6. ASSUME extra < 0 PROVE FALSE
    BY <2>4, <2>5, <2>6, <1>0, <1>7
  <2>7. ASSUME extra > Cardinality(positive) PROVE FALSE
    <3> DEFINE n == Cardinality(positive)
    <3>1. s * extra <= (s - 1) * n
      BY <1>7, <2>1, <2>2, <2>3
    <3>2. n \in Nat /\ extra >= n + 1
      BY <1>8, <2>5, <2>7
    <3> HIDE DEF n
    <3>3. s * extra >= s * (n + 1)
      BY <3>2, <1>0, <2>5
    <3>4. s * (n + 1) = s * n + s /\ (s - 1) * n = s * n - n
      BY <3>2, <1>0
    <3>5. s * n \in Int /\ s * extra \in Int
      BY <3>2, <1>0, <2>5
    <3> QED
      BY <3>1, <3>2, <3>3, <3>4, <3>5, <1>0
  <2> QED
    BY <2>5, <2>6, <2>7, <1>8
<1>10. SumOver(bump, D) = extra
  <2>1. {i \in D : bump[i] = 1} = {i \in D : Cardinality(ahead[i]) < extra}
    BY <1>3
  <2>2. SumOver(bump, D) = Cardinality({i \in D : bump[i] = 1})
    BY <1>2, <1>3, <1>5, SumCounts
  <2>3. extra \in 0 .. Cardinality(D)
    BY <1>8, <1>9
  <2> QED
    BY <2>1, <2>2, <2>3, <1>0, <1>4, RanksBelow
<1>11. SumOver(q, D) + SumOver(bump, D) = total
  <2>1. SumOver(q, D) \in Int
    BY <1>2, <1>5, SumType
  <2>2. extra = total - SumOver(q, D)
    BY <1>6 DEF Extra, extra, q
  <2> QED
    BY <2>1, <2>2, <1>10
<1>12. ASSUME NEW i \in D, bump[i] = 1 PROVE r[i] > 0
  <2>1. SUFFICES ASSUME r[i] = 0 PROVE FALSE
    BY <1>0, <1>1
  <2>2. ahead[i] \in SUBSET D /\ positive \in SUBSET ahead[i]
    <3>1. \A j \in D : r[j] > 0 => j \in ahead[i]
      BY <2>1, <1>a
    <3>2. ahead[i] \in SUBSET D
      BY <1>a
    <3> QED
      BY <3>1, <3>2
  <2>3. Cardinality(positive) <= Cardinality(ahead[i]) /\ Cardinality(ahead[i]) \in Nat
    BY <2>2, <1>0, FS_Subset, FS_CardinalityType
  <2>4. Cardinality(ahead[i]) < extra
    BY <1>3, <1>12
  <2> QED
    BY <2>3, <2>4, <1>8, <1>9
<1> QED
  BY <1>1, <1>3, <1>5, <1>6, <1>11, <1>12 DEF q, r, bump, s, D

\* tennis-pricing.ts:59-82: the parts of an amount are whole cents that add up to
\* it exactly; each is less than one cent from its exact share, and no part
\* exceeds its weight when the amount does not exceed their sum.
IsExactDivision(x, total, w) ==
  /\ x \in [DOMAIN w -> Nat]
  /\ SumOf(x) = total
  /\ \A i \in DOMAIN w :
       /\ SumOf(w) * x[i] - total * w[i] \in 1 - SumOf(w) .. SumOf(w) - 1
       /\ w[i] = 0 => x[i] = 0
       /\ total <= SumOf(w) => x[i] <= w[i]

\* allocateCents divides every amount exactly over any weights that are not all 0.
THEOREM CentsAreAllocatedExactly ==
  ASSUME NEW w, IsWeights(w), NEW total \in Nat, SumOf(w) > 0
  PROVE  IsExactDivision(AllocateCents(total, w), total, w)
<1> DEFINE D == DOMAIN w
           s == SumOf(w)
           q == Whole(total, w)
           r == Rest(total, w)
           bump == Bump(total, w)
           x == AllocateCents(total, w)
<1>1. s \in Nat \ {0}
  <2>1. IsAmounts(w) /\ \A i \in D : w[i] >= 0
    BY DEF IsWeights, IsAmounts
  <2>2. SumOver(w, D) \in Nat
    BY <2>1, SumOfNaturals
  <2> QED
    BY <2>2, SumIsFold
<1>2. x = [i \in D |-> q[i] + bump[i]]
  BY <1>1, AllocationByIndex
<1>3. /\ IsAmounts(q) /\ IsAmounts(bump)
      /\ SumOf(q) + SumOf(bump) = total
      /\ \A i \in D : /\ q[i] \in Nat /\ r[i] \in 0 .. s - 1 /\ bump[i] \in {0, 1}
                      /\ total * w[i] = s * q[i] + r[i]
                      /\ bump[i] = 1 => r[i] > 0
  BY <1>1, BumpsFit
<1>4. DOMAIN q = D /\ DOMAIN bump = D /\ \A i \in D : w[i] \in Nat
  BY DEF Whole, Bump, IsWeights
<1> HIDE DEF x, q, r, bump
<1>5. x \in [D -> Nat]
  BY <1>2, <1>3
<1>6. SumOf(x) = total
  <2>1. IsAmounts(x) /\ DOMAIN x = D
    BY <1>5 DEF IsAmounts, IsWeights
  <2>2. \A i \in D : x[i] = q[i] + bump[i]
    BY <1>2
  <2>3. SumOver(x, D) = SumOver(q, D) + SumOver(bump, D)
    BY <2>1, <2>2, <1>3, <1>4, SumPlus
  <2>4. SumOf(x) = SumOver(x, D) /\ SumOf(q) = SumOver(q, D) /\ SumOf(bump) = SumOver(bump, D)
    BY <2>1, <1>4, SumIsFold
  <2> QED
    BY <2>3, <2>4, <1>3
<1> HIDE DEF s, D
<1>7. ASSUME NEW i \in D
      PROVE  /\ s * x[i] - total * w[i] \in 1 - s .. s - 1
             /\ w[i] = 0 => x[i] = 0
             /\ total <= s => x[i] <= w[i]
  <2>1. x[i] = q[i] + bump[i] /\ q[i] \in Nat /\ r[i] \in 0 .. s - 1 /\ w[i] \in Nat
        /\ bump[i] \in {0, 1}
    BY <1>2, <1>3, <1>4 DEF D
  <2>2. total * w[i] = s * q[i] + r[i]
    BY <1>3
  <2>3. /\ w[i] = 0 => q[i] = 0 /\ r[i] = 0
        /\ total <= s => q[i] <= w[i]
        /\ total <= s /\ r[i] > 0 => q[i] + 1 <= w[i]
    BY <1>1, <2>1, <2>2, ShareArithmetic
  <2>4. bump[i] = 1 => r[i] > 0
    BY <1>3
  <2>5. s * q[i] \in Int /\ s \in Int /\ s * (q[i] + 1) = s * q[i] + s
    BY <1>1, <2>1
  <2>6. CASE bump[i] = 0
    <3>1. x[i] = q[i]
      BY <2>1, <2>6
    <3> QED
      BY <3>1, <2>1, <2>2, <2>3, <2>5, <1>1
  <2>7. CASE bump[i] = 1
    <3>1. x[i] = q[i] + 1 /\ r[i] > 0
      BY <2>1, <2>4, <2>7
    <3>2. s * x[i] - total * w[i] = s - r[i]
      BY <3>1, <2>1, <2>2, <2>5
    <3> QED
      BY <3>1, <3>2, <2>1, <2>3, <2>5, <1>1
  <2> QED
    BY <2>1, <2>6, <2>7
<1> QED
  BY <1>5, <1>6, <1>7 DEF IsExactDivision, x, D, s

\* Weights that are all 0 take nothing.
LEMMA NothingIsAllocated ==
  ASSUME NEW w, NEW total, SumOf(w) = 0
  PROVE  AllocateCents(total, w) = [i \in DOMAIN w |-> 0]
BY DEF AllocateCents

\* The sum of a table by rows is its sum by columns.
IsTable(m, t, rows, cols) ==
  LET R == DOMAIN rows
      B == DOMAIN cols
  IN
  /\ IsAmounts(rows) /\ IsAmounts(cols)
  /\ m \in [R -> [B -> Int]] /\ t \in [B -> [R -> Int]]
  /\ \A r \in R, b \in B : m[r][b] = t[b][r]
  /\ \A r \in R : rows[r] = SumOf(m[r])
  /\ \A b \in B : cols[b] = SumOf(t[b])

LEMMA SumOfTable ==
  ASSUME NEW m, NEW t, NEW rows, NEW cols, IsTable(m, t, rows, cols)
  PROVE  SumOf(rows) = SumOf(cols)
<1> DEFINE R == DOMAIN rows
           B == DOMAIN cols
<1>0. /\ IsAmounts(rows) /\ IsAmounts(cols) /\ IsFiniteSet(R) /\ IsFiniteSet(B)
      /\ m \in [R -> [B -> Int]] /\ t \in [B -> [R -> Int]]
      /\ \A r \in R, b \in B : m[r][b] = t[b][r]
      /\ \A r \in R : rows[r] = SumOf(m[r])
      /\ \A b \in B : cols[b] = SumOf(t[b])
  BY DEF IsTable, IsAmounts
<1> HIDE DEF R, B
<1> DEFINE upto(T) == [b \in B |-> SumOver(t[b], T)]
           P == {T \in SUBSET R : SumOver(rows, T) = SumOf(upto(T))}
<1>1. \A r \in R : IsAmounts(m[r]) /\ DOMAIN m[r] = B
  BY <1>0 DEF IsAmounts
<1>2. \A b \in B : IsAmounts(t[b]) /\ DOMAIN t[b] = R
  BY <1>0 DEF IsAmounts
<1>4. \A T : DOMAIN upto(T) = B /\ \A b \in B : upto(T)[b] = SumOver(t[b], T)
  OBVIOUS
<1> HIDE DEF upto
<1>6. ASSUME NEW T \in SUBSET R PROVE IsAmounts(upto(T)) /\ DOMAIN upto(T) = B
  <2>1. \A b \in B : SumOver(t[b], T) \in Int
    BY <1>2, SumType
  <2> QED
    BY <1>0, <1>4, <2>1 DEF IsAmounts
<1>7. {} \in P
  <2>1. \A b \in B : upto({})[b] = 0
    BY <1>0, <1>2, <1>4, SumOfNothing
  <2>2. SumOf(upto({})) = 0
    BY <1>6, <2>1, SumOfType
  <2>3. SumOver(rows, {}) = 0
    BY <1>0, SumOfNothing DEF IsAmounts
  <2> QED
    BY <2>2, <2>3
<1>8. ASSUME NEW T \in SUBSET R, T \in P, NEW r \in R \ T PROVE T \cup {r} \in P
  <2>1. SumOver(rows, T \cup {r}) = SumOf(m[r]) + SumOver(rows, T)
    BY <1>0, SumAdd DEF R
  <2>2. SumOver(rows, T) = SumOf(upto(T))
    BY <1>8
  <2>3. T \cup {r} \in SUBSET R
    OBVIOUS
  <2>4. ASSUME NEW b \in B PROVE upto(T \cup {r})[b] = m[r][b] + upto(T)[b]
    <3> DEFINE f == t[b]
    <3>1. IsAmounts(f) /\ DOMAIN f = R /\ f[r] = m[r][b]
      BY <1>0, <1>2
    <3>2. upto(T)[b] = SumOver(f, T) /\ upto(T \cup {r})[b] = SumOver(f, T \cup {r})
      BY <1>4
    <3> HIDE DEF f
    <3>3. SumOver(f, T \cup {r}) = f[r] + SumOver(f, T)
      BY <3>1, SumAdd
    <3> QED
      BY <3>1, <3>2, <3>3
  <2>5. IsAmounts(m[r]) /\ IsAmounts(upto(T)) /\ IsAmounts(upto(T \cup {r}))
    BY <1>1, <1>6, <2>3
  <2>6. DOMAIN m[r] = B /\ DOMAIN upto(T) = B /\ DOMAIN upto(T \cup {r}) = B
    BY <1>1, <1>4
  <2>7. SumOf(upto(T \cup {r})) = SumOf(m[r]) + SumOf(upto(T))
    <3> DEFINE h == upto(T \cup {r})
               f == m[r]
               g == upto(T)
    <3>1. /\ IsAmounts(f) /\ IsAmounts(g) /\ IsAmounts(h)
          /\ DOMAIN f = DOMAIN h /\ DOMAIN g = DOMAIN h /\ \A b \in DOMAIN h : h[b] = f[b] + g[b]
      BY <2>4, <2>5, <2>6
    <3> HIDE DEF f, g, h
    <3>2. SumOf(h) = SumOf(f) + SumOf(g)
      BY <3>1, SumOfPlus
    <3> QED
      BY <3>2 DEF f, g, h
  <2> QED
    BY <2>1, <2>2, <2>3, <2>7
<1> HIDE DEF P
<1>9. R \in P
  BY <1>0, <1>7, <1>8, SubsetInduction
<1>10. SumOf(rows) = SumOf(upto(R))
  BY <1>0, <1>9, SumIsFold DEF P, R
<1>11. \A b \in B : upto(R)[b] = cols[b]
  BY <1>0, <1>2, <1>4, SumIsFold
<1>12. SumOf(upto(R)) = SumOf(cols)
  <2>1. IsAmounts(upto(R)) /\ DOMAIN upto(R) = B
    BY <1>6
  <2> QED
    BY <1>0, <1>11, <2>1, SumOfEqual DEF B
<1> QED
  BY <1>10, <1>12

\* The difference of two sums, where the summands differ.
LEMMA SumOfChange ==
  ASSUME NEW f, IsAmounts(f), NEW g, IsAmounts(g), NEW d, IsAmounts(d),
         DOMAIN f = DOMAIN g, DOMAIN f \subseteq DOMAIN d,
         \A x \in DOMAIN f : g[x] = f[x] + d[x], \A x \in DOMAIN d \ DOMAIN f : d[x] = 0
  PROVE  SumOf(g) = SumOf(f) + SumOf(d)
<1>1. SumOver(g, DOMAIN f) = SumOver(f, DOMAIN f) + SumOver(d, DOMAIN f)
  BY SumPlus
<1>2. SumOver(d, DOMAIN d \ DOMAIN f) = 0
  BY SumOfZeros
<1>3. /\ DOMAIN d = DOMAIN f \cup (DOMAIN d \ DOMAIN f)
      /\ DOMAIN f \cap (DOMAIN d \ DOMAIN f) = {}
      /\ DOMAIN d \ DOMAIN f \in SUBSET DOMAIN d
  OBVIOUS
<1>4. SumOver(d, DOMAIN d) = SumOver(d, DOMAIN f) + SumOver(d, DOMAIN d \ DOMAIN f)
  BY <1>3, SumUnion
<1>5. SumOver(d, DOMAIN f) \in Int
  BY SumType
<1> QED
  BY <1>1, <1>2, <1>4, <1>5, SumIsFold

\* One summand changes.
LEMMA SumOfExcept ==
  ASSUME NEW D, IsFiniteSet(D), NEW f \in [D -> Int], NEW x \in D, NEW c \in Int
  PROVE  SumOf([f EXCEPT ![x] = c]) = SumOf(f) - f[x] + c
<1> DEFINE g == [f EXCEPT ![x] = c]
           h == [y \in D \ {x} |-> f[y]]
<1>1. IsAmounts(f) /\ IsAmounts(g) /\ DOMAIN f = D /\ DOMAIN g = D
  BY DEF IsAmounts
<1>2. IsFiniteSet(D \ {x})
  BY FS_Subset
<1>3. IsAmounts(h) /\ DOMAIN h = D \ {x}
  BY <1>2 DEF IsAmounts
<1>4. g[x] = c /\ f[x] \in Int /\ \A y \in D \ {x} : h[y] = f[y] /\ h[y] = g[y]
  OBVIOUS
<1> HIDE DEF g, h
<1>5. SumOf(f) = f[x] + SumOf(h) /\ SumOf(g) = g[x] + SumOf(h)
  BY <1>1, <1>3, <1>4, SumOfMore
<1>6. SumOf(h) \in Int
  BY <1>3, SumOfType
<1> QED
  BY <1>4, <1>5, <1>6 DEF g
=============================================================================
