----------------------------- MODULE DataLemmas -----------------------------
(***************************************************************************)
(* Facts about finite data that the proofs of several components use. The  *)
(* induction principle is stated with a set instead of a predicate: the    *)
(* numbers a claim holds for are collected, and the set shown to be all of *)
(* Nat.                                                                    *)
(***************************************************************************)
EXTENDS Integers, Sequences, FiniteSetsExt, SequencesExt, FiniteSetTheorems,
        WellFoundedInduction, TLAPS

(* Every set of naturals has a least element.                              *)
LEMMA LeastNatural ==
  ASSUME NEW T \in SUBSET Nat, T # {}
  PROVE  \E m \in T : \A k \in T : m <= k
<1>. DEFINE R == {ss \in Nat \X Nat : ss[1] < ss[2]}
<1>1. IsWellFoundedOn(R, Nat)
  BY NatLessThanWellFounded DEF OpToRel
<1>2. \A x, y \in Nat : <<y, x>> \in R <=> y < x
  OBVIOUS
<1>. HIDE DEF R
<1>3. \E x \in T : \A y \in T : ~(<<y, x>> \in R)
  BY <1>1, WFMin
<1>4. PICK x \in T : \A y \in T : ~(<<y, x>> \in R)
  BY <1>3
<1>5. ASSUME NEW y \in T
      PROVE  x <= y
  <2>1. x \in Nat /\ y \in Nat /\ ~(y < x)
    BY <1>2, <1>4
  <2>. QED BY <2>1
<1>. QED BY <1>5

(* A set that has 0 and with every number the next has all of them.        *)
LEMMA SetInduction ==
  ASSUME NEW T, 0 \in T, \A n \in Nat : n \in T => n + 1 \in T
  PROVE  Nat \subseteq T
<1>1. SUFFICES ASSUME Nat \ T # {}
               PROVE  FALSE
  OBVIOUS
<1>2. PICK m \in Nat \ T : \A k \in Nat \ T : m <= k
  BY <1>1, LeastNatural
<1>3. m # 0 /\ m - 1 \in Nat
  BY <1>2
<1>4. m - 1 \in T
  BY <1>2, <1>3
<1>5. (m - 1) + 1 \in T
  BY <1>3, <1>4
<1>. QED BY <1>2, <1>5

(* A bounded set of naturals has a greatest element.                       *)
LEMMA GreatestNatural ==
  ASSUME NEW T \in SUBSET Nat, T # {}, NEW b \in Nat, \A k \in T : k <= b
  PROVE  \E m \in T : \A k \in T : k <= m
<1>. DEFINE U == {n \in Nat : \A k \in T : k <= n}
<1>1. PICK m \in U : \A n \in U : m <= n
  <2>1. U \in SUBSET Nat /\ b \in U
    OBVIOUS
  <2>. HIDE DEF U
  <2>. QED BY <2>1, LeastNatural
<1>2. ASSUME m \notin T
      PROVE  FALSE
  <2>1. \A k \in T : k <= m - 1
    BY <1>1, <1>2
  <2>2. m - 1 \in Nat
    <3>1. PICK k \in T : TRUE
      OBVIOUS
    <3>2. k \in Nat /\ m \in Nat /\ k <= m - 1
      BY <1>1, <2>1
    <3>. QED BY <3>2
  <2>. QED BY <1>1, <2>1, <2>2
<1>. QED BY <1>1, <1>2

(* Finitely many naturals have a bound.                                    *)
LEMMA NaturalsBounded ==
  ASSUME NEW n \in Nat, NEW p \in [1..n -> Nat]
  PROVE  \E b \in Nat : \A i \in 1..n : p[i] <= b
<1>. DEFINE T == {k \in Nat : k <= n => \E b \in Nat : \A i \in 1..k : p[i] <= b}
<1>1. 0 \in T
  <2>1. \A i \in 1..0 : p[i] <= 0
    OBVIOUS
  <2>. QED BY <2>1
<1>2. ASSUME NEW k \in Nat, k \in T
      PROVE  k + 1 \in T
  <2>1. SUFFICES ASSUME k + 1 <= n
                 PROVE  \E b \in Nat : \A i \in 1..(k + 1) : p[i] <= b
    OBVIOUS
  <2>2. PICK b \in Nat : \A i \in 1..k : p[i] <= b
    BY <1>2, <2>1
  <2>3. PICK c \in Nat : c = p[k + 1]
    BY <2>1
  <2>4. \A i \in 1..(k + 1) : p[i] \in Nat /\ (i \in 1..k \/ i = k + 1)
    BY <2>1
  <2>5. \A i \in 1..(k + 1) : p[i] <= b + c
    BY <2>2, <2>3, <2>4
  <2>6. b + c \in Nat
    OBVIOUS
  <2>. QED BY <2>5, <2>6
<1>. HIDE DEF T
<1>3. n \in T
  BY <1>1, <1>2, SetInduction
<1>. QED BY <1>3 DEF T

(* The greatest of finitely many naturals.                                 *)
LEMMA GreatestOfAll ==
  ASSUME NEW n \in Nat \ {0}, NEW p \in [1..n -> Nat]
  PROVE  LET m == Max({p[i] : i \in 1..n})
         IN  m \in Nat /\ (\A i \in 1..n : p[i] <= m) /\ \E i \in 1..n : p[i] = m
<1>. DEFINE S == {p[i] : i \in 1..n}
<1>1. PICK b \in Nat : \A i \in 1..n : p[i] <= b
  BY NaturalsBounded
<1>2. S \in SUBSET Nat /\ S # {} /\ \A k \in S : k <= b
  <2>1. p[1] \in S
    OBVIOUS
  <2>. QED BY <1>1, <2>1
<1>3. \E m \in S : \A k \in S : m >= k
  <2>. HIDE DEF S
  <2>1. \E m \in S : \A k \in S : k <= m
    BY <1>2, GreatestNatural
  <2>. QED BY <1>2, <2>1
<1>4. Max(S) \in S /\ \A k \in S : Max(S) >= k
  <2>. HIDE DEF S
  <2>. QED BY <1>3 DEF Max
<1>5. Max(S) \in Nat /\ \E i \in 1..n : p[i] = Max(S)
  BY <1>2, <1>4
<1>6. \A i \in 1..n : p[i] \in S
  OBVIOUS
<1>7. \A i \in 1..n : p[i] <= Max(S)
  <2>. HIDE DEF S
  <2>. QED BY <1>2, <1>4, <1>6
<1>. QED BY <1>5, <1>7

(* The least of three.                                                     *)
LEMMA LeastOfThree ==
  ASSUME NEW a \in Int, NEW b \in Int, NEW c \in Int
  PROVE  Min({a, b, c}) \in {a, b, c} /\ \A x \in {a, b, c} : Min({a, b, c}) <= x
<1>1. \E x \in {a, b, c} : \A y \in {a, b, c} : x <= y
  <2>1. CASE a <= b /\ a <= c
    BY <2>1
  <2>2. CASE b <= a /\ b <= c
    BY <2>2
  <2>3. CASE c <= a /\ c <= b
    BY <2>3
  <2>. QED BY <2>1, <2>2, <2>3
<1>. DEFINE S == {a, b, c}
<1>. HIDE DEF S
<1>2. Min(S) \in S /\ \A x \in S : Min(S) <= x
  BY <1>1 DEF Min, S
<1>. QED BY <1>2 DEF S

(* A sequence of naturals has a first greatest element.                    *)
LEMMA FirstGreatest ==
  ASSUME NEW n \in Nat \ {0}, NEW b \in Nat, NEW p \in [1..n -> 0..b]
  PROVE  \E i \in 1..n : \A j \in 1..n : p[j] <= p[i] /\ (p[j] = p[i] => i <= j)
<1>. DEFINE T == {p[i] : i \in 1..n}
<1>1. T \in SUBSET Nat /\ T # {} /\ \A k \in T : k <= b
  <2>1. p[1] \in T
    OBVIOUS
  <2>. QED BY <2>1
<1>2. PICK m \in T : \A k \in T : k <= m
  <2>. HIDE DEF T
  <2>. QED BY <1>1, GreatestNatural
<1>. DEFINE I == {i \in 1..n : p[i] = m}
<1>3. PICK i \in I : \A j \in I : i <= j
  <2>1. I \in SUBSET Nat /\ I # {}
    BY <1>2
  <2>. HIDE DEF I
  <2>. QED BY <2>1, LeastNatural
<1>4. \A j \in 1..n : p[j] <= m
  BY <1>2
<1>. QED BY <1>3, <1>4

(* A sequence leads onto the finite set of its elements.                   *)
LEMMA SeqOntoElements ==
  ASSUME NEW S, NEW s \in Seq(S)
  PROVE  /\ s \in Surjection(1..Len(s), ToSet(s))
         /\ IsFiniteSet(1..Len(s)) /\ Cardinality(1..Len(s)) = Len(s)
         /\ IsFiniteSet(ToSet(s))
<1>0. Len(s) \in Nat
  OBVIOUS
<1>. DEFINE n == Len(s)
<1>1. IsFiniteSet(1..n) /\ Cardinality(1..n) = n
  <2>. HIDE DEF n
  <2>1. n \in Nat
    BY <1>0 DEF n
  <2>2. IsFiniteSet(1..n)
    BY <2>1, FS_Interval
  <2>3. Cardinality(1..n) = n
    BY <2>1, FS_Interval
  <2>. QED BY <2>2, <2>3
<1>2. s \in Surjection(1..Len(s), ToSet(s))
  <2>1. DOMAIN s = 1..Len(s) /\ s = [i \in 1..Len(s) |-> s[i]]
    OBVIOUS
  <2>2. \A i \in 1..Len(s) : s[i] \in ToSet(s)
    BY <2>1 DEF ToSet
  <2>3. \A x \in ToSet(s) : \E i \in 1..Len(s) : s[i] = x
    BY <2>1 DEF ToSet
  <2>4. s \in [1..Len(s) -> ToSet(s)]
    BY <2>1, <2>2
  <2>. QED BY <2>3, <2>4 DEF Surjection
<1>3. IsFiniteSet(ToSet(s))
  BY <1>1, <1>2, FS_Surjection
<1>. QED BY <1>1, <1>2, <1>3

(* A sequence with as many elements as places has no element twice.        *)
LEMMA DistinctElements ==
  ASSUME NEW S, NEW s \in Seq(S), Cardinality(ToSet(s)) = Len(s)
  PROVE  \A i, j \in 1..Len(s) : s[i] = s[j] => i = j
<1>1. s \in Injection(1..Len(s), ToSet(s))
  BY SeqOntoElements, FS_SurjSameCardinalityImpliesInj
<1>. QED BY <1>1 DEF Injection, IsInjective

(* A sequence with no element twice has as many elements as places.        *)
LEMMA DistinctCounted ==
  ASSUME NEW S, NEW s \in Seq(S), \A i, j \in 1..Len(s) : s[i] = s[j] => i = j
  PROVE  IsFiniteSet(ToSet(s)) /\ Cardinality(ToSet(s)) = Len(s)
<1>1. /\ s \in Surjection(1..Len(s), ToSet(s))
      /\ IsFiniteSet(1..Len(s)) /\ Cardinality(1..Len(s)) = Len(s)
  BY SeqOntoElements
<1>2. s \in Injection(1..Len(s), ToSet(s))
  <2>1. s \in [1..Len(s) -> ToSet(s)]
    BY <1>1 DEF Surjection
  <2>. QED BY <2>1 DEF Injection, IsInjective
<1>. QED BY <1>1, <1>2, FS_Surjection

(* A function that takes every value of a set with as many elements as it  *)
(* has arguments takes no other value.                                     *)
LEMMA ImageIsCounted ==
  ASSUME NEW I, IsFiniteSet(I), NEW f, f = [i \in I |-> f[i]], NEW W,
         \A w \in W : \E i \in I : f[i] = w, Cardinality(W) = Cardinality(I)
  PROVE  \A i \in I : f[i] \in W
<1>. DEFINE T == {f[i] : i \in I}
<1>1. f \in Surjection(I, T)
  BY DEF Surjection
<1>2. IsFiniteSet(T) /\ Cardinality(T) <= Cardinality(I)
  BY <1>1, FS_Surjection
<1>3. W \in SUBSET T
  OBVIOUS
<1>. HIDE DEF T
<1>4. /\ Cardinality(W) <= Cardinality(T)
      /\ Cardinality(T) = Cardinality(W) => T = W
  BY <1>2, <1>3, FS_Subset
<1>5. Cardinality(T) \in Nat /\ Cardinality(I) \in Nat
  BY <1>2, FS_CardinalityType
<1>6. T = W
  BY <1>2, <1>4, <1>5
<1>. QED BY <1>6 DEF T

(* A function that takes no value twice takes as many as it has arguments. *)
LEMMA InjectiveImage ==
  ASSUME NEW I, IsFiniteSet(I), NEW f, f = [i \in I |-> f[i]],
         \A i, j \in I : f[i] = f[j] => i = j
  PROVE  Cardinality({f[i] : i \in I}) = Cardinality(I)
<1>. DEFINE T == {f[i] : i \in I}
<1>1. f \in Surjection(I, T)
  BY DEF Surjection
<1>2. f \in Injection(I, T)
  BY DEF Injection, IsInjective
<1>. HIDE DEF T
<1>3. Cardinality(T) = Cardinality(I)
  BY <1>1, <1>2, FS_Surjection
<1>. QED BY <1>3 DEF T

(* SetToSeq lists every element once.                                      *)
LEMMA ListedOnce ==
  ASSUME NEW S, IsFiniteSet(S)
  PROVE  /\ Cardinality(S) \in Nat
         /\ SetToSeq(S) \in [1..Cardinality(S) -> S]
         /\ \A i, j \in 1..Cardinality(S) : SetToSeq(S)[i] = SetToSeq(S)[j] => i = j
         /\ \A x \in S : \E i \in 1..Cardinality(S) : SetToSeq(S)[i] = x
<1>. DEFINE n == Cardinality(S)
<1>1. n \in Nat /\ ExistsBijection(1..n, S)
  BY FS_CardinalityType
<1>2. \E f \in [1..n -> S] : IsInjective(f)
  BY <1>1 DEF ExistsBijection, Bijection, Injection
<1>3. SetToSeq(S) \in [1..n -> S] /\ IsInjective(SetToSeq(S))
  BY <1>2 DEF SetToSeq
<1>4. SetToSeq(S) \in Injection(1..n, S)
  BY <1>3 DEF Injection
<1>5. Cardinality(1..n) = Cardinality(S)
  BY <1>1, FS_Interval
<1>6. SetToSeq(S) \in Surjection(1..n, S)
  BY <1>4, <1>5, FS_Injection
<1>. QED BY <1>1, <1>3, <1>6 DEF Surjection, IsInjective

(* A function of the first places is a sequence.                           *)
LEMMA FunctionIsSequence ==
  ASSUME NEW S, NEW n \in Nat, NEW f \in [1..n -> S]
  PROVE  f \in Seq(S) /\ Len(f) = n /\ DOMAIN f = 1..n
OBVIOUS

(* One more element at the end of a sequence.                              *)
LEMMA OneMore ==
  ASSUME NEW S, NEW s \in Seq(S), NEW e \in S
  PROVE  /\ s \o <<e>> \in Seq(S) /\ Len(s \o <<e>>) = Len(s) + 1 /\ Len(s) \in Nat
         /\ \A p \in 1..Len(s) : (s \o <<e>>)[p] = s[p]
         /\ (s \o <<e>>)[Len(s) + 1] = e
OBVIOUS

(* Quotient and remainder.                                                 *)
LEMMA Quotient ==
  ASSUME NEW a \in Nat, NEW b \in Nat \ {0}
  PROVE  a \div b \in Nat /\ b * (a \div b) <= a /\ a < b * (a \div b) + b
OBVIOUS
-----------------------------------------------------------------------------
(***************************************************************************)
(* FlattenSeq.                                                             *)
(***************************************************************************)
Flattens(f, s, n) ==
  f = [i \in 1..n |-> IF i = 1 THEN s[i] ELSE f[i - 1] \o s[i]]

(* One value of it.                                                        *)
LEMMA FlattensAt ==
  ASSUME NEW f, NEW s, NEW n, Flattens(f, s, n), NEW i \in 1..n
  PROVE  f[i] = IF i = 1 THEN s[i] ELSE f[i - 1] \o s[i]
<1>. DEFINE e(j) == IF j = 1 THEN s[j] ELSE f[j - 1] \o s[j]
<1>1. f = [j \in 1..n |-> e(j)]
  BY DEF Flattens
<1>. HIDE DEF e
<1>2. f[i] = e(i)
  BY <1>1
<1>. QED BY <1>2 DEF e

(* The function by which FlattenSeq is defined exists.                     *)
LEMMA FlattenExists ==
  ASSUME NEW S, NEW s \in Seq(Seq(S)), NEW n \in Nat, n <= Len(s)
  PROVE  \E f : Flattens(f, s, n)
<1>. DEFINE T == {k \in Nat : k <= Len(s) => \E f : Flattens(f, s, k)}
<1>1. 0 \in T
  <2>1. Flattens([i \in 1..0 |-> 0], s, 0)
    BY DEF Flattens
  <2>. QED BY <2>1
<1>2. ASSUME NEW k \in Nat, k \in T
      PROVE  k + 1 \in T
  <2>1. SUFFICES ASSUME k + 1 <= Len(s)
                 PROVE  \E f : Flattens(f, s, k + 1)
    OBVIOUS
  <2>2. PICK f : Flattens(f, s, k)
    BY <1>2, <2>1
  <2>. DEFINE g == [i \in 1..(k + 1) |->
                      IF i <= k THEN f[i] ELSE IF i = 1 THEN s[i] ELSE f[i - 1] \o s[i]]
  <2>3. ASSUME NEW i \in 1..(k + 1)
        PROVE  g[i] = IF i = 1 THEN s[i] ELSE g[i - 1] \o s[i]
    <3>1. i # 1 => g[i - 1] = f[i - 1]
      <4>1. i # 1 => i - 1 \in 1..(k + 1) /\ i - 1 <= k
        OBVIOUS
      <4>. QED BY <4>1
    <3>2. i <= k => f[i] = IF i = 1 THEN s[i] ELSE f[i - 1] \o s[i]
      BY <2>2, FlattensAt
    <3>. QED BY <3>1, <3>2
  <2>4. g = [i \in 1..(k + 1) |-> IF i = 1 THEN s[i] ELSE g[i - 1] \o s[i]]
    BY <2>3
  <2>. HIDE DEF g
  <2>. QED BY <2>4 DEF Flattens
<1>. HIDE DEF T
<1>3. n \in T
  BY <1>1, <1>2, SetInduction
<1>. QED BY <1>3 DEF T

(* The elements of a concatenation.                                        *)
LEMMA RangeConcat ==
  ASSUME NEW S, NEW s \in Seq(S), NEW t \in Seq(S)
  PROVE  \A x : x \in ToSet(s \o t) <=> x \in ToSet(s) \/ x \in ToSet(t)
<1>1. ASSUME NEW x, x \in ToSet(s)
      PROVE  x \in ToSet(s \o t)
  <2>1. PICK i \in 1..Len(s) : x = s[i]
    BY <1>1 DEF ToSet
  <2>2. i \in DOMAIN (s \o t) /\ (s \o t)[i] = s[i]
    OBVIOUS
  <2>. QED BY <2>1, <2>2 DEF ToSet
<1>2. ASSUME NEW x, x \in ToSet(t)
      PROVE  x \in ToSet(s \o t)
  <2>1. PICK i \in 1..Len(t) : x = t[i]
    BY <1>2 DEF ToSet
  <2>2. Len(s) + i \in DOMAIN (s \o t) /\ (s \o t)[Len(s) + i] = t[i]
    OBVIOUS
  <2>. QED BY <2>1, <2>2 DEF ToSet
<1>3. ASSUME NEW x, x \in ToSet(s \o t)
      PROVE  x \in ToSet(s) \/ x \in ToSet(t)
  <2>1. PICK i \in 1..(Len(s) + Len(t)) : x = (s \o t)[i]
    BY <1>3 DEF ToSet
  <2>2. CASE i <= Len(s)
    BY <2>1, <2>2 DEF ToSet
  <2>3. CASE i > Len(s)
    <3>1. i - Len(s) \in DOMAIN t /\ x = t[i - Len(s)]
      BY <2>1, <2>3
    <3>. QED BY <3>1 DEF ToSet
  <2>. QED BY <2>2, <2>3
<1>. QED BY <1>1, <1>2, <1>3

(* What FlattenSeq gives is a sequence of elements of the sequences, and   *)
(* has all of them.                                                        *)
LEMMA FlattenElements ==
  ASSUME NEW S, NEW s \in Seq(Seq(S))
  PROVE  /\ FlattenSeq(s) \in Seq(S)
         /\ \A x : x \in ToSet(FlattenSeq(s)) <=> \E i \in 1..Len(s) : x \in ToSet(s[i])
<1>1. CASE Len(s) = 0
  <2>1. FlattenSeq(s) = s /\ s = << >>
    BY <1>1 DEF FlattenSeq
  <2>. QED BY <1>1, <2>1 DEF ToSet
<1>2. CASE Len(s) # 0
  <2>. DEFINE f == CHOOSE g : Flattens(g, s, Len(s))
  <2>1. FlattenSeq(s) = f[Len(s)]
    BY <1>2 DEF FlattenSeq, Flattens
  <2>2. Len(s) \in Nat /\ \A i \in 1..Len(s) : s[i] \in Seq(S)
    OBVIOUS
  <2>3. Flattens(f, s, Len(s))
    BY <2>2, FlattenExists
  <2>. HIDE DEF f
  <2>. DEFINE Good(k) == /\ f[k] \in Seq(S)
                         /\ \A x : x \in ToSet(f[k]) <=> \E i \in 1..k : x \in ToSet(s[i])
              T == {k \in Nat : k \in 1..Len(s) => Good(k)}
  <2>4. 0 \in T
    OBVIOUS
  <2>5. ASSUME NEW k \in Nat, k \in T
        PROVE  k + 1 \in T
    <3>1. SUFFICES ASSUME k + 1 <= Len(s)
                   PROVE  Good(k + 1)
      OBVIOUS
    <3>2. CASE k = 0
      <4>1. f[1] = s[1]
        BY <1>2, <2>2, <2>3, FlattensAt
      <4>2. s[1] \in Seq(S) /\ k + 1 = 1 /\ 1..1 = {1}
        BY <1>2, <2>2, <3>2
      <4>. QED BY <4>1, <4>2
    <3>3. CASE k # 0
      <4>1. f[k + 1] = f[k] \o s[k + 1]
        <5>1. PICK j \in 1..Len(s) : j = k + 1 /\ j # 1 /\ j - 1 = k
          BY <2>2, <3>1, <3>3
        <5>2. f[j] = IF j = 1 THEN s[j] ELSE f[j - 1] \o s[j]
          BY <2>3, FlattensAt
        <5>. QED BY <5>1, <5>2
      <4>2. Good(k)
        BY <2>5, <3>1, <3>3
      <4>3. s[k + 1] \in Seq(S)
        BY <2>2, <3>1
      <4>4. \A x : x \in ToSet(f[k] \o s[k + 1]) <=> x \in ToSet(f[k]) \/ x \in ToSet(s[k + 1])
        BY <4>2, <4>3, RangeConcat
      <4>5. f[k + 1] \in Seq(S)
        BY <4>1, <4>2, <4>3
      <4>6. \A x : (\E i \in 1..(k + 1) : x \in ToSet(s[i])) <=>
                    (\E i \in 1..k : x \in ToSet(s[i])) \/ x \in ToSet(s[k + 1])
        <5>1. 1..(k + 1) = 1..k \union {k + 1}
          OBVIOUS
        <5>. QED BY <5>1
      <4>. QED BY <4>1, <4>2, <4>4, <4>5, <4>6
    <3>. QED BY <3>2, <3>3
  <2>. HIDE DEF T
  <2>6. Len(s) \in T
    BY <2>2, <2>4, <2>5, SetInduction
  <2>. QED BY <1>2, <2>1, <2>2, <2>6 DEF T
<1>. QED BY <1>1, <1>2

(* Flattening goes on as it began when there is more to flatten.           *)
LEMMA FlattenAgrees ==
  ASSUME NEW S, NEW s \in Seq(Seq(S)), NEW f, Flattens(f, s, Len(s)), NEW k \in 1..Len(s)
  PROVE  FlattenSeq(SubSeq(s, 1, k)) = f[k]
<1>. DEFINE t == SubSeq(s, 1, k)
            e == CHOOSE g : Flattens(g, t, k)
<1>1. t \in Seq(Seq(S)) /\ Len(t) = k /\ k \in Nat /\ \A i \in 1..k : t[i] = s[i]
  OBVIOUS
<1>. HIDE DEF t
<1>2. FlattenSeq(t) = e[k]
  BY <1>1 DEF FlattenSeq, Flattens
<1>3. Flattens(e, t, k)
  <2>1. k \in Nat /\ k <= Len(t) /\ t \in Seq(Seq(S))
    BY <1>1
  <2>2. \E g : Flattens(g, t, k)
    BY <2>1, FlattenExists
  <2>. QED BY <2>2, Zenon
<1>. HIDE DEF e
<1>. DEFINE T == {j \in Nat : j \in 1..k => e[j] = f[j]}
<1>4. 0 \in T
  OBVIOUS
<1>5. ASSUME NEW j \in Nat, j \in T
      PROVE  j + 1 \in T
  <2>1. SUFFICES ASSUME j + 1 <= k
                 PROVE  e[j + 1] = f[j + 1]
    OBVIOUS
  <2>2. PICK i \in 1..k : i = j + 1 /\ i - 1 = j
    BY <2>1
  <2>3. i \in 1..Len(s)
    OBVIOUS
  <2>4. e[i] = IF i = 1 THEN t[i] ELSE e[i - 1] \o t[i]
    BY <1>1, <1>3, <2>2, FlattensAt
  <2>5. f[i] = IF i = 1 THEN s[i] ELSE f[i - 1] \o s[i]
    BY <2>3, FlattensAt
  <2>6. i # 1 => e[i - 1] = f[i - 1]
    BY <1>5, <2>2
  <2>. QED BY <1>1, <2>2, <2>4, <2>5, <2>6
<1>. HIDE DEF T
<1>6. k \in T
  BY <1>1, <1>4, <1>5, SetInduction
<1>7. e[k] = f[k]
  BY <1>1, <1>6 DEF T
<1>. QED BY <1>2, <1>7 DEF t

(* The first sequences flattened, one after the other.                     *)
LEMMA FlattenSteps ==
  ASSUME NEW S, NEW s \in Seq(Seq(S))
  PROVE  /\ \A k \in 0..Len(s) : FlattenSeq(SubSeq(s, 1, k)) \in Seq(S)
         /\ FlattenSeq(SubSeq(s, 1, 0)) = << >>
         /\ \A k \in 1..Len(s) :
              FlattenSeq(SubSeq(s, 1, k)) = FlattenSeq(SubSeq(s, 1, k - 1)) \o s[k]
         /\ FlattenSeq(SubSeq(s, 1, Len(s))) = FlattenSeq(s)
<1>1. ASSUME NEW k \in 0..Len(s)
      PROVE  FlattenSeq(SubSeq(s, 1, k)) \in Seq(S)
  <2>1. SubSeq(s, 1, k) \in Seq(Seq(S))
    OBVIOUS
  <2>. QED BY <2>1, FlattenElements
<1>2. FlattenSeq(SubSeq(s, 1, 0)) = << >>
  <2>1. SubSeq(s, 1, 0) = << >> /\ Len(SubSeq(s, 1, 0)) = 0
    OBVIOUS
  <2>. QED BY <2>1 DEF FlattenSeq
<1>3. ASSUME NEW k \in 1..Len(s)
      PROVE  FlattenSeq(SubSeq(s, 1, k)) = FlattenSeq(SubSeq(s, 1, k - 1)) \o s[k]
  <2>1. PICK f : Flattens(f, s, Len(s))
    BY FlattenExists
  <2>2. FlattenSeq(SubSeq(s, 1, k)) = f[k]
    BY <2>1, FlattenAgrees
  <2>3. f[k] = IF k = 1 THEN s[k] ELSE f[k - 1] \o s[k]
    BY <2>1, FlattensAt
  <2>4. CASE k = 1
    <3>1. s[k] \in Seq(S) /\ << >> \o s[k] = s[k] /\ k - 1 = 0
      BY <2>4
    <3>. QED BY <1>2, <2>2, <2>3, <2>4, <3>1
  <2>5. CASE k # 1
    <3>1. PICK j \in 1..Len(s) : j = k - 1
      BY <2>5
    <3>2. FlattenSeq(SubSeq(s, 1, j)) = f[j]
      BY <2>1, FlattenAgrees
    <3>. QED BY <2>2, <2>3, <2>5, <3>1, <3>2
  <2>. QED BY <2>4, <2>5
<1>4. SubSeq(s, 1, Len(s)) = s
  OBVIOUS
<1>. QED BY <1>1, <1>2, <1>3, <1>4

(* Sequences of bounded lengths.                                           *)
LEMMA FlattenLength ==
  ASSUME NEW S, NEW s \in Seq(Seq(S)), NEW b \in Nat, \A i \in 1..Len(s) : Len(s[i]) <= b
  PROVE  Len(FlattenSeq(s)) <= Len(s) * b
<1>. DEFINE flat(k) == FlattenSeq(SubSeq(s, 1, k))
            T == {k \in Nat : k <= Len(s) => Len(flat(k)) <= k * b}
<1>1. /\ \A k \in 0..Len(s) : flat(k) \in Seq(S)
      /\ flat(0) = << >>
      /\ \A k \in 1..Len(s) : flat(k) = flat(k - 1) \o s[k]
      /\ flat(Len(s)) = FlattenSeq(s)
  BY FlattenSteps
<1>2. Len(s) \in Nat /\ \A i \in 1..Len(s) : s[i] \in Seq(S)
  OBVIOUS
<1>. HIDE DEF flat
<1>3. 0 \in T
  <2>1. Len(flat(0)) = 0
    BY <1>1
  <2>. QED BY <2>1
<1>4. ASSUME NEW k \in Nat, k \in T
      PROVE  k + 1 \in T
  <2>1. SUFFICES ASSUME k + 1 <= Len(s)
                 PROVE  Len(flat(k + 1)) <= (k + 1) * b
    OBVIOUS
  <2>2. PICK m \in 1..Len(s) : m = k + 1 /\ k = m - 1 /\ k \in 0..Len(s)
    BY <1>2, <2>1
  <2>3. flat(m) = flat(k) \o s[m] /\ flat(k) \in Seq(S) /\ s[m] \in Seq(S)
    BY <1>1, <1>2, <2>2
  <2>4. Len(flat(m)) = Len(flat(k)) + Len(s[m]) /\ Len(flat(k)) \in Nat /\ Len(s[m]) \in Nat
    BY <2>3
  <2>5. Len(flat(k)) <= k * b /\ Len(s[m]) <= b /\ k * b \in Nat
    BY <1>4, <2>2
  <2>6. (k + 1) * b = k * b + b
    OBVIOUS
  <2>. QED BY <2>2, <2>4, <2>5, <2>6
<1>. HIDE DEF T
<1>5. Len(s) \in T
  BY <1>2, <1>3, <1>4, SetInduction
<1>. QED BY <1>1, <1>2, <1>5 DEF T

(* Where an element is that begins each of the sequences and is nowhere    *)
(* else in them: at the places where they begin.                           *)
LEMMA FlattenBeginnings ==
  ASSUME NEW S, NEW s \in Seq(Seq(S)), NEW x,
         \A i \in 1..Len(s) : Len(s[i]) >= 1 /\ \A j \in 1..Len(s[i]) : s[i][j] = x <=> j = 1
  PROVE  /\ \A i \in 1..Len(s) :
              Len(FlattenSeq(SubSeq(s, 1, i - 1))) + 1 <= Len(FlattenSeq(s))
         /\ \A p \in 1..Len(FlattenSeq(s)) :
              FlattenSeq(s)[p] = x <=>
                \E i \in 1..Len(s) : p = Len(FlattenSeq(SubSeq(s, 1, i - 1))) + 1
<1>. DEFINE flat(k) == FlattenSeq(SubSeq(s, 1, k))
            Good(k) == /\ \A i \in 1..k : Len(flat(i - 1)) + 1 <= Len(flat(k))
                       /\ \A p \in 1..Len(flat(k)) :
                            flat(k)[p] = x <=> \E i \in 1..k : p = Len(flat(i - 1)) + 1
            T == {k \in Nat : k <= Len(s) => Good(k)}
<1>1. /\ \A k \in 0..Len(s) : flat(k) \in Seq(S)
      /\ flat(0) = << >>
      /\ \A k \in 1..Len(s) : flat(k) = flat(k - 1) \o s[k]
      /\ flat(Len(s)) = FlattenSeq(s)
  BY FlattenSteps
<1>2. Len(s) \in Nat /\ \A i \in 1..Len(s) : s[i] \in Seq(S)
  OBVIOUS
<1>. HIDE DEF flat
<1>3. 0 \in T
  <2>1. Good(0)
    BY <1>1
  <2>. QED BY <2>1
<1>4. ASSUME NEW k \in Nat, k \in T
      PROVE  k + 1 \in T
  <2>1. SUFFICES ASSUME k + 1 <= Len(s)
                 PROVE  Good(k + 1)
    OBVIOUS
  <2>2. PICK m \in 1..Len(s) : m = k + 1 /\ k = m - 1 /\ k \in 0..Len(s)
    BY <1>2, <2>1
  <2>3. flat(m) = flat(k) \o s[m] /\ flat(k) \in Seq(S) /\ s[m] \in Seq(S)
    BY <1>1, <1>2, <2>2
  <2>4. ASSUME NEW p \in 1..Len(flat(m))
        PROVE  flat(m)[p] = x <=> \E i \in 1..m : p = Len(flat(i - 1)) + 1
    <3>1. 1..m = 1..k \union {m} /\ p \in Nat
      BY <2>2, <2>3
    <3>2. (\E i \in 1..m : p = Len(flat(i - 1)) + 1) <=>
            (\E i \in 1..k : p = Len(flat(i - 1)) + 1) \/ p = Len(flat(k)) + 1
      BY <2>2, <3>1
    <3>3. ASSUME NEW i \in 1..k, p = Len(flat(i - 1)) + 1
          PROVE  p <= Len(flat(k))
      BY <1>4, <2>2, <3>3
    <3>4. CASE p <= Len(flat(k))
      <4>1. p \in 1..Len(flat(k)) /\ flat(m)[p] = flat(k)[p]
        BY <2>3, <3>1, <3>4
      <4>2. flat(k)[p] = x <=> \E i \in 1..k : p = Len(flat(i - 1)) + 1
        BY <1>4, <2>2, <4>1
      <4>3. p # Len(flat(k)) + 1
        BY <2>3, <3>4
      <4>. QED BY <3>2, <4>1, <4>2, <4>3
    <3>5. CASE p > Len(flat(k))
      <4>1. PICK j \in 1..Len(s[m]) : j = p - Len(flat(k))
        <5>1. Len(flat(m)) = Len(flat(k)) + Len(s[m])
          BY <2>3
        <5>2. Len(flat(k)) \in Nat /\ Len(s[m]) \in Nat
          BY <2>3
        <5>3. p <= Len(flat(k)) + Len(s[m])
          BY <5>1, <5>2
        <5>4. p - Len(flat(k)) \in 1..Len(s[m])
          BY <3>1, <3>5, <5>2, <5>3
        <5>. QED BY <5>4
      <4>2. flat(m)[p] = s[m][j]
        BY <2>3, <4>1
      <4>3. s[m][j] = x <=> j = 1
        OBVIOUS
      <4>4. j = 1 <=> p = Len(flat(k)) + 1
        BY <2>3, <4>1
      <4>5. ~ \E i \in 1..k : p = Len(flat(i - 1)) + 1
        BY <2>3, <3>3, <3>5
      <4>. QED BY <3>2, <4>2, <4>3, <4>4, <4>5
    <3>. QED BY <2>3, <3>1, <3>4, <3>5
  <2>5. ASSUME NEW i \in 1..m
        PROVE  Len(flat(i - 1)) + 1 <= Len(flat(m))
    <3>1. Len(flat(m)) = Len(flat(k)) + Len(s[m]) /\ Len(s[m]) >= 1
      BY <2>3
    <3>2. CASE i = m
      BY <2>2, <2>3, <3>1, <3>2
    <3>3. CASE i # m
      <4>1. i \in 1..k
        BY <2>2, <3>3
      <4>2. i - 1 \in 0..Len(s) /\ Len(flat(i - 1)) + 1 <= Len(flat(k))
        BY <1>4, <2>2, <4>1
      <4>3. flat(i - 1) \in Seq(S)
        BY <1>1, <4>2
      <4>4. Len(flat(i - 1)) \in Nat /\ Len(flat(k)) \in Nat /\ Len(s[m]) \in Nat
        BY <2>3, <4>3
      <4>. QED BY <3>1, <4>2, <4>4
    <3>. QED BY <3>2, <3>3
  <2>. QED BY <2>2, <2>4, <2>5
<1>. HIDE DEF T
<1>5. Len(s) \in T
  BY <1>2, <1>3, <1>4, SetInduction
<1>6. Good(Len(s))
  BY <1>2, <1>5 DEF T
<1>. QED BY <1>1, <1>6 DEF flat
-----------------------------------------------------------------------------
(***************************************************************************)
(* Sums over finite sets, as MapThenSumSet takes them: an element is       *)
(* picked and added to the sum of the others.                              *)
(***************************************************************************)
Picked(s) == CHOOSE x \in s : TRUE

PickedPlusRest(f, g, s) == IF s = {} THEN 0 ELSE f[Picked(s)] + g[s \ {Picked(s)}]

Adds(g, f, S) == g = [s \in SUBSET S |-> PickedPlusRest(f, g, s)]

(* Picking an element leaves a smaller set.                                *)
LEMMA PickedLess ==
  ASSUME NEW S, IsFiniteSet(S), NEW s \in SUBSET S
  PROVE  /\ Cardinality(s) \in Nat /\ (Cardinality(s) = 0 <=> s = {})
         /\ s # {} => /\ Picked(s) \in s /\ s \ {Picked(s)} \in SUBSET S
                      /\ Cardinality(s \ {Picked(s)}) = Cardinality(s) - 1
<1>1. IsFiniteSet(s)
  BY FS_Subset
<1>2. Cardinality(s) \in Nat
  BY <1>1, FS_CardinalityType
<1>3. Cardinality(s) = 0 <=> s = {}
  BY <1>1, FS_EmptySet
<1>4. s # {} => Picked(s) \in s
  BY DEF Picked
<1>5. s # {} => Cardinality(s \ {Picked(s)}) = Cardinality(s) - 1
  BY <1>1, <1>4, FS_RemoveElement
<1>. QED BY <1>2, <1>3, <1>4, <1>5

(* One value of it.                                                        *)
LEMMA AddsAt ==
  ASSUME NEW S, NEW f, NEW g, Adds(g, f, S), NEW s \in SUBSET S
  PROVE  g[s] = PickedPlusRest(f, g, s)
BY DEF Adds

(* The function by which a sum is defined exists.                          *)
LEMMA AddsExists ==
  ASSUME NEW S, IsFiniteSet(S), NEW f
  PROVE  \E g : Adds(g, f, S)
<1>. DEFINE Upto(g, n) ==
              /\ g = [s \in SUBSET S |-> g[s]]
              /\ \A s \in SUBSET S : Cardinality(s) <= n => g[s] = PickedPlusRest(f, g, s)
            T == {n \in Nat : \E g : Upto(g, n)}
<1>1. 0 \in T
  <2>. DEFINE z == [s \in SUBSET S |-> 0]
  <2>1. ASSUME NEW s \in SUBSET S, Cardinality(s) <= 0
        PROVE  z[s] = PickedPlusRest(f, z, s)
    <3>1. Cardinality(s) \in Nat /\ (Cardinality(s) = 0 <=> s = {})
      BY PickedLess
    <3>2. s = {}
      BY <2>1, <3>1
    <3>. QED BY <3>2 DEF PickedPlusRest
  <2>2. Upto(z, 0)
    BY <2>1
  <2>. HIDE DEF z, Upto
  <2>. QED BY <2>2
<1>2. ASSUME NEW n \in Nat, n \in T
      PROVE  n + 1 \in T
  <2>1. PICK g : Upto(g, n)
    BY <1>2
  <2>. DEFINE h == [s \in SUBSET S |->
                      IF Cardinality(s) <= n THEN g[s] ELSE PickedPlusRest(f, g, s)]
  <2>2. ASSUME NEW s \in SUBSET S, Cardinality(s) <= n + 1
        PROVE  h[s] = PickedPlusRest(f, h, s)
    <3>1. h[s] = PickedPlusRest(f, g, s)
      BY <2>1
    <3>2. s # {} => h[s \ {Picked(s)}] = g[s \ {Picked(s)}]
      <4>1. s # {} => s \ {Picked(s)} \in SUBSET S /\ Cardinality(s \ {Picked(s)}) <= n
        BY <2>2, PickedLess
      <4>. QED BY <4>1
    <3>. QED BY <3>1, <3>2 DEF PickedPlusRest
  <2>3. h = [s \in SUBSET S |-> h[s]]
    OBVIOUS
  <2>. HIDE DEF h
  <2>4. Upto(h, n + 1)
    BY <2>2, <2>3
  <2>. HIDE DEF Upto
  <2>. QED BY <2>4
<1>. HIDE DEF T
<1>3. Cardinality(S) \in T
  BY <1>1, <1>2, SetInduction, FS_CardinalityType
<1>4. PICK g : Upto(g, Cardinality(S))
  BY <1>3 DEF T
<1>5. \A s \in SUBSET S : g[s] = PickedPlusRest(f, g, s)
  BY <1>4, FS_Subset
<1>6. g = [s \in SUBSET S |-> PickedPlusRest(f, g, s)]
  BY <1>4, <1>5
<1>. QED BY <1>6 DEF Adds

(* Term by term.                                                           *)
AtMost(S, a, f, b, g, c, h) == \A x \in S : a * f[x] <= b * g[x] + c * h[x]

(* A linear inequality between the terms is one between the sums.          *)
LEMMA SumsCompare ==
  ASSUME NEW S, IsFiniteSet(S),
         NEW f \in [S -> Nat], NEW g \in [S -> Nat], NEW h \in [S -> Nat],
         NEW F, NEW G, NEW H, Adds(F, f, S), Adds(G, g, S), Adds(H, h, S),
         NEW a \in Nat, NEW b \in Nat, NEW c \in Nat,
         AtMost(S, a, f, b, g, c, h)
  PROVE  /\ F[S] \in Nat /\ G[S] \in Nat /\ H[S] \in Nat
         /\ a * F[S] <= b * G[S] + c * H[S]
<1>. DEFINE Good(s) == /\ F[s] \in Nat /\ G[s] \in Nat /\ H[s] \in Nat
                       /\ a * F[s] <= b * G[s] + c * H[s]
            T == {n \in Nat : \A s \in SUBSET S : Cardinality(s) = n => Good(s)}
<1>1. 0 \in T
  <2>1. ASSUME NEW s \in SUBSET S, Cardinality(s) = 0
        PROVE  Good(s)
    <3>1. s = {}
      BY <2>1, PickedLess
    <3>2. F[s] = 0 /\ G[s] = 0 /\ H[s] = 0
      BY <3>1, AddsAt DEF PickedPlusRest
    <3>. QED BY <3>2
  <2>. HIDE DEF Good
  <2>. QED BY <2>1
<1>2. ASSUME NEW n \in Nat, n \in T
      PROVE  n + 1 \in T
  <2>1. ASSUME NEW s \in SUBSET S, Cardinality(s) = n + 1
        PROVE  Good(s)
    <3>. DEFINE x == Picked(s)
                t == s \ {x}
    <3>1. s # {} /\ x \in S /\ t \in SUBSET S /\ Cardinality(t) = n
      <4>1. Cardinality(s) = 0 <=> s = {}
        BY PickedLess
      <4>2. s # {}
        BY <2>1, <4>1
      <4>3. x \in s /\ t \in SUBSET S /\ Cardinality(t) = Cardinality(s) - 1
        BY <4>2, PickedLess
      <4>. QED BY <2>1, <4>2, <4>3
    <3>2. Good(t)
      <4>. HIDE DEF Good, t
      <4>. QED BY <1>2, <3>1
    <3>3. F[s] = f[x] + F[t] /\ G[s] = g[x] + G[t] /\ H[s] = h[x] + H[t]
      <4>1. /\ F[s] = PickedPlusRest(f, F, s)
            /\ G[s] = PickedPlusRest(g, G, s)
            /\ H[s] = PickedPlusRest(h, H, s)
        BY AddsAt
      <4>. QED BY <3>1, <4>1 DEF PickedPlusRest
    <3>4. /\ f[x] \in Nat /\ g[x] \in Nat /\ h[x] \in Nat
          /\ a * f[x] <= b * g[x] + c * h[x]
      BY <3>1 DEF AtMost
    <3>. HIDE DEF x, t
    <3>5. /\ a * (f[x] + F[t]) = a * f[x] + a * F[t]
          /\ b * (g[x] + G[t]) = b * g[x] + b * G[t]
          /\ c * (h[x] + H[t]) = c * h[x] + c * H[t]
      BY <3>2, <3>4
    <3>6. /\ a * f[x] \in Nat /\ b * g[x] \in Nat /\ c * h[x] \in Nat
          /\ a * F[t] \in Nat /\ b * G[t] \in Nat /\ c * H[t] \in Nat
      BY <3>2, <3>4
    <3>. QED BY <3>2, <3>3, <3>4, <3>5, <3>6
  <2>. HIDE DEF Good
  <2>. QED BY <2>1
<1>. HIDE DEF T
<1>3. Cardinality(S) \in T
  BY <1>1, <1>2, SetInduction, FS_CardinalityType
<1>. HIDE DEF Good
<1>4. Good(S)
  BY <1>3 DEF T
<1>. QED BY <1>4 DEF Good

(* Sums of terms none of which is greater are equal when all terms are.    *)
LEMMA SumsDiffer ==
  ASSUME NEW S, IsFiniteSet(S), NEW f \in [S -> Nat], NEW g \in [S -> Nat],
         NEW F, NEW G, Adds(F, f, S), Adds(G, g, S), \A x \in S : f[x] <= g[x]
  PROVE  /\ F[S] \in Nat /\ G[S] \in Nat /\ F[S] <= G[S]
         /\ (F[S] = G[S]) <=> \A x \in S : f[x] = g[x]
<1>. DEFINE Good(s) == /\ F[s] \in Nat /\ G[s] \in Nat /\ F[s] <= G[s]
                       /\ (F[s] = G[s]) <=> \A x \in s : f[x] = g[x]
            T == {n \in Nat : \A s \in SUBSET S : Cardinality(s) = n => Good(s)}
<1>1. 0 \in T
  <2>1. ASSUME NEW s \in SUBSET S, Cardinality(s) = 0
        PROVE  Good(s)
    <3>1. s = {}
      BY <2>1, PickedLess
    <3>2. F[s] = 0 /\ G[s] = 0
      BY <3>1, AddsAt DEF PickedPlusRest
    <3>. QED BY <3>1, <3>2
  <2>. HIDE DEF Good
  <2>. QED BY <2>1
<1>2. ASSUME NEW n \in Nat, n \in T
      PROVE  n + 1 \in T
  <2>1. ASSUME NEW s \in SUBSET S, Cardinality(s) = n + 1
        PROVE  Good(s)
    <3>. DEFINE x == Picked(s)
                t == s \ {x}
    <3>1. s # {} /\ x \in s /\ x \in S /\ t \in SUBSET S /\ Cardinality(t) = n
      <4>1. Cardinality(s) = 0 <=> s = {}
        BY PickedLess
      <4>2. s # {}
        BY <2>1, <4>1
      <4>3. x \in s /\ t \in SUBSET S /\ Cardinality(t) = Cardinality(s) - 1
        BY <4>2, PickedLess
      <4>. QED BY <2>1, <4>2, <4>3
    <3>2. Good(t)
      <4>. HIDE DEF Good, t
      <4>. QED BY <1>2, <3>1
    <3>3. F[s] = f[x] + F[t] /\ G[s] = g[x] + G[t]
      <4>1. F[s] = PickedPlusRest(f, F, s) /\ G[s] = PickedPlusRest(g, G, s)
        BY AddsAt
      <4>. QED BY <3>1, <4>1 DEF PickedPlusRest
    <3>4. f[x] \in Nat /\ g[x] \in Nat /\ f[x] <= g[x]
      BY <3>1
    <3>5. (\A y \in s : f[y] = g[y]) <=> f[x] = g[x] /\ \A y \in t : f[y] = g[y]
      BY <3>1
    <3>. HIDE DEF x, t
    <3>6. (F[s] = G[s]) <=> f[x] = g[x] /\ F[t] = G[t]
      BY <3>2, <3>3, <3>4
    <3>. QED BY <3>2, <3>3, <3>4, <3>5, <3>6
  <2>. HIDE DEF Good
  <2>. QED BY <2>1
<1>. HIDE DEF T
<1>3. Cardinality(S) \in T
  BY <1>1, <1>2, SetInduction, FS_CardinalityType
<1>. HIDE DEF Good
<1>4. Good(S)
  BY <1>3 DEF T
<1>. QED BY <1>4 DEF Good

(* The three sums that probabilities and scores are made of: of the        *)
(* values, of the values times their levels, and of the levels.            *)
ValueSum(p, S) == MapThenSumSet(LAMBDA i : p[i], S)
LevelSum(p, S) == MapThenSumSet(LAMBDA i : (i - 1) * p[i], S)
PlaceSum(S) == MapThenSumSet(LAMBDA i : i - 1, S)

(* The first is such a sum.                                                *)
LEMMA SumOfValues ==
  ASSUME NEW S, IsFiniteSet(S), NEW p
  PROVE  \E g : Adds(g, p, S) /\ ValueSum(p, S) = g[S]
<1>. DEFINE g == CHOOSE m : Adds(m, p, S)
<1>1. Adds(g, p, S)
  BY AddsExists
<1>2. ValueSum(p, S) = g[S]
  BY DEF ValueSum, MapThenSumSet, MapThenFoldSet, Adds, PickedPlusRest, Picked
<1>. HIDE DEF g
<1>. QED BY <1>1, <1>2

(* So is the second.                                                       *)
LEMMA SumOfLevels ==
  ASSUME NEW S, IsFiniteSet(S), NEW p
  PROVE  \E g : /\ Adds(g, [i \in S |-> (i - 1) * p[i]], S)
                /\ LevelSum(p, S) = g[S]
<1>. DEFINE f == [i \in S |-> (i - 1) * p[i]]
            Weighs(g) == g = [s \in SUBSET S |->
                                IF s = {} THEN 0
                                ELSE (Picked(s) - 1) * p[Picked(s)] + g[s \ {Picked(s)}]]
            w == CHOOSE g : Weighs(g)
<1>1. \A s \in SUBSET S : s # {} => f[Picked(s)] = (Picked(s) - 1) * p[Picked(s)]
  BY DEF Picked
<1>2. \A g : Weighs(g) <=> Adds(g, f, S)
  <2>. HIDE DEF f
  <2>. QED BY <1>1 DEF Adds, PickedPlusRest
<1>3. \E g : Adds(g, f, S)
  BY AddsExists
<1>4. LevelSum(p, S) = w[S]
  BY DEF LevelSum, MapThenSumSet, MapThenFoldSet, Picked
<1>. HIDE DEF Weighs, f
<1>5. Weighs(w)
  BY <1>2, <1>3
<1>. HIDE DEF w
<1>. QED BY <1>2, <1>4, <1>5 DEF f

(* And the third.                                                          *)
LEMMA SumOfPlaces ==
  ASSUME NEW S, IsFiniteSet(S)
  PROVE  \E g : Adds(g, [i \in S |-> i - 1], S) /\ PlaceSum(S) = g[S]
<1>. DEFINE f == [i \in S |-> i - 1]
            Counts(g) == g = [s \in SUBSET S |->
                                IF s = {} THEN 0 ELSE (Picked(s) - 1) + g[s \ {Picked(s)}]]
            w == CHOOSE g : Counts(g)
<1>1. \A s \in SUBSET S : s # {} => f[Picked(s)] = Picked(s) - 1
  BY DEF Picked
<1>2. \A g : Counts(g) <=> Adds(g, f, S)
  <2>. HIDE DEF f
  <2>. QED BY <1>1 DEF Adds, PickedPlusRest
<1>3. \E g : Adds(g, f, S)
  BY AddsExists
<1>4. PlaceSum(S) = w[S]
  BY DEF PlaceSum, MapThenSumSet, MapThenFoldSet, Picked
<1>. HIDE DEF Counts, f
<1>5. Counts(w)
  BY <1>2, <1>3
<1>. HIDE DEF w
<1>. QED BY <1>2, <1>4, <1>5 DEF f
-----------------------------------------------------------------------------
(***************************************************************************)
(* FoldLeft: the last place is taken out, and its step follows those of    *)
(* the places before it. The steps are a function of the place and of the  *)
(* value so far.                                                           *)
(***************************************************************************)
LastAfterRest(g, h, b, s) == IF s = {} THEN b ELSE h[Max(s)][g[s \ {Max(s)}]]

FoldsLeft(g, h, b, n) == g = [s \in SUBSET (1..n) |-> LastAfterRest(g, h, b, s)]

(* A set of places has a last one; without it the set is smaller.          *)
LEMMA LastPlace ==
  ASSUME NEW n \in Nat, NEW s \in SUBSET (1..n)
  PROVE  /\ Cardinality(s) \in Nat /\ Cardinality(s) <= n /\ (Cardinality(s) = 0 <=> s = {})
         /\ s # {} => /\ Max(s) \in s /\ Max(s) \in 1..n /\ \A k \in s : k <= Max(s)
                      /\ s \ {Max(s)} \in SUBSET (1..n)
                      /\ Cardinality(s \ {Max(s)}) = Cardinality(s) - 1
<1>1. IsFiniteSet(s) /\ Cardinality(s) <= n
  <2>1. IsFiniteSet(1..n)
    BY FS_Interval
  <2>2. Cardinality(1..n) = n
    BY FS_Interval
  <2>3. IsFiniteSet(s)
    BY <2>1, FS_Subset
  <2>4. Cardinality(s) <= Cardinality(1..n)
    BY <2>1, FS_Subset
  <2>. QED BY <2>2, <2>3, <2>4
<1>2. Cardinality(s) \in Nat
  BY <1>1, FS_CardinalityType
<1>3. Cardinality(s) = 0 <=> s = {}
  BY <1>1, FS_EmptySet
<1>4. ASSUME s # {}
      PROVE  Max(s) \in s /\ \A k \in s : k <= Max(s)
  <2>1. s \in SUBSET Nat /\ \A k \in s : k <= n
    OBVIOUS
  <2>2. \E m \in s : \A k \in s : k <= m
    BY <1>4, <2>1, GreatestNatural
  <2>3. \E m \in s : \A k \in s : m >= k
    BY <2>1, <2>2
  <2>4. Max(s) \in s /\ \A k \in s : Max(s) >= k
    BY <2>3 DEF Max
  <2>. QED BY <2>1, <2>4
<1>5. s # {} => Cardinality(s \ {Max(s)}) = Cardinality(s) - 1
  BY <1>1, <1>4, FS_RemoveElement
<1>. QED BY <1>1, <1>2, <1>3, <1>4, <1>5

(* The last of the first places.                                           *)
LEMMA LastOfFirst ==
  ASSUME NEW k \in Nat \ {0}
  PROVE  Max(1..k) = k /\ (1..k) \ {k} = 1..(k - 1)
<1>1. 1..k \in SUBSET (1..k) /\ 1..k # {} /\ k \in 1..k
  OBVIOUS
<1>2. Max(1..k) \in 1..k /\ \A j \in 1..k : j <= Max(1..k)
  BY <1>1, LastPlace
<1>3. Max(1..k) = k
  BY <1>1, <1>2
<1>. QED BY <1>3

(* The function by which a left fold is defined exists.                    *)
LEMMA LeftFoldExists ==
  ASSUME NEW A, NEW b \in A, NEW n \in Nat, NEW h \in [1..n -> [A -> A]]
  PROVE  \E g \in [SUBSET (1..n) -> A] : FoldsLeft(g, h, b, n)
<1>. DEFINE S == 1..n
            Upto(g, m) ==
              /\ g \in [SUBSET S -> A]
              /\ \A s \in SUBSET S : Cardinality(s) <= m => g[s] = LastAfterRest(g, h, b, s)
            T == {m \in Nat : \E g : Upto(g, m)}
<1>1. ASSUME NEW g \in [SUBSET S -> A], NEW s \in SUBSET S
      PROVE  LastAfterRest(g, h, b, s) \in A
  <2>1. CASE s = {}
    BY <2>1 DEF LastAfterRest
  <2>2. CASE s # {}
    <3>1. Max(s) \in S /\ s \ {Max(s)} \in SUBSET S
      BY <2>2, LastPlace
    <3>2. g[s \ {Max(s)}] \in A
      BY <3>1
    <3>. QED BY <2>2, <3>1, <3>2 DEF LastAfterRest
  <2>. QED BY <2>1, <2>2
<1>2. 0 \in T
  <2>. DEFINE z == [s \in SUBSET S |-> b]
  <2>1. ASSUME NEW s \in SUBSET S, Cardinality(s) <= 0
        PROVE  z[s] = LastAfterRest(z, h, b, s)
    <3>1. Cardinality(s) \in Nat /\ (Cardinality(s) = 0 <=> s = {})
      BY LastPlace
    <3>2. s = {}
      BY <2>1, <3>1
    <3>. QED BY <3>2 DEF LastAfterRest
  <2>2. Upto(z, 0)
    BY <2>1
  <2>. HIDE DEF z, Upto
  <2>. QED BY <2>2
<1>3. ASSUME NEW m \in Nat, m \in T
      PROVE  m + 1 \in T
  <2>1. PICK g : Upto(g, m)
    BY <1>3
  <2>. DEFINE k == [s \in SUBSET S |->
                      IF Cardinality(s) <= m THEN g[s] ELSE LastAfterRest(g, h, b, s)]
  <2>2. k \in [SUBSET S -> A]
    BY <1>1, <2>1
  <2>3. \A s \in SUBSET S : Cardinality(s) <= m => k[s] = g[s]
    OBVIOUS
  <2>4. \A s \in SUBSET S : k[s] = LastAfterRest(g, h, b, s)
    BY <2>1
  <2>. HIDE DEF k
  <2>5. ASSUME NEW s \in SUBSET S, Cardinality(s) <= m + 1
        PROVE  k[s] = LastAfterRest(k, h, b, s)
    <3>1. s # {} => k[s \ {Max(s)}] = g[s \ {Max(s)}]
      <4>1. /\ Cardinality(s) \in Nat
            /\ s # {} => /\ s \ {Max(s)} \in SUBSET S
                         /\ Cardinality(s \ {Max(s)}) = Cardinality(s) - 1
        BY LastPlace
      <4>2. s # {} => Cardinality(s \ {Max(s)}) <= m
        BY <2>5, <4>1
      <4>. QED BY <2>3, <4>1, <4>2
    <3>2. k[s] = LastAfterRest(g, h, b, s)
      BY <2>4
    <3>. QED BY <3>1, <3>2 DEF LastAfterRest
  <2>6. Upto(k, m + 1)
    BY <2>2, <2>5
  <2>. HIDE DEF Upto
  <2>. QED BY <2>6
<1>. HIDE DEF T
<1>4. n \in T
  BY <1>2, <1>3, SetInduction
<1>5. PICK g : Upto(g, n)
  BY <1>4 DEF T
<1>6. ASSUME NEW s \in SUBSET S
      PROVE  g[s] = LastAfterRest(g, h, b, s)
  <2>1. Cardinality(s) <= n
    BY LastPlace
  <2>. QED BY <1>5, <2>1
<1>7. g = [s \in SUBSET S |-> LastAfterRest(g, h, b, s)]
  BY <1>5, <1>6
<1>. QED BY <1>5, <1>7 DEF FoldsLeft
=============================================================================
