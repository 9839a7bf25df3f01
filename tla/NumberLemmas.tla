---------------------------- MODULE NumberLemmas ----------------------------
(***************************************************************************)
(* Facts about naturals, powers of two and sums that the proofs of several *)
(* modules need.  They stand in for the induction theorems of the library, *)
(* which take an operator: an induction here is over the set of the        *)
(* naturals that comply (NatSet), or takes a least element (LeastNat).     *)
(***************************************************************************)
EXTENDS Integers, FiniteSets, Functions, FiniteSetTheorems, TLAPS

\* Any set of natural numbers that is not empty has a least element.
LEMMA LeastNat ==
  ASSUME NEW T \in SUBSET Nat, T # {}
  PROVE  \E n \in T : \A m \in T : n <= m
  <1> DEFINE Below == {1 .. n : n \in T}
  <1>1. Below \subseteq FiniteSubsetsOf(Nat) /\ Below # {}
    <2>1. \A n \in Nat : 1 .. n \in SUBSET Nat /\ IsFiniteSet(1 .. n)
      BY FS_Interval
    <2> QED
      BY <2>1 DEF FiniteSubsetsOf
  <1>2. IsWellFoundedOn(StrictSubsetOrdering(Nat), FiniteSubsetsOf(Nat))
    BY FS_StrictSubsetOrderingWellFounded
  <1>3. PICK B \in Below : \A C \in Below : ~ (<<C, B>> \in StrictSubsetOrdering(Nat))
    <2> HIDE DEF Below
    <2> QED
      BY <1>1, <1>2, WFMin
  <1>4. PICK n \in T : B = 1 .. n
    BY <1>3
  <1>5. ASSUME NEW m \in T, m < n PROVE FALSE
    <2>1. 1 .. m \in SUBSET (1 .. n) /\ 1 .. m # 1 .. n
      <3>1. n \in 1 .. n /\ n \notin 1 .. m
        BY <1>5
      <3> QED
        BY <3>1, <1>5
    <2>2. <<1 .. m, B>> \in StrictSubsetOrdering(Nat)
      BY <2>1, <1>4 DEF StrictSubsetOrdering
    <2> QED
      BY <2>2, <1>3
  <1> QED
    BY <1>5

\* Induction over the natural numbers, on the set of those that comply.
LEMMA NatSet ==
  ASSUME NEW T \in SUBSET Nat, 0 \in T, \A n \in T : n + 1 \in T
  PROVE  T = Nat
  <1> SUFFICES ASSUME Nat \ T # {} PROVE FALSE
    OBVIOUS
  <1>1. PICK n \in Nat \ T : \A m \in Nat \ T : n <= m
    BY LeastNat
  <1>2. n # 0 /\ n - 1 \in Nat /\ n - 1 \notin T
    BY <1>1
  <1> QED
    BY <1>1, <1>2

-----------------------------------------------------------------------------
\* Adding an element to a finite set doubles the number of its subsets.
LEMMA Doubled ==
  ASSUME NEW k \in Nat
  PROVE  2^k \in Nat /\ 2^(k + 1) = 2 * 2^k
  <1> DEFINE A == SUBSET (1 .. k)
             B == {s \cup {k + 1} : s \in A}
  <1>1. IsFiniteSet(1 .. k) /\ Cardinality(1 .. k) = k
    BY FS_Interval
  <1>2. IsFiniteSet(1 .. (k + 1)) /\ Cardinality(1 .. (k + 1)) = k + 1
    BY FS_Interval
  <1>3. IsFiniteSet(A) /\ Cardinality(A) = 2^k
    BY <1>1, FS_SUBSET
  <1>4. IsFiniteSet(SUBSET (1 .. (k + 1))) /\ Cardinality(SUBSET (1 .. (k + 1))) = 2^(k + 1)
    BY <1>2, FS_SUBSET
  <1>5. \A s \in A : k + 1 \notin s
    OBVIOUS
  <1>6. ExistsBijection(A, B)
    <2> DEFINE f == [s \in A |-> s \cup {k + 1}]
    <2>1. f \in [A -> B] /\ \A b \in B : \E s \in A : f[s] = b
      OBVIOUS
    <2>2. \A r, s \in A : f[r] = f[s] => r = s
      BY <1>5
    <2>3. f \in Bijection(A, B)
      <3> HIDE DEF f, A, B
      <3> QED
        BY <2>1, <2>2 DEF Bijection, Injection, Surjection, IsInjective
    <2> QED
      BY <2>3 DEF ExistsBijection
  <1>7. IsFiniteSet(B) /\ Cardinality(B) = 2^k
    <2> HIDE DEF A, B
    <2> QED
      BY <1>3, <1>6, FS_Bijection
  <1>8. A \cap B = {}
    BY <1>5
  <1>9. SUBSET (1 .. (k + 1)) = A \cup B
    <2>1. ASSUME NEW s \in SUBSET (1 .. (k + 1)) PROVE s \in A \cup B
      <3>1. CASE k + 1 \in s
        <4>1. s = (s \ {k + 1}) \cup {k + 1} /\ s \ {k + 1} \in A
          BY <3>1
        <4> QED
          BY <4>1
      <3>2. CASE k + 1 \notin s
        BY <3>2
      <3> QED
        BY <3>1, <3>2
    <2>2. A \subseteq SUBSET (1 .. (k + 1))
      OBVIOUS
    <2>3. ASSUME NEW b \in B PROVE b \in SUBSET (1 .. (k + 1))
      <3>1. PICK s \in A : b = s \cup {k + 1}
        OBVIOUS
      <3> QED
        BY <3>1
    <2> HIDE DEF A, B
    <2> QED
      BY <2>1, <2>2, <2>3
  <1> HIDE DEF A, B
  <1>10. Cardinality(A \cup B) = Cardinality(A) + Cardinality(B) - Cardinality({})
    BY <1>3, <1>7, <1>8, FS_Union
  <1>11. 2^k \in Nat
    BY <1>3, FS_CardinalityType
  <1>12. Cardinality(A \cup B) = 2^k + 2^k - 0
    <2>1. Cardinality(A \cap B) = 0
      BY <1>8, FS_EmptySet, Zenon
    <2>2. Cardinality(A \cup B) = Cardinality(A) + Cardinality(B) - Cardinality(A \cap B)
      BY <1>3, <1>7, FS_Union, Zenon
    <2> QED
      BY <1>3, <1>7, <2>1, <2>2, Zenon
  <1>13. 2^(k + 1) = 2^k + 2^k - 0
    BY <1>4, <1>9, <1>12, Zenon
  <1>14. \A p \in Nat : p + p - 0 = 2 * p
    OBVIOUS
  <1>15. 2^k + 2^k - 0 = 2 * 2^k
    BY <1>11, <1>14, Zenon
  <1> QED
    BY <1>11, <1>13, <1>15, Zenon

\* Powers of two are positive and above their exponent.
LEMMA PowerAbove ==
  ASSUME NEW k \in Nat
  PROVE  2^k \in Nat /\ k < 2^k
  <1> DEFINE T == {n \in Nat : 2^n \in Nat /\ n < 2^n}
  <1>1. 0 \in T
    <2>1. 2^0 = 1
      BY SMT
    <2> QED
      BY <2>1
  <1>2. ASSUME NEW n \in T PROVE n + 1 \in T
    <2>1. n \in Nat /\ n + 1 \in Nat /\ 2^n \in Nat /\ n < 2^n
      OBVIOUS
    <2>2. 2^(n + 1) \in Nat /\ 2^(n + 1) = 2 * 2^n
      BY <2>1, Doubled, Zenon
    <2>3. \A p, q \in Nat : n < p /\ q = 2 * p => n + 1 < q
      BY <2>1
    <2>4. n + 1 < 2^(n + 1)
      BY <2>1, <2>2, <2>3, Zenon
    <2> QED
      BY <2>1, <2>2, <2>4, Zenon
  <1> HIDE DEF T
  <1>3. T \in SUBSET Nat
    BY DEF T
  <1>4. T = Nat
    BY <1>1, <1>2, <1>3, NatSet
  <1> QED
    BY <1>4 DEF T

\* They grow: the next power is at most any later one.
LEMMA PowerGrows ==
  ASSUME NEW a \in Nat, NEW b \in Nat, a < b
  PROVE  2^(a + 1) <= 2^b
  <1> DEFINE T == {n \in Nat : 2^(a + 1) <= 2^(a + 1 + n)}
  <1>0. a + 1 \in Nat
    OBVIOUS
  <1>1. 0 \in T
    <2>1. 2^(a + 1) \in Nat
      BY <1>0, PowerAbove, Zenon
    <2>2. a + 1 + 0 = a + 1
      OBVIOUS
    <2>3. \A p \in Nat : p <= p
      OBVIOUS
    <2>4. 2^(a + 1) <= 2^(a + 1 + 0)
      BY <2>1, <2>2, <2>3, Zenon
    <2> QED
      BY <2>4
  <1>2. ASSUME NEW n \in T PROVE n + 1 \in T
    <2>1. n \in Nat /\ n + 1 \in Nat /\ a + 1 + n \in Nat
      OBVIOUS
    <2>2. 2^(a + 1) \in Nat /\ 2^(a + 1 + n) \in Nat
      BY <1>0, <2>1, PowerAbove, Zenon
    <2>3. a + 1 + (n + 1) = (a + 1 + n) + 1
      BY <2>1
    <2>4. 2^(a + 1 + (n + 1)) = 2 * 2^(a + 1 + n)
      BY <2>1, <2>3, Doubled, Zenon
    <2>5. 2^(a + 1) <= 2^(a + 1 + n)
      OBVIOUS
    <2>6. \A p, q, r \in Nat : p <= q => p <= 2 * q
      OBVIOUS
    <2>7. 2^(a + 1) <= 2^(a + 1 + (n + 1))
      BY <2>2, <2>4, <2>5, <2>6, Zenon
    <2> QED
      BY <2>1, <2>7, Zenon
  <1> HIDE DEF T
  <1>3. T \in SUBSET Nat
    BY DEF T
  <1>4. T = Nat
    BY <1>1, <1>2, <1>3, NatSet
  <1>5. b - (a + 1) \in Nat /\ a + 1 + (b - (a + 1)) = b
    OBVIOUS
  <1>6. 2^(a + 1) <= 2^(a + 1 + (b - (a + 1)))
    BY <1>4, <1>5, Zenon DEF T
  <1> QED
    BY <1>5, <1>6, Zenon

\* The product of two powers of two.
LEMMA PowerAdds ==
  ASSUME NEW a \in Nat, NEW b \in Nat
  PROVE  2^(a + b) = 2^a * 2^b
  <1> DEFINE T == {n \in Nat : 2^(a + n) = 2^a * 2^n}
  <1>0. 2^a \in Nat
    BY PowerAbove
  <1>1. 0 \in T
    <2>1. 2^0 = 1 /\ a + 0 = a
      BY SMT
    <2>2. \A p \in Nat : p = p * 1
      OBVIOUS
    <2>3. 2^(a + 0) = 2^a * 2^0
      BY <1>0, <2>1, <2>2, Zenon
    <2> QED
      BY <2>3
  <1>2. ASSUME NEW n \in T PROVE n + 1 \in T
    <2>1. n \in Nat /\ n + 1 \in Nat /\ a + n \in Nat /\ a + (n + 1) = (a + n) + 1
      OBVIOUS
    <2>2. 2^n \in Nat /\ 2^(a + n) \in Nat
      BY <2>1, PowerAbove, Zenon
    <2>3. 2^(n + 1) = 2 * 2^n /\ 2^(a + (n + 1)) = 2 * 2^(a + n)
      BY <2>1, Doubled, Zenon
    <2>4. 2^(a + n) = 2^a * 2^n
      OBVIOUS
    <2>5. \A p, q \in Nat : 2 * (p * q) = p * (2 * q)
      OBVIOUS
    <2>6. 2^(a + (n + 1)) = 2^a * 2^(n + 1)
      BY <1>0, <2>2, <2>3, <2>4, <2>5, Zenon
    <2> QED
      BY <2>1, <2>6, Zenon
  <1> HIDE DEF T
  <1>3. T \in SUBSET Nat
    BY DEF T
  <1>4. T = Nat
    BY <1>1, <1>2, <1>3, NatSet
  <1> QED
    BY <1>4 DEF T

\* Between which powers of two a number lies.
LEMMA HighestBit ==
  ASSUME NEW w \in Nat, NEW v \in Nat, 0 < v, v < 2^w
  PROVE  \E b \in 0 .. (w - 1) : 2^b <= v /\ v < 2^(b + 1)
  <1> DEFINE T == {n \in Nat : v < 2^n}
  <1>1. w \in T
    OBVIOUS
  <1> HIDE DEF T
  <1>2. T \in SUBSET Nat
    BY DEF T
  <1>3. PICK c \in T : \A m \in T : c <= m
    BY <1>1, <1>2, LeastNat
  <1>4. c \in Nat /\ v < 2^c /\ c <= w
    BY <1>1, <1>3 DEF T
  <1>5. c # 0
    <2>1. 2^0 = 1
      BY SMT
    <2>2. ~(v < 1)
      OBVIOUS
    <2> QED
      BY <1>4, <2>1, <2>2, Zenon
  <1>6. c - 1 \in Nat /\ c - 1 \in 0 .. (w - 1) /\ (c - 1) + 1 = c /\ ~(c <= c - 1)
    BY <1>4, <1>5
  <1>7. ~(v < 2^(c - 1))
    BY <1>3, <1>6 DEF T
  <1>8. 2^(c - 1) \in Nat
    BY <1>6, PowerAbove, Zenon
  <1>9. 2^(c - 1) <= v
    BY <1>7, <1>8
  <1>10. v < 2^((c - 1) + 1)
    BY <1>4, <1>6, Zenon
  <1> QED
    BY <1>6, <1>9, <1>10, Zenon

\* ... and between no others.
LEMMA OneBit ==
  ASSUME NEW a \in Nat, NEW b \in Nat, NEW v \in Nat,
         2^a <= v, v < 2^(a + 1), 2^b <= v, v < 2^(b + 1)
  PROVE  a = b
  <1>1. 2^a \in Nat /\ 2^b \in Nat /\ 2^(a + 1) \in Nat /\ 2^(b + 1) \in Nat
    <2>1. a + 1 \in Nat /\ b + 1 \in Nat
      OBVIOUS
    <2> QED
      BY <2>1, PowerAbove, Zenon
  <1>2. ASSUME a < b PROVE FALSE
    <2>1. 2^(a + 1) <= 2^b
      BY <1>2, PowerGrows
    <2> QED
      BY <1>1, <2>1
  <1>3. ASSUME b < a PROVE FALSE
    <2>1. 2^(b + 1) <= 2^a
      BY <1>3, PowerGrows
    <2> QED
      BY <1>1, <2>1
  <1> QED
    BY <1>2, <1>3

-----------------------------------------------------------------------------
\* The fold that adds up the values of a function is a recursive function on the
\* subsets of its domain; SumOver(f)[s] is the sum over s.
AnyOf(s) == CHOOSE x \in s : TRUE

IsSum(g, f) ==
  g = [s \in SUBSET DOMAIN f |-> IF s = {} THEN 0 ELSE f[AnyOf(s)] + g[s \ {AnyOf(s)}]]

SumOver(f) == CHOOSE g : IsSum(g, f)

\* What FoldFunction makes of an addition.
LEMMA FoldIsSum ==
  ASSUME NEW f
  PROVE  FoldFunction(LAMBDA x, y : x + y, 0, f) = SumOver(f)[DOMAIN f]
  BY DEF FoldFunction, FoldFunctionOnSet, MapThenFoldSet, SumOver, IsSum, AnyOf

\* Taking an element out of a finite set.
LEMMA OneFewer ==
  ASSUME NEW s, IsFiniteSet(s), NEW i \in s, NEW n \in Nat, Cardinality(s) <= n + 1
  PROVE  IsFiniteSet(s \ {i}) /\ Cardinality(s \ {i}) <= n
  <1>1. IsFiniteSet(s \ {i}) /\ Cardinality(s \ {i}) = Cardinality(s) - 1
    BY FS_RemoveElement
  <1>2. Cardinality(s) \in Nat
    BY FS_CardinalityType
  <1> QED
    BY <1>1, <1>2

\* Over a finite domain the recursion has a solution.
LEMMA SumExists ==
  ASSUME NEW f, IsFiniteSet(DOMAIN f)
  PROVE  IsSum(SumOver(f), f)
  <1> DEFINE D == DOMAIN f
             Small(n) == {s \in SUBSET D : Cardinality(s) <= n}
             Approx(g, n) == g = [s \in Small(n) |->
                                    IF s = {} THEN 0 ELSE f[AnyOf(s)] + g[s \ {AnyOf(s)}]]
             T == {n \in Nat : \E g : Approx(g, n)}
  <1>0. \A s \in SUBSET D : IsFiniteSet(s) /\ Cardinality(s) \in Nat
    BY FS_Subset, FS_CardinalityType
  <1>c. \A s \in SUBSET D : s # {} => AnyOf(s) \in s
    BY DEF AnyOf
  <1>1. 0 \in T
    <2>1. \A s \in Small(0) : s = {}
      <3> TAKE s \in Small(0)
      <3>1. Cardinality(s) \in Nat /\ Cardinality(s) <= 0 /\ IsFiniteSet(s)
        BY <1>0
      <3>2. Cardinality(s) = 0
        BY <3>1
      <3> QED
        BY <3>1, <3>2, FS_EmptySet
    <2>2. Approx([s \in Small(0) |-> 0], 0)
      <3> HIDE DEF Small
      <3> QED
        BY <2>1
    <2> QED
      BY <2>2
  <1>2. ASSUME NEW n \in T PROVE n + 1 \in T
    <2>1. n \in Nat /\ n + 1 \in Nat
      OBVIOUS
    <2>2. PICK g : Approx(g, n)
      OBVIOUS
    <2> DEFINE h == [s \in Small(n + 1) |->
                       IF s = {} THEN 0 ELSE f[AnyOf(s)] + g[s \ {AnyOf(s)}]]
    <2>3. \A s \in Small(n + 1) : s # {} => s \ {AnyOf(s)} \in Small(n)
      <3> TAKE s \in Small(n + 1)
      <3> HAVE s # {}
      <3>1. s \in SUBSET D /\ Cardinality(s) <= n + 1 /\ IsFiniteSet(s) /\ AnyOf(s) \in s
        BY <1>0, <1>c
      <3>2. Cardinality(s \ {AnyOf(s)}) <= n
        BY <2>1, <3>1, OneFewer
      <3> QED
        BY <3>1, <3>2
    <2>4. \A s \in Small(n) : s \in Small(n + 1)
      BY <1>0, <2>1
    <2> HIDE DEF Small
    <2>5. \A s \in Small(n) : g[s] = h[s]
      <3> TAKE s \in Small(n)
      <3>1. g[s] = IF s = {} THEN 0 ELSE f[AnyOf(s)] + g[s \ {AnyOf(s)}]
        BY <2>2
      <3>2. h[s] = IF s = {} THEN 0 ELSE f[AnyOf(s)] + g[s \ {AnyOf(s)}]
        BY <2>4
      <3> QED
        BY <3>1, <3>2
    <2>6. Approx(h, n + 1)
      BY <2>3, <2>5
    <2> HIDE DEF h
    <2> QED
      BY <2>1, <2>6
  <1>3. T = Nat
    <2> HIDE DEF Approx
    <2>1. T \in SUBSET Nat
      OBVIOUS
    <2> HIDE DEF T
    <2> QED
      BY <1>1, <1>2, <2>1, NatSet
  <1>4. Cardinality(D) \in Nat
    BY <1>0
  <1>5. PICK g : Approx(g, Cardinality(D))
    <2> HIDE DEF Approx
    <2> QED
      BY <1>3, <1>4
  <1>6. Small(Cardinality(D)) = SUBSET D
    <2>1. \A s \in SUBSET D : Cardinality(s) <= Cardinality(D)
      BY FS_Subset
    <2> QED
      BY <2>1
  <1>7. IsSum(g, f)
    <2> HIDE DEF Small
    <2> QED
      BY <1>5, <1>6 DEF IsSum
  <1> QED
    BY <1>7 DEF SumOver

\* What the recursion says.
LEMMA SumStep ==
  ASSUME NEW f, IsFiniteSet(DOMAIN f), NEW s \in SUBSET DOMAIN f
  PROVE  SumOver(f)[s] = IF s = {} THEN 0 ELSE f[AnyOf(s)] + SumOver(f)[s \ {AnyOf(s)}]
  <1> DEFINE g == SumOver(f)
  <1>1. IsSum(g, f)
    BY SumExists
  <1> HIDE DEF g
  <1>2. g[s] = IF s = {} THEN 0 ELSE f[AnyOf(s)] + g[s \ {AnyOf(s)}]
    BY <1>1 DEF IsSum
  <1> QED
    BY <1>2 DEF g

\* A sum of integers is an integer.
LEMMA SumInt ==
  ASSUME NEW D, IsFiniteSet(D), NEW f \in [D -> Int]
  PROVE  \A s \in SUBSET D : SumOver(f)[s] \in Int
  <1> DEFINE T == {n \in Nat : \A s \in SUBSET D : Cardinality(s) <= n => SumOver(f)[s] \in Int}
  <1>0. \A s \in SUBSET D : IsFiniteSet(s) /\ Cardinality(s) \in Nat
    BY FS_Subset, FS_CardinalityType
  <1>s. \A s \in SUBSET D :
          SumOver(f)[s] = IF s = {} THEN 0 ELSE f[AnyOf(s)] + SumOver(f)[s \ {AnyOf(s)}]
    BY SumStep
  <1>c. \A s \in SUBSET D : s # {} => AnyOf(s) \in s
    BY DEF AnyOf
  <1>1. 0 \in T
    <2> SUFFICES ASSUME NEW s \in SUBSET D, Cardinality(s) <= 0 PROVE SumOver(f)[s] \in Int
      OBVIOUS
    <2>1. Cardinality(s) = 0
      BY <1>0
    <2>2. s = {}
      BY <1>0, <2>1, FS_EmptySet
    <2> QED
      BY <1>s, <2>2
  <1>2. ASSUME NEW n \in T PROVE n + 1 \in T
    <2> SUFFICES ASSUME NEW s \in SUBSET D, Cardinality(s) <= n + 1 PROVE SumOver(f)[s] \in Int
      OBVIOUS
    <2>1. CASE s = {}
      <3> HIDE DEF T
      <3>1. SumOver(f)[s] = 0
        BY <1>s, <2>1
      <3> QED
        BY <3>1
    <2>2. CASE s # {}
      <3>1. AnyOf(s) \in s /\ IsFiniteSet(s) /\ n \in Nat
        BY <1>0, <1>c, <2>2
      <3>2. Cardinality(s \ {AnyOf(s)}) <= n
        BY <3>1, OneFewer
      <3>3. SumOver(f)[s \ {AnyOf(s)}] \in Int
        BY <3>2
      <3>4. f[AnyOf(s)] \in Int
        BY <3>1
      <3>5. SumOver(f)[s] = f[AnyOf(s)] + SumOver(f)[s \ {AnyOf(s)}]
        BY <1>s, <2>2
      <3> QED
        BY <3>3, <3>4, <3>5
    <2> QED
      BY <2>1, <2>2
  <1>3. T \in SUBSET Nat
    OBVIOUS
  <1> HIDE DEF T
  <1>4. T = Nat
    BY <1>1, <1>2, <1>3, NatSet
  <1> SUFFICES ASSUME NEW s \in SUBSET D PROVE SumOver(f)[s] \in Int
    OBVIOUS
  <1>5. Cardinality(s) \in Nat /\ Cardinality(s) <= Cardinality(s)
    BY <1>0
  <1> QED
    BY <1>4, <1>5 DEF T

\* The order of the summands does not matter: any one can be taken out.
LEMMA SumTakeOut ==
  ASSUME NEW D, IsFiniteSet(D), NEW f \in [D -> Int]
  PROVE  \A s \in SUBSET D : \A i \in s : SumOver(f)[s] = f[i] + SumOver(f)[s \ {i}]
  <1> DEFINE T == {n \in Nat : \A s \in SUBSET D : Cardinality(s) <= n =>
                     \A i \in s : SumOver(f)[s] = f[i] + SumOver(f)[s \ {i}]}
  <1>0. \A s \in SUBSET D : IsFiniteSet(s) /\ Cardinality(s) \in Nat
    BY FS_Subset, FS_CardinalityType
  <1>s. \A s \in SUBSET D : s # {} =>
          SumOver(f)[s] = f[AnyOf(s)] + SumOver(f)[s \ {AnyOf(s)}]
    BY SumStep
  <1>c. \A s \in SUBSET D : s # {} => AnyOf(s) \in s
    BY DEF AnyOf
  <1>t. \A s \in SUBSET D : SumOver(f)[s] \in Int
    BY SumInt
  <1>1. 0 \in T
    <2> SUFFICES ASSUME NEW s \in SUBSET D, Cardinality(s) <= 0, NEW i \in s PROVE FALSE
      OBVIOUS
    <2>1. Cardinality(s) = 0
      BY <1>0
    <2>2. s = {}
      BY <1>0, <2>1, FS_EmptySet
    <2> QED
      BY <2>2
  <1>2. ASSUME NEW n \in T PROVE n + 1 \in T
    <2> SUFFICES ASSUME NEW s \in SUBSET D, Cardinality(s) <= n + 1, NEW i \in s
                 PROVE  SumOver(f)[s] = f[i] + SumOver(f)[s \ {i}]
      OBVIOUS
    <2> DEFINE p == AnyOf(s)
    <2>1. p \in s /\ IsFiniteSet(s) /\ n \in Nat /\ SumOver(f)[s] = f[p] + SumOver(f)[s \ {p}]
      BY <1>0, <1>c, <1>s
    <2> HIDE DEF p
    <2>2. CASE i = p
      BY <2>1, <2>2
    <2>3. CASE i # p
      <3>1. s \ {p} \in SUBSET D /\ s \ {i} \in SUBSET D /\ i \in s \ {p} /\ p \in s \ {i}
        BY <2>1, <2>3
      <3>2. Cardinality(s \ {p}) <= n /\ Cardinality(s \ {i}) <= n
        BY <2>1, OneFewer
      <3>3. SumOver(f)[s \ {p}] = f[i] + SumOver(f)[(s \ {p}) \ {i}]
        BY <3>1, <3>2
      <3>4. SumOver(f)[s \ {i}] = f[p] + SumOver(f)[(s \ {i}) \ {p}]
        BY <3>1, <3>2
      <3>5. (s \ {p}) \ {i} = (s \ {i}) \ {p} /\ (s \ {p}) \ {i} \in SUBSET D
        OBVIOUS
      <3>6. SumOver(f)[(s \ {p}) \ {i}] \in Int
        BY <1>t, <3>5
      <3>7. f[i] \in Int /\ f[p] \in Int
        BY <2>1
      <3> HIDE DEF T
      <3>8. SumOver(f)[(s \ {i}) \ {p}] = SumOver(f)[(s \ {p}) \ {i}]
        BY <3>5
      <3>9. \A x, y, r \in Int : x + (y + r) = y + (x + r)
        OBVIOUS
      <3> DEFINE r == SumOver(f)[(s \ {p}) \ {i}]
      <3>10. SumOver(f)[s] = f[p] + (f[i] + r)
        BY <2>1, <3>3, Zenon
      <3>11. SumOver(f)[s \ {i}] = f[p] + r
        BY <3>4, <3>8, Zenon
      <3>12. f[p] + (f[i] + r) = f[i] + (f[p] + r)
        BY <3>6, <3>7, <3>9, Zenon
      <3> HIDE DEF r
      <3> QED
        BY <3>10, <3>11, <3>12, Zenon
    <2> QED
      BY <2>2, <2>3
  <1>3. T \in SUBSET Nat
    OBVIOUS
  <1> HIDE DEF T
  <1>4. T = Nat
    BY <1>1, <1>2, <1>3, NatSet
  <1> SUFFICES ASSUME NEW s \in SUBSET D, NEW i \in s
               PROVE  SumOver(f)[s] = f[i] + SumOver(f)[s \ {i}]
    OBVIOUS
  <1>5. Cardinality(s) \in Nat /\ Cardinality(s) <= Cardinality(s)
    BY <1>0
  <1> QED
    BY <1>4, <1>5 DEF T

\* A sum depends on the values of its summands only.
LEMMA SumSame ==
  ASSUME NEW D, IsFiniteSet(D), NEW f \in [D -> Int], NEW h \in [D -> Int]
  PROVE  \A s \in SUBSET D : (\A i \in s : f[i] = h[i]) => SumOver(f)[s] = SumOver(h)[s]
  <1> DEFINE T == {n \in Nat : \A s \in SUBSET D : Cardinality(s) <= n =>
                     ((\A i \in s : f[i] = h[i]) => SumOver(f)[s] = SumOver(h)[s])}
  <1>0. \A s \in SUBSET D : IsFiniteSet(s) /\ Cardinality(s) \in Nat
    BY FS_Subset, FS_CardinalityType
  <1>f. \A s \in SUBSET D :
          SumOver(f)[s] = IF s = {} THEN 0 ELSE f[AnyOf(s)] + SumOver(f)[s \ {AnyOf(s)}]
    BY SumStep
  <1>h. \A s \in SUBSET D :
          SumOver(h)[s] = IF s = {} THEN 0 ELSE h[AnyOf(s)] + SumOver(h)[s \ {AnyOf(s)}]
    BY SumStep
  <1>c. \A s \in SUBSET D : s # {} => AnyOf(s) \in s
    BY DEF AnyOf
  <1>1. 0 \in T
    <2> SUFFICES ASSUME NEW s \in SUBSET D, Cardinality(s) <= 0 PROVE SumOver(f)[s] = SumOver(h)[s]
      OBVIOUS
    <2>1. Cardinality(s) = 0
      BY <1>0
    <2>2. s = {}
      BY <1>0, <2>1, FS_EmptySet
    <2> QED
      BY <1>f, <1>h, <2>2
  <1>2. ASSUME NEW n \in T PROVE n + 1 \in T
    <2> SUFFICES ASSUME NEW s \in SUBSET D, Cardinality(s) <= n + 1, \A i \in s : f[i] = h[i]
                 PROVE  SumOver(f)[s] = SumOver(h)[s]
      OBVIOUS
    <2>1. CASE s = {}
      BY <1>f, <1>h, <2>1
    <2>2. CASE s # {}
      <3>1. AnyOf(s) \in s /\ IsFiniteSet(s) /\ n \in Nat
        BY <1>0, <1>c, <2>2
      <3>2. Cardinality(s \ {AnyOf(s)}) <= n
        BY <3>1, OneFewer
      <3>3. SumOver(f)[s \ {AnyOf(s)}] = SumOver(h)[s \ {AnyOf(s)}]
        BY <3>2
      <3> QED
        BY <1>f, <1>h, <2>2, <3>1, <3>3
    <2> QED
      BY <2>1, <2>2
  <1>3. T \in SUBSET Nat
    OBVIOUS
  <1> HIDE DEF T
  <1>4. T = Nat
    BY <1>1, <1>2, <1>3, NatSet
  <1> SUFFICES ASSUME NEW s \in SUBSET D, \A i \in s : f[i] = h[i]
               PROVE  SumOver(f)[s] = SumOver(h)[s]
    OBVIOUS
  <1>5. Cardinality(s) \in Nat /\ Cardinality(s) <= Cardinality(s)
    BY <1>0
  <1> QED
    BY <1>4, <1>5 DEF T

\* A sum after one summand has changed.
LEMMA SumChange ==
  ASSUME NEW D, IsFiniteSet(D), NEW f \in [D -> Int], NEW h \in [D -> Int], NEW i \in D,
         \A k \in D \ {i} : h[k] = f[k], NEW s \in SUBSET D
  PROVE  SumOver(h)[s] = SumOver(f)[s] + (IF i \in s THEN h[i] - f[i] ELSE 0)
  <1>1. h[i] \in Int /\ f[i] \in Int
    OBVIOUS
  <1>2. SumOver(f)[s] \in Int /\ SumOver(f)[s \ {i}] \in Int /\ f[i] \in Int
    BY SumInt
  <1>3. SumOver(h)[s \ {i}] = SumOver(f)[s \ {i}]
    <2>1. s \ {i} \in SUBSET D /\ \A k \in s \ {i} : h[k] = f[k]
      OBVIOUS
    <2> QED
      BY <2>1, SumSame
  <1>4. CASE i \in s
    <2>1. SumOver(f)[s] = f[i] + SumOver(f)[s \ {i}]
      BY <1>4, SumTakeOut
    <2>2. SumOver(h)[s] = h[i] + SumOver(h)[s \ {i}]
      BY <1>4, SumTakeOut
    <2>3. SumOver(h)[s] = SumOver(f)[s] + (h[i] - f[i])
      BY <1>1, <1>2, <1>3, <2>1, <2>2
    <2> QED
      BY <1>4, <2>3
  <1>5. CASE i \notin s
    <2>1. s \ {i} = s
      BY <1>5
    <2>2. SumOver(h)[s] = SumOver(f)[s]
      BY <1>3, <2>1
    <2>3. SumOver(h)[s] = SumOver(f)[s] + 0
      BY <1>2, <2>2
    <2> QED
      BY <1>5, <2>3
  <1> QED
    BY <1>4, <1>5

\* The sum over nothing.
LEMMA SumNone ==
  ASSUME NEW f, IsFiniteSet(DOMAIN f)
  PROVE  SumOver(f)[{}] = 0
  BY SumStep

\* A sum of natural numbers is one.
LEMMA SumNat ==
  ASSUME NEW D, IsFiniteSet(D), NEW f \in [D -> Nat]
  PROVE  \A s \in SUBSET D : SumOver(f)[s] \in Nat
  <1> DEFINE T == {n \in Nat : \A s \in SUBSET D : Cardinality(s) <= n => SumOver(f)[s] \in Nat}
  <1>0. \A s \in SUBSET D : IsFiniteSet(s) /\ Cardinality(s) \in Nat
    BY FS_Subset, FS_CardinalityType
  <1>s. f \in [D -> Int]
    OBVIOUS
  <1>1. 0 \in T
    <2>1. \A s \in SUBSET D : Cardinality(s) <= 0 => s = {}
      BY <1>0, FS_EmptySet
    <2>2. SumOver(f)[{}] = 0
      BY SumNone
    <2> QED
      BY <2>1, <2>2
  <1>2. ASSUME NEW n \in T PROVE n + 1 \in T
    <2> SUFFICES ASSUME NEW s \in SUBSET D, Cardinality(s) <= n + 1 PROVE SumOver(f)[s] \in Nat
      OBVIOUS
    <2>1. CASE s = {}
      BY <2>1, SumNone
    <2>2. CASE s # {}
      <3>1. PICK i \in s : TRUE
        BY <2>2
      <3>2. s \ {i} \in SUBSET D /\ Cardinality(s \ {i}) <= n
        BY <1>0, OneFewer
      <3>3. SumOver(f)[s \ {i}] \in Nat
        BY <3>2
      <3>4. SumOver(f)[s] = f[i] + SumOver(f)[s \ {i}]
        BY <1>s, SumTakeOut
      <3> QED
        BY <3>3, <3>4
    <2> QED
      BY <2>1, <2>2
  <1> HIDE DEF T
  <1>3. T = Nat
    <2>1. T \in SUBSET Nat
      BY DEF T
    <2> QED
      BY <1>1, <1>2, <2>1, NatSet
  <1> QED
    BY <1>0, <1>3 DEF T

\* A sum of zeros.
LEMMA SumZero ==
  ASSUME NEW D, IsFiniteSet(D), NEW f \in [D -> Int], \A i \in D : f[i] = 0
  PROVE  \A s \in SUBSET D : SumOver(f)[s] = 0
  <1> DEFINE T == {n \in Nat : \A s \in SUBSET D : Cardinality(s) <= n => SumOver(f)[s] = 0}
  <1>0. \A s \in SUBSET D : IsFiniteSet(s) /\ Cardinality(s) \in Nat
    BY FS_Subset, FS_CardinalityType
  <1>s. f \in [D -> Int]
    OBVIOUS
  <1>1. 0 \in T
    <2>1. \A s \in SUBSET D : Cardinality(s) <= 0 => s = {}
      BY <1>0, FS_EmptySet
    <2>2. SumOver(f)[{}] = 0
      BY SumNone
    <2> QED
      BY <2>1, <2>2
  <1>2. ASSUME NEW n \in T PROVE n + 1 \in T
    <2> SUFFICES ASSUME NEW s \in SUBSET D, Cardinality(s) <= n + 1 PROVE SumOver(f)[s] = 0
      OBVIOUS
    <2>1. CASE s = {}
      BY <2>1, SumNone
    <2>2. CASE s # {}
      <3>1. PICK i \in s : TRUE
        BY <2>2
      <3>2. s \ {i} \in SUBSET D /\ Cardinality(s \ {i}) <= n
        BY <1>0, OneFewer
      <3>3. SumOver(f)[s \ {i}] = 0
        BY <3>2
      <3>4. SumOver(f)[s] = f[i] + SumOver(f)[s \ {i}]
        BY <1>s, SumTakeOut
      <3> QED
        BY <3>3, <3>4
    <2> QED
      BY <2>1, <2>2
  <1> HIDE DEF T
  <1>3. T = Nat
    <2>1. T \in SUBSET Nat
      BY DEF T
    <2> QED
      BY <1>1, <1>2, <2>1, NatSet
  <1> QED
    BY <1>0, <1>3 DEF T

-----------------------------------------------------------------------------
\* Quotients.

\* A factor of both sides.
LEMMA FactorLess ==
  ASSUME NEW w \in Nat \ {0}, NEW a \in Nat, NEW b \in Nat, w * a < w * b
  PROVE  a < b
  <1>1. SUFFICES ASSUME b <= a PROVE FALSE
    OBVIOUS
  <1>2. PICK c \in Nat : a = b + c
    <2>1. a - b \in Nat /\ a = b + (a - b)
      BY <1>1
    <2> QED
      BY <2>1
  <1>3. w * a = w * b + w * c
    BY <1>2
  <1>4. w * c \in Nat /\ w * b \in Nat
    OBVIOUS
  <1> QED
    BY <1>3, <1>4

\* What a quotient is.
LEMMA DivIs ==
  ASSUME NEW x \in Nat, NEW w \in Nat \ {0}
  PROVE  x \div w \in Nat /\ w * (x \div w) <= x /\ x < w * (x \div w + 1)
  <1>1. x \div w \in Nat
    OBVIOUS
  <1>2. w * (x \div w) <= x
    OBVIOUS
  <1>3. x < w * (x \div w) + w
    OBVIOUS
  <1>4. w * (x \div w + 1) = w * (x \div w) + w
    BY <1>1
  <1> QED
    BY <1>1, <1>2, <1>3, <1>4

\* A larger number has no smaller quotient.
LEMMA DivGrows ==
  ASSUME NEW x \in Nat, NEW y \in Nat, NEW w \in Nat \ {0}, x <= y
  PROVE  x \div w <= y \div w
  <1>1. x \div w \in Nat /\ w * (x \div w) <= x /\ y \div w \in Nat /\ y < w * (y \div w + 1)
    BY DivIs
  <1>2. w * (x \div w) < w * (y \div w + 1)
    <2>1. w * (x \div w) \in Nat /\ w * (y \div w + 1) \in Nat
      BY <1>1
    <2> QED
      BY <1>1, <2>1
  <1>3. x \div w < y \div w + 1
    <2>1. y \div w + 1 \in Nat
      BY <1>1
    <2> QED
      BY <1>1, <1>2, <2>1, FactorLess
  <1> QED
    BY <1>1, <1>3

\* The quotient of a share of a number.
LEMMA ShareOf ==
  ASSUME NEW m \in Nat, NEW n \in Nat, NEW d \in Nat \ {0}, NEW b \in Nat \ {0}, n <= d
  PROVE  (m * n) \div (d * b) <= m \div b
  <1> DEFINE p == (m * n) \div (d * b)
             q == m \div b
  <1>1. m * n \in Nat /\ d * b \in Nat \ {0}
    OBVIOUS
  <1>2. p \in Nat /\ (d * b) * p <= m * n
    BY <1>1, DivIs
  <1>3. q \in Nat /\ m < b * (q + 1)
    BY DivIs
  <1>4. m * n <= m * d
    OBVIOUS
  <1>5. d * m < d * (b * (q + 1))
    <2>1. b * (q + 1) \in Nat
      BY <1>3
    <2>2. \A u, v \in Nat : u < v => d * u < d * v
      OBVIOUS
    <2> QED
      BY <1>3, <2>1, <2>2
  <1> HIDE DEF p, q
  <1>6. d * (b * (q + 1)) = (d * b) * (q + 1) /\ d * m = m * d
    BY <1>3
  <1>7. (d * b) * p < (d * b) * (q + 1)
    <2>1. (d * b) * p \in Nat /\ (d * b) * (q + 1) \in Nat /\ m * d \in Nat
      BY <1>1, <1>2, <1>3
    <2> QED
      BY <1>1, <1>2, <1>4, <1>5, <1>6, <2>1
  <1>8. p < q + 1
    <2>1. q + 1 \in Nat
      BY <1>3
    <2> QED
      BY <1>1, <1>2, <1>7, <2>1, FactorLess
  <1>9. p <= q
    BY <1>2, <1>3, <1>8
  <1> QED
    BY <1>9 DEF p, q

-----------------------------------------------------------------------------
\* Remainders.

\* What a remainder is.
LEMMA ModIs ==
  ASSUME NEW x \in Nat, NEW b \in Nat \ {0}
  PROVE  x % b \in 0 .. b - 1 /\ x \div b \in Nat /\ x = b * (x \div b) + (x % b)
  OBVIOUS

\* Quotient and remainder are the only ones.
LEMMA ModUnique ==
  ASSUME NEW b \in Nat \ {0}, NEW q \in Nat, NEW r \in 0 .. b - 1
  PROVE  (b * q + r) % b = r
  <1> DEFINE x == b * q + r
             p == x \div b
             s == x % b
  <1>1. x \in Nat /\ b * q \in Nat
    OBVIOUS
  <1>2. s \in 0 .. b - 1 /\ p \in Nat /\ x = b * p + s
    BY <1>1, ModIs
  <1>3. b * q < b * (p + 1)
    <2>1. b * (p + 1) = b * p + b
      BY <1>2
    <2>2. b * p \in Nat
      BY <1>2
    <2> HIDE DEF p, s
    <2> QED
      BY <1>1, <1>2, <2>1, <2>2
  <1>4. b * p < b * (q + 1)
    <2>1. b * (q + 1) = b * q + b
      OBVIOUS
    <2>2. b * p \in Nat
      BY <1>2
    <2> HIDE DEF p, s
    <2> QED
      BY <1>1, <1>2, <2>1, <2>2
  <1>5. q < p + 1 /\ p < q + 1
    <2>1. p + 1 \in Nat /\ q + 1 \in Nat
      BY <1>2
    <2> HIDE DEF p, s
    <2> QED
      BY <1>2, <1>3, <1>4, <2>1, FactorLess
  <1>6. p = q
    BY <1>2, <1>5
  <1> QED
    BY <1>1, <1>2, <1>6

\* A number not before v is some whole rounds and a part of one after it.
LEMMA RoundsAfter ==
  ASSUME NEW b \in Nat \ {0}, NEW v \in Nat, NEW r \in Nat, v <= r
  PROVE  \E q \in Nat, k \in 0 .. b - 1 : r = v + k + b * q /\ (v + k) % b = r % b
  <1> DEFINE k == (r - v) % b
             q == (r - v) \div b
  <1>1. k \in 0 .. b - 1 /\ q \in Nat /\ r - v = b * q + k
    <2>1. r - v \in Nat
      OBVIOUS
    <2> QED
      BY <2>1, ModIs
  <1> HIDE DEF k, q
  <1>2. b * q \in Nat
    BY <1>1
  <1>3. r = v + k + b * q
    BY <1>1, <1>2
  <1>4. (v + k) % b = r % b
    <2> DEFINE y == v + k
               p == y \div b
               s == y % b
    <2>1. y \in Nat
      BY <1>1
    <2>2. s \in 0 .. b - 1 /\ p \in Nat /\ y = b * p + s
      BY <2>1, ModIs
    <2> HIDE DEF y, p, s
    <2>3. r = b * (p + q) + s
      <3>1. b * (p + q) = b * p + b * q
        BY <1>1, <2>2
      <3>2. b * p \in Nat
        BY <2>2
      <3>3. r = y + b * q
        BY <1>3 DEF y
      <3> QED
        BY <1>2, <2>2, <3>1, <3>2, <3>3
    <2>4. p + q \in Nat
      BY <1>1, <2>2
    <2>5. r % b = s
      BY <2>2, <2>3, <2>4, ModUnique
    <2> QED
      BY <2>5 DEF y, s
  <1> QED
    BY <1>1, <1>3, <1>4

\* Two offsets into one round with the same remainder are the same.
LEMMA SameRound ==
  ASSUME NEW b \in Nat \ {0}, NEW v \in Nat, NEW k \in 0 .. b - 1, NEW m \in 0 .. b - 1,
         (v + k) % b = (v + m) % b
  PROVE  k = m
  <1> DEFINE p == (v + k) \div b
             q == (v + m) \div b
             s == (v + k) % b
  <1>1. s \in 0 .. b - 1 /\ p \in Nat /\ q \in Nat /\ v + k = b * p + s /\ v + m = b * q + s
    <2>1. v + k \in Nat /\ v + m \in Nat
      OBVIOUS
    <2> QED
      BY <2>1, ModIs
  <1> HIDE DEF p, q, s
  <1>2. b * p \in Nat /\ b * q \in Nat
    BY <1>1
  <1>3. b * p < b * (q + 1) /\ b * q < b * (p + 1)
    <2>1. b * (p + 1) = b * p + b /\ b * (q + 1) = b * q + b
      BY <1>1
    <2> QED
      BY <1>1, <1>2, <2>1
  <1>4. p < q + 1 /\ q < p + 1
    <2>1. p + 1 \in Nat /\ q + 1 \in Nat
      BY <1>1
    <2> QED
      BY <1>1, <1>3, <2>1, FactorLess
  <1>5. p = q
    BY <1>1, <1>4
  <1> QED
    BY <1>1, <1>2, <1>5

\* A remainder can be taken before an offset is added.
LEMMA ModOffset ==
  ASSUME NEW b \in Nat \ {0}, NEW v \in Nat, NEW k \in Nat
  PROVE  ((v % b) + k) % b = (v + k) % b
  <1> DEFINE q == v \div b
             r == v % b
             p == (r + k) \div b
             s == (r + k) % b
  <1>1. r \in 0 .. b - 1 /\ q \in Nat /\ v = b * q + r
    BY ModIs
  <1>2. s \in 0 .. b - 1 /\ p \in Nat /\ r + k = b * p + s
    <2>1. r + k \in Nat
      BY <1>1
    <2> QED
      BY <2>1, ModIs
  <1> HIDE DEF q, r, p, s
  <1>3. v + k = b * (q + p) + s /\ q + p \in Nat
    <2>1. b * q \in Nat /\ b * p \in Nat /\ b * (q + p) = b * q + b * p
      BY <1>1, <1>2
    <2> QED
      BY <1>1, <1>2, <2>1
  <1>4. (b * (q + p) + s) % b = s
    BY <1>2, <1>3, ModUnique
  <1> QED
    BY <1>3, <1>4 DEF s, r

\* A multiple is not less than the number.
LEMMA MultipleAbove ==
  ASSUME NEW b \in Nat \ {0}, NEW q \in Nat
  PROVE  b * q \in Nat /\ (q = 0 => b * q = 0) /\ (q # 0 => b <= b * q)
  <1>1. CASE q # 0
    <2>1. PICK p \in Nat : q = p + 1
      <3>1. q - 1 \in Nat /\ q = (q - 1) + 1
        BY <1>1
      <3> QED
        BY <3>1
    <2>2. b * (p + 1) = b * p + b /\ b * p \in Nat
      OBVIOUS
    <2> QED
      BY <1>1, <2>1, <2>2
  <1> QED
    BY <1>1

-----------------------------------------------------------------------------
\* Cantor's pairing function: the pairs (a, b) row by row, a row for each sum.
PairRow(w) == (w * (w + 1)) \div 2
PairNumber(a, b) == PairRow(a + b) + b

\* Rows start at naturals, one row apart.
LEMMA PairRowStep ==
  ASSUME NEW w \in Nat
  PROVE  PairRow(w) \in Nat /\ PairRow(w + 1) = PairRow(w) + w + 1
  <1>1. (w + 1) * (w + 2) = w * (w + 1) + 2 * (w + 1)
    OBVIOUS
  <1>2. (w + 1) * ((w + 1) + 1) = (w + 1) * (w + 2)
    OBVIOUS
  <1> QED
    BY <1>1, <1>2 DEF PairRow

\* A row ends before any later row begins.
LEMMA PairRowGap ==
  ASSUME NEW w \in Nat, NEW v \in Nat, w < v
  PROVE  PairRow(w) + w < PairRow(v)
  <1>1. (w + 1) * ((w + 1) + 1) <= v * (v + 1)
    OBVIOUS
  <1>2. PairRow(w + 1) <= PairRow(v)
    BY <1>1 DEF PairRow
  <1>3. PairRow(w) \in Nat /\ PairRow(v) \in Nat
    BY PairRowStep
  <1> QED
    BY <1>2, <1>3, PairRowStep

\* A pair can be read back from its number, a natural.
LEMMA PairsApart ==
  ASSUME NEW a \in Nat, NEW b \in Nat
  PROVE  /\ PairNumber(a, b) \in Nat
         /\ \A c, d \in Nat : PairNumber(a, b) = PairNumber(c, d) => a = c /\ b = d
  <1>1. \A w \in Nat : PairRow(w) \in Nat
    BY PairRowStep
  <1>2. ASSUME NEW c \in Nat, NEW d \in Nat, PairNumber(a, b) = PairNumber(c, d)
        PROVE  a = c /\ b = d
    <2>1. PairRow(a + b) \in Nat /\ PairRow(c + d) \in Nat
      BY <1>1
    <2>2. CASE a + b = c + d
      BY <1>2, <2>1, <2>2 DEF PairNumber
    <2>3. CASE a + b < c + d
      BY <1>2, <2>1, <2>3, PairRowGap DEF PairNumber
    <2>4. CASE c + d < a + b
      BY <1>2, <2>1, <2>4, PairRowGap DEF PairNumber
    <2> QED
      BY <2>2, <2>3, <2>4
  <1> QED
    BY <1>1, <1>2 DEF PairNumber
=============================================================================
