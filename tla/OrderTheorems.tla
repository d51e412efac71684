---------------------------- MODULE OrderTheorems ----------------------------
(***************************************************************************)
(* What the proofs of several modules need of numbers, walks and orders.   *)
(* The induction theorems of the library take an operator; these take a    *)
(* set or a function in its place.                                         *)
(***************************************************************************)
EXTENDS Integers, FiniteSets, FiniteSetTheorems, FunctionTheorems, SequenceTheorems, WellFoundedInduction, TLAPS

----------------------------------------------------------------------------
(* Numbers and walks                                                       *)

\* Any numbers have a least one: what is false of some number is false of a least one,
\* and that is how the steps below argue by induction.
LEMMA LeastNumber ==
    ASSUME NEW T, T \subseteq Nat, T # {}
    PROVE  \E x \in T : \A y \in T : x <= y
<1> PICK top \in T : TRUE
  OBVIOUS
<1> DEFINE S        == T \cap (0..top)
           below(x) == {y \in S : y < x}
           family   == {below(x) : x \in S}
           R        == StrictSubsetOrdering(S)
<1>1. top \in Nat /\ top \in S /\ \A y \in S : y \in Nat
  OBVIOUS
<1>2. family \subseteq FiniteSubsetsOf(S) /\ family # {}
  <2>1. \A x \in S : below(x) \in SUBSET S
    OBVIOUS
  <2>2. IsFiniteSet(0..top)
    BY <1>1, FS_Interval
  <2>3. \A x \in S : IsFiniteSet(below(x))
    BY <2>1, <2>2, FS_Subset
  <2> QED
    BY <2>1, <2>3, <1>1 DEF FiniteSubsetsOf
<1>3. PICK F \in family : \A G \in family : <<G, F>> \notin R
  <2>1. IsWellFoundedOn(R, FiniteSubsetsOf(S))
    BY FS_StrictSubsetOrderingWellFounded
  <2> HIDE DEF R, family
  <2> QED
    BY <1>2, <2>1, WFMin
<1>4. PICK x \in S : F = below(x)
  OBVIOUS
<1>5. ASSUME NEW y \in S, y < x
      PROVE  FALSE
  <2>1. y \in Nat /\ x \in Nat /\ ~(y < y) /\ \A z \in S : z < y => z < x
    BY <1>1, <1>5
  <2>2. below(y) \subseteq below(x) /\ y \in below(x) /\ y \notin below(y)
    BY <2>1, <1>5, Zenon
  <2>3. <<below(y), below(x)>> \in R
    BY <2>2 DEF StrictSubsetOrdering
  <2> QED
    BY <1>3, <1>4, <2>3
<1>6. \A y \in S : x <= y
  BY <1>1, <1>5, SMT
<1>7. \A y \in T : x <= y
  <2> TAKE y \in T
  <2>1. y \in Nat /\ x \in Nat /\ x <= top
    BY <1>1
  <2>2. CASE y <= top
    BY <2>1, <2>2, <1>6
  <2>3. CASE ~(y <= top)
    BY <2>1, <2>3, <1>1
  <2> QED
    BY <2>2, <2>3
<1> QED
  BY <1>7

\* Numbers that stay under one of them have a greatest.
LEMMA GreatestNumber ==
    ASSUME NEW n \in Nat, NEW S, S \subseteq 0..n, S # {}
    PROVE  \E x \in S : \A y \in S : x >= y
<1> DEFINE T == {n - y : y \in S}
<1>1. \A y \in S : y \in Nat /\ y <= n /\ n - y \in Nat
  OBVIOUS
<1>2. T \subseteq Nat /\ T # {}
  BY <1>1
<1>3. PICK t \in T : \A u \in T : t <= u
  <2> HIDE DEF T
  <2> QED
    BY <1>2, LeastNumber
<1>4. PICK x \in S : t = n - x
  OBVIOUS
<1>5. \A y \in S : n - x <= n - y
  BY <1>3, <1>4
<1> QED
  BY <1>1, <1>5

\* Induction over 0..N, with the set of the numbers a claim holds for.
LEMMA StepByStep ==
    ASSUME NEW N \in Nat, NEW T, 0 \in T, \A n \in 1..N : n - 1 \in T => n \in T
    PROVE  \A n \in 0..N : n \in T
<1> DEFINE missed == {n \in 0..N : n \notin T}
<1>1. SUFFICES ASSUME missed # {}  PROVE FALSE
  OBVIOUS
<1>2. PICK m \in missed : \A k \in missed : m <= k
  <2>1. missed \subseteq Nat
    OBVIOUS
  <2> HIDE DEF missed
  <2> QED
    BY <1>1, <2>1, LeastNumber
<1>3. m \in 0..N /\ m \notin T
  OBVIOUS
<1>4. m \in 1..N /\ m - 1 \in 0..N /\ ~(m <= m - 1)
  BY <1>3
<1>5. m - 1 \notin missed
  <2> HIDE DEF missed
  <2> QED
    BY <1>2, <1>4
<1> QED
  BY <1>3, <1>4, <1>5

\* A walk of N steps from a exists, whatever each step does.
LEMMA WalkExists ==
    ASSUME NEW D, NEW a \in D, NEW N \in Nat, NEW step \in [1..N -> [D -> D]]
    PROVE  \E w \in [0..N -> D] : w[0] = a /\ \A n \in 1..N : w[n] = step[n][w[n - 1]]
<1> DEFINE Walks(m) == {w \in [0..m -> D] : w[0] = a /\ \A n \in 1..m : w[n] = step[n][w[n - 1]]}
           walked   == {m \in 0..N : Walks(m) # {}}
<1>1. 0 \in walked
  <2>1. [n \in 0..0 |-> a] \in Walks(0)
    OBVIOUS
  <2> QED
    BY <2>1
<1>2. ASSUME NEW m \in 1..N, m - 1 \in walked  PROVE m \in walked
  <2>1. PICK w \in Walks(m - 1) : TRUE
    BY <1>2
  <2> DEFINE v == [n \in 0..m |-> IF n = m THEN step[m][w[m - 1]] ELSE w[n]]
  <2>2. w \in [0..(m - 1) -> D] /\ w[0] = a /\ \A n \in 1..(m - 1) : w[n] = step[n][w[n - 1]]
    BY <2>1
  <2>3. v \in [0..m -> D]
    <3>1. w[m - 1] \in D /\ step[m] \in [D -> D]
      BY <2>2
    <3>2. step[m][w[m - 1]] \in D
      BY <3>1
    <3>3. \A n \in 0..m : n # m => n \in 0..(m - 1)
      OBVIOUS
    <3> QED
      BY <3>2, <3>3, <2>2
  <2>4. v[0] = a
    BY <2>2
  <2>5. ASSUME NEW n \in 1..m  PROVE v[n] = step[n][v[n - 1]]
    <3>1. n \in 0..m /\ n - 1 \in 0..m /\ n - 1 # m /\ (n # m => n \in 1..(m - 1))
      OBVIOUS
    <3> QED
      BY <3>1, <2>2
  <2>6. v \in Walks(m)
    <3> HIDE DEF v
    <3> QED
      BY <2>3, <2>4, <2>5
  <2> QED
    BY <2>6
<1>3. \A m \in 0..N : m \in walked
  <2> HIDE DEF walked
  <2> QED
    BY <1>1, <1>2, StepByStep
<1>4. Walks(N) # {}
  BY <1>3
<1> QED
  BY <1>4

\* A function on the first n numbers is a list.
LEMMA AsList ==
    ASSUME NEW S, NEW n \in Nat, NEW f \in [1..n -> S]
    PROVE  f \in Seq(S) /\ Len(f) = n /\ DOMAIN f = 1..n
<1>1. f \in Seq(S)
  BY SeqDef
<1>2. Len(f) \in Nat /\ DOMAIN f = 1..Len(f)
  BY <1>1, LenProperties
<1>3. DOMAIN f = 1..n
  OBVIOUS
<1>4. Len(f) = n
  <2>1. 1..n = 1..Len(f)
    BY <1>2, <1>3
  <2>2. n \in 1..n \/ n = 0
    OBVIOUS
  <2>3. Len(f) \in 1..Len(f) \/ Len(f) = 0
    BY <1>2
  <2> HIDE <1>3
  <2> QED
    BY <1>2, <2>1, <2>2, <2>3
<1> QED
  BY <1>1, <1>3, <1>4

----------------------------------------------------------------------------
(* Finite sets in an order                                                 *)

\* R orders the elements of S strictly, one after the other.
IsStrictOrder(S, R) ==
    /\ \A x \in S : <<x, x>> \notin R
    /\ \A x, y, z \in S : <<x, y>> \in R /\ <<y, z>> \in R => <<x, z>> \in R
    /\ \A x, y \in S : x = y \/ <<x, y>> \in R \/ <<y, x>> \in R

\* What comes before x in S, how much that is, and S as a sequence.
Ahead(S, R, x) == {y \in S : <<y, x>> \in R}
PlaceOf(S, R, x) == Cardinality(Ahead(S, R, x))
InOrder(S, R) == [k \in 1..Cardinality(S) |-> CHOOSE x \in S : PlaceOf(S, R, x) = k - 1]

\* Places count up along the order.
LEMMA PlacesCountUp ==
    ASSUME NEW S, IsFiniteSet(S), NEW R, IsStrictOrder(S, R)
    PROVE  /\ Cardinality(S) \in Nat
           /\ \A x \in S : PlaceOf(S, R, x) \in 0..(Cardinality(S) - 1) /\ PlaceOf(S, R, x) \in Nat
           /\ \A x, y \in S : <<x, y>> \in R <=> PlaceOf(S, R, x) < PlaceOf(S, R, y)
<1> DEFINE n == Cardinality(S)
           p(x) == PlaceOf(S, R, x)
<1>1. n \in Nat
  BY FS_CardinalityType
<1>2. ASSUME NEW x \in S
      PROVE  /\ IsFiniteSet(Ahead(S, R, x)) /\ p(x) \in Nat
             /\ IsFiniteSet(Ahead(S, R, x) \cup {x}) /\ Cardinality(Ahead(S, R, x) \cup {x}) = p(x) + 1
  <2>1. Ahead(S, R, x) \in SUBSET S /\ x \notin Ahead(S, R, x)
    BY DEF Ahead, IsStrictOrder
  <2>2. IsFiniteSet(Ahead(S, R, x))
    BY <2>1, FS_Subset
  <2> QED
    BY <2>1, <2>2, FS_CardinalityType, FS_AddElement DEF PlaceOf
<1>3. ASSUME NEW x \in S  PROVE p(x) \in 0..(n - 1)
  <2>1. Ahead(S, R, x) \cup {x} \in SUBSET S
    BY DEF Ahead
  <2>2. p(x) + 1 <= n
    BY <1>2, <2>1, FS_Subset
  <2> HIDE DEF p, n
  <2>3. p(x) \in Nat
    BY <1>2 DEF p
  <2> QED
    BY <1>1, <2>2, <2>3
<1>4. ASSUME NEW x \in S, NEW y \in S, <<x, y>> \in R  PROVE p(x) < p(y)
  <2>1. Ahead(S, R, x) \cup {x} \in SUBSET Ahead(S, R, y)
    BY <1>4 DEF Ahead, IsStrictOrder
  <2>2. p(x) + 1 <= p(y)
    <3>1. IsFiniteSet(Ahead(S, R, y))
      BY <1>2
    <3>2. Cardinality(Ahead(S, R, x) \cup {x}) <= Cardinality(Ahead(S, R, y))
      BY <2>1, <3>1, FS_Subset
    <3>3. Cardinality(Ahead(S, R, x) \cup {x}) = p(x) + 1
      BY <1>2
    <3>4. p(y) = Cardinality(Ahead(S, R, y))
      BY DEF PlaceOf
    <3> HIDE DEF p
    <3> QED
      BY <3>2, <3>3, <3>4
  <2> HIDE DEF p
  <2>3. p(x) \in Nat /\ p(y) \in Nat
    BY <1>2 DEF p
  <2> QED
    BY <2>2, <2>3
<1>5. ASSUME NEW x \in S, NEW y \in S, p(x) < p(y)  PROVE <<x, y>> \in R
  <2> HIDE DEF p
  <2>1. p(x) \in Nat /\ p(y) \in Nat
    BY <1>2 DEF p
  <2>2. ~(x = y) /\ ~(<<y, x>> \in R)
    BY <1>4, <1>5, <2>1
  <2> QED
    BY <2>2 DEF IsStrictOrder
<1> QED
  BY <1>1, <1>2, <1>3, <1>4, <1>5

\* The sequence has every element once, in order: its k-th has k - 1 before it.
LEMMA InOrderFacts ==
    ASSUME NEW S, IsFiniteSet(S), NEW R, IsStrictOrder(S, R)
    PROVE  /\ Cardinality(S) \in Nat
           /\ InOrder(S, R) \in [1..Cardinality(S) -> S]
           /\ \A k \in 1..Cardinality(S) : PlaceOf(S, R, InOrder(S, R)[k]) = k - 1
           /\ \A x \in S : /\ PlaceOf(S, R, x) \in Nat /\ PlaceOf(S, R, x) + 1 \in 1..Cardinality(S)
                           /\ InOrder(S, R)[PlaceOf(S, R, x) + 1] = x
<1> DEFINE n == Cardinality(S)
           p == [x \in S |-> PlaceOf(S, R, x)]
           T == 0..(n - 1)
           seq == InOrder(S, R)
<1>1. /\ n \in Nat /\ \A x \in S : p[x] \in T /\ p[x] \in Nat
      /\ \A x, y \in S : <<x, y>> \in R <=> p[x] < p[y]
  BY PlacesCountUp
<1>2. IsFiniteSet(T) /\ Cardinality(T) = n
  <2>1. 0 \in Int /\ n - 1 \in Int
    BY <1>1
  <2>2. Cardinality(T) = IF 0 > n - 1 THEN 0 ELSE n - 1 - 0 + 1
    BY <2>1, FS_Interval
  <2> QED
    BY <1>1, <2>1, <2>2, FS_Interval
<1>3. p \in Injection(S, T)
  <2>1. p \in [S -> T]
    BY <1>1
  <2>2. \A x, y \in S : p[x] = p[y] => x = y
    <3> HIDE DEF p
    <3> TAKE x \in S, y \in S
    <3>1. p[x] = p[y] => ~(p[x] < p[y]) /\ ~(p[y] < p[x])
      BY <1>1
    <3> QED
      BY <1>1, <3>1 DEF IsStrictOrder
  <2> HIDE DEF p, T
  <2> QED
    BY <2>1, <2>2, Fun_IsInj
<1>4. p \in Surjection(S, T)
  <2> HIDE DEF p, T
  <2> QED
    BY <1>2, <1>3, FS_Injection
<1>5. \A t \in T : \E x \in S : p[x] = t
  <2> HIDE DEF p, T
  <2> QED
    BY <1>4, Fun_SurjectionProperties
<1>6. ASSUME NEW k \in 1..n  PROVE seq[k] \in S /\ p[seq[k]] = k - 1
  <2>1. k - 1 \in T
    BY <1>1
  <2>2. \E x \in S : PlaceOf(S, R, x) = k - 1
    BY <1>5, <2>1
  <2>3. seq[k] = CHOOSE x \in S : PlaceOf(S, R, x) = k - 1
    BY DEF InOrder
  <2> QED
    BY <2>2, <2>3
<1>7. seq \in [1..n -> S]
  <2>1. seq = [k \in 1..n |-> seq[k]]
    BY DEF InOrder
  <2> HIDE DEF seq, n
  <2> QED
    BY <1>6, <2>1
<1>8. ASSUME NEW x \in S  PROVE p[x] + 1 \in 1..n /\ seq[p[x] + 1] = x
  <2> HIDE DEF seq, n, p, T
  <2>1. p[x] \in 0..(n - 1) /\ p[x] \in Nat
    BY <1>1 DEF T
  <2>2. p[x] + 1 \in 1..n /\ p[x] + 1 - 1 = p[x]
    BY <1>1, <2>1
  <2>3. PICK k \in 1..n : k = p[x] + 1
    BY <2>2
  <2>4. seq[k] \in S /\ p[seq[k]] = p[x]
    <3>1. k - 1 = p[x]
      BY <2>1, <2>3
    <3> QED
      BY <1>6, <3>1
  <2>5. \A a, b \in S : p[a] = p[b] => a = b
    BY <1>3, Fun_InjectionProperties
  <2>6. seq[k] = x
    BY <2>4, <2>5
  <2> QED
    BY <2>2, <2>3, <2>6
<1> QED
  BY <1>1, <1>6, <1>7, <1>8

\* As many positions of the sequence as there are elements hold them.
LEMMA CountInOrder ==
    ASSUME NEW S, IsFiniteSet(S), NEW R, IsStrictOrder(S, R), NEW A, A \subseteq S
    PROVE  Cardinality({n \in 1..Cardinality(S) : InOrder(S, R)[n] \in A}) = Cardinality(A)
<1> DEFINE N == Cardinality(S)
           seq == InOrder(S, R)
           K == {n \in 1..N : seq[n] \in A}
           f == [n \in K |-> seq[n]]
<1>1. /\ N \in Nat /\ seq \in [1..N -> S]
      /\ \A k \in 1..N : PlaceOf(S, R, seq[k]) = k - 1
      /\ \A x \in S : PlaceOf(S, R, x) + 1 \in 1..N /\ seq[PlaceOf(S, R, x) + 1] = x
  BY InOrderFacts
<1> HIDE DEF N, seq
<1>2. IsFiniteSet(K)
  <2>1. IsFiniteSet(1..N)
    BY <1>1, FS_Interval
  <2>2. K \in SUBSET (1..N)
    OBVIOUS
  <2> HIDE DEF K
  <2> QED
    BY <2>1, <2>2, FS_Subset
<1>3. f \in Bijection(K, A)
  <2>1. f \in [K -> A]
    OBVIOUS
  <2>2. \A a, b \in K : f[a] = f[b] => a = b
    <3> TAKE a \in K, b \in K
    <3>1. f[a] = seq[a] /\ f[b] = seq[b] /\ a \in Int /\ b \in Int
      BY <1>1
    <3>2. PlaceOf(S, R, seq[a]) = a - 1 /\ PlaceOf(S, R, seq[b]) = b - 1
      BY <1>1
    <3>3. seq[a] = seq[b] => a - 1 = b - 1
      BY <3>2
    <3>4. a - 1 = b - 1 => a = b
      BY <3>1
    <3> QED
      BY <3>1, <3>3, <3>4
  <2>3. \A x \in A : \E k \in K : f[k] = x
    BY <1>1
  <2> HIDE DEF f, K
  <2> QED
    BY <2>1, <2>2, <2>3, Fun_IsBij
<1>4. Cardinality(A) = Cardinality(K)
  <2> HIDE DEF f, K
  <2>1. ExistsBijection(K, A)
    BY <1>3 DEF ExistsBijection
  <2> QED
    BY <1>2, <2>1, FS_Bijection
<1> QED
  BY <1>4 DEF N, seq

\* A part of an ordered set is ordered.
LEMMA OrderOfPart ==
    ASSUME NEW S, NEW R, IsStrictOrder(S, R), NEW A, A \subseteq S
    PROVE  IsStrictOrder(A, R)
<1>1. \A x \in A : x \in S
  OBVIOUS
<1> QED
  BY <1>1 DEF IsStrictOrder

\* A place in the whole is the sum of the places in two parts of it.
LEMMA PlaceInParts ==
    ASSUME NEW S, IsFiniteSet(S), NEW T, IsFiniteSet(T), S \cap T = {}, NEW R, NEW x
    PROVE  /\ PlaceOf(S, R, x) \in Nat /\ PlaceOf(T, R, x) \in Nat
           /\ PlaceOf(S \cup T, R, x) = PlaceOf(S, R, x) + PlaceOf(T, R, x)
<1>1. /\ Ahead(S, R, x) \in SUBSET S /\ Ahead(T, R, x) \in SUBSET T
      /\ Ahead(S \cup T, R, x) = Ahead(S, R, x) \cup Ahead(T, R, x)
      /\ Ahead(S, R, x) \cap Ahead(T, R, x) = {}
  BY DEF Ahead
<1>2. IsFiniteSet(Ahead(S, R, x)) /\ IsFiniteSet(Ahead(T, R, x))
  BY <1>1, FS_Subset
<1>3. PlaceOf(S, R, x) \in Nat /\ PlaceOf(T, R, x) \in Nat
  BY <1>2, FS_CardinalityType DEF PlaceOf
<1>4. Cardinality(Ahead(S, R, x) \cap Ahead(T, R, x)) = 0
  BY <1>1, FS_EmptySet
<1>5. Cardinality(Ahead(S, R, x) \cup Ahead(T, R, x))
        = Cardinality(Ahead(S, R, x)) + Cardinality(Ahead(T, R, x)) - Cardinality(Ahead(S, R, x) \cap Ahead(T, R, x))
  BY <1>2, FS_Union
<1>6. PlaceOf(S \cup T, R, x) = Cardinality(Ahead(S, R, x) \cup Ahead(T, R, x))
  BY <1>1 DEF PlaceOf
<1>7. PlaceOf(S \cup T, R, x) = PlaceOf(S, R, x) + PlaceOf(T, R, x) - 0
  BY <1>4, <1>5, <1>6 DEF PlaceOf
<1> QED
  BY <1>3, <1>7

\* How many elements of S come before the t-th of T.
Inserted(S, T, R, t) == Cardinality({n \in 1..Cardinality(S) : <<InOrder(S, R)[n], InOrder(T, R)[t]>> \in R})

\* The places of the elements of T when two ordered sets are merged: the elements of S
\* that come before one, and its own predecessors, are in front of it.
MergedRest(S, T, R) ==
    \A t \in 1..Cardinality(T) : PlaceOf(S \cup T, R, InOrder(T, R)[t]) = Inserted(S, T, R, t) + t - 1

\* The places of the elements of S: those of T that are not inserted later are in front.
MergedOrder(S, T, R) ==
    \A n \in 1..Cardinality(S) :
        PlaceOf(S \cup T, R, InOrder(S, R)[n])
          = n - 1 + Cardinality({t \in 1..Cardinality(T) : Inserted(S, T, R, t) <= n - 1})

LEMMA MergedPlaces ==
    ASSUME NEW S, IsFiniteSet(S), NEW T, IsFiniteSet(T), S \cap T = {}, NEW R, IsStrictOrder(S \cup T, R)
    PROVE  MergedRest(S, T, R) /\ MergedOrder(S, T, R)
<1> DEFINE order == InOrder(S, R)
           rest == InOrder(T, R)
           inserted(t) == Inserted(S, T, R, t)
           M == Cardinality(S)
           N == Cardinality(T)
<1>1. IsStrictOrder(S, R) /\ IsStrictOrder(T, R)
  BY OrderOfPart
<1>2. /\ M \in Nat /\ order \in [1..M -> S] /\ \A n \in 1..M : PlaceOf(S, R, order[n]) = n - 1
      /\ N \in Nat /\ rest \in [1..N -> T] /\ \A t \in 1..N : PlaceOf(T, R, rest[t]) = t - 1
  BY <1>1, InOrderFacts
<1>3. ASSUME NEW x, NEW n \in 1..M, x = order[n]  PROVE x \in S
  BY <1>2, <1>3
<1>4. ASSUME NEW t \in 1..N  PROVE inserted(t) = PlaceOf(S, R, rest[t])
  <2> DEFINE A == Ahead(S, R, rest[t])
  <2>1. A \subseteq S
    BY DEF Ahead
  <2>2. \A n \in 1..M : order[n] \in A <=> <<order[n], rest[t]>> \in R
    BY <1>2 DEF Ahead
  <2>3. {n \in 1..M : order[n] \in A} = {n \in 1..M : <<order[n], rest[t]>> \in R}
    BY <2>2
  <2>4. Cardinality({n \in 1..M : order[n] \in A}) = Cardinality(A)
    <3> HIDE DEF A
    <3> QED
      BY <1>1, <2>1, CountInOrder
  <2> QED
    BY <2>3, <2>4 DEF PlaceOf, Inserted
<1>5. ASSUME NEW t \in 1..N  PROVE inserted(t) + t - 1 = PlaceOf(S \cup T, R, rest[t])
  <2> HIDE DEF order, rest, M, N, inserted
  <2>1. \A x : /\ PlaceOf(S, R, x) \in Nat
               /\ PlaceOf(S \cup T, R, x) = PlaceOf(S, R, x) + PlaceOf(T, R, x)
    BY PlaceInParts
  <2>2. PlaceOf(T, R, rest[t]) = t - 1 /\ t \in Int
    BY <1>2
  <2> QED
    BY <1>4, <2>1, <2>2
<1>6. ASSUME NEW n \in 1..M, NEW t \in 1..N
      PROVE  inserted(t) <= n - 1 <=> <<rest[t], order[n]>> \in R
  <2> HIDE DEF order, rest, M, N, inserted
  <2>1. order[n] \in S /\ rest[t] \in T /\ order[n] # rest[t]
    BY <1>2
  <2>2. IsFiniteSet(S \cup {rest[t]}) /\ S \cup {rest[t]} \subseteq S \cup T
    BY <2>1, FS_AddElement
  <2>3. IsStrictOrder(S \cup {rest[t]}, R)
    BY <2>2, OrderOfPart
  <2> DEFINE a == Ahead(S, R, order[n])
             b == Ahead(S, R, rest[t])
  <2>4. /\ IsFiniteSet(a) /\ IsFiniteSet(b) /\ IsFiniteSet(a \cup {order[n]}) /\ order[n] \notin a
        /\ Cardinality(a) = n - 1 /\ Cardinality(a \cup {order[n]}) = n
        /\ Cardinality(b) = inserted(t) /\ inserted(t) \in Nat
    <3>1. a \in SUBSET S /\ b \in SUBSET S /\ order[n] \notin a
      BY <1>1, <2>1 DEF Ahead, IsStrictOrder
    <3>2. IsFiniteSet(a) /\ IsFiniteSet(b)
      BY <3>1, FS_Subset
    <3>3. Cardinality(a) = n - 1
      BY <1>2 DEF PlaceOf
    <3>4. Cardinality(b) = inserted(t)
      BY <1>4 DEF PlaceOf
    <3> HIDE DEF a, b
    <3>5. IsFiniteSet(a \cup {order[n]}) /\ Cardinality(a \cup {order[n]}) = Cardinality(a) + 1
      BY <3>1, <3>2, FS_AddElement
    <3>6. inserted(t) \in Nat
      BY <3>2, <3>4, FS_CardinalityType
    <3>7. n - 1 + 1 = n
      BY <1>2
    <3> QED
      BY <3>1, <3>2, <3>3, <3>4, <3>5, <3>6, <3>7
  <2>5. CASE <<rest[t], order[n]>> \in R
    <3>1. b \in SUBSET a
      BY <2>1, <2>5 DEF Ahead, IsStrictOrder
    <3> HIDE DEF a, b
    <3>2. Cardinality(b) <= Cardinality(a)
      BY <2>4, <3>1, FS_Subset
    <3> QED
      BY <2>4, <2>5, <3>2
  <2>6. CASE <<rest[t], order[n]>> \notin R
    <3>1. <<order[n], rest[t]>> \in R
      BY <2>1, <2>6 DEF IsStrictOrder
    <3>2. a \cup {order[n]} \in SUBSET b
      BY <2>1, <3>1 DEF Ahead, IsStrictOrder
    <3> HIDE DEF a, b
    <3>3. n <= inserted(t)
      BY <2>4, <3>2, FS_Subset
    <3>4. ~(inserted(t) <= n - 1)
      BY <1>2, <2>4, <3>3
    <3> QED
      BY <2>6, <3>4
  <2> QED
    BY <2>5, <2>6
<1>7. ASSUME NEW n \in 1..M
      PROVE  n - 1 + Cardinality({t \in 1..N : inserted(t) <= n - 1}) = PlaceOf(S \cup T, R, order[n])
  <2> HIDE DEF order, M, N, inserted
  <2> DEFINE A == Ahead(T, R, order[n])
  <2>1. A \subseteq T
    BY DEF Ahead
  <2>2. \A t \in 1..N : rest[t] \in A <=> <<rest[t], order[n]>> \in R
    BY <1>2 DEF Ahead
  <2>3. {t \in 1..N : rest[t] \in A} = {t \in 1..N : inserted(t) <= n - 1}
    <3> HIDE DEF A, rest
    <3> QED
      BY <1>6, <2>2
  <2>4. Cardinality({t \in 1..N : rest[t] \in A}) = Cardinality(A)
    <3> HIDE DEF A
    <3> QED
      BY <1>1, <2>1, CountInOrder DEF N
  <2>5. Cardinality({t \in 1..N : inserted(t) <= n - 1}) = PlaceOf(T, R, order[n])
    BY <2>3, <2>4 DEF PlaceOf
  <2>6. /\ PlaceOf(S, R, order[n]) \in Nat /\ PlaceOf(T, R, order[n]) \in Nat
        /\ PlaceOf(S \cup T, R, order[n]) = PlaceOf(S, R, order[n]) + PlaceOf(T, R, order[n])
    BY PlaceInParts
  <2>7. PlaceOf(S, R, order[n]) = n - 1
    BY <1>2
  <2> QED
    BY <2>5, <2>6, <2>7
<1> QED
  BY <1>5, <1>7 DEF MergedRest, MergedOrder
=============================================================================
