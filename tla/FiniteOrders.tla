---------------------------- MODULE FiniteOrders ----------------------------
(***************************************************************************)
(* Facts about finite sets under a strict order, given as a set of pairs:  *)
(* the number of elements below one of them is its place, so the sequences *)
(* that list the set upwards, or the first of it, are the only ones.  Used *)
(* wherever the code sorts and cuts.                                       *)
(***************************************************************************)
EXTENDS Integers, Sequences, FiniteSets, FiniteSetTheorems, FunctionTheorems, SequenceTheorems, TLAPS

\* R orders the elements of S strictly, any two of them.
Orders(R, S) ==
  /\ \A a \in S : <<a, a>> \notin R
  /\ \A a, b, c \in S : <<a, b>> \in R /\ <<b, c>> \in R => <<a, c>> \in R
  /\ \A a, b \in S : a = b \/ <<a, b>> \in R \/ <<b, a>> \in R

Below(a, R, S) == {b \in S : <<b, a>> \in R}

\* The sequence s goes upwards, and leaves out nothing that is below what it has.
Lists(s, R, S) ==
  /\ \A j, k \in DOMAIN s : j < k => <<s[j], s[k]>> \in R
  /\ \A k \in DOMAIN s : \A b \in Below(s[k], R, S) : \E j \in DOMAIN s : s[j] = b
-----------------------------------------------------------------------------
\* Induction over the natural numbers, for a set of them.
LEMMA NatInduction0 ==
  ASSUME NEW G, 0 \in G, \A n \in Nat : n \in G => n + 1 \in G
  PROVE  \A n \in Nat : n \in G
<1> DEFINE T == {n \in Nat : n \notin G}
<1>1. SUFFICES ASSUME T # {} PROVE FALSE
  OBVIOUS
<1>2. PICK x \in T : \A y \in T : ~(<<y, x>> \in OpToRel(<, Nat))
  <2>1. T \subseteq Nat
    OBVIOUS
  <2> HIDE DEF T
  <2> QED BY <1>1, <2>1, NatLessThanWellFounded, WFMin
<1>3. x # 0 /\ x - 1 \in Nat /\ x - 1 < x
  OBVIOUS
<1>4. x - 1 \notin T
  BY <1>2, <1>3 DEF OpToRel
<1>5. x - 1 \in G /\ (x - 1) + 1 = x
  BY <1>3, <1>4
<1> QED BY <1>3, <1>5

\* A set of natural numbers has a least one.
LEMMA LeastOne ==
  ASSUME NEW T, T \subseteq Nat, T # {}
  PROVE  \E n \in T : \A m \in T : n <= m
<1>1. PICK x \in T : \A y \in T : ~(<<y, x>> \in OpToRel(<, Nat))
  BY NatLessThanWellFounded, WFMin
<1>2. ASSUME NEW m \in T PROVE x <= m
  <2>1. ~(m < x)
    BY <1>1 DEF OpToRel
  <2> QED BY <2>1
<1> QED BY <1>2

\* A bounded set of natural numbers has a greatest one.
LEMMA GreatestOne ==
  ASSUME NEW T, T \subseteq Nat, T # {}, NEW top \in Nat, \A n \in T : n <= top
  PROVE  \E n \in T : \A m \in T : m <= n
<1> DEFINE Q == {k \in Nat : \A m \in T : m <= k}
<1>1. PICK n \in Q : \A m \in Q : n <= m
  <2>1. Q \subseteq Nat /\ Q # {}
    OBVIOUS
  <2> HIDE DEF Q
  <2> QED BY <2>1, LeastOne
<1>2. ASSUME n \notin T PROVE FALSE
  <2>1. PICK t \in T : TRUE
    OBVIOUS
  <2>2. n # 0
    BY <2>1, <1>2
  <2>3. n - 1 \in Q
    BY <1>2, <2>2
  <2> QED BY <1>1, <2>3
<1> QED BY <1>1, <1>2
-----------------------------------------------------------------------------
\* The numbers up to n are n.
LEMMA CountUpTo ==
  ASSUME NEW n \in Nat
  PROVE  IsFiniteSet(1..n) /\ Cardinality(1..n) = n
<1>1. IsFiniteSet(1..n) /\ Cardinality(1..n) = IF 1 > n THEN 0 ELSE n - 1 + 1
  BY FS_Interval
<1> QED BY <1>1

\* What is below the lower of two elements is below the other, and fewer.
LEMMA PlacesAreOrdered ==
  ASSUME NEW S, IsFiniteSet(S), NEW R, Orders(R, S)
  PROVE  /\ \A a \in S : Cardinality(Below(a, R, S)) \in 0..(Cardinality(S) - 1)
         /\ \A a, b \in S : <<a, b>> \in R => Cardinality(Below(a, R, S)) < Cardinality(Below(b, R, S))
         /\ \A a, b \in S : Cardinality(Below(a, R, S)) = Cardinality(Below(b, R, S)) => a = b
         /\ \A a, b \in S : Cardinality(Below(a, R, S)) < Cardinality(Below(b, R, S)) => <<a, b>> \in R
<1>1. ASSUME NEW a \in S
      PROVE  /\ IsFiniteSet(Below(a, R, S)) /\ Cardinality(Below(a, R, S)) \in Nat
             /\ IsFiniteSet(Below(a, R, S) \cup {a})
             /\ Cardinality(Below(a, R, S) \cup {a}) = Cardinality(Below(a, R, S)) + 1
  <2>1. Below(a, R, S) \in SUBSET S /\ a \notin Below(a, R, S)
    BY DEF Below, Orders
  <2>2. IsFiniteSet(Below(a, R, S))
    BY <2>1, FS_Subset
  <2> QED BY <2>1, <2>2, FS_AddElement, FS_CardinalityType
<1>2. ASSUME NEW a \in S, NEW b \in S, <<a, b>> \in R
      PROVE  Cardinality(Below(a, R, S)) < Cardinality(Below(b, R, S))
  <2>1. Below(a, R, S) \cup {a} \in SUBSET Below(b, R, S)
    BY <1>2 DEF Below, Orders
  <2>2. Cardinality(Below(a, R, S) \cup {a}) <= Cardinality(Below(b, R, S))
    BY <2>1, <1>1, FS_Subset
  <2>3. Cardinality(Below(a, R, S)) \in Nat /\ Cardinality(Below(b, R, S)) \in Nat
    BY <1>1
  <2>4. Cardinality(Below(a, R, S) \cup {a}) = Cardinality(Below(a, R, S)) + 1
    BY <1>1
  <2> QED BY <2>2, <2>3, <2>4
<1>3. ASSUME NEW a \in S
      PROVE  Cardinality(Below(a, R, S)) \in 0..(Cardinality(S) - 1)
  <2>1. Below(a, R, S) \cup {a} \in SUBSET S
    BY DEF Below
  <2>2. Cardinality(Below(a, R, S) \cup {a}) <= Cardinality(S) /\ Cardinality(S) \in Nat
    BY <2>1, FS_Subset, FS_CardinalityType
  <2> QED BY <2>2, <1>1
<1>4. ASSUME NEW a \in S, NEW b \in S
      PROVE  a = b \/ <<a, b>> \in R \/ <<b, a>> \in R
  BY DEF Orders
<1>5. ASSUME NEW a \in S, NEW b \in S, Cardinality(Below(a, R, S)) = Cardinality(Below(b, R, S))
      PROVE  a = b
  <2>1. Cardinality(Below(a, R, S)) \in Nat /\ Cardinality(Below(b, R, S)) \in Nat
    BY <1>1
  <2>2. <<a, b>> \in R => Cardinality(Below(a, R, S)) < Cardinality(Below(b, R, S))
    BY <1>2
  <2>3. <<b, a>> \in R => Cardinality(Below(b, R, S)) < Cardinality(Below(a, R, S))
    BY <1>2
  <2> QED BY <1>4, <1>5, <2>1, <2>2, <2>3
<1>6. ASSUME NEW a \in S, NEW b \in S, Cardinality(Below(a, R, S)) < Cardinality(Below(b, R, S))
      PROVE  <<a, b>> \in R
  <2>1. Cardinality(Below(a, R, S)) \in Nat /\ Cardinality(Below(b, R, S)) \in Nat
    BY <1>1
  <2>2. <<a, b>> \in R => Cardinality(Below(a, R, S)) < Cardinality(Below(b, R, S))
    BY <1>2
  <2>3. <<b, a>> \in R => Cardinality(Below(b, R, S)) < Cardinality(Below(a, R, S))
    BY <1>2
  <2> QED BY <1>4, <1>6, <2>1, <2>2, <2>3
<1> QED BY <1>2, <1>3, <1>5, <1>6

\* There is an element at each place.
LEMMA PlacesAreTaken ==
  ASSUME NEW S, IsFiniteSet(S), NEW R, Orders(R, S), NEW k \in 0..(Cardinality(S) - 1)
  PROVE  \E a \in S : Cardinality(Below(a, R, S)) = k
<1> DEFINE T == 0..(Cardinality(S) - 1)
           f == [a \in S |-> Cardinality(Below(a, R, S))]
<1>1. Cardinality(S) \in Nat
  BY FS_CardinalityType
<1>2. IsFiniteSet(T) /\ Cardinality(T) = Cardinality(S)
  BY <1>1, FS_Interval
<1>3. f \in [S -> T]
  BY PlacesAreOrdered
<1>4. \A a, b \in S : f[a] = f[b] => a = b
  BY PlacesAreOrdered
<1>5. f \in Injection(S, T)
  <2> HIDE DEF f, T
  <2> QED BY <1>3, <1>4, Fun_IsInj
<1>6. f \in Surjection(S, T)
  <2> HIDE DEF f, T
  <2> QED BY <1>2, <1>5, FS_Injection
<1>7. \A t \in T : \E a \in S : f[a] = t
  <2> HIDE DEF f, T
  <2> QED BY <1>6, Fun_SurjectionProperties
<1> QED BY <1>7

\* A sequence of the elements at the first places lists the set upwards.
LEMMA ByPlaceLists ==
  ASSUME NEW S, IsFiniteSet(S), NEW R, Orders(R, S), NEW s \in Seq(S),
         \A k \in 1..Len(s) : Cardinality(Below(s[k], R, S)) = k - 1
  PROVE  Lists(s, R, S)
<1>1. PICK n \in Nat : n = Len(s) /\ DOMAIN s = 1..n
  OBVIOUS
<1>2. ASSUME NEW k \in 1..n PROVE s[k] \in S /\ Cardinality(Below(s[k], R, S)) = k - 1
  BY <1>1
<1>3. ASSUME NEW j \in 1..n, NEW k \in 1..n, j < k PROVE <<s[j], s[k]>> \in R
  <2>1. Cardinality(Below(s[j], R, S)) < Cardinality(Below(s[k], R, S))
    BY <1>1, <1>2, <1>3
  <2> QED BY <2>1, <1>2, PlacesAreOrdered
<1>4. ASSUME NEW k \in 1..n, NEW b \in Below(s[k], R, S) PROVE \E j \in 1..n : s[j] = b
  <2>1. b \in S /\ <<b, s[k]>> \in R
    BY DEF Below
  <2>2. Cardinality(Below(b, R, S)) \in 0..(Cardinality(S) - 1)
        /\ Cardinality(Below(b, R, S)) < k - 1
    BY <2>1, <1>2, PlacesAreOrdered
  <2>3. Cardinality(S) \in Nat
    BY FS_CardinalityType
  <2>4. PICK j \in 1..n : j = Cardinality(Below(b, R, S)) + 1
    BY <2>2, <2>3, <1>1
  <2>5. Cardinality(Below(s[j], R, S)) = Cardinality(Below(b, R, S))
    BY <2>2, <2>3, <2>4, <1>2
  <2> QED BY <2>1, <2>5, <1>2, PlacesAreOrdered
<1> QED BY <1>1, <1>3, <1>4 DEF Lists

\* The k-th element of a sequence that lists the set is the one at place k.
LEMMA ListedByPlace ==
  ASSUME NEW S, IsFiniteSet(S), NEW R, Orders(R, S), NEW s \in Seq(S), Lists(s, R, S), NEW k \in 1..Len(s)
  PROVE  Cardinality(Below(s[k], R, S)) = k - 1
<1>1. Len(s) \in Nat /\ DOMAIN s = 1..Len(s) /\ k \in Nat /\ s[k] \in S
  OBVIOUS
<1> DEFINE T == 1..(k - 1)
           f == [j \in T |-> s[j]]
           B == Below(s[k], R, S)
<1>2. IsFiniteSet(T) /\ Cardinality(T) = k - 1
  <2>1. k - 1 \in Nat
    BY <1>1
  <2> QED BY <2>1, CountUpTo
<1>3. f \in [T -> B]
  BY <1>1 DEF Lists, Below
<1>4. \A i, j \in T : f[i] = f[j] => i = j
  <2>1. ASSUME NEW i \in T, NEW j \in T, i < j PROVE s[i] # s[j]
    <3>1. i \in DOMAIN s /\ j \in DOMAIN s /\ s[i] \in S /\ s[j] \in S
      BY <1>1
    <3> QED BY <2>1, <3>1 DEF Lists, Orders
  <2>2. ASSUME NEW i \in T, NEW j \in T, s[i] = s[j] PROVE i = j
    BY <2>1, <2>2
  <2> QED BY <2>2
<1>5. \A b \in B : \E j \in T : f[j] = b
  <2>1. ASSUME NEW b \in B PROVE \E j \in T : s[j] = b
    <3>1. b \in S /\ <<b, s[k]>> \in R
      BY DEF Below
    <3>2. PICK j \in DOMAIN s : s[j] = b
      BY <1>1 DEF Lists
    <3>3. ~(k <= j)
      <4>1. CASE k = j
        BY <1>1, <3>1, <3>2, <4>1 DEF Orders
      <4>2. CASE k < j
        <5>1. <<s[k], b>> \in R
          BY <1>1, <3>2, <4>2 DEF Lists
        <5> QED BY <1>1, <3>1, <5>1 DEF Orders
      <4> QED BY <1>1, <4>1, <4>2
    <3> QED BY <1>1, <3>2, <3>3
  <2> QED BY <2>1
<1>6. f \in Bijection(T, B)
  <2> HIDE DEF f, T, B
  <2> QED BY <1>3, <1>4, <1>5, Fun_IsBij
<1>7. Cardinality(B) = k - 1
  <2> HIDE DEF f, T, B
  <2> QED BY <1>2, <1>6, FS_Bijection DEF ExistsBijection
<1> QED BY <1>7

\* A sequence that lists a set has the elements at its first places, and all when it is as long.
LEMMA ListedPlaces ==
  ASSUME NEW S, IsFiniteSet(S), NEW R, Orders(R, S), NEW s \in Seq(S), Lists(s, R, S)
  PROVE  /\ Len(s) <= Cardinality(S)
         /\ Len(s) = Cardinality(S) <=> \A a \in S : \E k \in DOMAIN s : s[k] = a
         /\ \A a \in S : Cardinality(Below(a, R, S)) < Len(s) <=> \E k \in DOMAIN s : s[k] = a
<1>1. Len(s) \in Nat /\ DOMAIN s = 1..Len(s) /\ \A k \in 1..Len(s) : s[k] \in S
  OBVIOUS
<1>2. \A k \in 1..Len(s) : Cardinality(Below(s[k], R, S)) = k - 1
  BY ListedByPlace
<1>3. Cardinality(S) \in Nat
  BY FS_CardinalityType
<1>4. Len(s) <= Cardinality(S)
  <2>1. CASE Len(s) = 0
    BY <1>3, <2>1
  <2>2. CASE Len(s) # 0
    <3>1. Len(s) \in 1..Len(s) /\ s[Len(s)] \in S
      BY <1>1, <2>2
    <3>2. Cardinality(Below(s[Len(s)], R, S)) = Len(s) - 1
      BY <1>2, <3>1
    <3>3. Cardinality(Below(s[Len(s)], R, S)) \in 0..(Cardinality(S) - 1)
      BY <3>1, PlacesAreOrdered
    <3> QED BY <1>1, <1>3, <3>2, <3>3
  <2> QED BY <2>1, <2>2
<1>5. ASSUME NEW a \in S
      PROVE  Cardinality(Below(a, R, S)) < Len(s) <=> \E k \in DOMAIN s : s[k] = a
  <2>1. Cardinality(Below(a, R, S)) \in Nat
    BY PlacesAreOrdered
  <2>2. ASSUME Cardinality(Below(a, R, S)) < Len(s) PROVE \E k \in 1..Len(s) : s[k] = a
    <3>1. PICK k \in 1..Len(s) : k = Cardinality(Below(a, R, S)) + 1
      BY <1>1, <2>1, <2>2
    <3>2. Cardinality(Below(s[k], R, S)) = Cardinality(Below(a, R, S)) /\ s[k] \in S
      BY <1>1, <1>2, <2>1, <3>1
    <3> QED BY <3>2, PlacesAreOrdered
  <2>3. ASSUME NEW k \in 1..Len(s), s[k] = a PROVE Cardinality(Below(a, R, S)) < Len(s)
    <3>1. Cardinality(Below(a, R, S)) = k - 1
      BY <1>2, <2>3
    <3> QED BY <1>1, <3>1
  <2> QED BY <1>1, <2>2, <2>3
<1>6. ASSUME Len(s) = Cardinality(S), NEW a \in S PROVE \E k \in DOMAIN s : s[k] = a
  <2>1. Cardinality(Below(a, R, S)) \in 0..(Cardinality(S) - 1)
    BY PlacesAreOrdered
  <2>2. Cardinality(Below(a, R, S)) < Len(s)
    BY <1>3, <1>6, <2>1
  <2> QED BY <1>5, <2>2
<1>7. ASSUME Len(s) # Cardinality(S) PROVE \E a \in S : \A k \in DOMAIN s : s[k] # a
  <2>1. Len(s) \in 0..(Cardinality(S) - 1)
    BY <1>1, <1>3, <1>4, <1>7
  <2>2. PICK a \in S : Cardinality(Below(a, R, S)) = Len(s)
    BY <2>1, PlacesAreTaken
  <2> QED BY <1>1, <1>5, <2>2
<1> QED BY <1>4, <1>5, <1>6, <1>7

\* So two sequences of one length that list a set are the same.
LEMMA ListsAreUnique ==
  ASSUME NEW S, IsFiniteSet(S), NEW R, Orders(R, S), NEW s \in Seq(S), NEW t \in Seq(S),
         Lists(s, R, S), Lists(t, R, S), Len(s) = Len(t)
  PROVE  s = t
<1>1. ASSUME NEW k \in 1..Len(s) PROVE s[k] = t[k]
  <2>1. Cardinality(Below(s[k], R, S)) = k - 1
    BY ListedByPlace
  <2>2. Cardinality(Below(t[k], R, S)) = k - 1
    BY ListedByPlace
  <2>3. s[k] \in S /\ t[k] \in S
    OBVIOUS
  <2> QED BY <2>1, <2>2, <2>3, PlacesAreOrdered
<1> QED BY <1>1, SeqEqual

\* A beginning of a sequence that lists a set lists it too.
LEMMA BeginningLists ==
  ASSUME NEW S, NEW R, Orders(R, S), NEW s \in Seq(S), Lists(s, R, S), NEW n \in 0..Len(s)
  PROVE  SubSeq(s, 1, n) \in Seq(S) /\ Lists(SubSeq(s, 1, n), R, S)
<1> DEFINE t == SubSeq(s, 1, n)
<1>1. /\ t \in Seq(S) /\ Len(t) = n /\ DOMAIN t = 1..n
      /\ \A k \in 1..n : t[k] = s[k] /\ s[k] \in S
      /\ n \in Nat /\ DOMAIN s = 1..Len(s) /\ Len(s) \in Nat
  OBVIOUS
<1> HIDE DEF t
<1>2. \A j, k \in 1..n : j < k => <<t[j], t[k]>> \in R
  BY <1>1 DEF Lists
<1>3. ASSUME NEW k \in 1..n, NEW b \in Below(t[k], R, S) PROVE \E j \in 1..n : t[j] = b
  <2>1. b \in S /\ <<b, s[k]>> \in R /\ s[k] \in S /\ k \in DOMAIN s
    BY <1>1 DEF Below
  <2>2. PICK j \in DOMAIN s : s[j] = b
    BY <2>1 DEF Lists, Below
  <2>3. ~(k <= j)
    <3>1. CASE k = j
      BY <2>1, <2>2, <3>1 DEF Orders
    <3>2. CASE k < j
      <4>1. <<s[k], b>> \in R
        BY <2>1, <2>2, <3>2 DEF Lists
      <4> QED BY <2>1, <4>1 DEF Orders
    <3> QED BY <1>1, <2>2, <3>1, <3>2
  <2>4. j \in 1..n
    BY <1>1, <2>2, <2>3
  <2> QED BY <1>1, <2>2, <2>4
<1>4. Lists(t, R, S)
  BY <1>1, <1>2, <1>3 DEF Lists
<1> QED BY <1>1, <1>4 DEF t
-----------------------------------------------------------------------------
\* The sequence that has an element at each place lists the whole set.
LEMMA PlacedLists ==
  ASSUME NEW S, IsFiniteSet(S), NEW R, Orders(R, S), NEW s \in [1..Cardinality(S) -> S],
         \A k \in 1..Cardinality(S) : Cardinality(Below(s[k], R, S)) = k - 1
  PROVE  /\ s \in Seq(S) /\ Len(s) = Cardinality(S) /\ Lists(s, R, S)
         /\ \A a \in S : \E k \in DOMAIN s : s[k] = a
<1>1. Cardinality(S) \in Nat
  BY FS_CardinalityType
<1>2. s \in Seq(S) /\ Len(s) = Cardinality(S)
  BY <1>1
<1>3. Lists(s, R, S)
  BY <1>2, ByPlaceLists
<1> QED BY <1>2, <1>3, ListedPlaces

\* A sequence that lists a set repeats nothing.
LEMMA ListsCount ==
  ASSUME NEW S, NEW R, Orders(R, S), NEW s \in Seq(S), Lists(s, R, S)
  PROVE  IsFiniteSet({s[i] : i \in DOMAIN s}) /\ Cardinality({s[i] : i \in DOMAIN s}) = Len(s)
<1> DEFINE T == {s[i] : i \in DOMAIN s}
           f == [k \in 1..Len(s) |-> s[k]]
<1>1. Len(s) \in Nat /\ DOMAIN s = 1..Len(s) /\ \A k \in 1..Len(s) : s[k] \in S
  BY ElementOfSeq
<1>2. ASSUME NEW j \in 1..Len(s), NEW k \in 1..Len(s), s[j] = s[k] PROVE j = k
  <2>1. ~(j < k) /\ ~(k < j)
    BY <1>1, <1>2 DEF Lists, Orders
  <2> QED BY <1>1, <2>1
<1>3. f \in Bijection(1..Len(s), T)
  <2>1. f \in [1..Len(s) -> T]
    BY <1>1
  <2>2. f \in Injection(1..Len(s), T)
    BY <1>2, <2>1 DEF Injection, IsInjective
  <2>3. f \in Surjection(1..Len(s), T)
    BY <1>1, <2>1 DEF Surjection
  <2> QED BY <2>2, <2>3 DEF Bijection
<1>4. IsFiniteSet(1..Len(s)) /\ Cardinality(1..Len(s)) = Len(s)
  BY <1>1, CountUpTo
<1> HIDE DEF T, f
<1>5. IsFiniteSet(T) /\ Cardinality(T) = Cardinality(1..Len(s))
  BY <1>3, <1>4, FS_Bijection DEF ExistsBijection
<1> QED BY <1>4, <1>5 DEF T

\* What follows on a sequence that lists the set, and leaves out nothing either.
Follows(u, s, R, S) ==
  /\ \A j, k \in DOMAIN u : j < k => <<u[j], u[k]>> \in R
  /\ \A j \in DOMAIN s, k \in DOMAIN u : <<s[j], u[k]>> \in R
  /\ \A k \in DOMAIN u : \A b \in Below(u[k], R, S) :
       (\E j \in DOMAIN s : s[j] = b) \/ (\E j \in DOMAIN u : u[j] = b)
Joins(t, s, u) ==
  /\ \A b : (\E j \in DOMAIN s : s[j] = b) \/ (\E j \in DOMAIN u : u[j] = b) => \E j \in DOMAIN t : t[j] = b
  /\ \A j \in DOMAIN t : (\E i \in DOMAIN s : s[i] = t[j]) \/ (\E i \in DOMAIN u : u[i] = t[j])

LEMMA AppendedLists ==
  ASSUME NEW S, NEW R, NEW s \in Seq(S), Lists(s, R, S), NEW u \in Seq(S), Follows(u, s, R, S), NEW t, t = s \o u
  PROVE  t \in Seq(S) /\ Lists(t, R, S) /\ Joins(t, s, u)
<1>1. /\ Len(s) \in Nat /\ Len(u) \in Nat /\ DOMAIN s = 1..Len(s) /\ DOMAIN u = 1..Len(u)
      /\ t \in Seq(S) /\ Len(t) = Len(s) + Len(u) /\ DOMAIN t = 1..(Len(s) + Len(u))
      /\ \A k \in 1..Len(s) : t[k] = s[k]
      /\ \A k \in 1..Len(u) : t[Len(s) + k] = u[k]
  OBVIOUS
<1>2. ASSUME NEW k \in DOMAIN t
      PROVE  (k \in DOMAIN s /\ t[k] = s[k]) \/ \E i \in DOMAIN u : k = Len(s) + i /\ t[k] = u[i]
  <2>1. CASE k <= Len(s)
    BY <1>1, <2>1
  <2>2. CASE k > Len(s)
    <3>1. k - Len(s) \in 1..Len(u) /\ k = Len(s) + (k - Len(s))
      BY <1>1, <2>2
    <3> QED BY <1>1, <3>1
  <2> QED BY <1>1, <2>1, <2>2
<1>3. ASSUME NEW j \in DOMAIN t, NEW k \in DOMAIN t, j < k PROVE <<t[j], t[k]>> \in R
  <2>1. CASE k \in DOMAIN s /\ t[k] = s[k]
    <3>1. j \in DOMAIN s /\ t[j] = s[j]
      BY <1>1, <1>3, <2>1
    <3> QED BY <1>3, <2>1, <3>1 DEF Lists
  <2>2. CASE \E i \in DOMAIN u : k = Len(s) + i /\ t[k] = u[i]
    <3>1. PICK i \in DOMAIN u : k = Len(s) + i /\ t[k] = u[i]
      BY <2>2
    <3>2. CASE j \in DOMAIN s /\ t[j] = s[j]
      BY <3>1, <3>2 DEF Follows
    <3>3. CASE \E h \in DOMAIN u : j = Len(s) + h /\ t[j] = u[h]
      <4>1. PICK h \in DOMAIN u : j = Len(s) + h /\ t[j] = u[h]
        BY <3>3
      <4>2. h < i
        BY <1>1, <1>3, <3>1, <4>1
      <4> QED BY <3>1, <4>1, <4>2 DEF Follows
    <3> QED BY <1>2, <3>2, <3>3
  <2> QED BY <1>2, <2>1, <2>2
<1>4. \A b : (\E j \in DOMAIN s : s[j] = b) \/ (\E j \in DOMAIN u : u[j] = b) => \E j \in DOMAIN t : t[j] = b
  <2>1. \A j \in DOMAIN s : j \in DOMAIN t /\ t[j] = s[j]
    BY <1>1
  <2>2. \A j \in DOMAIN u : Len(s) + j \in DOMAIN t /\ t[Len(s) + j] = u[j]
    BY <1>1
  <2> QED BY <2>1, <2>2
<1>5. ASSUME NEW k \in DOMAIN t, NEW b \in Below(t[k], R, S) PROVE \E j \in DOMAIN t : t[j] = b
  <2>1. CASE k \in DOMAIN s /\ t[k] = s[k]
    BY <1>4, <1>5, <2>1 DEF Lists
  <2>2. CASE \E i \in DOMAIN u : k = Len(s) + i /\ t[k] = u[i]
    <3>1. PICK i \in DOMAIN u : t[k] = u[i]
      BY <2>2
    <3>2. (\E j \in DOMAIN s : s[j] = b) \/ (\E j \in DOMAIN u : u[j] = b)
      BY <1>5, <3>1 DEF Follows
    <3> QED BY <1>4, <3>2
  <2> QED BY <1>2, <2>1, <2>2
<1>6. Lists(t, R, S)
  BY <1>3, <1>5 DEF Lists
<1> QED BY <1>1, <1>2, <1>4, <1>6 DEF Joins

\* An order of a set orders what is in it.
LEMMA SubsetOrders ==
  ASSUME NEW S, NEW R, Orders(R, S), NEW T, T \subseteq S
  PROVE  Orders(R, T)
BY DEF Orders

\* Keeping the first K of those kept and the new ones keeps the first K of all.
FirstOf(u, K) == IF Len(u) > K THEN SubSeq(u, 1, K) ELSE u
Listed(s) == {s[i] : i \in DOMAIN s}
LEMMA FirstOfAll ==
  ASSUME NEW A, IsFiniteSet(A), NEW N, IsFiniteSet(N), NEW R, Orders(R, A \cup N), NEW K \in Nat,
         NEW s \in Seq(A), Lists(s, R, A), Len(s) = K \/ Len(s) = Cardinality(A),
         NEW M, M = Listed(s) \cup N,
         NEW u \in Seq(M), Lists(u, R, M), Len(u) = Cardinality(M), NEW t, t = FirstOf(u, K)
  PROVE  /\ t \in Seq(A \cup N) /\ Lists(t, R, A \cup N)
         /\ Len(t) <= K /\ (Len(t) = K \/ Len(t) = Cardinality(A \cup N))
<1> DEFINE W == {s[i] : i \in DOMAIN s}
<1>0. W = Listed(s)
  BY DEF Listed
<1>1. \A i \in DOMAIN s : s[i] \in A
  <2>1. DOMAIN s = 1..Len(s)
    OBVIOUS
  <2> QED BY <2>1, ElementOfSeq
<1>2. W \subseteq A /\ M = W \cup N /\ M \subseteq A \cup N
  BY <1>0, <1>1
<1>3. Orders(R, A) /\ Orders(R, M)
  <2> HIDE DEF W
  <2> QED BY <1>2, SubsetOrders
<1>4. IsFiniteSet(W) /\ Cardinality(W) = Len(s)
  BY <1>3, ListsCount
<1> HIDE DEF W
<1>5. IsFiniteSet(M) /\ Cardinality(M) \in Nat /\ Cardinality(W) <= Cardinality(M)
  <2>1. IsFiniteSet(M)
    BY <1>2, <1>4, FS_Union
  <2>2. W \in SUBSET M
    BY <1>2
  <2> QED BY <2>1, <2>2, FS_CardinalityType, FS_Subset
<1>6. t \in Seq(M) /\ Lists(t, R, M) /\ Len(t) <= K /\ (Len(t) = K \/ t = u) /\ Len(t) \in Nat
  <2>1. Len(u) \in Nat
    OBVIOUS
  <2>2. CASE Len(u) > K
    <3>1. t = SubSeq(u, 1, K) /\ K \in 0..Len(u)
      BY <2>1, <2>2 DEF FirstOf
    <3>2. t \in Seq(M) /\ Lists(t, R, M)
      BY <1>3, <3>1, BeginningLists
    <3>3. Len(t) = K
      BY <2>1, <2>2, <3>1
    <3> QED BY <3>2, <3>3
  <2>3. CASE ~(Len(u) > K)
    <3>1. t = u
      BY <2>3 DEF FirstOf
    <3> QED BY <2>1, <2>3, <3>1
  <2> QED BY <2>2, <2>3
<1>7. DOMAIN t = 1..Len(t) /\ \A k \in 1..Len(t) : t[k] \in M
  BY <1>6, ElementOfSeq
<1>8. t \in Seq(A \cup N)
  <2>1. PICK S : S = A \cup N
    OBVIOUS
  <2>2. \A k \in 1..Len(t) : t[k] \in S
    BY <1>2, <1>7, <2>1
  <2>3. t \in Seq(S)
    <3>1. t \in Seq(M) /\ Len(t) \in Nat /\ DOMAIN t = 1..Len(t)
      BY <1>6, <1>7
    <3> QED BY <2>2, <3>1
  <2> QED BY <2>1, <2>3
<1>9. CASE Len(s) = Cardinality(A)
  <2>1. \A a \in A : \E k \in DOMAIN s : s[k] = a
    BY <1>3, <1>9, ListedPlaces
  <2>2. M = A \cup N
    BY <1>1, <1>2, <2>1 DEF W
  <2> QED BY <1>6, <1>8, <2>2
<1>10. CASE Len(s) = K
  <2>1. Len(t) = K
    BY <1>4, <1>5, <1>6, <1>10
  <2>2. ASSUME NEW k \in 1..Len(t), NEW b \in Below(t[k], R, A \cup N) PROVE b \in M
    <3>1. SUFFICES ASSUME b \notin M PROVE FALSE
      OBVIOUS
    <3>2. b \in A /\ b \notin W /\ <<b, t[k]>> \in R /\ t[k] \in A \cup N
      BY <1>2, <1>7, <2>2, <3>1 DEF Below
    <3>3. ASSUME NEW w \in W PROVE <<w, b>> \in R
      <4>1. PICK i \in DOMAIN s : w = s[i]
        BY DEF W
      <4>2. <<b, w>> \notin R
        <5>1. <<b, w>> \in R => \E j \in DOMAIN s : s[j] = b
          BY <3>2, <4>1 DEF Lists, Below
        <5> QED BY <3>2, <5>1 DEF W
      <4> QED BY <1>2, <1>3, <3>2, <4>2 DEF Orders
    <3>4. W \in SUBSET Below(t[k], R, M)
      <4>1. ASSUME NEW w \in W PROVE <<w, t[k]>> \in R
        <5>1. <<w, b>> \in R /\ w \in A \cup N /\ b \in A \cup N
          BY <1>2, <3>2, <3>3
        <5> QED BY <3>2, <5>1 DEF Orders
      <4> QED BY <1>2, <4>1 DEF Below
    <3>5. Cardinality(Below(t[k], R, M)) = k - 1
      BY <1>3, <1>5, <1>6, ListedByPlace
    <3>6. IsFiniteSet(Below(t[k], R, M))
      <4>1. Below(t[k], R, M) \in SUBSET M
        BY DEF Below
      <4> QED BY <1>5, <4>1, FS_Subset
    <3>7. Cardinality(W) <= Cardinality(Below(t[k], R, M))
      BY <3>4, <3>6, FS_Subset
    <3> QED BY <1>4, <1>6, <1>10, <2>1, <3>5, <3>7
  <2>3. Lists(t, R, A \cup N)
    <3>1. ASSUME NEW k \in DOMAIN t, NEW b \in Below(t[k], R, A \cup N) PROVE \E j \in DOMAIN t : t[j] = b
      <4>1. b \in Below(t[k], R, M)
        BY <1>7, <2>2 DEF Below
      <4> QED BY <1>6, <4>1 DEF Lists
    <3> QED BY <1>6, <3>1 DEF Lists
  <2> QED BY <1>6, <1>8, <2>1, <2>3
<1> QED BY <1>9, <1>10
=============================================================================
