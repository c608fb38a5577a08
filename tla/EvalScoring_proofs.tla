------------------------ MODULE EvalScoring_proofs ------------------------
(***************************************************************************)
(* MatchingIsMaximum of EvalScoring, for all findings and predictions.     *)
(***************************************************************************)
EXTENDS EvalScoring, FiniteOrders

\* The matching m of the expected findings E with n predictions, of which R has those near.
Matches(m, E, R, n) ==
  /\ m \in [E -> 0..n]
  /\ \A e \in E : m[e] # 0 => <<e, m[e]>> \in R
  /\ \A e, f \in E : e # f /\ m[e] # 0 => m[f] # m[e]

\* C shows that m is a maximum: what is near to C is matched, and to C, and who has no match is in C.
Certifies(C, m, E, R, n) ==
  /\ C \in SUBSET (1..n)
  /\ \A p \in 1..n : p \in C \/ \E e \in E : m[e] = p
  /\ \A e \in E, p \in C : <<e, p>> \in R => m[e] \in C

\* The calls of assign: each location is wanted by the owner of the one before, and an
\* owner whose call has ended has only locations near it that are seen.
Distinct(s) == \A i, j \in DOMAIN s : s[i] = s[j] => i = j
Asks(s, m, R, n) ==
  /\ Distinct(s)
  /\ \A i \in DOMAIN s : IF i = 1 THEN <<s[1], n + 1>> \in R ELSE <<s[i], m[s[i - 1]]>> \in R
Seen(s, V, m, E, R) ==
  /\ V \in SUBSET E /\ s \in Seq(V)
  /\ \A e \in V : m[e] # 0 /\ ((\E i \in DOMAIN s : s[i] = e) \/ \A f \in E : <<f, m[e]>> \in R => f \in V)

Nearby == {x \in (DOMAIN expected) \X (DOMAIN predicted) : Near(x[1], x[2])}
TakenIn(m, E) == {e \in E : m[e] # 0}
MissedApart ==
  \A e \in DOMAIN expected, p \in misplaced : Alike(e, p) => \E q \in pairs : q[1] = e

ScoringInv ==
  /\ expected \in Seq(ExpectedFindings) /\ predicted \in Seq(Predictions) /\ scored \in 0..Len(predicted)
  /\ Matches(matched, DOMAIN expected, Nearby, scored)
  /\ located = Cardinality(TakenIn(matched, DOMAIN expected))
  /\ \E C \in SUBSET (1..scored) : Certifies(C, matched, DOMAIN expected, Nearby, scored)
  /\ Asks(chain, matched, Nearby, scored) /\ Seen(chain, visited, matched, DOMAIN expected, Nearby)
  /\ MissedApart
-----------------------------------------------------------------------------
\* Those matched with a set of predictions are near to it, and at most as many as it.
OwnedBy(S, m, E) == {e \in E : m[e] \in S}
Served(S, m, E) == \A p \in S : \E e \in E : m[e] = p
ReachOf(S, E, R) == {e \in E : \E p \in S : <<e, p>> \in R}

LEMMA OwnedCount ==
  ASSUME NEW E, IsFiniteSet(E), NEW R, NEW n \in Nat, NEW m, Matches(m, E, R, n), NEW S \in SUBSET (1..n)
  PROVE  /\ IsFiniteSet(OwnedBy(S, m, E)) /\ IsFiniteSet(S) /\ Cardinality(OwnedBy(S, m, E)) \in Nat /\ Cardinality(S) \in Nat
         /\ OwnedBy(S, m, E) \subseteq ReachOf(S, E, R)
         /\ Cardinality(OwnedBy(S, m, E)) <= Cardinality(S)
         /\ Served(S, m, E) => Cardinality(OwnedBy(S, m, E)) = Cardinality(S)
<1>1. IsFiniteSet(S) /\ Cardinality(S) \in Nat
  BY CountUpTo, FS_Subset, FS_CardinalityType
<1>2. OwnedBy(S, m, E) \in SUBSET E
  BY DEF OwnedBy
<1>3. IsFiniteSet(OwnedBy(S, m, E)) /\ Cardinality(OwnedBy(S, m, E)) \in Nat
  BY <1>2, FS_Subset, FS_CardinalityType
<1>4. \A e \in OwnedBy(S, m, E) : e \in E /\ m[e] \in S /\ m[e] # 0
  BY DEF OwnedBy
<1>5. OwnedBy(S, m, E) \subseteq ReachOf(S, E, R)
  BY <1>4 DEF ReachOf, Matches
<1> DEFINE W == OwnedBy(S, m, E)
           f == [e \in W |-> m[e]]
<1>6. f \in Injection(W, S)
  BY <1>4 DEF Injection, IsInjective, Matches
<1>7. Cardinality(W) <= Cardinality(S) /\ (Cardinality(W) = Cardinality(S) <=> f \in Surjection(W, S))
  <2> HIDE DEF f, W
  <2> QED BY <1>1, <1>6, FS_Injection
<1>8. ASSUME Served(S, m, E) PROVE f \in Surjection(W, S)
  <2>1. f \in [W -> S]
    BY <1>4
  <2>2. ASSUME NEW p \in S PROVE \E e \in W : f[e] = p
    <3>1. PICK e \in E : m[e] = p
      BY <1>8 DEF Served
    <3> QED BY <3>1 DEF OwnedBy
  <2> QED BY <2>1, <2>2 DEF Surjection
<1> QED BY <1>1, <1>3, <1>5, <1>7, <1>8

\* Duality: no set of predictions shows less, so a matching that is certified is a maximum.
Shows(S, E, R, n) == Cardinality(ReachOf(S, E, R)) + n - Cardinality(S)

LEMMA CertifiedIsMaximum ==
  ASSUME NEW E, IsFiniteSet(E), NEW R, NEW n \in Nat, NEW m, Matches(m, E, R, n), NEW C, Certifies(C, m, E, R, n)
  PROVE  Cardinality(TakenIn(m, E)) = First({Shows(S, E, R, n) : S \in SUBSET (1..n)})
<1>1. IsFiniteSet(1..n) /\ Cardinality(1..n) = n
  BY CountUpTo
<1> DEFINE Rest(S) == (1..n) \ S
<1>2. ASSUME NEW S \in SUBSET (1..n)
      PROVE  /\ Cardinality(TakenIn(m, E)) = Cardinality(OwnedBy(S, m, E)) + Cardinality(OwnedBy(Rest(S), m, E))
             /\ Cardinality(Rest(S)) = n - Cardinality(S) /\ Rest(S) \in SUBSET (1..n)
             /\ Cardinality(TakenIn(m, E)) \in Nat
  <2>1. Rest(S) \in SUBSET (1..n)
    OBVIOUS
  <2>2. PICK U : U = 1..n
    OBVIOUS
  <2>3. Cardinality(Rest(S)) = n - Cardinality(S)
    <3>1. U \cap S = S /\ Rest(S) = U \ S
      BY <2>2
    <3> HIDE DEF Rest
    <3>2. Cardinality(U \ S) = Cardinality(U) - Cardinality(U \cap S)
      BY <1>1, <2>2, FS_Difference
    <3> QED BY <1>1, <2>2, <3>1, <3>2
  <2>4. TakenIn(m, E) = OwnedBy(S, m, E) \cup OwnedBy(Rest(S), m, E)
    BY DEF TakenIn, OwnedBy, Matches
  <2>5. OwnedBy(S, m, E) \cap OwnedBy(Rest(S), m, E) = {}
    BY DEF OwnedBy
  <2> HIDE DEF Rest
  <2>6. /\ IsFiniteSet(OwnedBy(S, m, E)) /\ IsFiniteSet(OwnedBy(Rest(S), m, E))
        /\ Cardinality(OwnedBy(S, m, E)) \in Nat /\ Cardinality(OwnedBy(Rest(S), m, E)) \in Nat
    BY <2>1, OwnedCount
  <2>7. Cardinality(TakenIn(m, E)) = Cardinality(OwnedBy(S, m, E)) + Cardinality(OwnedBy(Rest(S), m, E))
                                     - Cardinality(OwnedBy(S, m, E) \cap OwnedBy(Rest(S), m, E))
    BY <2>4, <2>6, FS_Union
  <2>8. Cardinality(OwnedBy(S, m, E) \cap OwnedBy(Rest(S), m, E)) = 0
    BY <2>5, FS_EmptySet
  <2>9. Cardinality(TakenIn(m, E)) = Cardinality(OwnedBy(S, m, E)) + Cardinality(OwnedBy(Rest(S), m, E))
    BY <2>6, <2>7, <2>8
  <2>10. Cardinality(TakenIn(m, E)) \in Nat
    BY <2>6, <2>9
  <2> QED BY <2>1, <2>3, <2>9, <2>10
<1>3. ASSUME NEW S \in SUBSET (1..n)
      PROVE  IsFiniteSet(ReachOf(S, E, R)) /\ Cardinality(ReachOf(S, E, R)) \in Nat /\ Cardinality(S) \in Nat
  <2>1. ReachOf(S, E, R) \in SUBSET E
    BY DEF ReachOf
  <2> QED BY <2>1, FS_Subset, FS_CardinalityType, OwnedCount
<1> HIDE DEF Rest
<1>4. ASSUME NEW S \in SUBSET (1..n)
      PROVE  Cardinality(TakenIn(m, E)) <= Shows(S, E, R, n) /\ Shows(S, E, R, n) \in Int
  <2>1. OwnedBy(S, m, E) \in SUBSET ReachOf(S, E, R)
    BY OwnedCount
  <2>2. Cardinality(OwnedBy(S, m, E)) <= Cardinality(ReachOf(S, E, R)) /\ Cardinality(OwnedBy(S, m, E)) \in Nat
    BY <1>3, <2>1, FS_Subset, OwnedCount
  <2>3. Cardinality(OwnedBy(Rest(S), m, E)) <= Cardinality(Rest(S)) /\ Cardinality(OwnedBy(Rest(S), m, E)) \in Nat
    BY <1>2, OwnedCount
  <2> QED BY <1>2, <1>3, <2>2, <2>3 DEF Shows
<1>5. C \in SUBSET (1..n)
  BY DEF Certifies
<1>6. Shows(C, E, R, n) = Cardinality(TakenIn(m, E))
  <2>1. ReachOf(C, E, R) = OwnedBy(C, m, E)
    <3>1. ReachOf(C, E, R) \subseteq OwnedBy(C, m, E)
      BY DEF ReachOf, OwnedBy, Certifies
    <3> QED BY <1>5, <3>1, OwnedCount
  <2>2. Served(Rest(C), m, E)
    BY DEF Rest, Certifies, Served
  <2>3. Cardinality(OwnedBy(Rest(C), m, E)) = Cardinality(Rest(C))
    <3>1. PICK S : S = Rest(C) /\ S \in SUBSET (1..n)
      BY <1>2, <1>5
    <3>2. Served(S, m, E)
      BY <2>2, <3>1
    <3>3. Cardinality(OwnedBy(S, m, E)) = Cardinality(S)
      BY <3>1, <3>2, OwnedCount
    <3> QED BY <3>1, <3>3
  <2>4. Cardinality(OwnedBy(C, m, E)) \in Nat
    BY <1>5, OwnedCount
  <2> QED BY <1>2, <1>3, <1>5, <2>1, <2>3, <2>4 DEF Shows
<1> DEFINE All == {Shows(S, E, R, n) : S \in SUBSET (1..n)}
<1>7. PICK k : k = Cardinality(TakenIn(m, E))
  OBVIOUS
<1>8. k \in All /\ k \in Int /\ \A j \in All : k <= j /\ j \in Int
  BY <1>2, <1>4, <1>5, <1>6, <1>7
<1> HIDE DEF All
<1>9. First(All) \in All /\ \A j \in All : First(All) <= j
  <2>1. \E e \in All : \A f \in All : e <= f
    BY <1>8
  <2> QED BY <2>1, Zenon DEF First
<1>10. First(All) = k
  <2>1. PICK j : j = First(All)
    OBVIOUS
  <2>2. j \in Int /\ k \in Int /\ k <= j /\ j <= k
    BY <1>8, <1>9, <2>1
  <2> QED BY <2>1, <2>2
<1> QED BY <1>7, <1>10 DEF All
-----------------------------------------------------------------------------
\* What the returning calls make of the matching.
Shifted(m, q, n) ==
  [e \in DOMAIN m |->
     IF \E i \in DOMAIN q : q[i] = e
     THEN LET i == CHOOSE j \in DOMAIN q : q[j] = e IN IF i = 1 THEN n + 1 ELSE m[q[i - 1]]
     ELSE m[e]]

ShiftsTo(t, m, q, n, E) ==
  /\ DOMAIN t = E
  /\ \A i \in DOMAIN q : t[q[i]] = IF i = 1 THEN n + 1 ELSE m[q[i - 1]]
  /\ \A e \in E : (\A i \in DOMAIN q : q[i] # e) => t[e] = m[e]

LEMMA ShiftedAt ==
  ASSUME NEW E, NEW n, NEW m \in [E -> 0..n], NEW q \in Seq(E), Distinct(q), NEW t, t = Shifted(m, q, n)
  PROVE  ShiftsTo(t, m, q, n, E)
<1>1. DOMAIN t = E /\ DOMAIN m = E
  BY DEF Shifted
<1>2. \A i \in DOMAIN q : q[i] \in E
  <2>1. DOMAIN q = 1..Len(q)
    OBVIOUS
  <2> QED BY <2>1, ElementOfSeq
<1>3. ASSUME NEW i \in DOMAIN q PROVE t[q[i]] = IF i = 1 THEN n + 1 ELSE m[q[i - 1]]
  <2> DEFINE at == CHOOSE j \in DOMAIN q : q[j] = q[i]
  <2>1. at \in DOMAIN q /\ q[at] = q[i]
    BY Zenon
  <2>2. at = i
    <3> HIDE DEF at
    <3> QED BY <2>1 DEF Distinct
  <2>3. t[q[i]] = IF at = 1 THEN n + 1 ELSE m[q[at - 1]]
    BY <1>1, <1>2, Zenon DEF Shifted
  <2> HIDE DEF at
  <2> QED BY <2>2, <2>3
<1>4. ASSUME NEW e \in E, \A i \in DOMAIN q : q[i] # e PROVE t[e] = m[e]
  BY <1>1, <1>4, Zenon DEF Shifted
<1> QED BY <1>1, <1>3, <1>4 DEF ShiftsTo

\* q ends at the one location of it that is free.
EndsFree(q, m) == Len(q) \in Nat \ {0} /\ m[q[Len(q)]] = 0 /\ \A i \in 1..(Len(q) - 1) : m[q[i]] # 0
StaysCertified(m, t, E, R, n) == \A C : Certifies(C, m, E, R, n) => Certifies(C, t, E, R, n + 1)

\* Who is asked in vain keeps the matching; who gets a location is given it, and all that
\* were matched keep one near them.
LEMMA ShiftedMatches ==
  ASSUME NEW E, IsFiniteSet(E), NEW R, NEW n \in Nat, NEW m, Matches(m, E, R, n),
         NEW q \in Seq(E), Asks(q, m, R, n), EndsFree(q, m), NEW t, t = Shifted(m, q, n)
  PROVE  /\ Matches(t, E, R, n + 1)
         /\ Cardinality(TakenIn(t, E)) = Cardinality(TakenIn(m, E)) + 1
         /\ StaysCertified(m, t, E, R, n)
<1>0. Len(q) \in Nat \ {0} /\ m[q[Len(q)]] = 0 /\ \A i \in 1..(Len(q) - 1) : m[q[i]] # 0
  BY DEF EndsFree
<1>1. m \in [E -> 0..n] /\ Distinct(q) /\ \A e \in E : m[e] \in 0..n
  BY DEF Matches, Asks
<1>L. PICK L : L = Len(q) /\ L \in Nat /\ L # 0 /\ DOMAIN q = 1..L
  BY <1>0
<1> DEFINE On(e) == \E i \in DOMAIN q : q[i] = e
           Source(i) == IF i = 1 THEN n + 1 ELSE m[q[i - 1]]
<1>2. /\ DOMAIN t = E
      /\ \A i \in DOMAIN q : t[q[i]] = Source(i)
      /\ \A e \in E : ~On(e) => t[e] = m[e]
  <2>1. ShiftsTo(t, m, q, n, E)
    BY <1>1, ShiftedAt
  <2> QED BY <2>1 DEF ShiftsTo
<1>3. \A i \in DOMAIN q : q[i] \in E
  <2>1. DOMAIN q = 1..Len(q)
    BY <1>L
  <2> QED BY <2>1, ElementOfSeq
<1>A. /\ 1 \in DOMAIN q /\ Source(1) = n + 1 /\ <<q[1], Source(1)>> \in R /\ Source(1) # 0
      /\ \A i \in DOMAIN q : i # 1 => Source(i) = m[q[i - 1]] /\ <<q[i], Source(i)>> \in R
      /\ \A i \in DOMAIN q : i # L => i + 1 \in DOMAIN q /\ Source(i + 1) = m[q[i]] /\ i + 1 # 1
  <2>1. 1 \in DOMAIN q /\ Source(1) = n + 1 /\ n + 1 # 0
    BY <1>L
  <2>2. <<q[1], Source(1)>> \in R
    BY <2>1 DEF Asks
  <2>3. ASSUME NEW i \in DOMAIN q, i # 1 PROVE Source(i) = m[q[i - 1]] /\ <<q[i], Source(i)>> \in R
    BY <2>3 DEF Asks
  <2>4. ASSUME NEW i \in DOMAIN q, i # L PROVE i + 1 \in DOMAIN q /\ Source(i + 1) = m[q[i]] /\ i + 1 # 1
    <3>1. i + 1 \in DOMAIN q /\ i + 1 # 1 /\ (i + 1) - 1 = i
      BY <1>L, <2>4
    <3> QED BY <3>1
  <2> HIDE DEF Source
  <2> QED BY <2>1, <2>2, <2>3, <2>4
<1> HIDE DEF Source
<1>B. ASSUME NEW i \in DOMAIN q, i # 1
      PROVE  i - 1 \in DOMAIN q /\ q[i - 1] \in E /\ m[q[i - 1]] \in 1..n
  <2>1. i - 1 \in DOMAIN q /\ i - 1 \in 1..(Len(q) - 1)
    BY <1>L, <1>B
  <2>2. q[i - 1] \in E /\ m[q[i - 1]] \in 0..n /\ m[q[i - 1]] # 0
    BY <1>0, <1>1, <1>3, <2>1
  <2> QED BY <2>1, <2>2
<1>4. ASSUME NEW i \in DOMAIN q
      PROVE  Source(i) \in 0..(n + 1) /\ Source(i) # 0 /\ <<q[i], Source(i)>> \in R /\ (i # 1 => Source(i) \in 1..n)
  <2>1. CASE i = 1
    BY <1>A, <2>1
  <2>2. CASE i # 1
    <3>1. Source(i) \in 1..n /\ <<q[i], Source(i)>> \in R
      BY <1>A, <1>B, <2>2
    <3> QED BY <3>1
  <2> QED BY <2>1, <2>2
<1>5. \A e \in E : On(e) => \E i \in DOMAIN q : e = q[i] /\ t[e] = Source(i)
  BY <1>2
<1> HIDE DEF On
<1>6. t \in [E -> 0..(n + 1)] /\ \A e \in E : t[e] # 0 => <<e, t[e]>> \in R
  <2>1. t = [e \in E |-> t[e]]
    BY <1>2 DEF Shifted
  <2>2. ASSUME NEW e \in E PROVE t[e] \in 0..(n + 1) /\ (t[e] # 0 => <<e, t[e]>> \in R)
    <3>1. CASE On(e)
      BY <1>4, <1>5, <3>1
    <3>2. CASE ~On(e)
      <4>1. t[e] = m[e] /\ m[e] \in 0..n
        BY <1>1, <1>2, <3>2
      <4> QED BY <4>1 DEF Matches
    <3> QED BY <3>1, <3>2
  <2> QED BY <2>1, <2>2
<1>7. ASSUME NEW e \in E, NEW f \in E, e # f, t[e] # 0 PROVE t[f] # t[e]
  <2>1. \A a, b \in E : m[a] # 0 /\ m[a] = m[b] => a = b
    BY DEF Matches
  <2>2. \A a \in E : m[a] \in 0..n
    BY <1>1
  <2>3. ASSUME NEW a \in E, NEW b \in E, On(a), ~On(b), t[a] = t[b] PROVE FALSE
    <3>1. PICK i \in DOMAIN q : a = q[i] /\ t[a] = Source(i)
      BY <1>5, <2>3
    <3>2. t[b] = m[b]
      BY <1>2, <2>3
    <3>3. CASE i = 1
      <4>1. Source(i) = n + 1
        BY <1>A, <3>3
      <4>2. m[b] \in 0..n /\ m[b] = n + 1
        BY <2>2, <2>3, <3>1, <3>2, <4>1
      <4> QED BY <4>2
    <3>4. CASE i # 1
      <4>1. q[i - 1] \in E /\ i - 1 \in DOMAIN q /\ m[q[i - 1]] = m[b] /\ m[b] # 0
        BY <1>A, <1>B, <1>4, <2>3, <3>1, <3>2, <3>4
      <4>2. q[i - 1] = b
        BY <2>1, <4>1
      <4> QED BY <2>3, <4>1, <4>2 DEF On
    <3> QED BY <3>3, <3>4
  <2>4. ASSUME On(e), On(f), t[e] = t[f] PROVE FALSE
    <3>1. PICK i \in DOMAIN q : e = q[i] /\ t[e] = Source(i)
      BY <1>5, <2>4
    <3>2. PICK j \in DOMAIN q : f = q[j] /\ t[f] = Source(j)
      BY <1>5, <2>4
    <3>3. i # j /\ Source(i) = Source(j) /\ i \in Nat /\ j \in Nat
      BY <1>L, <1>7, <2>4, <3>1, <3>2
    <3>4. CASE i # 1 /\ j # 1
      <4>0. /\ q[i - 1] \in E /\ m[q[i - 1]] \in 1..n /\ Source(i) = m[q[i - 1]]
            /\ q[j - 1] \in E /\ Source(j) = m[q[j - 1]]
        <5>1. q[i - 1] \in E /\ m[q[i - 1]] \in 1..n /\ Source(i) = m[q[i - 1]]
          BY <1>A, <1>B, <3>4
        <5>2. q[j - 1] \in E /\ Source(j) = m[q[j - 1]]
          BY <1>A, <1>B, <3>4
        <5> QED BY <5>1, <5>2
      <4>1. q[i - 1] = q[j - 1]
        <5>1. PICK a \in E : a = q[i - 1] /\ m[a] = Source(i) /\ m[a] # 0
          BY <4>0
        <5>2. PICK b \in E : b = q[j - 1] /\ m[b] = Source(j)
          BY <4>0
        <5>3. a = b
          BY <2>1, <3>3, <5>1, <5>2
        <5> QED BY <5>1, <5>2, <5>3
      <4>2. i - 1 = j - 1
        BY <1>1, <1>B, <3>4, <4>1 DEF Distinct
      <4> QED BY <3>3, <4>2
    <3>5. CASE i = 1 /\ j # 1
      <4>1. Source(i) = n + 1 /\ Source(j) \in 1..n
        BY <1>A, <1>4, <3>5
      <4> QED BY <3>3, <4>1
    <3>6. CASE j = 1 /\ i # 1
      <4>1. Source(j) = n + 1 /\ Source(i) \in 1..n
        BY <1>A, <1>4, <3>6
      <4> QED BY <3>3, <4>1
    <3> QED BY <3>3, <3>4, <3>5, <3>6
  <2>5. ASSUME ~On(e), ~On(f) PROVE t[f] # t[e]
    BY <1>2, <1>7, <2>1, <2>5
  <2> QED BY <2>3, <2>4, <2>5
<1>8. Matches(t, E, R, n + 1)
  BY <1>6, <1>7 DEF Matches
<1> DEFINE last == q[Len(q)]
<1>9. L \in DOMAIN q /\ last = q[L] /\ last \in E /\ m[last] = 0
  <2>1. L \in DOMAIN q
    BY <1>L
  <2> QED BY <1>0, <1>L, <1>3, <2>1
<1>10. TakenIn(t, E) = TakenIn(m, E) \cup {last} /\ last \notin TakenIn(m, E)
  <2>1. ASSUME NEW e \in E PROVE t[e] # 0 <=> m[e] # 0 \/ e = last
    <3>1. CASE On(e)
      <4>1. PICK i \in DOMAIN q : e = q[i] /\ t[e] = Source(i)
        BY <1>5, <3>1
      <4>2. t[e] # 0
        BY <1>4, <4>1
      <4>3. i = L \/ i \in 1..(Len(q) - 1)
        BY <1>L
      <4> QED BY <1>0, <1>9, <4>1, <4>2, <4>3
    <3>2. CASE ~On(e)
      BY <1>2, <1>9, <3>2 DEF On
    <3> QED BY <3>1, <3>2
  <2> HIDE DEF last
  <2> QED BY <1>9, <2>1 DEF TakenIn
<1>11. Cardinality(TakenIn(t, E)) = Cardinality(TakenIn(m, E)) + 1
  <2>1. TakenIn(m, E) \in SUBSET E
    BY DEF TakenIn
  <2>2. IsFiniteSet(TakenIn(m, E))
    BY <2>1, FS_Subset
  <2> HIDE DEF last
  <2> QED BY <1>10, <2>2, FS_AddElement
<1>12. ASSUME NEW C, Certifies(C, m, E, R, n) PROVE Certifies(C, t, E, R, n + 1)
  <2>1. C \in SUBSET (1..n)
    BY <1>12 DEF Certifies
  \* The calls never get to a location of C's: they would stay among those, all taken.
  <2>2. ASSUME NEW i \in DOMAIN q, m[q[i]] \in C PROVE FALSE
    <3> DEFINE T == {j \in 1..L : m[q[j]] \in C}
    <3>1. T \subseteq Nat /\ T # {} /\ \A j \in T : j <= L
      BY <1>L, <2>2
    <3>2. PICK k \in T : \A j \in T : j <= k
      <4> HIDE DEF T
      <4> QED BY <1>L, <3>1, GreatestOne
    <3>3. k \in 1..L /\ m[q[k]] \in C /\ m[q[k]] # 0
      BY <2>1
    <3>4. k # L
      BY <1>9, <3>3
    <3>5. k + 1 \in DOMAIN q /\ k + 1 # 1 /\ Source(k + 1) = m[q[k]]
      BY <1>A, <1>L, <3>3, <3>4
    <3>6. <<q[k + 1], m[q[k]]>> \in R
      BY <1>A, <3>5
    <3>7. m[q[k + 1]] \in C
      BY <1>3, <1>12, <3>3, <3>5, <3>6 DEF Certifies
    <3>8. k + 1 \in T
      BY <1>L, <3>5, <3>7
    <3>9. k \in Nat /\ k + 1 <= k
      BY <3>2, <3>3, <3>8
    <3> QED BY <3>9
  <2>3. ASSUME NEW e \in E, NEW p \in C, <<e, p>> \in R PROVE t[e] \in C
    <3>1. m[e] \in C
      BY <1>12, <2>3 DEF Certifies
    <3>2. ~On(e)
      BY <2>2, <3>1 DEF On
    <3> QED BY <1>2, <3>1, <3>2
  <2>4. ASSUME NEW p \in 1..(n + 1), p \notin C PROVE \E e \in E : t[e] = p
    <3>1. CASE p = n + 1
      <4>1. q[1] \in E /\ t[q[1]] = n + 1
        BY <1>2, <1>3, <1>A
      <4> QED BY <3>1, <4>1
    <3>2. CASE p \in 1..n
      <4>1. PICK e \in E : m[e] = p
        BY <1>12, <2>4, <3>2 DEF Certifies
      <4>2. CASE ~On(e)
        BY <1>2, <4>1, <4>2
      <4>3. CASE On(e)
        <5>1. PICK i \in DOMAIN q : q[i] = e
          BY <4>3 DEF On
        <5>2. i # L
          BY <1>9, <3>2, <4>1, <5>1
        <5>3. i + 1 \in DOMAIN q /\ Source(i + 1) = m[q[i]]
          BY <1>A, <5>1, <5>2
        <5>4. t[q[i + 1]] = p
          BY <1>2, <4>1, <5>1, <5>3
        <5> QED BY <1>3, <5>3, <5>4
      <4> QED BY <4>2, <4>3
    <3> QED BY <3>1, <3>2
  <2>5. C \in SUBSET (1..(n + 1))
    BY <2>1
  <2> QED BY <2>3, <2>4, <2>5 DEF Certifies
<1> QED BY <1>8, <1>11, <1>12 DEF StaysCertified
-----------------------------------------------------------------------------
\* What a call of assign looks for: locations near a prediction that was scored or is.
LEMMA Seeking ==
  ASSUME ScoringInv, scored < Len(predicted), ScoringAssumption
  PROVE  /\ Seeker \in 1..(scored + 1) /\ Candidates \subseteq (DOMAIN expected) \ visited
         /\ \A e \in DOMAIN expected : <<e, Seeker>> \in Nearby => e \in visited \cup Candidates
         /\ \A e \in Candidates : <<e, Seeker>> \in Nearby
         /\ chain # <<>> => chain[Len(chain)] \in visited /\ Seeker = matched[chain[Len(chain)]]
<1>1. /\ scored \in Nat /\ Len(predicted) \in Nat /\ DOMAIN predicted = 1..Len(predicted)
      /\ matched \in [DOMAIN expected -> 0..scored] /\ visited \in SUBSET (DOMAIN expected) /\ chain \in Seq(visited)
      /\ \A e \in visited : matched[e] # 0
  BY DEF ScoringInv, Matches, Seen
<1>2. chain # <<>> => chain[Len(chain)] \in visited /\ Seeker = matched[chain[Len(chain)]]
  <2>1. SUFFICES ASSUME chain # <<>> PROVE chain[Len(chain)] \in visited /\ Seeker = matched[chain[Len(chain)]]
    OBVIOUS
  <2>2. Len(chain) \in 1..Len(chain)
    BY <1>1, <2>1, EmptySeq
  <2>3. chain[Len(chain)] \in visited
    BY <1>1, <2>2, ElementOfSeq
  <2> QED BY <2>1, <2>3 DEF Seeker
<1>3. Seeker \in 1..(scored + 1)
  <2>1. CASE chain = <<>>
    BY <1>1, <2>1 DEF Seeker
  <2>2. CASE chain # <<>>
    <3>1. PICK e \in visited : Seeker = matched[e]
      BY <1>2, <2>2
    <3>2. matched[e] \in 0..scored /\ matched[e] # 0
      BY <1>1
    <3> QED BY <1>1, <3>1, <3>2
  <2> QED BY <2>1, <2>2
<1>4. Seeker \in DOMAIN predicted
  BY <1>1, <1>3
<1>5. Candidates \subseteq (DOMAIN expected) \ visited /\ \A e \in Candidates : Near(e, Seeker)
  BY DEF Candidates
<1>6. \A e \in DOMAIN expected : <<e, Seeker>> \in Nearby <=> Near(e, Seeker)
  BY <1>4, Zenon DEF Nearby
<1>7. \A e \in DOMAIN expected : Near(e, Seeker) => e \in visited \cup Candidates
  BY DEF Candidates
<1> QED BY <1>2, <1>3, <1>5, <1>6, <1>7

\* A location that is asked for now was not before.
LEMMA NextLocation ==
  ASSUME ScoringInv, scored < Len(predicted), ScoringAssumption, Candidates # {}, NEW e, e = First(Candidates),
         NEW q, q = Append(chain, e)
  PROVE  /\ e \in DOMAIN expected /\ e \notin visited
         /\ q \in Seq(visited \cup {e}) /\ q \in Seq(DOMAIN expected) /\ Len(q) \in Nat \ {0} /\ q[Len(q)] = e
         /\ \A i \in DOMAIN chain : i \in DOMAIN q /\ q[i] = chain[i]
         /\ \A i \in 1..(Len(q) - 1) : q[i] \in visited
         /\ Asks(q, matched, Nearby, scored)
<1>1. /\ visited \in SUBSET (DOMAIN expected) /\ chain \in Seq(visited) /\ Distinct(chain)
      /\ Asks(chain, matched, Nearby, scored) /\ DOMAIN expected = 1..Len(expected) /\ Len(expected) \in Nat
  <2>1. /\ expected \in Seq(ExpectedFindings) /\ Asks(chain, matched, Nearby, scored)
        /\ Seen(chain, visited, matched, DOMAIN expected, Nearby)
    BY Zenon DEF ScoringInv
  <2>2. visited \in SUBSET (DOMAIN expected) /\ chain \in Seq(visited) /\ Distinct(chain)
    BY <2>1, Zenon DEF Asks, Seen
  <2> QED BY <2>1, <2>2
<1>2. e \in Candidates
  <2>1. Candidates \subseteq Nat /\ Candidates # {}
    BY <1>1, Seeking
  <2>2. \E x \in Candidates : \A f \in Candidates : x <= f
    BY <2>1, LeastOne
  <2> QED BY <2>2, Zenon DEF First
<1>3. e \in DOMAIN expected /\ e \notin visited /\ <<e, Seeker>> \in Nearby
  BY <1>2, Seeking
<1>4. PICK k : k = Len(chain) /\ k \in Nat /\ DOMAIN chain = 1..k
  BY <1>1
<1>5. q \in Seq(visited \cup {e}) /\ q \in Seq(DOMAIN expected)
  <2>1. chain \in Seq(visited \cup {e}) /\ chain \in Seq(DOMAIN expected)
    BY <1>1, <1>3
  <2> QED BY <1>3, <2>1
<1>6. Len(q) = k + 1 /\ q[k + 1] = e /\ DOMAIN q = 1..(k + 1) /\ \A i \in 1..k : q[i] = chain[i]
  BY <1>1, <1>4
<1>7. \A i \in 1..k : chain[i] \in visited
  BY <1>1, <1>4, ElementOfSeq
<1>8. Distinct(q)
  <2>1. ASSUME NEW i \in 1..(k + 1), NEW j \in 1..(k + 1), q[i] = q[j] PROVE i = j
    <3>1. i \in 1..k \/ i = k + 1
      BY <1>4
    <3>2. j \in 1..k \/ j = k + 1
      BY <1>4
    <3>3. CASE i \in 1..k /\ j \in 1..k
      BY <1>1, <1>4, <1>6, <2>1, <3>3 DEF Distinct
    <3>4. CASE i \in 1..k /\ j = k + 1
      BY <1>3, <1>6, <1>7, <2>1, <3>4
    <3>5. CASE j \in 1..k /\ i = k + 1
      BY <1>3, <1>6, <1>7, <2>1, <3>5
    <3> QED BY <3>1, <3>2, <3>3, <3>4, <3>5
  <2> QED BY <1>6, <2>1 DEF Distinct
<1>9. ASSUME NEW i \in DOMAIN q
      PROVE IF i = 1 THEN <<q[1], scored + 1>> \in Nearby ELSE <<q[i], matched[q[i - 1]]>> \in Nearby
  <2>1. CASE i \in 1..k
    <3>1. IF i = 1 THEN <<chain[1], scored + 1>> \in Nearby ELSE <<chain[i], matched[chain[i - 1]]>> \in Nearby
      BY <1>1, <1>4, <2>1 DEF Asks
    <3>2. q[i] = chain[i]
      BY <1>6, <2>1
    <3>3. i # 1 => q[i - 1] = chain[i - 1]
      BY <1>4, <1>6, <2>1
    <3> QED BY <3>1, <3>2, <3>3
  <2>2. CASE i = k + 1 /\ k = 0
    <3>1. Seeker = scored + 1
      BY <1>1, <1>4, <2>2, EmptySeq DEF Seeker
    <3> QED BY <1>3, <1>6, <2>2, <3>1
  <2>3. CASE i = k + 1 /\ k # 0
    <3>1. i # 1 /\ i - 1 = k /\ k \in 1..k
      BY <1>4, <2>3
    <3>2. chain # <<>>
      BY <1>4, <2>3
    <3>3. Seeker = matched[chain[k]]
      BY <1>4, <3>2, Seeking
    <3> QED BY <1>3, <1>6, <2>3, <3>1, <3>3
  <2>4. i \in 1..k \/ i = k + 1
    BY <1>4, <1>6
  <2> QED BY <2>1, <2>2, <2>3, <2>4
<1>10. Asks(q, matched, Nearby, scored)
  BY <1>8, <1>9 DEF Asks
<1>11. /\ Len(q) \in Nat \ {0} /\ q[Len(q)] = e
       /\ \A i \in DOMAIN chain : i \in DOMAIN q /\ q[i] = chain[i]
  BY <1>4, <1>6
<1>12. \A i \in 1..(Len(q) - 1) : q[i] \in visited
  BY <1>4, <1>6, <1>7
<1> QED BY <1>3, <1>5, <1>10, <1>11, <1>12

\* A prediction that finds no location leaves the matching a maximum: it, and who was
\* asked for it, reach none but the locations seen.
LEMMA UnassignedCertifies ==
  ASSUME ScoringInv, scored < Len(predicted), ScoringAssumption, Candidates = {}, chain = <<>>
  PROVE  \E C \in SUBSET (1..(scored + 1)) : Certifies(C, matched, DOMAIN expected, Nearby, scored + 1)
<1>1. /\ scored \in Nat /\ matched \in [DOMAIN expected -> 0..scored] /\ visited \in SUBSET (DOMAIN expected)
      /\ \A e \in visited : matched[e] # 0
  BY DEF ScoringInv, Matches, Seen
<1>2. PICK C \in SUBSET (1..scored) : Certifies(C, matched, DOMAIN expected, Nearby, scored)
  BY DEF ScoringInv
<1>3. \A e \in DOMAIN expected : <<e, scored + 1>> \in Nearby => e \in visited
  BY Seeking DEF Seeker
<1>4. \A v \in visited, f \in DOMAIN expected : <<f, matched[v]>> \in Nearby => f \in visited
  <2>1. Seen(chain, visited, matched, DOMAIN expected, Nearby)
    BY DEF ScoringInv
  <2>2. DOMAIN chain = {}
    OBVIOUS
  <2> QED BY <2>1, <2>2 DEF Seen
<1> DEFINE D == C \cup {scored + 1} \cup {matched[v] : v \in visited}
<1>5. D \in SUBSET (1..(scored + 1))
  <2>1. ASSUME NEW v \in visited PROVE matched[v] \in 1..(scored + 1)
    <3>1. matched[v] \in 0..scored /\ matched[v] # 0
      BY <1>1
    <3> QED BY <1>1, <3>1
  <2>2. C \subseteq 1..(scored + 1) /\ scored + 1 \in 1..(scored + 1)
    BY <1>1
  <2> QED BY <2>1, <2>2
<1>6. ASSUME NEW p \in 1..(scored + 1), p \notin D PROVE \E e \in DOMAIN expected : matched[e] = p
  <2>1. p \in 1..scored /\ p \notin C
    BY <1>1, <1>6
  <2> QED BY <1>2, <2>1 DEF Certifies
<1>7. ASSUME NEW e \in DOMAIN expected, NEW p \in D, <<e, p>> \in Nearby PROVE matched[e] \in D
  <2>1. CASE p \in C
    BY <1>2, <1>7, <2>1 DEF Certifies
  <2>2. CASE p \notin C
    <3>1. e \in visited
      BY <1>3, <1>4, <1>7, <2>2
    <3> QED BY <3>1
  <2> QED BY <2>1, <2>2
<1> HIDE DEF D
<1> QED BY <1>5, <1>6, <1>7 DEF Certifies

LEMMA InitScoring ==
  ASSUME ScoringInit, ScoringAssumption PROVE ScoringInv
<1>1. expected \in Seq(ExpectedFindings) /\ predicted \in Seq(Predictions)
  BY DEF ScoringInit, FindingLists, ScoringAssumption
<1>2. matched = [e \in DOMAIN expected |-> 0] /\ scored = 0 /\ located = 0 /\ chain = <<>> /\ visited = {} /\ misplaced = {}
  BY DEF ScoringInit
<1>3. scored \in 0..Len(predicted) /\ Matches(matched, DOMAIN expected, Nearby, scored)
  BY <1>1, <1>2 DEF Matches
<1>4. located = Cardinality(TakenIn(matched, DOMAIN expected))
  <2>1. TakenIn(matched, DOMAIN expected) = {}
    BY <1>2 DEF TakenIn
  <2> QED BY <1>2, <2>1, FS_EmptySet
<1>5. {} \in SUBSET (1..scored) /\ Certifies({}, matched, DOMAIN expected, Nearby, scored)
  <2>1. 1..scored = {}
    BY <1>2
  <2> QED BY <2>1 DEF Certifies
<1>6. Asks(chain, matched, Nearby, scored) /\ Seen(chain, visited, matched, DOMAIN expected, Nearby)
  <2>1. DOMAIN chain = {} /\ chain \in Seq(visited)
    BY <1>2
  <2> QED BY <1>2, <2>1 DEF Asks, Distinct, Seen
<1>7. MissedApart
  BY <1>2 DEF MissedApart
<1> QED BY <1>1, <1>3, <1>4, <1>5, <1>6, <1>7 DEF ScoringInv

\* Pairing the prediction that was scored: it is alike to nothing that is left, or it takes it.
LEMMA PairKeepsApart ==
  ASSUME ScoringInv, UNCHANGED <<expected, predicted>>, Pair(scored + 1) PROVE MissedApart'
<1> DEFINE left == {e \in DOMAIN expected : Alike(e, scored + 1) /\ \A q \in pairs : q[1] # e}
<1>1. \A e \in DOMAIN expected, p \in misplaced : Alike(e, p) => \E q \in pairs : q[1] = e
  BY DEF ScoringInv, MissedApart
<1>2. \/ left = {} /\ misplaced' = misplaced \cup {scored + 1} /\ pairs' = pairs
      \/ pairs \subseteq pairs' /\ misplaced' = misplaced
  BY DEF Pair
<1>3. \A e, p : Alike(e, p)' <=> Alike(e, p)
  BY DEF Alike, FindingsMatch, PrimaryMatch
<1>4. ASSUME NEW e \in DOMAIN expected, NEW p \in misplaced', Alike(e, p) PROVE \E q \in pairs' : q[1] = e
  <2>1. CASE p \in misplaced
    <3>1. PICK q \in pairs : q[1] = e
      BY <1>1, <1>4, <2>1
    <3> QED BY <1>2, <3>1
  <2>2. CASE p \notin misplaced
    <3>1. left = {} /\ p = scored + 1 /\ pairs' = pairs
      BY <1>2, <1>4, <2>2
    <3> QED BY <1>4, <3>1
  <2> QED BY <2>1, <2>2
<1> QED BY <1>3, <1>4 DEF MissedApart

LEMMA ScoringStep ==
  ASSUME ScoringInv, ScoringNext, ScoringAssumption PROVE ScoringInv'
<1>1. scored < Len(predicted) /\ expected' = expected /\ predicted' = predicted
  BY DEF ScoringNext, AskOwner, GiveUp, Assign, Unassigned, Searching
<1>2. /\ expected \in Seq(ExpectedFindings) /\ predicted \in Seq(Predictions) /\ scored \in Nat /\ Len(predicted) \in Nat
      /\ scored + 1 \in 0..Len(predicted) /\ scored \in 0..Len(predicted)
  BY <1>1 DEF ScoringInv
<1>3. PICK E, R : E = DOMAIN expected /\ R = Nearby
  OBVIOUS
<1>4. DOMAIN expected' = E /\ Nearby' = R /\ IsFiniteSet(E)
  <2>1. E = 1..Len(expected) /\ Len(expected) \in Nat
    BY <1>2, <1>3
  <2>2. Nearby' = R
    BY <1>1, <1>3 DEF Nearby, Near
  <2> QED BY <1>1, <1>3, <2>1, <2>2, CountUpTo
<1>5. /\ Matches(matched, E, R, scored) /\ located = Cardinality(TakenIn(matched, E))
      /\ \E C \in SUBSET (1..scored) : Certifies(C, matched, E, R, scored)
      /\ Asks(chain, matched, R, scored) /\ Seen(chain, visited, matched, E, R) /\ MissedApart
  BY <1>3, Zenon DEF ScoringInv
<1>6. visited \in SUBSET E /\ chain \in Seq(visited) /\ \A e \in visited : matched[e] # 0
  BY <1>5 DEF Seen
\* The chain is asked, and the matching as it was.
<1>7. ASSUME UNCHANGED <<scored, matched, located, pairs, misplaced>>,
             Asks(chain', matched, R, scored), Seen(chain', visited', matched, E, R)
      PROVE  ScoringInv'
  <2>1. MissedApart'
    BY <1>1, <1>5, <1>7 DEF MissedApart, Alike, FindingsMatch, PrimaryMatch
  <2> QED BY <1>1, <1>2, <1>3, <1>4, <1>5, <1>7, <2>1 DEF ScoringInv
\* The prediction is scored, and the matching is one of one more.
<1>8. ASSUME scored' = scored + 1, chain' = <<>>, visited' = {}, Pair(scored + 1),
             Matches(matched', E, R, scored + 1), located' = Cardinality(TakenIn(matched', E)),
             \E C \in SUBSET (1..(scored + 1)) : Certifies(C, matched', E, R, scored + 1)
      PROVE  ScoringInv'
  <2>1. MissedApart'
    BY <1>1, <1>8, PairKeepsApart
  <2>2. Asks(chain', matched', R, scored + 1) /\ Seen(chain', visited', matched', E, R)
    <3>1. DOMAIN chain' = {} /\ chain' \in Seq(visited')
      BY <1>8
    <3> QED BY <1>8, <3>1 DEF Asks, Distinct, Seen
  <2> QED BY <1>1, <1>2, <1>4, <1>8, <2>1, <2>2 DEF ScoringInv
<1>9. CASE AskOwner
  <2>1. PICK e, q : e = First(Candidates) /\ q = Append(chain, e)
    OBVIOUS
  <2>2. /\ Candidates # {} /\ matched[e] # 0 /\ chain' = q /\ visited' = visited \cup {e}
        /\ UNCHANGED <<scored, matched, located, pairs, misplaced>>
    BY <1>9, <2>1 DEF AskOwner
  <2>3. /\ e \in E /\ q \in Seq(visited \cup {e}) /\ Len(q) \in Nat \ {0} /\ q[Len(q)] = e
        /\ \A i \in DOMAIN chain : i \in DOMAIN q /\ q[i] = chain[i]
        /\ Asks(q, matched, R, scored)
    BY <1>1, <1>3, <2>1, <2>2, NextLocation
  <2>4. ASSUME NEW f \in visited \cup {e}
        PROVE  matched[f] # 0 /\ ((\E i \in DOMAIN q : q[i] = f) \/ \A g \in E : <<g, matched[f]>> \in R => g \in visited \cup {e})
    <3>1. CASE f = e
      <4>1. Len(q) \in DOMAIN q
        BY <2>3
      <4> QED BY <2>2, <2>3, <3>1, <4>1
    <3>2. CASE f \in visited
      <4>1. (\E i \in DOMAIN chain : chain[i] = f) \/ \A g \in E : <<g, matched[f]>> \in R => g \in visited
        BY <1>5, <3>2 DEF Seen
      <4> QED BY <1>6, <2>3, <3>2, <4>1
    <3> QED BY <3>1, <3>2
  <2>5. Seen(q, visited \cup {e}, matched, E, R)
    BY <1>6, <2>3, <2>4 DEF Seen
  <2> QED BY <1>7, <2>2, <2>3, <2>5
<1>10. CASE GiveUp
  <2>1. PICK k, q : k = Len(chain) /\ q = SubSeq(chain, 1, k - 1)
    OBVIOUS
  <2>2. /\ Candidates = {} /\ chain # <<>> /\ chain' = q /\ visited' = visited
        /\ UNCHANGED <<scored, matched, located, pairs, misplaced>>
    BY <1>10, <2>1 DEF GiveUp
  <2>3. k \in Nat \ {0} /\ DOMAIN chain = 1..k
    BY <1>6, <2>1, <2>2, EmptySeq
  <2>4. q \in Seq(visited) /\ DOMAIN q = 1..(k - 1) /\ \A i \in 1..(k - 1) : q[i] = chain[i]
    <3>1. 1..(k - 1) \subseteq DOMAIN chain
      BY <2>3
    <3>2. \A i \in 1..(k - 1) : chain[i] \in visited
      BY <1>6, <3>1, <2>3, <2>1, ElementOfSeq
    <3>3. q = [i \in 1..(k - 1) |-> chain[i]]
      BY <1>6, <2>1, <2>3, <3>1
    <3> QED BY <2>3, <3>2, <3>3
  <2>5. Asks(q, matched, R, scored)
    <3>1. Distinct(q)
      BY <1>5, <2>3, <2>4 DEF Asks, Distinct
    <3>2. ASSUME NEW i \in DOMAIN q
          PROVE IF i = 1 THEN <<q[1], scored + 1>> \in R ELSE <<q[i], matched[q[i - 1]]>> \in R
      <4>1. i \in DOMAIN chain /\ q[i] = chain[i] /\ (i # 1 => q[i - 1] = chain[i - 1])
        BY <2>3, <2>4
      <4>2. IF i = 1 THEN <<chain[1], scored + 1>> \in R ELSE <<chain[i], matched[chain[i - 1]]>> \in R
        BY <1>5, <4>1 DEF Asks
      <4> QED BY <4>1, <4>2
    <3> QED BY <3>1, <3>2 DEF Asks
  <2>6. ASSUME NEW f \in visited
        PROVE  matched[f] # 0 /\ ((\E i \in DOMAIN q : q[i] = f) \/ \A g \in E : <<g, matched[f]>> \in R => g \in visited)
    <3>1. CASE f = chain[k]
      <4>1. matched[f] = Seeker
        BY <2>1, <2>2, <3>1, <1>1, Seeking
      <4>2. \A g \in E : <<g, Seeker>> \in R => g \in visited
        BY <1>1, <1>3, <2>2, Seeking
      <4> QED BY <1>6, <4>1, <4>2
    <3>2. CASE f # chain[k]
      <4>1. (\E i \in DOMAIN chain : chain[i] = f) \/ \A g \in E : <<g, matched[f]>> \in R => g \in visited
        BY <1>5 DEF Seen
      <4>2. ASSUME NEW i \in DOMAIN chain, chain[i] = f PROVE i \in DOMAIN q /\ q[i] = f
        <5>1. i \in 1..(k - 1)
          BY <2>3, <3>2, <4>2
        <5> QED BY <2>4, <4>2, <5>1
      <4> QED BY <1>6, <4>1, <4>2
    <3> QED BY <3>1, <3>2
  <2>7. Seen(q, visited, matched, E, R)
    BY <1>6, <2>4, <2>6 DEF Seen
  <2> QED BY <1>7, <2>2, <2>5, <2>7
<1>11. CASE Assign
  <2>1. PICK e, q : e = First(Candidates) /\ q = Append(chain, e)
    OBVIOUS
  <2>2. PICK t : t = Shifted(matched, q, scored)
    OBVIOUS
  <2>3. /\ Candidates # {} /\ matched[e] = 0 /\ located' = located + 1
        /\ scored' = scored + 1 /\ chain' = <<>> /\ visited' = {} /\ Pair(scored + 1)
        /\ matched' = Reassigned(q)
    BY <1>11, <2>1 DEF Assign, Score
  <2>4. DOMAIN matched = E
    BY <1>5 DEF Matches
  <2>5. matched' = t
    BY <1>3, <2>2, <2>3, <2>4, Zenon DEF Reassigned, Shifted
  <2>6. /\ q \in Seq(E) /\ Len(q) \in Nat \ {0} /\ q[Len(q)] = e /\ Asks(q, matched, R, scored)
        /\ \A i \in 1..(Len(q) - 1) : q[i] \in visited
    BY <1>1, <1>3, <2>1, <2>3, NextLocation
  <2>7. /\ Matches(t, E, R, scored + 1) /\ StaysCertified(matched, t, E, R, scored)
        /\ Cardinality(TakenIn(t, E)) = Cardinality(TakenIn(matched, E)) + 1
    <3>1. EndsFree(q, matched)
      BY <1>6, <2>3, <2>6 DEF EndsFree
    <3> QED BY <1>2, <1>4, <1>5, <2>2, <2>6, <3>1, ShiftedMatches
  <2>8. \E C \in SUBSET (1..(scored + 1)) : Certifies(C, t, E, R, scored + 1)
    <3>1. PICK C \in SUBSET (1..scored) : Certifies(C, matched, E, R, scored)
      BY <1>5
    <3>2. Certifies(C, t, E, R, scored + 1)
      BY <2>7, <3>1 DEF StaysCertified
    <3> QED BY <3>2 DEF Certifies
  <2> QED BY <1>5, <1>8, <2>3, <2>5, <2>7, <2>8
<1>12. CASE Unassigned
  <2>1. /\ Candidates = {} /\ chain = <<>> /\ matched' = matched /\ located' = located
        /\ scored' = scored + 1 /\ chain' = <<>> /\ visited' = {} /\ Pair(scored + 1)
    BY <1>12 DEF Unassigned, Score
  <2>2. Matches(matched, E, R, scored + 1)
    <3>1. matched \in [E -> 0..scored] /\ 0..scored \subseteq 0..(scored + 1)
      BY <1>2, <1>5 DEF Matches
    <3>2. matched \in [E -> 0..(scored + 1)]
      BY <3>1
    <3> QED BY <1>5, <3>2 DEF Matches
  <2>3. \E C \in SUBSET (1..(scored + 1)) : Certifies(C, matched, E, R, scored + 1)
    BY <1>1, <1>3, <2>1, UnassignedCertifies
  <2> QED BY <1>5, <1>8, <2>1, <2>2, <2>3
<1> QED BY <1>9, <1>10, <1>11, <1>12 DEF ScoringNext

\* What the code reports is a maximum, by the certificate of the invariant.
LEMMA ScoringInvMatches ==
  ASSUME ScoringInv PROVE MatchingIsMaximum
<1>1. PICK E, R : E = DOMAIN expected /\ R = Nearby
  OBVIOUS
<1>2. /\ Matches(matched, E, R, scored) /\ located = Cardinality(TakenIn(matched, E)) /\ MissedApart
      /\ expected \in Seq(ExpectedFindings) /\ predicted \in Seq(Predictions) /\ scored \in 0..Len(predicted)
  BY <1>1, Zenon DEF ScoringInv
<1>3. scored \in Nat /\ Len(predicted) \in Nat /\ DOMAIN predicted = 1..Len(predicted)
  BY <1>2
<1>4. PICK C : Certifies(C, matched, E, R, scored)
  BY <1>1, Zenon DEF ScoringInv
<1>5. IsFiniteSet(E)
  <2>1. E = 1..Len(expected) /\ Len(expected) \in Nat
    BY <1>1, <1>2
  <2> QED BY <2>1, CountUpTo
<1>6. \A e \in E, p \in 1..scored : <<e, p>> \in R <=> Near(e, p)
  <2>1. 1..scored \subseteq DOMAIN predicted
    BY <1>2, <1>3
  <2> QED BY <1>1, <2>1, Zenon DEF Nearby
<1>7. ASSUME NEW S \in SUBSET (1..scored) PROVE Reach(S) = ReachOf(S, E, R)
  BY <1>1, <1>6 DEF Reach, ReachOf
<1>8. located = Maximum
  <2>1. \A S \in SUBSET (1..scored) : Cardinality(Reach(S)) + scored - Cardinality(S) = Shows(S, E, R, scored)
    BY <1>7 DEF Shows
  <2>2. {Cardinality(Reach(S)) + scored - Cardinality(S) : S \in SUBSET (1..scored)} = {Shows(S, E, R, scored) : S \in SUBSET (1..scored)}
    BY <2>1
  <2>3. Cardinality(TakenIn(matched, E)) = First({Shows(S, E, R, scored) : S \in SUBSET (1..scored)})
    BY <1>2, <1>3, <1>4, <1>5, CertifiedIsMaximum
  <2> QED BY <1>2, <2>2, <2>3 DEF Maximum
<1>9. \A e \in E : matched[e] # 0 => Near(e, matched[e]) /\ \A f \in E \ {e} : matched[f] # matched[e]
  <2>1. \A e \in E : matched[e] # 0 => <<e, matched[e]>> \in R /\ \A f \in E \ {e} : matched[f] # matched[e]
    BY <1>2 DEF Matches
  <2>2. \A e \in E : \A p : <<e, p>> \in R => Near(e, p)
    BY <1>1, Zenon DEF Nearby
  <2> QED BY <2>1, <2>2
<1> QED BY <1>1, <1>2, <1>8, <1>9 DEF MatchingIsMaximum, TakenIn, MissedApart
-----------------------------------------------------------------------------
\* The matching after every prediction, with the calls of assign in between, keeps its
\* certificate: a set of predictions that reach matched locations only (countLocationMatches).
THEOREM ScoringInvariant == ScoringSpec => []ScoringInv
<1>1. ScoringInit => ScoringInv
  BY InitScoring, ScoringAssumption
<1>2. ScoringInv /\ [ScoringNext]_scoringVars => ScoringInv'
  <2>1. SUFFICES ASSUME ScoringInv, scoringVars' = scoringVars PROVE ScoringInv'
    BY ScoringStep, ScoringAssumption
  <2> QED BY <2>1 DEF scoringVars, ScoringInv, MissedApart, Alike, FindingsMatch, PrimaryMatch, Nearby, Near
<1> QED BY <1>1, <1>2, PTL DEF ScoringSpec

\* After each prediction the locations counted are as many as any one-to-one matching has,
\* and what is reported as missed has no match among the false positives.
THEOREM MatchingMaximality == ScoringSpec => []MatchingIsMaximum
<1>1. ScoringInv => MatchingIsMaximum
  BY ScoringInvMatches
<1> QED BY <1>1, ScoringInvariant, PTL
=============================================================================
