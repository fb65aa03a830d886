------------------------------ MODULE TraceProofs ------------------------------
(***************************************************************************)
(* What the stores of traces keep, for every set of runs, items and        *)
(* queries; and what a saved trace, its evaluation and its replay agree    *)
(* on, for every set of items, specifications and comparisons.             *)
(***************************************************************************)
EXTENDS TraceReplay, ListLemmas

-----------------------------------------------------------------------------
(* Numbers of elements, and lists with the same elements.                   *)

\* What holds of the empty list, and of a list with one element more, holds of every list.
LEMMA ListInduction ==
  ASSUME NEW S, NEW Good, << >> \in Good,
         \A s \in Seq(S) : \A x \in S : s \in Good => Append(s, x) \in Good
  PROVE  \A s \in Seq(S) : s \in Good
<1> DEFINE Fine == {n \in Nat : \A s \in Seq(S) : Len(s) = n => s \in Good}
<1>1. 0 \in Fine
  <2>1. \A s \in Seq(S) : Len(s) = 0 => s = << >>
    OBVIOUS
  <2> QED
    BY <2>1
<1>2. ASSUME NEW n \in Nat, n \in Fine PROVE n + 1 \in Fine
  <2> SUFFICES ASSUME NEW s \in Seq(S), Len(s) = n + 1 PROVE s \in Good
    OBVIOUS
  <2> DEFINE front == SubSeq(s, 1, n)
  <2>1. /\ front \in Seq(S) /\ Len(front) = n /\ s[n + 1] \in S
        /\ \A i \in 1..n : front[i] = s[i]
    BY <1>2
  <2> HIDE DEF front
  <2>2. s = Append(front, s[n + 1])
    BY <2>1, AppendIs
  <2>3. front \in Good
    BY <1>2, <2>1
  <2> QED
    BY <2>1, <2>2, <2>3
<1> HIDE DEF Fine
<1>3. Nat \subseteq Fine
  BY <1>1, <1>2, Induction
<1>4. \A s \in Seq(S) : Len(s) \in Nat
  OBVIOUS
<1> QED
  BY <1>3, <1>4 DEF Fine

\* How many elements of a list are in K.
Number(s, K) == Cardinality({i \in DOMAIN s : s[i] \in K})

LEMMA NumberType ==
  ASSUME NEW S, NEW s \in Seq(S), NEW K
  PROVE  IsFiniteSet({i \in DOMAIN s : s[i] \in K}) /\ Number(s, K) \in Nat
<1>1. Len(s) \in Nat /\ DOMAIN s = 1..Len(s)
  OBVIOUS
<1>2. IsFiniteSet(1..Len(s))
  BY <1>1, FS_Interval
<1>3. IsFiniteSet({i \in DOMAIN s : s[i] \in K})
  BY <1>1, <1>2, FS_Subset
<1> QED
  BY <1>3, FS_CardinalityType DEF Number

LEMMA NumberAppend ==
  ASSUME NEW S, NEW s \in Seq(S), NEW x \in S, NEW K
  PROVE  /\ Number(<< >>, K) = 0
         /\ Number(Append(s, x), K) = Number(s, K) + IF x \in K THEN 1 ELSE 0
<1>1. Number(<< >>, K) = 0
  <2>1. {i \in DOMAIN << >> : << >>[i] \in K} = {}
    OBVIOUS
  <2> QED
    BY <2>1, FS_EmptySet DEF Number
<1> DEFINE t == Append(s, x)
           I == {i \in DOMAIN s : s[i] \in K}
           J == {i \in DOMAIN t : t[i] \in K}
           n == Len(s)
<1>2. /\ n \in Nat /\ DOMAIN s = 1..n /\ DOMAIN t = 1..(n + 1)
      /\ t[n + 1] = x /\ \A i \in 1..n : t[i] = s[i]
  OBVIOUS
<1>3. IsFiniteSet(I) /\ Cardinality(I) \in Nat /\ n + 1 \notin I
  <2>1. IsFiniteSet(I)
    BY NumberType
  <2>2. Cardinality(I) \in Nat
    BY <2>1, FS_CardinalityType
  <2>3. n + 1 \notin I
    BY <1>2
  <2> QED
    BY <2>1, <2>2, <2>3
<1>4. CASE x \in K
  <2>1. J = I \cup {n + 1}
    <3> HIDE DEF t, n
    <3>1. \A i : i \in 1..(n + 1) <=> i \in 1..n \/ i = n + 1
      BY <1>2
    <3> QED
      BY <1>2, <1>4, <3>1
  <2>2. Cardinality(J) = Cardinality(I) + 1
    <3> HIDE DEF I, J
    <3> QED
      BY <1>3, <2>1, FS_AddElement
  <2> QED
    BY <1>1, <1>4, <2>2 DEF Number
<1>5. CASE x \notin K
  <2>1. J = I
    <3> HIDE DEF t, n
    <3>1. \A i : i \in 1..(n + 1) <=> i \in 1..n \/ i = n + 1
      BY <1>2
    <3> QED
      BY <1>2, <1>5, <3>1
  <2>2. Number(s, K) = Cardinality(I) /\ Number(t, K) = Cardinality(J)
    BY Zenon DEF Number
  <2> HIDE DEF I, J, t
  <2>3. Number(t, K) = Number(s, K) + 0
    BY <1>3, <2>1, <2>2
  <2> QED
    BY <1>1, <1>5, <2>3 DEF t
<1> QED
  BY <1>4, <1>5

\* A list behind another: what is in the two is in the list of both.
LEMMA NumberConcat ==
  ASSUME NEW S, NEW s \in Seq(S), NEW u \in Seq(S), NEW K
  PROVE  Number(s \o u, K) = Number(s, K) + Number(u, K)
<1> DEFINE Good == {v \in Seq(S) : Number(s \o v, K) = Number(s, K) + Number(v, K)}
<1>1. << >> \in Good
  <2>1. s \o << >> = s /\ << >> \in Seq(S)
    OBVIOUS
  <2>2. Number(<< >>, K) = 0 /\ Number(s, K) \in Nat
    <3>1. CASE S = {}
      <4>1. s = << >>
        <5>1. Len(s) \in Nat /\ \A i \in 1..Len(s) : s[i] \in S
          OBVIOUS
        <5>2. Len(s) = 0
          BY <3>1, <5>1
        <5> QED
          BY <5>2
      <4>2. {i \in DOMAIN << >> : << >>[i] \in K} = {}
        OBVIOUS
      <4> QED
        BY <4>1, <4>2, FS_EmptySet DEF Number
    <3>2. CASE S # {}
      BY <3>2, NumberAppend, NumberType
    <3> QED
      BY <3>1, <3>2
  <2> QED
    BY <2>1, <2>2
<1>2. ASSUME NEW v \in Seq(S), NEW x \in S, v \in Good PROVE Append(v, x) \in Good
  <2>1. s \o v \in Seq(S) /\ Append(v, x) \in Seq(S) /\ Append(s \o v, x) \in Seq(S)
    OBVIOUS
  <2>2. s \o Append(v, x) = Append(s \o v, x)
    <3> DEFINE q == s \o Append(v, x)
    <3>1. /\ q \in Seq(S) /\ Len(q) = Len(s \o v) + 1 /\ q[Len(s \o v) + 1] = x
          /\ \A i \in 1..Len(s \o v) : q[i] = (s \o v)[i]
      OBVIOUS
    <3> HIDE DEF q
    <3>2. q = Append(s \o v, x)
      BY <2>1, <3>1, AppendIs
    <3> QED
      BY <3>2 DEF q
  <2>3. /\ Number(Append(s \o v, x), K) = Number(s \o v, K) + IF x \in K THEN 1 ELSE 0
        /\ Number(Append(v, x), K) = Number(v, K) + IF x \in K THEN 1 ELSE 0
    <3>1. PICK w \in Seq(S) : w = s \o v
      BY <2>1
    <3>2. Number(Append(w, x), K) = Number(w, K) + IF x \in K THEN 1 ELSE 0
      BY NumberAppend
    <3>3. Number(Append(v, x), K) = Number(v, K) + IF x \in K THEN 1 ELSE 0
      BY NumberAppend
    <3> QED
      BY <3>1, <3>2, <3>3
  <2>4. Number(s, K) \in Nat /\ Number(v, K) \in Nat
    BY NumberType
  <2>5. Number(s \o v, K) = Number(s, K) + Number(v, K)
    BY <1>2
  <2>6. Number(s \o Append(v, x), K) = Number(s, K) + Number(Append(v, x), K)
    BY <2>2, <2>3, <2>4, <2>5
  <2> QED
    BY <2>1, <2>6
<1> HIDE DEF Good
<1>3. \A v \in Seq(S) : v \in Good
  BY <1>1, <1>2, ListInduction
<1> QED
  BY <1>3 DEF Good

\* A filtered list has what was in the list, and belongs.
LEMMA NumberFiltered ==
  ASSUME NEW S, NEW s \in Seq(S), NEW K, NEW M
  PROVE  Number(Filtered(s, K), M) = Number(s, K \cap M)
<1> DEFINE Good == {v \in Seq(S) : Number(Filtered(v, K), M) = Number(v, K \cap M)}
<1>1. << >> \in Good
  <2>1. Number(<< >>, M) = Number(<< >>, K \cap M)
    <3>1. {i \in DOMAIN << >> : << >>[i] \in M} = {}
            /\ {i \in DOMAIN << >> : << >>[i] \in K \cap M} = {}
      OBVIOUS
    <3> QED
      BY <3>1 DEF Number
  <2>2. Filtered(<< >>, K) = << >> /\ << >> \in Seq(S)
    BY FilteredEmpty
  <2> QED
    BY <2>1, <2>2
<1>2. ASSUME NEW v \in Seq(S), NEW x \in S, v \in Good PROVE Append(v, x) \in Good
  <2>1. PICK f : f = Filtered(v, K)
    OBVIOUS
  <2>2. f \in Seq(S)
    <3>1. f \in Seq(S \cap K)
      BY <2>1, FilteredType
    <3> QED
      BY <3>1
  <2>3. Filtered(Append(v, x), K) = IF x \in K THEN Append(f, x) ELSE f
    BY <2>1, FilteredAppend
  <2>4. /\ Number(Append(v, x), K \cap M) = Number(v, K \cap M) + IF x \in K \cap M THEN 1 ELSE 0
        /\ Number(Append(f, x), M) = Number(f, M) + IF x \in M THEN 1 ELSE 0
    BY <2>2, NumberAppend
  <2>5. Number(v, K \cap M) \in Nat /\ Number(f, M) = Number(v, K \cap M)
    BY <1>2, <2>1, NumberType
  <2>6. Number(Filtered(Append(v, x), K), M) = Number(Append(v, x), K \cap M)
    <3>1. CASE x \in K
      <4>1. x \in K \cap M <=> x \in M
        BY <3>1
      <4> QED
        BY <2>3, <2>4, <2>5, <3>1, <4>1
    <3>2. CASE x \notin K
      <4>1. x \notin K \cap M
        BY <3>2
      <4> QED
        BY <2>3, <2>4, <2>5, <3>2, <4>1
    <3> QED
      BY <3>1, <3>2
  <2> QED
    BY <2>6
<1> HIDE DEF Good
<1>3. \A v \in Seq(S) : v \in Good
  BY <1>1, <1>2, ListInduction
<1> QED
  BY <1>3 DEF Good

LEMMA LengthIsNumber ==
  ASSUME NEW S, NEW s \in Seq(S), NEW K, S \subseteq K
  PROVE  Len(s) = Number(s, K)
<1>1. Len(s) \in Nat /\ DOMAIN s = 1..Len(s) /\ \A i \in 1..Len(s) : s[i] \in K
  OBVIOUS
<1>2. {i \in DOMAIN s : s[i] \in K} = 1..Len(s)
  BY <1>1
<1>3. Cardinality(1..Len(s)) = Len(s)
  BY <1>1, FS_Interval
<1> QED
  BY <1>2, <1>3 DEF Number

-----------------------------------------------------------------------------
(* One-to-one pairings of the places of two lists.                          *)

\* p pairs the members of A with those of B.
Pairing(p, A, B) ==
  /\ \A i \in A : p[i] \in B
  /\ \A j \in B : \E i \in A : p[i] = j
  /\ \A i, k \in A : p[i] = p[k] => i = k

\* Two lists with the same elements, each as often.
Shuffled(s, u) ==
  /\ IsList(s) /\ IsList(u)
  /\ \E p : Pairing(p, DOMAIN s, DOMAIN u) /\ \A i \in DOMAIN s : s[i] = u[p[i]]

LEMMA PairedCounts ==
  ASSUME NEW A, IsFiniteSet(A), NEW B, NEW p, Pairing(p, A, B),
         NEW I \in SUBSET A, NEW J \in SUBSET B, \A i \in A : i \in I <=> p[i] \in J
  PROVE  IsFiniteSet(I) /\ Cardinality(I) = Cardinality(J)
<1>1. IsFiniteSet(I)
  BY FS_Subset
<1>2. \A i, k \in I : i # k => p[i] # p[k]
  BY DEF Pairing
<1>3. Cardinality({p[i] : i \in I}) = Cardinality(I)
  BY <1>1, <1>2, DistinctImage
<1>4. {p[i] : i \in I} = J
  BY DEF Pairing
<1> QED
  BY <1>1, <1>3, <1>4

LEMMA ShuffledNumbers ==
  ASSUME NEW s, NEW u, Shuffled(s, u), NEW K
  PROVE  Number(s, K) = Number(u, K)
<1>1. PICK p : Pairing(p, DOMAIN s, DOMAIN u) /\ \A i \in DOMAIN s : s[i] = u[p[i]]
  BY DEF Shuffled
<1> DEFINE I == {i \in DOMAIN s : s[i] \in K}
           J == {j \in DOMAIN u : u[j] \in K}
<1>2. Len(s) \in Nat /\ DOMAIN s = 1..Len(s)
  BY ListOf DEF Shuffled
<1>3. IsFiniteSet(DOMAIN s)
  BY <1>2, FS_Interval
<1>4. \A i \in DOMAIN s : i \in I <=> p[i] \in J
  BY <1>1 DEF Pairing
<1>5. I \in SUBSET DOMAIN s /\ J \in SUBSET DOMAIN u
  OBVIOUS
<1> HIDE DEF I, J
<1>6. Cardinality(I) = Cardinality(J)
  BY <1>1, <1>3, <1>4, <1>5, PairedCounts
<1> QED
  BY <1>6 DEF Number, I, J

\* The places of x, in each list as many, are paired with each other.
LEMMA NumbersShuffle ==
  ASSUME NEW s, NEW u, IsList(s), IsList(u), \A x : Number(s, {x}) = Number(u, {x})
  PROVE  Shuffled(s, u)
<1> DEFINE In(q, x) == {i \in DOMAIN q : q[i] \in {x}}
           b == [x \in {s[i] : i \in DOMAIN s} \cup {u[j] : j \in DOMAIN u} |->
                   CHOOSE f : f \in Bijection(In(s, x), In(u, x))]
           p == [i \in DOMAIN s |-> b[s[i]][i]]
<1>1. ASSUME NEW x PROVE \E f : f \in Bijection(In(s, x), In(u, x))
  <2>1. PICK S, U : s \in Seq(S) /\ u \in Seq(U)
    BY DEF IsList
  <2>2. IsFiniteSet(In(s, x)) /\ IsFiniteSet(In(u, x))
    BY <2>1, NumberType
  <2>3. Cardinality(In(s, x)) = Cardinality(In(u, x))
    BY DEF Number
  <2> HIDE DEF In
  <2>4. ExistsBijection(In(s, x), In(u, x))
    BY <2>2, <2>3, FS_SameCardinalityBij
  <2> QED
    BY <2>4 DEF ExistsBijection
<1>2. \A x \in DOMAIN b : b[x] \in Bijection(In(s, x), In(u, x))
  <2> SUFFICES ASSUME NEW x \in DOMAIN b PROVE b[x] \in Bijection(In(s, x), In(u, x))
    OBVIOUS
  <2>1. b[x] = CHOOSE f : f \in Bijection(In(s, x), In(u, x))
    OBVIOUS
  <2> HIDE DEF b, In
  <2>2. \E f : f \in Bijection(In(s, x), In(u, x))
    BY <1>1
  <2> QED
    BY <2>1, <2>2, Zenon
<1>3. \A x \in DOMAIN b :
        /\ \A i \in In(s, x) : b[x][i] \in In(u, x)
        /\ \A j \in In(u, x) : \E i \in In(s, x) : b[x][i] = j
        /\ \A i, k \in In(s, x) : b[x][i] = b[x][k] => i = k
  <2> SUFFICES ASSUME NEW x \in DOMAIN b
               PROVE  /\ \A i \in In(s, x) : b[x][i] \in In(u, x)
                      /\ \A j \in In(u, x) : \E i \in In(s, x) : b[x][i] = j
                      /\ \A i, k \in In(s, x) : b[x][i] = b[x][k] => i = k
    OBVIOUS
  <2>1. PICK f : f = b[x]
    OBVIOUS
  <2>2. f \in Bijection(In(s, x), In(u, x))
    BY <1>2, <2>1
  <2> HIDE DEF b, In
  <2>3. /\ f \in [In(s, x) -> In(u, x)]
        /\ \A i, k \in In(s, x) : f[i] = f[k] => i = k
        /\ \A j \in In(u, x) : \E i \in In(s, x) : f[i] = j
    BY <2>2 DEF Bijection, Injection, Surjection, IsInjective
  <2> QED
    BY <2>1, <2>3
<1>4. DOMAIN b = {s[i] : i \in DOMAIN s} \cup {u[j] : j \in DOMAIN u}
  OBVIOUS
<1>5. \A i \in DOMAIN s : p[i] = b[s[i]][i] /\ s[i] \in DOMAIN b /\ i \in In(s, s[i])
  BY <1>4
<1>6. \A j \in DOMAIN u : u[j] \in DOMAIN b /\ j \in In(u, u[j])
  BY <1>4
<1>7. \A x : /\ \A i \in In(s, x) : i \in DOMAIN s /\ s[i] = x
             /\ \A j \in In(u, x) : j \in DOMAIN u /\ u[j] = x
  OBVIOUS
<1> HIDE DEF b, p, In
<1>8. \A i \in DOMAIN s : p[i] \in DOMAIN u /\ s[i] = u[p[i]]
  BY <1>3, <1>5, <1>7
<1>9. Pairing(p, DOMAIN s, DOMAIN u)
  <2>1. ASSUME NEW j \in DOMAIN u PROVE \E i \in DOMAIN s : p[i] = j
    <3>1. PICK i \in In(s, u[j]) : b[u[j]][i] = j
      BY <1>3, <1>6
    <3>2. i \in DOMAIN s /\ s[i] = u[j]
      BY <1>7
    <3> QED
      BY <1>5, <3>1, <3>2
  <2>2. ASSUME NEW i \in DOMAIN s, NEW k \in DOMAIN s, p[i] = p[k] PROVE i = k
    <3>1. s[i] = s[k]
      BY <1>8, <2>2
    <3>2. PICK x \in DOMAIN b : x = s[i]
      BY <1>5
    <3>3. i \in In(s, x) /\ k \in In(s, x) /\ b[x][i] = b[x][k]
      BY <1>5, <2>2, <3>1, <3>2
    <3> QED
      BY <1>3, <3>3
  <2> QED
    BY <1>8, <2>1, <2>2 DEF Pairing
<1> QED
  BY <1>8, <1>9 DEF Shuffled

LEMMA ShuffledFiltered ==
  ASSUME NEW s, NEW u, Shuffled(s, u), NEW K
  PROVE  Shuffled(Filtered(s, K), Filtered(u, K))
<1>1. PICK S, U : s \in Seq(S) /\ u \in Seq(U) /\ IsList(s) /\ IsList(u)
  BY DEF Shuffled, IsList
<1>2. IsList(Filtered(s, K)) /\ IsList(Filtered(u, K))
  BY <1>1, FilteredElements
<1>3. ASSUME NEW x PROVE Number(Filtered(s, K), {x}) = Number(Filtered(u, K), {x})
  <2>1. PICK M : M = K \cap {x}
    OBVIOUS
  <2>2. Number(Filtered(s, K), {x}) = Number(s, M)
    BY <1>1, <2>1, NumberFiltered
  <2>3. Number(Filtered(u, K), {x}) = Number(u, M)
    BY <1>1, <2>1, NumberFiltered
  <2> QED
    BY <2>2, <2>3, ShuffledNumbers
<1> QED
  BY <1>2, <1>3, NumbersShuffle

LEMMA ShuffledLength ==
  ASSUME NEW s, NEW u, Shuffled(s, u)
  PROVE  Len(s) = Len(u)
<1>1. PICK p : Pairing(p, DOMAIN s, DOMAIN u) /\ \A i \in DOMAIN s : s[i] = u[p[i]]
  BY DEF Shuffled
<1>2. /\ Len(s) \in Nat /\ DOMAIN s = 1..Len(s)
      /\ Len(u) \in Nat /\ DOMAIN u = 1..Len(u)
  BY ListOf DEF Shuffled
<1>3. IsFiniteSet(DOMAIN s) /\ Cardinality(DOMAIN s) = Len(s) /\ Cardinality(DOMAIN u) = Len(u)
  <2>1. \A n \in Nat : IsFiniteSet(1..n) /\ Cardinality(1..n) = n
    BY FS_Interval
  <2> QED
    BY <1>2, <2>1
<1>4. Cardinality(DOMAIN s) = Cardinality(DOMAIN u)
  <2>1. \A i \in DOMAIN s : i \in DOMAIN s <=> p[i] \in DOMAIN u
    BY <1>1 DEF Pairing
  <2>2. DOMAIN s \in SUBSET DOMAIN s /\ DOMAIN u \in SUBSET DOMAIN u
    OBVIOUS
  <2> QED
    BY <1>1, <1>3, <2>1, <2>2, PairedCounts
<1> QED
  BY <1>3, <1>4

-----------------------------------------------------------------------------
(* Sums, and lists of lists.                                                *)

\* What a list of numbers counts: for each place as many as its number.
Units(s) == UNION {{<<i, v>> : v \in 1..s[i]} : i \in DOMAIN s}

LEMMA UnitsHas ==
  ASSUME NEW s
  PROVE  /\ \A i, v : <<i, v>> \in Units(s) <=> i \in DOMAIN s /\ v \in 1..s[i]
         /\ \A y \in Units(s) : \E i, v : y = <<i, v>>
<1>1. \A y : y \in Units(s) <=> \E i \in DOMAIN s : \E v \in 1..s[i] : y = <<i, v>>
  BY DEF Units
<1>2. \A i, v, k, w : <<i, v>> = <<k, w>> => i = k /\ v = w
  OBVIOUS
<1> QED
  BY <1>1, <1>2

LEMMA SummedIsUnits ==
  ASSUME NEW s \in Seq(Nat)
  PROVE  IsFiniteSet(Units(s)) /\ Cardinality(Units(s)) = Summed(s)
<1> DEFINE Good == {q \in Seq(Nat) : IsFiniteSet(Units(q)) /\ Cardinality(Units(q)) = Summed(q)}
<1>1. << >> \in Good
  <2>1. Units(<< >>) = {}
    <3>1. DOMAIN << >> = {}
      OBVIOUS
    <3> QED
      BY <3>1, UnitsHas
  <2>2. Summed(<< >>) = 0 /\ << >> \in Seq(Nat)
    BY SummedAppend
  <2> QED
    BY <2>1, <2>2, FS_EmptySet
<1>2. ASSUME NEW q \in Seq(Nat), NEW x \in Nat, q \in Good PROVE Append(q, x) \in Good
  <2>1. PICK n \in Nat : n = Len(q)
    OBVIOUS
  <2>2. PICK w \in Seq(Nat) : w = Append(q, x)
    <3>1. Append(q, x) \in Seq(Nat)
      OBVIOUS
    <3> QED
      BY <3>1
  <2>3. /\ DOMAIN q = 1..n /\ DOMAIN w = 1..(n + 1) /\ w[n + 1] = x
        /\ \A i \in 1..n : w[i] = q[i]
    BY <2>1, <2>2
  <2> DEFINE New == {<<n + 1, v>> : v \in 1..x}
  <2>4. Units(w) = Units(q) \cup New
    <3>1. \A i, v : <<i, v>> \in Units(w) <=> i \in 1..(n + 1) /\ v \in 1..w[i]
      BY <2>3, UnitsHas
    <3>2. \A i, v : <<i, v>> \in Units(q) <=> i \in 1..n /\ v \in 1..q[i]
      BY <2>3, UnitsHas
    <3>3. \A i, v : <<i, v>> \in New <=> i = n + 1 /\ v \in 1..x
      OBVIOUS
    <3>4. \A i : i \in 1..(n + 1) <=> i \in 1..n \/ i = n + 1
      OBVIOUS
    <3>5. \A i, v : <<i, v>> \in Units(w) <=> <<i, v>> \in Units(q) \/ <<i, v>> \in New
      <4> HIDE DEF New
      <4> TAKE i, v
      <4>1. CASE i \in 1..n
        <5>1. i # n + 1 /\ i \in 1..(n + 1) /\ w[i] = q[i]
          BY <2>3, <4>1
        <5> QED
          BY <3>1, <3>2, <3>3, <4>1, <5>1
      <4>2. CASE i = n + 1
        <5>1. i \notin 1..n /\ i \in 1..(n + 1) /\ w[i] = x
          BY <2>3, <4>2
        <5> QED
          BY <3>1, <3>2, <3>3, <4>2, <5>1
      <4>3. CASE i \notin 1..(n + 1)
        BY <3>1, <3>2, <3>3, <3>4, <4>3
      <4> QED
        BY <3>4, <4>1, <4>2, <4>3
    <3>6. /\ \A y \in Units(w) : \E i, v : y = <<i, v>>
          /\ \A y \in Units(q) : \E i, v : y = <<i, v>>
          /\ \A y \in New : \E i, v : y = <<i, v>>
      <4>1. \A y \in Units(w) : \E i, v : y = <<i, v>>
        BY UnitsHas
      <4>2. \A y \in Units(q) : \E i, v : y = <<i, v>>
        BY UnitsHas
      <4>3. \A y \in New : \E i, v : y = <<i, v>>
        OBVIOUS
      <4> QED
        BY <4>1, <4>2, <4>3
    <3> HIDE DEF New
    <3>7. \A y : y \in Units(w) <=> y \in Units(q) \/ y \in New
      BY <3>5, <3>6
    <3> QED
      BY <3>7
  <2>5. Units(q) \cap New = {}
    <3>1. ASSUME NEW y \in Units(q), y \in New PROVE FALSE
      <4>1. PICK v \in 1..x : y = <<n + 1, v>>
        BY <3>1
      <4>2. n + 1 \in 1..n
        BY <2>3, <4>1, UnitsHas
      <4> QED
        BY <4>2
    <3> QED
      BY <3>1
  <2>6. IsFiniteSet(New) /\ Cardinality(New) = x
    <3> DEFINE pair == [v \in 1..x |-> <<n + 1, v>>]
    <3>1. IsFiniteSet(1..x) /\ Cardinality(1..x) = x
      BY FS_Interval
    <3>2. \A v, k \in 1..x : v # k => pair[v] # pair[k]
      OBVIOUS
    <3>3. New = {pair[v] : v \in 1..x}
      OBVIOUS
    <3> HIDE DEF pair, New
    <3> QED
      BY <3>1, <3>2, <3>3, DistinctImage
  <2>7. IsFiniteSet(Units(q)) /\ Cardinality(Units(q)) = Summed(q)
    BY <1>2
  <2> HIDE DEF New
  <2>8. IsFiniteSet(Units(w)) /\ Cardinality(Units(w)) = Summed(q) + x
    <3>1. Cardinality({}) = 0
      BY FS_EmptySet
    <3>2. Cardinality(Units(q)) \in Nat
      BY <2>7, FS_CardinalityType
    <3>3. /\ IsFiniteSet(Units(q) \cup New)
          /\ Cardinality(Units(q) \cup New)
               = Cardinality(Units(q)) + Cardinality(New) - Cardinality(Units(q) \cap New)
      BY <2>6, <2>7, FS_Union
    <3>4. PICK c \in Nat : c = Cardinality(Units(q))
      BY <3>2
    <3>5. Cardinality(Units(w)) = c + x - 0
      BY <2>4, <2>5, <2>6, <3>1, <3>3, <3>4
    <3> QED
      BY <2>4, <2>7, <3>3, <3>4, <3>5
  <2>9. Summed(w) = Summed(q) + x
    BY <2>2, SummedAppend
  <2> QED
    BY <2>2, <2>8, <2>9
<1> HIDE DEF Good
<1>3. \A q \in Seq(Nat) : q \in Good
  BY <1>1, <1>2, ListInduction
<1> QED
  BY <1>3 DEF Good

LEMMA PairedSums ==
  ASSUME NEW s \in Seq(Nat), NEW u \in Seq(Nat), NEW p, Pairing(p, DOMAIN s, DOMAIN u),
         \A i \in DOMAIN s : s[i] = u[p[i]]
  PROVE  Summed(s) = Summed(u)
<1> DEFINE to == [y \in Units(s) |-> <<p[y[1]], y[2]>>]
<1>1. \A i, v : <<i, v>> \in Units(s) <=> i \in DOMAIN s /\ v \in 1..s[i]
  BY UnitsHas
<1>2. \A i, v : <<i, v>> \in Units(u) <=> i \in DOMAIN u /\ v \in 1..u[i]
  BY UnitsHas
<1>3. /\ \A y \in Units(s) : \E i, v : y = <<i, v>>
      /\ \A y \in Units(u) : \E i, v : y = <<i, v>>
  BY UnitsHas
<1>4. \A i, v : <<i, v>> \in Units(s) => to[<<i, v>>] = <<p[i], v>>
  OBVIOUS
<1> HIDE DEF to
<1>5. \A x, y \in Units(s) : x # y => to[x] # to[y]
  <2> SUFFICES ASSUME NEW x \in Units(s), NEW y \in Units(s), to[x] = to[y] PROVE x = y
    OBVIOUS
  <2>1. PICK i, v : x = <<i, v>>
    BY <1>3
  <2>2. PICK k, w : y = <<k, w>>
    BY <1>3
  <2>3. p[i] = p[k] /\ v = w /\ i \in DOMAIN s /\ k \in DOMAIN s
    BY <1>1, <1>4, <2>1, <2>2
  <2> QED
    BY <2>1, <2>2, <2>3 DEF Pairing
<1>6. {to[y] : y \in Units(s)} = Units(u)
  <2>1. ASSUME NEW y \in Units(s) PROVE to[y] \in Units(u)
    <3>1. PICK i, v : y = <<i, v>>
      BY <1>3
    <3>2. i \in DOMAIN s /\ v \in 1..u[p[i]]
      BY <1>1, <3>1
    <3>3. p[i] \in DOMAIN u
      BY <3>2 DEF Pairing
    <3>4. to[y] = <<p[i], v>>
      BY <1>4, <3>1
    <3>5. <<p[i], v>> \in Units(u)
      BY <1>2, <3>2, <3>3
    <3> QED
      BY <3>4, <3>5
  <2>2. ASSUME NEW y \in Units(u) PROVE \E x \in Units(s) : to[x] = y
    <3>1. PICK j, v : y = <<j, v>>
      BY <1>3
    <3>2. j \in DOMAIN u /\ v \in 1..u[j]
      BY <1>2, <3>1
    <3>3. PICK i \in DOMAIN s : p[i] = j
      BY <3>2 DEF Pairing
    <3>4. <<i, v>> \in Units(s) /\ to[<<i, v>>] = y
      <4>1. s[i] = u[j]
        BY <3>3
      <4> QED
        BY <1>1, <1>4, <3>1, <3>2, <3>3, <4>1
    <3> QED
      BY <3>4
  <2> QED
    BY <2>1, <2>2
<1>7. IsFiniteSet(Units(s)) /\ Cardinality(Units(s)) = Summed(s)
        /\ Cardinality(Units(u)) = Summed(u)
  BY SummedIsUnits
<1>8. Cardinality({to[y] : y \in Units(s)}) = Cardinality(Units(s))
  <2>1. PICK A, f : A = Units(s) /\ f = to
    OBVIOUS
  <2>2. IsFiniteSet(A) /\ \A x, y \in A : x # y => f[x] # f[y]
    BY <1>5, <1>7, <2>1
  <2>3. Cardinality({f[y] : y \in A}) = Cardinality(A)
    BY <2>2, DistinctImage, SMTT(30)
  <2> QED
    BY <2>1, <2>3
<1> QED
  BY <1>6, <1>7, <1>8

\* Lists after one another: as many elements as they have together, and theirs.
LEMMA JoinedFacts ==
  ASSUME NEW S, NEW s \in Seq(Seq(S))
  PROVE  /\ Joined(s) \in Seq(S)
         /\ Len(Joined(s)) = Summed([i \in DOMAIN s |-> Len(s[i])])
         /\ \A x : (\E k \in DOMAIN Joined(s) : Joined(s)[k] = x)
                  <=> \E i \in DOMAIN s : \E j \in DOMAIN s[i] : s[i][j] = x
<1> DEFINE Lens(q) == [i \in DOMAIN q |-> Len(q[i])]
           Has(q) == \A x : (\E k \in DOMAIN Joined(q) : Joined(q)[k] = x)
                             <=> \E i \in DOMAIN q : \E j \in DOMAIN q[i] : q[i][j] = x
           Good == {q \in Seq(Seq(S)) : Len(Joined(q)) = Summed(Lens(q)) /\ Has(q)}
<1>1. << >> \in Good
  <2>1. Joined(<< >>) = << >> /\ << >> \in Seq(Seq(S))
    <3>1. << >> \in Seq(Seq(S)) /\ << >> \in Seq(S)
      OBVIOUS
    <3> QED
      BY <3>1, JoinedAppend
  <2>2. Lens(<< >>) = << >>
    OBVIOUS
  <2>3. Summed(<< >>) = 0
    <3>1. << >> \in Seq(Nat) /\ 0 \in Nat
      OBVIOUS
    <3> QED
      BY <3>1, SummedAppend
  <2>4. Has(<< >>)
    BY <2>1
  <2> QED
    BY <2>1, <2>2, <2>3, <2>4
<1>2. ASSUME NEW q \in Seq(Seq(S)), NEW x \in Seq(S), q \in Good PROVE Append(q, x) \in Good
  <2>1. PICK n \in Nat : n = Len(q)
    OBVIOUS
  <2>2. PICK w \in Seq(Seq(S)) : w = Append(q, x)
    <3>1. Append(q, x) \in Seq(Seq(S))
      OBVIOUS
    <3> QED
      BY <3>1
  <2>3. /\ DOMAIN q = 1..n /\ DOMAIN w = 1..(n + 1) /\ w[n + 1] = x
        /\ \A i \in 1..n : w[i] = q[i] /\ q[i] \in Seq(S)
    BY <2>1, <2>2
  <2>4. PICK j \in Seq(S) : j = Joined(q)
    BY JoinedAppend
  <2>5. PICK k \in Seq(S) : k = j \o x
    <3>1. j \o x \in Seq(S)
      OBVIOUS
    <3> QED
      BY <3>1
  <2>6. Joined(w) = k
    BY <2>2, <2>4, <2>5, JoinedAppend
  <2>7. Len(k) = Len(j) + Len(x)
    BY <2>5
  <2>8. \A y : (\E i \in DOMAIN k : k[i] = y)
              <=> (\E i \in DOMAIN j : j[i] = y) \/ (\E i \in DOMAIN x : x[i] = y)
    <3>1. /\ Len(j) \in Nat /\ Len(x) \in Nat /\ DOMAIN j = 1..Len(j) /\ DOMAIN x = 1..Len(x)
          /\ DOMAIN k = 1..(Len(j) + Len(x))
          /\ \A i \in 1..Len(j) : k[i] = j[i]
          /\ \A i \in 1..Len(x) : k[Len(j) + i] = x[i]
      BY <2>5
    <3>2. \A i \in DOMAIN k : i \in DOMAIN j \/ \E m \in DOMAIN x : i = Len(j) + m
      <4> TAKE i \in DOMAIN k
      <4>1. CASE i > Len(j)
        <5>1. i - Len(j) \in DOMAIN x /\ i = Len(j) + (i - Len(j))
          BY <3>1, <4>1
        <5> QED
          BY <5>1
      <4> QED
        BY <3>1, <4>1
    <3>3. \A i \in DOMAIN j : i \in DOMAIN k
      BY <3>1
    <3>4. \A i \in DOMAIN x : Len(j) + i \in DOMAIN k
      BY <3>1
    <3> QED
      BY <3>1, <3>2, <3>3, <3>4
  <2>9. PICK l \in Seq(Nat) : l = Lens(q)
    <3>1. Lens(q) = [i \in 1..n |-> Len(q[i])]
      BY <2>3
    <3>2. \A i \in 1..n : Len(q[i]) \in Nat
      BY <2>3
    <3>3. [i \in 1..n |-> Len(q[i])] \in Seq(Nat)
      BY <3>2
    <3> QED
      BY <3>1, <3>3
  <2>10. Lens(w) = Append(l, Len(x))
    <3>1. Lens(w) = [i \in 1..(n + 1) |-> Len(w[i])]
      BY <2>3
    <3>2. l = [i \in 1..n |-> Len(q[i])] /\ Len(l) = n
      BY <2>3, <2>9
    <3>3. /\ Lens(w) \in Seq(Nat) /\ Len(Lens(w)) = Len(l) + 1 /\ Lens(w)[Len(l) + 1] = Len(x)
          /\ \A i \in 1..Len(l) : Lens(w)[i] = l[i]
      <4>1. \A i \in 1..(n + 1) : Len(w[i]) \in Nat
        BY <2>3
      <4> QED
        BY <2>3, <3>1, <3>2, <4>1
    <3> HIDE DEF Lens
    <3>4. PICK z : z = Lens(w)
      OBVIOUS
    <3> QED
      BY <3>3, <3>4, AppendIs
  <2>11. Summed(Lens(w)) = Summed(l) + Len(x)
    <3>1. Len(x) \in Nat
      OBVIOUS
    <3>2. Summed(Append(l, Len(x))) = Summed(l) + Len(x)
      BY <3>1, SummedAppend
    <3> QED
      BY <2>10, <3>2
  <2>12. Len(j) = Summed(l) /\ Has(q)
    BY <1>2, <2>4, <2>9
  <2>13. \A y : (\E i \in DOMAIN w : \E m \in DOMAIN w[i] : w[i][m] = y)
               <=> (\E i \in DOMAIN q : \E m \in DOMAIN q[i] : q[i][m] = y)
                     \/ (\E i \in DOMAIN x : x[i] = y)
    <3>1. \A i : i \in 1..(n + 1) <=> i \in 1..n \/ i = n + 1
      OBVIOUS
    <3> QED
      BY <2>3, <3>1
  <2>14. Has(w)
    BY <2>4, <2>6, <2>8, <2>12, <2>13
  <2>15. Len(Joined(w)) = Summed(Lens(w))
    BY <2>6, <2>7, <2>11, <2>12
  <2> HIDE DEF Lens, Has
  <2>16. w \in Good
    BY <2>14, <2>15
  <2> QED
    BY <2>2, <2>16
<1> HIDE DEF Good
<1>3. \A q \in Seq(Seq(S)) : q \in Good
  BY <1>1, <1>2, ListInduction
<1>4. Joined(s) \in Seq(S)
  BY JoinedAppend
<1> QED
  BY <1>3, <1>4 DEF Good

\* To keep and then to change is to change and then to keep.
LEMMA FilteredMade ==
  ASSUME NEW S, NEW s \in Seq(S), NEW f, NEW K, NEW M, \A x \in S : x \in K <=> f[x] \in M,
         NEW q, q = Filtered(s, K)
  PROVE  [i \in DOMAIN q |-> f[q[i]]] = Filtered([i \in DOMAIN s |-> f[s[i]]], M)
<1> DEFINE Made(v) == [i \in DOMAIN v |-> f[v[i]]]
           Good == {v \in Seq(S) : Made(Filtered(v, K)) = Filtered(Made(v), M)}
           T == {f[x] : x \in S}
<1>1. \A v \in Seq(S) : Made(v) \in Seq(T) /\ Len(Made(v)) = Len(v)
        /\ \A i \in DOMAIN v : Made(v)[i] = f[v[i]]
  <2> SUFFICES ASSUME NEW v \in Seq(S)
               PROVE  Made(v) \in Seq(T) /\ Len(Made(v)) = Len(v)
                        /\ \A i \in DOMAIN v : Made(v)[i] = f[v[i]]
    OBVIOUS
  <2>1. PICK n \in Nat : DOMAIN v = 1..n /\ Len(v) = n /\ \A i \in 1..n : v[i] \in S
    OBVIOUS
  <2>2. Made(v) = [i \in 1..n |-> f[v[i]]]
    BY <2>1
  <2>3. \A i \in 1..n : f[v[i]] \in T
    BY <2>1
  <2> HIDE DEF T
  <2> QED
    BY <2>1, <2>2, <2>3
<1>2. \A v \in Seq(S), x \in S : Made(Append(v, x)) = Append(Made(v), f[x])
  <2> SUFFICES ASSUME NEW v \in Seq(S), NEW x \in S PROVE Made(Append(v, x)) = Append(Made(v), f[x])
    OBVIOUS
  <2>1. PICK w \in Seq(S) : w = Append(v, x)
    <3>1. Append(v, x) \in Seq(S)
      OBVIOUS
    <3> QED
      BY <3>1
  <2>2. PICK n \in Nat : n = Len(v)
    OBVIOUS
  <2>3. Len(w) = n + 1 /\ DOMAIN w = 1..(n + 1) /\ DOMAIN v = 1..n /\ w[n + 1] = x
          /\ \A i \in 1..n : w[i] = v[i]
    BY <2>1, <2>2
  <2>4. PICK a, b : a = Made(v) /\ b = Made(w)
    OBVIOUS
  <2>5. a \in Seq(T) /\ b \in Seq(T) /\ Len(a) = n /\ Len(b) = n + 1
    BY <1>1, <2>2, <2>3, <2>4
  <2>6. f[x] \in T /\ b[n + 1] = f[x] /\ \A i \in 1..n : b[i] = a[i]
    BY <2>3, <2>4
  <2> HIDE DEF T, Made
  <2>7. b = Append(a, f[x])
    BY <2>5, <2>6, AppendIs
  <2> QED
    BY <2>1, <2>4, <2>7
<1>3. << >> \in Good
  <2>1. Filtered(<< >>, K) = << >> /\ Filtered(<< >>, M) = << >> /\ << >> \in Seq(S)
    BY FilteredEmpty
  <2>2. Made(<< >>) = << >>
    OBVIOUS
  <2> HIDE DEF Made
  <2> QED
    BY <2>1, <2>2
<1>4. ASSUME NEW v \in Seq(S), NEW x \in S, v \in Good PROVE Append(v, x) \in Good
  <2>1. PICK a, b : a = Made(v) /\ b = Filtered(v, K)
    OBVIOUS
  <2>2. a \in Seq(T) /\ f[x] \in T
    BY <1>1, <2>1
  <2>3. b \in Seq(S)
    <3>1. b \in Seq(S \cap K)
      BY <2>1, FilteredType
    <3> QED
      BY <3>1
  <2>4. Made(b) = Filtered(a, M)
    BY <1>4, <2>1
  <2> HIDE DEF T, Made
  <2>5. Filtered(Append(v, x), K) = IF x \in K THEN Append(b, x) ELSE b
    BY <2>1, FilteredAppend
  <2>6. Filtered(Append(a, f[x]), M) = IF f[x] \in M THEN Append(Filtered(a, M), f[x])
          ELSE Filtered(a, M)
    <3>1. PICK U, y : U = T /\ y = f[x]
      OBVIOUS
    <3>2. a \in Seq(U) /\ y \in U
      BY <2>2, <3>1
    <3>3. Filtered(Append(a, y), M) = IF y \in M THEN Append(Filtered(a, M), y) ELSE Filtered(a, M)
      BY <3>2, FilteredAppend
    <3> QED
      BY <3>1, <3>3
  <2>7. Made(Append(v, x)) = Append(a, f[x]) /\ Made(Append(b, x)) = Append(Made(b), f[x])
    BY <1>2, <2>1, <2>3
  <2>8. Made(Filtered(Append(v, x), K)) = Filtered(Made(Append(v, x)), M)
    BY <2>4, <2>5, <2>6, <2>7
  <2> QED
    BY <2>8
<1> HIDE DEF Good
<1>5. s \in Good
  BY <1>3, <1>4, ListInduction
<1> QED
  BY <1>5 DEF Good

-----------------------------------------------------------------------------
(* The stores of traces of RunTrace.                                        *)

Elements(s) == {s[i] : i \in DOMAIN s}

\* A list with at most one trace of a run.
OneOfARun(s) ==
  /\ IsList(s) /\ \A i \in DOMAIN s : s[i].run \in Nat
  /\ \A i, j \in DOMAIN s : i # j => s[i].run # s[j].run

\* A list in the order of the runs.
InRunOrder(s) ==
  /\ IsList(s) /\ \A i \in DOMAIN s : s[i].run \in Nat
  /\ \A i, j \in DOMAIN s : i < j => s[i].run < s[j].run

LEMMA OrderedOnce ==
  ASSUME NEW s, InRunOrder(s)
  PROVE  OneOfARun(s)
<1>1. DOMAIN s = 1..Len(s) /\ Len(s) \in Nat
  BY ListOf DEF InRunOrder
<1>2. ASSUME NEW i \in DOMAIN s, NEW j \in DOMAIN s, i # j
      PROVE  s[i].run # s[j].run
  <2>1. i < j \/ j < i
    BY <1>1, <1>2
  <2>2. PICK a \in Nat, b \in Nat : a = s[i].run /\ b = s[j].run
    BY DEF InRunOrder
  <2>3. a < b \/ b < a
    BY <2>1, <2>2 DEF InRunOrder
  <2> QED
    BY <2>2, <2>3
<1> QED
  BY <1>2 DEF InRunOrder, OneOfARun

\* What SortedBy arranges by runs is in their order.
LEMMA SortedIs ==
  ASSUME NEW s, OneOfARun(s), NEW u, u = Sorted(s)
  PROVE  InRunOrder(u) /\ Elements(u) = Elements(s)
<1>1. PICK n \in Nat : n = Len(s)
  BY ListOf DEF OneOfARun
<1>2. DOMAIN s = 1..n
  BY <1>1, ListOf DEF OneOfARun
<1>3. \A i \in 1..n : s[i].run \in Nat
  BY <1>2 DEF OneOfARun
<1>4. \A i, j \in 1..n : i # j => s[i].run # s[j].run
  BY <1>2 DEF OneOfARun
<1> DEFINE S == DOMAIN s
           key == [i \in S |-> <<s[i].run, i>>]
           R == SortedBy(S, key)
<1>5. u = [k \in DOMAIN R |-> s[R[k]]]
  BY DEF Sorted
<1>6. \A i \in S : key[i] = <<s[i].run, i>>
  OBVIOUS
<1>7. S = 1..n
  BY <1>2
<1> HIDE DEF S, key
<1>8. KeysOf(S, key, 2)
  <2>1. ASSUME NEW i \in S
        PROVE  DOMAIN key[i] = 1..2 /\ \A p \in 1..2 : key[i][p] \in Int
    <3>1. PICK a \in Nat : a = s[i].run
      BY <1>3, <1>7
    <3>2. key[i] = <<a, i>> /\ i \in Int
      BY <1>6, <1>7, <3>1
    <3> QED
      BY <3>2
  <2>2. ASSUME NEW i \in S, NEW j \in S, i # j
        PROVE  \E p \in 1..2 : key[i][p] # key[j][p]
    <3>1. key[i][2] # key[j][2]
      BY <1>6, <2>2
    <3> QED
      BY <3>1
  <2> QED
    BY <2>1, <2>2 DEF KeysOf
<1>9. IsFiniteSet(S) /\ Cardinality(S) = n
  <2>1. 1 \in Int /\ n \in Int
    BY <1>1
  <2>2. IsFiniteSet(1..n) /\ Cardinality(1..n) = IF 1 > n THEN 0 ELSE n - 1 + 1
    BY <2>1, FS_Interval
  <2> QED
    BY <1>1, <1>7, <2>2
<1>10. ListsBy(R, S, key)
  BY <1>8, <1>9, SortedByIs
<1> HIDE DEF R
<1>11. /\ R \in Seq(S) /\ Len(R) = n /\ {R[k] : k \in DOMAIN R} = S
       /\ \A i, j \in DOMAIN R : i < j => key[R[i]][1] <= key[R[j]][1]
       /\ \A i, j \in DOMAIN R : i # j => R[i] # R[j]
  BY <1>9, <1>10, Zenon DEF ListsBy
<1>12. DOMAIN R = 1..n /\ \A k \in 1..n : R[k] \in 1..n
  BY <1>7, <1>11
<1>13. u = [k \in 1..n |-> u[k]] /\ \A k \in 1..n : u[k] = s[R[k]]
  BY <1>5, <1>12
<1>14. IsList(u) /\ DOMAIN u = 1..n
  BY <1>1, <1>13, FunctionIsList
<1>15. \A k \in DOMAIN u : u[k].run \in Nat
  BY <1>3, <1>12, <1>13, <1>14
<1>16. ASSUME NEW i \in DOMAIN u, NEW j \in DOMAIN u, i < j
       PROVE  u[i].run < u[j].run
  <2>1. i \in DOMAIN R /\ j \in DOMAIN R /\ i # j /\ R[i] \in 1..n /\ R[j] \in 1..n
    BY <1>12, <1>14, <1>16
  <2>2. R[i] # R[j] /\ key[R[i]][1] <= key[R[j]][1]
    BY <1>11, <1>16, <2>1
  <2>3. PICK a \in Nat, b \in Nat : a = s[R[i]].run /\ b = s[R[j]].run
    BY <1>3, <2>1
  <2>4. key[R[i]][1] = a /\ key[R[j]][1] = b
    BY <1>6, <1>7, <2>1, <2>3
  <2>5. a # b /\ a <= b
    BY <1>4, <2>1, <2>2, <2>3, <2>4
  <2> QED
    BY <1>13, <1>14, <2>3, <2>5
<1>17. Elements(u) = Elements(s)
  <2>1. \A x : x \in Elements(u) <=> \E k \in 1..n : u[k] = x
    BY <1>14 DEF Elements
  <2>2. \A x : x \in Elements(s) <=> \E i \in 1..n : s[i] = x
    BY <1>2 DEF Elements
  <2>3. \A i \in 1..n : \E k \in 1..n : R[k] = i
    BY <1>7, <1>11, <1>12
  <2>4. \A x : (\E k \in 1..n : u[k] = x) <=> \E i \in 1..n : s[i] = x
    <3> TAKE x
    <3>1. ASSUME NEW k \in 1..n, u[k] = x PROVE \E i \in 1..n : s[i] = x
      BY <1>12, <1>13, <3>1
    <3>2. ASSUME NEW i \in 1..n, s[i] = x PROVE \E k \in 1..n : u[k] = x
      <4>1. PICK k \in 1..n : R[k] = i
        BY <2>3
      <4> QED
        BY <1>13, <3>2, <4>1
    <3> QED
      BY <3>1, <3>2
  <2>5. \A x : x \in Elements(u) <=> x \in Elements(s)
    BY <2>1, <2>2, <2>4
  <2> QED
    BY <2>5, Zenon
<1> QED
  BY <1>14, <1>15, <1>16, <1>17 DEF InRunOrder

\* There is one list of a set of traces in the order of their runs.
LEMMA SameOrder ==
  ASSUME NEW s, NEW t, InRunOrder(s), InRunOrder(t), Elements(s) = Elements(t)
  PROVE  s = t
<1> DEFINE Runs(l) == [i \in DOMAIN l |-> l[i].run]
           S == {x.run : x \in Elements(s)}
<1>1. ASSUME NEW l, InRunOrder(l), Elements(l) = Elements(s)
      PROVE  Ascending(Runs(l), S) /\ DOMAIN Runs(l) = DOMAIN l
  <2>1. PICK n \in Nat : n = Len(l)
    BY <1>1, ListOf DEF InRunOrder
  <2>2. DOMAIN l = 1..n
    BY <1>1, <2>1, ListOf DEF InRunOrder
  <2>3. \A i \in 1..n : l[i].run \in Nat
    BY <1>1, <2>2 DEF InRunOrder
  <2>4. \A i, j \in 1..n : i < j => l[i].run < l[j].run
    BY <1>1, <2>2 DEF InRunOrder
  <2>5. PICK q : q = Runs(l)
    OBVIOUS
  <2>6. DOMAIN q = 1..n /\ q \in [1..n -> Nat] /\ \A i \in 1..n : q[i] = l[i].run
    BY <2>2, <2>3, <2>5
  <2>7. q \in Seq(Nat)
    BY <2>6
  <2>8. \A i, j \in DOMAIN q : i < j => q[i] < q[j]
    BY <2>4, <2>6
  <2>9. {q[i] : i \in DOMAIN q} = S
    <3>1. Elements(s) = {l[i] : i \in 1..n}
      BY <1>1, <2>2 DEF Elements
    <3> QED
      BY <2>6, <3>1
  <2>10. Ascending(q, S)
    BY <2>7, <2>8, <2>9 DEF Ascending
  <2> QED
    BY <2>2, <2>5, <2>6, <2>10
<1> HIDE DEF S
<1>2. Ascending(Runs(s), S) /\ Ascending(Runs(t), S)
  BY <1>1
<1>3. Runs(s) = Runs(t)
  BY <1>2, AscendingUnique
<1>4. DOMAIN s = DOMAIN t
  <2>1. DOMAIN Runs(s) = DOMAIN s /\ DOMAIN Runs(t) = DOMAIN t
    OBVIOUS
  <2> HIDE DEF Runs
  <2> QED
    BY <1>3, <2>1
<1>5. \A i \in DOMAIN s : s[i].run = t[i].run
  <2>1. \A i \in DOMAIN s : Runs(s)[i] = s[i].run /\ Runs(t)[i] = t[i].run
    BY <1>4
  <2> HIDE DEF Runs
  <2> QED
    BY <1>3, <2>1
<1>6. ASSUME NEW i \in DOMAIN s PROVE s[i] = t[i]
  <2>1. s[i] \in Elements(t)
    BY DEF Elements
  <2>2. PICK j \in DOMAIN t : t[j] = s[i]
    BY <2>1 DEF Elements
  <2>3. t[j].run = t[i].run /\ i \in DOMAIN t
    BY <1>4, <1>5, <2>2
  <2>4. OneOfARun(t)
    BY OrderedOnce
  <2>5. j = i
    BY <2>3, <2>4 DEF OneOfARun
  <2> QED
    BY <2>2, <2>5
<1>7. s = [i \in DOMAIN s |-> s[i]] /\ t = [i \in DOMAIN t |-> t[i]]
  <2>1. ASSUME NEW l, IsList(l) PROVE l = [i \in DOMAIN l |-> l[i]]
    <3> DEFINE V == {l[i] : i \in DOMAIN l}
    <3>1. l \in Seq(V)
      BY <2>1 DEF IsList
    <3> HIDE DEF V
    <3> QED
      BY <3>1
  <2> QED
    BY <2>1 DEF InRunOrder
<1> QED
  BY <1>4, <1>6, <1>7

\* Filtering keeps one trace of a run.
LEMMA FilteredOnce ==
  ASSUME NEW s, OneOfARun(s), NEW keep, NEW f, f = Filtered(s, keep)
  PROVE  OneOfARun(f) /\ Elements(f) = Elements(s) \cap keep
<1> DEFINE S == {s[i] : i \in DOMAIN s}
<1>1. IsList(s)
  BY DEF OneOfARun
<1>2. s \in Seq(S)
  BY <1>1 DEF IsList
<1> HIDE DEF S
<1> DEFINE Once(q) == \A i, j \in DOMAIN q : i # j => q[i] # q[j]
<1>3. {f[i] : i \in DOMAIN f} = {s[i] : i \in DOMAIN s} \cap keep /\ (Once(s) => Once(f))
  BY <1>2, FilteredMembers
<1>4. IsList(f) /\ \A i \in DOMAIN f : \E j \in DOMAIN s : f[i] = s[j]
  BY <1>1, FilteredElements
<1>5. Once(s)
  BY DEF OneOfARun
<1>6. Once(f)
  BY <1>3, <1>5
<1>7. \A i \in DOMAIN f : f[i].run \in Nat
  BY <1>4 DEF OneOfARun
<1>8. ASSUME NEW i \in DOMAIN f, NEW j \in DOMAIN f, i # j PROVE f[i].run # f[j].run
  <2>1. PICK a \in DOMAIN s, b \in DOMAIN s : f[i] = s[a] /\ f[j] = s[b]
    BY <1>4
  <2>2. f[i] # f[j]
    BY <1>6, <1>8
  <2>3. a # b
    BY <2>1, <2>2
  <2> QED
    BY <2>1, <2>3 DEF OneOfARun
<1> QED
  BY <1>3, <1>4, <1>7, <1>8 DEF OneOfARun, Elements

\* Lists of the same traces answer every query alike.
LEMMA QueriesAgree ==
  ASSUME NEW a, NEW b, OneOfARun(a), OneOfARun(b), Elements(a) = Elements(b), NEW q
  PROVE  Query(a, q) = Query(b, q)
<1>1. PICK keep : keep = Matching(a, q)
  OBVIOUS
<1>2. ToSet(a) = Elements(a) /\ ToSet(b) = Elements(b)
  BY DEF ToSet, Elements
<1>3. keep = Matching(b, q)
  BY <1>1, <1>2, Zenon DEF Matching
<1>4. PICK f, g : f = Filtered(a, keep) /\ g = Filtered(b, keep)
  OBVIOUS
<1>5. OneOfARun(f) /\ OneOfARun(g) /\ Elements(f) = Elements(g)
  BY <1>4, FilteredOnce
<1>6. PICK u, v : u = Sorted(f) /\ v = Sorted(g)
  OBVIOUS
<1>7. InRunOrder(u) /\ InRunOrder(v) /\ Elements(u) = Elements(v)
  BY <1>5, <1>6, SortedIs
<1>8. u = v
  BY <1>7, SameOrder
<1> QED
  BY <1>1, <1>3, <1>4, <1>6, <1>8, Zenon DEF Query

\* Each store has the last trace of every run, once.
Keeps(s) == OneOfARun(s) /\ Elements(s) = {kept[r] : r \in DOMAIN kept}

StoresInv ==
  /\ active \in TraceRuns \cup {None}
  /\ DOMAIN kept \subseteq TraceRuns /\ IsFiniteSet(DOMAIN kept)
  /\ \A r \in DOMAIN kept : kept[r].run = r
  /\ Keeps(rows) /\ Keeps(page)

\* What is left of a store when another trace of a run is saved: its other runs, and that one.
SavedInto(s, old, t) ==
  OneOfARun(s) /\ \A x : x \in Elements(s) <=> x = t \/ (x \in Elements(old) /\ x.run # t.run)

LEMMA ElementsAppend ==
  ASSUME NEW s, OneOfARun(s), NEW t, t.run \in Nat, \A i \in DOMAIN s : s[i].run # t.run,
         NEW u, u = Append(s, t)
  PROVE  OneOfARun(u) /\ \A x : x \in Elements(u) <=> x = t \/ x \in Elements(s)
<1>1. PICK n \in Nat : n = Len(s)
  BY ListOf DEF OneOfARun
<1>2. DOMAIN s = 1..n /\ IsList(s)
  BY <1>1, ListOf DEF OneOfARun
<1>3. /\ IsList(u) /\ DOMAIN u = 1..(n + 1)
      /\ \A i \in 1..n : u[i] = s[i]
      /\ u[n + 1] = t
  BY <1>1, <1>2, ListAppend
<1>4. PICK m \in 1..(n + 1) : m = n + 1
  BY <1>1
<1>5. \A i \in DOMAIN u : (i = m /\ u[i] = t) \/ (i \in DOMAIN s /\ u[i] = s[i])
  BY <1>2, <1>3, <1>4
<1>6. \A i \in DOMAIN u : u[i].run \in Nat
  BY <1>5 DEF OneOfARun
<1>7. \A i, j \in DOMAIN u : i # j => u[i].run # u[j].run
  BY <1>5 DEF OneOfARun
<1>8. \A x : x \in Elements(u) <=> x = t \/ x \in Elements(s)
  <2>1. m \in DOMAIN u /\ u[m] = t
    BY <1>3, <1>4
  <2>2. \A i \in DOMAIN s : i \in DOMAIN u /\ u[i] = s[i]
    BY <1>2, <1>3
  <2>3. \A x : x \in Elements(u) <=> \E i \in DOMAIN u : u[i] = x
    BY DEF Elements
  <2>4. \A x : x \in Elements(s) <=> \E i \in DOMAIN s : s[i] = x
    BY DEF Elements
  <2> QED
    BY <1>5, <2>1, <2>2, <2>3, <2>4
<1> QED
  BY <1>3, <1>6, <1>7, <1>8 DEF OneOfARun

LEMMA UpsertedIs ==
  ASSUME OneOfARun(rows), NEW t, t.run \in Nat
  PROVE  SavedInto(Upserted(t), rows, t)
<1>1. CASE \E i \in DOMAIN rows : rows[i].run = t.run
  <2>1. PICK u : u = [i \in DOMAIN rows |-> IF rows[i].run = t.run THEN t ELSE rows[i]]
    OBVIOUS
  <2>2. Upserted(t) = u
    BY <1>1, <2>1 DEF Upserted
  <2>3. PICK n \in Nat : DOMAIN rows = 1..n
    BY ListOf DEF OneOfARun
  <2>4. /\ DOMAIN u = DOMAIN rows /\ u = [i \in 1..n |-> u[i]]
        /\ \A i \in DOMAIN rows : u[i] = IF rows[i].run = t.run THEN t ELSE rows[i]
    BY <2>1, <2>3
  <2>5. IsList(u)
    BY <2>4, FunctionIsList
  <2>6. \A i \in DOMAIN rows : u[i].run = rows[i].run
    BY <2>4
  <2>7. OneOfARun(u)
    <3>1. \A i \in DOMAIN u : u[i].run \in Nat
      BY <2>4, <2>6 DEF OneOfARun
    <3>2. ASSUME NEW i \in DOMAIN u, NEW j \in DOMAIN u, i # j
          PROVE  u[i].run # u[j].run
      <4>1. i \in DOMAIN rows /\ j \in DOMAIN rows
        BY <2>4
      <4>2. rows[i].run # rows[j].run
        BY <3>2, <4>1 DEF OneOfARun
      <4> QED
        BY <2>6, <4>1, <4>2
    <3> QED
      BY <2>5, <3>1, <3>2 DEF OneOfARun
  <2>8. \A x : x \in Elements(u) <=> \E i \in DOMAIN rows : u[i] = x
    BY <2>4 DEF Elements
  <2>9. \A x : x \in Elements(rows) <=> \E i \in DOMAIN rows : rows[i] = x
    BY DEF Elements
  <2>10. \A x : x \in Elements(u) <=> x = t \/ (x \in Elements(rows) /\ x.run # t.run)
    <3> TAKE x
    <3>1. ASSUME NEW i \in DOMAIN rows, u[i] = x
          PROVE  x = t \/ (x \in Elements(rows) /\ x.run # t.run)
      BY <2>4, <2>9, <3>1
    <3>2. \E i \in DOMAIN rows : u[i] = t
      BY <1>1, <2>4
    <3>3. ASSUME NEW i \in DOMAIN rows, rows[i] = x, x.run # t.run
          PROVE  u[i] = x
      BY <2>4, <3>3
    <3> QED
      BY <2>8, <2>9, <3>1, <3>2, <3>3
  <2> QED
    BY <2>2, <2>7, <2>10 DEF SavedInto
<1>2. CASE ~(\E i \in DOMAIN rows : rows[i].run = t.run)
  <2>1. PICK u : u = Append(rows, t)
    OBVIOUS
  <2>2. Upserted(t) = u
    BY <1>2, <2>1 DEF Upserted
  <2>3. OneOfARun(u) /\ \A x : x \in Elements(u) <=> x = t \/ x \in Elements(rows)
    BY <1>2, <2>1, ElementsAppend
  <2>4. \A x : x \in Elements(rows) => x.run # t.run
    BY <1>2 DEF Elements
  <2> QED
    BY <2>2, <2>3, <2>4 DEF SavedInto
<1> QED
  BY <1>1, <1>2

LEMMA WrittenIs ==
  ASSUME OneOfARun(page), NEW t, t.run \in Nat,
         NEW written,
         written = Sorted(Append(Filtered(page, {u \in ToSet(page) : u.run # t.run}), t))
  PROVE  SavedInto(written, page, t)
<1> DEFINE keep == {u \in ToSet(page) : u.run # t.run}
<1>1. \A x : x \in keep <=> x \in Elements(page) /\ x.run # t.run
  BY DEF ToSet, Elements
<1> HIDE DEF keep
<1>2. PICK f : f = Filtered(page, keep)
  OBVIOUS
<1>3. OneOfARun(f) /\ Elements(f) = Elements(page) \cap keep
  BY <1>2, FilteredOnce
<1>4. \A i \in DOMAIN f : f[i].run # t.run
  <2>1. \A i \in DOMAIN f : f[i] \in Elements(f)
    BY DEF Elements
  <2> QED
    BY <1>1, <1>3, <2>1
<1>5. PICK g : g = Append(f, t)
  OBVIOUS
<1>6. OneOfARun(g) /\ \A x : x \in Elements(g) <=> x = t \/ x \in Elements(f)
  BY <1>3, <1>4, <1>5, ElementsAppend
<1>7. written = Sorted(g)
  BY <1>2, <1>5 DEF keep
<1>8. OneOfARun(written) /\ Elements(written) = Elements(g)
  BY <1>6, <1>7, SortedIs, OrderedOnce
<1> QED
  BY <1>1, <1>3, <1>6, <1>8 DEF SavedInto

\* Each store takes a trace in its own way, and has the same then.
LEMMA SavesHold ==
  ASSUME StoresInv, NEW t, t.run \in TraceRuns, Save(t), active' \in TraceRuns \cup {None}
  PROVE  StoresInv'
<1>1. PICK r \in TraceRuns : r = t.run
  OBVIOUS
<1>2. r \in Nat
  BY TraceAssumption
<1>3. /\ DOMAIN kept \subseteq TraceRuns /\ IsFiniteSet(DOMAIN kept)
      /\ \A x \in DOMAIN kept : kept[x].run = x
      /\ Keeps(rows) /\ Keeps(page)
  BY DEF StoresInv
<1>4. kept' = [x \in DOMAIN kept \cup {r} |-> IF x = r THEN t ELSE kept[x]]
  BY <1>1 DEF Save, SaveInMemory
<1>5. /\ DOMAIN kept' = DOMAIN kept \cup {r} /\ kept'[r] = t
      /\ \A x \in DOMAIN kept' : x # r => x \in DOMAIN kept /\ kept'[x] = kept[x]
      /\ \A x \in DOMAIN kept : x \in DOMAIN kept' /\ (x # r => kept'[x] = kept[x])
  BY <1>4
<1>6. DOMAIN kept' \subseteq TraceRuns
  BY <1>3, <1>5
<1>7. IsFiniteSet(DOMAIN kept')
  BY <1>3, <1>5, FS_AddElement
<1>8. \A x \in DOMAIN kept' : kept'[x].run = x
  BY <1>1, <1>3, <1>5
<1> DEFINE Kept == {kept[x] : x \in DOMAIN kept}
           Then == {kept'[x] : x \in DOMAIN kept'}
<1>9. \A y : y \in Then <=> y = t \/ (y \in Kept /\ y.run # r)
  <2>1. ASSUME NEW y, y \in Then PROVE y = t \/ (y \in Kept /\ y.run # r)
    <3>1. PICK x \in DOMAIN kept' : y = kept'[x]
      BY <2>1
    <3>2. CASE x = r
      BY <1>5, <3>1, <3>2
    <3>3. CASE x # r
      <4>1. x \in DOMAIN kept /\ y = kept[x] /\ y.run = x
        BY <1>3, <1>5, <3>1, <3>3
      <4> QED
        BY <3>3, <4>1
    <3> QED
      BY <3>2, <3>3
  <2>2. t \in Then
    BY <1>5
  <2>3. ASSUME NEW y, y \in Kept, y.run # r PROVE y \in Then
    <3>1. PICK x \in DOMAIN kept : y = kept[x]
      BY <2>3
    <3>2. x # r
      BY <1>3, <2>3, <3>1
    <3> QED
      BY <1>5, <3>1, <3>2
  <2> HIDE DEF Then, Kept
  <2> QED
    BY <2>1, <2>2, <2>3
<1>10. ASSUME NEW s, NEW old, SavedInto(s, old, t), Elements(old) = Kept
       PROVE  OneOfARun(s) /\ Elements(s) = Then
  <2> HIDE DEF Then, Kept
  <2>1. \A x : x \in Elements(s) <=> x \in Then
    BY <1>1, <1>9, <1>10 DEF SavedInto
  <2> QED
    BY <1>10, <2>1, Zenon DEF SavedInto
<1>11. Keeps(rows)'
  <2>1. SavedInto(rows', rows, t)
    BY <1>1, <1>2, <1>3, UpsertedIs DEF Save, SaveInTable, Keeps
  <2>2. Elements(rows) = Kept
    BY <1>3 DEF Keeps
  <2>3. OneOfARun(rows') /\ Elements(rows') = Then
    BY <1>10, <2>1, <2>2
  <2> QED
    BY <2>3 DEF Keeps
<1>12. Keeps(page)'
  <2>1. SavedInto(page', page, t)
    BY <1>1, <1>2, <1>3, WrittenIs DEF Save, SaveInFile, Keeps
  <2>2. Elements(page) = Kept
    BY <1>3 DEF Keeps
  <2>3. OneOfARun(page') /\ Elements(page') = Then
    BY <1>10, <2>1, <2>2
  <2> QED
    BY <2>3 DEF Keeps
<1> QED
  BY <1>6, <1>7, <1>8, <1>11, <1>12 DEF StoresInv

LEMMA StoresInvStep ==
  ASSUME StoresInv, [TraceNext]_traceVars
  PROVE  StoresInv'
<1> DEFINE Rest == active' \in TraceRuns \cup {None} /\ kept' = kept /\ rows' = rows /\ page' = page
<1>1. ASSUME Rest PROVE StoresInv'
  BY <1>1 DEF StoresInv, Keeps
<1>2. active \in TraceRuns \cup {None} /\ \A r \in DOMAIN kept : r \in TraceRuns
  BY DEF StoresInv
<1>3. \A r, ended, rounds, all : Bundle(r, ended, rounds, all).run = r
  BY DEF Bundle
<1>4. CASE UNCHANGED traceVars
  BY <1>1, <1>2, <1>4 DEF traceVars
<1>5. ASSUME NEW r \in TraceRuns, BeginRun(r) PROVE StoresInv'
  BY <1>1, <1>5 DEF BeginRun
<1>6. ASSUME NEW item \in Items, Record(item) PROVE StoresInv'
  BY <1>1, <1>2, <1>6 DEF Record
<1>7. ASSUME NEW ended \in EndStatuses, FinishRun(ended) PROVE StoresInv'
  <2>1. PICK t : /\ t = Bundle(active, ended, 1, Where(log, LAMBDA item : InBundle(item, active)))
                 /\ Save(t)
    BY <1>7 DEF FinishRun
  <2>2. t.run \in TraceRuns /\ active' \in TraceRuns \cup {None}
    BY <1>2, <1>3, <1>7, <2>1 DEF FinishRun
  <2> QED
    BY <2>1, <2>2, SavesHold
<1>8. ASSUME NEW r \in TraceRuns, NEW p \in Items, BlockRun(r, p) PROVE StoresInv'
  <2> DEFINE own == Append(Where(log, LAMBDA item : InBundle(item, r)),
                           [section |-> "preflight", run |-> r, data |-> p.data])
  <2>1. PICK t : t = Bundle(r, "denied", 0, own) /\ Save(t)
    BY <1>8 DEF BlockRun
  <2> HIDE DEF own
  <2>2. t.run \in TraceRuns /\ active' \in TraceRuns \cup {None}
    BY <1>2, <1>3, <1>8, <2>1 DEF BlockRun
  <2> QED
    BY <2>1, <2>2, SavesHold
<1>9. ASSUME NEW r \in TraceRuns, HostSaves(r) PROVE StoresInv'
  <2> DEFINE all == Where(log, LAMBDA item : item.run \in {r, None})
  <2>1. PICK t : t = Bundle(r, kept[r].status, kept[r].iterations, all) /\ Save(t)
    BY <1>9 DEF HostSaves
  <2> HIDE DEF all
  <2>2. t.run \in TraceRuns /\ active' \in TraceRuns \cup {None}
    BY <1>2, <1>3, <1>9, <2>1 DEF HostSaves
  <2> QED
    BY <2>1, <2>2, SavesHold
<1> QED
  BY <1>4, <1>5, <1>6, <1>7, <1>8, <1>9 DEF TraceNext

\* The dictionary lists its traces by run.
LEMMA MemoryKeeps ==
  ASSUME StoresInv
  PROVE  Keeps(RecordsInMemory)
<1> DEFINE S == DOMAIN kept
           key == [r \in S |-> <<r>>]
           R == SortedBy(S, key)
<1>1. /\ \A r \in S : r \in Nat /\ kept[r].run = r
      /\ IsFiniteSet(S)
  BY TraceAssumption DEF StoresInv
<1>2. PICK u : u = RecordsInMemory
  OBVIOUS
<1>3. u = [k \in DOMAIN R |-> kept[R[k]]]
  BY <1>2 DEF RecordsInMemory
<1>4. \A r \in S : key[r] = <<r>>
  OBVIOUS
<1> HIDE DEF S, key
<1>5. KeysOf(S, key, 1)
  BY <1>1, <1>4 DEF KeysOf
<1>6. PICK n \in Nat : n = Cardinality(S)
  BY <1>1, FS_CardinalityType
<1>7. ListsBy(R, S, key)
  BY <1>1, <1>5, SortedByIs
<1> HIDE DEF R
<1>8. /\ R \in Seq(S) /\ Len(R) = n /\ {R[k] : k \in DOMAIN R} = S
      /\ \A i, j \in DOMAIN R : i # j => R[i] # R[j]
  BY <1>6, <1>7, Zenon DEF ListsBy
<1>9. DOMAIN R = 1..n /\ \A k \in 1..n : R[k] \in S
  BY <1>8
<1>10. u = [k \in 1..n |-> u[k]] /\ \A k \in 1..n : u[k] = kept[R[k]]
  BY <1>3, <1>9
<1>11. IsList(u) /\ DOMAIN u = 1..n
  BY <1>10, FunctionIsList
<1>12. \A k \in 1..n : u[k].run = R[k]
  BY <1>1, <1>9, <1>10
<1>13. OneOfARun(u)
  BY <1>1, <1>8, <1>9, <1>11, <1>12 DEF OneOfARun
<1>14. Elements(u) = {kept[r] : r \in S}
  <2>1. Elements(u) = {kept[R[k]] : k \in 1..n}
    BY <1>10, <1>11 DEF Elements
  <2>2. \A r \in S : \E k \in 1..n : R[k] = r
    BY <1>8, <1>9
  <2> QED
    BY <1>9, <2>1, <2>2
<1> QED
  BY <1>2, <1>13, <1>14 DEF Keeps, S

\* Whatever was saved, in whatever order and however often: the dictionary, the table and the
\* file answer every query alike (RunTraceStorePort in trace.py).
THEOREM TraceStoresAgree == TraceSpec => []StoresAgree
<1>1. TraceInit => StoresInv
  <2> SUFFICES ASSUME TraceInit PROVE StoresInv
    OBVIOUS
  <2>1. kept = << >> /\ rows = << >> /\ page = << >> /\ active = None
    BY DEF TraceInit
  <2>2. DOMAIN kept = {} /\ DOMAIN rows = {} /\ DOMAIN page = {}
    BY <2>1
  <2>3. IsFiniteSet(DOMAIN kept)
    BY <2>2, FS_EmptySet
  <2>4. IsList(<< >>)
    BY DEF IsList
  <2>5. Keeps(rows) /\ Keeps(page)
    BY <2>1, <2>2, <2>4 DEF Keeps, OneOfARun, Elements
  <2> QED
    BY <2>1, <2>2, <2>3, <2>5 DEF StoresInv
<1>2. StoresInv /\ [TraceNext]_traceVars => StoresInv'
  BY StoresInvStep
<1>3. StoresInv => StoresAgree
  <2> SUFFICES ASSUME StoresInv PROVE StoresAgree
    OBVIOUS
  <2>1. Keeps(RecordsInMemory) /\ Keeps(rows) /\ Keeps(page)
    BY MemoryKeeps DEF StoresInv
  <2>2. ASSUME NEW q \in TraceQueries
        PROVE  /\ Query(RecordsInMemory, q) = Query(rows, q)
               /\ Query(RecordsInMemory, q) = Query(page, q)
    BY <2>1, QueriesAgree DEF Keeps
  <2> QED
    BY <2>2 DEF StoresAgree
<1> QED
  BY <1>1, <1>2, <1>3, PTL DEF TraceSpec

-----------------------------------------------------------------------------
(* What is in a saved trace.                                                *)

\* A run resumes once and plans one prompt.
Singly == {"resume", "resume_plan", "prompt_budget"}

\* The items of a trace are of those that a run may record.
Recorded(s) ==
  /\ IsList(s)
  /\ \A i \in DOMAIN s : \E item \in Items : s[i].section = item.section /\ s[i].data = item.data
  /\ \A i, j \in DOMAIN s : i # j /\ s[i].section = s[j].section => s[i].section \notin Singly
RecordedTrace(t) == \E r, ended, rounds, all : t = Bundle(r, ended, rounds, all) /\ Recorded(all)

LEMMA FilteredSame ==
  ASSUME NEW S, NEW s \in Seq(S), NEW K, NEW M, \A x \in S : x \in K <=> x \in M
  PROVE  Filtered(s, K) = Filtered(s, M)
<1> DEFINE Good == {v \in Seq(S) : Filtered(v, K) = Filtered(v, M)}
<1>1. << >> \in Good
  <2>1. Filtered(<< >>, K) = << >> /\ Filtered(<< >>, M) = << >> /\ << >> \in Seq(S)
    BY FilteredEmpty
  <2> QED
    BY <2>1
<1>2. ASSUME NEW v \in Seq(S), NEW x \in S, v \in Good PROVE Append(v, x) \in Good
  <2>1. Filtered(Append(v, x), K) = IF x \in K THEN Append(Filtered(v, K), x) ELSE Filtered(v, K)
    BY FilteredAppend
  <2>2. Filtered(Append(v, x), M) = IF x \in M THEN Append(Filtered(v, M), x) ELSE Filtered(v, M)
    BY FilteredAppend
  <2>3. Filtered(Append(v, x), K) = Filtered(Append(v, x), M)
    BY <1>2, <2>1, <2>2
  <2> QED
    BY <2>3
<1> HIDE DEF Good
<1>3. s \in Good
  BY <1>1, <1>2, ListInduction
<1> QED
  BY <1>3 DEF Good

LEMMA FilteredTwice ==
  ASSUME NEW S, NEW s \in Seq(S), NEW K, NEW M
  PROVE  Filtered(Filtered(s, K), M) = Filtered(s, K \cap M)
<1> DEFINE Good == {v \in Seq(S) : Filtered(Filtered(v, K), M) = Filtered(v, K \cap M)}
<1>1. << >> \in Good
  <2>1. Filtered(<< >>, K) = << >> /\ << >> \in Seq(S)
    BY FilteredEmpty
  <2>2. Filtered(<< >>, M) = << >> /\ Filtered(<< >>, K \cap M) = << >>
    BY FilteredEmpty
  <2> QED
    BY <2>1, <2>2
<1>2. ASSUME NEW v \in Seq(S), NEW x \in S, v \in Good PROVE Append(v, x) \in Good
  <2>1. PICK f \in Seq(S) : f = Filtered(v, K)
    <3>1. Filtered(v, K) \in Seq(S \cap K)
      BY FilteredType
    <3>2. Filtered(v, K) \in Seq(S)
      BY <3>1
    <3> QED
      BY <3>2
  <2>2. Filtered(Append(v, x), K) = IF x \in K THEN Append(f, x) ELSE f
    BY <2>1, FilteredAppend
  <2>3. Filtered(Append(f, x), M) = IF x \in M THEN Append(Filtered(f, M), x) ELSE Filtered(f, M)
    BY FilteredAppend
  <2>4. PICK L : L = K \cap M
    OBVIOUS
  <2>5. Filtered(Append(v, x), L) = IF x \in L THEN Append(Filtered(v, L), x) ELSE Filtered(v, L)
    BY FilteredAppend
  <2>6. Filtered(f, M) = Filtered(v, L)
    BY <1>2, <2>1, <2>4
  <2>7. x \in L <=> x \in K /\ x \in M
    BY <2>4
  <2>8. Filtered(Filtered(Append(v, x), K), M) = Filtered(Append(v, x), L)
    BY <2>2, <2>3, <2>5, <2>6, <2>7
  <2> QED
    BY <2>4, <2>8
<1> HIDE DEF Good
<1>3. s \in Good
  BY <1>1, <1>2, ListInduction
<1> QED
  BY <1>3 DEF Good

\* The data of a section.
LEMMA OfIs ==
  ASSUME NEW t, RecordedTrace(t), NEW section
  PROVE  /\ IsList(Of(t, section))
         /\ \A i \in DOMAIN Of(t, section) :
              \E item \in Items : item.section = section /\ Of(t, section)[i] = item.data
<1>1. PICK r, ended, rounds, all : t = Bundle(r, ended, rounds, all) /\ Recorded(all)
  BY DEF RecordedTrace
<1>2. t.items = all
  BY <1>1 DEF Bundle
<1>3. PICK K : K = {x \in ToSet(all) : x.section = section}
  OBVIOUS
<1>4. PICK own : own = Filtered(all, K)
  OBVIOUS
<1>5. Of(t, section) = [i \in DOMAIN own |-> own[i].data]
  BY <1>2, <1>3, <1>4 DEF Of, DataOf
<1>6. /\ IsList(own)
      /\ \A i \in DOMAIN own : own[i] \in K /\ \E j \in DOMAIN all : own[i] = all[j]
  BY <1>1, <1>4, FilteredElements DEF Recorded
<1>7. \A i \in DOMAIN own : \E item \in Items : item.section = section /\ own[i].data = item.data
  BY <1>1, <1>3, <1>6 DEF Recorded
<1>8. Len(own) \in Nat /\ DOMAIN own = 1..Len(own)
  BY <1>6, ListOf
<1>9. PICK q : q = Of(t, section)
  OBVIOUS
<1>10. q = [i \in 1..Len(own) |-> q[i]] /\ \A i \in 1..Len(own) : q[i] = own[i].data
  BY <1>5, <1>8, <1>9
<1>11. IsList(q) /\ DOMAIN q = 1..Len(own)
  BY <1>8, <1>10, FunctionIsList
<1> QED
  BY <1>7, <1>8, <1>9, <1>10, <1>11

\* At most one resume point, resume plan and prompt budget.
LEMMA OfOne ==
  ASSUME NEW t, RecordedTrace(t), NEW section \in Singly
  PROVE  \A i, j \in DOMAIN Of(t, section) : i = j
<1>1. PICK r, ended, rounds, all : t = Bundle(r, ended, rounds, all) /\ Recorded(all)
  BY DEF RecordedTrace
<1>2. t.items = all
  BY <1>1 DEF Bundle
<1>3. PICK K : K = {x \in ToSet(all) : x.section = section}
  OBVIOUS
<1>4. PICK own : own = Filtered(all, K)
  OBVIOUS
<1>5. Of(t, section) = [i \in DOMAIN own |-> own[i].data]
  BY <1>2, <1>3, <1>4 DEF Of, DataOf
<1>6. PICK S : all \in Seq(S)
  BY <1>1 DEF Recorded, IsList
<1>7. KeepsOrder(own, all, Len(all))
  BY <1>4, <1>6, FilteredOrder
<1>8. IsList(own) /\ \A i \in DOMAIN own : own[i].section = section
  BY <1>1, <1>3, <1>4, FilteredElements DEF Recorded
<1>9. Len(own) \in Nat /\ DOMAIN own = 1..Len(own) /\ DOMAIN all = 1..Len(all) /\ Len(all) \in Nat
  BY <1>1, <1>8, ListOf DEF Recorded
<1>10. ASSUME NEW i \in DOMAIN own, NEW j \in DOMAIN own, i < j PROVE FALSE
  <2>1. PICK a, b \in 1..Len(all) : a < b /\ own[i] = all[a] /\ own[j] = all[b]
    BY <1>7, <1>10 DEF KeepsOrder
  <2>2. all[a].section = section /\ all[b].section = section /\ a # b
    BY <1>8, <1>9, <2>1
  <2> QED
    BY <1>1, <1>9, <2>1, <2>2 DEF Recorded
<1>11. \A i, j \in DOMAIN own : i = j
  BY <1>9, <1>10
<1> QED
  BY <1>5, <1>11

LEMMA BareIs ==
  ASSUME NEW t, RecordedTrace(t)
  PROVE  /\ t.built = TRUE /\ Bare(t).built = FALSE
         /\ \A section : Of(Bare(t), section) = Of(t, section)
<1>1. PICK r, ended, rounds, all : t = Bundle(r, ended, rounds, all)
  BY DEF RecordedTrace
<1>2. t.built = TRUE /\ Bare(t).built = FALSE /\ Bare(t).items = t.items
  BY <1>1 DEF Bundle, Bare
<1>3. \A section : Of(Bare(t), section) = Of(t, section)
  <2>1. PICK b : b = Bare(t)
    OBVIOUS
  <2>2. b.items = t.items
    BY <1>2, <2>1
  <2> TAKE section
  <2>3. Of(b, section) = Of(t, section)
    BY <2>2 DEF Of
  <2> QED
    BY <2>1, <2>3
<1> QED
  BY <1>2, <1>3

-----------------------------------------------------------------------------
(* What the evaluator derives of a trace is what its bundle derives.        *)

LEMMA HandoffsAgree ==
  ASSUME NEW t, RecordedTrace(t)
  PROVE  HandoffTrace(t) = OwnHandoffs(t)
<1>1. PICK s : s = Of(t, "handoff")
  OBVIOUS
<1>2. \A i \in DOMAIN s : s[i] \in [status : STRING, selected : STRING, source : STRING,
        target : STRING]
  BY <1>1, OfIs, ItemsAssumption
<1>3. ASSUME NEW r \in [status : STRING, selected : STRING, source : STRING, target : STRING]
      PROVE  HandoffRecord(r) = IF r.status # NoText \/ r.selected = NoText THEN r
                                ELSE [r EXCEPT !.status = "selected"]
  BY <1>3 DEF HandoffRecord
<1> DEFINE a == [i \in DOMAIN s |-> HandoffRecord(s[i])]
           b == [i \in DOMAIN s |-> IF s[i].status # NoText \/ s[i].selected = NoText THEN s[i]
                                    ELSE [s[i] EXCEPT !.status = "selected"]]
<1>4. a = b
  <2>1. \A i \in DOMAIN s : HandoffRecord(s[i]) =
          IF s[i].status # NoText \/ s[i].selected = NoText THEN s[i]
                                    ELSE [s[i] EXCEPT !.status = "selected"]
    BY <1>2, <1>3
  <2> QED
    BY <2>1
<1>5. HandoffTrace(t) = Filtered(a, {r \in ToSet(a) : r.status # NoText})
  BY <1>1 DEF HandoffTrace, Where
<1>6. OwnHandoffs(t) = Filtered(b, {r \in ToSet(b) : r.status # NoText})
  BY <1>1 DEF OwnHandoffs, Derived, Where
<1> QED
  BY <1>4, <1>5, <1>6

LEMMA ApprovalsAgree ==
  ASSUME NEW t, RecordedTrace(t)
  PROVE  ApprovalTrace(t) = OwnApprovals(t) /\ ArtifactTrace(t) = OwnArtifacts(t)
<1>1. PICK a, b : a = Of(t, "approvals") /\ b = Of(t, "artifacts")
  OBVIOUS
<1>2. a = [i \in DOMAIN a |-> a[i]] /\ b = [i \in DOMAIN b |-> b[i]]
  <2>1. PICK S, U : a \in Seq(S) /\ b \in Seq(U)
    BY <1>1, OfIs DEF IsList
  <2> QED
    BY <2>1
<1>3. ApprovalTrace(t) = OwnApprovals(t)
  <2>1. OwnApprovals(t) = Filtered([i \in DOMAIN a |-> a[i]],
          {r \in ToSet([i \in DOMAIN a |-> a[i]]) : r.id # NoText})
    BY <1>1 DEF OwnApprovals, Derived, Where
  <2>2. ApprovalTrace(t) = Filtered(a, {r \in ToSet(a) : r.id # NoText})
    BY <1>1 DEF ApprovalTrace, Where
  <2> QED
    BY <1>2, <2>1, <2>2
<1>4. ArtifactTrace(t) = OwnArtifacts(t)
  <2>1. OwnArtifacts(t) = Filtered([i \in DOMAIN b |-> b[i]],
          {r \in ToSet([i \in DOMAIN b |-> b[i]]) : r.id # NoText})
    BY <1>1 DEF OwnArtifacts, Derived, Where
  <2>2. ArtifactTrace(t) = Filtered(b, {r \in ToSet(b) : r.id # NoText})
    BY <1>1 DEF ArtifactTrace, Where
  <2> QED
    BY <1>2, <2>1, <2>2
<1> QED
  BY <1>3, <1>4

\* A material an injection used: the two build its record in one go or out of what is selected.
LEMMA MaterialsAgree ==
  ASSUME NEW t, RecordedTrace(t)
  PROVE  ContextMaterialTrace(t) = OwnMaterials(t)
<1>1. PICK s : s = Of(t, "context_injections")
  OBVIOUS
<1>2. PICK S : s \in Seq(S)
  BY <1>1, OfIs DEF IsList
<1> DEFINE Own(i) == [name |-> i.name, status |-> "selected",
                      selected |-> i.material # None, bytes |-> i.bytes,
                      target |-> IF i.material = None \/ i.material.target = NoText
                                 THEN i.target ELSE i.material.target]
           UsedOf(i) == [name |-> i.name, status |-> "selected", selected |-> TRUE,
                       target |-> IF i.material.target # NoText THEN i.material.target
                           ELSE i.target,
                       bytes |-> i.bytes]
           f == [i \in S |-> Own(i)]
           own == [i \in DOMAIN s |-> Own(s[i])]
           K == {i \in ToSet(s) : i.material # None}
           M == {m \in ToSet(own) : m.selected}
           q == Filtered(s, K)
<1>3. ContextMaterialTrace(t) = IF Of(t, "materials") # << >> THEN Of(t, "materials")
                                ELSE [i \in DOMAIN q |-> UsedOf(q[i])]
  BY <1>1 DEF ContextMaterialTrace, Where
<1>4. OwnMaterials(t) = IF Of(t, "materials") # << >> THEN Of(t, "materials") ELSE Filtered(own, M)
  BY <1>1 DEF OwnMaterials, Derived, Where
<1>5. [i \in DOMAIN q |-> UsedOf(q[i])] = Filtered(own, M)
  <2>1. \A i \in DOMAIN s : s[i] \in S /\ s[i] \in ToSet(s) /\ own[i] = Own(s[i])
          /\ f[s[i]] = own[i] /\ own[i] \in ToSet(own)
    BY <1>2 DEF ToSet
  <2>2. \A x \in ToSet(s) : \E i \in DOMAIN s : s[i] = x
    BY DEF ToSet
  <2>3. \A i : Own(i).selected <=> i.material # None
    OBVIOUS
  <2>4. \A i : i.material # None => Own(i) = UsedOf(i)
    OBVIOUS
  <2>5. \A x \in ToSet(s) : x \in K <=> f[x] \in M
    <3> TAKE x \in ToSet(s)
    <3>1. PICK i \in DOMAIN s : s[i] = x
      BY <2>2
    <3>2. f[x] = Own(x) /\ f[x] \in ToSet(own)
      BY <2>1, <3>1
    <3> HIDE DEF own, f, Own
    <3> QED
      BY <2>3, <3>2
  <2>6. s \in Seq(ToSet(s))
    <3>1. IsList(s)
      BY <1>1, OfIs
    <3> QED
      BY <3>1 DEF IsList, ToSet
  <2>7. own = [i \in DOMAIN s |-> f[s[i]]]
    BY <2>1
  <2>8. IsList(q) /\ \A i \in DOMAIN q : q[i] \in K /\ \E j \in DOMAIN s : q[i] = s[j]
    <3> HIDE DEF K
    <3>1. IsList(s)
      BY <1>1, OfIs
    <3> QED
      BY <3>1, FilteredElements
  <2>9. PICK g, v, L, N : g = f /\ v = q /\ L = K /\ N = M
    OBVIOUS
  <2>10. [i \in DOMAIN v |-> g[v[i]]] = Filtered([i \in DOMAIN s |-> g[s[i]]], N)
    <3>1. v = Filtered(s, L) /\ \A x \in ToSet(s) : x \in L <=> g[x] \in N
      BY <2>5, <2>9
    <3> QED
      BY <2>6, <3>1, FilteredMade
  <2>11. \A i \in DOMAIN q : f[q[i]] = UsedOf(q[i])
    <3> TAKE i \in DOMAIN q
    <3>1. PICK j \in DOMAIN s : q[i] = s[j]
      BY <2>8
    <3>2. f[q[i]] = Own(q[i]) /\ q[i].material # None
      BY <2>1, <2>8, <3>1
    <3> HIDE DEF q, f, Own, UsedOf
    <3> QED
      BY <2>4, <3>2
  <2>12. [i \in DOMAIN q |-> UsedOf(q[i])] = [i \in DOMAIN q |-> f[q[i]]]
    BY <2>11
  <2> HIDE DEF q, f, own, M, K, UsedOf, Own
  <2> QED
    BY <2>7, <2>9, <2>10, <2>12
<1> QED
  BY <1>3, <1>4, <1>5

\* A list is a list of what it holds.
LEMMA ListOfItself ==
  ASSUME NEW s, IsList(s)
  PROVE  s \in Seq(ToSet(s)) /\ \A x : x \in ToSet(s) <=> \E i \in DOMAIN s : s[i] = x
BY DEF IsList, ToSet

LEMMA StructuredRecordIs ==
  ASSUME NEW state
  PROVE  StructuredRecord(state)
           = [status |-> CASE state.status # NoText -> state.status
                           [] state.status = NoText /\ state.ok = "true" -> "structured_output_ok"
                           [] OTHER -> "structured_output_failed",
              ok |-> state.ok = "true", schema |-> state.schema, error |-> state.error]
<1>1. (IF state.status # NoText THEN state.status
       ELSE IF state.ok = "true" THEN "structured_output_ok" ELSE "structured_output_failed")
        = CASE state.status # NoText -> state.status
            [] state.status = NoText /\ state.ok = "true" -> "structured_output_ok"
            [] OTHER -> "structured_output_failed"
  <2>1. CASE state.status # NoText
    BY <2>1, Zenon
  <2>2. CASE state.status = NoText /\ state.ok = "true"
    BY <2>2
  <2>3. CASE state.status = NoText /\ state.ok # "true"
    BY <2>3
  <2> QED
    BY <2>1, <2>2, <2>3
<1>2. PICK given : given = (IF state.status # NoText THEN state.status
       ELSE IF state.ok = "true" THEN "structured_output_ok" ELSE "structured_output_failed")
  OBVIOUS
<1>3. StructuredRecord(state) = [status |-> given, ok |-> state.ok = "true",
        schema |-> state.schema, error |-> state.error]
  BY <1>2, Zenon DEF StructuredRecord
<1> QED
  BY <1>1, <1>2, <1>3, Zenon

\* The states of the checkpoints: the bundle picks and then reads, the evaluator reads first.
LEMMA StructuredAgree ==
  ASSUME NEW t, RecordedTrace(t)
  PROVE  StructuredOutputTrace(t) = OwnStructured(t)
<1>1. PICK s : s = Of(t, "journal")
  OBVIOUS
<1>2. IsList(s)
  BY <1>1, OfIs
<1> DEFINE Own(state) == [status |-> CASE state.status # NoText -> state.status
                                       [] state.status = NoText /\ state.ok
                                           = "true" -> "structured_output_ok"
                                       [] OTHER -> "structured_output_failed",
                          ok |-> state.ok = "true", schema |-> state.schema, error |-> state.error]
           A == {e \in ToSet(s) : e.type = "checkpoint" /\ IsStructured(e.state)}
           at == Filtered(s, A)
           C == {e \in ToSet(s) : e.type = "checkpoint"}
           c == Filtered(s, C)
           b == [i \in DOMAIN c |-> c[i].state]
           B == {x \in ToSet(b) : ~(x.status \notin FaultStatuses /\ x.ok = "none")}
           states == Filtered(b, B)
           D == {e \in ToSet(c) : IsStructured(e.state)}
<1>3. StructuredOutputTrace(t) = [i \in DOMAIN at |-> StructuredRecord(at[i].state)]
  BY <1>1 DEF StructuredOutputTrace, Where
<1>4. OwnStructured(t) = [i \in DOMAIN states |-> Own(states[i])]
  BY <1>1 DEF OwnStructured, Derived, Where
<1>5. \A state : StructuredRecord(state) = Own(state)
  BY StructuredRecordIs
<1>6. s \in Seq(ToSet(s)) /\ \A x : x \in ToSet(s) <=> \E i \in DOMAIN s : s[i] = x
  BY <1>2, ListOfItself
<1>7. IsList(c) /\ \A i \in DOMAIN c : c[i] \in C
  <2>1. PICK K : K = C
    OBVIOUS
  <2>2. IsList(Filtered(s, K)) /\ \A i \in DOMAIN Filtered(s, K) : Filtered(s, K)[i] \in K
    BY <1>2, FilteredElements
  <2> QED
    BY <2>1, <2>2
<1>8. c \in Seq(ToSet(c)) /\ \A x : x \in ToSet(c) <=> \E i \in DOMAIN c : c[i] = x
  <2> HIDE DEF c
  <2> QED
    BY <1>7, ListOfItself
<1>9. at = Filtered(c, D)
  <2>1. PICK K, L : K = C /\ L = D
    OBVIOUS
  <2>2. Filtered(Filtered(s, K), L) = Filtered(s, K \cap L)
    BY <1>6, FilteredTwice
  <2>3. \A x \in ToSet(s) : x \in A <=> x \in K \cap L
    <3> TAKE x \in ToSet(s)
    <3>1. ASSUME x \in C PROVE x \in ToSet(c)
      <4>1. PICK S : s \in Seq(S)
        BY <1>6
      <4>2. {Filtered(s, K)[i] : i \in DOMAIN Filtered(s, K)} = {s[i] : i \in DOMAIN s} \cap K
        BY <4>1, FilteredMembers
      <4>3. x \in {s[i] : i \in DOMAIN s} \cap K
        BY <1>6, <2>1, <3>1
      <4>4. x \in {c[i] : i \in DOMAIN c}
        BY <2>1, <4>2, <4>3
      <4> QED
        BY <4>4 DEF ToSet
    <3> HIDE DEF c
    <3> QED
      BY <2>1, <3>1
  <2>4. PICK N : N = A
    OBVIOUS
  <2>5. Filtered(s, N) = Filtered(s, K \cap L)
    <3>1. PICK J : J = K \cap L
      OBVIOUS
    <3>2. \A x \in ToSet(s) : x \in N <=> x \in J
      BY <2>3, <2>4, <3>1
    <3>3. Filtered(s, N) = Filtered(s, J)
      BY <1>6, <3>2, FilteredSame
    <3> QED
      BY <3>1, <3>3
  <2> QED
    BY <2>1, <2>2, <2>4, <2>5
<1> DEFINE f == [e \in ToSet(c) |-> e.state]
<1>10. [i \in DOMAIN at |-> f[at[i]]] = states
  <2> HIDE DEF c
  <2>1. b = [i \in DOMAIN c |-> f[c[i]]] /\ \A i \in DOMAIN c : b[i] = f[c[i]]
    BY <1>8
  <2>2. \A x \in ToSet(c) : f[x] \in ToSet(b)
    <3> TAKE x \in ToSet(c)
    <3>1. PICK i \in DOMAIN c : c[i] = x
      BY <1>8
    <3>2. i \in DOMAIN b /\ b[i] = f[x]
      BY <2>1, <3>1
    <3> HIDE DEF b, f
    <3> QED
      BY <3>2 DEF ToSet
  <2>3. \A x \in ToSet(c) : x \in D <=> f[x] \in B
    <3> TAKE x \in ToSet(c)
    <3>1. f[x] = x.state /\ f[x] \in ToSet(b)
      BY <2>2
    <3> HIDE DEF b, f
    <3> QED
      BY <3>1 DEF IsStructured
  <2>4. PICK g, L, N, q : g = f /\ L = D /\ N = B /\ q = at
    OBVIOUS
  <2>5. q = Filtered(c, L) /\ \A x \in ToSet(c) : x \in L <=> g[x] \in N
    BY <1>9, <2>3, <2>4
  <2>6. [i \in DOMAIN q |-> g[q[i]]] = Filtered([i \in DOMAIN c |-> g[c[i]]], N)
    <3>1. PICK h, T : h = c /\ T = ToSet(c)
      OBVIOUS
    <3>2. h \in Seq(T) /\ q = Filtered(h, L) /\ \A x \in T : x \in L <=> g[x] \in N
      BY <1>8, <2>5, <3>1
    <3>3. [i \in DOMAIN q |-> g[q[i]]] = Filtered([i \in DOMAIN h |-> g[h[i]]], N)
      BY <3>2, FilteredMade
    <3> QED
      BY <3>1, <3>3
  <2> HIDE DEF f, B, D, at, b
  <2> QED
    BY <2>1, <2>4, <2>6
<1>11. \A i \in DOMAIN at : at[i] \in ToSet(c)
  <2> HIDE DEF at, c
  <2>1. PICK L : L = D
    OBVIOUS
  <2>2. \A i \in DOMAIN Filtered(c, L) : Filtered(c, L)[i] \in L
    BY <1>7, FilteredElements
  <2>3. \A i \in DOMAIN at : at[i] \in L
    BY <1>9, <2>1, <2>2
  <2> QED
    BY <2>1, <2>3
<1>12. DOMAIN states = DOMAIN at /\ \A i \in DOMAIN at : states[i] = at[i].state
  <2>1. \A x \in ToSet(c) : f[x] = x.state
    OBVIOUS
  <2>2. PICK q, v : q = at /\ v = states
    OBVIOUS
  <2>3. v = [i \in DOMAIN q |-> f[q[i]]] /\ \A i \in DOMAIN q : q[i] \in ToSet(c)
    BY <1>10, <1>11, <2>2
  <2> HIDE DEF f, at, states, c
  <2>4. DOMAIN v = DOMAIN q /\ \A i \in DOMAIN q : v[i] = q[i].state
    BY <2>1, <2>3
  <2> QED
    BY <2>2, <2>4
<1>13. \A i \in DOMAIN at : StructuredRecord(at[i].state) = Own(states[i])
  <2> HIDE DEF at, states, Own
  <2> QED
    BY <1>5, <1>12
<1> HIDE DEF at, states, Own
<1>14. [i \in DOMAIN at |-> StructuredRecord(at[i].state)]
         = [i \in DOMAIN states |-> Own(states[i])]
  BY <1>12, <1>13
<1> QED
  BY <1>3, <1>4, <1>14

\* Agents that are recorded in the results of calls alone, and with a name.
LEMMA AgentsAgree ==
  ASSUME NEW t, RecordedTrace(t), OwnRecordOnly(t)
  PROVE  AgentTools(t) = AgentTools(Bare(t))
<1>1. PICK s : s = Of(t, "tools")
  OBVIOUS
<1>2. IsList(s)
  BY <1>1, OfIs
<1>3. \A i \in DOMAIN s : s[i].agent = None
        /\ (s[i].resultAgent # None => IsAgentRecord(s[i].resultAgent))
  BY <1>1 DEF OwnRecordOnly
<1> DEFINE found == [i \in DOMAIN s |-> IF IsAgentRecord(s[i].agent) THEN s[i].agent
      ELSE s[i].resultAgent]
           own == [i \in DOMAIN s |-> s[i].resultAgent]
           K == {r \in ToSet(found) : IsAgentRecord(r)}
           M == {r \in ToSet(own) : r # None}
           real == Filtered(found, K)
           held == Filtered(own, M)
<1>4. AgentTools(t) = [i \in DOMAIN real |-> AgentRecord(real[i])]
  BY <1>1, BareIs DEF AgentTools, AgentToolTrace, Where
<1>5. AgentTools(Bare(t)) = [i \in DOMAIN held |-> AgentRecord(held[i])]
  BY <1>1, BareIs DEF AgentTools, Where
<1>6. found = own
  BY <1>3 DEF IsAgentRecord
<1>7. IsList(own)
  <2>1. PICK q : q = own
    OBVIOUS
  <2>2. q = [i \in 1..Len(s) |-> q[i]] /\ Len(s) \in Nat
    BY <1>2, <2>1, ListOf
  <2>3. IsList(q)
    BY <2>2, FunctionIsList
  <2> QED
    BY <2>1, <2>3
<1>8. \A x \in ToSet(own) : IsAgentRecord(x) <=> x # None
  BY <1>3 DEF ToSet, IsAgentRecord
<1>9. Filtered(own, {r \in ToSet(own) : IsAgentRecord(r)}) = held
  <2> HIDE DEF own
  <2>1. PICK L, N : L = {r \in ToSet(own) : IsAgentRecord(r)} /\ N = M
    OBVIOUS
  <2>2. \A x \in ToSet(own) : x \in L <=> x \in N
    BY <1>8, <2>1
  <2>3. own \in Seq(ToSet(own))
    BY <1>7, ListOfItself
  <2>4. Filtered(own, L) = Filtered(own, N)
    BY <2>2, <2>3, FilteredSame
  <2> QED
    BY <2>1, <2>4
<1> HIDE DEF own
<1>10. real = held
  BY <1>6, <1>9
<1> QED
  BY <1>4, <1>5, <1>10

\* A server's own status, or what the last refresh adds to it.
LEMMA ServersAgree ==
  ASSUME NEW t, NEW status
  PROVE  ServersWith(t, status) = OwnServers(t, status)
<1>1. PICK s, r : s = Of(t, "mcp_servers") /\ r = Of(t, "mcp_refreshes")
  OBVIOUS
<1>2. PICK late : late = (status \in {"partial", "failed"})
  OBVIOUS
<1> DEFINE added == IF status \in {"partial", "failed"} THEN r ELSE << >>
           With == {s[i].name : i \in {j \in DOMAIN s : s[j].status = status}}
                     \cup {added[i].name : i \in {j \in DOMAIN added : added[j].status = status}}
           own == {<<x.name, x.status>> : x \in ToSet(s)}
           last == {<<x.name, x.status>> : x \in ToSet(r)}
           all == own \cup {x \in last : x[2] \in {"failed", "partial"}}
           Own == {x[1] : x \in {y \in all : y[2] = status}}
<1>3. ServersWith(t, status) = With
  BY <1>1 DEF ServersWith
<1>4. OwnServers(t, status) = Own
  BY <1>1 DEF OwnServers
<1>5. \A n : n \in With <=> \/ \E i \in DOMAIN s : s[i].status = status /\ s[i].name = n
                            \/ /\ status \in {"partial", "failed"}
                               /\ \E i \in DOMAIN r : r[i].status = status /\ r[i].name = n
  <2>1. \A n : n \in With <=> \/ \E i \in DOMAIN s : s[i].status = status /\ s[i].name = n
                              \/ \E i \in DOMAIN added : added[i].status = status
                                   /\ added[i].name = n
    <3> HIDE DEF added
    <3> QED
      OBVIOUS
  <2>2. DOMAIN << >> = {}
    OBVIOUS
  <2>3. CASE status \in {"partial", "failed"}
    <3>1. added = r
      BY <2>3
    <3> HIDE DEF added
    <3> QED
      BY <2>1, <2>3, <3>1
  <2>4. CASE status \notin {"partial", "failed"}
    <3>1. DOMAIN added = {}
      BY <2>2, <2>4
    <3> HIDE DEF added
    <3> QED
      BY <2>1, <2>4, <3>1
  <2> QED
    BY <2>3, <2>4
<1>6. \A n : n \in Own <=> \/ \E i \in DOMAIN s : s[i].status = status /\ s[i].name = n
                           \/ /\ status \in {"partial", "failed"}
                              /\ \E i \in DOMAIN r : r[i].status = status /\ r[i].name = n
  <2>1. \A x : x \in own <=> \E i \in DOMAIN s : x = <<s[i].name, s[i].status>>
    BY DEF ToSet
  <2>2. \A x : x \in last <=> \E i \in DOMAIN r : x = <<r[i].name, r[i].status>>
    BY DEF ToSet
  <2>3. \A n : n \in Own <=> \E x \in all : x[2] = status /\ x[1] = n
    <3> HIDE DEF all
    <3> QED
      OBVIOUS
  <2>4. \A x : x \in all <=> x \in own \/ (x \in last /\ x[2] \in {"failed", "partial"})
    <3> HIDE DEF own, last
    <3> QED
      OBVIOUS
  <2> HIDE DEF own, last, all, Own
  <2>5. \A i \in DOMAIN s : <<s[i].name, s[i].status>>[1] = s[i].name
          /\ <<s[i].name, s[i].status>>[2] = s[i].status
    OBVIOUS
  <2>6. \A i \in DOMAIN r : <<r[i].name, r[i].status>>[1] = r[i].name
          /\ <<r[i].name, r[i].status>>[2] = r[i].status
    OBVIOUS
  <2>7. \A n : (\E x \in own : x[2] = status /\ x[1] = n)
                 <=> \E i \in DOMAIN s : s[i].status = status /\ s[i].name = n
    <3> TAKE n
    <3>1. ASSUME NEW x \in own, x[2] = status, x[1] = n
          PROVE  \E i \in DOMAIN s : s[i].status = status /\ s[i].name = n
      <4>1. PICK i \in DOMAIN s : x = <<s[i].name, s[i].status>>
        BY <2>1
      <4> QED
        BY <2>5, <3>1, <4>1
    <3>2. ASSUME NEW i \in DOMAIN s, s[i].status = status, s[i].name = n
          PROVE  \E x \in own : x[2] = status /\ x[1] = n
      <4>1. <<s[i].name, s[i].status>> \in own
        BY <2>1
      <4> QED
        BY <2>5, <3>2, <4>1
    <3> QED
      BY <3>1, <3>2
  <2>8. \A n : (\E x \in last : x[2] = status /\ x[1] = n)
                 <=> \E i \in DOMAIN r : r[i].status = status /\ r[i].name = n
    <3> TAKE n
    <3>1. ASSUME NEW x \in last, x[2] = status, x[1] = n
          PROVE  \E i \in DOMAIN r : r[i].status = status /\ r[i].name = n
      <4>1. PICK i \in DOMAIN r : x = <<r[i].name, r[i].status>>
        BY <2>2
      <4> QED
        BY <2>6, <3>1, <4>1
    <3>2. ASSUME NEW i \in DOMAIN r, r[i].status = status, r[i].name = n
          PROVE  \E x \in last : x[2] = status /\ x[1] = n
      <4>1. <<r[i].name, r[i].status>> \in last
        BY <2>2
      <4> QED
        BY <2>6, <3>2, <4>1
    <3> QED
      BY <3>1, <3>2
  <2> QED
    BY <2>3, <2>4, <2>7, <2>8
<1> HIDE DEF With, Own
<1> QED
  BY <1>3, <1>4, <1>5, <1>6

LEMMA JoinedOne ==
  ASSUME NEW x, IsList(x)
  PROVE  Joined(<<x>>) = x
<1>1. PICK S : x \in Seq(S)
  BY DEF IsList
<1>2. /\ << >> \in Seq(Seq(S)) /\ Append(<< >>, x) = <<x>> /\ << >> \o x = x
  BY <1>1
<1>3. Joined(<< >>) = << >> /\ Joined(Append(<< >>, x)) = Joined(<< >>) \o x
  BY <1>1, <1>2, JoinedAppend
<1> QED
  BY <1>2, <1>3

\* A run with one planner manifest, or none.
LEMMA PlansAgree ==
  ASSUME NEW t, RecordedTrace(t), ~(Len(PlannerManifests(t)) > 1)
  PROVE  Plans(t) = Plans(Bare(t))
<1>1. PICK a, b, c : a = Of(t, "planner") /\ b = Of(t, "plan_executor")
                       /\ c = Of(t, "planner_trace")
  OBVIOUS
<1>2. IsList(a) /\ IsList(b) /\ IsList(c)
  BY <1>1, OfIs
<1>3. /\ \A i \in DOMAIN a : InLists(a[i])
      /\ \A i \in DOMAIN b : InLists(b[i])
      /\ \A i \in DOMAIN c : InLists(c[i])
  <2>1. \A section \in {"planner", "plan_executor", "planner_trace"} :
          \A i \in DOMAIN Of(t, section) : InLists(Of(t, section)[i])
    BY OfIs, ItemsAssumption
  <2> QED
    BY <1>1, <2>1
<1>4. PICK S : a \in Seq(S) /\ b \in Seq(S) /\ c \in Seq(S)
  <2>1. PICK A, B, C : a \in Seq(A) /\ b \in Seq(B) /\ c \in Seq(C)
    BY <1>2 DEF IsList
  <2> DEFINE S == A \cup B \cup C
  <2>2. a \in Seq(S) /\ b \in Seq(S) /\ c \in Seq(S)
    BY <2>1
  <2> QED
    BY <2>2
<1>5. PICK m, o : m = a \o b \o c /\ o = c \o a \o b
  OBVIOUS
<1>6. PlannerManifests(t) = m
  BY <1>1, <1>5 DEF PlannerManifests
<1>7. /\ Len(a) \in Nat /\ Len(b) \in Nat /\ Len(c) \in Nat /\ Len(m) = Len(a) + Len(b) + Len(c)
  BY <1>4, <1>5
<1>8. Len(a) + Len(b) + Len(c) <= 1
  BY <1>6, <1>7
<1>9. o = m /\ (m = << >> \/ (m = <<m[1]>> /\ InLists(m[1])))
  <2>1. \A s \in Seq(S) : Len(s) = 0 => s = << >>
    OBVIOUS
  <2>2. \A s \in Seq(S) : s \o << >> = s /\ << >> \o s = s
    OBVIOUS
  <2>3. \A s \in Seq(S) : Len(s) = 1 => s = <<s[1]>> /\ 1 \in DOMAIN s
    OBVIOUS
  <2>4. CASE Len(a) = 0 /\ Len(b) = 0 /\ Len(c) = 0
    <3>1. a = << >> /\ b = << >> /\ c = << >> /\ << >> \in Seq(S)
      BY <1>4, <2>1, <2>4
    <3> QED
      BY <1>5, <2>2, <3>1
  <2>5. CASE Len(a) = 1 /\ Len(b) = 0 /\ Len(c) = 0
    <3>1. b = << >> /\ c = << >> /\ a = <<a[1]>> /\ 1 \in DOMAIN a
      BY <1>4, <2>1, <2>3, <2>5
    <3>2. m = a /\ o = a
      BY <1>4, <1>5, <2>2, <3>1
    <3> QED
      BY <1>3, <3>1, <3>2
  <2>6. CASE Len(a) = 0 /\ Len(b) = 1 /\ Len(c) = 0
    <3>1. a = << >> /\ c = << >> /\ b = <<b[1]>> /\ 1 \in DOMAIN b
      BY <1>4, <2>1, <2>3, <2>6
    <3>2. m = b /\ o = b
      BY <1>4, <1>5, <2>2, <3>1
    <3> QED
      BY <1>3, <3>1, <3>2
  <2>7. CASE Len(a) = 0 /\ Len(b) = 0 /\ Len(c) = 1
    <3>1. a = << >> /\ b = << >> /\ c = <<c[1]>> /\ 1 \in DOMAIN c
      BY <1>4, <2>1, <2>3, <2>7
    <3>2. m = c /\ o = c
      BY <1>4, <1>5, <2>2, <3>1
    <3> QED
      BY <1>3, <3>1, <3>2
  <2>8. PICK i, j, k \in Nat : i = Len(a) /\ j = Len(b) /\ k = Len(c)
    BY <1>7
  <2>9. \/ i = 0 /\ j = 0 /\ k = 0
        \/ i = 1 /\ j = 0 /\ k = 0
        \/ i = 0 /\ j = 1 /\ k = 0
        \/ i = 0 /\ j = 0 /\ k = 1
    BY <1>8, <2>8
  <2> QED
    BY <2>4, <2>5, <2>6, <2>7, <2>8, <2>9
<1>10. Plans(Bare(t)) = IF m = << >> THEN [plans |-> << >>, reports |-> << >>]
         ELSE PlannerMaterials(m[1])
  BY <1>1, <1>5, <1>9, BareIs DEF Plans
<1> DEFINE all == [i \in DOMAIN m |-> PlannerMaterials(m[i])]
<1>11. Plans(t) = [plans |-> Joined([i \in DOMAIN all |-> all[i].plans]),
                   reports |-> Joined([i \in DOMAIN all |-> all[i].reports])]
  BY <1>6, BareIs DEF Plans, PlannerTrace
<1>12. CASE m = << >>
  <2>1. [i \in DOMAIN all |-> all[i].plans] = << >> /\ [i \in DOMAIN all |-> all[i].reports] = << >>
    BY <1>12
  <2>2. Joined(<< >>) = << >>
    <3>1. << >> \in Seq(Seq(S)) /\ << >> \in Seq(S)
      OBVIOUS
    <3> QED
      BY <3>1, JoinedAppend
  <2> HIDE DEF all
  <2> QED
    BY <1>10, <1>11, <1>12, <2>1, <2>2
<1>13. CASE m = <<m[1]>> /\ InLists(m[1])
  <2>1. PICK x, p : x = m[1] /\ p = PlannerMaterials(x)
    OBVIOUS
  <2>2. PICK in : in = Joined([i \in DOMAIN x.reports |-> x.reports[i].plan])
    OBVIOUS
  <2>3. p = [plans |-> CASE x.form = "trace" -> x.plans
                         [] x.form = "executor" -> in
                         [] x.form = "plan" -> x.plans
                         [] OTHER -> x.plans \o in,
             reports |-> IF x.form = "plan" THEN << >> ELSE x.reports]
    BY <2>1, <2>2 DEF PlannerMaterials
  <2>4. IsList(x.plans) /\ IsList(x.reports)
          /\ \A i \in DOMAIN x.reports : IsList(x.reports[i].plan)
    BY <1>13, <2>1 DEF InLists
  <2>5. IsList(in)
    <3>1. PICK q : q = [i \in DOMAIN x.reports |-> x.reports[i].plan]
      OBVIOUS
    <3> DEFINE T == UNION {{x.reports[i].plan[j] : j \in DOMAIN x.reports[i].plan} : i \in DOMAIN x.reports}
    <3>2. \A i \in DOMAIN x.reports : x.reports[i].plan \in Seq(T)
      <4> TAKE i \in DOMAIN x.reports
      <4>1. PICK y : y = x.reports[i].plan
        OBVIOUS
      <4>2. y \in Seq({y[j] : j \in DOMAIN y})
        BY <2>4, <4>1 DEF IsList
      <4>3. \A j \in DOMAIN y : y[j] \in T
        BY <4>1
      <4> HIDE DEF T
      <4>4. y = [j \in 1..Len(y) |-> y[j]] /\ Len(y) \in Nat /\ DOMAIN y = 1..Len(y)
        BY <4>2
      <4>5. y \in Seq(T)
        BY <4>3, <4>4
      <4> QED
        BY <4>1, <4>5
    <3> HIDE DEF T
    <3>3. DOMAIN x.reports = 1..Len(x.reports) /\ Len(x.reports) \in Nat
      BY <2>4, ListOf
    <3>4. q \in Seq(Seq(T))
      BY <3>1, <3>2, <3>3
    <3>5. Joined(q) \in Seq(T)
      BY <3>4, JoinedFacts
    <3>6. in \in Seq(T)
      BY <2>2, <3>1, <3>5
    <3> QED
      BY <3>6, SeqIsList
  <2>6. IsList(p.plans) /\ IsList(p.reports)
    <3>1. IsList(<< >>)
      BY DEF IsList
    <3>2. IsList(x.plans \o in)
      <4>1. PICK A, B : x.plans \in Seq(A) /\ in \in Seq(B)
        BY <2>4, <2>5 DEF IsList
      <4>2. PICK u : u = x.plans
        OBVIOUS
      <4> DEFINE T == A \cup B
      <4>3. u \in Seq(T) /\ in \in Seq(T)
        BY <4>1, <4>2
      <4> HIDE DEF T
      <4>4. u \o in \in Seq(T)
        BY <4>3
      <4>5. IsList(u \o in)
        BY <4>4, SeqIsList
      <4> QED
        BY <4>2, <4>5
    <3>3. /\ p.plans = CASE x.form = "trace" -> x.plans
                         [] x.form = "executor" -> in
                         [] x.form = "plan" -> x.plans
                         [] OTHER -> x.plans \o in
          /\ p.reports = IF x.form = "plan" THEN << >> ELSE x.reports
          /\ p = [plans |-> p.plans, reports |-> p.reports]
      BY <2>3
    <3>4. IsList(p.plans)
      BY <2>4, <2>5, <3>2, <3>3
    <3>5. IsList(p.reports)
      BY <2>4, <3>1, <3>3
    <3> QED
      BY <3>4, <3>5
  <2>7. DOMAIN m = {1} /\ m[1] = x
    BY <1>13, <2>1
  <2>8. [i \in DOMAIN all |-> all[i].plans] = <<p.plans>>
          /\ [i \in DOMAIN all |-> all[i].reports] = <<p.reports>>
    <3>1. DOMAIN all = {1} /\ all[1] = p
      BY <2>1, <2>7
    <3> HIDE DEF all
    <3>2. \A y : [i \in {1} |-> y] = <<y>>
      OBVIOUS
    <3>3. [i \in DOMAIN all |-> all[i].plans] = [i \in {1} |-> p.plans]
      BY <3>1
    <3>4. [i \in DOMAIN all |-> all[i].reports] = [i \in {1} |-> p.reports]
      BY <3>1
    <3> QED
      BY <3>2, <3>3, <3>4
  <2>9. Joined(<<p.plans>>) = p.plans /\ Joined(<<p.reports>>) = p.reports
    BY <2>6, JoinedOne
  <2>10. p = [plans |-> p.plans, reports |-> p.reports]
    BY <2>3
  <2>11. m # << >>
    BY <1>13
  <2>12. Plans(t) = p
    <3> HIDE DEF all
    <3> QED
      BY <1>11, <2>8, <2>9, <2>10
  <2>13. Plans(Bare(t)) = p
    BY <1>10, <2>1, <2>11
  <2> QED
    BY <2>12, <2>13
<1> QED
  BY <1>9, <1>12, <1>13

\* What a part of the evaluation reads is one record.
LEMMA PartsAre ==
  ASSUME NEW t
  PROVE  /\ Part(t, "handoff") = HandoffReading(t) /\ Part(t, "materials") = MaterialReading(t)
         /\ Part(t, "approvals") = ApprovalReading(t) /\ Part(t, "artifacts") = ArtifactReading(t)
         /\ Part(t, "structured") = StructuredReading(t) /\ Part(t, "mcp") = McpReading(t)
         /\ Part(t, "planner") = PlannerReading(t) /\ Part(t, "agent_tools") = AgentToolReading(t)
<1>1. /\ Part(t, "handoff") = HandoffReading(t) /\ Part(t, "mcp") = McpReading(t)
      /\ Part(t, "agent_tools") = AgentToolReading(t)
  BY DEF Part, OfCalls, OfCourse, OfPrompt, CoursePart
<1>2. Part(t, "materials") = MaterialReading(t)
  BY DEF Part, OfCalls, OfCourse, OfPrompt, PromptPart
<1>3. /\ Part(t, "approvals") = ApprovalReading(t) /\ Part(t, "artifacts") = ArtifactReading(t)
      /\ Part(t, "structured") = StructuredReading(t) /\ Part(t, "planner") = PlannerReading(t)
  BY DEF Part, OfCalls, OfCourse, OfPrompt, RecordPart
<1> QED
  BY <1>1, <1>2, <1>3

LEMMA DerivedAlike ==
  ASSUME NEW t, RecordedTrace(t), NEW b, b = Bare(t)
  PROVE  /\ SameReading(HandoffReading(t), HandoffReading(b))
         /\ SameReading(MaterialReading(t), MaterialReading(b))
         /\ SameReading(ApprovalReading(t), ApprovalReading(b))
         /\ SameReading(ArtifactReading(t), ArtifactReading(b))
         /\ SameReading(StructuredReading(t), StructuredReading(b))
         /\ SameReading(McpReading(t), McpReading(b))
         /\ (~(Len(PlannerManifests(t)) > 1) => SameReading(PlannerReading(t), PlannerReading(b)))
         /\ (OwnRecordOnly(t) => SameReading(AgentToolReading(t), AgentToolReading(b)))
<1>1. t.built = TRUE /\ b.built = FALSE /\ \A section : Of(b, section) = Of(t, section)
  BY BareIs
<1>2. Handoffs(t) = Handoffs(b)
  <2>1. Handoffs(t) = HandoffTrace(t) /\ Handoffs(b) = OwnHandoffs(b)
    BY <1>1 DEF Handoffs
  <2>2. OwnHandoffs(b) = OwnHandoffs(t)
    BY <1>1 DEF OwnHandoffs
  <2> QED
    BY <2>1, <2>2, HandoffsAgree
<1>3. Materials(t) = Materials(b)
  <2>1. Materials(t) = ContextMaterialTrace(t) /\ Materials(b) = OwnMaterials(b)
    BY <1>1 DEF Materials
  <2>2. OwnMaterials(b) = OwnMaterials(t)
    BY <1>1 DEF OwnMaterials
  <2> QED
    BY <2>1, <2>2, MaterialsAgree
<1>4. Approvals(t) = Approvals(b) /\ Artifacts(t) = Artifacts(b)
  <2>1. /\ Approvals(t) = ApprovalTrace(t) /\ Approvals(b) = OwnApprovals(b)
        /\ Artifacts(t) = ArtifactTrace(t) /\ Artifacts(b) = OwnArtifacts(b)
    BY <1>1 DEF Approvals, Artifacts
  <2>2. OwnApprovals(b) = OwnApprovals(t) /\ OwnArtifacts(b) = OwnArtifacts(t)
    BY <1>1 DEF OwnApprovals, OwnArtifacts
  <2> QED
    BY <2>1, <2>2, ApprovalsAgree
<1>5. Structured(t) = Structured(b)
  <2>1. Structured(t) = StructuredOutputTrace(t) /\ Structured(b) = OwnStructured(b)
    BY <1>1 DEF Structured
  <2>2. OwnStructured(b) = OwnStructured(t)
    BY <1>1 DEF OwnStructured
  <2> QED
    BY <2>1, <2>2, StructuredAgree
<1>6. Servers(t) = Servers(b) /\ \A state : ServersIn(t, state) = ServersIn(b, state)
  <2>1. Servers(t) = Servers(b)
    BY <1>1 DEF Servers
  <2>2. ASSUME NEW state PROVE ServersIn(t, state) = ServersIn(b, state)
    <3>1. ServersIn(t, state) = ServersWith(t, state) /\ ServersIn(b, state) = OwnServers(b, state)
      BY <1>1 DEF ServersIn
    <3>2. OwnServers(b, state) = OwnServers(t, state)
      BY <1>1 DEF OwnServers
    <3> QED
      BY <3>1, <3>2, ServersAgree
  <2> QED
    BY <2>1, <2>2
<1>7. SameReading(HandoffReading(t), HandoffReading(b))
  BY <1>2 DEF SameReading, HandoffReading, Reading
<1>8. SameReading(MaterialReading(t), MaterialReading(b))
  BY <1>3 DEF SameReading, MaterialReading, Reading
<1>9. SameReading(ApprovalReading(t), ApprovalReading(b))
  BY <1>4 DEF SameReading, ApprovalReading, Reading
<1>10. SameReading(ArtifactReading(t), ArtifactReading(b))
  BY <1>4 DEF SameReading, ArtifactReading, Reading
<1>11. SameReading(StructuredReading(t), StructuredReading(b))
  BY <1>5 DEF SameReading, StructuredReading, Reading
<1>12. SameReading(McpReading(t), McpReading(b))
  BY <1>6 DEF SameReading, McpReading, Reading
<1>13. ASSUME ~(Len(PlannerManifests(t)) > 1) PROVE SameReading(PlannerReading(t),
                PlannerReading(b))
  <2>1. Plans(t) = Plans(b)
    BY <1>13, PlansAgree
  <2> QED
    BY <2>1 DEF SameReading, PlannerReading, Reading
<1>14. ASSUME OwnRecordOnly(t) PROVE SameReading(AgentToolReading(t), AgentToolReading(b))
  <2>1. AgentTools(t) = AgentTools(b)
    BY <1>14, AgentsAgree
  <2> QED
    BY <2>1 DEF SameReading, AgentToolReading, Reading
<1> QED
  BY <1>7, <1>8, <1>9, <1>10, <1>11, <1>12, <1>13, <1>14

LEMMA DerivationsHold ==
  ASSUME \A t \in Saved : RecordedTrace(t)
  PROVE  DerivationsAgree
<1> SUFFICES ASSUME NEW t \in Saved, NEW part \in DerivedParts,
                    ~(part = "planner" /\ Len(PlannerManifests(t)) > 1),
                    ~(part = "agent_tools" /\ ~OwnRecordOnly(t))
             PROVE  SameReading(Part(t, part), Part(Bare(t), part))
  BY DEF DerivationsAgree
<1>1. PICK b : b = Bare(t)
  OBVIOUS
<1>2. RecordedTrace(t)
  OBVIOUS
<1>3. CASE part = "handoff"
  BY <1>1, <1>2, <1>3, DerivedAlike, PartsAre
<1>4. CASE part = "materials"
  BY <1>1, <1>2, <1>4, DerivedAlike, PartsAre
<1>5. CASE part = "approvals"
  BY <1>1, <1>2, <1>5, DerivedAlike, PartsAre
<1>6. CASE part = "artifacts"
  BY <1>1, <1>2, <1>6, DerivedAlike, PartsAre
<1>7. CASE part = "structured"
  BY <1>1, <1>2, <1>7, DerivedAlike, PartsAre
<1>8. CASE part = "mcp"
  BY <1>1, <1>2, <1>8, DerivedAlike, PartsAre
<1>9. CASE part = "planner"
  BY <1>1, <1>2, <1>9, DerivedAlike, PartsAre
<1>10. CASE part = "agent_tools"
  BY <1>1, <1>2, <1>10, DerivedAlike, PartsAre
<1> QED
  BY <1>3, <1>4, <1>5, <1>6, <1>7, <1>8, <1>9, <1>10 DEF DerivedParts

-----------------------------------------------------------------------------
(* The failures of a trace, source by source.                               *)

\* How many failures of a list are of a source.
Listed(s, source) == Cardinality({i \in DOMAIN s : s[i].source = source})

LEMMA ListedIsNumber ==
  ASSUME NEW s, IsList(s), NEW source, NEW K,
      \A i \in DOMAIN s : s[i] \in K <=> s[i].source = source
  PROVE  Listed(s, source) = Number(s, K) /\ Listed(s, source) \in Nat
<1>1. {i \in DOMAIN s : s[i] \in K} = {i \in DOMAIN s : s[i].source = source}
  OBVIOUS
<1>2. PICK S : s \in Seq(S)
  BY DEF IsList
<1>3. Number(s, K) \in Nat
  BY <1>2, NumberType
<1> QED
  BY <1>1, <1>3 DEF Listed, Number

\* Two lists one after the other, as a list of the elements of both.
LEMMA ListConcat ==
  ASSUME NEW s, IsList(s), NEW u, IsList(u)
  PROVE  /\ IsList(s \o u)
         /\ \A K : Number(s \o u, K) = Number(s, K) + Number(u, K)
         /\ \A K : Number(s \o u, K) \in Nat /\ Number(s, K) \in Nat /\ Number(u, K) \in Nat
         /\ ToSet(s \o u) = ToSet(s) \cup ToSet(u)
<1>1. PICK S : S = {s[i] : i \in DOMAIN s} \cup {u[j] : j \in DOMAIN u}
  OBVIOUS
<1>2. s \in Seq(S) /\ u \in Seq(S)
  <2>1. s \in Seq({s[i] : i \in DOMAIN s}) /\ u \in Seq({u[j] : j \in DOMAIN u})
    BY DEF IsList
  <2>2. /\ Len(s) \in Nat /\ s = [i \in 1..Len(s) |-> s[i]] /\ DOMAIN s = 1..Len(s)
        /\ Len(u) \in Nat /\ u = [i \in 1..Len(u) |-> u[i]] /\ DOMAIN u = 1..Len(u)
    BY <2>1
  <2>3. (\A i \in DOMAIN s : s[i] \in S) /\ (\A j \in DOMAIN u : u[j] \in S)
    BY <1>1
  <2> QED
    BY <2>2, <2>3
<1>3. s \o u \in Seq(S)
  BY <1>2
<1>4. IsList(s \o u)
  BY <1>3, SeqIsList
<1>5. \A K : Number(s \o u, K) = Number(s, K) + Number(u, K)
  BY <1>2, NumberConcat
<1>6. \A K : Number(s \o u, K) \in Nat /\ Number(s, K) \in Nat /\ Number(u, K) \in Nat
  BY <1>2, <1>3, NumberType
<1>7. PICK m, n \in Nat : m = Len(s) /\ n = Len(u)
  BY <1>2
<1>8. PICK q : q = s \o u
  OBVIOUS
<1>9. /\ DOMAIN s = 1..m /\ DOMAIN u = 1..n /\ DOMAIN q = 1..(m + n)
      /\ \A i \in 1..m : q[i] = s[i]
      /\ \A j \in 1..n : q[m + j] = u[j]
  BY <1>2, <1>7, <1>8
<1>10. \A x : (\E k \in DOMAIN q : q[k] = x)
                <=> (\E i \in DOMAIN s : s[i] = x) \/ (\E j \in DOMAIN u : u[j] = x)
  <2> TAKE x
  <2>1. ASSUME NEW k \in 1..(m + n), q[k] = x
        PROVE  (\E i \in DOMAIN s : s[i] = x) \/ (\E j \in DOMAIN u : u[j] = x)
    <3>1. CASE k <= m
      BY <1>9, <2>1, <3>1
    <3>2. CASE ~(k <= m)
      <4>1. k - m \in 1..n /\ k = m + (k - m)
        BY <3>2
      <4> QED
        BY <1>9, <2>1, <4>1
    <3> QED
      BY <3>1, <3>2
  <2>2. \A i \in 1..m : i \in 1..(m + n)
    OBVIOUS
  <2>3. \A j \in 1..n : m + j \in 1..(m + n)
    OBVIOUS
  <2> QED
    BY <1>9, <2>1, <2>2, <2>3
<1>11. ToSet(q) = ToSet(s) \cup ToSet(u)
  BY <1>10 DEF ToSet
<1> QED
  BY <1>4, <1>5, <1>6, <1>8, <1>11

LEMMA ListedConcat ==
  ASSUME NEW s, IsList(s), NEW u, IsList(u), NEW source
  PROVE  /\ IsList(s \o u) /\ Listed(s \o u, source) = Listed(s, source) + Listed(u, source)
         /\ Listed(s \o u, source) \in Nat /\ Listed(s, source) \in Nat /\ Listed(u, source) \in Nat
<1>1. PICK q : q = s \o u
  OBVIOUS
<1> DEFINE K == {x \in ToSet(q) : x.source = source}
<1>2. /\ IsList(q) /\ ToSet(q) = ToSet(s) \cup ToSet(u)
      /\ \A L : Number(q, L) = Number(s, L) + Number(u, L)
  BY <1>1, ListConcat
<1>3. /\ \A i \in DOMAIN q : q[i] \in K <=> q[i].source = source
      /\ \A i \in DOMAIN s : s[i] \in K <=> s[i].source = source
      /\ \A i \in DOMAIN u : u[i] \in K <=> u[i].source = source
  BY <1>2 DEF ToSet
<1> HIDE DEF K
<1>4. /\ Listed(q, source) = Number(q, K) /\ Listed(q, source) \in Nat
      /\ Listed(s, source) = Number(s, K) /\ Listed(s, source) \in Nat
      /\ Listed(u, source) = Number(u, K) /\ Listed(u, source) \in Nat
  BY <1>2, <1>3, ListedIsNumber
<1>5. Number(q, K) = Number(s, K) + Number(u, K)
  BY <1>2
<1> QED
  BY <1>1, <1>2, <1>4, <1>5

\* The list of a set has each of its members once.
LEMMA ListOfSet ==
  ASSUME NEW S, IsFiniteSet(S)
  PROVE  /\ SetToSeq(S) \in Seq(S) /\ IsList(SetToSeq(S))
         /\ Len(SetToSeq(S)) = Cardinality(S) /\ Cardinality(S) \in Nat
<1>1. PICK n \in Nat : n = Cardinality(S) /\ ExistsBijection(1..n, S)
  BY FS_CardinalityType
<1>2. \E f \in [1..n -> S] : IsInjective(f)
  <2>1. PICK f : f \in Bijection(1..n, S)
    BY <1>1 DEF ExistsBijection
  <2> QED
    BY <2>1 DEF Bijection, Injection, IsInjective
<1>3. SetToSeq(S) \in [1..n -> S]
  BY <1>1, <1>2 DEF SetToSeq
<1>4. SetToSeq(S) \in Seq(S) /\ Len(SetToSeq(S)) = n
  BY <1>3
<1> QED
  BY <1>1, <1>4, SeqIsList

LEMMA FailuresOfFacts ==
  ASSUME NEW t, NEW s, IsList(s), NEW source, NEW other
  PROVE  /\ IsList(FailuresOf(t, source, s))
         /\ Listed(FailuresOf(t, source, s), other) = (IF source = other THEN Len(s) ELSE 0)
         /\ Len(s) \in Nat
<1>1. PICK q : q = FailuresOf(t, source, s)
  OBVIOUS
<1>2. Len(s) \in Nat /\ DOMAIN s = 1..Len(s)
  BY ListOf
<1>3. q = [i \in 1..Len(s) |-> q[i]] /\ \A i \in 1..Len(s) : q[i].source = source
  BY <1>1, <1>2 DEF FailuresOf
<1>4. IsList(q) /\ DOMAIN q = 1..Len(s)
  BY <1>2, <1>3, FunctionIsList
<1>5. {i \in DOMAIN q : q[i].source = other} = IF source = other THEN 1..Len(s) ELSE {}
  BY <1>3, <1>4
<1>6. \A n \in Nat : Cardinality(1..n) = n
  BY FS_Interval
<1>7. Listed(q, other) = IF source = other THEN Len(s) ELSE 0
  BY <1>2, <1>5, <1>6, FS_EmptySet DEF Listed
<1> QED
  BY <1>1, <1>2, <1>4, <1>7

LEMMA OneFailureFacts ==
  ASSUME NEW t, NEW what, NEW holds \in BOOLEAN, NEW source, NEW other
  PROVE  /\ IsList(OneFailure(t, source, what, holds))
         /\ Listed(OneFailure(t, source, what, holds), other)
              = (IF holds /\ source = other THEN 1 ELSE 0)
<1>1. PICK one : one = [source |-> source, what |-> what]
  OBVIOUS
<1>2. PICK q : q = OneFailure(t, source, what, holds)
  OBVIOUS
<1>3. q = IF holds THEN <<one>> ELSE << >>
  BY <1>1, <1>2 DEF OneFailure
<1>4. IsList(q)
  <2>1. IsList(<< >>) /\ IsList(<<one>>)
    BY DEF IsList
  <2> QED
    BY <1>3, <2>1
<1>5. {i \in DOMAIN q : q[i].source = other} = IF holds /\ source = other THEN {1} ELSE {}
  <2>1. one.source = source
    BY <1>1
  <2>2. CASE holds
    <3>1. DOMAIN q = {1} /\ q[1] = one
      BY <1>3, <2>2
    <3> QED
      BY <2>1, <2>2, <3>1
  <2>3. CASE ~holds
    <3>1. DOMAIN q = {}
      BY <1>3, <2>3
    <3> QED
      BY <2>3, <3>1
  <2> QED
    BY <2>2, <2>3
<1>6. Listed(q, other) = IF holds /\ source = other THEN 1 ELSE 0
  BY <1>5, FS_EmptySet, FS_Singleton DEF Listed
<1> QED
  BY <1>2, <1>4, <1>6

LEMMA ListedPieces ==
  ASSUME NEW p, \A i \in 1..13 : IsList(p[i]), NEW source
  PROVE  /\ \A i \in 1..13 : Listed(p[i], source) \in Nat
         /\ Listed(p[1] \o p[2] \o p[3] \o p[4] \o p[5] \o p[6] \o p[7]
                    \o p[8] \o p[9] \o p[10] \o p[11] \o p[12] \o p[13], source)
              = Listed(p[1], source) + Listed(p[2], source) + Listed(p[3], source)
                  + Listed(p[4], source)
                + Listed(p[5], source) + Listed(p[6], source) + Listed(p[7], source)
                    + Listed(p[8], source)
                + Listed(p[9], source) + Listed(p[10], source) + Listed(p[11], source)
                    + Listed(p[12], source) + Listed(p[13], source)
<1>0. IsList(p[1]) /\ IsList(p[2]) /\ IsList(p[3]) /\ IsList(p[4]) /\ IsList(p[5])
        /\ IsList(p[6]) /\ IsList(p[7])
      /\ IsList(p[8]) /\ IsList(p[9]) /\ IsList(p[10]) /\ IsList(p[11]) /\ IsList(p[12])
           /\ IsList(p[13])
  OBVIOUS
<1>1. PICK q2 : q2 = p[1] \o p[2]
  OBVIOUS
<1>2. PICK q3 : q3 = q2 \o p[3]
  OBVIOUS
<1>3. PICK q4 : q4 = q3 \o p[4]
  OBVIOUS
<1>4. PICK q5 : q5 = q4 \o p[5]
  OBVIOUS
<1>5. PICK q6 : q6 = q5 \o p[6]
  OBVIOUS
<1>6. PICK q7 : q7 = q6 \o p[7]
  OBVIOUS
<1>7. PICK q8 : q8 = q7 \o p[8]
  OBVIOUS
<1>8. PICK q9 : q9 = q8 \o p[9]
  OBVIOUS
<1>9. PICK q10 : q10 = q9 \o p[10]
  OBVIOUS
<1>10. PICK q11 : q11 = q10 \o p[11]
  OBVIOUS
<1>11. PICK q12 : q12 = q11 \o p[12]
  OBVIOUS
<1>12. PICK q13 : q13 = q12 \o p[13]
  OBVIOUS
<1>13. /\ IsList(q2) /\ Listed(q2, source) = Listed(p[1], source) + Listed(p[2], source)
       /\ Listed(p[1], source) \in Nat /\ Listed(p[2], source) \in Nat
  BY <1>0, <1>1, ListedConcat
<1>14. /\ IsList(q3) /\ Listed(q3, source) = Listed(q2, source) + Listed(p[3], source)
       /\ Listed(q2, source) \in Nat /\ Listed(p[3], source) \in Nat
  BY <1>0, <1>2, <1>13, ListedConcat
<1>15. /\ IsList(q4) /\ Listed(q4, source) = Listed(q3, source) + Listed(p[4], source)
       /\ Listed(q3, source) \in Nat /\ Listed(p[4], source) \in Nat
  BY <1>0, <1>3, <1>14, ListedConcat
<1>16. /\ IsList(q5) /\ Listed(q5, source) = Listed(q4, source) + Listed(p[5], source)
       /\ Listed(q4, source) \in Nat /\ Listed(p[5], source) \in Nat
  BY <1>0, <1>4, <1>15, ListedConcat
<1>17. /\ IsList(q6) /\ Listed(q6, source) = Listed(q5, source) + Listed(p[6], source)
       /\ Listed(q5, source) \in Nat /\ Listed(p[6], source) \in Nat
  BY <1>0, <1>5, <1>16, ListedConcat
<1>18. /\ IsList(q7) /\ Listed(q7, source) = Listed(q6, source) + Listed(p[7], source)
       /\ Listed(q6, source) \in Nat /\ Listed(p[7], source) \in Nat
  BY <1>0, <1>6, <1>17, ListedConcat
<1>19. /\ IsList(q8) /\ Listed(q8, source) = Listed(q7, source) + Listed(p[8], source)
       /\ Listed(q7, source) \in Nat /\ Listed(p[8], source) \in Nat
  BY <1>0, <1>7, <1>18, ListedConcat
<1>20. /\ IsList(q9) /\ Listed(q9, source) = Listed(q8, source) + Listed(p[9], source)
       /\ Listed(q8, source) \in Nat /\ Listed(p[9], source) \in Nat
  BY <1>0, <1>8, <1>19, ListedConcat
<1>21. /\ IsList(q10) /\ Listed(q10, source) = Listed(q9, source) + Listed(p[10], source)
       /\ Listed(q9, source) \in Nat /\ Listed(p[10], source) \in Nat
  BY <1>0, <1>9, <1>20, ListedConcat
<1>22. /\ IsList(q11) /\ Listed(q11, source) = Listed(q10, source) + Listed(p[11], source)
       /\ Listed(q10, source) \in Nat /\ Listed(p[11], source) \in Nat
  BY <1>0, <1>10, <1>21, ListedConcat
<1>23. /\ IsList(q12) /\ Listed(q12, source) = Listed(q11, source) + Listed(p[12], source)
       /\ Listed(q11, source) \in Nat /\ Listed(p[12], source) \in Nat
  BY <1>0, <1>11, <1>22, ListedConcat
<1>24. /\ IsList(q13) /\ Listed(q13, source) = Listed(q12, source) + Listed(p[13], source)
       /\ Listed(q12, source) \in Nat /\ Listed(p[13], source) \in Nat
  BY <1>0, <1>12, <1>23, ListedConcat
<1>25. Listed(q13, source) = Listed(p[1], source) + Listed(p[2], source) + Listed(p[3], source)
         + Listed(p[4], source) + Listed(p[5], source) + Listed(p[6], source)
          + Listed(p[7], source) + Listed(p[8], source) + Listed(p[9], source)
              + Listed(p[10], source) + Listed(p[11], source) + Listed(p[12], source)
                  + Listed(p[13], source)
  BY <1>13, <1>14, <1>15, <1>16, <1>17, <1>18, <1>19, <1>20, <1>21, <1>22, <1>23, <1>24
<1>26. q13 = p[1] \o p[2] \o p[3] \o p[4] \o p[5] \o p[6] \o p[7] \o p[8] \o p[9] \o p[10]
         \o p[11] \o p[12] \o p[13]
  BY <1>1, <1>2, <1>3, <1>4, <1>5, <1>6, <1>7, <1>8, <1>9, <1>10, <1>11, <1>12, Zenon
<1>27. \A i \in 1..13 : i \in {1, 2, 3, 4, 5, 6, 7, 8, 9, 10, 11, 12, 13}
  OBVIOUS
<1>28. \A i \in 1..13 : Listed(p[i], source) \in Nat
  BY <1>13, <1>14, <1>15, <1>16, <1>17, <1>18, <1>19, <1>20, <1>21, <1>22, <1>23, <1>24, <1>27
<1> QED
  BY <1>25, <1>26, <1>28

-----------------------------------------------------------------------------
(* The lists of failures, each of its length.                               *)

LEMMA MadeIsList ==
  ASSUME NEW s, IsList(s), NEW q, DOMAIN q = DOMAIN s, q = [i \in DOMAIN q |-> q[i]]
  PROVE  IsList(q) /\ Len(q) = Len(s)
<1>1. Len(s) \in Nat /\ DOMAIN s = 1..Len(s)
  BY ListOf
<1>2. q = [i \in 1..Len(s) |-> q[i]]
  BY <1>1
<1> QED
  BY <1>1, <1>2, FunctionIsList

LEMMA PlacesAreFinite ==
  ASSUME NEW s, IsList(s), NEW I \in SUBSET DOMAIN s
  PROVE  IsFiniteSet(I) /\ Cardinality(I) \in Nat /\ Cardinality(DOMAIN s) = Len(s)
<1>1. Len(s) \in Nat /\ DOMAIN s = 1..Len(s)
  BY ListOf
<1>2. \A n \in Nat : IsFiniteSet(1..n) /\ Cardinality(1..n) = n
  BY FS_Interval
<1>3. IsFiniteSet(DOMAIN s) /\ Cardinality(DOMAIN s) = Len(s)
  BY <1>1, <1>2
<1>4. IsFiniteSet(I)
  BY <1>3, FS_Subset
<1> QED
  BY <1>3, <1>4, FS_CardinalityType

\* The servers that failed, themselves or in the last refresh, are finitely many.
LEMMA ServersAreFinite ==
  ASSUME NEW t, RecordedTrace(t), NEW state
  PROVE  IsFiniteSet(ServersWith(t, state))
<1>1. PICK s, u : s = Of(t, "mcp_servers") /\ u =
                    IF state \in {"partial", "failed"} THEN Of(t, "mcp_refreshes") ELSE << >>
  OBVIOUS
<1>2. IsList(s) /\ IsList(u)
  <2>1. IsList(<< >>)
    BY DEF IsList
  <2> QED
    BY <1>1, <2>1, OfIs
<1> DEFINE I == {j \in DOMAIN s : s[j].status = state}
           J == {j \in DOMAIN u : u[j].status = state}
           f == [i \in I |-> s[i].name]
           g == [i \in J |-> u[i].name]
<1>3. ServersWith(t, state) = {f[i] : i \in I} \cup {g[i] : i \in J}
  BY <1>1 DEF ServersWith
<1>4. IsFiniteSet(I) /\ IsFiniteSet(J)
  BY <1>2, PlacesAreFinite
<1>5. DOMAIN f = I /\ DOMAIN g = J
  OBVIOUS
<1> HIDE DEF f, g, I, J
<1>6. IsFiniteSet({f[i] : i \in I}) /\ IsFiniteSet({g[i] : i \in J})
  BY <1>4, <1>5, ImageIsFinite
<1> QED
  BY <1>3, <1>6, FS_Union

\* A text per failed validation at most.
LEMMA ErrorsAreFew ==
  ASSUME NEW t, RecordedTrace(t)
  PROVE  /\ IsList(StructuredErrors(t))
         /\ Len(StructuredErrors(t)) <= CountOf(StructuredOutputTrace(t), LAMBDA r : ~r.ok)
<1>1. PICK s : s = Of(t, "journal")
  OBVIOUS
<1>2. IsList(s)
  BY <1>1, OfIs
<1> DEFINE K == {e \in ToSet(s) : e.type = "checkpoint" /\ IsStructured(e.state)}
<1>3. PICK at : at = Filtered(s, K)
  OBVIOUS
<1>4. IsList(at) /\ \A i \in DOMAIN at : at[i] \in K /\ \E j \in DOMAIN s : at[i] = s[j]
  <2> HIDE DEF K
  <2> QED
    BY <1>2, <1>3, FilteredElements
<1>5. PICK r : r = StructuredOutputTrace(t)
  OBVIOUS
<1>6. r = [i \in DOMAIN at |-> StructuredRecord(at[i].state)]
  BY <1>1, <1>3, <1>5 DEF StructuredOutputTrace, Where
<1>7. IsList(r)
  BY <1>4, <1>6, MadeIsList
<1>8. \A i \in DOMAIN r : r[i].ok => r[i].error = NoText
  <2> TAKE i \in DOMAIN r
  <2>1. PICK e : e = at[i]
    OBVIOUS
  <2>2. e \in K /\ \E j \in DOMAIN s : e = s[j]
    BY <1>4, <1>6, <2>1
  <2>3. PICK item \in Items : item.section = "journal" /\ e = item.data
    BY <1>1, <2>2, OfIs
  <2>4. e.type = "checkpoint"
    BY <2>2
  <2>5. e.state.ok = "true" => e.state.error = NoText
    BY <2>3, <2>4, ItemsAssumption
  <2>6. r[i].ok = (e.state.ok = "true") /\ r[i].error = e.state.error
    BY <1>6, <2>1 DEF StructuredRecord
  <2> QED
    BY <2>5, <2>6
<1> DEFINE I == {i \in DOMAIN r : ~r[i].ok}
           V == {r[i].error : i \in DOMAIN r} \ {NoText}
           f == [i \in I |-> r[i].error]
<1>9. IsFiniteSet(I) /\ Cardinality(I) \in Nat
  BY <1>7, PlacesAreFinite
<1>10. V \subseteq {f[i] : i \in I}
  BY <1>8
<1>11. IsFiniteSet({f[i] : i \in I}) /\ Cardinality({f[i] : i \in I}) <= Cardinality(I)
  <2>1. DOMAIN f = I
    OBVIOUS
  <2> HIDE DEF f, I
  <2> DEFINE T == {f[i] : i \in I}
             g == [i \in I |-> f[i]]
  <2>2. g \in Surjection(I, T)
    BY DEF Surjection
  <2> HIDE DEF T, g
  <2>3. IsFiniteSet(T) /\ Cardinality(T) <= Cardinality(I)
    BY <1>9, <2>2, FS_Surjection
  <2> QED
    BY <2>3 DEF T
<1>12. IsFiniteSet(V) /\ Cardinality(V) \in Nat /\ Cardinality(V) <= Cardinality(I)
  <2>1. PICK T : T = {f[i] : i \in I}
    OBVIOUS
  <2> HIDE DEF V, f, I
  <2>2. IsFiniteSet(V) /\ Cardinality(V) <= Cardinality(T)
    BY <1>10, <1>11, <2>1, FS_Subset
  <2>3. Cardinality(V) \in Nat /\ Cardinality(T) \in Nat
    BY <1>11, <2>1, <2>2, FS_CardinalityType
  <2> QED
    BY <1>9, <1>11, <2>1, <2>2, <2>3
<1>13. StructuredErrors(t) = IF I # {} THEN SetToSeq(V) ELSE << >>
  BY <1>5 DEF StructuredErrors, Values
<1>14. CountOf(r, LAMBDA x : ~x.ok) = Cardinality(I)
  BY DEF CountOf
<1> HIDE DEF I, V
<1>15. IsList(StructuredErrors(t)) /\ Len(StructuredErrors(t)) <= Cardinality(I)
  <2>1. IsList(<< >>) /\ Len(<< >>) = 0
    BY DEF IsList
  <2>2. IsList(SetToSeq(V)) /\ Len(SetToSeq(V)) = Cardinality(V)
    BY <1>12, ListOfSet
  <2> QED
    BY <1>9, <1>12, <1>13, <2>1, <2>2
<1> QED
  BY <1>5, <1>14, <1>15

LEMMA AgentsAreListed ==
  ASSUME NEW t, RecordedTrace(t)
  PROVE  /\ IsList(AgentToolTrace(t)) /\ IsList(FailedAgents(t))
         /\ Len(FailedAgents(t)) = CountOf(AgentToolTrace(t), LAMBDA r : r.status # "completed")
<1>1. PICK s : s = Of(t, "tools")
  OBVIOUS
<1>2. IsList(s)
  BY <1>1, OfIs
<1>3. PICK found : found = [i \in DOMAIN s |-> IF IsAgentRecord(s[i].agent) THEN s[i].agent
                     ELSE s[i].resultAgent]
  OBVIOUS
<1>4. IsList(found)
  BY <1>2, <1>3, MadeIsList
<1> DEFINE K == {x \in ToSet(found) : IsAgentRecord(x)}
<1>5. PICK real : real = Filtered(found, K)
  OBVIOUS
<1>6. IsList(real)
  BY <1>4, <1>5, FilteredElements
<1>7. PICK all : all = AgentToolTrace(t)
  OBVIOUS
<1>8. all = [i \in DOMAIN real |-> AgentRecord(real[i])]
  BY <1>1, <1>3, <1>5, <1>7 DEF AgentToolTrace, Where
<1>9. IsList(all)
  BY <1>6, <1>8, MadeIsList
<1> DEFINE F == {r \in ToSet(all) : r.status # "completed"}
<1>10. FailedAgents(t) = Filtered(all, F)
  BY <1>7 DEF FailedAgents, Where
<1>11. CountOf(all, LAMBDA r : r.status # "completed") = Number(all, F)
  <2>1. {i \in DOMAIN all : all[i].status # "completed"} = {i \in DOMAIN all : all[i] \in F}
    BY DEF ToSet
  <2> QED
    BY <2>1 DEF CountOf, Number
<1> HIDE DEF F
<1>12. PICK q : q = Filtered(all, F)
  OBVIOUS
<1>13. IsList(q) /\ \A i \in DOMAIN q : q[i] \in F
  BY <1>9, <1>12, FilteredElements
<1>14. PICK S : all \in Seq(S)
  BY <1>9 DEF IsList
<1>15. Number(q, F) = Number(all, F \cap F)
  BY <1>12, <1>14, NumberFiltered
<1>16. Len(q) = Number(q, F)
  <2>1. PICK T : T = {q[i] : i \in DOMAIN q}
    OBVIOUS
  <2>2. q \in Seq(T) /\ T \subseteq F
    BY <1>13, <2>1 DEF IsList
  <2> QED
    BY <2>2, LengthIsNumber
<1>17. F \cap F = F
  OBVIOUS
<1> QED
  BY <1>7, <1>9, <1>10, <1>11, <1>12, <1>13, <1>15, <1>16, <1>17

\* The failures of a trace, source by source.
LEMMA FailuresListed ==
  ASSUME NEW t, RecordedTrace(t), NEW source
  PROVE  LET plans == PlannerTrace(t)
             failures == FailureSummary(t)
         IN  /\ source = "tool_center" => Listed(failures, source) = Len(FailedCalls(t))
             /\ source = "agent_tool" => Listed(failures, source) = Len(FailedAgents(t))
             /\ source = "mcp" => Listed(failures, source) = Cardinality(ServersWith(t, "failed"))
             /\ source = "preflight"
                  => Listed(failures, source) =
                      IF Preflight(t) # None /\ Preflight(t).status = "blocked"
                                                THEN Cardinality(Preflight(t).blocking) ELSE 0
             /\ source = "planner"
                  => Listed(failures, source) =
                      IF FailedSteps(plans.plans, plans.reports) > 0 THEN 1 ELSE 0
             /\ source = "structured_output" => Listed(failures, source) = Len(StructuredErrors(t))
<1> DEFINE plans == PlannerTrace(t)
           approvals == ApprovalTrace(t)
           events == Where(Of(t, "event_log"), LAMBDA e : e.type \in EventFailures)
           route == RoutePreflight(t)
           storage == StoragePreflight(t)
           h1 == t.status \notin {NoText, "completed"}
           h5 == route # None /\ ~route.ready
           h6 == storage # None /\ ~storage.ready
           h9 == FailedSteps(plans.plans, plans.reports) > 0
           h10 == \E i \in DOMAIN approvals : approvals[i].status = "rejected"
           h11 == \E i \in DOMAIN approvals : approvals[i].status = "cancelled"
           blocked == Preflight(t) # None /\ Preflight(t).status = "blocked"
<1>1. PICK p1 : p1 = OneFailure(t, "run", t.status, h1)
  OBVIOUS
<1>2. PICK s2, p2 : /\ s2 = [i \in DOMAIN ProviderFailures(t) |-> ProviderFailures(t)[i].error]
                    /\ p2 = FailuresOf(t, "provider", s2)
  OBVIOUS
<1>3. PICK s3, p3 : /\ s3 = [i \in DOMAIN FailedCalls(t) |-> FailedCalls(t)[i].status]
                    /\ p3 = FailuresOf(t, "tool_center", s3)
  OBVIOUS
<1>4. PICK s4, p4 : /\ s4 = SetToSeq(Preflight(t).blocking)
                    /\ p4 = IF blocked THEN FailuresOf(t, "preflight", s4) ELSE << >>
  OBVIOUS
<1>5. PICK p5 : p5 = OneFailure(t, "provider_route_preflight", "blocked", h5)
  OBVIOUS
<1>6. PICK p6 : p6 = OneFailure(t, "storage_backend_preflight", "blocked", h6)
  OBVIOUS
<1>7. PICK s7, p7 : s7 = [i \in DOMAIN events |-> events[i].type]
                      /\ p7 = FailuresOf(t, "event_log", s7)
  OBVIOUS
<1>8. PICK s8, p8 : s8 = StructuredErrors(t) /\ p8 = FailuresOf(t, "structured_output", s8)
  OBVIOUS
<1>9. PICK p9 : p9 = OneFailure(t, "planner", "failed", h9)
  OBVIOUS
<1>10. PICK p10 : p10 = OneFailure(t, "approval", "rejected", h10)
  OBVIOUS
<1>11. PICK p11 : p11 = OneFailure(t, "approval", "cancelled", h11)
  OBVIOUS
<1>12. PICK s12, p12 : /\ s12 = [i \in DOMAIN FailedAgents(t) |-> FailedAgents(t)[i].status]
                       /\ p12 = FailuresOf(t, "agent_tool", s12)
  OBVIOUS
<1>13. PICK s13, p13 : s13 = SetToSeq(ServersWith(t, "failed")) /\ p13 = FailuresOf(t, "mcp", s13)
  OBVIOUS
<1>14. FailureSummary(t) = p1 \o p2 \o p3 \o p4 \o p5 \o p6 \o p7 \o p8 \o p9 \o p10 \o p11
         \o p12 \o p13
  BY <1>1, <1>2, <1>3, <1>4, <1>5, <1>6, <1>7, <1>8, <1>9, <1>10, <1>11, <1>12, <1>13, Zenon
     DEF FailureSummary
<1>15. IsList(s2) /\ IsList(s7)
  <2>1. PICK a, b : a = Of(t, "provider") /\ b = Of(t, "event_log")
    OBVIOUS
  <2>2. IsList(a) /\ IsList(b)
    BY <2>1, OfIs
  <2>3. PICK c, d : c = ProviderFailures(t) /\ d = events
    OBVIOUS
  <2> DEFINE A == {x \in ToSet(a) : x.status = "failed" \/ x.error # NoText}
             B == {x \in ToSet(b) : x.type \in EventFailures}
  <2>4. c = Filtered(a, A) /\ d = Filtered(b, B)
    BY <2>1, <2>3 DEF ProviderFailures, Where
  <2> HIDE DEF A, B
  <2>5. IsList(c) /\ IsList(d)
    BY <2>2, <2>4, FilteredElements
  <2>6. s2 = [i \in DOMAIN c |-> c[i].error] /\ s7 = [i \in DOMAIN d |-> d[i].type]
    BY <1>2, <1>7, <2>3
  <2> QED
    BY <2>5, <2>6, MadeIsList
<1>16. IsList(s3) /\ Len(s3) = Len(FailedCalls(t))
  <2>1. PICK a, c : a = Of(t, "tools") /\ c = FailedCalls(t)
    OBVIOUS
  <2>2. IsList(a)
    BY <2>1, OfIs
  <2> DEFINE A == {x \in ToSet(a) : x.status # "completed"}
  <2>3. c = Filtered(a, A)
    BY <2>1 DEF FailedCalls, Where
  <2> HIDE DEF A
  <2>4. IsList(c)
    BY <2>2, <2>3, FilteredElements
  <2>5. s3 = [i \in DOMAIN c |-> c[i].status]
    BY <1>3, <2>1
  <2> QED
    BY <2>1, <2>4, <2>5, MadeIsList
<1>17. blocked => IsList(s4) /\ Len(s4) = Cardinality(Preflight(t).blocking)
  <2> SUFFICES ASSUME blocked PROVE IsList(s4) /\ Len(s4) = Cardinality(Preflight(t).blocking)
    OBVIOUS
  <2>1. PICK a : a = Of(t, "preflight")
    OBVIOUS
  <2>2. IsList(a) /\ \A i \in DOMAIN a : \E item \in Items : item.section = "preflight"
          /\ a[i] = item.data
    BY <2>1, OfIs
  <2>3. a # << >> /\ Preflight(t) = a[1]
    BY <2>1 DEF Preflight, First
  <2>4. 1 \in DOMAIN a
    BY <2>2, <2>3, ListTail
  <2>5. IsFiniteSet(a[1].blocking)
    BY <2>2, <2>4, ItemsAssumption
  <2> QED
    BY <1>4, <2>3, <2>5, ListOfSet
<1>18. IsList(s8)
  BY <1>8, ErrorsAreFew
<1>19. IsList(s12) /\ Len(s12) = Len(FailedAgents(t))
  <2>1. PICK c : c = FailedAgents(t)
    OBVIOUS
  <2>2. IsList(c)
    BY <2>1, AgentsAreListed
  <2>3. s12 = [i \in DOMAIN c |-> c[i].status]
    BY <1>12, <2>1
  <2> QED
    BY <2>1, <2>2, <2>3, MadeIsList
<1>20. IsList(s13) /\ Len(s13) = Cardinality(ServersWith(t, "failed"))
  BY <1>13, ServersAreFinite, ListOfSet
<1>21. /\ h1 \in BOOLEAN /\ h5 \in BOOLEAN /\ h6 \in BOOLEAN
       /\ h9 \in BOOLEAN /\ h10 \in BOOLEAN /\ h11 \in BOOLEAN
  OBVIOUS
<1> HIDE DEF h1, h5, h6, h9, h10, h11, blocked
<1>22. /\ IsList(p1) /\ Listed(p1, source) = IF h1 /\ source = "run" THEN 1 ELSE 0
       /\ IsList(p5) /\ Listed(p5, source) =
            IF h5 /\ source = "provider_route_preflight" THEN 1 ELSE 0
       /\ IsList(p6) /\ Listed(p6, source) =
            IF h6 /\ source = "storage_backend_preflight" THEN 1 ELSE 0
  BY <1>1, <1>5, <1>6, <1>21, OneFailureFacts
<1>23. /\ IsList(p9) /\ Listed(p9, source) = IF h9 /\ source = "planner" THEN 1 ELSE 0
       /\ IsList(p10) /\ Listed(p10, source) = IF h10 /\ source = "approval" THEN 1 ELSE 0
       /\ IsList(p11) /\ Listed(p11, source) = IF h11 /\ source = "approval" THEN 1 ELSE 0
  BY <1>9, <1>10, <1>11, <1>21, OneFailureFacts
<1>24. /\ IsList(p2) /\ Listed(p2, source) = IF source = "provider" THEN Len(s2) ELSE 0
       /\ IsList(p3) /\ Listed(p3, source) = IF source = "tool_center" THEN Len(s3) ELSE 0
       /\ IsList(p7) /\ Listed(p7, source) = IF source = "event_log" THEN Len(s7) ELSE 0
  BY <1>2, <1>3, <1>7, <1>15, <1>16, FailuresOfFacts
<1>25. /\ IsList(p8) /\ Listed(p8, source) = IF source = "structured_output" THEN Len(s8) ELSE 0
       /\ IsList(p12) /\ Listed(p12, source) = IF source = "agent_tool" THEN Len(s12) ELSE 0
       /\ IsList(p13) /\ Listed(p13, source) = IF source = "mcp" THEN Len(s13) ELSE 0
  <2>1. IsList(s8) /\ IsList(s12) /\ IsList(s13)
    BY <1>18, <1>19, <1>20
  <2>2. /\ p8 = FailuresOf(t, "structured_output", s8) /\ p12 = FailuresOf(t, "agent_tool", s12)
        /\ p13 = FailuresOf(t, "mcp", s13)
    BY <1>8, <1>12, <1>13
  <2> QED
    BY <2>1, <2>2, FailuresOfFacts
<1>26. IsList(p4) /\ Listed(p4, source) = IF blocked /\ source = "preflight" THEN Len(s4) ELSE 0
  <2>1. CASE blocked
    <3>1. IsList(s4) /\ p4 = FailuresOf(t, "preflight", s4)
      BY <1>4, <1>17, <2>1
    <3>2. IsList(p4) /\ Listed(p4, source) = IF "preflight" = source THEN Len(s4) ELSE 0
      BY <3>1, FailuresOfFacts
    <3> QED
      BY <2>1, <3>2
  <2>2. CASE ~blocked
    <3>1. p4 = << >> /\ IsList(<< >>)
      BY <1>4, <2>2 DEF IsList
    <3>2. {i \in DOMAIN << >> : << >>[i].source = source} = {}
      OBVIOUS
    <3> QED
      BY <2>2, <3>1, <3>2, FS_EmptySet DEF Listed
  <2> QED
    BY <2>1, <2>2
<1>27. /\ IsList(p1) /\ IsList(p2) /\ IsList(p3) /\ IsList(p4) /\ IsList(p5) /\ IsList(p6)
       /\ IsList(p7) /\ IsList(p8) /\ IsList(p9) /\ IsList(p10) /\ IsList(p11) /\ IsList(p12)
       /\ IsList(p13)
  BY <1>22, <1>23, <1>24, <1>25, <1>26
<1>28. PICK p : p = <<p1, p2, p3, p4, p5, p6, p7, p8, p9, p10, p11, p12, p13>>
  OBVIOUS
<1>35. /\ p[1] = p1 /\ p[2] = p2 /\ p[3] = p3 /\ p[4] = p4 /\ p[5] = p5 /\ p[6] = p6 /\ p[7] = p7
       /\ p[8] = p8 /\ p[9] = p9 /\ p[10] = p10 /\ p[11] = p11 /\ p[12] = p12 /\ p[13] = p13
  BY <1>28
<1>37. \A i \in 1..13 : IsList(p[i])
  <2>1. \A i \in 1..13 : i \in {1, 2, 3, 4, 5, 6, 7, 8, 9, 10, 11, 12, 13}
    OBVIOUS
  <2> QED
    BY <1>27, <1>35, <2>1
<1>38. Listed(FailureSummary(t), source)
         = Listed(p1, source) + Listed(p2, source) + Listed(p3, source) + Listed(p4, source)
             + Listed(p5, source) + Listed(p6, source) + Listed(p7, source) + Listed(p8, source)
             + Listed(p9, source) + Listed(p10, source) + Listed(p11, source) + Listed(p12, source)
             + Listed(p13, source)
  <2>1. Listed(p[1] \o p[2] \o p[3] \o p[4] \o p[5] \o p[6] \o p[7] \o p[8] \o p[9] \o p[10]
          \o p[11]
                 \o p[12] \o p[13], source)
         = Listed(p[1], source) + Listed(p[2], source) + Listed(p[3], source) + Listed(p[4], source)
             + Listed(p[5], source) + Listed(p[6], source) + Listed(p[7], source)
                 + Listed(p[8], source)
             + Listed(p[9], source) + Listed(p[10], source) + Listed(p[11], source)
                 + Listed(p[12], source)
             + Listed(p[13], source)
    BY <1>37, ListedPieces, Zenon
  <2> QED
    BY <1>14, <1>35, <2>1, Zenon
<1>36. /\ Listed(p3, source) \in Nat /\ Listed(p4, source) \in Nat /\ Listed(p8, source) \in Nat
       /\ Listed(p9, source) \in Nat /\ Listed(p12, source) \in Nat /\ Listed(p13, source) \in Nat
  <2>1. \A i \in 1..13 : Listed(p[i], source) \in Nat
    BY <1>37, ListedPieces, Zenon
  <2>2. 3 \in 1..13 /\ 4 \in 1..13 /\ 8 \in 1..13 /\ 9 \in 1..13 /\ 12 \in 1..13 /\ 13 \in 1..13
    OBVIOUS
  <2> QED
    BY <1>35, <2>1, <2>2
<1>29. source = "tool_center" => Listed(FailureSummary(t), source) = Len(FailedCalls(t))
  BY <1>16, <1>22, <1>23, <1>24, <1>25, <1>26, <1>38, <1>36
<1>30. source = "agent_tool" => Listed(FailureSummary(t), source) = Len(FailedAgents(t))
  BY <1>19, <1>22, <1>23, <1>24, <1>25, <1>26, <1>38, <1>36
<1>31. source = "mcp" => Listed(FailureSummary(t), source) = Cardinality(ServersWith(t, "failed"))
  BY <1>20, <1>22, <1>23, <1>24, <1>25, <1>26, <1>38, <1>36
<1>32. source = "preflight"
         => Listed(FailureSummary(t), source) =
             IF blocked THEN Cardinality(Preflight(t).blocking) ELSE 0
  BY <1>17, <1>22, <1>23, <1>24, <1>25, <1>26, <1>38, <1>36
<1>33. source = "planner" => Listed(FailureSummary(t), source) = IF h9 THEN 1 ELSE 0
  BY <1>22, <1>23, <1>24, <1>25, <1>26, <1>38, <1>36
<1>34. source = "structured_output" => Listed(FailureSummary(t), source) = Len(StructuredErrors(t))
  BY <1>8, <1>22, <1>23, <1>24, <1>25, <1>26, <1>38, <1>36
<1> QED
  BY <1>29, <1>30, <1>31, <1>32, <1>33, <1>34 DEF blocked, h9

LEMMA FailuresHold ==
  ASSUME \A t \in Saved : RecordedTrace(t)
  PROVE  FailuresAreCounted
<1> SUFFICES ASSUME NEW t \in Saved
             PROVE  AreCounted(FailureSummary(t), [part \in CountedParts |-> Part(t, part)])
  BY DEF FailuresAreCounted
<1> DEFINE parts == [part \in CountedParts |-> Part(t, part)]
<1>19. /\ parts["tool_center"] = Part(t, "tool_center")
       /\ parts["agent_tools"] = Part(t, "agent_tools")
       /\ parts["mcp"] = Part(t, "mcp")
       /\ parts["preflight"] = Part(t, "preflight")
       /\ parts["planner"] = Part(t, "planner")
       /\ parts["structured"] = Part(t, "structured")
  BY DEF CountedParts
<1> HIDE DEF parts
<1>1. RecordedTrace(t)
  OBVIOUS
<1>2. t.built = TRUE
  BY <1>1, BareIs
<1>3. Part(t, "tool_center").counts["tool_center_failed_calls"] = Len(FailedCalls(t))
  BY DEF Part, OfCalls, OfCourse, OfPrompt, CoursePart, ToolCenterReading, Reading
<1>4. Part(t, "agent_tools").counts["agent_tool_failures"]
        = CountOf(AgentToolTrace(t), LAMBDA r : r.status # "completed")
  <2>1. AgentTools(t) = AgentToolTrace(t)
    BY <1>2 DEF AgentTools
  <2>2. AgentToolReading(t).counts["agent_tool_failures"]
          = CountOf(AgentToolTrace(t), LAMBDA r : r.status # "completed")
    BY <2>1 DEF AgentToolReading, Reading, CountOf
  <2> QED
    BY <2>2, PartsAre
<1>5. Part(t, "mcp").counts["mcp_failed_servers"] = Cardinality(ServersWith(t, "failed"))
  <2>1. ServersIn(t, "failed") = ServersWith(t, "failed")
    BY <1>2 DEF ServersIn
  <2>2. McpReading(t).counts["mcp_failed_servers"] = Cardinality(ServersWith(t, "failed"))
    BY <2>1 DEF McpReading, Reading
  <2> QED
    BY <2>2, PartsAre
<1>6. Part(t, "preflight") = PreflightReading(t)
  BY DEF Part, OfCalls, OfCourse, OfPrompt, CoursePart
<1>7. "preflight_blocked" \in Part(t, "preflight").holds
        <=> Preflight(t) # None /\ Preflight(t).status = "blocked"
  BY <1>6 DEF PreflightReading, Reading, HoldsIf
<1>8. Preflight(t) # None
        => Part(t, "preflight").counts["preflight_blocking_issues"]
            = Cardinality(Preflight(t).blocking)
  BY <1>6 DEF PreflightReading, Reading
<1>9. Part(t, "planner").counts["failed_plan_steps"]
        = FailedSteps(PlannerTrace(t).plans, PlannerTrace(t).reports)
  <2>1. Plans(t) = PlannerTrace(t)
    BY <1>2 DEF Plans
  <2>2. PlannerReading(t).counts["failed_plan_steps"]
          = FailedSteps(PlannerTrace(t).plans, PlannerTrace(t).reports)
    BY <2>1 DEF PlannerReading, Reading
  <2> QED
    BY <2>2, PartsAre
<1>10. Part(t, "structured").counts["structured_output_failures"]
         = CountOf(StructuredOutputTrace(t), LAMBDA r : ~r.ok)
  <2>1. Structured(t) = StructuredOutputTrace(t)
    BY <1>2 DEF Structured
  <2>2. StructuredReading(t).counts["structured_output_failures"]
          = CountOf(StructuredOutputTrace(t), LAMBDA r : ~r.ok)
    BY <2>1 DEF StructuredReading, Reading, CountOf
  <2> QED
    BY <2>2, PartsAre
<1> DEFINE F == FailureSummary(t)
<1>11. Listed(F, "tool_center") = Len(FailedCalls(t))
  BY <1>1, FailuresListed
<1>12. Listed(F, "agent_tool") = CountOf(AgentToolTrace(t), LAMBDA r : r.status # "completed")
  <2>1. Listed(F, "agent_tool") = Len(FailedAgents(t))
    BY <1>1, FailuresListed
  <2> QED
    BY <1>1, <2>1, AgentsAreListed
<1>13. Listed(F, "mcp") = Cardinality(ServersWith(t, "failed"))
  BY <1>1, FailuresListed
<1>14. Listed(F, "preflight") = IF Preflight(t) # None /\ Preflight(t).status = "blocked"
                                THEN Cardinality(Preflight(t).blocking) ELSE 0
  BY <1>1, FailuresListed
<1>15. Listed(F, "planner")
         = IF FailedSteps(PlannerTrace(t).plans, PlannerTrace(t).reports) > 0 THEN 1 ELSE 0
  BY <1>1, FailuresListed
<1>16. Listed(F, "structured_output") <= CountOf(StructuredOutputTrace(t), LAMBDA r : ~r.ok)
  <2>1. Listed(F, "structured_output") = Len(StructuredErrors(t))
    BY <1>1, FailuresListed
  <2> QED
    BY <1>1, <2>1, ErrorsAreFew
<1> HIDE DEF F
<1>17. Listed(F, "preflight") = IF "preflight_blocked" \in Part(t, "preflight").holds
                                THEN Part(t, "preflight").counts["preflight_blocking_issues"] ELSE 0
  BY <1>7, <1>8, <1>14
<1>18. Listed(F, "planner") > 0 <=> Part(t, "planner").counts["failed_plan_steps"] > 0
  BY <1>9, <1>15
<1>20. /\ Listed(F, "tool_center") = parts["tool_center"].counts["tool_center_failed_calls"]
       /\ Listed(F, "agent_tool") = parts["agent_tools"].counts["agent_tool_failures"]
       /\ Listed(F, "mcp") = parts["mcp"].counts["mcp_failed_servers"]
       /\ Listed(F, "preflight") = IF "preflight_blocked" \in parts["preflight"].holds
                                   THEN parts["preflight"].counts["preflight_blocking_issues"]
                                   ELSE 0
       /\ Listed(F, "planner") > 0 <=> parts["planner"].counts["failed_plan_steps"] > 0
       /\ Listed(F, "structured_output")
            <= parts["structured"].counts["structured_output_failures"]
  BY <1>3, <1>4, <1>5, <1>10, <1>11, <1>12, <1>13, <1>16, <1>17, <1>18, <1>19
<1>21. AreCounted(F, parts)
  BY <1>20 DEF AreCounted, CountOf, Listed
<1> QED
  BY <1>21 DEF F, parts

-----------------------------------------------------------------------------
(* The steps of a replay, piece by piece.                                   *)

\* What is not in a list is there no times.
LEMMA NumberNone ==
  ASSUME NEW s, IsList(s), NEW x, \A i \in DOMAIN s : s[i] # x
  PROVE  Number(s, {x}) = 0
<1>1. {i \in DOMAIN s : s[i] \in {x}} = {}
  OBVIOUS
<1> QED
  BY <1>1, FS_EmptySet DEF Number

LEMMA NumberOfMany ==
  ASSUME NEW p, \A i \in 1..15 : IsList(p[i]), NEW K
  PROVE  LET all == p[1] \o p[2] \o p[3] \o p[4] \o p[5] \o p[6] \o p[7] \o p[8]
                  \o p[9] \o p[10] \o p[11] \o p[12] \o p[13] \o p[14] \o p[15]
         IN  /\ IsList(all) /\ \A i \in 1..15 : Number(p[i], K) \in Nat
             /\ Number(all, K) = Number(p[1], K) + Number(p[2], K) + Number(p[3], K)
                  + Number(p[4], K)
                 + Number(p[5], K) + Number(p[6], K) + Number(p[7], K) + Number(p[8], K)
                 + Number(p[9], K) + Number(p[10], K) + Number(p[11], K) + Number(p[12], K)
                 + Number(p[13], K) + Number(p[14], K) + Number(p[15], K)
<1>0. IsList(p[1]) /\ IsList(p[2]) /\ IsList(p[3]) /\ IsList(p[4]) /\ IsList(p[5])
        /\ IsList(p[6]) /\ IsList(p[7])
      /\ IsList(p[8]) /\ IsList(p[9]) /\ IsList(p[10]) /\ IsList(p[11]) /\ IsList(p[12])
           /\ IsList(p[13]) /\ IsList(p[14]) /\ IsList(p[15])
  OBVIOUS
<1>1. PICK q2 : q2 = p[1] \o p[2]
  OBVIOUS
<1>2. PICK q3 : q3 = q2 \o p[3]
  OBVIOUS
<1>3. PICK q4 : q4 = q3 \o p[4]
  OBVIOUS
<1>4. PICK q5 : q5 = q4 \o p[5]
  OBVIOUS
<1>5. PICK q6 : q6 = q5 \o p[6]
  OBVIOUS
<1>6. PICK q7 : q7 = q6 \o p[7]
  OBVIOUS
<1>7. PICK q8 : q8 = q7 \o p[8]
  OBVIOUS
<1>8. PICK q9 : q9 = q8 \o p[9]
  OBVIOUS
<1>9. PICK q10 : q10 = q9 \o p[10]
  OBVIOUS
<1>10. PICK q11 : q11 = q10 \o p[11]
  OBVIOUS
<1>11. PICK q12 : q12 = q11 \o p[12]
  OBVIOUS
<1>12. PICK q13 : q13 = q12 \o p[13]
  OBVIOUS
<1>13. PICK q14 : q14 = q13 \o p[14]
  OBVIOUS
<1>14. PICK q15 : q15 = q14 \o p[15]
  OBVIOUS
<1>15. /\ IsList(q2) /\ Number(q2, K) = Number(p[1], K) + Number(p[2], K)
       /\ Number(p[1], K) \in Nat /\ Number(p[2], K) \in Nat
  BY <1>0, <1>1, ListConcat
<1>16. /\ IsList(q3) /\ Number(q3, K) = Number(q2, K) + Number(p[3], K)
       /\ Number(q2, K) \in Nat /\ Number(p[3], K) \in Nat
  BY <1>0, <1>2, <1>15, ListConcat
<1>17. /\ IsList(q4) /\ Number(q4, K) = Number(q3, K) + Number(p[4], K)
       /\ Number(q3, K) \in Nat /\ Number(p[4], K) \in Nat
  BY <1>0, <1>3, <1>16, ListConcat
<1>18. /\ IsList(q5) /\ Number(q5, K) = Number(q4, K) + Number(p[5], K)
       /\ Number(q4, K) \in Nat /\ Number(p[5], K) \in Nat
  BY <1>0, <1>4, <1>17, ListConcat
<1>19. /\ IsList(q6) /\ Number(q6, K) = Number(q5, K) + Number(p[6], K)
       /\ Number(q5, K) \in Nat /\ Number(p[6], K) \in Nat
  BY <1>0, <1>5, <1>18, ListConcat
<1>20. /\ IsList(q7) /\ Number(q7, K) = Number(q6, K) + Number(p[7], K)
       /\ Number(q6, K) \in Nat /\ Number(p[7], K) \in Nat
  BY <1>0, <1>6, <1>19, ListConcat
<1>21. /\ IsList(q8) /\ Number(q8, K) = Number(q7, K) + Number(p[8], K)
       /\ Number(q7, K) \in Nat /\ Number(p[8], K) \in Nat
  BY <1>0, <1>7, <1>20, ListConcat
<1>22. /\ IsList(q9) /\ Number(q9, K) = Number(q8, K) + Number(p[9], K)
       /\ Number(q8, K) \in Nat /\ Number(p[9], K) \in Nat
  BY <1>0, <1>8, <1>21, ListConcat
<1>23. /\ IsList(q10) /\ Number(q10, K) = Number(q9, K) + Number(p[10], K)
       /\ Number(q9, K) \in Nat /\ Number(p[10], K) \in Nat
  BY <1>0, <1>9, <1>22, ListConcat
<1>24. /\ IsList(q11) /\ Number(q11, K) = Number(q10, K) + Number(p[11], K)
       /\ Number(q10, K) \in Nat /\ Number(p[11], K) \in Nat
  BY <1>0, <1>10, <1>23, ListConcat
<1>25. /\ IsList(q12) /\ Number(q12, K) = Number(q11, K) + Number(p[12], K)
       /\ Number(q11, K) \in Nat /\ Number(p[12], K) \in Nat
  BY <1>0, <1>11, <1>24, ListConcat
<1>26. /\ IsList(q13) /\ Number(q13, K) = Number(q12, K) + Number(p[13], K)
       /\ Number(q12, K) \in Nat /\ Number(p[13], K) \in Nat
  BY <1>0, <1>12, <1>25, ListConcat
<1>27. /\ IsList(q14) /\ Number(q14, K) = Number(q13, K) + Number(p[14], K)
       /\ Number(q13, K) \in Nat /\ Number(p[14], K) \in Nat
  BY <1>0, <1>13, <1>26, ListConcat
<1>28. /\ IsList(q15) /\ Number(q15, K) = Number(q14, K) + Number(p[15], K)
       /\ Number(q14, K) \in Nat /\ Number(p[15], K) \in Nat
  BY <1>0, <1>14, <1>27, ListConcat
<1>29. Number(q15, K) = Number(p[1], K) + Number(p[2], K) + Number(p[3], K) + Number(p[4], K)
                 + Number(p[5], K) + Number(p[6], K) + Number(p[7], K) + Number(p[8], K)
                 + Number(p[9], K) + Number(p[10], K) + Number(p[11], K) + Number(p[12], K)
                 + Number(p[13], K) + Number(p[14], K) + Number(p[15], K)
  BY <1>15, <1>16, <1>17, <1>18, <1>19, <1>20, <1>21, <1>22, <1>23, <1>24, <1>25, <1>26, <1>27,
     <1>28
<1>30. q15 = p[1] \o p[2] \o p[3] \o p[4] \o p[5] \o p[6] \o p[7] \o p[8]
                  \o p[9] \o p[10] \o p[11] \o p[12] \o p[13] \o p[14] \o p[15]
  BY <1>1, <1>2, <1>3, <1>4, <1>5, <1>6, <1>7, <1>8, <1>9, <1>10, <1>11, <1>12, <1>13, <1>14, Zenon
<1>31. \A i \in 1..15 : i \in {1, 2, 3, 4, 5, 6, 7, 8, 9, 10, 11, 12, 13, 14, 15}
  OBVIOUS
<1>32. \A i \in 1..15 : Number(p[i], K) \in Nat
  BY <1>15, <1>16, <1>17, <1>18, <1>19, <1>20, <1>21, <1>22, <1>23, <1>24, <1>25, <1>26, <1>27,
     <1>28, <1>31
<1> QED
  BY <1>28, <1>29, <1>30, <1>32

\* An element that only one of many lists may have is as often in that one as in all.
LEMMA NumberOfOne ==
  ASSUME NEW p, \A i \in 1..15 : IsList(p[i]), NEW k \in 1..15, NEW x,
         \A i \in 1..15 : i # k => \A n \in DOMAIN p[i] : p[i][n] # x
  PROVE  LET all == p[1] \o p[2] \o p[3] \o p[4] \o p[5] \o p[6] \o p[7] \o p[8]
                  \o p[9] \o p[10] \o p[11] \o p[12] \o p[13] \o p[14] \o p[15]
         IN  Number(all, {x}) = Number(p[k], {x})
<1>1. \A i \in 1..15 : i # k => Number(p[i], {x}) = 0
  BY NumberNone
<1>2. PICK m : m = [i \in 1..15 |-> Number(p[i], {x})]
  OBVIOUS
<1>3. PICK q : q = p[1] \o p[2] \o p[3] \o p[4] \o p[5] \o p[6] \o p[7] \o p[8]
                  \o p[9] \o p[10] \o p[11] \o p[12] \o p[13] \o p[14] \o p[15]
  OBVIOUS
<1>4. (\A i \in 1..15 : Number(p[i], {x}) \in Nat)
        /\ Number(q, {x}) = Number(p[1], {x}) + Number(p[2], {x}) + Number(p[3], {x})
             + Number(p[4], {x})
                 + Number(p[5], {x}) + Number(p[6], {x}) + Number(p[7], {x}) + Number(p[8], {x})
                 + Number(p[9], {x}) + Number(p[10], {x}) + Number(p[11], {x}) + Number(p[12], {x})
                 + Number(p[13], {x}) + Number(p[14], {x}) + Number(p[15], {x})
  BY <1>3, NumberOfMany
<1>5. Number(q, {x}) = m[1] + m[2] + m[3] + m[4] + m[5] + m[6] + m[7] + m[8] + m[9] + m[10]
        + m[11] + m[12]
                         + m[13] + m[14] + m[15]
  BY <1>2, <1>4
<1>6. m \in [1..15 -> Nat] /\ \A i \in 1..15 : i # k => m[i] = 0
  BY <1>1, <1>2, <1>4
<1>7. k \in {1, 2, 3, 4, 5, 6, 7, 8, 9, 10, 11, 12, 13, 14, 15}
  OBVIOUS
<1>8. Number(q, {x}) = m[k]
  <2>0. /\ m[1] \in Nat /\ m[2] \in Nat /\ m[3] \in Nat /\ m[4] \in Nat /\ m[5] \in Nat
             /\ m[6] \in Nat
        /\ m[7] \in Nat /\ m[8] \in Nat /\ m[9] \in Nat /\ m[10] \in Nat /\ m[11] \in Nat
             /\ m[12] \in Nat
        /\ m[13] \in Nat /\ m[14] \in Nat /\ m[15] \in Nat
    BY <1>6
  <2>1. CASE k = 1
    <3>1. /\ m[2] = 0 /\ m[3] = 0 /\ m[4] = 0 /\ m[5] = 0 /\ m[6] = 0 /\ m[7] = 0 /\ m[8] = 0
          /\ m[9] = 0 /\ m[10] = 0 /\ m[11] = 0 /\ m[12] = 0 /\ m[13] = 0 /\ m[14] = 0 /\ m[15] = 0
      BY <1>6, <2>1
    <3> QED
      BY <1>5, <2>0, <2>1, <3>1
  <2>2. CASE k = 2
    <3>1. /\ m[1] = 0 /\ m[3] = 0 /\ m[4] = 0 /\ m[5] = 0 /\ m[6] = 0 /\ m[7] = 0 /\ m[8] = 0
          /\ m[9] = 0 /\ m[10] = 0 /\ m[11] = 0 /\ m[12] = 0 /\ m[13] = 0 /\ m[14] = 0 /\ m[15] = 0
      BY <1>6, <2>2
    <3> QED
      BY <1>5, <2>0, <2>2, <3>1
  <2>3. CASE k = 3
    <3>1. /\ m[1] = 0 /\ m[2] = 0 /\ m[4] = 0 /\ m[5] = 0 /\ m[6] = 0 /\ m[7] = 0 /\ m[8] = 0
          /\ m[9] = 0 /\ m[10] = 0 /\ m[11] = 0 /\ m[12] = 0 /\ m[13] = 0 /\ m[14] = 0 /\ m[15] = 0
      BY <1>6, <2>3
    <3> QED
      BY <1>5, <2>0, <2>3, <3>1
  <2>4. CASE k = 4
    <3>1. /\ m[1] = 0 /\ m[2] = 0 /\ m[3] = 0 /\ m[5] = 0 /\ m[6] = 0 /\ m[7] = 0 /\ m[8] = 0
          /\ m[9] = 0 /\ m[10] = 0 /\ m[11] = 0 /\ m[12] = 0 /\ m[13] = 0 /\ m[14] = 0 /\ m[15] = 0
      BY <1>6, <2>4
    <3> QED
      BY <1>5, <2>0, <2>4, <3>1
  <2>5. CASE k = 5
    <3>1. /\ m[1] = 0 /\ m[2] = 0 /\ m[3] = 0 /\ m[4] = 0 /\ m[6] = 0 /\ m[7] = 0 /\ m[8] = 0
          /\ m[9] = 0 /\ m[10] = 0 /\ m[11] = 0 /\ m[12] = 0 /\ m[13] = 0 /\ m[14] = 0 /\ m[15] = 0
      BY <1>6, <2>5
    <3> QED
      BY <1>5, <2>0, <2>5, <3>1
  <2>6. CASE k = 6
    <3>1. /\ m[1] = 0 /\ m[2] = 0 /\ m[3] = 0 /\ m[4] = 0 /\ m[5] = 0 /\ m[7] = 0 /\ m[8] = 0
          /\ m[9] = 0 /\ m[10] = 0 /\ m[11] = 0 /\ m[12] = 0 /\ m[13] = 0 /\ m[14] = 0 /\ m[15] = 0
      BY <1>6, <2>6
    <3> QED
      BY <1>5, <2>0, <2>6, <3>1
  <2>7. CASE k = 7
    <3>1. /\ m[1] = 0 /\ m[2] = 0 /\ m[3] = 0 /\ m[4] = 0 /\ m[5] = 0 /\ m[6] = 0 /\ m[8] = 0
          /\ m[9] = 0 /\ m[10] = 0 /\ m[11] = 0 /\ m[12] = 0 /\ m[13] = 0 /\ m[14] = 0 /\ m[15] = 0
      BY <1>6, <2>7
    <3> QED
      BY <1>5, <2>0, <2>7, <3>1
  <2>8. CASE k = 8
    <3>1. /\ m[1] = 0 /\ m[2] = 0 /\ m[3] = 0 /\ m[4] = 0 /\ m[5] = 0 /\ m[6] = 0 /\ m[7] = 0
          /\ m[9] = 0 /\ m[10] = 0 /\ m[11] = 0 /\ m[12] = 0 /\ m[13] = 0 /\ m[14] = 0 /\ m[15] = 0
      BY <1>6, <2>8
    <3> QED
      BY <1>5, <2>0, <2>8, <3>1
  <2>9. CASE k = 9
    <3>1. /\ m[1] = 0 /\ m[2] = 0 /\ m[3] = 0 /\ m[4] = 0 /\ m[5] = 0 /\ m[6] = 0 /\ m[7] = 0
          /\ m[8] = 0 /\ m[10] = 0 /\ m[11] = 0 /\ m[12] = 0 /\ m[13] = 0 /\ m[14] = 0 /\ m[15] = 0
      BY <1>6, <2>9
    <3> QED
      BY <1>5, <2>0, <2>9, <3>1
  <2>10. CASE k = 10
    <3>1. /\ m[1] = 0 /\ m[2] = 0 /\ m[3] = 0 /\ m[4] = 0 /\ m[5] = 0 /\ m[6] = 0 /\ m[7] = 0
          /\ m[8] = 0 /\ m[9] = 0 /\ m[11] = 0 /\ m[12] = 0 /\ m[13] = 0 /\ m[14] = 0 /\ m[15] = 0
      BY <1>6, <2>10
    <3> QED
      BY <1>5, <2>0, <2>10, <3>1
  <2>11. CASE k = 11
    <3>1. /\ m[1] = 0 /\ m[2] = 0 /\ m[3] = 0 /\ m[4] = 0 /\ m[5] = 0 /\ m[6] = 0 /\ m[7] = 0
          /\ m[8] = 0 /\ m[9] = 0 /\ m[10] = 0 /\ m[12] = 0 /\ m[13] = 0 /\ m[14] = 0 /\ m[15] = 0
      BY <1>6, <2>11
    <3> QED
      BY <1>5, <2>0, <2>11, <3>1
  <2>12. CASE k = 12
    <3>1. /\ m[1] = 0 /\ m[2] = 0 /\ m[3] = 0 /\ m[4] = 0 /\ m[5] = 0 /\ m[6] = 0 /\ m[7] = 0
          /\ m[8] = 0 /\ m[9] = 0 /\ m[10] = 0 /\ m[11] = 0 /\ m[13] = 0 /\ m[14] = 0 /\ m[15] = 0
      BY <1>6, <2>12
    <3> QED
      BY <1>5, <2>0, <2>12, <3>1
  <2>13. CASE k = 13
    <3>1. /\ m[1] = 0 /\ m[2] = 0 /\ m[3] = 0 /\ m[4] = 0 /\ m[5] = 0 /\ m[6] = 0 /\ m[7] = 0
          /\ m[8] = 0 /\ m[9] = 0 /\ m[10] = 0 /\ m[11] = 0 /\ m[12] = 0 /\ m[14] = 0 /\ m[15] = 0
      BY <1>6, <2>13
    <3> QED
      BY <1>5, <2>0, <2>13, <3>1
  <2>14. CASE k = 14
    <3>1. /\ m[1] = 0 /\ m[2] = 0 /\ m[3] = 0 /\ m[4] = 0 /\ m[5] = 0 /\ m[6] = 0 /\ m[7] = 0
          /\ m[8] = 0 /\ m[9] = 0 /\ m[10] = 0 /\ m[11] = 0 /\ m[12] = 0 /\ m[13] = 0 /\ m[15] = 0
      BY <1>6, <2>14
    <3> QED
      BY <1>5, <2>0, <2>14, <3>1
  <2>15. CASE k = 15
    <3>1. /\ m[1] = 0 /\ m[2] = 0 /\ m[3] = 0 /\ m[4] = 0 /\ m[5] = 0 /\ m[6] = 0 /\ m[7] = 0
          /\ m[8] = 0 /\ m[9] = 0 /\ m[10] = 0 /\ m[11] = 0 /\ m[12] = 0 /\ m[13] = 0 /\ m[14] = 0
      BY <1>6, <2>15
    <3> QED
      BY <1>5, <2>0, <2>15, <3>1
  <2> QED
    BY <1>7, <2>1, <2>2, <2>3, <2>4, <2>5, <2>6, <2>7, <2>8, <2>9, <2>10, <2>11, <2>12, <2>13,
       <2>14, <2>15
<1> QED
  BY <1>2, <1>3, <1>8

\* A step, and a list of steps of some sources.
IsStep(x) == x = Step(x.source, x.type, x.payload)
From(s, S) == IsList(s) /\ \A i \in DOMAIN s : s[i].source \in S /\ IsStep(s[i])

LEMMA FromConcat ==
  ASSUME NEW S, NEW s, NEW u, From(s, S), From(u, S)
  PROVE  From(s \o u, S)
<1>1. IsList(s) /\ IsList(u)
  BY DEF From
<1>2. PICK q : q = s \o u
  OBVIOUS
<1>3. IsList(q) /\ ToSet(q) = ToSet(s) \cup ToSet(u)
  BY <1>1, <1>2, ListConcat
<1>4. \A x \in ToSet(s) \cup ToSet(u) : x.source \in S /\ IsStep(x)
  BY DEF From, ToSet
<1>5. \A i \in DOMAIN q : q[i] \in ToSet(q)
  BY DEF ToSet
<1> QED
  BY <1>2, <1>3, <1>4, <1>5 DEF From

LEMMA FromMade ==
  ASSUME NEW S, NEW s, IsList(s), NEW q, DOMAIN q = DOMAIN s, q = [i \in DOMAIN q |-> q[i]],
         \A i \in DOMAIN q : q[i].source \in S /\ IsStep(q[i])
  PROVE  From(q, S) /\ Len(q) = Len(s)
BY MadeIsList DEF From

LEMMA ListOfLists ==
  ASSUME NEW s, IsList(s), \A i \in DOMAIN s : IsList(s[i])
  PROVE  s \in Seq(Seq(UNION {ToSet(s[i]) : i \in DOMAIN s}))
<1>1. PICK T : T = UNION {ToSet(s[i]) : i \in DOMAIN s}
  OBVIOUS
<1>2. \A i \in DOMAIN s : s[i] \in Seq(T)
  <2> TAKE i \in DOMAIN s
  <2>1. PICK y : y = s[i]
    OBVIOUS
  <2>2. y \in Seq({y[j] : j \in DOMAIN y})
    BY <2>1 DEF IsList
  <2>3. y = [j \in 1..Len(y) |-> y[j]] /\ Len(y) \in Nat /\ DOMAIN y = 1..Len(y)
    BY <2>2
  <2>4. \A j \in DOMAIN y : y[j] \in T
    BY <1>1, <2>1 DEF ToSet
  <2>5. y \in Seq(T)
    BY <2>3, <2>4
  <2> QED
    BY <2>1, <2>5
<1>3. Len(s) \in Nat /\ DOMAIN s = 1..Len(s) /\ s = [i \in 1..Len(s) |-> s[i]]
  BY DEF IsList
<1>4. s \in Seq(Seq(T))
  BY <1>2, <1>3
<1> QED
  BY <1>1, <1>4

-----------------------------------------------------------------------------
(* The lists that are replayed.                                             *)

LEMMA FilteredList ==
  ASSUME NEW s, IsList(s), NEW K
  PROVE  IsList(Filtered(s, K))
BY FilteredElements

LEMMA PlansAreLists ==
  ASSUME NEW t, RecordedTrace(t)
  PROVE  IsList(PlannerTrace(t).plans) /\ IsList(PlannerTrace(t).reports)
<1>1. PICK m : m = PlannerManifests(t)
  OBVIOUS
<1>2. IsList(m) /\ \A i \in DOMAIN m : InLists(m[i])
  <2>1. PICK a, b, c : a = Of(t, "planner") /\ b = Of(t, "plan_executor")
                         /\ c = Of(t, "planner_trace")
    OBVIOUS
  <2>2. /\ IsList(a) /\ \A i \in DOMAIN a : InLists(a[i])
        /\ IsList(b) /\ \A i \in DOMAIN b : InLists(b[i])
        /\ IsList(c) /\ \A i \in DOMAIN c : InLists(c[i])
    BY <2>1, OfIs, ItemsAssumption
  <2>3. PICK d : d = a \o b
    OBVIOUS
  <2>4. IsList(d) /\ ToSet(d) = ToSet(a) \cup ToSet(b)
    BY <2>2, <2>3, ListConcat
  <2>5. m = d \o c
    BY <1>1, <2>1, <2>3 DEF PlannerManifests
  <2>6. IsList(m) /\ ToSet(m) = ToSet(d) \cup ToSet(c)
    BY <2>2, <2>4, <2>5, ListConcat
  <2>7. \A x \in ToSet(a) \cup ToSet(b) \cup ToSet(c) : InLists(x)
    BY <2>2 DEF ToSet
  <2>8. \A i \in DOMAIN m : m[i] \in ToSet(m)
    BY DEF ToSet
  <2> QED
    BY <2>4, <2>6, <2>7, <2>8
<1>3. PICK all : all = [i \in DOMAIN m |-> PlannerMaterials(m[i])]
  OBVIOUS
<1>4. \A i \in DOMAIN m : IsList(all[i].plans) /\ IsList(all[i].reports)
  <2> TAKE i \in DOMAIN m
  <2>1. PICK x : x = m[i]
    OBVIOUS
  <2>2. PICK in : in = Joined([j \in DOMAIN x.reports |-> x.reports[j].plan])
    OBVIOUS
  <2>3. all[i] = [plans |-> CASE x.form = "trace" -> x.plans
                              [] x.form = "executor" -> in
                              [] x.form = "plan" -> x.plans
                              [] OTHER -> x.plans \o in,
                  reports |-> IF x.form = "plan" THEN << >> ELSE x.reports]
    BY <1>3, <2>1, <2>2 DEF PlannerMaterials
  <2>4. IsList(x.plans) /\ IsList(x.reports)
          /\ \A j \in DOMAIN x.reports : IsList(x.reports[j].plan)
    BY <1>2, <2>1 DEF InLists
  <2>5. IsList(in)
    <3>1. PICK q : q = [j \in DOMAIN x.reports |-> x.reports[j].plan]
      OBVIOUS
    <3>2. IsList(q) /\ DOMAIN q = DOMAIN x.reports
      <4>1. PICK z : z = x.reports
        OBVIOUS
      <4>2. IsList(z) /\ q = [j \in DOMAIN z |-> z[j].plan]
        BY <2>4, <3>1, <4>1
      <4> QED
        BY <4>1, <4>2, MadeIsList
    <3>3. \A j \in DOMAIN q : IsList(q[j])
      BY <2>4, <3>1, <3>2
    <3>4. PICK T : q \in Seq(Seq(T))
      BY <3>2, <3>3, ListOfLists
    <3>5. in \in Seq(T)
      BY <2>2, <3>1, <3>4, JoinedFacts
    <3> QED
      BY <3>5, SeqIsList
  <2>6. IsList(x.plans \o in)
    BY <2>4, <2>5, ListConcat
  <2>7. IsList(<< >>)
    BY DEF IsList
  <2>8. PICK y : y = all[i]
    OBVIOUS
  <2>9. /\ y.plans = CASE x.form = "trace" -> x.plans
                       [] x.form = "executor" -> in
                       [] x.form = "plan" -> x.plans
                       [] OTHER -> x.plans \o in
        /\ y.reports = IF x.form = "plan" THEN << >> ELSE x.reports
    BY <2>3, <2>8
  <2>10. IsList(y.plans)
    BY <2>4, <2>5, <2>6, <2>9
  <2>11. IsList(y.reports)
    BY <2>4, <2>7, <2>9
  <2> QED
    BY <2>8, <2>10, <2>11
<1>5. PICK p, r : p = [i \in DOMAIN all |-> all[i].plans]
                    /\ r = [i \in DOMAIN all |-> all[i].reports]
  OBVIOUS
<1>6. IsList(p) /\ IsList(r) /\ DOMAIN p = DOMAIN m /\ DOMAIN r = DOMAIN m
  <2>1. DOMAIN p = DOMAIN m /\ DOMAIN r = DOMAIN m /\ DOMAIN all = DOMAIN m
    BY <1>3, <1>5
  <2>2. p = [i \in DOMAIN p |-> p[i]] /\ r = [i \in DOMAIN r |-> r[i]]
    BY <1>5
  <2> QED
    BY <1>2, <2>1, <2>2, MadeIsList
<1>7. (\A i \in DOMAIN p : IsList(p[i])) /\ (\A i \in DOMAIN r : IsList(r[i]))
  BY <1>3, <1>4, <1>5, <1>6
<1>8. PICK A, B : p \in Seq(Seq(A)) /\ r \in Seq(Seq(B))
  BY <1>6, <1>7, ListOfLists
<1>9. IsList(Joined(p)) /\ IsList(Joined(r))
  <2>1. Joined(p) \in Seq(A) /\ Joined(r) \in Seq(B)
    BY <1>8, JoinedFacts
  <2> QED
    BY <2>1, SeqIsList
<1>10. PlannerTrace(t) = [plans |-> Joined(p), reports |-> Joined(r)]
  BY <1>1, <1>3, <1>5 DEF PlannerTrace
<1> QED
  BY <1>9, <1>10

LEMMA TracesAreLists ==
  ASSUME NEW t, RecordedTrace(t)
  PROVE  /\ IsList(Plans(t).plans) /\ IsList(Plans(t).reports)
         /\ IsList(Handoffs(t)) /\ IsList(AgentTools(t)) /\ IsList(Approvals(t))
              /\ IsList(Artifacts(t))
         /\ IsList(Structured(t)) /\ IsList(ToolResults(t)) /\ IsList(Materials(t))
<1>1. /\ Plans(t) = PlannerTrace(t) /\ Handoffs(t) = HandoffTrace(t)
           /\ AgentTools(t) = AgentToolTrace(t)
      /\ Approvals(t) = ApprovalTrace(t) /\ Artifacts(t) = ArtifactTrace(t)
      /\ Structured(t) = StructuredOutputTrace(t) /\ Materials(t) = ContextMaterialTrace(t)
  BY BareIs DEF Plans, Handoffs, AgentTools, Approvals, Artifacts, Structured, Materials
<1>2. IsList(PlannerTrace(t).plans) /\ IsList(PlannerTrace(t).reports)
  BY PlansAreLists
<1>3. IsList(HandoffTrace(t))
  <2>1. PICK s, a : s = Of(t, "handoff") /\ a = [i \in DOMAIN s |-> HandoffRecord(s[i])]
    OBVIOUS
  <2>2. IsList(s)
    BY <2>1, OfIs
  <2>3. IsList(a)
    BY <2>1, <2>2, MadeIsList
  <2>4. HandoffTrace(t) = Filtered(a, {r \in ToSet(a) : r.status # NoText})
    BY <2>1 DEF HandoffTrace, Where
  <2> QED
    BY <2>3, <2>4, FilteredList
<1>4. IsList(AgentToolTrace(t))
  BY AgentsAreListed
<1>5. IsList(ApprovalTrace(t)) /\ IsList(ArtifactTrace(t))
  <2>1. PICK a, b : a = Of(t, "approvals") /\ b = Of(t, "artifacts")
    OBVIOUS
  <2>2. IsList(a) /\ IsList(b)
    BY <2>1, OfIs
  <2>3. ApprovalTrace(t) = Filtered(a, {r \in ToSet(a) : r.id # NoText})
    BY <2>1 DEF ApprovalTrace, Where
  <2>4. ArtifactTrace(t) = Filtered(b, {r \in ToSet(b) : r.id # NoText})
    BY <2>1 DEF ArtifactTrace, Where
  <2> QED
    BY <2>2, <2>3, <2>4, FilteredList
<1>6. IsList(StructuredOutputTrace(t)) /\ IsList(ToolResults(t))
  <2>1. PICK s : s = Of(t, "journal")
    OBVIOUS
  <2>2. IsList(s)
    BY <2>1, OfIs
  <2> DEFINE A == {e \in ToSet(s) : e.type = "checkpoint" /\ IsStructured(e.state)}
             B == {e \in ToSet(s) : e.type = "tool_call" /\ e.native}
  <2>3. PICK at : at = Filtered(s, A)
    OBVIOUS
  <2>4. StructuredOutputTrace(t) = [i \in DOMAIN at |-> StructuredRecord(at[i].state)]
    BY <2>1, <2>3 DEF StructuredOutputTrace, Where
  <2>5. ToolResults(t) = Filtered(s, B)
    BY <2>1 DEF ToolResults, Where
  <2> HIDE DEF A, B
  <2>6. IsList(at) /\ IsList(ToolResults(t))
    BY <2>2, <2>3, <2>5, FilteredList
  <2>7. PICK q : q = [i \in DOMAIN at |-> StructuredRecord(at[i].state)]
    OBVIOUS
  <2>8. IsList(q)
    BY <2>6, <2>7, MadeIsList
  <2> QED
    BY <2>4, <2>6, <2>7, <2>8
<1>7. IsList(ContextMaterialTrace(t))
  <2>1. PICK s, a : s = Of(t, "context_injections") /\ a = Of(t, "materials")
    OBVIOUS
  <2>2. IsList(s) /\ IsList(a)
    BY <2>1, OfIs
  <2> DEFINE A == {i \in ToSet(s) : i.material # None}
  <2>3. PICK used : used = Filtered(s, A)
    OBVIOUS
  <2>4. PICK q : q = [i \in DOMAIN used |->
              [name |-> used[i].name, status |-> "selected", selected |-> TRUE,
               target |-> IF used[i].material.target # NoText THEN used[i].material.target
                          ELSE used[i].target,
               bytes |-> used[i].bytes]]
    OBVIOUS
  <2>5. ContextMaterialTrace(t) = IF a # << >> THEN a ELSE q
    BY <2>1, <2>3, <2>4 DEF ContextMaterialTrace, Where
  <2> HIDE DEF A
  <2>6. IsList(used)
    BY <2>2, <2>3, FilteredList
  <2>7. IsList(q)
    BY <2>4, <2>6, MadeIsList
  <2> QED
    BY <2>2, <2>5, <2>7
<1> QED
  BY <1>1, <1>2, <1>3, <1>4, <1>5, <1>6, <1>7

-----------------------------------------------------------------------------
(* The steps of a source, and what they carry.                              *)

\* The steps q replay the list s, as steps of a source and of one of some types, or of any.
Replays(q, s, source, types) ==
  /\ IsList(s) /\ IsList(q) /\ DOMAIN q = DOMAIN s
  /\ \A i \in DOMAIN s : /\ q[i].source = source /\ q[i].payload = s[i] /\ IsStep(q[i])
                         /\ types = {} \/ q[i].type \in types

LEMMA ReplaysFrom ==
  ASSUME NEW S, NEW q, NEW s, NEW source \in S, NEW types, Replays(q, s, source, types)
  PROVE  From(q, S)
BY DEF Replays, From

LEMMA ReplaysMade ==
  ASSUME NEW s, IsList(s), NEW q, DOMAIN q = DOMAIN s, q = [i \in DOMAIN q |-> q[i]], NEW source,
      NEW types,
         \A i \in DOMAIN s : /\ q[i].source = source /\ q[i].payload = s[i] /\ IsStep(q[i])
                             /\ types = {} \/ q[i].type \in types
  PROVE  Replays(q, s, source, types)
BY MadeIsList DEF Replays

\* A list of one, or of none.
OneIf(condition, x) == IF condition THEN <<x>> ELSE << >>

LEMMA ReplaysOne ==
  ASSUME NEW condition \in BOOLEAN, NEW step, NEW source, NEW types, step.source = source,
      IsStep(step),
         types = {} \/ step.type \in types
  PROVE  Replays(StepIf(condition, step), OneIf(condition, step.payload), source, types)
<1>1. PICK q, s : q = StepIf(condition, step) /\ s = OneIf(condition, step.payload)
  OBVIOUS
<1>2. CASE condition
  <2>1. q = <<step>> /\ s = <<step.payload>>
    BY <1>1, <1>2 DEF StepIf, OneIf
  <2>2. IsList(<<step>>) /\ IsList(<<step.payload>>)
    BY DEF IsList
  <2>3. DOMAIN q = {1} /\ DOMAIN s = {1} /\ q[1] = step /\ s[1] = step.payload
    BY <2>1
  <2>4. Replays(q, s, source, types)
    BY <2>1, <2>2, <2>3 DEF Replays
  <2> QED
    BY <1>1, <2>4
<1>3. CASE ~condition
  <2>1. q = << >> /\ s = << >>
    BY <1>1, <1>3 DEF StepIf, OneIf
  <2>2. IsList(<< >>)
    BY DEF IsList
  <2>3. DOMAIN q = {} /\ DOMAIN s = {}
    BY <2>1
  <2>4. Replays(q, s, source, types)
    BY <2>1, <2>2, <2>3 DEF Replays
  <2> QED
    BY <1>1, <2>4
<1> QED
  BY <1>2, <1>3

\* A call without its error and its route.
Replayed(c) ==
  [name |-> c.name, model |-> c.model, status |-> c.status, caps |-> c.caps, stream |-> c.stream,
   calls |-> c.calls, streamCalls |-> c.streamCalls, shape |-> c.shape, cost |-> c.cost]
ReplayedCalls(t) == [i \in DOMAIN Calls(t) |-> Replayed(Calls(t)[i])]

LEMMA HandoffStepsReplay ==
  ASSUME NEW t, RecordedTrace(t)
  PROVE  Replays(HandoffSteps(t), Handoffs(t), "handoff_trace", {})
<1>1. PICK s : s = Handoffs(t)
  OBVIOUS
<1>2. IsList(s)
  BY <1>1, TracesAreLists
<1>3. PICK q : q = [i \in DOMAIN s |-> Step("handoff_trace", s[i].status, s[i])]
  OBVIOUS
<1>4. HandoffSteps(t) = q
  BY <1>1, <1>3 DEF HandoffSteps, StepsFrom
<1>5. \A i \in DOMAIN s : q[i].source = "handoff_trace" /\ q[i].payload = s[i] /\ IsStep(q[i])
  BY <1>3 DEF Step, IsStep
<1>6. Replays(q, s, "handoff_trace", {})
  BY <1>2, <1>3, <1>5, ReplaysMade
<1> QED
  BY <1>1, <1>4, <1>6

LEMMA AgentToolStepsReplay ==
  ASSUME NEW t, RecordedTrace(t)
  PROVE  Replays(AgentToolSteps(t), AgentTools(t), "agent_tool_trace", {})
<1>1. PICK s : s = AgentTools(t)
  OBVIOUS
<1>2. IsList(s)
  BY <1>1, TracesAreLists
<1>3. PICK q : q = [i \in DOMAIN s |-> Step("agent_tool_trace", s[i].status, s[i])]
  OBVIOUS
<1>4. AgentToolSteps(t) = q
  BY <1>1, <1>3 DEF AgentToolSteps, StepsFrom
<1>5. \A i \in DOMAIN s : q[i].source = "agent_tool_trace" /\ q[i].payload = s[i] /\ IsStep(q[i])
  BY <1>3 DEF Step, IsStep
<1>6. Replays(q, s, "agent_tool_trace", {})
  BY <1>2, <1>3, <1>5, ReplaysMade
<1> QED
  BY <1>1, <1>4, <1>6

LEMMA ApprovalStepsReplay ==
  ASSUME NEW t, RecordedTrace(t)
  PROVE  Replays(ApprovalSteps(t), Approvals(t), "approval_trace", {})
<1>1. PICK s : s = Approvals(t)
  OBVIOUS
<1>2. IsList(s)
  BY <1>1, TracesAreLists
<1>3. PICK q : q = [i \in DOMAIN s |-> Step("approval_trace", s[i].status, s[i])]
  OBVIOUS
<1>4. ApprovalSteps(t) = q
  BY <1>1, <1>3 DEF ApprovalSteps, StepsFrom
<1>5. \A i \in DOMAIN s : q[i].source = "approval_trace" /\ q[i].payload = s[i] /\ IsStep(q[i])
  BY <1>3 DEF Step, IsStep
<1>6. Replays(q, s, "approval_trace", {})
  BY <1>2, <1>3, <1>5, ReplaysMade
<1> QED
  BY <1>1, <1>4, <1>6

LEMMA ArtifactStepsReplay ==
  ASSUME NEW t, RecordedTrace(t)
  PROVE  Replays(ArtifactSteps(t), Artifacts(t), "artifact_trace", {})
<1>1. PICK s : s = Artifacts(t)
  OBVIOUS
<1>2. IsList(s)
  BY <1>1, TracesAreLists
<1>3. PICK q : q = [i \in DOMAIN s |-> Step("artifact_trace", "stored", s[i])]
  OBVIOUS
<1>4. ArtifactSteps(t) = q
  BY <1>1, <1>3 DEF ArtifactSteps, StepsFrom
<1>5. \A i \in DOMAIN s : q[i].source = "artifact_trace" /\ q[i].payload = s[i] /\ IsStep(q[i])
  BY <1>3 DEF Step, IsStep
<1>6. Replays(q, s, "artifact_trace", {})
  BY <1>2, <1>3, <1>5, ReplaysMade
<1> QED
  BY <1>1, <1>4, <1>6

LEMMA StructuredStepsReplay ==
  ASSUME NEW t, RecordedTrace(t)
  PROVE  Replays(StructuredSteps(t), Structured(t), "structured_output", {})
<1>1. PICK s : s = Structured(t)
  OBVIOUS
<1>2. IsList(s)
  BY <1>1, TracesAreLists
<1>3. PICK q : q = [i \in DOMAIN s |-> Step("structured_output", StructuredType(s[i]), s[i])]
  OBVIOUS
<1>4. StructuredSteps(t) = q
  BY <1>1, <1>3 DEF StructuredSteps, StepsFrom
<1>5. \A i \in DOMAIN s : q[i].source = "structured_output" /\ q[i].payload = s[i] /\ IsStep(q[i])
  BY <1>3 DEF Step, IsStep
<1>6. Replays(q, s, "structured_output", {})
  BY <1>2, <1>3, <1>5, ReplaysMade
<1> QED
  BY <1>1, <1>4, <1>6

LEMMA HookStepsReplay ==
  ASSUME NEW t, RecordedTrace(t)
  PROVE  Replays(HookSteps(t), Hooks(t), "lifecycle_hooks", {})
<1>1. PICK s : s = Hooks(t)
  OBVIOUS
<1>2. IsList(s)
  BY <1>1, OfIs DEF Hooks
<1>3. PICK q : q = [i \in DOMAIN s |-> Step("lifecycle_hooks", s[i].event, s[i])]
  OBVIOUS
<1>4. HookSteps(t) = q
  BY <1>1, <1>3 DEF HookSteps, StepsFrom
<1>5. \A i \in DOMAIN s : q[i].source = "lifecycle_hooks" /\ q[i].payload = s[i] /\ IsStep(q[i])
  BY <1>3 DEF Step, IsStep
<1>6. Replays(q, s, "lifecycle_hooks", {})
  BY <1>2, <1>3, <1>5, ReplaysMade
<1> QED
  BY <1>1, <1>4, <1>6

LEMMA EmbeddingStepsReplay ==
  ASSUME NEW t, RecordedTrace(t)
  PROVE  Replays(EmbeddingSteps(t), Embeddings(t), "embedding", {})
<1>1. PICK s : s = Embeddings(t)
  OBVIOUS
<1>2. IsList(s)
  BY <1>1, OfIs DEF Embeddings
<1>3. PICK q : q = [i \in DOMAIN s |-> Step("embedding", s[i].status, s[i])]
  OBVIOUS
<1>4. EmbeddingSteps(t) = q
  BY <1>1, <1>3 DEF EmbeddingSteps, StepsFrom
<1>5. \A i \in DOMAIN s : q[i].source = "embedding" /\ q[i].payload = s[i] /\ IsStep(q[i])
  BY <1>3 DEF Step, IsStep
<1>6. Replays(q, s, "embedding", {})
  BY <1>2, <1>3, <1>5, ReplaysMade
<1> QED
  BY <1>1, <1>4, <1>6

LEMMA ProviderStepsReplay ==
  ASSUME NEW t, RecordedTrace(t)
  PROVE  /\ Replays(ProviderSteps(t), ReplayedCalls(t), "provider", {})
         /\ \A i \in DOMAIN Calls(t) : ProviderSteps(t)[i].type = CallType(Calls(t)[i])
<1>1. PICK s, c : s = ReplayedCalls(t) /\ c = Calls(t)
  OBVIOUS
<1>2. IsList(c)
  BY <1>1, OfIs DEF Calls
<1>3. s = [i \in DOMAIN c |-> Replayed(c[i])]
  BY <1>1 DEF ReplayedCalls
<1>4. IsList(s)
  BY <1>2, <1>3, MadeIsList
<1>5. PICK q : q = [i \in DOMAIN c |-> Step("provider", CallType(c[i]), Replayed(c[i]))]
  OBVIOUS
<1>6. ProviderSteps(t) = q
  BY <1>1, <1>5 DEF ProviderSteps, StepsFrom, Replayed
<1>7. \A i \in DOMAIN c : q[i].source = "provider" /\ q[i].payload = s[i] /\ IsStep(q[i])
        /\ q[i].type = CallType(c[i])
  BY <1>3, <1>5 DEF Step, IsStep
<1>8. Replays(q, s, "provider", {})
  BY <1>3, <1>4, <1>5, <1>7, ReplaysMade
<1> QED
  BY <1>1, <1>6, <1>7, <1>8

LEMMA ResumeStepsReplay ==
  ASSUME NEW t, RecordedTrace(t)
  PROVE  \E p, q : /\ ResumeSteps(t) = p \o q
                  /\ Replays(p, Of(t, "resume_plan"), "resume_plan", {})
                  /\ Replays(q, Of(t, "resume"), "resume", {})
<1>1. PICK a, b : a = Of(t, "resume_plan") /\ b = Of(t, "resume")
  OBVIOUS
<1>2. PICK p, q : /\ p = [i \in DOMAIN a |-> Step("resume_plan", "selected", a[i])]
                  /\ q = [i \in DOMAIN b |-> Step("resume", "checkpoint_loaded", b[i])]
  OBVIOUS
<1>3. ResumeSteps(t) = p \o q
  BY <1>1, <1>2 DEF ResumeSteps, StepsFrom
<1>4. IsList(a) /\ IsList(b)
  BY <1>1, OfIs
<1>5. /\ \A i \in DOMAIN a : p[i].source = "resume_plan" /\ p[i].payload = a[i] /\ IsStep(p[i])
      /\ \A i \in DOMAIN b : q[i].source = "resume" /\ q[i].payload = b[i] /\ IsStep(q[i])
  BY <1>2 DEF Step, IsStep
<1>6. Replays(p, a, "resume_plan", {}) /\ Replays(q, b, "resume", {})
  BY <1>2, <1>4, <1>5, ReplaysMade
<1> QED
  BY <1>1, <1>3, <1>6

LEMMA PreflightStepsReplay ==
  ASSUME NEW t, RecordedTrace(t)
  PROVE  \E p, q : /\ PreflightSteps(t) = p \o q
                  /\ Replays(p, OneIf(Preflight(t) # None, Preflight(t)), "preflight", {})
                  /\ Replays(q, OneIf(StorageReport(t) # None, StorageReport(t)),
                             "storage_backend_preflight", {})
<1>1. PICK c, d : c = Step("preflight", Preflight(t).status, Preflight(t))
                  /\ d = Step("storage_backend_preflight",
                              IF StorageReport(t).ready THEN "ready"
                                  ELSE "blocked", StorageReport(t))
  OBVIOUS
<1>2. PICK f, g : f = (Preflight(t) # None) /\ g = (StorageReport(t) # None)
  OBVIOUS
<1>3. PreflightSteps(t) = StepIf(f, c) \o StepIf(g, d)
  BY <1>1, <1>2 DEF PreflightSteps
<1>4. /\ c.source = "preflight" /\ c.payload = Preflight(t) /\ IsStep(c)
      /\ d.source = "storage_backend_preflight" /\ d.payload = StorageReport(t) /\ IsStep(d)
  BY <1>1 DEF Step, IsStep
<1>5. f \in BOOLEAN /\ g \in BOOLEAN
  BY <1>2
<1>6. /\ Replays(StepIf(f, c), OneIf(f, c.payload), "preflight", {})
      /\ Replays(StepIf(g, d), OneIf(g, d.payload), "storage_backend_preflight", {})
  BY <1>4, <1>5, ReplaysOne
<1> QED
  BY <1>2, <1>3, <1>4, <1>6

LEMMA JournalStepsReplay ==
  ASSUME NEW t, RecordedTrace(t)
  PROVE  \E p, q : /\ JournalSteps(t) = p \o q
                  /\ Replays(p, Of(t, "journal"), "journal", {})
                  /\ Replays(q, ToolResults(t), "provider_tool_result", {})
<1>1. PICK a, b : a = Of(t, "journal") /\ b = ToolResults(t)
  OBVIOUS
<1>2. PICK p, q : /\ p = [i \in DOMAIN a |-> Step("journal", a[i].type, a[i])]
                  /\ q = [i \in DOMAIN b |-> Step("provider_tool_result", "recorded", b[i])]
  OBVIOUS
<1>3. JournalSteps(t) = p \o q
  BY <1>1, <1>2 DEF JournalSteps, StepsFrom
<1>4. IsList(a) /\ IsList(b)
  BY <1>1, OfIs, TracesAreLists
<1>5. /\ \A i \in DOMAIN a : p[i].source = "journal" /\ p[i].payload = a[i] /\ IsStep(p[i])
      /\ \A i \in DOMAIN b : q[i].source = "provider_tool_result" /\ q[i].payload = b[i]
           /\ IsStep(q[i])
  BY <1>2 DEF Step, IsStep
<1>6. Replays(p, a, "journal", {}) /\ Replays(q, b, "provider_tool_result", {})
  BY <1>2, <1>4, <1>5, ReplaysMade
<1> QED
  BY <1>1, <1>3, <1>6

\* What the steps of the budgets and trims carry.
BucketSummary(t) == [of |-> DecisionSummary(Buckets(t)),
    over |-> CountOf(Buckets(t), LAMBDA d : d.over)]
SemanticSummary(t) == [of |-> DecisionSummary(Semantic(t)),
                       dropped |-> SumOf(Semantic(t), LAMBDA d : d.dropped)]
TrimSummary(t) == Values(Of(t, "trim"), LAMBDA d : d.role)

LEMMA PromptStepsReplay ==
  ASSUME NEW t, RecordedTrace(t)
  PROVE  \E p : /\ PromptSteps(t) = p[1] \o p[2] \o p[3] \o p[4] \o p[5]
               /\ Replays(p[1], <<MaterialSummary(t)>>, "context_material_selection", {})
               /\ Replays(p[2], Of(t, "prompt_budget"), "prompt_budget", {})
               /\ Replays(p[3], OneIf(Buckets(t) # << >>, BucketSummary(t)),
                    "prompt_bucket_budget", {})
               /\ Replays(p[4], OneIf(Semantic(t) # << >>, SemanticSummary(t)),
                    "prompt_semantic_trim", {})
               /\ Replays(p[5], OneIf(Of(t, "trim") # << >>, TrimSummary(t)), "prompt_trim", {})
<1>1. PICK c1 : c1 = Step("context_material_selection", "applied", MaterialSummary(t))
  OBVIOUS
<1>2. PICK c3 : c3 = Step("prompt_bucket_budget", "applied", BucketSummary(t))
  OBVIOUS
<1>3. PICK c4 : c4 = Step("prompt_semantic_trim", "applied", SemanticSummary(t))
  OBVIOUS
<1>4. PICK c5 : c5 = Step("prompt_trim", "applied", TrimSummary(t))
  OBVIOUS
<1>5. PICK s : s = Of(t, "prompt_budget")
  OBVIOUS
<1>6. PICK q : q = [i \in DOMAIN s |-> Step("prompt_budget", "applied", s[i])]
  OBVIOUS
<1>7. PICK g1, g3, g4, g5 : /\ g1 = (t.built \/ Materials(t) # << >>) /\ g3 = (Buckets(t) # << >>)
                            /\ g4 = (Semantic(t) # << >>) /\ g5 = (Of(t, "trim") # << >>)
  OBVIOUS
<1>8. PromptSteps(t) = StepIf(g1, c1) \o q \o StepIf(g3, c3) \o StepIf(g4, c4) \o StepIf(g5, c5)
  BY <1>1, <1>2, <1>3, <1>4, <1>5, <1>6, <1>7 DEF PromptSteps, StepsFrom, BucketSummary,
     SemanticSummary, TrimSummary
<1>9. /\ c1.source = "context_material_selection" /\ c1.payload = MaterialSummary(t) /\ IsStep(c1)
      /\ c3.source = "prompt_bucket_budget" /\ c3.payload = BucketSummary(t) /\ IsStep(c3)
      /\ c4.source = "prompt_semantic_trim" /\ c4.payload = SemanticSummary(t) /\ IsStep(c4)
      /\ c5.source = "prompt_trim" /\ c5.payload = TrimSummary(t) /\ IsStep(c5)
  BY <1>1, <1>2, <1>3, <1>4 DEF Step, IsStep
<1>10. g1 = TRUE /\ g3 \in BOOLEAN /\ g4 \in BOOLEAN /\ g5 \in BOOLEAN
  BY <1>7, BareIs
<1>11. /\ Replays(StepIf(g1, c1), OneIf(g1, c1.payload), "context_material_selection", {})
       /\ Replays(StepIf(g3, c3), OneIf(g3, c3.payload), "prompt_bucket_budget", {})
       /\ Replays(StepIf(g4, c4), OneIf(g4, c4.payload), "prompt_semantic_trim", {})
       /\ Replays(StepIf(g5, c5), OneIf(g5, c5.payload), "prompt_trim", {})
  BY <1>9, <1>10, ReplaysOne
<1>12. OneIf(g1, c1.payload) = <<c1.payload>>
  BY <1>10 DEF OneIf
<1>13. IsList(s)
  BY <1>5, OfIs
<1>14. \A i \in DOMAIN s : q[i].source = "prompt_budget" /\ q[i].payload = s[i] /\ IsStep(q[i])
  BY <1>6 DEF Step, IsStep
<1>15. Replays(q, s, "prompt_budget", {})
  BY <1>6, <1>13, <1>14, ReplaysMade
<1>16. PICK p : p = <<StepIf(g1, c1), q, StepIf(g3, c3), StepIf(g4, c4), StepIf(g5, c5)>>
  OBVIOUS
<1>17. /\ p[1] = StepIf(g1, c1) /\ p[2] = q /\ p[3] = StepIf(g3, c3) /\ p[4] = StepIf(g4, c4)
       /\ p[5] = StepIf(g5, c5)
  BY <1>16
<1>18. /\ PromptSteps(t) = p[1] \o p[2] \o p[3] \o p[4] \o p[5]
       /\ Replays(p[1], <<MaterialSummary(t)>>, "context_material_selection", {})
       /\ Replays(p[2], Of(t, "prompt_budget"), "prompt_budget", {})
  BY <1>5, <1>8, <1>9, <1>11, <1>12, <1>15, <1>17, Zenon
<1>19. /\ Replays(p[3], OneIf(Buckets(t) # << >>, BucketSummary(t)), "prompt_bucket_budget", {})
       /\ Replays(p[4], OneIf(Semantic(t) # << >>, SemanticSummary(t)), "prompt_semantic_trim", {})
       /\ Replays(p[5], OneIf(Of(t, "trim") # << >>, TrimSummary(t)), "prompt_trim", {})
  BY <1>7, <1>9, <1>11, <1>17, Zenon
<1> QED
  BY <1>18, <1>19, Zenon

\* The names of the skills that were loaded.
SkillsLoaded(t) == [i \in DOMAIN Of(t, "skills") |-> Of(t, "skills")[i].name]

LEMMA CapabilityStepsReplay ==
  ASSUME NEW t, RecordedTrace(t)
  PROVE  \E p, q, r : /\ CapabilitySteps(t) = p \o q \o r
                     /\ From(p, {"mcp_center"})
                     /\ Replays(q, SkillsLoaded(t), "skill_center", {"skill_loaded"})
                     /\ Replays(r, Of(t, "views"), "skill_center", {"view_loaded"})
<1>1. PICK a : a = IF Of(t, "mcp_refreshes") # << >> THEN Of(t, "mcp_refreshes") ELSE Servers(t)
  OBVIOUS
<1>2. PICK b, c : b = Of(t, "skills") /\ c = Of(t, "views")
  OBVIOUS
<1>3. PICK p, q, r : /\ p = [i \in DOMAIN a |-> Step("mcp_center", a[i].status, a[i])]
                     /\ q = [i \in DOMAIN b |-> Step("skill_center", "skill_loaded", b[i].name)]
                     /\ r = [i \in DOMAIN c |-> Step("skill_center", "view_loaded", c[i])]
  OBVIOUS
<1>4. CapabilitySteps(t) = p \o q \o r
  BY <1>1, <1>2, <1>3 DEF CapabilitySteps, StepsFrom
<1>5. IsList(a) /\ IsList(b) /\ IsList(c)
  BY <1>1, <1>2, OfIs DEF Servers
<1>6. From(p, {"mcp_center"})
  <2>1. \A i \in DOMAIN p : p[i].source = "mcp_center" /\ IsStep(p[i])
    BY <1>3 DEF Step, IsStep
  <2> QED
    BY <1>3, <1>5, <2>1, FromMade
<1>7. PICK n : n = [i \in DOMAIN b |-> b[i].name]
  OBVIOUS
<1>8. SkillsLoaded(t) = n
  BY <1>2, <1>7 DEF SkillsLoaded
<1>9. IsList(n)
  BY <1>5, <1>7, MadeIsList
<1>10. /\ \A i \in DOMAIN n : q[i].source = "skill_center" /\ q[i].payload = n[i]
            /\ IsStep(q[i]) /\ q[i].type = "skill_loaded"
       /\ \A i \in DOMAIN c : r[i].source = "skill_center" /\ r[i].payload = c[i]
            /\ IsStep(r[i]) /\ r[i].type = "view_loaded"
  BY <1>3, <1>7 DEF Step, IsStep
<1>11. Replays(q, n, "skill_center", {"skill_loaded"})
  BY <1>3, <1>7, <1>9, <1>10, ReplaysMade
<1>12. Replays(r, c, "skill_center", {"view_loaded"})
  BY <1>3, <1>5, <1>10, ReplaysMade
<1> QED
  BY <1>2, <1>4, <1>6, <1>8, <1>11, <1>12

LEMMA EventStepsFrom ==
  ASSUME NEW t, RecordedTrace(t)
  PROVE  From(EventSteps(t), {"event_log"})
<1>1. PICK a : a = Events(t)
  OBVIOUS
<1>2. PICK p : p = [i \in DOMAIN a |-> Step("event_log", a[i].type, [tool |-> a[i].tool,
                                               execution |-> a[i].execution])]
  OBVIOUS
<1>3. EventSteps(t) = p
  BY <1>1, <1>2 DEF EventSteps, StepsFrom
<1>4. IsList(a)
  BY <1>1, OfIs DEF Events
<1>5. \A i \in DOMAIN p : p[i].source = "event_log" /\ IsStep(p[i])
  BY <1>2 DEF Step, IsStep
<1> QED
  BY <1>2, <1>3, <1>4, <1>5, FromMade

LEMMA PlannerStepsFrom ==
  ASSUME NEW t, RecordedTrace(t)
  PROVE  From(PlannerSteps(t), {"planner_trace"})
<1>1. PICK a, b : a = Plans(t).plans /\ b = Plans(t).reports
  OBVIOUS
<1>2. PICK p, q : /\ p = [i \in DOMAIN a |-> Step("planner_trace", "plan_created", a[i].id)]
                  /\ q = [i \in DOMAIN b |-> Step("planner_trace", "plan_execution",
                                                  [status |-> b[i].status, count |-> Len(b[i].steps)])]
  OBVIOUS
<1>3. PlannerSteps(t) = p \o q
  BY <1>1, <1>2 DEF PlannerSteps, StepsFrom
<1>4. IsList(a) /\ IsList(b)
  BY <1>1, TracesAreLists
<1>5. /\ \A i \in DOMAIN p : p[i].source = "planner_trace" /\ IsStep(p[i])
      /\ \A i \in DOMAIN q : q[i].source = "planner_trace" /\ IsStep(q[i])
  BY <1>2 DEF Step, IsStep
<1>6. From(p, {"planner_trace"}) /\ From(q, {"planner_trace"})
  BY <1>2, <1>4, <1>5, FromMade
<1> QED
  BY <1>3, <1>6, FromConcat

-----------------------------------------------------------------------------
(* The groups of steps, and the sources of each.                            *)

Groups(t) ==
  <<ResumeSteps(t), PreflightSteps(t), JournalSteps(t), EventSteps(t), PlannerSteps(t),
        HandoffSteps(t),
    AgentToolSteps(t), PromptSteps(t), CapabilitySteps(t), ApprovalSteps(t), ArtifactSteps(t),
    StructuredSteps(t), ProviderSteps(t), EmbeddingSteps(t), HookSteps(t)>>
GroupSources ==
  <<{"resume_plan", "resume"},
    {"preflight", "storage_backend_preflight"},
    {"journal", "provider_tool_result"},
    {"event_log"},
    {"planner_trace"},
    {"handoff_trace"},
    {"agent_tool_trace"},
    {"context_material_selection", "prompt_budget", "prompt_bucket_budget",
        "prompt_semantic_trim", "prompt_trim"},
    {"mcp_center", "skill_center"},
    {"approval_trace"},
    {"artifact_trace"},
    {"structured_output"},
    {"provider"},
    {"embedding"},
    {"lifecycle_hooks"}>>

LEMMA GroupsAre ==
  ASSUME NEW t
  PROVE  /\ Groups(t)[1] = ResumeSteps(t)
         /\ Groups(t)[2] = PreflightSteps(t)
         /\ Groups(t)[3] = JournalSteps(t)
         /\ Groups(t)[4] = EventSteps(t)
         /\ Groups(t)[5] = PlannerSteps(t)
         /\ Groups(t)[6] = HandoffSteps(t)
         /\ Groups(t)[7] = AgentToolSteps(t)
         /\ Groups(t)[8] = PromptSteps(t)
         /\ Groups(t)[9] = CapabilitySteps(t)
         /\ Groups(t)[10] = ApprovalSteps(t)
         /\ Groups(t)[11] = ArtifactSteps(t)
         /\ Groups(t)[12] = StructuredSteps(t)
         /\ Groups(t)[13] = ProviderSteps(t)
         /\ Groups(t)[14] = EmbeddingSteps(t)
         /\ Groups(t)[15] = HookSteps(t)
BY DEF Groups

LEMMA SourcesAre ==
  /\ GroupSources[1] = {"resume_plan", "resume"}
  /\ GroupSources[2] = {"preflight", "storage_backend_preflight"}
  /\ GroupSources[3] = {"journal", "provider_tool_result"}
  /\ GroupSources[4] = {"event_log"}
  /\ GroupSources[5] = {"planner_trace"}
  /\ GroupSources[6] = {"handoff_trace"}
  /\ GroupSources[7] = {"agent_tool_trace"}
  /\ GroupSources[8] = {"context_material_selection", "prompt_budget", "prompt_bucket_budget",
       "prompt_semantic_trim", "prompt_trim"}
  /\ GroupSources[9] = {"mcp_center", "skill_center"}
  /\ GroupSources[10] = {"approval_trace"}
  /\ GroupSources[11] = {"artifact_trace"}
  /\ GroupSources[12] = {"structured_output"}
  /\ GroupSources[13] = {"provider"}
  /\ GroupSources[14] = {"embedding"}
  /\ GroupSources[15] = {"lifecycle_hooks"}
BY DEF GroupSources

LEMMA GroupsFrom ==
  ASSUME NEW t, RecordedTrace(t)
  PROVE  \A i \in 1..15 : From(Groups(t)[i], GroupSources[i])
<1>1. From(ResumeSteps(t), {"resume_plan", "resume"})
  <2>1. PICK p, q : /\ ResumeSteps(t) = p \o q
                    /\ (\E s : Replays(p, s, "resume_plan", {}))
                         /\ \E s : Replays(q, s, "resume", {})
    BY ResumeStepsReplay
  <2>2. From(p, {"resume_plan", "resume"}) /\ From(q, {"resume_plan", "resume"})
    BY <2>1, ReplaysFrom
  <2> QED
    BY <2>1, <2>2, FromConcat
<1>2. From(PreflightSteps(t), {"preflight", "storage_backend_preflight"})
  <2>1. PICK p, q : /\ PreflightSteps(t) = p \o q
                    /\ (\E s : Replays(p, s, "preflight", {}))
                         /\ \E s : Replays(q, s, "storage_backend_preflight", {})
    BY PreflightStepsReplay
  <2>2. From(p, {"preflight", "storage_backend_preflight"})
          /\ From(q, {"preflight", "storage_backend_preflight"})
    BY <2>1, ReplaysFrom
  <2> QED
    BY <2>1, <2>2, FromConcat
<1>3. From(JournalSteps(t), {"journal", "provider_tool_result"})
  <2>1. PICK p, q : /\ JournalSteps(t) = p \o q
                    /\ (\E s : Replays(p, s, "journal", {}))
                         /\ \E s : Replays(q, s, "provider_tool_result", {})
    BY JournalStepsReplay
  <2>2. From(p, {"journal", "provider_tool_result"}) /\ From(q, {"journal", "provider_tool_result"})
    BY <2>1, ReplaysFrom
  <2> QED
    BY <2>1, <2>2, FromConcat
<1>4. From(EventSteps(t), {"event_log"}) /\ From(PlannerSteps(t), {"planner_trace"})
  BY EventStepsFrom, PlannerStepsFrom
<1>5. /\ From(HandoffSteps(t), {"handoff_trace"})
      /\ From(AgentToolSteps(t), {"agent_tool_trace"})
      /\ From(ApprovalSteps(t), {"approval_trace"})
      /\ From(ArtifactSteps(t), {"artifact_trace"})
      /\ From(StructuredSteps(t), {"structured_output"})
      /\ From(ProviderSteps(t), {"provider"})
      /\ From(EmbeddingSteps(t), {"embedding"})
      /\ From(HookSteps(t), {"lifecycle_hooks"})
  BY HandoffStepsReplay, AgentToolStepsReplay, ApprovalStepsReplay, ArtifactStepsReplay,
     StructuredStepsReplay, ProviderStepsReplay, EmbeddingStepsReplay, HookStepsReplay, ReplaysFrom
<1>6. PICK S : S = {"context_material_selection", "prompt_budget", "prompt_bucket_budget",
                 "prompt_semantic_trim", "prompt_trim"}
  OBVIOUS
<1>7. From(PromptSteps(t), S)
  <2>1. PICK p : /\ PromptSteps(t) = p[1] \o p[2] \o p[3] \o p[4] \o p[5]
                 /\ \E s : Replays(p[1], s, "context_material_selection", {})
                 /\ \E s : Replays(p[2], s, "prompt_budget", {})
                 /\ \E s : Replays(p[3], s, "prompt_bucket_budget", {})
                 /\ \E s : Replays(p[4], s, "prompt_semantic_trim", {})
                 /\ \E s : Replays(p[5], s, "prompt_trim", {})
    BY PromptStepsReplay, Zenon
  <2>2. From(p[1], S) /\ From(p[2], S) /\ From(p[3], S) /\ From(p[4], S) /\ From(p[5], S)
    BY <1>6, <2>1, ReplaysFrom
  <2>3. PICK a, b, c : a = p[1] \o p[2] /\ b = a \o p[3] /\ c = b \o p[4]
    OBVIOUS
  <2>4. From(a, S)
    BY <2>2, <2>3, FromConcat
  <2>5. From(b, S)
    BY <2>2, <2>3, <2>4, FromConcat
  <2>6. From(c, S)
    BY <2>2, <2>3, <2>5, FromConcat
  <2>7. From(c \o p[5], S)
    BY <2>2, <2>6, FromConcat
  <2> QED
    BY <2>1, <2>3, <2>7, Zenon
<1>8. From(CapabilitySteps(t), {"mcp_center", "skill_center"})
  <2>1. PICK p, q, r : /\ CapabilitySteps(t) = p \o q \o r
                       /\ From(p, {"mcp_center"})
                       /\ \E s : Replays(q, s, "skill_center", {"skill_loaded"})
                       /\ \E s : Replays(r, s, "skill_center", {"view_loaded"})
    BY CapabilityStepsReplay, Zenon
  <2>2. /\ From(p, {"mcp_center", "skill_center"}) /\ From(q, {"mcp_center", "skill_center"})
        /\ From(r, {"mcp_center", "skill_center"})
    <3>1. From(p, {"mcp_center", "skill_center"})
      BY <2>1 DEF From
    <3> QED
      BY <2>1, <3>1, ReplaysFrom
  <2>3. From(p \o q, {"mcp_center", "skill_center"})
    BY <2>2, FromConcat
  <2> QED
    BY <2>1, <2>2, <2>3, FromConcat
<1>9. \A i \in 1..15 : i \in {1, 2, 3, 4, 5, 6, 7, 8, 9, 10, 11, 12, 13, 14, 15}
  OBVIOUS
<1>10. GroupSources[8] = S
  BY <1>6, SourcesAre
<1>11. PICK G : G = Groups(t)
  OBVIOUS
<1>12. From(G[1], GroupSources[1])
  BY <1>1, <1>11, GroupsAre, SourcesAre
<1>13. From(G[2], GroupSources[2])
  BY <1>2, <1>11, GroupsAre, SourcesAre
<1>14. From(G[3], GroupSources[3])
  BY <1>3, <1>11, GroupsAre, SourcesAre
<1>15. From(G[4], GroupSources[4])
  BY <1>4, <1>11, GroupsAre, SourcesAre
<1>16. From(G[5], GroupSources[5])
  BY <1>4, <1>11, GroupsAre, SourcesAre
<1>17. From(G[6], GroupSources[6])
  BY <1>5, <1>11, GroupsAre, SourcesAre
<1>18. From(G[7], GroupSources[7])
  BY <1>5, <1>11, GroupsAre, SourcesAre
<1>19. From(G[8], GroupSources[8])
  BY <1>7, <1>10, <1>11, GroupsAre, SourcesAre
<1>20. From(G[9], GroupSources[9])
  BY <1>8, <1>11, GroupsAre, SourcesAre
<1>21. From(G[10], GroupSources[10])
  BY <1>5, <1>11, GroupsAre, SourcesAre
<1>22. From(G[11], GroupSources[11])
  BY <1>5, <1>11, GroupsAre, SourcesAre
<1>23. From(G[12], GroupSources[12])
  BY <1>5, <1>11, GroupsAre, SourcesAre
<1>24. From(G[13], GroupSources[13])
  BY <1>5, <1>11, GroupsAre, SourcesAre
<1>25. From(G[14], GroupSources[14])
  BY <1>5, <1>11, GroupsAre, SourcesAre
<1>26. From(G[15], GroupSources[15])
  BY <1>5, <1>11, GroupsAre, SourcesAre
<1>27. \A i \in 1..15 : From(G[i], GroupSources[i])
  BY <1>9, <1>12, <1>13, <1>14, <1>15, <1>16, <1>17, <1>18, <1>19, <1>20, <1>21, <1>22, <1>23,
     <1>24, <1>25, <1>26
<1> QED
  BY <1>11, <1>27

\* The steps of a source are all in one group.
LEMMA GroupNumber ==
  ASSUME NEW t, RecordedTrace(t), NEW k \in 1..15, NEW x,
         \A i \in 1..15 : i # k => x.source \notin GroupSources[i]
  PROVE  IsList(Steps(t)) /\ Number(Steps(t), {x}) = Number(Groups(t)[k], {x})
<1>1. PICK p : p = Groups(t)
  OBVIOUS
<1>2. \A i \in 1..15 : From(p[i], GroupSources[i])
  BY <1>1, GroupsFrom
<1>3. \A i \in 1..15 : IsList(p[i])
  BY <1>2 DEF From
<1>4. \A i \in 1..15 : i # k => \A n \in DOMAIN p[i] : p[i][n] # x
  BY <1>2 DEF From
<1>5. PICK all : all = p[1] \o p[2] \o p[3] \o p[4] \o p[5] \o p[6] \o p[7] \o p[8]
                       \o p[9] \o p[10] \o p[11] \o p[12] \o p[13] \o p[14] \o p[15]
  OBVIOUS
<1>6. IsList(all)
  BY <1>3, <1>5, NumberOfMany
<1>7. Number(all, {x}) = Number(p[k], {x})
  BY <1>3, <1>4, <1>5, NumberOfOne
<1>8. Steps(t) = all
  BY <1>1, <1>5, GroupsAre, Zenon DEF Steps
<1> QED
  BY <1>1, <1>6, <1>7, <1>8

-----------------------------------------------------------------------------
(* What the steps of a replay carry of each source.                         *)

\* A step of a source, and of one of some types, or of any.
Comes(x, source, types) == x.source = source /\ (types = {} \/ x.type \in types)

\* A replay has the steps q of a source, and no others, for the list s.
Carries(t, source, types, q, s) ==
  /\ Replays(q, s, source, types)
  /\ \A x : Comes(x, source, types) => Number(Steps(t), {x}) = Number(q, {x})

\* Two replays with the same steps carry the same lists, however ordered.
LEMMA SameCarried ==
  ASSUME NEW t, NEW u, NEW source, NEW types, NEW q, NEW s, NEW r, NEW v,
         \A x : Number(Steps(t), {x}) = Number(Steps(u), {x}),
         Carries(t, source, types, q, s), Carries(u, source, types, r, v)
  PROVE  Shuffled(q, r) /\ Shuffled(s, v)
<1>1. /\ IsList(s) /\ IsList(q) /\ DOMAIN q = DOMAIN s
      /\ \A i \in DOMAIN q : Comes(q[i], source, types) /\ q[i].payload = s[i]
  BY DEF Carries, Replays, Comes
<1>2. /\ IsList(v) /\ IsList(r) /\ DOMAIN r = DOMAIN v
      /\ \A i \in DOMAIN r : Comes(r[i], source, types) /\ r[i].payload = v[i]
  BY DEF Carries, Replays, Comes
<1>3. \A x : Number(q, {x}) = Number(r, {x})
  <2> TAKE x
  <2>1. CASE Comes(x, source, types)
    BY <2>1 DEF Carries
  <2>2. CASE ~Comes(x, source, types)
    <3>1. (\A i \in DOMAIN q : q[i] # x) /\ \A i \in DOMAIN r : r[i] # x
      BY <1>1, <1>2, <2>2
    <3> QED
      BY <1>1, <1>2, <3>1, NumberNone
  <2> QED
    BY <2>1, <2>2
<1>4. Shuffled(q, r)
  BY <1>1, <1>2, <1>3, NumbersShuffle
<1>5. PICK p : Pairing(p, DOMAIN q, DOMAIN r) /\ \A i \in DOMAIN q : q[i] = r[p[i]]
  BY <1>4 DEF Shuffled
<1>6. \A i \in DOMAIN s : s[i] = v[p[i]]
  <2> TAKE i \in DOMAIN s
  <2>1. i \in DOMAIN q /\ p[i] \in DOMAIN r
    BY <1>1, <1>5 DEF Pairing
  <2>2. q[i].payload = s[i] /\ r[p[i]].payload = v[p[i]] /\ q[i] = r[p[i]]
    BY <1>1, <1>2, <1>5, <2>1
  <2> QED
    BY <2>2
<1>7. Pairing(p, DOMAIN s, DOMAIN v)
  BY <1>1, <1>2, <1>5
<1> QED
  BY <1>1, <1>2, <1>4, <1>6, <1>7 DEF Shuffled

\* A source is of one group only; a part of a group has all its steps of a source; a list has none.
OnlyIn(k, source) == \A i \in 1..15 : i # k => source \notin GroupSources[i]
HasAll(q, source, types, of) == \A x : Comes(x, source, types) => Number(of, {x}) = Number(q, {x})
HasNone(s, source, types) == IsList(s) /\ \A i \in DOMAIN s : ~Comes(s[i], source, types)

LEMMA CarriesGroup ==
  ASSUME NEW t, RecordedTrace(t), NEW k \in 1..15, NEW source, NEW types, NEW q, NEW s,
         OnlyIn(k, source), Replays(q, s, source, types), HasAll(q, source, types, Groups(t)[k])
  PROVE  Carries(t, source, types, q, s)
<1>1. \A x : x.source = source => Number(Steps(t), {x}) = Number(Groups(t)[k], {x})
  BY GroupNumber DEF OnlyIn
<1> QED
  BY <1>1 DEF Carries, Comes, HasAll

\* The group of a source.
Home ==
  [resume_plan |-> 1, resume |-> 1, preflight |-> 2, storage_backend_preflight |-> 2,
   journal |-> 3, provider_tool_result |-> 3, event_log |-> 4, planner_trace |-> 5,
   handoff_trace |-> 6, agent_tool_trace |-> 7, context_material_selection |-> 8,
   prompt_budget |-> 8, prompt_bucket_budget |-> 8, prompt_semantic_trim |-> 8,
   prompt_trim |-> 8, mcp_center |-> 9, skill_center |-> 9, approval_trace |-> 10,
   artifact_trace |-> 11, structured_output |-> 12, provider |-> 13, embedding |-> 14,
   lifecycle_hooks |-> 15]

LEMMA OnlySource ==
  ASSUME NEW k \in 1..15, NEW source, source \in GroupSources[k]
  PROVE  OnlyIn(k, source)
<1>1. \A i \in 1..15 : i \in {1, 2, 3, 4, 5, 6, 7, 8, 9, 10, 11, 12, 13, 14, 15}
  OBVIOUS
<1>2. /\ Home["resume_plan"] = 1 /\ Home["resume"] = 1
      /\ Home["preflight"] = 2 /\ Home["storage_backend_preflight"] = 2
      /\ Home["journal"] = 3 /\ Home["provider_tool_result"] = 3
      /\ Home["event_log"] = 4 /\ Home["planner_trace"] = 5
      /\ Home["handoff_trace"] = 6 /\ Home["agent_tool_trace"] = 7
      /\ Home["context_material_selection"] = 8 /\ Home["prompt_budget"] = 8
      /\ Home["prompt_bucket_budget"] = 8 /\ Home["prompt_semantic_trim"] = 8
      /\ Home["prompt_trim"] = 8
      /\ Home["mcp_center"] = 9 /\ Home["skill_center"] = 9
      /\ Home["approval_trace"] = 10 /\ Home["artifact_trace"] = 11
      /\ Home["structured_output"] = 12 /\ Home["provider"] = 13
      /\ Home["embedding"] = 14 /\ Home["lifecycle_hooks"] = 15
  BY DEF Home
<1>3. \A i \in 1..15 : \A x \in GroupSources[i] : Home[x] = i
  BY <1>1, <1>2, SourcesAre
<1> QED
  BY <1>3 DEF OnlyIn

LEMMA NoOther ==
  ASSUME NEW s, NEW source, NEW types, HasNone(s, source, types)
  PROVE  \A x : Comes(x, source, types) => Number(s, {x}) = 0
<1> TAKE x
<1> HAVE Comes(x, source, types)
<1>1. \A i \in DOMAIN s : s[i] # x
  BY DEF HasNone
<1> QED
  BY <1>1, NumberNone DEF HasNone

LEMMA AllOfTwo ==
  ASSUME NEW p, NEW q, IsList(p), IsList(q), NEW source, NEW types
  PROVE  /\ HasNone(q, source, types) => HasAll(p, source, types, p \o q)
         /\ HasNone(p, source, types) => HasAll(q, source, types, p \o q)
<1>1. PICK a : a = p \o q
  OBVIOUS
<1>2. \A x : /\ Number(a, {x}) = Number(p, {x}) + Number(q, {x})
             /\ Number(p, {x}) \in Nat /\ Number(q, {x}) \in Nat
  BY <1>1, ListConcat
<1>3. ASSUME HasNone(q, source, types)
      PROVE  HasAll(p, source, types, a)
  <2>1. \A x : Comes(x, source, types) => Number(q, {x}) = 0
    BY <1>3, NoOther
  <2>2. \A x : Comes(x, source, types) => Number(a, {x}) = Number(p, {x})
    <3> TAKE x
    <3> HAVE Comes(x, source, types)
    <3>1. PICK m, n, k : m = Number(a, {x}) /\ n = Number(p, {x}) /\ k = Number(q, {x})
      OBVIOUS
    <3>2. m = n + k /\ n \in Nat /\ k \in Nat
      BY <1>2, <3>1
    <3>3. Number(q, {x}) = 0
      BY <2>1
    <3> QED
      BY <3>1, <3>2, <3>3
  <2> QED
    BY <2>2 DEF HasAll
<1>4. ASSUME HasNone(p, source, types)
      PROVE  HasAll(q, source, types, a)
  <2>1. \A x : Comes(x, source, types) => Number(p, {x}) = 0
    BY <1>4, NoOther
  <2>2. \A x : Comes(x, source, types) => Number(a, {x}) = Number(q, {x})
    <3> TAKE x
    <3> HAVE Comes(x, source, types)
    <3>1. PICK m, n, k : m = Number(a, {x}) /\ n = Number(p, {x}) /\ k = Number(q, {x})
      OBVIOUS
    <3>2. m = n + k /\ n \in Nat /\ k \in Nat
      BY <1>2, <3>1
    <3>3. Number(p, {x}) = 0
      BY <2>1
    <3> QED
      BY <3>1, <3>2, <3>3
  <2> QED
    BY <2>2 DEF HasAll
<1> QED
  BY <1>1, <1>3, <1>4

\* A replay carries a list from a source.
Carried(t, source, types, s) == \E q : Carries(t, source, types, q, s)

LEMMA SameCarriedLists ==
  ASSUME NEW t, NEW u, NEW source, NEW types, NEW s, NEW v,
         \A x : Number(Steps(t), {x}) = Number(Steps(u), {x}),
         Carried(t, source, types, s), Carried(u, source, types, v)
  PROVE  Shuffled(s, v)
<1>1. PICK q, r : Carries(t, source, types, q, s) /\ Carries(u, source, types, r, v)
  BY DEF Carried
<1> QED
  BY <1>1, SameCarried

LEMMA ReplayedOther ==
  ASSUME NEW q, NEW s, NEW source, NEW types, Replays(q, s, source, types),
         NEW other, NEW kinds, source # other \/ (types # {} /\ kinds # {} /\ types \cap kinds = {})
  PROVE  HasNone(q, other, kinds)
BY DEF Replays, Comes, HasNone

LEMMA CarriedAlone ==
  ASSUME NEW t, RecordedTrace(t)
  PROVE  /\ Carries(t, "handoff_trace", {}, HandoffSteps(t), Handoffs(t))
         /\ Carries(t, "agent_tool_trace", {}, AgentToolSteps(t), AgentTools(t))
         /\ Carries(t, "approval_trace", {}, ApprovalSteps(t), Approvals(t))
         /\ Carries(t, "artifact_trace", {}, ArtifactSteps(t), Artifacts(t))
         /\ Carries(t, "structured_output", {}, StructuredSteps(t), Structured(t))
         /\ Carries(t, "provider", {}, ProviderSteps(t), ReplayedCalls(t))
         /\ Carries(t, "lifecycle_hooks", {}, HookSteps(t), Hooks(t))
<1>1. Carries(t, "handoff_trace", {}, HandoffSteps(t), Handoffs(t))
  <2>1. PICK q : q = HandoffSteps(t)
    OBVIOUS
  <2>2. Replays(q, Handoffs(t), "handoff_trace", {})
    BY <2>1, HandoffStepsReplay
  <2>3. Groups(t)[6] = q
    BY <2>1, GroupsAre
  <2>4. OnlyIn(6, "handoff_trace")
    BY OnlySource, SourcesAre
  <2>5. HasAll(q, "handoff_trace", {}, Groups(t)[6])
    BY <2>3 DEF HasAll
  <2> QED
    BY <2>1, <2>2, <2>4, <2>5, CarriesGroup
<1>2. Carries(t, "agent_tool_trace", {}, AgentToolSteps(t), AgentTools(t))
  <2>1. PICK q : q = AgentToolSteps(t)
    OBVIOUS
  <2>2. Replays(q, AgentTools(t), "agent_tool_trace", {})
    BY <2>1, AgentToolStepsReplay
  <2>3. Groups(t)[7] = q
    BY <2>1, GroupsAre
  <2>4. OnlyIn(7, "agent_tool_trace")
    BY OnlySource, SourcesAre
  <2>5. HasAll(q, "agent_tool_trace", {}, Groups(t)[7])
    BY <2>3 DEF HasAll
  <2> QED
    BY <2>1, <2>2, <2>4, <2>5, CarriesGroup
<1>3. Carries(t, "approval_trace", {}, ApprovalSteps(t), Approvals(t))
  <2>1. PICK q : q = ApprovalSteps(t)
    OBVIOUS
  <2>2. Replays(q, Approvals(t), "approval_trace", {})
    BY <2>1, ApprovalStepsReplay
  <2>3. Groups(t)[10] = q
    BY <2>1, GroupsAre
  <2>4. OnlyIn(10, "approval_trace")
    BY OnlySource, SourcesAre
  <2>5. HasAll(q, "approval_trace", {}, Groups(t)[10])
    BY <2>3 DEF HasAll
  <2> QED
    BY <2>1, <2>2, <2>4, <2>5, CarriesGroup
<1>4. Carries(t, "artifact_trace", {}, ArtifactSteps(t), Artifacts(t))
  <2>1. PICK q : q = ArtifactSteps(t)
    OBVIOUS
  <2>2. Replays(q, Artifacts(t), "artifact_trace", {})
    BY <2>1, ArtifactStepsReplay
  <2>3. Groups(t)[11] = q
    BY <2>1, GroupsAre
  <2>4. OnlyIn(11, "artifact_trace")
    BY OnlySource, SourcesAre
  <2>5. HasAll(q, "artifact_trace", {}, Groups(t)[11])
    BY <2>3 DEF HasAll
  <2> QED
    BY <2>1, <2>2, <2>4, <2>5, CarriesGroup
<1>5. Carries(t, "structured_output", {}, StructuredSteps(t), Structured(t))
  <2>1. PICK q : q = StructuredSteps(t)
    OBVIOUS
  <2>2. Replays(q, Structured(t), "structured_output", {})
    BY <2>1, StructuredStepsReplay
  <2>3. Groups(t)[12] = q
    BY <2>1, GroupsAre
  <2>4. OnlyIn(12, "structured_output")
    BY OnlySource, SourcesAre
  <2>5. HasAll(q, "structured_output", {}, Groups(t)[12])
    BY <2>3 DEF HasAll
  <2> QED
    BY <2>1, <2>2, <2>4, <2>5, CarriesGroup
<1>6. Carries(t, "provider", {}, ProviderSteps(t), ReplayedCalls(t))
  <2>1. PICK q : q = ProviderSteps(t)
    OBVIOUS
  <2>2. Replays(q, ReplayedCalls(t), "provider", {})
    BY <2>1, ProviderStepsReplay
  <2>3. Groups(t)[13] = q
    BY <2>1, GroupsAre
  <2>4. OnlyIn(13, "provider")
    BY OnlySource, SourcesAre
  <2>5. HasAll(q, "provider", {}, Groups(t)[13])
    BY <2>3 DEF HasAll
  <2> QED
    BY <2>1, <2>2, <2>4, <2>5, CarriesGroup
<1>7. Carries(t, "lifecycle_hooks", {}, HookSteps(t), Hooks(t))
  <2>1. PICK q : q = HookSteps(t)
    OBVIOUS
  <2>2. Replays(q, Hooks(t), "lifecycle_hooks", {})
    BY <2>1, HookStepsReplay
  <2>3. Groups(t)[15] = q
    BY <2>1, GroupsAre
  <2>4. OnlyIn(15, "lifecycle_hooks")
    BY OnlySource, SourcesAre
  <2>5. HasAll(q, "lifecycle_hooks", {}, Groups(t)[15])
    BY <2>3 DEF HasAll
  <2> QED
    BY <2>1, <2>2, <2>4, <2>5, CarriesGroup
<1> QED
  BY <1>1, <1>2, <1>3, <1>4, <1>5, <1>6, <1>7

LEMMA CarriedInTwo ==
  ASSUME NEW t, RecordedTrace(t)
  PROVE  /\ Carried(t, "resume_plan", {}, Of(t, "resume_plan"))
         /\ Carried(t, "resume", {}, Of(t, "resume"))
         /\ Carried(t, "preflight", {}, OneIf(Preflight(t) # None, Preflight(t)))
         /\ Carried(t, "storage_backend_preflight", {},
              OneIf(StorageReport(t) # None, StorageReport(t)))
         /\ Carried(t, "journal", {}, Of(t, "journal"))
         /\ Carried(t, "provider_tool_result", {}, ToolResults(t))
<1>1. /\ Carried(t, "resume_plan", {}, Of(t, "resume_plan"))
       /\ Carried(t, "resume", {}, Of(t, "resume"))
  <2>1. PICK a, b : a = Of(t, "resume_plan") /\ b = Of(t, "resume")
    OBVIOUS
  <2>2. PICK p, q : ResumeSteps(t) = p \o q /\ Replays(p, a, "resume_plan", {})
                      /\ Replays(q, b, "resume", {})
    BY <2>1, ResumeStepsReplay
  <2>3. Groups(t)[1] = p \o q
    BY <2>2, GroupsAre
  <2>4. OnlyIn(1, "resume_plan") /\ OnlyIn(1, "resume")
    BY OnlySource, SourcesAre
  <2>5. HasNone(p, "resume", {}) /\ HasNone(q, "resume_plan", {})
    BY <2>2 DEF Replays, Comes, HasNone
  <2>6. HasAll(p, "resume_plan", {}, p \o q) /\ HasAll(q, "resume", {}, p \o q)
    BY <2>2, <2>5, AllOfTwo DEF Replays
  <2>7. HasAll(p, "resume_plan", {}, Groups(t)[1]) /\ HasAll(q, "resume", {}, Groups(t)[1])
    BY <2>3, <2>6
  <2>8. Carries(t, "resume_plan", {}, p, a)
    BY <2>2, <2>4, <2>7, CarriesGroup
  <2>9. Carries(t, "resume", {}, q, b)
    BY <2>2, <2>4, <2>7, CarriesGroup
  <2> QED
    BY <2>1, <2>8, <2>9 DEF Carried
<1>2. /\ Carried(t, "preflight", {}, OneIf(Preflight(t) # None, Preflight(t)))
       /\ Carried(t, "storage_backend_preflight", {},
            OneIf(StorageReport(t) # None, StorageReport(t)))
  <2>1. PICK a, b : a = OneIf(Preflight(t) # None, Preflight(t))
                      /\ b = OneIf(StorageReport(t) # None, StorageReport(t))
    OBVIOUS
  <2>2. PICK p, q : PreflightSteps(t) = p \o q /\ Replays(p, a, "preflight", {})
                      /\ Replays(q, b, "storage_backend_preflight", {})
    BY <2>1, PreflightStepsReplay
  <2>3. Groups(t)[2] = p \o q
    BY <2>2, GroupsAre
  <2>4. OnlyIn(2, "preflight") /\ OnlyIn(2, "storage_backend_preflight")
    BY OnlySource, SourcesAre
  <2>5. HasNone(p, "storage_backend_preflight", {}) /\ HasNone(q, "preflight", {})
    BY <2>2 DEF Replays, Comes, HasNone
  <2>6. HasAll(p, "preflight", {}, p \o q) /\ HasAll(q, "storage_backend_preflight", {}, p \o q)
    BY <2>2, <2>5, AllOfTwo DEF Replays
  <2>7. HasAll(p, "preflight", {}, Groups(t)[2])
          /\ HasAll(q, "storage_backend_preflight", {}, Groups(t)[2])
    BY <2>3, <2>6
  <2>8. Carries(t, "preflight", {}, p, a)
    BY <2>2, <2>4, <2>7, CarriesGroup
  <2>9. Carries(t, "storage_backend_preflight", {}, q, b)
    BY <2>2, <2>4, <2>7, CarriesGroup
  <2> QED
    BY <2>1, <2>8, <2>9 DEF Carried
<1>3. /\ Carried(t, "journal", {}, Of(t, "journal"))
       /\ Carried(t, "provider_tool_result", {}, ToolResults(t))
  <2>1. PICK a, b : a = Of(t, "journal") /\ b = ToolResults(t)
    OBVIOUS
  <2>2. PICK p, q : JournalSteps(t) = p \o q /\ Replays(p, a, "journal", {})
                      /\ Replays(q, b, "provider_tool_result", {})
    BY <2>1, JournalStepsReplay
  <2>3. Groups(t)[3] = p \o q
    BY <2>2, GroupsAre
  <2>4. OnlyIn(3, "journal") /\ OnlyIn(3, "provider_tool_result")
    BY OnlySource, SourcesAre
  <2>5. HasNone(p, "provider_tool_result", {}) /\ HasNone(q, "journal", {})
    BY <2>2 DEF Replays, Comes, HasNone
  <2>6. HasAll(p, "journal", {}, p \o q) /\ HasAll(q, "provider_tool_result", {}, p \o q)
    BY <2>2, <2>5, AllOfTwo DEF Replays
  <2>7. HasAll(p, "journal", {}, Groups(t)[3])
          /\ HasAll(q, "provider_tool_result", {}, Groups(t)[3])
    BY <2>3, <2>6
  <2>8. Carries(t, "journal", {}, p, a)
    BY <2>2, <2>4, <2>7, CarriesGroup
  <2>9. Carries(t, "provider_tool_result", {}, q, b)
    BY <2>2, <2>4, <2>7, CarriesGroup
  <2> QED
    BY <2>1, <2>8, <2>9 DEF Carried
<1> QED
  BY <1>1, <1>2, <1>3

LEMMA CarriedInPrompt ==
  ASSUME NEW t, RecordedTrace(t)
  PROVE  /\ Carried(t, "context_material_selection", {}, <<MaterialSummary(t)>>)
         /\ Carried(t, "prompt_budget", {}, Of(t, "prompt_budget"))
         /\ Carried(t, "prompt_bucket_budget", {}, OneIf(Buckets(t) # << >>, BucketSummary(t)))
         /\ Carried(t, "prompt_semantic_trim", {}, OneIf(Semantic(t) # << >>, SemanticSummary(t)))
         /\ Carried(t, "prompt_trim", {}, OneIf(Of(t, "trim") # << >>, TrimSummary(t)))
<1>1. PICK s : /\ s[1] = <<MaterialSummary(t)>>
               /\ s[2] = Of(t, "prompt_budget")
               /\ s[3] = OneIf(Buckets(t) # << >>, BucketSummary(t))
               /\ s[4] = OneIf(Semantic(t) # << >>, SemanticSummary(t))
               /\ s[5] = OneIf(Of(t, "trim") # << >>, TrimSummary(t))
  <2>1. PICK s : s = <<<<MaterialSummary(t)>>,
                       Of(t, "prompt_budget"),
                       OneIf(Buckets(t) # << >>, BucketSummary(t)),
                       OneIf(Semantic(t) # << >>, SemanticSummary(t)),
                       OneIf(Of(t, "trim") # << >>, TrimSummary(t))>>
    OBVIOUS
  <2> QED
    BY <2>1
<1>2. PICK n : /\ n[1] = "context_material_selection"
               /\ n[2] = "prompt_budget"
               /\ n[3] = "prompt_bucket_budget"
               /\ n[4] = "prompt_semantic_trim"
               /\ n[5] = "prompt_trim"
  <2>1. PICK n : n = <<"context_material_selection", "prompt_budget", "prompt_bucket_budget",
                   "prompt_semantic_trim", "prompt_trim">>
    OBVIOUS
  <2> QED
    BY <2>1
<1>3. PICK p : /\ PromptSteps(t) = p[1] \o p[2] \o p[3] \o p[4] \o p[5]
               /\ Replays(p[1], s[1], n[1], {}) /\ Replays(p[2], s[2], n[2], {})
                    /\ Replays(p[3], s[3], n[3], {})
               /\ Replays(p[4], s[4], n[4], {}) /\ Replays(p[5], s[5], n[5], {})
  BY <1>1, <1>2, PromptStepsReplay, Zenon
<1>4. \A i \in 1..5 : i \in {1, 2, 3, 4, 5}
  OBVIOUS
<1>5. \A i \in 1..5 : Replays(p[i], s[i], n[i], {})
  BY <1>3, <1>4
<1>6. \A i, j \in 1..5 : i # j => n[i] # n[j]
  BY <1>2, <1>4
<1>7. \A i \in 1..5 : IsList(p[i])
  BY <1>5 DEF Replays
<1>8. PICK a, b, c, d : a = p[1] \o p[2] /\ b = a \o p[3] /\ c = b \o p[4] /\ d = c \o p[5]
  OBVIOUS
<1>9. Groups(t)[8] = d
  BY <1>3, <1>8, GroupsAre, Zenon
<1>9a. IsList(a)
  BY <1>7, <1>8, ListConcat
<1>9b. IsList(b)
  BY <1>7, <1>8, <1>9a, ListConcat
<1>9c. IsList(c)
  BY <1>7, <1>8, <1>9b, ListConcat
<1>10. \A x : /\ Number(a, {x}) = Number(p[1], {x}) + Number(p[2], {x}) /\ Number(p[1], {x}) \in Nat
              /\ Number(p[2], {x}) \in Nat
  BY <1>7, <1>8, ListConcat
<1>11. \A x : /\ Number(b, {x}) = Number(a, {x}) + Number(p[3], {x}) /\ Number(p[3], {x}) \in Nat
  BY <1>7, <1>8, <1>9a, ListConcat
<1>12. \A x : /\ Number(c, {x}) = Number(b, {x}) + Number(p[4], {x}) /\ Number(p[4], {x}) \in Nat
  BY <1>7, <1>8, <1>9b, ListConcat
<1>13. \A x : /\ Number(d, {x}) = Number(c, {x}) + Number(p[5], {x}) /\ Number(p[5], {x}) \in Nat
  BY <1>7, <1>8, <1>9c, ListConcat
<1>14. ASSUME NEW k \in 1..5, NEW x, Comes(x, n[k], {})
       PROVE  Number(d, {x}) = Number(p[k], {x})
  <2>1. \A i \in 1..5 : i # k => Number(p[i], {x}) = 0
    <3> TAKE i \in 1..5
    <3> HAVE i # k
    <3>1. \A m \in DOMAIN p[i] : p[i][m].source = n[i]
      BY <1>5 DEF Replays
    <3>2. n[i] # n[k] /\ x.source = n[k]
      BY <1>6, <1>14 DEF Comes
    <3>3. \A m \in DOMAIN p[i] : p[i][m] # x
      BY <3>1, <3>2
    <3> QED
      BY <1>7, <3>3, NumberNone
  <2>2. PICK z, y : z = Number(d, {x}) /\ y = [i \in 1..5 |-> Number(p[i], {x})]
    OBVIOUS
  <2>3. /\ y[1] = Number(p[1], {x}) /\ y[2] = Number(p[2], {x}) /\ y[3] = Number(p[3], {x})
        /\ y[4] = Number(p[4], {x}) /\ y[5] = Number(p[5], {x})
    BY <2>2
  <2>4. PICK v, w, h : v = Number(a, {x}) /\ w = Number(b, {x}) /\ h = Number(c, {x})
    OBVIOUS
  <2>5. /\ v = y[1] + y[2] /\ w = v + y[3] /\ h = w + y[4] /\ z = h + y[5]
        /\ y[1] \in Nat /\ y[2] \in Nat /\ y[3] \in Nat /\ y[4] \in Nat /\ y[5] \in Nat
    BY <1>10, <1>11, <1>12, <1>13, <2>2, <2>3, <2>4
  <2>6. z = y[1] + y[2] + y[3] + y[4] + y[5]
    BY <2>5
  <2>7. /\ (k # 1 => y[1] = 0) /\ (k # 2 => y[2] = 0) /\ (k # 3 => y[3] = 0)
        /\ (k # 4 => y[4] = 0) /\ (k # 5 => y[5] = 0)
    BY <2>1, <2>3
  <2>8. k = 1 \/ k = 2 \/ k = 3 \/ k = 4 \/ k = 5
    BY <1>4
  <2>9. z = y[k]
    <3>1. CASE k = 1
      <4>1. y[2] = 0 /\ y[3] = 0 /\ y[4] = 0 /\ y[5] = 0
        BY <2>7, <3>1
      <4>2. z = y[1]
        BY <2>5, <2>6, <4>1
      <4> QED
        BY <3>1, <4>2
    <3>2. CASE k = 2
      <4>1. y[1] = 0 /\ y[3] = 0 /\ y[4] = 0 /\ y[5] = 0
        BY <2>7, <3>2
      <4>2. z = y[2]
        BY <2>5, <2>6, <4>1
      <4> QED
        BY <3>2, <4>2
    <3>3. CASE k = 3
      <4>1. y[1] = 0 /\ y[2] = 0 /\ y[4] = 0 /\ y[5] = 0
        BY <2>7, <3>3
      <4>2. z = y[3]
        BY <2>5, <2>6, <4>1
      <4> QED
        BY <3>3, <4>2
    <3>4. CASE k = 4
      <4>1. y[1] = 0 /\ y[2] = 0 /\ y[3] = 0 /\ y[5] = 0
        BY <2>7, <3>4
      <4>2. z = y[4]
        BY <2>5, <2>6, <4>1
      <4> QED
        BY <3>4, <4>2
    <3>5. CASE k = 5
      <4>1. y[1] = 0 /\ y[2] = 0 /\ y[3] = 0 /\ y[4] = 0
        BY <2>7, <3>5
      <4>2. z = y[5]
        BY <2>5, <2>6, <4>1
      <4> QED
        BY <3>5, <4>2
    <3> QED
      BY <2>8, <3>1, <3>2, <3>3, <3>4, <3>5
  <2> QED
    BY <2>2, <2>9
<1>15. \A k \in 1..5 : OnlyIn(8, n[k])
  <2> TAKE k \in 1..5
  <2>1. n[k] \in GroupSources[8]
    BY <1>2, <1>4, SourcesAre
  <2> QED
    BY <2>1, OnlySource
<1>16. \A k \in 1..5 : Carries(t, n[k], {}, p[k], s[k])
  <2> TAKE k \in 1..5
  <2>1. HasAll(p[k], n[k], {}, d)
    BY <1>14 DEF HasAll
  <2> QED
    BY <1>5, <1>9, <1>15, <2>1, CarriesGroup
<1>17. \A k \in 1..5 : Carried(t, n[k], {}, s[k])
  BY <1>16 DEF Carried
<1>18. /\ Carried(t, n[1], {}, s[1]) /\ Carried(t, n[2], {}, s[2]) /\ Carried(t, n[3], {}, s[3])
       /\ Carried(t, n[4], {}, s[4]) /\ Carried(t, n[5], {}, s[5])
  BY <1>17
<1> QED
  BY <1>1, <1>2, <1>18, Zenon

LEMMA CarriedInCapabilities ==
  ASSUME NEW t, RecordedTrace(t)
  PROVE  /\ Carried(t, "skill_center", {"skill_loaded"}, SkillsLoaded(t))
         /\ Carried(t, "skill_center", {"view_loaded"}, Of(t, "views"))
<1>1. PICK a, b : a = SkillsLoaded(t) /\ b = Of(t, "views")
  OBVIOUS
<1>2. PICK p, q, r : /\ CapabilitySteps(t) = p \o q \o r
                     /\ From(p, {"mcp_center"})
                     /\ Replays(q, a, "skill_center", {"skill_loaded"})
                     /\ Replays(r, b, "skill_center", {"view_loaded"})
  BY <1>1, CapabilityStepsReplay, Zenon
<1>3. Groups(t)[9] = (p \o q) \o r
  BY <1>2, GroupsAre
<1>4. OnlyIn(9, "skill_center")
  BY OnlySource, SourcesAre
<1>5. IsList(p) /\ HasNone(p, "skill_center", {"skill_loaded"})
        /\ HasNone(p, "skill_center", {"view_loaded"})
  BY <1>2 DEF From, HasNone, Comes
<1>6. IsList(q) /\ HasNone(q, "skill_center", {"view_loaded"}) /\ IsList(r)
        /\ HasNone(r, "skill_center", {"skill_loaded"})
  BY <1>2 DEF Replays, Comes, HasNone
<1>7. PICK m : m = p \o q
  OBVIOUS
<1>8. IsList(m) /\ ToSet(m) = ToSet(p) \cup ToSet(q)
  BY <1>5, <1>6, <1>7, ListConcat
<1>9. HasNone(m, "skill_center", {"view_loaded"})
  BY <1>5, <1>6, <1>8 DEF ToSet, HasNone
<1>10. HasAll(q, "skill_center", {"skill_loaded"}, m)
  BY <1>5, <1>6, <1>7, AllOfTwo
<1>11. /\ HasAll(m, "skill_center", {"skill_loaded"}, m \o r)
       /\ HasAll(r, "skill_center", {"view_loaded"}, m \o r)
  BY <1>6, <1>8, <1>9, AllOfTwo
<1>12. HasAll(q, "skill_center", {"skill_loaded"}, m \o r)
  BY <1>10, <1>11 DEF HasAll
<1>13. /\ HasAll(q, "skill_center", {"skill_loaded"}, Groups(t)[9])
       /\ HasAll(r, "skill_center", {"view_loaded"}, Groups(t)[9])
  BY <1>3, <1>7, <1>11, <1>12
<1>14. Carries(t, "skill_center", {"skill_loaded"}, q, a)
  BY <1>2, <1>4, <1>13, CarriesGroup
<1>15. Carries(t, "skill_center", {"view_loaded"}, r, b)
  BY <1>2, <1>4, <1>13, CarriesGroup
<1> QED
  BY <1>1, <1>14, <1>15 DEF Carried

-----------------------------------------------------------------------------
(* What a comparison without issues says of two replays.                    *)

LEMMA NumberZero ==
  ASSUME NEW s, IsList(s), NEW x
  PROVE  /\ Number(s, {x}) \in Nat
         /\ Number(s, {x}) = 0 <=> \A i \in DOMAIN s : s[i] # x
<1>1. PICK S : S = {s[i] : i \in DOMAIN s}
  OBVIOUS
<1>2. s \in Seq(S)
  BY <1>1 DEF IsList
<1>3. PICK I : I = {i \in DOMAIN s : s[i] \in {x}}
  OBVIOUS
<1>4. IsFiniteSet(I) /\ Number(s, {x}) = Cardinality(I) /\ Number(s, {x}) \in Nat
  BY <1>2, <1>3, NumberType DEF Number
<1>5. Cardinality(I) = 0 <=> I = {}
  BY <1>4, FS_EmptySet
<1>6. I = {} <=> \A i \in DOMAIN s : s[i] # x
  BY <1>3
<1> QED
  BY <1>4, <1>5, <1>6

\* A replay is of steps.
LEMMA StepsAreSteps ==
  ASSUME NEW t, RecordedTrace(t)
  PROVE  IsList(Steps(t)) /\ \A i \in DOMAIN Steps(t) : IsStep(Steps(t)[i])
<1>1. PICK s : s = Steps(t)
  OBVIOUS
<1>2. \A i \in 1..15 : From(Groups(t)[i], GroupSources[i])
  BY GroupsFrom
<1>3. IsList(s)
  <2>1. PICK x : x = Step("resume", "resume", "resume")
    OBVIOUS
  <2>2. x.source \in GroupSources[1]
    BY <2>1, SourcesAre DEF Step
  <2>3. \A i \in 1..15 : i # 1 => x.source \notin GroupSources[i]
    BY <2>2, OnlySource DEF OnlyIn
  <2>4. 1 \in 1..15
    OBVIOUS
  <2> QED
    BY <1>1, <2>3, <2>4, GroupNumber
<1>4. ASSUME NEW i \in DOMAIN s
      PROVE  IsStep(s[i])
  <2>1. PICK x : x = s[i]
    OBVIOUS
  <2>2. Number(s, {x}) # 0
    BY <1>3, <2>1, NumberZero
  <2>3. ASSUME ~IsStep(x) PROVE FALSE
    <3>1. PICK p : p = Groups(t)
      OBVIOUS
    <3>2. \A k \in 1..15 : IsList(p[k]) /\ \A n \in DOMAIN p[k] : p[k][n] # x
      BY <1>2, <2>3, <3>1 DEF From
    <3>3. PICK all : all = p[1] \o p[2] \o p[3] \o p[4] \o p[5] \o p[6] \o p[7] \o p[8]
                             \o p[9] \o p[10] \o p[11] \o p[12] \o p[13] \o p[14] \o p[15]
      OBVIOUS
    <3>4. 1 \in 1..15
      OBVIOUS
    <3>5. Number(all, {x}) = Number(p[1], {x})
      BY <3>2, <3>3, <3>4, NumberOfOne
    <3>6. Number(p[1], {x}) = 0
      BY <3>2, <3>4, NumberNone
    <3>7. s = all
      BY <1>1, <3>1, <3>3, GroupsAre, Zenon DEF Steps
    <3> QED
      BY <2>2, <3>5, <3>6, <3>7
  <2> QED
    BY <2>1, <2>3
<1> QED
  BY <1>1, <1>3, <1>4

\* The signature of a step under a spec that has all of it.
FullSignature(x) == [type |-> x.type, source |-> x.source, payload |-> <<x.payload>>]

LEMMA SignaturesDiffer ==
  ASSUME NEW x, NEW y, IsStep(x), IsStep(y), FullSignature(x) = FullSignature(y)
  PROVE  x = y
<1>1. PICK a, b : a = FullSignature(x) /\ b = FullSignature(y)
  OBVIOUS
<1>2. a.type = x.type /\ a.source = x.source /\ a.payload = <<x.payload>>
  BY <1>1 DEF FullSignature
<1>3. b.type = y.type /\ b.source = y.source /\ b.payload = <<y.payload>>
  BY <1>1 DEF FullSignature
<1>4. x.type = y.type /\ x.source = y.source
  BY <1>1, <1>2, <1>3
<1>5. a.payload[1] = x.payload /\ b.payload[1] = y.payload
  BY <1>2, <1>3
<1>6. x.payload = y.payload
  BY <1>1, <1>5
<1> QED
  BY <1>4, <1>6 DEF IsStep

LEMMA FullyCompared ==
  ASSUME NEW t, RecordedTrace(t), NEW spec, FullReplay(spec)
  PROVE  /\ DOMAIN Compared(t, spec) = DOMAIN Steps(t)
         /\ IsList(Compared(t, spec)) /\ Len(Compared(t, spec)) = Len(Steps(t))
         /\ \A i \in DOMAIN Steps(t) : Compared(t, spec)[i] = FullSignature(Steps(t)[i])
<1>1. PICK s : s = Steps(t)
  OBVIOUS
<1>2. IsList(s)
  BY <1>1, StepsAreSteps
<1>3. spec.payloads /\ spec.sources /\ spec.ignored = {}
  BY DEF FullReplay
<1>4. PICK K : K = {x \in ToSet(s) : x.type \notin spec.ignored}
  OBVIOUS
<1>5. K = ToSet(s)
  BY <1>3, <1>4
<1>6. s \in Seq(ToSet(s))
  BY <1>2 DEF IsList, ToSet
<1>7. Filtered(s, K) = s
  BY <1>5, <1>6, FilteredAll
<1>8. Where(s, LAMBDA x : x.type \notin spec.ignored) = s
  BY <1>4, <1>7 DEF Where
<1>9. PICK c : c = [i \in DOMAIN s |-> Signature(s[i], spec)]
  OBVIOUS
<1>10. Compared(t, spec) = c
  BY <1>1, <1>8, <1>9 DEF Compared
<1>11. \A x : Signature(x, spec) = FullSignature(x)
  BY <1>3 DEF Signature, FullSignature
<1>12. DOMAIN c = DOMAIN s /\ \A i \in DOMAIN s : c[i] = FullSignature(s[i])
  BY <1>9, <1>11
<1>13. IsList(c) /\ Len(c) = Len(s)
  BY <1>2, <1>9, MadeIsList
<1> QED
  BY <1>1, <1>10, <1>12, <1>13

\* A step is in a replay as often as its signature among the signatures.
LEMMA SignatureOccurs ==
  ASSUME NEW t, RecordedTrace(t), NEW spec, FullReplay(spec), NEW x, IsStep(x)
  PROVE  Number(Steps(t), {x}) = Occurrences(Compared(t, spec), FullSignature(x))
<1>1. PICK s, c : s = Steps(t) /\ c = Compared(t, spec)
  OBVIOUS
<1>2. DOMAIN c = DOMAIN s /\ \A i \in DOMAIN s : IsStep(s[i]) /\ c[i] = FullSignature(s[i])
  BY <1>1, FullyCompared, StepsAreSteps
<1>3. \A i \in DOMAIN s : s[i] \in {x} <=> c[i] = FullSignature(x)
  BY <1>2, SignaturesDiffer
<1>4. {i \in DOMAIN s : s[i] \in {x}} = {i \in DOMAIN c : c[i] = FullSignature(x)}
  BY <1>2, <1>3
<1> QED
  BY <1>1, <1>4 DEF Number, Occurrences, CountOf

LEMMA MaxMinOfTwo ==
  ASSUME NEW a \in Nat, NEW b \in Nat
  PROVE  /\ Max({a, b}) = IF a >= b THEN a ELSE b
         /\ Min({a, b}) = IF a <= b THEN a ELSE b
<1>1. PICK m, n : m = Max({a, b}) /\ n = Min({a, b})
  OBVIOUS
<1>2. m \in {a, b} /\ \A y \in {a, b} : m >= y
  <2>1. \E x \in {a, b} : \A y \in {a, b} : x >= y
    <3>1. a >= b \/ b >= a
      OBVIOUS
    <3> QED
      BY <3>1
  <2>2. m = CHOOSE x \in {a, b} : \A y \in {a, b} : x >= y
    BY <1>1, Zenon DEF Max
  <2> QED
    BY <2>1, <2>2
<1>3. n \in {a, b} /\ \A y \in {a, b} : n <= y
  <2>1. \E x \in {a, b} : \A y \in {a, b} : x <= y
    <3>1. a <= b \/ b <= a
      OBVIOUS
    <3> QED
      BY <3>1
  <2>2. n = CHOOSE x \in {a, b} : \A y \in {a, b} : x <= y
    BY <1>1, Zenon DEF Min
  <2> QED
    BY <2>1, <2>2
<1> QED
  BY <1>1, <1>2, <1>3

\* Two lists without order issues are one.
LEMMA NoOrderIssues ==
  ASSUME NEW s, NEW u, IsList(s), IsList(u), OrderIssues(s, u) = {}
  PROVE  DOMAIN s = DOMAIN u /\ \A i \in DOMAIN s : s[i] = u[i]
<1>1. PICK m, n : m = Len(s) /\ n = Len(u)
  OBVIOUS
<1>2. m \in Nat /\ n \in Nat /\ DOMAIN s = 1..m /\ DOMAIN u = 1..n
  BY <1>1 DEF IsList
<1>3. PICK k : k = Max({m, n})
  OBVIOUS
<1>4. k = IF m >= n THEN m ELSE n
  BY <1>2, <1>3, MaxMinOfTwo
<1>5. \A i \in 1..k : ~(i > m) /\ ~(i > n) /\ s[Min({i, m})] = u[Min({i, n})]
  BY <1>1, <1>3 DEF OrderIssues
<1>6. m = n /\ k = m
  <2>1. k \in Nat
    BY <1>2, <1>4
  <2>2. CASE k = 0
    BY <1>2, <1>4, <2>2
  <2>3. CASE k # 0
    <3>1. k \in 1..k
      BY <2>1, <2>3
    <3>2. k <= m /\ k <= n
      <4>1. ~(k > m) /\ ~(k > n)
        BY <1>5, <3>1
      <4> QED
        BY <1>2, <2>1, <4>1
    <3> QED
      BY <1>2, <1>4, <3>2
  <2> QED
    BY <2>2, <2>3
<1>7. ASSUME NEW i \in 1..m
      PROVE  s[i] = u[i]
  <2>1. i \in Nat /\ i <= m /\ i \in 1..k
    BY <1>2, <1>6
  <2>2. Min({i, m}) = i /\ Min({i, n}) = i
    BY <1>2, <1>6, <2>1, MaxMinOfTwo
  <2>3. s[Min({i, m})] = u[Min({i, n})]
    BY <1>5, <2>1
  <2> QED
    BY <2>2, <2>3
<1> QED
  BY <1>2, <1>6, <1>7

\* Replays that a full comparison finds alike have the same steps, each as often.
LEMMA AlikeSteps ==
  ASSUME NEW t, RecordedTrace(t), NEW u, RecordedTrace(u), NEW spec, FullReplay(spec),
      Alike(t, u, spec)
  PROVE  \A x : Number(Steps(t), {x}) = Number(Steps(u), {x})
<1> SUFFICES ASSUME NEW x PROVE Number(Steps(t), {x}) = Number(Steps(u), {x})
  OBVIOUS
<1>1. PICK s, v : s = Steps(t) /\ v = Steps(u)
  OBVIOUS
<1>2. PICK c, d : c = Compared(t, spec) /\ d = Compared(u, spec)
  OBVIOUS
<1>3. /\ IsList(s) /\ \A i \in DOMAIN s : IsStep(s[i])
      /\ IsList(v) /\ \A i \in DOMAIN v : IsStep(v[i])
  BY <1>1, StepsAreSteps
<1>4. CASE ~IsStep(x)
  <2>1. (\A i \in DOMAIN s : s[i] # x) /\ \A i \in DOMAIN v : v[i] # x
    BY <1>3, <1>4
  <2>2. Number(s, {x}) = 0 /\ Number(v, {x}) = 0
    BY <1>3, <2>1, NumberNone
  <2> QED
    BY <1>1, <2>2
<1>5. CASE IsStep(x)
  <2>1. PICK y : y = FullSignature(x)
    OBVIOUS
  <2>2. Number(s, {x}) = Occurrences(c, y) /\ Number(v, {x}) = Occurrences(d, y)
    BY <1>1, <1>2, <1>5, <2>1, SignatureOccurs
  <2>3. StepIssues(c, d, spec) = {}
    BY <1>2 DEF Alike
  <2>4. IsList(c) /\ IsList(d)
    BY <1>2, FullyCompared
  <2>5. CASE spec.ordered
    <3>1. DOMAIN c = DOMAIN d /\ \A i \in DOMAIN c : c[i] = d[i]
      BY <2>3, <2>4, <2>5, NoOrderIssues DEF StepIssues
    <3>2. {i \in DOMAIN c : c[i] = y} = {i \in DOMAIN d : d[i] = y}
      BY <3>1
    <3>3. Occurrences(c, y) = Occurrences(d, y)
      BY <3>2 DEF Occurrences, CountOf
    <3> QED
      BY <1>1, <2>2, <3>3
  <2>6. CASE ~spec.ordered
    <3>1. CountIssues(c, d) = {}
      BY <2>3, <2>6 DEF StepIssues
    <3>2. CASE y \in ToSet(c) \cup ToSet(d)
      <4>1. Occurrences(c, y) = Occurrences(d, y)
        BY <3>1, <3>2 DEF CountIssues
      <4> QED
        BY <1>1, <2>2, <4>1
    <3>3. CASE y \notin ToSet(c) \cup ToSet(d)
      <4>1. {i \in DOMAIN c : c[i] = y} = {} /\ {i \in DOMAIN d : d[i] = y} = {}
        BY <3>3 DEF ToSet
      <4>2. Occurrences(c, y) = Occurrences(d, y)
        BY <4>1 DEF Occurrences, CountOf
      <4> QED
        BY <1>1, <2>2, <4>2
    <3> QED
      BY <3>2, <3>3
  <2> QED
    BY <2>5, <2>6
<1> QED
  BY <1>4, <1>5

-----------------------------------------------------------------------------
(* What the evaluator reads from replays with the same steps.               *)

\* Two recorded traces have the same steps, each as often.
SameSteps(t, u) ==
  /\ RecordedTrace(t) /\ RecordedTrace(u)
  /\ \A x : Number(Steps(t), {x}) = Number(Steps(u), {x})

\* What the one list has the other has.
Within(s, v) == \A i \in DOMAIN s : \E j \in DOMAIN v : v[j] = s[i]

LEMMA ShuffledHas ==
  ASSUME NEW s, NEW v, Shuffled(s, v)
  PROVE  /\ Len(s) = Len(v) /\ ToSet(s) = ToSet(v) /\ (s = << >> <=> v = << >>)
         /\ Within(s, v) /\ Within(v, s)
<1>1. PICK p : Pairing(p, DOMAIN s, DOMAIN v) /\ \A i \in DOMAIN s : s[i] = v[p[i]]
  BY DEF Shuffled
<1>2. Within(s, v) /\ Within(v, s)
  BY <1>1 DEF Pairing, Within
<1>3. ToSet(s) = ToSet(v)
  BY <1>2 DEF ToSet, Within
<1>4. IsList(s) /\ IsList(v) /\ Len(s) = Len(v)
  BY ShuffledLength DEF Shuffled
<1>5. s = << >> <=> v = << >>
  <2>1. (s = << >> <=> Len(s) = 0) /\ (v = << >> <=> Len(v) = 0)
    BY <1>4 DEF IsList
  <2> QED
    BY <1>4, <2>1
<1> QED
  BY <1>2, <1>3, <1>4, <1>5

\* As many places of two shuffled lists have what is in K.
LEMMA ShuffledCount ==
  ASSUME NEW s, NEW v, Shuffled(s, v), NEW I, NEW J, NEW K,
         I = {i \in DOMAIN s : s[i] \in K}, J = {j \in DOMAIN v : v[j] \in K}
  PROVE  Cardinality(I) = Cardinality(J)
BY ShuffledNumbers DEF Number

LEMMA FilteredShuffles ==
  ASSUME NEW s, NEW v, Shuffled(s, v), NEW K, NEW M, NEW a, NEW b,
         K = M, a = Filtered(s, K), b = Filtered(v, M)
  PROVE  Shuffled(a, b)
BY ShuffledFiltered

LEMMA HandoffReadings ==
  ASSUME NEW t, NEW u, SameSteps(t, u)
  PROVE  HandoffReading(t) = HandoffReading(u)
<1>1. Shuffled(Handoffs(t), Handoffs(u))
  BY CarriedAlone, SameCarried DEF SameSteps
<1>2. Within(Handoffs(t), Handoffs(u)) /\ Within(Handoffs(u), Handoffs(t))
        /\ ToSet(Handoffs(t)) = ToSet(Handoffs(u))
  BY <1>1, ShuffledHas
<1>3. Values(Handoffs(t), LAMBDA r : r.status) = Values(Handoffs(u), LAMBDA r : r.status)
  BY <1>2 DEF Values, Within
<1>4. Values(Handoffs(t), LAMBDA r : r.selected) = Values(Handoffs(u), LAMBDA r : r.selected)
  BY <1>2 DEF Values, Within
<1>5. Values(Handoffs(t), LAMBDA r : r.source) = Values(Handoffs(u), LAMBDA r : r.source)
  BY <1>2 DEF Values, Within
<1>6. CountOf(Handoffs(t), LAMBDA r : r.status = "denied")
        = CountOf(Handoffs(u), LAMBDA r : r.status = "denied")
  <2>1. PICK K : K = {x \in ToSet(Handoffs(t)) : x.status = "denied"}
    OBVIOUS
  <2>2. PICK I, J : /\ I = {i \in DOMAIN Handoffs(t) : Handoffs(t)[i].status = "denied"}
                    /\ J = {i \in DOMAIN Handoffs(u) : Handoffs(u)[i].status = "denied"}
    OBVIOUS
  <2>3. I = {i \in DOMAIN Handoffs(t) : Handoffs(t)[i] \in K}
          /\ J = {i \in DOMAIN Handoffs(u) : Handoffs(u)[i] \in K}
    BY <1>2, <2>1, <2>2 DEF ToSet
  <2>4. Cardinality(I) = Cardinality(J)
    BY <1>1, <2>3, ShuffledCount
  <2> QED
    BY <2>2, <2>4 DEF CountOf
<1>7. CountOf(Handoffs(t), LAMBDA r : r.status = "not_found")
        = CountOf(Handoffs(u), LAMBDA r : r.status = "not_found")
  <2>1. PICK K : K = {x \in ToSet(Handoffs(t)) : x.status = "not_found"}
    OBVIOUS
  <2>2. PICK I, J : /\ I = {i \in DOMAIN Handoffs(t) : Handoffs(t)[i].status = "not_found"}
                    /\ J = {i \in DOMAIN Handoffs(u) : Handoffs(u)[i].status = "not_found"}
    OBVIOUS
  <2>3. I = {i \in DOMAIN Handoffs(t) : Handoffs(t)[i] \in K}
          /\ J = {i \in DOMAIN Handoffs(u) : Handoffs(u)[i] \in K}
    BY <1>2, <2>1, <2>2 DEF ToSet
  <2>4. Cardinality(I) = Cardinality(J)
    BY <1>1, <2>3, ShuffledCount
  <2> QED
    BY <2>2, <2>4 DEF CountOf
<1>8. t.built = TRUE /\ u.built = TRUE
  BY BareIs DEF SameSteps
<1>9. HoldsIf("handoff", t.built \/ Handoffs(t) # << >>)
        = HoldsIf("handoff", u.built \/ Handoffs(u) # << >>)
  BY <1>8 DEF HoldsIf
<1> QED
  BY <1>3, <1>4, <1>5, <1>6, <1>7, <1>9, Zenon DEF HandoffReading, Values, CountOf

LEMMA AgentToolReadings ==
  ASSUME NEW t, NEW u, SameSteps(t, u)
  PROVE  AgentToolReading(t) = AgentToolReading(u)
<1>1. Shuffled(AgentTools(t), AgentTools(u))
  BY CarriedAlone, SameCarried DEF SameSteps
<1>2. Within(AgentTools(t), AgentTools(u)) /\ Within(AgentTools(u), AgentTools(t))
        /\ ToSet(AgentTools(t)) = ToSet(AgentTools(u))
  BY <1>1, ShuffledHas
<1>3. Values(AgentTools(t), LAMBDA r : r.tool) = Values(AgentTools(u), LAMBDA r : r.tool)
  BY <1>2 DEF Values, Within
<1>4. Values(AgentTools(t), LAMBDA r : r.session) = Values(AgentTools(u), LAMBDA r : r.session)
  BY <1>2 DEF Values, Within
<1>5. Values(AgentTools(t), LAMBDA r : r.status) = Values(AgentTools(u), LAMBDA r : r.status)
  BY <1>2 DEF Values, Within
<1>6. CountOf(AgentTools(t), LAMBDA r : r.status # "completed")
        = CountOf(AgentTools(u), LAMBDA r : r.status # "completed")
  <2>1. PICK K : K = {x \in ToSet(AgentTools(t)) : x.status # "completed"}
    OBVIOUS
  <2>2. PICK I, J : /\ I = {i \in DOMAIN AgentTools(t) : AgentTools(t)[i].status # "completed"}
                    /\ J = {i \in DOMAIN AgentTools(u) : AgentTools(u)[i].status # "completed"}
    OBVIOUS
  <2>3. I = {i \in DOMAIN AgentTools(t) : AgentTools(t)[i] \in K}
          /\ J = {i \in DOMAIN AgentTools(u) : AgentTools(u)[i] \in K}
    BY <1>2, <2>1, <2>2 DEF ToSet
  <2>4. Cardinality(I) = Cardinality(J)
    BY <1>1, <2>3, ShuffledCount
  <2> QED
    BY <2>2, <2>4 DEF CountOf
<1>7. t.built = TRUE /\ u.built = TRUE
  BY BareIs DEF SameSteps
<1>8. HoldsIf("agent_tools", t.built \/ AgentTools(t) # << >>)
        = HoldsIf("agent_tools", u.built \/ AgentTools(u) # << >>)
  BY <1>7 DEF HoldsIf
<1> QED
  BY <1>3, <1>4, <1>5, <1>6, <1>8, Zenon DEF AgentToolReading, Values, CountOf

LEMMA StructuredReadings ==
  ASSUME NEW t, NEW u, SameSteps(t, u)
  PROVE  StructuredReading(t) = StructuredReading(u)
<1>1. Shuffled(Structured(t), Structured(u))
  BY CarriedAlone, SameCarried DEF SameSteps
<1>2. Within(Structured(t), Structured(u)) /\ Within(Structured(u), Structured(t))
        /\ ToSet(Structured(t)) = ToSet(Structured(u))
  BY <1>1, ShuffledHas
<1>3. Values(Structured(t), LAMBDA r : r.schema) = Values(Structured(u), LAMBDA r : r.schema)
  BY <1>2 DEF Values, Within
<1>4. Values(Structured(t), LAMBDA r : r.error) = Values(Structured(u), LAMBDA r : r.error)
  BY <1>2 DEF Values, Within
<1>5. CountOf(Structured(t), LAMBDA r : r.status = "structured_output_error")
        = CountOf(Structured(u), LAMBDA r : r.status = "structured_output_error")
  <2>1. PICK K : K = {x \in ToSet(Structured(t)) : x.status = "structured_output_error"}
    OBVIOUS
  <2>2. PICK I, J : /\ I = {i \in DOMAIN Structured(t) : Structured(t)[i].status
                         = "structured_output_error"}
                    /\ J = {i \in DOMAIN Structured(u) : Structured(u)[i].status
                         = "structured_output_error"}
    OBVIOUS
  <2>3. I = {i \in DOMAIN Structured(t) : Structured(t)[i] \in K}
          /\ J = {i \in DOMAIN Structured(u) : Structured(u)[i] \in K}
    BY <1>2, <2>1, <2>2 DEF ToSet
  <2>4. Cardinality(I) = Cardinality(J)
    BY <1>1, <2>3, ShuffledCount
  <2> QED
    BY <2>2, <2>4 DEF CountOf
<1>6. CountOf(Structured(t), LAMBDA r : ~r.ok) = CountOf(Structured(u), LAMBDA r : ~r.ok)
  <2>1. PICK K : K = {x \in ToSet(Structured(t)) : ~x.ok}
    OBVIOUS
  <2>2. PICK I, J : /\ I = {i \in DOMAIN Structured(t) : ~Structured(t)[i].ok}
                    /\ J = {i \in DOMAIN Structured(u) : ~Structured(u)[i].ok}
    OBVIOUS
  <2>3. I = {i \in DOMAIN Structured(t) : Structured(t)[i] \in K}
          /\ J = {i \in DOMAIN Structured(u) : Structured(u)[i] \in K}
    BY <1>2, <2>1, <2>2 DEF ToSet
  <2>4. Cardinality(I) = Cardinality(J)
    BY <1>1, <2>3, ShuffledCount
  <2> QED
    BY <2>2, <2>4 DEF CountOf
<1>7. t.built = TRUE /\ u.built = TRUE
  BY BareIs DEF SameSteps
<1>8. HoldsIf("structured_output", t.built \/ Structured(t) # << >>)
        = HoldsIf("structured_output", u.built \/ Structured(u) # << >>)
  BY <1>7 DEF HoldsIf
<1>9. HoldsIf("structured_output_ok", \E i \in DOMAIN Structured(t) : Structured(t)[i].ok)
        = HoldsIf("structured_output_ok", \E i \in DOMAIN Structured(u) : Structured(u)[i].ok)
  BY <1>2 DEF HoldsIf, Within
<1> QED
  BY <1>3, <1>4, <1>5, <1>6, <1>8, <1>9, Zenon DEF StructuredReading, Values, CountOf

LEMMA HookReadings ==
  ASSUME NEW t, NEW u, SameSteps(t, u)
  PROVE  HookReading(t) = HookReading(u)
<1>1. Shuffled(Hooks(t), Hooks(u))
  BY CarriedAlone, SameCarried DEF SameSteps
<1>2. Within(Hooks(t), Hooks(u)) /\ Within(Hooks(u), Hooks(t)) /\ ToSet(Hooks(t)) = ToSet(Hooks(u))
  BY <1>1, ShuffledHas
<1>3. Values(Hooks(t), LAMBDA h : h.event) = Values(Hooks(u), LAMBDA h : h.event)
  BY <1>2 DEF Values, Within
<1>4. Values(Hooks(t), LAMBDA h : h.status) = Values(Hooks(u), LAMBDA h : h.status)
  BY <1>2 DEF Values, Within
<1>5. CountOf(Hooks(t), LAMBDA h : h.status = "failed")
        = CountOf(Hooks(u), LAMBDA h : h.status = "failed")
  <2>1. PICK K : K = {x \in ToSet(Hooks(t)) : x.status = "failed"}
    OBVIOUS
  <2>2. PICK I, J : /\ I = {i \in DOMAIN Hooks(t) : Hooks(t)[i].status = "failed"}
                    /\ J = {i \in DOMAIN Hooks(u) : Hooks(u)[i].status = "failed"}
    OBVIOUS
  <2>3. I = {i \in DOMAIN Hooks(t) : Hooks(t)[i] \in K}
          /\ J = {i \in DOMAIN Hooks(u) : Hooks(u)[i] \in K}
    BY <1>2, <2>1, <2>2 DEF ToSet
  <2>4. Cardinality(I) = Cardinality(J)
    BY <1>1, <2>3, ShuffledCount
  <2> QED
    BY <2>2, <2>4 DEF CountOf
<1>6. HoldsIf("lifecycle_hooks", Hooks(t) # << >>) = HoldsIf("lifecycle_hooks", Hooks(u) # << >>)
  BY <1>1, ShuffledHas DEF HoldsIf
<1> QED
  BY <1>3, <1>4, <1>5, <1>6, Zenon DEF HookReading, Values, CountOf

LEMMA ToolResultReadings ==
  ASSUME NEW t, NEW u, SameSteps(t, u)
  PROVE  ToolResultReading(t) = ToolResultReading(u)
<1>1. Shuffled(ToolResults(t), ToolResults(u))
  BY CarriedInTwo, SameCarriedLists DEF SameSteps
<1>2. Within(ToolResults(t), ToolResults(u)) /\ Within(ToolResults(u), ToolResults(t))
        /\ ToSet(ToolResults(t)) = ToSet(ToolResults(u))
  BY <1>1, ShuffledHas
<1>3. Values(ToolResults(t), LAMBDA e : e.tool) = Values(ToolResults(u), LAMBDA e : e.tool)
  BY <1>2 DEF Values, Within
<1>4. Values(ToolResults(t), LAMBDA e : e.status) = Values(ToolResults(u), LAMBDA e : e.status)
  BY <1>2 DEF Values, Within
<1>5. CountOf(ToolResults(t), LAMBDA e : e.status # "completed")
        = CountOf(ToolResults(u), LAMBDA e : e.status # "completed")
  <2>1. PICK K : K = {x \in ToSet(ToolResults(t)) : x.status # "completed"}
    OBVIOUS
  <2>2. PICK I, J : /\ I = {i \in DOMAIN ToolResults(t) : ToolResults(t)[i].status # "completed"}
                    /\ J = {i \in DOMAIN ToolResults(u) : ToolResults(u)[i].status # "completed"}
    OBVIOUS
  <2>3. I = {i \in DOMAIN ToolResults(t) : ToolResults(t)[i] \in K}
          /\ J = {i \in DOMAIN ToolResults(u) : ToolResults(u)[i] \in K}
    BY <1>2, <2>1, <2>2 DEF ToSet
  <2>4. Cardinality(I) = Cardinality(J)
    BY <1>1, <2>3, ShuffledCount
  <2> QED
    BY <2>2, <2>4 DEF CountOf
<1>6. HoldsIf("provider_tool_results", ToolResults(t) # << >>)
        = HoldsIf("provider_tool_results", ToolResults(u) # << >>)
  BY <1>1, ShuffledHas DEF HoldsIf
<1>7. HoldsIf("provider_tool_result_execution",
        \E i \in DOMAIN ToolResults(t) : ToolResults(t)[i].execution # None)
        = HoldsIf("provider_tool_result_execution",
            \E i \in DOMAIN ToolResults(u) : ToolResults(u)[i].execution # None)
  BY <1>2 DEF HoldsIf, Within
<1> QED
  BY <1>3, <1>4, <1>5, <1>6, <1>7, Zenon DEF ToolResultReading, Values, CountOf

LEMMA ApprovalReadings ==
  ASSUME NEW t, NEW u, SameSteps(t, u)
  PROVE  ApprovalReading(t) = ApprovalReading(u)
<1>1. Shuffled(Approvals(t), Approvals(u))
  BY CarriedAlone, SameCarried DEF SameSteps
<1>2. Within(Approvals(t), Approvals(u)) /\ Within(Approvals(u), Approvals(t))
        /\ ToSet(Approvals(t)) = ToSet(Approvals(u))
  BY <1>1, ShuffledHas
<1>3. Values(Approvals(t), LAMBDA r : r.status) = Values(Approvals(u), LAMBDA r : r.status)
  BY <1>2 DEF Values, Within
<1>4. Values(Approvals(t), LAMBDA r : r.subject) = Values(Approvals(u), LAMBDA r : r.subject)
  BY <1>2 DEF Values, Within
<1>5. Values(Approvals(t), LAMBDA r : r.kind) = Values(Approvals(u), LAMBDA r : r.kind)
  BY <1>2 DEF Values, Within
<1>6. CountOf(Approvals(t), LAMBDA r : r.status = "pending")
        = CountOf(Approvals(u), LAMBDA r : r.status = "pending")
  <2>1. PICK K : K = {x \in ToSet(Approvals(t)) : x.status = "pending"}
    OBVIOUS
  <2>2. PICK I, J : /\ I = {i \in DOMAIN Approvals(t) : Approvals(t)[i].status = "pending"}
                    /\ J = {i \in DOMAIN Approvals(u) : Approvals(u)[i].status = "pending"}
    OBVIOUS
  <2>3. I = {i \in DOMAIN Approvals(t) : Approvals(t)[i] \in K}
          /\ J = {i \in DOMAIN Approvals(u) : Approvals(u)[i] \in K}
    BY <1>2, <2>1, <2>2 DEF ToSet
  <2>4. Cardinality(I) = Cardinality(J)
    BY <1>1, <2>3, ShuffledCount
  <2> QED
    BY <2>2, <2>4 DEF CountOf
<1>7. CountOf(Approvals(t), LAMBDA r : r.status = "rejected")
        = CountOf(Approvals(u), LAMBDA r : r.status = "rejected")
  <2>1. PICK K : K = {x \in ToSet(Approvals(t)) : x.status = "rejected"}
    OBVIOUS
  <2>2. PICK I, J : /\ I = {i \in DOMAIN Approvals(t) : Approvals(t)[i].status = "rejected"}
                    /\ J = {i \in DOMAIN Approvals(u) : Approvals(u)[i].status = "rejected"}
    OBVIOUS
  <2>3. I = {i \in DOMAIN Approvals(t) : Approvals(t)[i] \in K}
          /\ J = {i \in DOMAIN Approvals(u) : Approvals(u)[i] \in K}
    BY <1>2, <2>1, <2>2 DEF ToSet
  <2>4. Cardinality(I) = Cardinality(J)
    BY <1>1, <2>3, ShuffledCount
  <2> QED
    BY <2>2, <2>4 DEF CountOf
<1>8. t.built = TRUE /\ u.built = TRUE
  BY BareIs DEF SameSteps
<1>9. HoldsIf("approvals", t.built \/ Approvals(t) # << >>)
        = HoldsIf("approvals", u.built \/ Approvals(u) # << >>)
  BY <1>8 DEF HoldsIf
<1>10. Values(Where(Approvals(t), LAMBDA r : r.status = "approved"), LAMBDA r : r.subject)
        = Values(Where(Approvals(u), LAMBDA r : r.status = "approved"), LAMBDA r : r.subject)
  <2>1. PICK a, b : /\ a = Where(Approvals(t), LAMBDA r : r.status = "approved")
                    /\ b = Where(Approvals(u), LAMBDA r : r.status = "approved")
    OBVIOUS
  <2>2. PICK K, M : /\ K = {x \in ToSet(Approvals(t)) : x.status = "approved"}
                    /\ M = {x \in ToSet(Approvals(u)) : x.status = "approved"}
    OBVIOUS
  <2>3. K = M
    BY <1>2, <2>2
  <2>4. a = Filtered(Approvals(t), K) /\ b = Filtered(Approvals(u), M)
    BY <2>1, <2>2 DEF Where
  <2>5. Shuffled(a, b)
    BY <1>1, <2>3, <2>4, FilteredShuffles
  <2>6. Within(a, b) /\ Within(b, a)
    BY <2>5, ShuffledHas
  <2>7. Values(a, LAMBDA r : r.subject) = Values(b, LAMBDA r : r.subject)
    BY <2>6 DEF Values, Within
  <2> QED
    BY <2>1, <2>7 DEF Values
<1> QED
  BY <1>3, <1>4, <1>5, <1>6, <1>7, <1>9, <1>10, Zenon DEF ApprovalReading, Values, CountOf, Where

-----------------------------------------------------------------------------
(* Artifacts, and the calls of models.                                      *)

LEMMA SizesAreNumbers ==
  ASSUME NEW t, RecordedTrace(t)
  PROVE  IsList(Artifacts(t)) /\ \A i \in DOMAIN Artifacts(t) : Artifacts(t)[i].size \in Nat
<1>1. PICK a, s : a = Artifacts(t) /\ s = Of(t, "artifacts")
  OBVIOUS
<1>2. Artifacts(t) = ArtifactTrace(t)
  BY BareIs DEF Artifacts
<1>3. PICK K : K = {r \in ToSet(s) : r.id # NoText}
  OBVIOUS
<1>4. a = Filtered(s, K)
  BY <1>1, <1>2, <1>3 DEF ArtifactTrace, Where
<1>5. IsList(s) /\ \A i \in DOMAIN s : \E item \in Items : item.section = "artifacts"
        /\ s[i] = item.data
  BY <1>1, OfIs
<1>6. IsList(a) /\ \A i \in DOMAIN a : \E j \in DOMAIN s : a[i] = s[j]
  BY <1>4, <1>5, FilteredElements
<1>7. \A i \in DOMAIN s : s[i].size \in Nat
  BY <1>5, ItemsAssumption
<1> QED
  BY <1>1, <1>6, <1>7

LEMMA ArtifactReadings ==
  ASSUME NEW t, NEW u, SameSteps(t, u)
  PROVE  ArtifactReading(t) = ArtifactReading(u)
<1>1. Shuffled(Artifacts(t), Artifacts(u))
  BY CarriedAlone, SameCarried DEF SameSteps
<1>2. /\ Within(Artifacts(t), Artifacts(u)) /\ Within(Artifacts(u), Artifacts(t))
      /\ Len(Artifacts(t)) = Len(Artifacts(u))
  BY <1>1, ShuffledHas
<1>3. Values(Artifacts(t), LAMBDA r : r.kind) = Values(Artifacts(u), LAMBDA r : r.kind)
  BY <1>2 DEF Values, Within
<1>4. Values(Artifacts(t), LAMBDA r : r.tool) = Values(Artifacts(u), LAMBDA r : r.tool)
  BY <1>2 DEF Values, Within
<1>5. SumOf(Artifacts(t), LAMBDA r : r.size) = SumOf(Artifacts(u), LAMBDA r : r.size)
  <2>1. PICK s, v : s = Artifacts(t) /\ v = Artifacts(u)
    OBVIOUS
  <2>2. PICK a, b : a = [i \in DOMAIN s |-> s[i].size] /\ b = [i \in DOMAIN v |-> v[i].size]
    OBVIOUS
  <2>3. PICK p : Pairing(p, DOMAIN s, DOMAIN v) /\ \A i \in DOMAIN s : s[i] = v[p[i]]
    BY <1>1, <2>1 DEF Shuffled
  <2>4. a \in Seq(Nat) /\ b \in Seq(Nat)
    <3>1. /\ Len(s) \in Nat /\ DOMAIN s = 1..Len(s) /\ Len(v) \in Nat /\ DOMAIN v = 1..Len(v)
      BY <2>1, SizesAreNumbers, ListOf DEF SameSteps
    <3>2. (\A i \in DOMAIN s : s[i].size \in Nat) /\ \A i \in DOMAIN v : v[i].size \in Nat
      BY <2>1, SizesAreNumbers DEF SameSteps
    <3> QED
      BY <2>2, <3>1, <3>2
  <2>5. Pairing(p, DOMAIN a, DOMAIN b)
    BY <2>2, <2>3
  <2>6. \A i \in DOMAIN a : a[i] = b[p[i]]
    BY <2>2, <2>3 DEF Pairing
  <2>7. Summed(a) = Summed(b)
    BY <2>4, <2>5, <2>6, PairedSums
  <2> QED
    BY <2>1, <2>2, <2>7 DEF SumOf
<1>6. MaxOf(Artifacts(t), LAMBDA r : r.size) = MaxOf(Artifacts(u), LAMBDA r : r.size)
  <2>1. PICK a, b : /\ a = {Artifacts(t)[i].size : i \in DOMAIN Artifacts(t)}
                    /\ b = {Artifacts(u)[i].size : i \in DOMAIN Artifacts(u)}
    OBVIOUS
  <2>2. a = b
    BY <1>2, <2>1 DEF Within
  <2>3. MaxOf(Artifacts(t), LAMBDA r : r.size) = Max(a \cup {0})
          /\ MaxOf(Artifacts(u), LAMBDA r : r.size) = Max(b \cup {0})
    BY <2>1 DEF MaxOf
  <2> QED
    BY <2>2, <2>3
<1>7. t.built = TRUE /\ u.built = TRUE
  BY BareIs DEF SameSteps
<1>8. HoldsIf("artifacts", t.built \/ Artifacts(t) # << >>)
        = HoldsIf("artifacts", u.built \/ Artifacts(u) # << >>)
  BY <1>7 DEF HoldsIf
<1> QED
  BY <1>2, <1>3, <1>4, <1>5, <1>6, <1>8, Zenon DEF ArtifactReading, Values, SumOf, MaxOf

\* Two calls that a replay does not tell apart.
AlikeCall(c, d) ==
  /\ c.name = d.name /\ c.model = d.model /\ c.status = d.status /\ c.caps = d.caps
  /\ c.stream = d.stream /\ c.calls = d.calls /\ c.streamCalls = d.streamCalls
  /\ c.shape = d.shape /\ c.cost = d.cost

LEMMA ReplayedAlike ==
  ASSUME NEW c, NEW d
  PROVE  Replayed(c) = Replayed(d) <=> AlikeCall(c, d)
<1>1. PICK x, y : x = Replayed(c) /\ y = Replayed(d)
  OBVIOUS
<1>2. /\ x.name = c.name /\ x.model = c.model /\ x.status = c.status /\ x.caps = c.caps
      /\ x.stream = c.stream /\ x.calls = c.calls /\ x.streamCalls = c.streamCalls
      /\ x.shape = c.shape /\ x.cost = c.cost
  BY <1>1 DEF Replayed
<1>3. /\ y.name = d.name /\ y.model = d.model /\ y.status = d.status /\ y.caps = d.caps
      /\ y.stream = d.stream /\ y.calls = d.calls /\ y.streamCalls = d.streamCalls
      /\ y.shape = d.shape /\ y.cost = d.cost
  BY <1>1 DEF Replayed
<1>4. x = y => AlikeCall(c, d)
  BY <1>2, <1>3 DEF AlikeCall
<1>5. AlikeCall(c, d) => Replayed(c) = Replayed(d)
  BY DEF AlikeCall, Replayed
<1> QED
  BY <1>1, <1>4, <1>5

\* The calls of two traces pair off.
CallsPaired(p, t, u) ==
  /\ Pairing(p, DOMAIN Calls(t), DOMAIN Calls(u))
  /\ \A i \in DOMAIN Calls(t) : AlikeCall(Calls(t)[i], Calls(u)[p[i]])
  /\ \A i \in DOMAIN Calls(t) : CallType(Calls(t)[i]) = CallType(Calls(u)[p[i]])

LEMMA CallsPair ==
  ASSUME NEW t, NEW u, SameSteps(t, u)
  PROVE  /\ IsList(Calls(t)) /\ IsList(Calls(u))
         /\ \E p : CallsPaired(p, t, u)
<1>1. PICK c, d : c = Calls(t) /\ d = Calls(u)
  OBVIOUS
<1>2. PICK q, r : q = ProviderSteps(t) /\ r = ProviderSteps(u)
  OBVIOUS
<1>3. IsList(c) /\ IsList(d)
  BY <1>1, OfIs DEF Calls, SameSteps
<1>4. PICK a, b : a = ReplayedCalls(t) /\ b = ReplayedCalls(u)
  OBVIOUS
<1>5. a = [i \in DOMAIN c |-> Replayed(c[i])] /\ b = [i \in DOMAIN d |-> Replayed(d[i])]
  BY <1>1, <1>4 DEF ReplayedCalls
<1>6. Carries(t, "provider", {}, q, a) /\ Carries(u, "provider", {}, r, b)
  BY <1>2, <1>4, CarriedAlone DEF SameSteps
<1>7. Shuffled(q, r)
  BY <1>6, SameCarried DEF SameSteps
<1>8. PICK p : Pairing(p, DOMAIN q, DOMAIN r) /\ \A i \in DOMAIN q : q[i] = r[p[i]]
  BY <1>7 DEF Shuffled
<1>9. /\ DOMAIN q = DOMAIN c /\ \A i \in DOMAIN c : q[i].payload = Replayed(c[i])
      /\ DOMAIN r = DOMAIN d /\ \A i \in DOMAIN d : r[i].payload = Replayed(d[i])
  BY <1>5, <1>6 DEF Carries, Replays
<1>10. (\A i \in DOMAIN c : q[i].type = CallType(c[i]))
         /\ \A i \in DOMAIN d : r[i].type = CallType(d[i])
  BY <1>1, <1>2, ProviderStepsReplay DEF SameSteps
<1>11. Pairing(p, DOMAIN c, DOMAIN d)
  BY <1>8, <1>9
<1>12. ASSUME NEW i \in DOMAIN c
       PROVE  AlikeCall(c[i], d[p[i]]) /\ CallType(c[i]) = CallType(d[p[i]])
  <2>1. p[i] \in DOMAIN d
    BY <1>11 DEF Pairing
  <2>2. q[i] = r[p[i]]
    BY <1>8, <1>9
  <2>3. Replayed(c[i]) = Replayed(d[p[i]]) /\ CallType(c[i]) = CallType(d[p[i]])
    BY <1>9, <1>10, <2>1, <2>2
  <2> QED
    BY <2>3, ReplayedAlike
<1> QED
  BY <1>1, <1>3, <1>11, <1>12 DEF CallsPaired

LEMMA ProviderReadings ==
  ASSUME NEW t, NEW u, SameSteps(t, u)
  PROVE  ProviderReading(t) = ProviderReading(u)
<1>1. PICK p : CallsPaired(p, t, u)
  BY CallsPair
<1>2. /\ \A i \in DOMAIN Calls(t) : \E j \in DOMAIN Calls(u) : AlikeCall(Calls(t)[i], Calls(u)[j])
      /\ \A j \in DOMAIN Calls(u) : \E i \in DOMAIN Calls(t) : AlikeCall(Calls(t)[i], Calls(u)[j])
  <2>1. /\ Pairing(p, DOMAIN Calls(t), DOMAIN Calls(u))
        /\ \A i \in DOMAIN Calls(t) : AlikeCall(Calls(t)[i], Calls(u)[p[i]])
    BY <1>1 DEF CallsPaired
  <2> QED
    BY <2>1 DEF Pairing
<1>3. Values(Calls(t), LAMBDA c : c.name) = Values(Calls(u), LAMBDA c : c.name)
  BY <1>2 DEF Values, AlikeCall
<1>4. Values(Calls(t), LAMBDA c : c.model) = Values(Calls(u), LAMBDA c : c.model)
  BY <1>2 DEF Values, AlikeCall
<1>5. {Calls(t)[i].caps : i \in DOMAIN Calls(t)} = {Calls(u)[i].caps : i \in DOMAIN Calls(u)}
  BY <1>2 DEF AlikeCall
<1>6. HoldsIf("provider_model_capabilities", \E i \in DOMAIN Calls(t) : Calls(t)[i].caps # {})
        = HoldsIf("provider_model_capabilities", \E i \in DOMAIN Calls(u) : Calls(u)[i].caps # {})
  BY <1>2 DEF HoldsIf, AlikeCall
<1> QED
  BY <1>3, <1>4, <1>5, <1>6, Zenon DEF ProviderReading, Values

LEMMA StreamsAre ==
  ASSUME NEW t, RecordedTrace(t)
  PROVE  /\ IsList(Calls(t)) /\ IsList(Streams(t))
         /\ Streams(t) = Filtered(Calls(t), {c \in ToSet(Calls(t)) : c.stream # "none"})
<1>1. Streams(t) = Filtered(Calls(t), {c \in ToSet(Calls(t)) : c.stream # "none"})
  BY DEF Streams, Where
<1>2. PICK s, K : s = Calls(t) /\ K = {c \in ToSet(s) : c.stream # "none"}
  OBVIOUS
<1>3. IsList(s)
  BY <1>2, OfIs DEF Calls
<1>4. IsList(Filtered(s, K))
  BY <1>3, FilteredList
<1> QED
  BY <1>1, <1>2, <1>3, <1>4

\* The calls with a stream pair off.
LEMMA StreamsPair ==
  ASSUME NEW t, NEW u, SameSteps(t, u)
  PROVE  \E p : /\ Pairing(p, DOMAIN Streams(t), DOMAIN Streams(u))
               /\ \A i \in DOMAIN Streams(t) : AlikeCall(Streams(t)[i], Streams(u)[p[i]])
<1>1. PICK c, d : c = Calls(t) /\ d = Calls(u)
  OBVIOUS
<1>2. PICK m, n : m = Streams(t) /\ n = Streams(u)
  OBVIOUS
<1>3. PICK K, L : K = {x \in ToSet(c) : x.stream # "none"}
                    /\ L = {x \in ToSet(d) : x.stream # "none"}
  OBVIOUS
<1>4. IsList(c) /\ IsList(d) /\ IsList(m) /\ IsList(n) /\ m = Filtered(c, K) /\ n = Filtered(d, L)
  BY <1>1, <1>2, <1>3, StreamsAre DEF SameSteps
<1>5. PICK a, b : a = ReplayedCalls(t) /\ b = ReplayedCalls(u)
  OBVIOUS
<1>6. a = [i \in DOMAIN c |-> Replayed(c[i])] /\ b = [i \in DOMAIN d |-> Replayed(d[i])]
  BY <1>1, <1>5 DEF ReplayedCalls
<1>7. Shuffled(a, b)
  BY <1>5, CarriedAlone, SameCarried DEF SameSteps
<1>8. PICK S : S = ToSet(c) \cup ToSet(d)
  OBVIOUS
<1>9. c \in Seq(S) /\ d \in Seq(S)
  <2>1. c \in Seq(ToSet(c)) /\ d \in Seq(ToSet(d))
    BY <1>4 DEF IsList, ToSet
  <2> QED
    BY <1>8, <2>1
<1>10. PICK f : f = [x \in S |-> Replayed(x)]
  OBVIOUS
<1>11. \A x \in S : f[x] = Replayed(x)
  BY <1>10
<1>12. \A i \in DOMAIN c : c[i] \in S
  BY <1>8 DEF ToSet
<1>13. \A i \in DOMAIN d : d[i] \in S
  BY <1>8 DEF ToSet
<1>14. a = [i \in DOMAIN c |-> f[c[i]]] /\ b = [i \in DOMAIN d |-> f[d[i]]]
  BY <1>6, <1>11, <1>12, <1>13
<1>15. PICK M : M = {f[x] : x \in {y \in S : y.stream # "none"}}
  OBVIOUS
<1>16. \A x \in S : x.stream # "none" <=> f[x] \in M
  <2> TAKE x \in S
  <2>1. ASSUME f[x] \in M PROVE x.stream # "none"
    <3>1. PICK y \in S : y.stream # "none" /\ f[x] = f[y]
      BY <1>15, <2>1
    <3>2. AlikeCall(x, y)
      BY <1>11, <3>1, ReplayedAlike
    <3> QED
      BY <3>1, <3>2 DEF AlikeCall
  <2> QED
    BY <1>15, <2>1
<1>17. PICK A, B : A = ToSet(c) /\ B = ToSet(d)
  OBVIOUS
<1>18. (\A x \in A : x \in K <=> f[x] \in M) /\ \A x \in B : x \in L <=> f[x] \in M
  BY <1>3, <1>8, <1>16, <1>17
<1>19. [i \in DOMAIN m |-> f[m[i]]] = Filtered([i \in DOMAIN c |-> f[c[i]]], M)
  <2>1. c \in Seq(A) /\ m = Filtered(c, K)
    BY <1>4, <1>17 DEF IsList, ToSet
  <2>2. \A x \in A : x \in K <=> f[x] \in M
    BY <1>18
  <2> QED
    BY <2>1, <2>2, FilteredMade
<1>20. [i \in DOMAIN n |-> f[n[i]]] = Filtered([i \in DOMAIN d |-> f[d[i]]], M)
  <2>1. d \in Seq(B) /\ n = Filtered(d, L)
    BY <1>4, <1>17 DEF IsList, ToSet
  <2>2. \A x \in B : x \in L <=> f[x] \in M
    BY <1>18
  <2> QED
    BY <2>1, <2>2, FilteredMade
<1>21. PICK v, w : v = [i \in DOMAIN m |-> f[m[i]]] /\ w = [i \in DOMAIN n |-> f[n[i]]]
  OBVIOUS
<1>22. v = Filtered(a, M) /\ w = Filtered(b, M)
  BY <1>14, <1>19, <1>20, <1>21
<1>23. Shuffled(v, w)
  BY <1>7, <1>22, FilteredShuffles
<1>24. PICK p : Pairing(p, DOMAIN v, DOMAIN w) /\ \A i \in DOMAIN v : v[i] = w[p[i]]
  BY <1>23 DEF Shuffled
<1>25. Pairing(p, DOMAIN m, DOMAIN n)
  BY <1>21, <1>24
<1>26. (\A i \in DOMAIN m : m[i] \in S) /\ \A i \in DOMAIN n : n[i] \in S
  <2>1. /\ \A i \in DOMAIN m : \E j \in DOMAIN c : m[i] = c[j]
        /\ \A i \in DOMAIN n : \E j \in DOMAIN d : n[i] = d[j]
    BY <1>4, FilteredElements
  <2> QED
    BY <1>12, <1>13, <2>1
<1>27. ASSUME NEW i \in DOMAIN m
       PROVE  AlikeCall(m[i], n[p[i]])
  <2>1. p[i] \in DOMAIN n
    BY <1>25 DEF Pairing
  <2>2. f[m[i]] = f[n[p[i]]]
    BY <1>21, <1>24, <2>1
  <2>3. Replayed(m[i]) = Replayed(n[p[i]])
    BY <1>11, <1>26, <2>1, <2>2
  <2> QED
    BY <2>3, ReplayedAlike
<1> QED
  BY <1>2, <1>25, <1>27

\* The type of a call's step tells whether it was streamed, and whether that failed.
LEMMA CallTypeTells ==
  ASSUME NEW c
  PROVE  /\ c.streamed <=> CallType(c) \in {"stream_failed", "stream_completed"}
         /\ c.streamed /\ c.status = "failed" <=> CallType(c) = "stream_failed"
BY DEF CallType

LEMMA StreamReadings ==
  ASSUME NEW t, NEW u, SameSteps(t, u)
  PROVE  StreamReading(t) = StreamReading(u)
<1>1. PICK p : CallsPaired(p, t, u)
  BY CallsPair
<1>2. /\ Pairing(p, DOMAIN Calls(t), DOMAIN Calls(u))
      /\ \A i \in DOMAIN Calls(t) : CallType(Calls(t)[i]) = CallType(Calls(u)[p[i]])
  BY <1>1 DEF CallsPaired
<1>3. PICK q : /\ Pairing(q, DOMAIN Streams(t), DOMAIN Streams(u))
               /\ \A i \in DOMAIN Streams(t) : AlikeCall(Streams(t)[i], Streams(u)[q[i]])
  BY StreamsPair, Zenon
<1>4. \A i \in DOMAIN Streams(t) : Streams(t)[i].stream = Streams(u)[q[i]].stream
  BY <1>3 DEF AlikeCall
<1>5. IsFiniteSet(DOMAIN Calls(t)) /\ IsFiniteSet(DOMAIN Streams(t))
  <2>1. \A n \in Nat : IsFiniteSet(1..n)
    BY FS_Interval
  <2>2. /\ Len(Calls(t)) \in Nat /\ DOMAIN Calls(t) = 1..Len(Calls(t))
        /\ Len(Streams(t)) \in Nat /\ DOMAIN Streams(t) = 1..Len(Streams(t))
    BY StreamsAre, ListOf DEF SameSteps
  <2> QED
    BY <2>1, <2>2
<1>6. CountOf(Calls(t), LAMBDA c : c.streamed /\ c.status = "failed")
        = CountOf(Calls(u), LAMBDA c : c.streamed /\ c.status = "failed")
  <2>1. PICK I, J : /\ I = {i \in DOMAIN Calls(t) : Calls(t)[i].streamed
                         /\ Calls(t)[i].status = "failed"}
                    /\ J = {i \in DOMAIN Calls(u) : Calls(u)[i].streamed
                         /\ Calls(u)[i].status = "failed"}
    OBVIOUS
  <2>2. I \in SUBSET DOMAIN Calls(t) /\ J \in SUBSET DOMAIN Calls(u)
    BY <2>1
  <2>3. /\ I = {i \in DOMAIN Calls(t) : CallType(Calls(t)[i]) = "stream_failed"}
        /\ J = {i \in DOMAIN Calls(u) : CallType(Calls(u)[i]) = "stream_failed"}
    BY <2>1, CallTypeTells, Zenon
  <2>3a. \A i \in DOMAIN Calls(t) : i \in I <=> p[i] \in J
    BY <1>2, <2>3 DEF Pairing
  <2>4. Cardinality(I) = Cardinality(J)
    BY <1>2, <1>5, <2>2, <2>3a, PairedCounts
  <2> QED
    BY <2>1, <2>4 DEF CountOf
<1>7. CountOf(Streams(t), LAMBDA c : c.stream = "error")
        = CountOf(Streams(u), LAMBDA c : c.stream = "error")
  <2>1. PICK I, J : /\ I = {i \in DOMAIN Streams(t) : Streams(t)[i].stream = "error"}
                    /\ J = {i \in DOMAIN Streams(u) : Streams(u)[i].stream = "error"}
    OBVIOUS
  <2>2. I \in SUBSET DOMAIN Streams(t) /\ J \in SUBSET DOMAIN Streams(u)
    BY <2>1
  <2>3. \A i \in DOMAIN Streams(t) : i \in I <=> q[i] \in J
    BY <1>3, <1>4, <2>1 DEF Pairing
  <2>4. Cardinality(I) = Cardinality(J)
    BY <1>3, <1>5, <2>2, <2>3, PairedCounts
  <2> QED
    BY <2>1, <2>4 DEF CountOf
<1>8. StreamErrors(t) = StreamErrors(u)
  BY <1>6, <1>7, Zenon DEF StreamErrors, CountOf
<1>9. {IF Streams(t)[i].stream = "error" THEN {"error"}
        ELSE {"message_end"} : i \in DOMAIN Streams(t)}
        = {IF Streams(u)[i].stream = "error" THEN {"error"}
            ELSE {"message_end"} : i \in DOMAIN Streams(u)}
  <2>1. \A i \in DOMAIN Streams(t) : \E j \in DOMAIN Streams(u) : Streams(u)[j].stream
          = Streams(t)[i].stream
    BY <1>3, <1>4 DEF Pairing
  <2>2. \A j \in DOMAIN Streams(u) : \E i \in DOMAIN Streams(t) : Streams(u)[j].stream
          = Streams(t)[i].stream
    BY <1>3, <1>4 DEF Pairing
  <2> QED
    BY <2>1, <2>2
<1>10. HoldsIf("provider_streaming", \E i \in DOMAIN Calls(t) : Calls(t)[i].streamed)
         = HoldsIf("provider_streaming", \E i \in DOMAIN Calls(u) : Calls(u)[i].streamed)
  <2>1. (\E i \in DOMAIN Calls(t) : CallType(Calls(t)[i]) \in {"stream_failed", "stream_completed"})
          <=> \E i \in DOMAIN Calls(u) : CallType(Calls(u)[i]) \in {"stream_failed",
                "stream_completed"}
    BY <1>2 DEF Pairing
  <2>2. (\E i \in DOMAIN Calls(t) : Calls(t)[i].streamed)
          <=> \E i \in DOMAIN Calls(u) : Calls(u)[i].streamed
    BY <2>1, CallTypeTells, Zenon
  <2> QED
    BY <2>2 DEF HoldsIf
<1> QED
  BY <1>8, <1>9, <1>10, Zenon DEF StreamReading

-----------------------------------------------------------------------------
(* The calls of tools that were asked for, and the shapes of requests.      *)

LEMMA ListsMatch ==
  ASSUME NEW s, NEW v, IsList(s), IsList(v), NEW p, Pairing(p, DOMAIN s, DOMAIN v),
         \A i \in DOMAIN s : s[i] = v[p[i]]
  PROVE  Shuffled(s, v)
BY DEF Shuffled

\* Lists of lists in another order are, joined, as long, and have the same elements.
LEMMA JoinedShuffles ==
  ASSUME NEW s, NEW v, Shuffled(s, v), \A i \in DOMAIN s : IsList(s[i])
  PROVE  /\ IsList(Joined(s)) /\ IsList(Joined(v)) /\ Len(Joined(s)) = Len(Joined(v))
         /\ ToSet(Joined(s)) = ToSet(Joined(v))
<1>1. PICK p : Pairing(p, DOMAIN s, DOMAIN v) /\ \A i \in DOMAIN s : s[i] = v[p[i]]
  BY DEF Shuffled
<1>2. IsList(s) /\ IsList(v)
  BY DEF Shuffled
<1>3. \A i \in DOMAIN v : IsList(v[i])
  BY <1>1 DEF Pairing
<1>4. PICK S, T : s \in Seq(Seq(S)) /\ v \in Seq(Seq(T))
  BY <1>2, <1>3, ListOfLists
<1>5. Joined(s) \in Seq(S) /\ Joined(v) \in Seq(T)
  BY <1>4, JoinedFacts
<1>6. IsList(Joined(s)) /\ IsList(Joined(v))
  BY <1>5, SeqIsList
<1>7. PICK a, b : a = [i \in DOMAIN s |-> Len(s[i])] /\ b = [i \in DOMAIN v |-> Len(v[i])]
  OBVIOUS
<1>8. Len(Joined(s)) = Summed(a) /\ Len(Joined(v)) = Summed(b)
  BY <1>4, <1>7, JoinedFacts
<1>9. a \in Seq(Nat) /\ b \in Seq(Nat)
  <2>1. Len(s) \in Nat /\ DOMAIN s = 1..Len(s) /\ Len(v) \in Nat /\ DOMAIN v = 1..Len(v)
    BY <1>2, ListOf
  <2>2. (\A i \in DOMAIN s : Len(s[i]) \in Nat) /\ \A i \in DOMAIN v : Len(v[i]) \in Nat
    BY <1>3, ListOf
  <2> QED
    BY <1>7, <2>1, <2>2
<1>10. Pairing(p, DOMAIN a, DOMAIN b) /\ \A i \in DOMAIN a : a[i] = b[p[i]]
  BY <1>1, <1>7 DEF Pairing
<1>11. Summed(a) = Summed(b)
  BY <1>9, <1>10, PairedSums
<1>12. /\ \A x : (\E k \in DOMAIN Joined(s) : Joined(s)[k] = x)
                   <=> \E i \in DOMAIN s : \E j \in DOMAIN s[i] : s[i][j] = x
       /\ \A x : (\E k \in DOMAIN Joined(v) : Joined(v)[k] = x)
                   <=> \E i \in DOMAIN v : \E j \in DOMAIN v[i] : v[i][j] = x
  BY <1>4, JoinedFacts
<1>13. \A x : (\E i \in DOMAIN s : \E j \in DOMAIN s[i] : s[i][j] = x)
                <=> \E i \in DOMAIN v : \E j \in DOMAIN v[i] : v[i][j] = x
  BY <1>1 DEF Pairing
<1>14. ToSet(Joined(s)) = ToSet(Joined(v))
  BY <1>12, <1>13 DEF ToSet
<1> QED
  BY <1>6, <1>8, <1>11, <1>14

LEMMA JoinedConcat ==
  ASSUME NEW s, IsList(s), NEW v, IsList(v)
  PROVE  IsList(s \o v) /\ Len(s \o v) = Len(s) + Len(v) /\ ToSet(s \o v) = ToSet(s) \cup ToSet(v)
<1>1. PICK S : S = {s[i] : i \in DOMAIN s} \cup {v[j] : j \in DOMAIN v}
  OBVIOUS
<1>2. s \in Seq(S) /\ v \in Seq(S)
  <2>1. s \in Seq({s[i] : i \in DOMAIN s}) /\ v \in Seq({v[j] : j \in DOMAIN v})
    BY DEF IsList
  <2> QED
    BY <1>1, <2>1
<1>3. Len(s \o v) = Len(s) + Len(v)
  BY <1>2
<1> QED
  BY <1>3, ListConcat

\* What calls carry is in lists.
LEMMA CallsCarryLists ==
  ASSUME NEW t, RecordedTrace(t)
  PROVE  /\ \A i \in DOMAIN Calls(t) : IsList(Calls(t)[i].calls)
         /\ \A i \in DOMAIN Streams(t) : IsList(Streams(t)[i].streamCalls)
<1>1. PICK c, m : c = Calls(t) /\ m = Streams(t)
  OBVIOUS
<1>2. \A i \in DOMAIN c : \E item \in Items : item.section = "provider" /\ c[i] = item.data
  BY <1>1, OfIs DEF Calls
<1>3. \A i \in DOMAIN c : IsList(c[i].calls) /\ IsList(c[i].streamCalls)
  BY <1>2, ItemsAssumption
<1>4. PICK K : K = {x \in ToSet(c) : x.stream # "none"}
  OBVIOUS
<1>5. IsList(c) /\ m = Filtered(c, K)
  BY <1>1, <1>4, StreamsAre
<1>6. \A i \in DOMAIN m : \E j \in DOMAIN c : m[i] = c[j]
  BY <1>5, FilteredElements
<1> QED
  BY <1>1, <1>3, <1>6

LEMMA CallsShuffled ==
  ASSUME NEW t, NEW u, SameSteps(t, u), NEW a, NEW b,
         a = [i \in DOMAIN Calls(t) |-> Calls(t)[i].calls],
         b = [i \in DOMAIN Calls(u) |-> Calls(u)[i].calls]
  PROVE  Shuffled(a, b) /\ \A i \in DOMAIN a : IsList(a[i])
<1>1. PICK p : CallsPaired(p, t, u)
  BY CallsPair
<1>2. PICK c, d : c = Calls(t) /\ d = Calls(u)
  OBVIOUS
<1>3. Pairing(p, DOMAIN c, DOMAIN d) /\ \A i \in DOMAIN c : AlikeCall(c[i], d[p[i]])
  BY <1>1, <1>2 DEF CallsPaired
<1>4. IsList(c) /\ IsList(d)
  BY <1>2, CallsPair
<1>5. DOMAIN a = DOMAIN c /\ DOMAIN b = DOMAIN d /\ a = [i \in DOMAIN a |-> a[i]]
        /\ b = [i \in DOMAIN b |-> b[i]]
  BY <1>2
<1>6. IsList(a) /\ IsList(b)
  BY <1>4, <1>5, MadeIsList
<1>7. Pairing(p, DOMAIN a, DOMAIN b)
  BY <1>3, <1>5
<1>8. \A i \in DOMAIN a : a[i] = b[p[i]]
  <2> TAKE i \in DOMAIN a
  <2>1. p[i] \in DOMAIN d /\ AlikeCall(c[i], d[p[i]])
    BY <1>3, <1>5 DEF Pairing
  <2>2. a[i] = c[i].calls /\ b[p[i]] = d[p[i]].calls
    BY <1>2, <1>5, <2>1
  <2> QED
    BY <2>1, <2>2 DEF AlikeCall
<1>9. \A i \in DOMAIN a : IsList(a[i])
  BY CallsCarryLists DEF SameSteps
<1> QED
  BY <1>6, <1>7, <1>8, <1>9 DEF Shuffled

LEMMA StreamCallsShuffled ==
  ASSUME NEW t, NEW u, SameSteps(t, u), NEW a, NEW b,
         a = [i \in DOMAIN Streams(t) |-> Streams(t)[i].streamCalls],
         b = [i \in DOMAIN Streams(u) |-> Streams(u)[i].streamCalls]
  PROVE  Shuffled(a, b) /\ \A i \in DOMAIN a : IsList(a[i])
<1>1. PICK c, d : c = Streams(t) /\ d = Streams(u)
  OBVIOUS
<1>2. PICK p : Pairing(p, DOMAIN c, DOMAIN d) /\ \A i \in DOMAIN c : AlikeCall(c[i], d[p[i]])
  BY <1>1, StreamsPair, Zenon
<1>4. IsList(c) /\ IsList(d)
  BY <1>1, StreamsAre DEF SameSteps
<1>5. DOMAIN a = DOMAIN c /\ DOMAIN b = DOMAIN d /\ a = [i \in DOMAIN a |-> a[i]]
        /\ b = [i \in DOMAIN b |-> b[i]]
  BY <1>1
<1>6. IsList(a) /\ IsList(b)
  BY <1>4, <1>5, MadeIsList
<1>7. Pairing(p, DOMAIN a, DOMAIN b)
  BY <1>2, <1>5
<1>8. \A i \in DOMAIN a : a[i] = b[p[i]]
  <2> TAKE i \in DOMAIN a
  <2>1. p[i] \in DOMAIN d /\ AlikeCall(c[i], d[p[i]])
    BY <1>2, <1>5 DEF Pairing
  <2>2. a[i] = c[i].streamCalls /\ b[p[i]] = d[p[i]].streamCalls
    BY <1>1, <1>5, <2>1
  <2> QED
    BY <2>1, <2>2 DEF AlikeCall
<1>9. \A i \in DOMAIN a : IsList(a[i])
  BY CallsCarryLists DEF SameSteps
<1> QED
  BY <1>6, <1>7, <1>8, <1>9 DEF Shuffled

LEMMA ToolCallReadings ==
  ASSUME NEW t, NEW u, SameSteps(t, u)
  PROVE  ToolCallReading(t) = ToolCallReading(u)
<1>1. PICK a, b : /\ a = [i \in DOMAIN Calls(t) |-> Calls(t)[i].calls]
                  /\ b = [i \in DOMAIN Calls(u) |-> Calls(u)[i].calls]
  OBVIOUS
<1>2. PICK e, g : /\ e = [i \in DOMAIN Streams(t) |-> Streams(t)[i].streamCalls]
                  /\ g = [i \in DOMAIN Streams(u) |-> Streams(u)[i].streamCalls]
  OBVIOUS
<1>3. /\ IsList(Joined(a)) /\ IsList(Joined(b)) /\ Len(Joined(a)) = Len(Joined(b))
      /\ ToSet(Joined(a)) = ToSet(Joined(b))
  <2>1. Shuffled(a, b) /\ \A i \in DOMAIN a : IsList(a[i])
    BY <1>1, CallsShuffled
  <2> QED
    BY <2>1, JoinedShuffles
<1>4. /\ IsList(Joined(e)) /\ IsList(Joined(g)) /\ Len(Joined(e)) = Len(Joined(g))
      /\ ToSet(Joined(e)) = ToSet(Joined(g))
  <2>1. Shuffled(e, g) /\ \A i \in DOMAIN e : IsList(e[i])
    BY <1>2, StreamCallsShuffled
  <2> QED
    BY <2>1, JoinedShuffles
<1>5. PICK m, n : m = NamedCalls(t) /\ n = NamedCalls(u)
  OBVIOUS
<1>6. m = Joined(a) \o Joined(e) /\ n = Joined(b) \o Joined(g)
  BY <1>1, <1>2, <1>5 DEF NamedCalls
<1>7. /\ IsList(m) /\ Len(m) = Len(Joined(a)) + Len(Joined(e))
           /\ ToSet(m) = ToSet(Joined(a)) \cup ToSet(Joined(e))
      /\ IsList(n) /\ Len(n) = Len(Joined(b)) + Len(Joined(g))
           /\ ToSet(n) = ToSet(Joined(b)) \cup ToSet(Joined(g))
  BY <1>3, <1>4, <1>6, JoinedConcat
<1>8. Len(m) = Len(n) /\ ToSet(m) = ToSet(n)
  BY <1>3, <1>4, <1>7
<1>9. m = << >> <=> n = << >>
  <2>1. (m = << >> <=> Len(m) = 0) /\ (n = << >> <=> Len(n) = 0)
    BY <1>7 DEF IsList
  <2> QED
    BY <1>8, <2>1
<1>10. ToSet(NamedCalls(t)) = ToSet(NamedCalls(u)) /\ Len(NamedCalls(t)) = Len(NamedCalls(u))
  BY <1>5, <1>8
<1>11. HoldsIf("provider_tool_calls", NamedCalls(t) # << >>)
         = HoldsIf("provider_tool_calls", NamedCalls(u) # << >>)
  BY <1>5, <1>9 DEF HoldsIf
<1> QED
  BY <1>10, <1>11, Zenon DEF ToolCallReading

LEMMA ShapesShuffled ==
  ASSUME NEW t, NEW u, SameSteps(t, u)
  PROVE  Shuffled(Shapes(t), Shapes(u))
<1>1. PICK p : CallsPaired(p, t, u)
  BY CallsPair
<1>2. PICK c, d : c = Calls(t) /\ d = Calls(u)
  OBVIOUS
<1>3. Pairing(p, DOMAIN c, DOMAIN d) /\ \A i \in DOMAIN c : AlikeCall(c[i], d[p[i]])
  BY <1>1, <1>2 DEF CallsPaired
<1>4. IsList(c) /\ IsList(d)
  BY <1>2, CallsPair
<1>5. PICK a, b : a = [i \in DOMAIN c |-> c[i].shape] /\ b = [i \in DOMAIN d |-> d[i].shape]
  OBVIOUS
<1>6. DOMAIN a = DOMAIN c /\ DOMAIN b = DOMAIN d /\ a = [i \in DOMAIN a |-> a[i]]
        /\ b = [i \in DOMAIN b |-> b[i]]
  BY <1>5
<1>7. IsList(a) /\ IsList(b)
  BY <1>4, <1>6, MadeIsList
<1>8. Pairing(p, DOMAIN a, DOMAIN b)
  BY <1>3, <1>6
<1>9. \A i \in DOMAIN a : a[i] = b[p[i]]
  <2> TAKE i \in DOMAIN a
  <2>1. p[i] \in DOMAIN d /\ AlikeCall(c[i], d[p[i]])
    BY <1>3, <1>6 DEF Pairing
  <2>2. a[i] = c[i].shape /\ b[p[i]] = d[p[i]].shape
    BY <1>5, <1>6, <2>1
  <2> QED
    BY <2>1, <2>2 DEF AlikeCall
<1>10. Shuffled(a, b)
  BY <1>7, <1>8, <1>9 DEF Shuffled
<1>11. PICK K, M : K = {x \in ToSet(a) : x # None} /\ M = {x \in ToSet(b) : x # None}
  OBVIOUS
<1>12. K = M
  BY <1>10, <1>11, ShuffledHas
<1>13. Shapes(t) = Filtered(a, K) /\ Shapes(u) = Filtered(b, M)
  BY <1>2, <1>5, <1>11 DEF Shapes, Where
<1> QED
  BY <1>10, <1>12, <1>13, FilteredShuffles

LEMMA ShapeReadings ==
  ASSUME NEW t, NEW u, SameSteps(t, u)
  PROVE  ShapeReading(t) = ShapeReading(u)
<1>1. Shuffled(Shapes(t), Shapes(u))
  BY ShapesShuffled
<1>2. Within(Shapes(t), Shapes(u)) /\ Within(Shapes(u), Shapes(t))
  BY <1>1, ShuffledHas
<1>3. {Shapes(t)[i].decisions : i \in DOMAIN Shapes(t)}
        = {Shapes(u)[i].decisions : i \in DOMAIN Shapes(u)}
  BY <1>2 DEF Within
<1>4. Values(Shapes(t), LAMBDA s : s.name) = Values(Shapes(u), LAMBDA s : s.name)
  BY <1>2 DEF Values, Within
<1>5. MaxOf(Shapes(t), LAMBDA s : s.tokens) = MaxOf(Shapes(u), LAMBDA s : s.tokens)
  <2>1. PICK a, b : /\ a = {Shapes(t)[i].tokens : i \in DOMAIN Shapes(t)}
                    /\ b = {Shapes(u)[i].tokens : i \in DOMAIN Shapes(u)}
    OBVIOUS
  <2>2. a = b
    BY <1>2, <2>1 DEF Within
  <2>3. MaxOf(Shapes(t), LAMBDA s : s.tokens) = Max(a \cup {0})
          /\ MaxOf(Shapes(u), LAMBDA s : s.tokens) = Max(b \cup {0})
    BY <2>1 DEF MaxOf
  <2> QED
    BY <2>2, <2>3
<1>6. HoldsIf("provider_request_shape_plan", Shapes(t) # << >>)
        = HoldsIf("provider_request_shape_plan", Shapes(u) # << >>)
  BY <1>1, ShuffledHas DEF HoldsIf
<1>7. HoldsIf("provider_request_shape_adjusted", \E i \in DOMAIN Shapes(t) : Shapes(t)[i].adjusted)
        = HoldsIf("provider_request_shape_adjusted",
            \E i \in DOMAIN Shapes(u) : Shapes(u)[i].adjusted)
  BY <1>2 DEF HoldsIf, Within
<1> QED
  BY <1>3, <1>4, <1>5, <1>6, <1>7, Zenon DEF ShapeReading, Values, MaxOf

\* Where a replay carries at most one summary, both have it or neither, and it is the same.
LEMMA OneShuffled ==
  ASSUME NEW c \in BOOLEAN, NEW d \in BOOLEAN, NEW x, NEW y, Shuffled(OneIf(c, x), OneIf(d, y))
  PROVE  (c <=> d) /\ (c => x = y)
<1>1. PICK s, v : s = OneIf(c, x) /\ v = OneIf(d, y)
  OBVIOUS
<1>2. (s = << >> <=> v = << >>) /\ Within(s, v)
  BY <1>1, ShuffledHas
<1>3. (c => s = <<x>>) /\ (~c => s = << >>) /\ (d => v = <<y>>) /\ (~d => v = << >>)
  BY <1>1 DEF OneIf
<1>4. <<x>> # << >> /\ <<y>> # << >>
  OBVIOUS
<1>5. c <=> d
  BY <1>2, <1>3, <1>4
<1>6. ASSUME c PROVE x = y
  <2>1. s = <<x>> /\ v = <<y>>
    BY <1>3, <1>5, <1>6
  <2> QED
    BY <1>2, <2>1 DEF Within
<1> QED
  BY <1>5, <1>6

LEMMA PromptsShuffled ==
  ASSUME NEW t, NEW u, SameSteps(t, u)
  PROVE  /\ Shuffled(<<MaterialSummary(t)>>, <<MaterialSummary(u)>>)
         /\ Shuffled(Of(t, "prompt_budget"), Of(u, "prompt_budget"))
         /\ Shuffled(OneIf(Buckets(t) # << >>, BucketSummary(t)),
              OneIf(Buckets(u) # << >>, BucketSummary(u)))
         /\ Shuffled(OneIf(Semantic(t) # << >>, SemanticSummary(t)),
              OneIf(Semantic(u) # << >>, SemanticSummary(u)))
         /\ Shuffled(OneIf(Of(t, "trim") # << >>, TrimSummary(t)),
              OneIf(Of(u, "trim") # << >>, TrimSummary(u)))
BY CarriedInPrompt, SameCarriedLists DEF SameSteps

LEMMA DecisionSummaryIs ==
  ASSUME NEW s, NEW v, DecisionSummary(s) = DecisionSummary(v)
  PROVE  /\ Values(s, LAMBDA d : d.role) = Values(v, LAMBDA d : d.role)
         /\ Values(s, LAMBDA d : d.status) = Values(v, LAMBDA d : d.status)
         /\ CountOf(s, LAMBDA d : d.status = "trimmed")
              = CountOf(v, LAMBDA d : d.status = "trimmed")
<1>1. PICK a, b, e : /\ a = Values(s, LAMBDA d : d.role) /\ b = Values(s, LAMBDA d : d.status)
                     /\ e = CountOf(s, LAMBDA d : d.status = "trimmed")
  OBVIOUS
<1>2. PICK f, g, h : /\ f = Values(v, LAMBDA d : d.role) /\ g = Values(v, LAMBDA d : d.status)
                     /\ h = CountOf(v, LAMBDA d : d.status = "trimmed")
  OBVIOUS
<1>3. PICK x, y : x = DecisionSummary(s) /\ y = DecisionSummary(v)
  OBVIOUS
<1>4. x.roles = a /\ x.statuses = b /\ x.trimmed = e
  BY <1>1, <1>3 DEF DecisionSummary
<1>5. y.roles = f /\ y.statuses = g /\ y.trimmed = h
  BY <1>2, <1>3 DEF DecisionSummary
<1>6. a = f /\ b = g /\ e = h
  BY <1>3, <1>4, <1>5
<1> QED
  BY <1>1, <1>2, <1>6

LEMMA SameDecisions ==
  ASSUME NEW s, NEW v, s = << >> <=> v = << >>, s # << >> => DecisionSummary(s) = DecisionSummary(v)
  PROVE  /\ Values(s, LAMBDA d : d.role) = Values(v, LAMBDA d : d.role)
         /\ Values(s, LAMBDA d : d.status) = Values(v, LAMBDA d : d.status)
         /\ CountOf(s, LAMBDA d : d.status = "trimmed")
              = CountOf(v, LAMBDA d : d.status = "trimmed")
<1>1. CASE s # << >>
  BY <1>1, DecisionSummaryIs
<1>2. CASE s = << >>
  <2>1. s = v
    BY <1>2
  <2> QED
    BY <2>1
<1> QED
  BY <1>1, <1>2

LEMMA BucketReadings ==
  ASSUME NEW t, NEW u, SameSteps(t, u)
  PROVE  BucketReading(t) = BucketReading(u)
<1>1. PICK s, v : s = Buckets(t) /\ v = Buckets(u)
  OBVIOUS
<1>2. PICK x, y : x = BucketSummary(t) /\ y = BucketSummary(u)
  OBVIOUS
<1>3. (s # << >> <=> v # << >>) /\ (s # << >> => x = y)
  <2>1. Shuffled(OneIf(s # << >>, x), OneIf(v # << >>, y))
    BY <1>1, <1>2, PromptsShuffled
  <2> QED
    BY <2>1, OneShuffled
<1>4. PICK m, n : m = CountOf(s, LAMBDA d : d.over) /\ n = CountOf(v, LAMBDA d : d.over)
  OBVIOUS
<1>5. x.of = DecisionSummary(s) /\ x.over = m /\ y.of = DecisionSummary(v) /\ y.over = n
  BY <1>1, <1>2, <1>4 DEF BucketSummary
<1>6. s # << >> => DecisionSummary(s) = DecisionSummary(v) /\ m = n
  BY <1>3, <1>5
<1>7. m = n
  <2>1. CASE s # << >>
    BY <1>6, <2>1
  <2>2. CASE s = << >>
    <3>1. s = v
      BY <1>3, <2>2
    <3> QED
      BY <1>4, <3>1
  <2> QED
    BY <2>1, <2>2
<1>8. /\ Values(Buckets(t), LAMBDA d : d.role) = Values(Buckets(u), LAMBDA d : d.role)
      /\ Values(Buckets(t), LAMBDA d : d.status) = Values(Buckets(u), LAMBDA d : d.status)
      /\ CountOf(Buckets(t), LAMBDA d : d.status = "trimmed")
           = CountOf(Buckets(u), LAMBDA d : d.status = "trimmed")
  BY <1>1, <1>3, <1>6, SameDecisions
<1>9. CountOf(Buckets(t), LAMBDA d : d.over) = CountOf(Buckets(u), LAMBDA d : d.over)
  BY <1>1, <1>4, <1>7
<1>10. HoldsIf("prompt_bucket_budget", Buckets(t) # << >>)
         = HoldsIf("prompt_bucket_budget", Buckets(u) # << >>)
  BY <1>1, <1>3 DEF HoldsIf
<1> QED
  BY <1>8, <1>9, <1>10, Zenon DEF BucketReading, Values, CountOf

LEMMA SemanticReadings ==
  ASSUME NEW t, NEW u, SameSteps(t, u)
  PROVE  SemanticReading(t) = SemanticReading(u)
<1>1. PICK s, v : s = Semantic(t) /\ v = Semantic(u)
  OBVIOUS
<1>2. PICK x, y : x = SemanticSummary(t) /\ y = SemanticSummary(u)
  OBVIOUS
<1>3. (s # << >> <=> v # << >>) /\ (s # << >> => x = y)
  <2>1. Shuffled(OneIf(s # << >>, x), OneIf(v # << >>, y))
    BY <1>1, <1>2, PromptsShuffled
  <2> QED
    BY <2>1, OneShuffled
<1>4. PICK m, n : m = SumOf(s, LAMBDA d : d.dropped) /\ n = SumOf(v, LAMBDA d : d.dropped)
  OBVIOUS
<1>5. x.of = DecisionSummary(s) /\ x.dropped = m /\ y.of = DecisionSummary(v) /\ y.dropped = n
  BY <1>1, <1>2, <1>4 DEF SemanticSummary
<1>6. s # << >> => DecisionSummary(s) = DecisionSummary(v) /\ m = n
  BY <1>3, <1>5
<1>7. m = n
  <2>1. CASE s # << >>
    BY <1>6, <2>1
  <2>2. CASE s = << >>
    <3>1. s = v
      BY <1>3, <2>2
    <3> QED
      BY <1>4, <3>1
  <2> QED
    BY <2>1, <2>2
<1>8. /\ Values(Semantic(t), LAMBDA d : d.role) = Values(Semantic(u), LAMBDA d : d.role)
      /\ Values(Semantic(t), LAMBDA d : d.status) = Values(Semantic(u), LAMBDA d : d.status)
      /\ CountOf(Semantic(t), LAMBDA d : d.status = "trimmed")
           = CountOf(Semantic(u), LAMBDA d : d.status = "trimmed")
  BY <1>1, <1>3, <1>6, SameDecisions
<1>9. SumOf(Semantic(t), LAMBDA d : d.dropped) = SumOf(Semantic(u), LAMBDA d : d.dropped)
  BY <1>1, <1>4, <1>7
<1>10. HoldsIf("prompt_semantic_trim", Semantic(t) # << >>)
         = HoldsIf("prompt_semantic_trim", Semantic(u) # << >>)
  BY <1>1, <1>3 DEF HoldsIf
<1> QED
  BY <1>8, <1>9, <1>10, Zenon DEF SemanticReading, Values, CountOf, SumOf

LEMMA TrimReadings ==
  ASSUME NEW t, NEW u, SameSteps(t, u)
  PROVE  TrimReading(t) = TrimReading(u)
<1>1. PICK s, v : s = Of(t, "trim") /\ v = Of(u, "trim")
  OBVIOUS
<1>2. PICK x, y : x = TrimSummary(t) /\ y = TrimSummary(u)
  OBVIOUS
<1>3. (s # << >> <=> v # << >>) /\ (s # << >> => x = y)
  <2>1. Shuffled(OneIf(s # << >>, x), OneIf(v # << >>, y))
    BY <1>1, <1>2, PromptsShuffled
  <2> QED
    BY <2>1, OneShuffled
<1>4. x = Values(s, LAMBDA d : d.role) /\ y = Values(v, LAMBDA d : d.role)
  BY <1>1, <1>2 DEF TrimSummary
<1>5. x = y
  <2>1. CASE s = << >>
    <3>1. s = v
      BY <1>3, <2>1
    <3> QED
      BY <1>4, <3>1
  <2> QED
    BY <1>3, <2>1
<1>6. Values(Of(t, "trim"), LAMBDA d : d.role) = Values(Of(u, "trim"), LAMBDA d : d.role)
  BY <1>1, <1>4, <1>5
<1>7. HoldsIf("prompt_trim", Of(t, "trim") # << >>) = HoldsIf("prompt_trim", Of(u, "trim") # << >>)
  BY <1>1, <1>3 DEF HoldsIf
<1> QED
  BY <1>6, <1>7, Zenon DEF TrimReading, Values

\* What a filter leaves out is what does not pass its test.
LEMMA LeftOut ==
  ASSUME NEW s, IsList(s), NEW K, NEW I, I = {i \in DOMAIN s : s[i] \notin K}
  PROVE  Cardinality(I) = Len(s) - Len(Filtered(s, K))
<1>1. PICK f, J : f = Filtered(s, K) /\ J = {i \in DOMAIN s : s[i] \in K}
  OBVIOUS
<1>2. IsList(f) /\ \A i \in DOMAIN f : f[i] \in K
  BY <1>1, FilteredElements
<1>3. Number(f, K) = Len(f)
  <2>1. {i \in DOMAIN f : f[i] \in K} = DOMAIN f
    BY <1>2
  <2>2. Cardinality(DOMAIN f) = Len(f)
    BY <1>2, PlacesAreFinite
  <2> QED
    BY <2>1, <2>2 DEF Number
<1>4. Number(f, K) = Cardinality(J)
  <2>1. PICK S : S = {s[i] : i \in DOMAIN s}
    OBVIOUS
  <2>2. s \in Seq(S)
    BY <2>1 DEF IsList
  <2>3. Number(f, K) = Number(s, K \cap K)
    BY <1>1, <2>2, NumberFiltered
  <2>4. K \cap K = K
    OBVIOUS
  <2> QED
    BY <1>1, <2>3, <2>4 DEF Number
<1>5. I \in SUBSET DOMAIN s /\ J \in SUBSET DOMAIN s
  BY <1>1
<1>6. /\ IsFiniteSet(I) /\ Cardinality(I) \in Nat /\ IsFiniteSet(J) /\ Cardinality(J) \in Nat
      /\ Cardinality(DOMAIN s) = Len(s)
  BY <1>5, PlacesAreFinite
<1>7. I \cup J = DOMAIN s /\ I \cap J = {}
  BY <1>1
<1>8. Cardinality(I \cup J) = Cardinality(I) + Cardinality(J) - Cardinality(I \cap J)
  BY <1>6, FS_Union
<1>9. Cardinality(I \cap J) = 0
  BY <1>7, FS_EmptySet
<1>10. PICK m, n, k : m = Cardinality(I) /\ n = Cardinality(J) /\ k = Len(s)
  OBVIOUS
<1>11. k = m + n - 0 /\ m \in Nat /\ n \in Nat
  BY <1>6, <1>7, <1>8, <1>9, <1>10
<1>12. m = k - n
  BY <1>11
<1> QED
  BY <1>1, <1>3, <1>4, <1>10, <1>12

LEMMA MaterialReadings ==
  ASSUME NEW t, NEW u, SameSteps(t, u)
  PROVE  MaterialReading(t) = MaterialReading(u)
<1>1. PICK s, v : s = Materials(t) /\ v = Materials(u)
  OBVIOUS
<1>2. PICK in, as : in = Where(s, LAMBDA m : m.selected) /\ as = Where(v, LAMBDA m : m.selected)
  OBVIOUS
<1>3. PICK x, y : x = MaterialSummary(t) /\ y = MaterialSummary(u)
  OBVIOUS
<1>4. x = y
  <2>1. Shuffled(<<x>>, <<y>>)
    BY <1>3, PromptsShuffled
  <2>2. Within(<<x>>, <<y>>)
    BY <2>1, ShuffledHas
  <2> QED
    BY <2>2 DEF Within
<1>5. PICK a, b, c, d : /\ a = Values(in, LAMBDA m : m.name) /\ b = Values(s, LAMBDA m : m.status)
                        /\ c = Values(s, LAMBDA m : m.target) /\ d = SumOf(in, LAMBDA m : m.bytes)
  OBVIOUS
<1>6. PICK e, f, g, h : /\ e = Values(as, LAMBDA m : m.name) /\ f = Values(v, LAMBDA m : m.status)
                        /\ g = Values(v, LAMBDA m : m.target) /\ h = SumOf(as, LAMBDA m : m.bytes)
  OBVIOUS
<1>7. x.names = a /\ x.statuses = b /\ x.targets = c /\ x.bytes = d /\ x.dropped = Len(s) - Len(in)
  BY <1>1, <1>2, <1>3, <1>5 DEF MaterialSummary
<1>8. y.names = e /\ y.statuses = f /\ y.targets = g /\ y.bytes = h /\ y.dropped = Len(v) - Len(as)
  BY <1>1, <1>2, <1>3, <1>6 DEF MaterialSummary
<1>9. a = e /\ b = f /\ c = g /\ d = h /\ Len(s) - Len(in) = Len(v) - Len(as)
  BY <1>4, <1>7, <1>8
<1>10. Values(Where(Materials(t), LAMBDA m : m.selected), LAMBDA m : m.name)
         = Values(Where(Materials(u), LAMBDA m : m.selected), LAMBDA m : m.name)
  BY <1>1, <1>2, <1>5, <1>6, <1>9
<1>11. SumOf(Where(Materials(t), LAMBDA m : m.selected), LAMBDA m : m.bytes)
         = SumOf(Where(Materials(u), LAMBDA m : m.selected), LAMBDA m : m.bytes)
  BY <1>1, <1>2, <1>5, <1>6, <1>9
<1>12. Values(Materials(t), LAMBDA m : m.status) = Values(Materials(u), LAMBDA m : m.status)
  BY <1>1, <1>5, <1>6, <1>9
<1>13. Values(Materials(t), LAMBDA m : m.target) = Values(Materials(u), LAMBDA m : m.target)
  BY <1>1, <1>5, <1>6, <1>9
<1>14. CountOf(Materials(t), LAMBDA m : ~m.selected) = CountOf(Materials(u), LAMBDA m : ~m.selected)
  <2>1. IsList(s) /\ IsList(v)
    BY <1>1, TracesAreLists DEF SameSteps
  <2>2. PICK K, L : K = {m \in ToSet(s) : m.selected} /\ L = {m \in ToSet(v) : m.selected}
    OBVIOUS
  <2>3. in = Filtered(s, K) /\ as = Filtered(v, L)
    BY <1>2, <2>2 DEF Where
  <2>4. PICK I, J : I = {i \in DOMAIN s : ~s[i].selected} /\ J = {i \in DOMAIN v : ~v[i].selected}
    OBVIOUS
  <2>5. I = {i \in DOMAIN s : s[i] \notin K} /\ J = {i \in DOMAIN v : v[i] \notin L}
    BY <2>2, <2>4 DEF ToSet
  <2>6. Cardinality(I) = Len(s) - Len(in) /\ Cardinality(J) = Len(v) - Len(as)
    BY <2>1, <2>3, <2>5, LeftOut
  <2>7. Cardinality(I) = Cardinality(J)
    BY <1>9, <2>6
  <2> QED
    BY <1>1, <2>4, <2>7 DEF CountOf
<1>15. t.built = TRUE /\ u.built = TRUE
  BY BareIs DEF SameSteps
<1>16. HoldsIf("context_material_selection", t.built \/ Materials(t) # << >>)
         = HoldsIf("context_material_selection", u.built \/ Materials(u) # << >>)
  BY <1>15 DEF HoldsIf
<1> QED
  BY <1>10, <1>11, <1>12, <1>13, <1>14, <1>16, Zenon DEF MaterialReading, Values, CountOf, SumOf

\* Of two lists of at most one element, one a shuffle of the other, the first is the same.
LEMMA SameFirst ==
  ASSUME NEW t, NEW u, RecordedTrace(t), RecordedTrace(u), NEW section \in Singly,
         Shuffled(Of(t, section), Of(u, section))
  PROVE  First(t, section) = First(u, section)
<1>1. PICK s, v : s = Of(t, section) /\ v = Of(u, section)
  OBVIOUS
<1>2. (s = << >> <=> v = << >>) /\ Within(s, v)
  BY <1>1, ShuffledHas
<1>3. IsList(s) /\ IsList(v)
  BY <1>1, OfIs
<1>4. \A i, j \in DOMAIN v : i = j
  BY <1>1, OfOne
<1>5. CASE s = << >>
  BY <1>1, <1>2, <1>5 DEF First
<1>6. CASE s # << >>
  <2>1. v # << >>
    BY <1>2, <1>6
  <2>2. 1 \in DOMAIN s /\ 1 \in DOMAIN v
    <3>1. Len(s) \in Nat /\ DOMAIN s = 1..Len(s) /\ Len(v) \in Nat /\ DOMAIN v = 1..Len(v)
      BY <1>3, ListOf
    <3>2. Len(s) # 0 /\ Len(v) # 0
      BY <1>3, <1>6, <2>1 DEF IsList
    <3> QED
      BY <3>1, <3>2
  <2>3. s[1] = v[1]
    BY <1>2, <1>4, <2>2 DEF Within
  <2> QED
    BY <1>1, <1>6, <2>1, <2>3 DEF First
<1> QED
  BY <1>5, <1>6

LEMMA BudgetReadings ==
  ASSUME NEW t, NEW u, SameSteps(t, u)
  PROVE  BudgetReading(t) = BudgetReading(u)
<1>1. Shuffled(Of(t, "prompt_budget"), Of(u, "prompt_budget"))
  BY PromptsShuffled
<1>2. First(t, "prompt_budget") = First(u, "prompt_budget")
  BY <1>1, SameFirst DEF SameSteps, Singly
<1> QED
  BY <1>2 DEF BudgetReading

LEMMA ResumeReadings ==
  ASSUME NEW t, NEW u, SameSteps(t, u)
  PROVE  ResumeReading(t) = ResumeReading(u)
<1>1. Shuffled(Of(t, "resume"), Of(u, "resume"))
        /\ Shuffled(Of(t, "resume_plan"), Of(u, "resume_plan"))
  BY CarriedInTwo, SameCarriedLists DEF SameSteps
<1>2. First(t, "resume") = First(u, "resume") /\ First(t, "resume_plan") = First(u, "resume_plan")
  BY <1>1, SameFirst DEF SameSteps, Singly
<1> QED
  BY <1>2 DEF ResumeReading

LEMMA PreflightReadings ==
  ASSUME NEW t, NEW u, SameSteps(t, u)
  PROVE  PreflightReading(t) = PreflightReading(u)
      /\ StoragePreflightReading(t) = StoragePreflightReading(u)
<1>1. PICK x, y : x = Preflight(t) /\ y = Preflight(u)
  OBVIOUS
<1>2. PICK a, b : a = StorageReport(t) /\ b = StorageReport(u)
  OBVIOUS
<1>3. Shuffled(OneIf(x # None, x), OneIf(y # None, y))
        /\ Shuffled(OneIf(a # None, a), OneIf(b # None, b))
  BY <1>1, <1>2, CarriedInTwo, SameCarriedLists DEF SameSteps
<1>4. x = y
  BY <1>3, OneShuffled
<1>5. a = b
  BY <1>3, OneShuffled
<1>6. Preflight(t) = Preflight(u) /\ StorageReport(t) = StorageReport(u)
  BY <1>1, <1>2, <1>4, <1>5
<1> QED
  BY <1>6 DEF PreflightReading, StoragePreflightReading

LEMMA SkillReadings ==
  ASSUME NEW t, NEW u, SameSteps(t, u)
  PROVE  SkillReading(t) = SkillReading(u)
<1>1. Shuffled(SkillsLoaded(t), SkillsLoaded(u)) /\ Shuffled(Of(t, "views"), Of(u, "views"))
  BY CarriedInCapabilities, SameCarriedLists DEF SameSteps
<1>2. Within(Of(t, "views"), Of(u, "views")) /\ Within(Of(u, "views"), Of(t, "views"))
        /\ Len(Of(t, "views")) = Len(Of(u, "views"))
  BY <1>1, ShuffledHas
<1>3. ViewIds(t) = ViewIds(u) /\ ViewSkills(t) = ViewSkills(u)
  <2>1. PICK c, d : c = Of(t, "views") /\ d = Of(u, "views")
    OBVIOUS
  <2>2. Within(c, d) /\ Within(d, c)
    BY <1>2, <2>1
  <2>3. Values(c, LAMBDA v : v.id) = Values(d, LAMBDA v : v.id)
    BY <2>2 DEF Values, Within
  <2>4. Values(c, LAMBDA v : v.skill) = Values(d, LAMBDA v : v.skill)
    BY <2>2 DEF Values, Within
  <2> QED
    BY <2>1, <2>3, <2>4 DEF ViewIds, ViewSkills
<1>5. PICK s, v : s = Of(t, "skills") /\ v = Of(u, "skills")
  OBVIOUS
<1>6. PICK a, b : a = SkillsLoaded(t) /\ b = SkillsLoaded(u)
  OBVIOUS
<1>7. Within(a, b) /\ Within(b, a) /\ Len(a) = Len(b)
  BY <1>1, <1>6, ShuffledHas
<1>8. a = [i \in DOMAIN s |-> s[i].name] /\ b = [i \in DOMAIN v |-> v[i].name]
  BY <1>5, <1>6 DEF SkillsLoaded
<1>9. {s[i].name : i \in DOMAIN s} = {v[i].name : i \in DOMAIN v}
  <2>1. \A i \in DOMAIN s : \E j \in DOMAIN v : v[j].name = s[i].name
    BY <1>7, <1>8 DEF Within
  <2>2. \A j \in DOMAIN v : \E i \in DOMAIN s : s[i].name = v[j].name
    BY <1>7, <1>8 DEF Within
  <2> QED
    BY <2>1, <2>2
<1>10. SkillNames(t) = SkillNames(u)
  BY <1>5, <1>9 DEF SkillNames
<1>11. IsList(s) /\ IsList(v)
  BY <1>5, OfIs DEF SameSteps
<1>12. Len(s) = Len(v)
  <2>1. DOMAIN a = DOMAIN s /\ DOMAIN b = DOMAIN v /\ a = [i \in DOMAIN a |-> a[i]]
          /\ b = [i \in DOMAIN b |-> b[i]]
    BY <1>8
  <2>2. Len(a) = Len(s) /\ Len(b) = Len(v)
    BY <1>11, <2>1, MadeIsList
  <2> QED
    BY <1>7, <2>2
<1>13. PICK m, n : m = s \o Of(t, "views") /\ n = v \o Of(u, "views")
  OBVIOUS
<1>14. IsList(m) /\ IsList(n) /\ Len(m) = Len(n)
  <2>1. IsList(Of(t, "views")) /\ IsList(Of(u, "views"))
    BY OfIs DEF SameSteps
  <2>2. /\ IsList(m) /\ Len(m) = Len(s) + Len(Of(t, "views"))
        /\ IsList(n) /\ Len(n) = Len(v) + Len(Of(u, "views"))
    BY <1>11, <1>13, <2>1, JoinedConcat
  <2> QED
    BY <1>2, <1>12, <2>2
<1>15. m = << >> <=> n = << >>
  <2>1. (m = << >> <=> Len(m) = 0) /\ (n = << >> <=> Len(n) = 0)
    BY <1>14 DEF IsList
  <2> QED
    BY <1>14, <2>1
<1>16. HoldsIf("skill_center", Of(t, "skills") \o Of(t, "views") # << >>)
         = HoldsIf("skill_center", Of(u, "skills") \o Of(u, "views") # << >>)
  BY <1>5, <1>13, <1>15 DEF HoldsIf
<1> QED
  BY <1>2, <1>3, <1>10, <1>16, Zenon DEF SkillReading

LEMMA PartIs ==
  ASSUME NEW t
  PROVE  /\ Part(t, "hooks") = HookReading(t) /\ Part(t, "resume") = ResumeReading(t)
         /\ Part(t, "preflight") = PreflightReading(t) /\ Part(t, "skills") = SkillReading(t)
         /\ Part(t, "storage_preflight") = StoragePreflightReading(t)
         /\ Part(t, "provider") = ProviderReading(t) /\ Part(t, "stream") = StreamReading(t)
         /\ Part(t, "tool_calls") = ToolCallReading(t)
              /\ Part(t, "tool_results") = ToolResultReading(t)
         /\ Part(t, "shapes") = ShapeReading(t)
         /\ Part(t, "budget") = BudgetReading(t) /\ Part(t, "buckets") = BucketReading(t)
         /\ Part(t, "semantic") = SemanticReading(t) /\ Part(t, "trim") = TrimReading(t)
<1>1. /\ Part(t, "hooks") = HookReading(t) /\ Part(t, "resume") = ResumeReading(t)
      /\ Part(t, "preflight") = PreflightReading(t) /\ Part(t, "skills") = SkillReading(t)
      /\ Part(t, "storage_preflight") = StoragePreflightReading(t)
  BY DEF Part, OfCalls, OfCourse, OfPrompt, CoursePart
<1>2. /\ Part(t, "provider") = ProviderReading(t) /\ Part(t, "stream") = StreamReading(t)
      /\ Part(t, "tool_calls") = ToolCallReading(t)
           /\ Part(t, "tool_results") = ToolResultReading(t)
      /\ Part(t, "shapes") = ShapeReading(t)
  BY DEF Part, OfCalls, OfCourse, OfPrompt, CallPart
<1>3. /\ Part(t, "budget") = BudgetReading(t) /\ Part(t, "buckets") = BucketReading(t)
      /\ Part(t, "semantic") = SemanticReading(t) /\ Part(t, "trim") = TrimReading(t)
  BY DEF Part, OfCalls, OfCourse, OfPrompt, PromptPart
<1> QED
  BY <1>1, <1>2, <1>3

\* Each part that is replayed is read alike from two traces with the same steps.
LEMMA SameParts ==
  ASSUME NEW t, NEW u, SameSteps(t, u), NEW part \in ReplayedParts
  PROVE  Part(t, part) = Part(u, part)
<1>1. /\ Part(t, "hooks") = Part(u, "hooks") /\ Part(t, "resume") = Part(u, "resume")
      /\ Part(t, "preflight") = Part(u, "preflight") /\ Part(t, "skills") = Part(u, "skills")
      /\ Part(t, "storage_preflight") = Part(u, "storage_preflight")
  BY PartIs, HookReadings, ResumeReadings, PreflightReadings, SkillReadings
<1>2. /\ Part(t, "provider") = Part(u, "provider") /\ Part(t, "stream") = Part(u, "stream")
      /\ Part(t, "tool_calls") = Part(u, "tool_calls")
           /\ Part(t, "tool_results") = Part(u, "tool_results")
      /\ Part(t, "shapes") = Part(u, "shapes")
  BY PartIs, ProviderReadings, StreamReadings, ToolCallReadings, ToolResultReadings, ShapeReadings
<1>3. /\ Part(t, "budget") = Part(u, "budget") /\ Part(t, "buckets") = Part(u, "buckets")
      /\ Part(t, "semantic") = Part(u, "semantic") /\ Part(t, "trim") = Part(u, "trim")
      /\ Part(t, "materials") = Part(u, "materials")
  BY PartIs, PartsAre, BudgetReadings, BucketReadings, SemanticReadings, TrimReadings,
     MaterialReadings
<1>4. /\ Part(t, "handoff") = Part(u, "handoff") /\ Part(t, "agent_tools") = Part(u, "agent_tools")
      /\ Part(t, "approvals") = Part(u, "approvals") /\ Part(t, "artifacts") = Part(u, "artifacts")
      /\ Part(t, "structured") = Part(u, "structured")
  BY PartsAre, HandoffReadings, AgentToolReadings, ApprovalReadings, ArtifactReadings,
     StructuredReadings
<1>5. part \in {"approvals", "artifacts", "structured", "handoff", "agent_tools",
               "provider", "stream", "tool_calls", "tool_results", "shapes", "hooks",
               "materials", "buckets", "semantic", "trim", "budget", "skills",
               "preflight", "resume", "storage_preflight"}
  BY DEF ReplayedParts
<1> QED
  BY <1>1, <1>2, <1>3, <1>4, <1>5, Zenon

LEMMA SameIssues ==
  ASSUME NEW t, NEW u, SameSteps(t, u), NEW spec, \A c \in spec : c.part \in ReplayedParts
  PROVE  Issues(t, spec) = Issues(u, spec)
<1>1. \A c \in spec : Part(t, c.part) = Part(u, c.part)
  BY SameParts
<1>2. \A c \in spec : Satisfies(Part(t, c.part), c) = Satisfies(Part(u, c.part), c)
  BY <1>1
<1> QED
  BY <1>2, Zenon DEF Issues

LEMMA EvaluationsHold ==
  ASSUME \A i \in DOMAIN RecordsInMemory : RecordedTrace(RecordsInMemory[i])
  PROVE  EqualReplaysEvaluateAlike
<1>1. PICK records : records = RecordsInMemory
  OBVIOUS
<1>2. SUFFICES ASSUME NEW i \in DOMAIN records, NEW j \in DOMAIN records, i < j,
                      NEW diff \in DiffSpecs, FullReplay(diff), Alike(records[i], records[j], diff),
                      NEW spec \in EvalSpecs, \A c \in spec : c.part \in ReplayedParts
               PROVE  EvaluateAll(spec)[i] = EvaluateAll(spec)[j]
  BY <1>1, Zenon DEF EqualReplaysEvaluateAlike, SameResults
<1>3. PICK t, u : t = records[i] /\ u = records[j]
  OBVIOUS
<1>4. RecordedTrace(t) /\ RecordedTrace(u)
  BY <1>1, <1>3
<1>5. \A x : Number(Steps(t), {x}) = Number(Steps(u), {x})
  BY <1>2, <1>3, <1>4, AlikeSteps
<1>6. SameSteps(t, u)
  BY <1>4, <1>5 DEF SameSteps
<1>7. Issues(t, spec) = Issues(u, spec)
  BY <1>2, <1>6, SameIssues
<1>8. EvaluateAll(spec)[i] = Issues(t, spec) /\ EvaluateAll(spec)[j] = Issues(u, spec)
  BY <1>1, <1>3 DEF EvaluateAll
<1> QED
  BY <1>7, <1>8

-----------------------------------------------------------------------------
(* What a session records, and what it saves of it.                         *)

\* What was recorded of a run: at most one item of a section a run has one of.
LogOk(s) ==
  /\ IsList(s)
  /\ \A i \in DOMAIN s : \E item \in Items : s[i].section = item.section /\ s[i].data = item.data
  /\ \A i \in DOMAIN s : s[i].run = None => s[i].section \in SessionSections
  /\ \A i, j \in DOMAIN s : i # j /\ s[i].section = s[j].section /\ s[i].section \in Singly
                              => s[i].run # s[j].run

RecordInv == LogOk(log) /\ \A r \in DOMAIN kept : RecordedTrace(kept[r])

LEMMA SinglyAreOwn ==
  /\ Singly \subseteq OwnSections /\ Singly \subseteq OncePerRun
  /\ Singly \cap SessionSections = {} /\ "preflight" \notin Singly
BY DEF Singly, OwnSections, OncePerRun, SessionSections

\* Of what a session recorded, what a trace of one run has is as a trace has it.
LEMMA PickedIsRecorded ==
  ASSUME LogOk(log), NEW r, NEW f, NEW K, f = Filtered(log, K),
         \A i \in DOMAIN log : log[i] \in K /\ log[i].section \in Singly => log[i].run = r
  PROVE  Recorded(f)
<1>1. IsList(log)
  BY DEF LogOk
<1>2. /\ IsList(f)
      /\ \A i \in DOMAIN f : f[i] \in K /\ \E j \in DOMAIN log : f[i] = log[j]
  BY <1>1, FilteredElements
<1>3. \A i \in DOMAIN f : \E item \in Items : f[i].section = item.section /\ f[i].data = item.data
  BY <1>2 DEF LogOk
<1>4. KeepsOrder(f, log, Len(log))
  <2>1. PICK S : S = {log[i] : i \in DOMAIN log}
    OBVIOUS
  <2>2. log \in Seq(S)
    BY <1>1, <2>1 DEF IsList
  <2> QED
    BY <2>2, FilteredOrder
<1>5. DOMAIN log = 1..Len(log) /\ Len(log) \in Nat /\ DOMAIN f = 1..Len(f) /\ Len(f) \in Nat
  BY <1>1, <1>2, ListOf
<1>6. ASSUME NEW i \in DOMAIN f, NEW j \in DOMAIN f, i < j, f[i].section
               = f[j].section, f[i].section \in Singly
      PROVE  FALSE
  <2>1. PICK a \in 1..Len(log), b \in 1..Len(log) : a < b /\ f[i] = log[a] /\ f[j] = log[b]
    BY <1>4, <1>6 DEF KeepsOrder
  <2>2. a # b /\ a \in DOMAIN log /\ b \in DOMAIN log
    BY <1>5, <2>1
  <2>3. log[a].run = r /\ log[b].run = r
    BY <1>2, <1>6, <2>1, <2>2
  <2>4. log[a].section = log[b].section /\ log[a].section \in Singly
    BY <1>6, <2>1
  <2> QED
    BY <2>2, <2>3, <2>4 DEF LogOk
<1>7. \A i, j \in DOMAIN f : i # j /\ f[i].section = f[j].section => f[i].section \notin Singly
  <2> SUFFICES ASSUME NEW i \in DOMAIN f, NEW j \in DOMAIN f, i # j, f[i].section = f[j].section,
                      f[i].section \in Singly
               PROVE  FALSE
    OBVIOUS
  <2>1. i < j \/ j < i
    BY <1>5
  <2> QED
    BY <1>6, <2>1
<1> QED
  BY <1>2, <1>3, <1>7 DEF Recorded

\* What a saved trace adds to what the dictionary keeps.
LEMMA SavedIsRecorded ==
  ASSUME RecordInv, NEW t, RecordedTrace(t), Save(t), log' = log
  PROVE  RecordInv'
<1>1. kept' = [x \in DOMAIN kept \cup {t.run} |-> IF x = t.run THEN t ELSE kept[x]]
  BY DEF Save, SaveInMemory
<1>2. \A x \in DOMAIN kept' : RecordedTrace(kept'[x])
  BY <1>1 DEF RecordInv
<1> QED
  BY <1>2 DEF RecordInv

LEMMA RecordInvStep ==
  ASSUME RecordInv, [TraceNext]_traceVars
  PROVE  RecordInv'
<1>1. LogOk(log) /\ \A x \in DOMAIN kept : RecordedTrace(kept[x])
  BY DEF RecordInv
<1>2. IsList(log)
  BY <1>1 DEF LogOk
<1>3. ASSUME log' = log, kept' = kept PROVE RecordInv'
  BY <1>1, <1>3 DEF RecordInv
<1>4. CASE UNCHANGED traceVars
  BY <1>3, <1>4 DEF traceVars
<1>5. ASSUME NEW r \in TraceRuns, BeginRun(r) PROVE RecordInv'
  BY <1>3, <1>5 DEF BeginRun
<1>6. ASSUME NEW item \in Items, Record(item) PROVE RecordInv'
  <2>1. PICK new : new = [section |-> item.section, run |-> active, data |-> item.data]
    OBVIOUS
  <2>2. log' = Append(log, new) /\ kept' = kept /\ MayRecord(item)
          /\ (active = None => item.section \in SessionSections)
    BY <1>6, <2>1 DEF Record
  <2>3. new.section = item.section /\ new.run = active /\ new.data = item.data
    BY <2>1
  <2>4. PICK n \in Nat : n = Len(log) /\ DOMAIN log = 1..n
    BY <1>2, ListOf
  <2>5. /\ IsList(log') /\ DOMAIN log' = 1..(n + 1) /\ log'[n + 1] = new
        /\ \A i \in 1..n : log'[i] = log[i]
    <3>1. PICK S : S = {log[i] : i \in DOMAIN log} \cup {new}
      OBVIOUS
    <3>2. log \in Seq(S) /\ new \in S
      <4>1. log \in Seq({log[i] : i \in DOMAIN log})
        BY <1>2 DEF IsList
      <4> QED
        BY <3>1, <4>1
    <3>3. log' \in Seq(S) /\ Len(log') = n + 1 /\ log'[n + 1] = new
            /\ \A i \in 1..n : log'[i] = log[i]
      BY <2>2, <2>4, <3>2
    <3>4. IsList(log')
      BY <3>3, SeqIsList
    <3>5. DOMAIN log' = 1..(n + 1)
      BY <3>3, <3>4, ListOf
    <3> QED
      BY <3>3, <3>4, <3>5
  <2>6. \A i \in 1..(n + 1) : i \in 1..n \/ i = n + 1
    OBVIOUS
  <2>7. \A i \in DOMAIN log' : \E x \in Items : log'[i].section = x.section /\ log'[i].data = x.data
    <3>1. \A i \in 1..n : \E x \in Items : log[i].section = x.section /\ log[i].data = x.data
      BY <1>1, <2>4 DEF LogOk
    <3> QED
      BY <1>6, <2>3, <2>5, <2>6, <3>1
  <2>8. \A i \in DOMAIN log' : log'[i].run = None => log'[i].section \in SessionSections
    <3>1. \A i \in 1..n : log[i].run = None => log[i].section \in SessionSections
      BY <1>1, <2>4 DEF LogOk
    <3> QED
      BY <2>2, <2>3, <2>5, <2>6, <3>1
  <2>9. ASSUME NEW i \in 1..n, log[i].section = new.section, new.section \in Singly
        PROVE  log[i].run # new.run
    <3>1. item.section \in OncePerRun /\ log[i].section = item.section
      BY <2>3, <2>9, SinglyAreOwn
    <3> QED
      BY <2>2, <2>3, <2>4, <3>1 DEF MayRecord
  <2>10. ASSUME NEW i \in DOMAIN log', NEW j \in DOMAIN log', i # j,
                log'[i].section = log'[j].section, log'[i].section \in Singly
         PROVE  log'[i].run # log'[j].run
    <3>1. CASE i = n + 1
      <4>1. j \in 1..n
        BY <2>5, <2>6, <2>10, <3>1
      <4>2. log'[j] = log[j] /\ log'[i] = new
        BY <2>5, <3>1, <4>1
      <4>3. log[j].section = new.section /\ new.section \in Singly
        BY <2>10, <4>2
      <4>4. log[j].run # new.run
        BY <2>9, <4>1, <4>3
      <4> QED
        BY <4>2, <4>4
    <3>2. CASE j = n + 1
      <4>1. i \in 1..n
        BY <2>5, <2>6, <2>10, <3>2
      <4>2. log'[i] = log[i] /\ log'[j] = new
        BY <2>5, <3>2, <4>1
      <4>3. log[i].section = new.section /\ new.section \in Singly
        BY <2>10, <4>2
      <4>4. log[i].run # new.run
        BY <2>9, <4>1, <4>3
      <4> QED
        BY <4>2, <4>4
    <3>3. CASE i \in 1..n /\ j \in 1..n
      <4>1. log'[i] = log[i] /\ log'[j] = log[j] /\ i \in DOMAIN log /\ j \in DOMAIN log
        BY <2>4, <2>5, <3>3
      <4>2. log[i].section = log[j].section /\ log[i].section \in Singly
        BY <2>10, <4>1
      <4>3. log[i].run # log[j].run
        BY <1>1, <2>10, <4>1, <4>2 DEF LogOk
      <4> QED
        BY <4>1, <4>3
    <3> QED
      BY <2>5, <2>6, <3>1, <3>2, <3>3
  <2>11. LogOk(log')
    BY <2>5, <2>7, <2>8, <2>10 DEF LogOk
  <2> QED
    BY <1>1, <2>2, <2>11 DEF RecordInv
<1>7. ASSUME NEW ended \in EndStatuses, FinishRun(ended) PROVE RecordInv'
  <2>1. PICK f : f = Where(log, LAMBDA item : InBundle(item, active))
    OBVIOUS
  <2>2. PICK K : K = {x \in ToSet(log) : InBundle(x, active)}
    OBVIOUS
  <2>3. f = Filtered(log, K)
    BY <2>1, <2>2 DEF Where
  <2>4. \A i \in DOMAIN log : log[i] \in K /\ log[i].section \in Singly => log[i].run = active
    BY <2>2, SinglyAreOwn DEF InBundle
  <2>5. Recorded(f)
    BY <1>1, <2>3, <2>4, PickedIsRecorded
  <2>6. PICK t : t = Bundle(active, ended, 1, f)
    OBVIOUS
  <2>7. Save(t) /\ log' = log
    BY <1>7, <2>1, <2>6 DEF FinishRun
  <2>8. RecordedTrace(t)
    BY <2>5, <2>6 DEF RecordedTrace
  <2> QED
    BY <2>7, <2>8, SavedIsRecorded
<1>8. ASSUME NEW r \in TraceRuns, NEW p \in Items, BlockRun(r, p) PROVE RecordInv'
  <2>1. PICK f : f = Where(log, LAMBDA item : InBundle(item, r))
    OBVIOUS
  <2>2. PICK K : K = {x \in ToSet(log) : InBundle(x, r)}
    OBVIOUS
  <2>3. f = Filtered(log, K)
    BY <2>1, <2>2 DEF Where
  <2>4. \A i \in DOMAIN log : log[i] \in K /\ log[i].section \in Singly => log[i].run = r
    BY <2>2, SinglyAreOwn DEF InBundle
  <2>5. Recorded(f)
    BY <1>1, <2>3, <2>4, PickedIsRecorded
  <2>6. PICK own : own = [section |-> "preflight", run |-> r, data |-> p.data]
    OBVIOUS
  <2>7. PICK all : all = Append(f, own)
    OBVIOUS
  <2>8. p.section = "preflight"
    BY <1>8 DEF BlockRun
  <2>9. Recorded(all)
    <3>1. own.section = "preflight" /\ own.data = p.data
      BY <2>6
    <3>2. PICK n \in Nat : n = Len(f) /\ DOMAIN f = 1..n
      BY <2>5, ListOf DEF Recorded
    <3>3. /\ IsList(all) /\ DOMAIN all = 1..(n + 1) /\ all[n + 1] = own
          /\ \A i \in 1..n : all[i] = f[i]
      <4>1. PICK S : S = {f[i] : i \in DOMAIN f} \cup {own}
        OBVIOUS
      <4>2. f \in Seq(S) /\ own \in S
        <5>1. f \in Seq({f[i] : i \in DOMAIN f})
          BY <2>5 DEF IsList, Recorded
        <5> QED
          BY <4>1, <5>1
      <4>3. all \in Seq(S) /\ Len(all) = n + 1 /\ all[n + 1] = own /\ \A i \in 1..n : all[i] = f[i]
        BY <2>7, <3>2, <4>2
      <4>4. IsList(all)
        BY <4>3, SeqIsList
      <4>5. DOMAIN all = 1..(n + 1)
        BY <4>3, <4>4, ListOf
      <4> QED
        BY <4>3, <4>4, <4>5
    <3>4. \A i \in 1..(n + 1) : i \in 1..n \/ i = n + 1
      OBVIOUS
    <3>5. \A i \in DOMAIN all : \E item \in Items : all[i].section = item.section
            /\ all[i].data = item.data
      <4>1. \A i \in 1..n : \E item \in Items : f[i].section = item.section /\ f[i].data = item.data
        BY <2>5, <3>2 DEF Recorded
      <4> QED
        BY <2>8, <3>1, <3>3, <3>4, <4>1
    <3>6. ASSUME NEW i \in DOMAIN all, NEW j \in DOMAIN all, i # j,
                 all[i].section = all[j].section, all[i].section \in Singly
          PROVE  FALSE
      <4>1. i # n + 1 /\ j # n + 1
        BY <3>1, <3>3, <3>6, SinglyAreOwn
      <4>2. i \in DOMAIN f /\ j \in DOMAIN f /\ all[i] = f[i] /\ all[j] = f[j]
        BY <3>2, <3>3, <3>4, <4>1
      <4> QED
        BY <2>5, <3>6, <4>2 DEF Recorded
    <3> QED
      BY <3>3, <3>5, <3>6 DEF Recorded
  <2>10. PICK t : t = Bundle(r, "denied", 0, all)
    OBVIOUS
  <2>11. Save(t) /\ log' = log
    BY <1>8, <2>1, <2>6, <2>7, <2>10 DEF BlockRun
  <2>12. RecordedTrace(t)
    BY <2>9, <2>10 DEF RecordedTrace
  <2> QED
    BY <2>11, <2>12, SavedIsRecorded
<1>9. ASSUME NEW r \in TraceRuns, HostSaves(r) PROVE RecordInv'
  <2>1. PICK f : f = Where(log, LAMBDA item : item.run \in {r, None})
    OBVIOUS
  <2>2. PICK K : K = {x \in ToSet(log) : x.run \in {r, None}}
    OBVIOUS
  <2>3. f = Filtered(log, K)
    BY <2>1, <2>2 DEF Where
  <2>4. \A i \in DOMAIN log : log[i] \in K /\ log[i].section \in Singly => log[i].run = r
    <3>1. \A i \in DOMAIN log : log[i].run = None => log[i].section \in SessionSections
      BY <1>1 DEF LogOk
    <3> QED
      BY <2>2, <3>1, SinglyAreOwn
  <2>5. Recorded(f)
    BY <1>1, <2>3, <2>4, PickedIsRecorded
  <2>6. PICK t : t = Bundle(r, kept[r].status, kept[r].iterations, f)
    OBVIOUS
  <2>7. Save(t) /\ log' = log
    BY <1>9, <2>1, <2>6 DEF HostSaves
  <2>8. RecordedTrace(t)
    BY <2>5, <2>6 DEF RecordedTrace
  <2> QED
    BY <2>7, <2>8, SavedIsRecorded
<1> QED
  BY <1>4, <1>5, <1>6, <1>7, <1>8, <1>9 DEF TraceNext

\* What the bundle derives, the evaluator counts and the comparison replays of the same run is
\* the same story (trace.py, evals.py, replay.py).
THEOREM TracesTellOneStory == TraceSpec => []ReplaysAgree
<1>1. TraceInit => StoresInv /\ RecordInv
  <2> SUFFICES ASSUME TraceInit PROVE StoresInv /\ RecordInv
    OBVIOUS
  <2>1. log = << >> /\ kept = << >> /\ rows = << >> /\ page = << >> /\ active = None
    BY DEF TraceInit
  <2>2. DOMAIN kept = {} /\ DOMAIN rows = {} /\ DOMAIN page = {} /\ DOMAIN log = {}
    BY <2>1
  <2>3. IsFiniteSet(DOMAIN kept)
    BY <2>2, FS_EmptySet
  <2>4. IsList(<< >>)
    BY DEF IsList
  <2>5. Keeps(rows) /\ Keeps(page)
    BY <2>1, <2>2, <2>4 DEF Keeps, OneOfARun, Elements
  <2>6. RecordInv
    BY <2>1, <2>2, <2>4 DEF RecordInv, LogOk
  <2> QED
    BY <2>1, <2>2, <2>3, <2>5, <2>6 DEF StoresInv
<1>2. StoresInv /\ RecordInv /\ [TraceNext]_traceVars => StoresInv' /\ RecordInv'
  BY StoresInvStep, RecordInvStep
<1>3. StoresInv /\ RecordInv => ReplaysAgree
  <2> SUFFICES ASSUME StoresInv, RecordInv PROVE ReplaysAgree
    OBVIOUS
  <2>1. \A t \in Saved : RecordedTrace(t)
    BY DEF Saved, RecordInv
  <2>2. \A i \in DOMAIN RecordsInMemory : RecordedTrace(RecordsInMemory[i])
    <3>1. PICK records : records = RecordsInMemory
      OBVIOUS
    <3>2. Elements(records) = {kept[r] : r \in DOMAIN kept}
      BY <3>1, MemoryKeeps DEF Keeps
    <3>3. \A i \in DOMAIN records : records[i] \in Elements(records)
      BY DEF Elements
    <3>4. \A i \in DOMAIN records : RecordedTrace(records[i])
      BY <2>1, <3>2, <3>3 DEF Saved
    <3> QED
      BY <3>1, <3>4
  <2>3. DerivationsAgree
    BY <2>1, DerivationsHold
  <2>4. FailuresAreCounted
    BY <2>1, FailuresHold
  <2>5. EqualReplaysEvaluateAlike
    BY <2>2, EvaluationsHold
  <2> QED
    BY <2>3, <2>4, <2>5 DEF ReplaysAgree
<1> QED
  BY <1>1, <1>2, <1>3, PTL DEF TraceSpec
================================================================================
