------------------------------ MODULE ListLemmas ------------------------------
(***************************************************************************)
(* Induction and recursion over the natural numbers, without operators as  *)
(* parameters, and what the operators of Lists return.                     *)
(***************************************************************************)
EXTENDS Lists, FiniteSetTheorems, WellFoundedInduction, TLAPS

-----------------------------------------------------------------------------
(* Induction.                                                               *)

\* A set of numbers with an element has a least one.
LEMMA LeastNumber ==
  ASSUME NEW T \in SUBSET Nat, T # {}
  PROVE  \E m \in T : \A n \in T : m <= n
<1>1. IsWellFoundedOn(OpToRel(<, Nat), Nat)
  BY NatLessThanWellFounded
<1>2. \E x \in T : \A y \in T : ~(<<y, x>> \in OpToRel(<, Nat))
  BY <1>1, WFMin
<1>3. \A x, y \in Nat : y < x => <<y, x>> \in OpToRel(<, Nat)
  <2> SUFFICES ASSUME NEW x \in Nat, NEW y \in Nat, y < x
               PROVE  <<y, x>> \in OpToRel(<, Nat)
    OBVIOUS
  <2>1. <<y, x>> \in {p \in Nat \X Nat : p[1] < p[2]}
    OBVIOUS
  <2>2. {p \in Nat \X Nat : p[1] < p[2]} = OpToRel(<, Nat)
    BY Zenon DEF OpToRel
  <2> QED
    BY <2>1, <2>2
<1> HIDE DEF OpToRel
<1>4. PICK x \in T : \A y \in T : ~(y < x)
  BY <1>2, <1>3
<1> QED
  BY <1>4

\* A set that has 0 and the successor of each number it has, has them all.
LEMMA Induction ==
  ASSUME NEW S, 0 \in S, \A n \in Nat : n \in S => n + 1 \in S
  PROVE  Nat \subseteq S
<1> SUFFICES ASSUME Nat \ S # {} PROVE FALSE
  OBVIOUS
<1>1. PICK m \in Nat \ S : \A n \in Nat \ S : m <= n
  BY LeastNumber
<1>2. m # 0
  BY <1>1
<1>3. m - 1 \in Nat /\ m - 1 \in S
  BY <1>1, <1>2
<1> QED
  BY <1>1, <1>3

-----------------------------------------------------------------------------
(* Recursion: a start, and a step from each value to the next.              *)

Iterates(f, n, start, step) ==
  f[0] = start /\ \A i \in 1..n : f[i] = step[<<i, f[i - 1]>>]

\* There is a function that a recursion describes.
LEMMA RecursionExists ==
  ASSUME NEW V, NEW start \in V, NEW n \in Nat, NEW step \in [(1..n) \X V -> V]
  PROVE  \E f \in [0..n -> V] : Iterates(f, n, start, step)
<1> DEFINE Reached == {m \in Nat : m <= n => \E f \in [0..m -> V] : Iterates(f, m, start, step)}
<1>1. 0 \in Reached
  <2> DEFINE f == [i \in 0..0 |-> start]
  <2>1. f \in [0..0 -> V] /\ Iterates(f, 0, start, step)
    BY DEF Iterates
  <2> QED
    BY <2>1
<1>2. ASSUME NEW m \in Nat, m \in Reached
      PROVE  m + 1 \in Reached
  <2> SUFFICES ASSUME m + 1 <= n
               PROVE  \E g \in [0..(m + 1) -> V] : Iterates(g, m + 1, start, step)
    OBVIOUS
  <2>1. PICK f \in [0..m -> V] : Iterates(f, m, start, step)
    BY <1>2
  <2> DEFINE next == step[<<m + 1, f[m]>>]
  <2>2. next \in V
    BY <2>1
  <2> DEFINE g == [i \in 0..(m + 1) |-> IF i = m + 1 THEN next ELSE f[i]]
  <2>3. g \in [0..(m + 1) -> V]
    BY <2>2
  <2>4. g[0] = start
    BY <2>1 DEF Iterates
  <2>5. ASSUME NEW i \in 1..(m + 1)
        PROVE  g[i] = step[<<i, g[i - 1]>>]
    <3>1. g[i - 1] = f[i - 1]
      OBVIOUS
    <3>2. CASE i = m + 1
      <4>1. g[i] = next /\ i - 1 = m /\ g[i - 1] = f[m]
        BY <3>1, <3>2
      <4> QED
        BY <3>2, <4>1
    <3>3. CASE i \in 1..m
      BY <2>1, <3>1, <3>3 DEF Iterates
    <3> QED
      BY <3>2, <3>3
  <2> QED
    BY <2>3, <2>4, <2>5 DEF Iterates
<1> HIDE DEF Reached
<1>3. n \in Reached
  BY <1>1, <1>2, Induction
<1> QED
  BY <1>3 DEF Reached

\* There is one only.
LEMMA RecursionUnique ==
  ASSUME NEW n \in Nat, NEW start, NEW step, NEW f, NEW g,
         Iterates(f, n, start, step), Iterates(g, n, start, step)
  PROVE  \A i \in 0..n : f[i] = g[i]
<1> DEFINE Same == {m \in Nat : m <= n => f[m] = g[m]}
<1>1. 0 \in Same
  BY DEF Iterates
<1>2. ASSUME NEW m \in Nat, m \in Same
      PROVE  m + 1 \in Same
  <2> SUFFICES ASSUME m + 1 <= n PROVE f[m + 1] = g[m + 1]
    OBVIOUS
  <2>1. m + 1 \in 1..n /\ (m + 1) - 1 = m /\ f[m] = g[m]
    BY <1>2
  <2>2. /\ f[m + 1] = step[<<m + 1, f[(m + 1) - 1]>>]
        /\ g[m + 1] = step[<<m + 1, g[(m + 1) - 1]>>]
    BY <2>1 DEF Iterates
  <2> QED
    BY <2>1, <2>2
<1> HIDE DEF Same
<1>3. \A i \in 0..n : i \in Same
  BY <1>1, <1>2, Induction
<1> QED
  BY <1>3 DEF Same

\* A recursive function is one of them.
Recursive(f, n, start, step) ==
  f = [i \in 0..n |-> IF i = 0 THEN start ELSE step[<<i, f[i - 1]>>]]

LEMMA RecursiveFunction ==
  ASSUME NEW V, NEW start \in V, NEW n \in Nat, NEW step \in [(1..n) \X V -> V]
  PROVE  \E f \in [0..n -> V] : Recursive(f, n, start, step)
<1>1. PICK f \in [0..n -> V] : Iterates(f, n, start, step)
  BY RecursionExists
<1> DEFINE e(i) == IF i = 0 THEN start ELSE step[<<i, f[i - 1]>>]
<1>2. \A i \in 0..n : f[i] = e(i)
  <2>1. \A i \in 0..n : i = 0 \/ i \in 1..n
    OBVIOUS
  <2> QED
    BY <1>1, <2>1 DEF Iterates
<1> HIDE DEF e
<1>3. f = [i \in 0..n |-> e(i)]
  BY <1>2
<1> QED
  BY <1>3 DEF e, Recursive

-----------------------------------------------------------------------------
(* Lists of whatever they hold.                                             *)

LEMMA SeqIsList ==
  ASSUME NEW S, NEW s \in Seq(S)
  PROVE  IsList(s)
<1>1. Len(s) \in Nat /\ s = [i \in 1..Len(s) |-> s[i]] /\ DOMAIN s = 1..Len(s)
  OBVIOUS
<1>2. s \in Seq({s[i] : i \in DOMAIN s})
  BY <1>1
<1> QED
  BY <1>2 DEF IsList

LEMMA ListOf ==
  ASSUME NEW s, IsList(s)
  PROVE  Len(s) \in Nat /\ DOMAIN s = 1..Len(s)
  BY DEF IsList

LEMMA FunctionIsList ==
  ASSUME NEW n \in Nat, NEW s, s = [i \in 1..n |-> s[i]]
  PROVE  IsList(s) /\ Len(s) = n /\ DOMAIN s = 1..n
<1> DEFINE S == {s[i] : i \in 1..n}
<1>1. s \in [1..n -> S]
  OBVIOUS
<1>2. s \in Seq(S)
  BY <1>1
<1>3. DOMAIN s = 1..n /\ Len(s) = n
  BY <1>1
<1> QED
  BY <1>2, <1>3 DEF IsList

LEMMA ListAppend ==
  ASSUME NEW s, IsList(s), NEW x
  PROVE  /\ IsList(Append(s, x))
         /\ Len(Append(s, x)) = Len(s) + 1
         /\ DOMAIN Append(s, x) = 1..(Len(s) + 1)
         /\ \A i \in DOMAIN s : Append(s, x)[i] = s[i]
         /\ Append(s, x)[Len(s) + 1] = x
<1> DEFINE S == {s[i] : i \in DOMAIN s} \cup {x}
           t == Append(s, x)
<1>1. s \in Seq({s[i] : i \in DOMAIN s})
  BY DEF IsList
<1>2. s \in Seq(S)
  BY <1>1
<1>3. x \in S
  OBVIOUS
<1> HIDE DEF S
<1>4. t \in Seq(S)
  BY <1>2, <1>3
<1>5. /\ Len(t) = Len(s) + 1
      /\ DOMAIN t = 1..(Len(s) + 1)
      /\ \A i \in DOMAIN s : t[i] = s[i]
      /\ t[Len(s) + 1] = x
  BY <1>2, <1>3
<1> QED
  BY <1>4, <1>5, SeqIsList

\* A list that has the elements of s and then x is s with x at its end.
LEMMA AppendIs ==
  ASSUME NEW S, NEW s \in Seq(S), NEW x \in S,
         NEW q \in Seq(S), Len(q) = Len(s) + 1,
         \A i \in 1..Len(s) : q[i] = s[i], q[Len(s) + 1] = x
  PROVE  q = Append(s, x)
<1> DEFINE t == Append(s, x)
<1>1. /\ t \in Seq(S) /\ Len(s) \in Nat /\ Len(t) = Len(s) + 1 /\ t[Len(s) + 1] = x
      /\ \A i \in 1..Len(s) : t[i] = s[i]
  OBVIOUS
<1> HIDE DEF t
<1>2. t = [i \in 1..Len(t) |-> t[i]]
  BY <1>1
<1>3. ASSUME NEW i \in 1..(Len(s) + 1)
      PROVE  q[i] = t[i]
  <2>1. i = Len(s) + 1 \/ i \in 1..Len(s)
    BY <1>1
  <2> QED
    BY <1>1, <2>1
<1>4. t = [i \in 1..(Len(s) + 1) |-> t[i]] /\ q = [i \in 1..(Len(s) + 1) |-> q[i]]
  <2>1. q = [i \in 1..Len(q) |-> q[i]]
    OBVIOUS
  <2> QED
    BY <1>1, <1>2, <2>1
<1>5. q = t
  BY <1>3, <1>4
<1> QED
  BY <1>5 DEF t

LEMMA ListTail ==
  ASSUME NEW s, IsList(s), s # << >>
  PROVE  /\ 1 \in DOMAIN s /\ Head(s) = s[1]
         /\ IsList(Tail(s))
         /\ \A i \in DOMAIN Tail(s) : i + 1 \in DOMAIN s /\ Tail(s)[i] = s[i + 1]
<1> DEFINE S == {s[i] : i \in DOMAIN s}
<1>1. s \in Seq(S)
  BY DEF IsList
<1> HIDE DEF S
<1>2. Tail(s) \in Seq(S)
  BY <1>1
<1>3. 1 \in DOMAIN s /\ Head(s) = s[1]
  BY <1>1
<1>4. \A i \in DOMAIN Tail(s) : i + 1 \in DOMAIN s /\ Tail(s)[i] = s[i + 1]
  BY <1>1
<1> QED
  BY <1>2, <1>3, <1>4, SeqIsList

-----------------------------------------------------------------------------
(* Filtered.                                                                *)

Among(f, s, keep) ==
  f = [n \in 0..Len(s) |->
         IF n = 0 THEN << >>
         ELSE IF s[n] \in keep THEN Append(f[n - 1], s[n]) ELSE f[n - 1]]

LEMMA FilterIterates ==
  ASSUME NEW S, NEW s \in Seq(S), NEW keep
  PROVE  \E f \in [0..Len(s) -> Seq(S \cap keep)] : Among(f, s, keep)
<1> DEFINE V == Seq(S \cap keep)
           step == [p \in (1..Len(s)) \X V |-> IF s[p[1]] \in keep THEN Append(p[2], s[p[1]]) ELSE p[2]]
<1>1. << >> \in V
  OBVIOUS
<1>2. step \in [(1..Len(s)) \X V -> V]
  <2> SUFFICES ASSUME NEW i \in 1..Len(s), NEW v \in V, s[i] \in keep
               PROVE  Append(v, s[i]) \in V
    OBVIOUS
  <2>1. s[i] \in S \cap keep
    OBVIOUS
  <2> QED
    BY <2>1
<1>3. Len(s) \in Nat
  OBVIOUS
<1>4. PICK f \in [0..Len(s) -> V] : Iterates(f, Len(s), << >>, step)
  <2> HIDE DEF V, step
  <2> QED
    BY <1>1, <1>2, <1>3, RecursionExists
<1>5. ASSUME NEW n \in 1..Len(s)
      PROVE  f[n] = IF s[n] \in keep THEN Append(f[n - 1], s[n]) ELSE f[n - 1]
  <2>1. f[n] = step[<<n, f[n - 1]>>]
    BY <1>4 DEF Iterates
  <2>2. f[n - 1] \in V
    OBVIOUS
  <2> QED
    BY <2>1, <2>2
<1>6. f[0] = << >>
  BY <1>4 DEF Iterates
<1>7. Among(f, s, keep)
  <2> DEFINE e(n) == IF n = 0 THEN << >>
                     ELSE IF s[n] \in keep THEN Append(f[n - 1], s[n]) ELSE f[n - 1]
  <2>1. \A n \in 0..Len(s) : f[n] = e(n)
    <3> SUFFICES ASSUME NEW n \in 0..Len(s) PROVE f[n] = e(n)
      OBVIOUS
    <3>1. CASE n = 0
      BY <1>6, <3>1
    <3>2. CASE n \in 1..Len(s)
      <4>1. n # 0
        BY <3>2
      <4> QED
        BY <1>5, <3>2, <4>1
    <3> QED
      BY <3>1, <3>2
  <2> HIDE DEF e, V
  <2>2. f = [n \in 0..Len(s) |-> e(n)]
    BY <2>1
  <2> QED
    BY <2>2 DEF Among, e
<1> QED
  BY <1>7

\* The values of such a function, one by one.
LEMMA AmongValues ==
  ASSUME NEW s, NEW keep, NEW f, Among(f, s, keep), Len(s) \in Nat
  PROVE  /\ f[0] = << >>
         /\ \A n \in 1..Len(s) : f[n] = IF s[n] \in keep THEN Append(f[n - 1], s[n]) ELSE f[n - 1]
<1> DEFINE e(n) == IF n = 0 THEN << >>
                   ELSE IF s[n] \in keep THEN Append(f[n - 1], s[n]) ELSE f[n - 1]
<1>1. f = [n \in 0..Len(s) |-> e(n)]
  BY DEF Among
<1> HIDE DEF e
<1>2. \A n \in 0..Len(s) : f[n] = e(n)
  BY <1>1
<1>3. f[0] = << >>
  BY <1>2 DEF e
<1>4. ASSUME NEW n \in 1..Len(s)
      PROVE  f[n] = IF s[n] \in keep THEN Append(f[n - 1], s[n]) ELSE f[n - 1]
  <2>1. n \in 0..Len(s) /\ n # 0
    OBVIOUS
  <2> QED
    BY <1>2, <2>1 DEF e
<1> QED
  BY <1>3, <1>4

LEMMA FilterUnique ==
  ASSUME NEW S, NEW s \in Seq(S), NEW keep, NEW f, NEW g, Among(f, s, keep), Among(g, s, keep)
  PROVE  f = g
<1> DEFINE Same == {n \in Nat : n <= Len(s) => f[n] = g[n]}
<1>1. /\ f[0] = << >> /\ g[0] = << >>
      /\ \A n \in 1..Len(s) :
           /\ f[n] = IF s[n] \in keep THEN Append(f[n - 1], s[n]) ELSE f[n - 1]
           /\ g[n] = IF s[n] \in keep THEN Append(g[n - 1], s[n]) ELSE g[n - 1]
  <2>1. Len(s) \in Nat
    OBVIOUS
  <2> QED
    BY <2>1, AmongValues
<1>2. 0 \in Same
  BY <1>1
<1>3. ASSUME NEW n \in Nat, n \in Same
      PROVE  n + 1 \in Same
  <2> SUFFICES ASSUME n + 1 <= Len(s) PROVE f[n + 1] = g[n + 1]
    OBVIOUS
  <2>1. n + 1 \in 1..Len(s) /\ (n + 1) - 1 = n /\ f[n] = g[n]
    BY <1>3
  <2> QED
    BY <1>1, <2>1
<1> HIDE DEF Same
<1>4. \A n \in 0..Len(s) : n \in Same
  BY <1>2, <1>3, Induction
<1>5. \A n \in 0..Len(s) : f[n] = g[n]
  BY <1>4 DEF Same
<1> QED
  BY <1>5 DEF Among

\* What the recursion of Filtered comes to.
LEMMA FilteredIs ==
  ASSUME NEW S, NEW s \in Seq(S), NEW keep, NEW f, Among(f, s, keep)
  PROVE  Filtered(s, keep) = f[Len(s)]
<1> DEFINE g == CHOOSE h : Among(h, s, keep)
<1>1. Among(g, s, keep)
  BY Zenon
<1>2. g = f
  BY <1>1, FilterUnique
<1>3. Filtered(s, keep) = g[Len(s)]
  BY Zenon DEF Filtered, Among
<1> QED
  BY <1>2, <1>3

\* The elements of a filtered list are elements of the list that belong.
LEMMA FilteredType ==
  ASSUME NEW S, NEW s \in Seq(S), NEW keep
  PROVE  Filtered(s, keep) \in Seq(S \cap keep)
<1>1. PICK f \in [0..Len(s) -> Seq(S \cap keep)] : Among(f, s, keep)
  BY FilterIterates
<1>2. Filtered(s, keep) = f[Len(s)]
  BY <1>1, FilteredIs
<1> QED
  BY <1>1, <1>2

LEMMA FilteredEmpty ==
  ASSUME NEW keep
  PROVE  Filtered(<< >>, keep) = << >>
<1>1. << >> \in Seq({})
  OBVIOUS
<1>2. PICK f : Among(f, << >>, keep)
  BY <1>1, FilterIterates
<1>3. Len(<< >>) = 0
  OBVIOUS
<1>4. Filtered(<< >>, keep) = f[0]
  BY <1>1, <1>2, <1>3, FilteredIs
<1> QED
  BY <1>2, <1>3, <1>4, AmongValues

\* An element more at the end of the list is the last one that is kept, or is not kept.
LEMMA FilteredAppend ==
  ASSUME NEW S, NEW s \in Seq(S), NEW x \in S, NEW keep
  PROVE  Filtered(Append(s, x), keep)
           = IF x \in keep THEN Append(Filtered(s, keep), x) ELSE Filtered(s, keep)
<1> DEFINE t == Append(s, x)
           k == Len(s)
<1>1. t \in Seq(S) /\ k \in Nat /\ Len(t) = k + 1 /\ t[k + 1] = x /\ \A i \in 1..k : t[i] = s[i]
  OBVIOUS
<1>2. PICK f : Among(f, t, keep)
  BY <1>1, FilterIterates
<1> DEFINE g == [n \in 0..k |-> f[n]]
<1>3. Among(g, s, keep)
  <2> HIDE DEF t, k
  <2> DEFINE e(n) == IF n = 0 THEN << >>
                     ELSE IF s[n] \in keep THEN Append(g[n - 1], s[n]) ELSE g[n - 1]
  <2>1. ASSUME NEW n \in 0..k
        PROVE  f[n] = e(n)
    <3>1. /\ f[0] = << >>
          /\ n \in 1..(k + 1) =>
               f[n] = IF t[n] \in keep THEN Append(f[n - 1], t[n]) ELSE f[n - 1]
      BY <1>1, <1>2, AmongValues
    <3>2. CASE n = 0
      BY <3>1, <3>2
    <3>3. CASE n \in 1..k
      <4>1. g[n - 1] = f[n - 1] /\ t[n] = s[n] /\ n # 0 /\ n \in 1..(k + 1)
        BY <1>1, <3>3
      <4> QED
        BY <3>1, <4>1
    <3> QED
      BY <1>1, <3>2, <3>3
  <2> QED
    BY <2>1 DEF Among, k
<1> HIDE DEF t, k
<1>4. Filtered(s, keep) = f[k]
  <2>1. Filtered(s, keep) = g[Len(s)]
    BY <1>3, FilteredIs
  <2> QED
    BY <1>1, <2>1 DEF k
<1>5. Filtered(t, keep) = f[k + 1]
  BY <1>1, <1>2, FilteredIs
<1>6. f[k + 1] = IF t[k + 1] \in keep THEN Append(f[(k + 1) - 1], t[k + 1]) ELSE f[(k + 1) - 1]
  <2>1. k + 1 \in 1..Len(t)
    BY <1>1
  <2> QED
    BY <1>1, <1>2, <2>1, AmongValues
<1>7. (k + 1) - 1 = k
  BY <1>1
<1> QED
  BY <1>1, <1>4, <1>5, <1>6, <1>7 DEF t

\* Each element of a filtered list is an element of the list, and belongs.
LEMMA FilteredElements ==
  ASSUME NEW s, IsList(s), NEW keep
  PROVE  /\ IsList(Filtered(s, keep))
         /\ \A i \in DOMAIN Filtered(s, keep) :
              /\ Filtered(s, keep)[i] \in keep
              /\ \E j \in DOMAIN s : Filtered(s, keep)[i] = s[j]
<1> DEFINE S == {s[i] : i \in DOMAIN s}
           t == Filtered(s, keep)
<1>1. s \in Seq(S)
  BY DEF IsList
<1> HIDE DEF S
<1>2. t \in Seq(S \cap keep)
  BY <1>1, FilteredType
<1> HIDE DEF t
<1>3. \A i \in DOMAIN t : t[i] \in S \cap keep
  BY <1>2
<1>4. IsList(t)
  BY <1>2, SeqIsList
<1> QED
  BY <1>3, <1>4 DEF S, t
\* A filtered list keeps the order.
KeepsOrder(t, s, n) ==
  /\ \A i \in DOMAIN t : \E a \in 1..n : t[i] = s[a]
  /\ \A i, j \in DOMAIN t : i < j => \E a, b \in 1..n : a < b /\ t[i] = s[a] /\ t[j] = s[b]

LEMMA FilteredOrder ==
  ASSUME NEW S, NEW s \in Seq(S), NEW keep
  PROVE  KeepsOrder(Filtered(s, keep), s, Len(s))
<1>1. Len(s) \in Nat /\ DOMAIN s = 1..Len(s)
  OBVIOUS
<1> DEFINE V == Seq(S \cap keep)
<1>2. PICK f \in [0..Len(s) -> V] : Among(f, s, keep)
  BY FilterIterates
<1>3. Filtered(s, keep) = f[Len(s)]
  BY <1>2, FilteredIs
<1>4. \A k \in 1..Len(s) : f[k] = IF s[k] \in keep THEN Append(f[k - 1], s[k]) ELSE f[k - 1]
  <2>1. Len(s) \in Nat /\ Among(f, s, keep)
    BY <1>1, <1>2
  <2> HIDE DEF V
  <2> QED
    BY <2>1, AmongValues
<1> DEFINE Fine == {n \in Nat : n <= Len(s) => KeepsOrder(f[n], s, n)}
<1>5. 0 \in Fine
  <2>1. f[0] = << >>
    BY <1>1, <1>2, AmongValues
  <2> QED
    BY <2>1 DEF KeepsOrder
<1>6. ASSUME NEW n \in Nat, n \in Fine PROVE n + 1 \in Fine
  <2> SUFFICES ASSUME n + 1 <= Len(s) PROVE KeepsOrder(f[n + 1], s, n + 1)
    OBVIOUS
  <2>1. PICK m \in 1..Len(s) : m = n + 1
    BY <1>1
  <2>2. m - 1 = n /\ n \in 0..Len(s) /\ \A a \in 1..n : a \in 1..m /\ a < m
    BY <1>1, <2>1
  <2>3. PICK t : t = f[n]
    OBVIOUS
  <2>4. KeepsOrder(t, s, n) /\ t \in Seq(S \cap keep)
    BY <1>2, <1>6, <2>2, <2>3
  <2>5. f[m] = IF s[m] \in keep THEN Append(t, s[m]) ELSE t
    BY <1>4, <2>2, <2>3
  <2>6. KeepsOrder(t, s, m)
    BY <2>2, <2>4 DEF KeepsOrder
  <2>7. CASE s[m] \in keep
    <3>1. PICK u : u = Append(t, s[m])
      OBVIOUS
    <3>2. /\ Len(t) \in Nat /\ DOMAIN t = 1..Len(t) /\ DOMAIN u = 1..(Len(t) + 1)
          /\ u[Len(t) + 1] = s[m] /\ \A i \in 1..Len(t) : u[i] = t[i]
      <4>1. s[m] \in S \cap keep
        BY <1>1, <2>7
      <4> QED
        BY <2>4, <3>1, <4>1
    <3>3. \A i \in DOMAIN u : i \in DOMAIN t \/ i = Len(t) + 1
      BY <3>2
    <3>4. \A i \in DOMAIN u : \E a \in 1..m : u[i] = s[a]
      <4>1. m \in 1..m
        BY <2>1
      <4> QED
        BY <2>6, <3>2, <3>3, <4>1 DEF KeepsOrder
    <3>5. ASSUME NEW i \in DOMAIN u, NEW j \in DOMAIN u, i < j
          PROVE  \E a, b \in 1..m : a < b /\ u[i] = s[a] /\ u[j] = s[b]
      <4>1. i \in DOMAIN t
        BY <3>2, <3>5
      <4>2. CASE j \in DOMAIN t
        <5>1. \E a, b \in 1..m : a < b /\ t[i] = s[a] /\ t[j] = s[b]
          BY <2>6, <3>5, <4>1, <4>2 DEF KeepsOrder
        <5> QED
          BY <3>2, <4>1, <4>2, <5>1
      <4>3. CASE j = Len(t) + 1
        <5>1. PICK a \in 1..n : t[i] = s[a]
          BY <2>4, <4>1 DEF KeepsOrder
        <5>2. a < m /\ a \in 1..m /\ m \in 1..m
          BY <2>1, <2>2
        <5> QED
          BY <3>2, <4>1, <4>3, <5>1, <5>2
      <4> QED
        BY <3>3, <4>2, <4>3
    <3>6. KeepsOrder(u, s, m)
      BY <3>4, <3>5 DEF KeepsOrder
    <3> QED
      BY <2>1, <2>5, <2>7, <3>1, <3>6
  <2>8. CASE s[m] \notin keep
    BY <2>1, <2>5, <2>6, <2>8
  <2> QED
    BY <2>7, <2>8
<1> HIDE DEF Fine
<1>7. Len(s) \in Fine
  BY <1>1, <1>5, <1>6, Induction
<1> QED
  BY <1>1, <1>3, <1>7 DEF Fine

\* A set has as many members as a function that tells them apart has arguments.
LEMMA DistinctImage ==
  ASSUME NEW A, IsFiniteSet(A), NEW f, \A x, y \in A : x # y => f[x] # f[y]
  PROVE  IsFiniteSet({f[x] : x \in A}) /\ Cardinality({f[x] : x \in A}) = Cardinality(A)
<1> DEFINE T == {f[x] : x \in A}
           g == [x \in A |-> f[x]]
<1>1. g \in Surjection(A, T)
  BY DEF Surjection
<1>2. g \in Injection(A, T)
  <2>1. \A x, y \in A : g[x] = g[y] => x = y
    OBVIOUS
  <2> QED
    BY <2>1 DEF Injection, IsInjective
<1> HIDE DEF g, T
<1>3. IsFiniteSet(T) /\ Cardinality(T) = Cardinality(A)
  BY <1>1, <1>2, FS_Surjection
<1> QED
  BY <1>3 DEF T

\* A filtered list has every element that belongs, and each once if the list has.
LEMMA FilteredMembers ==
  ASSUME NEW S, NEW s \in Seq(S), NEW keep
  PROVE  /\ {Filtered(s, keep)[i] : i \in DOMAIN Filtered(s, keep)}
              = {s[i] : i \in DOMAIN s} \cap keep
         /\ (\A i, j \in DOMAIN s : i # j => s[i] # s[j])
              => \A i, j \in DOMAIN Filtered(s, keep) :
                   i # j => Filtered(s, keep)[i] # Filtered(s, keep)[j]
<1> DEFINE Once(q) == \A i, j \in DOMAIN q : i # j => q[i] # q[j]
           Elements(q) == {q[i] : i \in DOMAIN q}
           Until(n) == {s[i] : i \in 1..n}
           V == Seq(S \cap keep)
<1>1. PICK f \in [0..Len(s) -> V] : Among(f, s, keep)
  BY FilterIterates
<1>2. Filtered(s, keep) = f[Len(s)] /\ Len(s) \in Nat /\ DOMAIN s = 1..Len(s)
  BY <1>1, FilteredIs
<1> DEFINE Fine == {n \in Nat : n <= Len(s) =>
                      Elements(f[n]) = Until(n) \cap keep /\ (Once(s) => Once(f[n]))}
<1>3. 0 \in Fine
  <2>1. f[0] = << >>
    BY <1>1, <1>2, AmongValues
  <2>2. Elements(f[0]) = {} /\ Until(0) = {} /\ Once(f[0])
    BY <2>1
  <2> QED
    BY <2>2
<1>4. ASSUME NEW n \in Nat, n \in Fine
      PROVE  n + 1 \in Fine
  <2> SUFFICES ASSUME n + 1 <= Len(s)
               PROVE  Elements(f[n + 1]) = Until(n + 1) \cap keep /\ (Once(s) => Once(f[n + 1]))
    OBVIOUS
  <2> DEFINE x == s[n + 1]
             old == f[n]
  <2>1. /\ n + 1 \in 1..Len(s) /\ n \in 0..Len(s) /\ (n + 1) - 1 = n
        /\ Elements(old) = Until(n) \cap keep /\ (Once(s) => Once(old))
    <3>1. n + 1 \in 1..Len(s) /\ n \in 0..Len(s) /\ (n + 1) - 1 = n /\ n <= Len(s)
      BY <1>2
    <3> HIDE DEF Elements, Until, Once
    <3> QED
      BY <1>4, <3>1
  <2>2. f[n + 1] = IF x \in keep THEN Append(old, x) ELSE old
    <3>1. \A m \in 1..Len(s) : f[m] = IF s[m] \in keep THEN Append(f[m - 1], s[m]) ELSE f[m - 1]
      BY <1>1, <1>2, AmongValues
    <3> HIDE DEF Elements, Until, Once
    <3> QED
      BY <2>1, <3>1
  <2>3. Until(n + 1) = Until(n) \cup {x}
    <3>1. 1..(n + 1) = 1..n \cup {n + 1}
      OBVIOUS
    <3> QED
      BY <3>1
  <2>4. old \in V
    BY <2>1
  <2>5. Once(s) => x \notin Until(n)
    BY <1>2, <2>1
  <2>6. CASE x \notin keep
    <3>1. f[n + 1] = old
      BY <2>2, <2>6
    <3> HIDE DEF x, old, Until, Elements, Once
    <3> QED
      BY <2>1, <2>3, <2>6, <3>1
  <2>7. CASE x \in keep
    <3>1. IsList(old)
      BY <2>4, SeqIsList
    <3>2. f[n + 1] = Append(old, x)
      BY <2>2, <2>7
    <3> HIDE DEF x, old
    <3> DEFINE t == Append(old, x)
    <3>3. /\ DOMAIN t = 1..(Len(old) + 1) /\ DOMAIN old = 1..Len(old) /\ Len(old) \in Nat
          /\ \A i \in DOMAIN old : t[i] = old[i]
          /\ t[Len(old) + 1] = x
      BY <3>1, ListAppend, ListOf
    <3> HIDE DEF t
    <3>4. DOMAIN t = DOMAIN old \cup {Len(old) + 1}
      BY <3>3
    <3>5. Elements(t) = Elements(old) \cup {x}
      <4>1. ASSUME NEW i \in DOMAIN t PROVE t[i] \in Elements(old) \cup {x}
        BY <3>3, <3>4
      <4>2. ASSUME NEW i \in DOMAIN old PROVE old[i] \in Elements(t)
        BY <3>3, <3>4
      <4>3. x \in Elements(t)
        BY <3>3, <3>4
      <4> QED
        BY <4>1, <4>2, <4>3
    <3>6. Elements(t) = Until(n + 1) \cap keep
      <4> HIDE DEF Elements, Until
      <4> QED
        BY <2>1, <2>3, <2>7, <3>5
    <3>7. ASSUME Once(s) PROVE Once(t)
      <4>1. x \notin Elements(old)
        <5> HIDE DEF Elements, Until, Once
        <5> QED
          BY <2>1, <2>5, <3>7
      <4>2. \A i \in DOMAIN old : old[i] # x
        BY <4>1
      <4>3. Once(old)
        BY <2>1, <3>7
      <4> QED
        BY <3>3, <3>4, <4>2, <4>3
    <3> HIDE DEF Elements, Until, Once
    <3> QED
      BY <3>2, <3>6, <3>7 DEF t
  <2> QED
    BY <2>6, <2>7
<1> HIDE DEF Fine, Once, Elements
<1>5. Len(s) \in Fine
  BY <1>2, <1>3, <1>4, Induction
<1>6. Elements(f[Len(s)]) = Until(Len(s)) \cap keep /\ (Once(s) => Once(f[Len(s)]))
  BY <1>2, <1>5 DEF Fine
<1> QED
  BY <1>2, <1>6 DEF Once, Elements

-----------------------------------------------------------------------------
(* Summed.                                                                  *)

Sums(f, s) == f = [n \in 0..Len(s) |-> IF n = 0 THEN 0 ELSE f[n - 1] + s[n]]

LEMMA SumIterates ==
  ASSUME NEW s \in Seq(Nat)
  PROVE  \E f \in [0..Len(s) -> Nat] : Sums(f, s)
<1> DEFINE n == Len(s)
           step == [p \in (1..n) \X Nat |-> p[2] + s[p[1]]]
<1>1. n \in Nat /\ 0 \in Nat /\ \A i \in 1..n : s[i] \in Nat
  OBVIOUS
<1>2. step \in [(1..n) \X Nat -> Nat]
  BY <1>1
<1>3. PICK f \in [0..n -> Nat] : Iterates(f, n, 0, step)
  <2> HIDE DEF n, step
  <2> QED
    BY <1>1, <1>2, RecursionExists
<1>4. f[0] = 0 /\ \A i \in 1..n : f[i] = f[i - 1] + s[i]
  <2>1. f[0] = 0
    BY <1>3 DEF Iterates
  <2>2. ASSUME NEW i \in 1..n PROVE f[i] = f[i - 1] + s[i]
    <3>1. i - 1 \in 0..n
      BY <1>1
    <3>2. f[i] = step[<<i, f[i - 1]>>] /\ f[i - 1] \in Nat
      <4> HIDE DEF n, step
      <4> QED
        BY <1>3, <3>1 DEF Iterates
    <3> QED
      BY <3>2
  <2> QED
    BY <2>1, <2>2
<1> DEFINE e(i) == IF i = 0 THEN 0 ELSE f[i - 1] + s[i]
<1>5. \A i \in 0..n : f[i] = e(i)
  BY <1>1, <1>4
<1> HIDE DEF e, n
<1>6. f = [i \in 0..n |-> e(i)]
  BY <1>5
<1> QED
  BY <1>6 DEF Sums, e, n

\* The values of such a function, one by one; there is one only.
LEMMA SumValues ==
  ASSUME NEW s \in Seq(Nat), NEW f, Sums(f, s)
  PROVE  /\ f[0] = 0 /\ \A i \in 1..Len(s) : f[i] = f[i - 1] + s[i]
         /\ \A i \in 0..Len(s) : f[i] \in Nat
         /\ Summed(s) = f[Len(s)]
<1> DEFINE Values(g) == g[0] = 0 /\ \A i \in 1..Len(s) : g[i] = g[i - 1] + s[i]
<1>1. Len(s) \in Nat /\ \A i \in 1..Len(s) : s[i] \in Nat
  OBVIOUS
<1>2. ASSUME NEW g, Sums(g, s)
      PROVE  Values(g)
  <2> DEFINE e(i) == IF i = 0 THEN 0 ELSE g[i - 1] + s[i]
  <2>1. g = [i \in 0..Len(s) |-> e(i)]
    BY <1>2 DEF Sums
  <2> HIDE DEF e
  <2>2. \A i \in 0..Len(s) : g[i] = e(i)
    BY <2>1
  <2> QED
    BY <1>1, <2>2 DEF e
<1>3. PICK g \in [0..Len(s) -> Nat] : Sums(g, s)
  BY SumIterates
<1>4. Values(g)
  BY <1>2, <1>3
<1>5. ASSUME NEW h, Sums(h, s)
      PROVE  \A i \in 0..Len(s) : h[i] = g[i]
  <2>1. Values(h)
    BY <1>2, <1>5
  <2> DEFINE Same == {i \in Nat : i <= Len(s) => h[i] = g[i]}
  <2>2. 0 \in Same
    BY <1>4, <2>1
  <2>3. ASSUME NEW i \in Nat, i \in Same PROVE i + 1 \in Same
    <3> SUFFICES ASSUME i + 1 <= Len(s) PROVE h[i + 1] = g[i + 1]
      OBVIOUS
    <3>1. i + 1 \in 1..Len(s) /\ (i + 1) - 1 = i /\ h[i] = g[i]
      BY <1>1, <2>3
    <3> QED
      BY <1>4, <2>1, <3>1
  <2> HIDE DEF Same
  <2>4. Nat \subseteq Same
    BY <2>2, <2>3, Induction
  <2>5. \A i \in 0..Len(s) : i \in Nat /\ i <= Len(s)
    BY <1>1
  <2> QED
    BY <2>4, <2>5 DEF Same
<1> DEFINE chosen == CHOOSE h : Sums(h, s)
<1>6. Sums(chosen, s)
  BY <1>3, Zenon
<1>7. Summed(s) = chosen[Len(s)]
  BY Zenon DEF Summed, Sums
<1> HIDE DEF chosen, Values
<1>8. chosen[Len(s)] = g[Len(s)] /\ f[Len(s)] = g[Len(s)] /\ \A i \in 0..Len(s) : f[i] = g[i]
  BY <1>1, <1>5, <1>6
<1> QED
  BY <1>1, <1>2, <1>3, <1>7, <1>8 DEF Values

\* What the sum of no numbers is, and of one number more.
LEMMA SummedAppend ==
  ASSUME NEW s \in Seq(Nat), NEW x \in Nat
  PROVE  Summed(<< >>) = 0 /\ Summed(s) \in Nat /\ Summed(Append(s, x)) = Summed(s) + x
<1>1. Summed(<< >>) = 0
  <2>1. << >> \in Seq(Nat) /\ Len(<< >>) = 0
    OBVIOUS
  <2>2. PICK f : Sums(f, << >>)
    BY <2>1, SumIterates
  <2>3. f[0] = 0 /\ Summed(<< >>) = f[Len(<< >>)]
    BY <2>1, <2>2, SumValues
  <2> QED
    BY <2>1, <2>3
<1> DEFINE t == Append(s, x)
           k == Len(s)
<1>2. t \in Seq(Nat) /\ k \in Nat /\ Len(t) = k + 1 /\ t[k + 1] = x /\ \A i \in 1..k : t[i] = s[i]
  OBVIOUS
<1>3. PICK f : Sums(f, t)
  BY <1>2, SumIterates
<1>4. /\ f[0] = 0 /\ \A i \in 1..(k + 1) : f[i] = f[i - 1] + t[i]
      /\ \A i \in 0..(k + 1) : f[i] \in Nat
      /\ Summed(t) = f[k + 1]
  <2> HIDE DEF t
  <2> QED
    BY <1>2, <1>3, SumValues
<1> DEFINE g == [i \in 0..k |-> f[i]]
<1>5. Sums(g, s)
  <2> DEFINE e(i) == IF i = 0 THEN 0 ELSE g[i - 1] + s[i]
  <2> HIDE DEF t, k
  <2>1. ASSUME NEW i \in 0..k PROVE f[i] = e(i)
    <3>1. CASE i = 0
      BY <1>4, <3>1
    <3>2. CASE i \in 1..k
      <4>1. i \in 1..(k + 1) /\ i - 1 \in 0..k /\ i # 0 /\ t[i] = s[i]
        BY <1>2, <3>2
      <4> QED
        BY <1>4, <4>1
    <3> QED
      BY <1>2, <3>1, <3>2
  <2> QED
    BY <2>1 DEF Sums, k
<1>6. Summed(s) = g[k]
  BY <1>5, SumValues
<1>7. g[k] = f[k] /\ k + 1 \in 1..(k + 1) /\ k \in 0..(k + 1) /\ (k + 1) - 1 = k
  BY <1>2
<1> HIDE DEF t, k, g
<1>8. f[k + 1] = f[(k + 1) - 1] + t[k + 1]
  BY <1>4, <1>7
<1> QED
  BY <1>1, <1>2, <1>4, <1>6, <1>7, <1>8 DEF t

-----------------------------------------------------------------------------
(* Joined.                                                                  *)

Joins(f, s) == f = [n \in 0..Len(s) |-> IF n = 0 THEN << >> ELSE f[n - 1] \o s[n]]

LEMMA JoinIterates ==
  ASSUME NEW S, NEW s \in Seq(Seq(S))
  PROVE  \E f \in [0..Len(s) -> Seq(S)] : Joins(f, s)
<1> DEFINE n == Len(s)
           step == [p \in (1..n) \X Seq(S) |-> p[2] \o s[p[1]]]
<1>1. n \in Nat /\ << >> \in Seq(S) /\ \A i \in 1..n : s[i] \in Seq(S)
  OBVIOUS
<1>2. step \in [(1..n) \X Seq(S) -> Seq(S)]
  BY <1>1
<1>3. PICK f \in [0..n -> Seq(S)] : Iterates(f, n, << >>, step)
  <2> HIDE DEF n, step
  <2> QED
    BY <1>1, <1>2, RecursionExists
<1>4. f[0] = << >> /\ \A i \in 1..n : f[i] = f[i - 1] \o s[i]
  <2>1. f[0] = << >>
    BY <1>3 DEF Iterates
  <2>2. ASSUME NEW i \in 1..n PROVE f[i] = f[i - 1] \o s[i]
    <3>1. i - 1 \in 0..n
      BY <1>1
    <3>2. f[i] = step[<<i, f[i - 1]>>] /\ f[i - 1] \in Seq(S)
      <4> HIDE DEF n, step
      <4> QED
        BY <1>3, <3>1 DEF Iterates
    <3> QED
      BY <3>2
  <2> QED
    BY <2>1, <2>2
<1> DEFINE e(i) == IF i = 0 THEN << >> ELSE f[i - 1] \o s[i]
<1>5. \A i \in 0..n : f[i] = e(i)
  <2>1. f[0] = e(0)
    BY <1>4
  <2>2. \A i \in 1..n : f[i] = e(i)
    <3> HIDE DEF n
    <3>1. \A i \in 1..n : i # 0
      BY <1>1
    <3> QED
      BY <1>4, <3>1, Zenon
  <2>3. \A i \in 0..n : i = 0 \/ i \in 1..n
    BY <1>1
  <2> QED
    BY <2>1, <2>2, <2>3
<1> HIDE DEF e, n
<1>6. f = [i \in 0..n |-> e(i)]
  BY <1>5
<1> QED
  BY <1>6 DEF Joins, e, n

\* The values of such a function, one by one; there is one only.
LEMMA JoinValues ==
  ASSUME NEW S, NEW s \in Seq(Seq(S)), NEW f, Joins(f, s)
  PROVE  /\ f[0] = << >> /\ \A i \in 1..Len(s) : f[i] = f[i - 1] \o s[i]
         /\ \A i \in 0..Len(s) : f[i] \in Seq(S)
         /\ Joined(s) = f[Len(s)]
<1> DEFINE Values(g) == g[0] = << >> /\ \A i \in 1..Len(s) : g[i] = g[i - 1] \o s[i]
<1>1. Len(s) \in Nat /\ \A i \in 1..Len(s) : s[i] \in Seq(S)
  OBVIOUS
<1>2. ASSUME NEW g, Joins(g, s)
      PROVE  Values(g)
  <2> DEFINE e(i) == IF i = 0 THEN << >> ELSE g[i - 1] \o s[i]
  <2>1. g = [i \in 0..Len(s) |-> e(i)]
    BY <1>2 DEF Joins
  <2> HIDE DEF e
  <2>2. \A i \in 0..Len(s) : g[i] = e(i)
    BY <2>1
  <2>3. 0 \in 0..Len(s) /\ \A i \in 1..Len(s) : i \in 0..Len(s) /\ i # 0
    BY <1>1
  <2>4. g[0] = << >>
    BY <2>2, <2>3 DEF e
  <2>5. \A i \in 1..Len(s) : g[i] = g[i - 1] \o s[i]
    BY <2>2, <2>3 DEF e
  <2> QED
    BY <2>4, <2>5
<1>3. PICK g \in [0..Len(s) -> Seq(S)] : Joins(g, s)
  BY JoinIterates
<1>4. Values(g)
  BY <1>2, <1>3
<1>5. ASSUME NEW h, Joins(h, s)
      PROVE  \A i \in 0..Len(s) : h[i] = g[i]
  <2>1. Values(h)
    BY <1>2, <1>5
  <2> DEFINE Same == {i \in Nat : i <= Len(s) => h[i] = g[i]}
  <2>2. 0 \in Same
    BY <1>4, <2>1
  <2>3. ASSUME NEW i \in Nat, i \in Same PROVE i + 1 \in Same
    <3> SUFFICES ASSUME i + 1 <= Len(s) PROVE h[i + 1] = g[i + 1]
      OBVIOUS
    <3>1. i + 1 \in 1..Len(s) /\ (i + 1) - 1 = i /\ h[i] = g[i]
      BY <1>1, <2>3
    <3> QED
      BY <1>4, <2>1, <3>1
  <2> HIDE DEF Same
  <2>4. Nat \subseteq Same
    BY <2>2, <2>3, Induction
  <2>5. \A i \in 0..Len(s) : i \in Nat /\ i <= Len(s)
    BY <1>1
  <2> QED
    BY <2>4, <2>5 DEF Same
<1> DEFINE chosen == CHOOSE h : Joins(h, s)
<1>6. Joins(chosen, s)
  BY <1>3, Zenon
<1>7. Joined(s) = chosen[Len(s)]
  BY Zenon DEF Joined, Joins
<1> HIDE DEF chosen, Values
<1>8. chosen[Len(s)] = g[Len(s)] /\ f[Len(s)] = g[Len(s)] /\ \A i \in 0..Len(s) : f[i] = g[i]
  BY <1>1, <1>5, <1>6
<1> QED
  BY <1>1, <1>2, <1>3, <1>7, <1>8 DEF Values

\* What no lists make, and one list more.
LEMMA JoinedAppend ==
  ASSUME NEW S, NEW s \in Seq(Seq(S)), NEW x \in Seq(S)
  PROVE  Joined(<< >>) = << >> /\ Joined(s) \in Seq(S) /\ Joined(Append(s, x)) = Joined(s) \o x
<1>1. Joined(<< >>) = << >>
  <2>1. << >> \in Seq(Seq(S)) /\ Len(<< >>) = 0
    OBVIOUS
  <2>2. PICK f : Joins(f, << >>)
    BY <2>1, JoinIterates
  <2>3. f[0] = << >> /\ Joined(<< >>) = f[Len(<< >>)]
    BY <2>1, <2>2, JoinValues
  <2> QED
    BY <2>1, <2>3
<1> DEFINE t == Append(s, x)
           k == Len(s)
<1>2. t \in Seq(Seq(S)) /\ k \in Nat /\ Len(t) = k + 1 /\ t[k + 1] = x /\ \A i \in 1..k : t[i] = s[i]
  OBVIOUS
<1>3. PICK f : Joins(f, t)
  BY <1>2, JoinIterates
<1>4. /\ f[0] = << >> /\ \A i \in 1..(k + 1) : f[i] = f[i - 1] \o t[i]
      /\ \A i \in 0..(k + 1) : f[i] \in Seq(S)
      /\ Joined(t) = f[k + 1]
  <2> HIDE DEF t, k
  <2>1. /\ f[0] = << >> /\ \A i \in 1..Len(t) : f[i] = f[i - 1] \o t[i]
        /\ \A i \in 0..Len(t) : f[i] \in Seq(S)
        /\ Joined(t) = f[Len(t)]
    BY <1>2, <1>3, JoinValues
  <2> QED
    BY <1>2, <2>1
<1> DEFINE g == [i \in 0..k |-> f[i]]
<1>5. Joins(g, s)
  <2> DEFINE e(i) == IF i = 0 THEN << >> ELSE g[i - 1] \o s[i]
  <2> HIDE DEF t, k
  <2>1. ASSUME NEW i \in 0..k PROVE f[i] = e(i)
    <3>1. CASE i = 0
      BY <1>4, <3>1
    <3>2. CASE i \in 1..k
      <4>1. i \in 1..(k + 1) /\ i - 1 \in 0..k /\ i # 0 /\ t[i] = s[i]
        BY <1>2, <3>2
      <4> QED
        BY <1>4, <4>1
    <3> QED
      BY <1>2, <3>1, <3>2
  <2> QED
    BY <2>1 DEF Joins, k
<1>6. Joined(s) = g[k]
  BY <1>5, JoinValues
<1>7. g[k] = f[k] /\ k + 1 \in 1..(k + 1) /\ k \in 0..(k + 1) /\ (k + 1) - 1 = k
  BY <1>2
<1> HIDE DEF t, k, g
<1>8. f[k + 1] = f[(k + 1) - 1] \o t[k + 1]
  BY <1>4, <1>7
<1> QED
  BY <1>1, <1>2, <1>4, <1>6, <1>7, <1>8 DEF t

-----------------------------------------------------------------------------
(* Ascending lists of numbers.                                              *)

\* s lists the numbers of S upwards.
Ascending(s, S) ==
  /\ s \in Seq(Nat)
  /\ \A i, j \in DOMAIN s : i < j => s[i] < s[j]
  /\ {s[i] : i \in DOMAIN s} = S

LEMMA AscendingFacts ==
  ASSUME NEW s, NEW S, Ascending(s, S)
  PROVE  /\ S \subseteq Nat /\ Len(s) \in Nat /\ DOMAIN s = 1..Len(s)
         /\ \A i \in DOMAIN s : s[i] \in S
         /\ \A i, j \in DOMAIN s : i < j <=> s[i] < s[j]
         /\ s = << >> <=> S = {}
<1>1. s \in Seq(Nat) /\ Len(s) \in Nat /\ DOMAIN s = 1..Len(s)
  BY DEF Ascending
<1>2. \A i \in DOMAIN s : s[i] \in S
  BY DEF Ascending
<1>3. \A x \in S : \E i \in DOMAIN s : s[i] = x
  BY DEF Ascending
<1>4. S \subseteq Nat
  BY <1>1, <1>3
<1>5. ASSUME NEW i \in DOMAIN s, NEW j \in DOMAIN s PROVE i < j <=> s[i] < s[j]
  <2>1. i < j => s[i] < s[j]
    BY DEF Ascending
  <2>2. j < i => s[j] < s[i]
    BY DEF Ascending
  <2>3. (i < j \/ j < i \/ i = j) /\ s[i] \in Nat /\ s[j] \in Nat
    BY <1>1
  <2>4. CASE i < j
    BY <2>1, <2>4
  <2>5. CASE j < i
    <3>1. ~(i < j)
      BY <1>1, <2>5
    <3> QED
      BY <2>2, <2>3, <2>5, <3>1
  <2>6. CASE i = j
    BY <1>1, <2>3, <2>6
  <2> QED
    BY <2>3, <2>4, <2>5, <2>6
<1>6. s = << >> <=> S = {}
  BY <1>1, <1>2, <1>3
<1> QED
  BY <1>1, <1>2, <1>4, <1>5, <1>6

LEMMA AscendingAppend ==
  ASSUME NEW s, NEW S, Ascending(s, S), NEW x \in Nat, \A y \in S : y < x
  PROVE  Ascending(Append(s, x), S \cup {x})
<1> DEFINE t == Append(s, x)
<1>1. s \in Seq(Nat) /\ t \in Seq(Nat)
  BY DEF Ascending
<1>2. /\ DOMAIN t = 1..(Len(s) + 1) /\ DOMAIN s = 1..Len(s) /\ Len(s) \in Nat
      /\ \A i \in DOMAIN s : t[i] = s[i]
      /\ t[Len(s) + 1] = x
  BY <1>1, SeqIsList, ListAppend, ListOf
<1> HIDE DEF t
<1>3. DOMAIN t = DOMAIN s \cup {Len(s) + 1}
  BY <1>2
<1>4. ASSUME NEW i \in DOMAIN t, NEW j \in DOMAIN t, i < j PROVE t[i] < t[j]
  <2>1. i \in DOMAIN s
    BY <1>2, <1>4
  <2>2. s[i] \in S /\ t[i] = s[i]
    BY <1>2, <2>1, AscendingFacts
  <2>3. CASE j \in DOMAIN s
    BY <1>2, <1>4, <2>1, <2>3 DEF Ascending
  <2>4. CASE j = Len(s) + 1
    BY <1>2, <2>2, <2>4
  <2> QED
    BY <1>3, <2>3, <2>4
<1>5. {t[i] : i \in DOMAIN t} = S \cup {x}
  <2>1. \A i \in DOMAIN t : t[i] \in S \cup {x}
    BY <1>2, <1>3, AscendingFacts
  <2>2. ASSUME NEW y \in S PROVE \E i \in DOMAIN t : t[i] = y
    <3>1. PICK i \in DOMAIN s : s[i] = y
      BY DEF Ascending
    <3> QED
      BY <1>2, <1>3, <3>1
  <2>3. \E i \in DOMAIN t : t[i] = x
    BY <1>2, <1>3
  <2> QED
    BY <2>1, <2>2, <2>3
<1> QED
  BY <1>1, <1>4, <1>5 DEF Ascending, t

LEMMA AscendingConcat ==
  ASSUME NEW s, NEW S, NEW t, NEW T, Ascending(s, S), Ascending(t, T),
         \A x \in S, y \in T : x < y
  PROVE  Ascending(s \o t, S \cup T)
<1> DEFINE q == s \o t
<1>1. s \in Seq(Nat) /\ t \in Seq(Nat)
  BY DEF Ascending
<1>2. /\ q \in Seq(Nat) /\ Len(s) \in Nat /\ Len(t) \in Nat
      /\ Len(q) = Len(s) + Len(t) /\ DOMAIN q = 1..(Len(s) + Len(t))
      /\ DOMAIN s = 1..Len(s) /\ DOMAIN t = 1..Len(t)
      /\ \A i \in DOMAIN s : q[i] = s[i]
      /\ \A i \in DOMAIN t : q[Len(s) + i] = t[i]
  BY <1>1
<1> HIDE DEF q
<1>3. ASSUME NEW i \in DOMAIN q, i \notin DOMAIN s
      PROVE  i - Len(s) \in DOMAIN t /\ q[i] = t[i - Len(s)]
  <2>1. i - Len(s) \in DOMAIN t /\ Len(s) + (i - Len(s)) = i
    BY <1>2, <1>3
  <2> QED
    BY <1>2, <2>1
<1>4. ASSUME NEW i \in DOMAIN q, NEW j \in DOMAIN q, i < j PROVE q[i] < q[j]
  <2>1. CASE i \in DOMAIN s /\ j \in DOMAIN s
    BY <1>2, <1>4, <2>1 DEF Ascending
  <2>2. CASE i \in DOMAIN s /\ j \notin DOMAIN s
    <3>1. q[i] \in S /\ q[j] \in T
      BY <1>2, <1>3, <2>2, AscendingFacts
    <3> QED
      BY <3>1
  <2>3. CASE i \notin DOMAIN s
    <3>1. j \notin DOMAIN s
      BY <1>2, <1>4, <2>3
    <3>2. i - Len(s) \in DOMAIN t /\ j - Len(s) \in DOMAIN t /\ i - Len(s) < j - Len(s)
      BY <1>2, <1>3, <1>4, <2>3, <3>1
    <3>3. t[i - Len(s)] < t[j - Len(s)]
      BY <3>2 DEF Ascending
    <3> QED
      BY <1>3, <2>3, <3>1, <3>3
  <2> QED
    BY <2>1, <2>2, <2>3
<1>5. {q[i] : i \in DOMAIN q} = S \cup T
  <2>1. ASSUME NEW i \in DOMAIN q PROVE q[i] \in S \cup T
    <3>1. CASE i \in DOMAIN s
      BY <1>2, <3>1, AscendingFacts
    <3>2. CASE i \notin DOMAIN s
      BY <1>3, <3>2, AscendingFacts
    <3> QED
      BY <3>1, <3>2
  <2>2. ASSUME NEW y \in S PROVE \E i \in DOMAIN q : q[i] = y
    <3>1. PICK i \in DOMAIN s : s[i] = y
      BY DEF Ascending
    <3> QED
      BY <1>2, <3>1
  <2>3. ASSUME NEW y \in T PROVE \E i \in DOMAIN q : q[i] = y
    <3>1. PICK i \in DOMAIN t : t[i] = y
      BY DEF Ascending
    <3>2. Len(s) + i \in DOMAIN q
      BY <1>2
    <3> QED
      BY <1>2, <3>1, <3>2
  <2> QED
    BY <2>1, <2>2, <2>3
<1> QED
  BY <1>2, <1>4, <1>5 DEF Ascending, q

\* The first m of an ascending list are those up to the m-th.
LEMMA AscendingPrefix ==
  ASSUME NEW s, NEW S, Ascending(s, S), NEW m \in 1..Len(s)
  PROVE  Ascending(SubSeq(s, 1, m), {x \in S : x <= s[m]}) /\ Len(SubSeq(s, 1, m)) = m
<1> DEFINE q == SubSeq(s, 1, m)
<1>1. s \in Seq(Nat) /\ Len(s) \in Nat /\ DOMAIN s = 1..Len(s)
  BY DEF Ascending
<1>2. q \in Seq(Nat) /\ Len(q) = m /\ DOMAIN q = 1..m /\ \A i \in 1..m : i \in DOMAIN s /\ q[i] = s[i]
  BY <1>1
<1> HIDE DEF q
<1>3. ASSUME NEW i \in DOMAIN s PROVE i \in 1..m <=> s[i] <= s[m]
  <2>1. m \in DOMAIN s
    BY <1>1
  <2>2. m < i <=> s[m] < s[i]
    BY <2>1, AscendingFacts
  <2>3. s[i] \in Nat /\ s[m] \in Nat
    BY <1>1, <2>1
  <2> QED
    BY <1>1, <2>2, <2>3
<1>4. {q[i] : i \in DOMAIN q} = {x \in S : x <= s[m]}
  <2>1. \A i \in DOMAIN q : q[i] \in S /\ q[i] <= s[m]
    BY <1>2, <1>3, AscendingFacts
  <2>2. ASSUME NEW x \in S, x <= s[m] PROVE \E i \in DOMAIN q : q[i] = x
    <3>1. PICK i \in DOMAIN s : s[i] = x
      BY DEF Ascending
    <3> QED
      BY <1>2, <1>3, <2>2, <3>1
  <2> QED
    BY <2>1, <2>2
<1>5. \A i, j \in DOMAIN q : i < j => q[i] < q[j]
  BY <1>2 DEF Ascending
<1> QED
  BY <1>2, <1>4, <1>5 DEF Ascending, q

\* There is one ascending list of a set.
LEMMA AscendingWithin ==
  ASSUME NEW s, NEW t, NEW S, Ascending(s, S), Ascending(t, S)
  PROVE  Len(s) <= Len(t) /\ \A i \in DOMAIN s : i \in DOMAIN t /\ s[i] = t[i]
<1>1. /\ Len(s) \in Nat /\ DOMAIN s = 1..Len(s) /\ Len(t) \in Nat /\ DOMAIN t = 1..Len(t)
  BY AscendingFacts
<1> DEFINE Bad == {i \in DOMAIN s : ~(i \in DOMAIN t /\ s[i] = t[i])}
<1>2. ASSUME Bad # {} PROVE FALSE
  <2>1. Bad \in SUBSET Nat
    BY <1>1
  <2>2. PICK i \in Bad : \A k \in Bad : i <= k
    BY <1>2, <2>1, LeastNumber
  <2>3. \A k \in DOMAIN s : k < i => k \in DOMAIN t /\ s[k] = t[k]
    BY <1>1, <2>2
  <2>4. PICK j \in DOMAIN t : t[j] = s[i]
    <3>1. s[i] \in S
      BY AscendingFacts
    <3> QED
      BY <3>1 DEF Ascending
  <2>5. ~(j < i)
    <3> SUFFICES ASSUME j < i PROVE FALSE
      OBVIOUS
    <3>1. j \in DOMAIN s
      BY <1>1
    <3>2. s[j] = t[j] /\ s[j] < s[i]
      BY <2>3, <3>1, AscendingFacts
    <3>3. s[i] \in Nat
      BY <1>1 DEF Ascending
    <3> QED
      BY <2>4, <3>2, <3>3
  <2>6. i \in DOMAIN t
    BY <1>1, <2>5
  <2>7. PICK l \in DOMAIN s : s[l] = t[i]
    <3>1. t[i] \in S
      BY <2>6, AscendingFacts
    <3> QED
      BY <3>1 DEF Ascending
  <2>8. ~(l < i)
    <3> SUFFICES ASSUME l < i PROVE FALSE
      OBVIOUS
    <3>1. l \in DOMAIN t /\ t[l] = s[l]
      BY <2>3
    <3>2. t[l] < t[i]
      BY <2>6, <3>1, AscendingFacts
    <3>3. t[i] \in Nat
      BY <2>6 DEF Ascending
    <3> QED
      BY <2>7, <3>1, <3>2, <3>3
  <2>9. i # j
    BY <2>4, <2>6
  <2>10. t[i] < s[i]
    BY <1>1, <2>4, <2>5, <2>6, <2>9, AscendingFacts
  <2>11. l < i
    BY <2>7, <2>10, AscendingFacts
  <2> QED
    BY <2>8, <2>11
<1>3. \A i \in DOMAIN s : i \in DOMAIN t /\ s[i] = t[i]
  BY <1>2
<1>4. Len(s) <= Len(t)
  <2>1. CASE Len(s) = 0
    BY <1>1, <2>1
  <2>2. CASE Len(s) # 0
    <3>1. Len(s) \in DOMAIN t
      BY <1>1, <1>3, <2>2
    <3> QED
      BY <1>1, <3>1
  <2> QED
    BY <2>1, <2>2
<1> QED
  BY <1>3, <1>4

LEMMA AscendingUnique ==
  ASSUME NEW s, NEW t, NEW S, Ascending(s, S), Ascending(t, S)
  PROVE  s = t
<1>1. Len(s) <= Len(t) /\ Len(t) <= Len(s) /\ \A i \in DOMAIN s : s[i] = t[i]
  BY AscendingWithin
<1>2. /\ Len(s) \in Nat /\ DOMAIN s = 1..Len(s) /\ Len(t) \in Nat /\ DOMAIN t = 1..Len(t)
      /\ s \in Seq(Nat) /\ t \in Seq(Nat)
  BY AscendingFacts DEF Ascending
<1>3. s = [i \in DOMAIN s |-> s[i]] /\ t = [i \in DOMAIN t |-> t[i]]
  BY <1>2
<1> QED
  BY <1>1, <1>2, <1>3

\* What is kept of an ascending list ascends.
LEMMA AscendingFiltered ==
  ASSUME NEW s, NEW S, Ascending(s, S), NEW keep
  PROVE  Ascending(Filtered(s, keep), S \cap keep)
<1> DEFINE Until(n) == {s[i] : i \in 1..n}
<1>1. s \in Seq(Nat) /\ Len(s) \in Nat /\ DOMAIN s = 1..Len(s)
  BY DEF Ascending
<1>2. PICK f \in [0..Len(s) -> Seq(Nat \cap keep)] : Among(f, s, keep)
  BY <1>1, FilterIterates
<1>3. Filtered(s, keep) = f[Len(s)]
  BY <1>1, <1>2, FilteredIs
<1> DEFINE Fine == {n \in Nat : n <= Len(s) => Ascending(f[n], Until(n) \cap keep)}
<1>4. 0 \in Fine
  <2>1. f[0] = << >> /\ Until(0) = {}
    BY <1>1, <1>2, AmongValues
  <2>2. Ascending(<< >>, {})
    BY DEF Ascending
  <2> QED
    BY <2>1, <2>2
<1>5. ASSUME NEW n \in Nat, n \in Fine PROVE n + 1 \in Fine
  <2> SUFFICES ASSUME n + 1 <= Len(s) PROVE Ascending(f[n + 1], Until(n + 1) \cap keep)
    OBVIOUS
  <2>1. /\ n + 1 \in 1..Len(s) /\ n + 1 \in DOMAIN s /\ (n + 1) - 1 = n /\ n <= Len(s)
        /\ 1..(n + 1) = 1..n \cup {n + 1}
    BY <1>1
  <2>2. Ascending(f[n], Until(n) \cap keep)
    BY <1>5, <2>1
  <2>3. f[n + 1] = IF s[n + 1] \in keep THEN Append(f[n], s[n + 1]) ELSE f[n]
    <3>1. \A m \in 1..Len(s) : f[m] = IF s[m] \in keep THEN Append(f[m - 1], s[m]) ELSE f[m - 1]
      BY <1>1, <1>2, AmongValues
    <3> HIDE DEF Until
    <3> QED
      BY <2>1, <3>1
  <2>4. Until(n + 1) = Until(n) \cup {s[n + 1]}
    BY <2>1
  <2>5. \A y \in Until(n) : y < s[n + 1]
    BY <1>1, <2>1 DEF Ascending
  <2>6. s[n + 1] \in Nat
    BY <1>1, <2>1
  <2> HIDE DEF Until
  <2>7. CASE s[n + 1] \in keep
    <3>1. Ascending(Append(f[n], s[n + 1]), (Until(n) \cap keep) \cup {s[n + 1]})
      BY <2>2, <2>5, <2>6, AscendingAppend
    <3>2. (Until(n) \cap keep) \cup {s[n + 1]} = Until(n + 1) \cap keep
      BY <2>4, <2>7
    <3> QED
      BY <2>3, <2>7, <3>1, <3>2
  <2>8. CASE s[n + 1] \notin keep
    <3>1. Until(n + 1) \cap keep = Until(n) \cap keep
      BY <2>4, <2>8
    <3> QED
      BY <2>2, <2>3, <2>8, <3>1
  <2> QED
    BY <2>7, <2>8
<1>6. Until(Len(s)) = S
  BY <1>1 DEF Ascending
<1> HIDE DEF Fine
<1>7. Len(s) \in Fine
  BY <1>1, <1>4, <1>5, Induction
<1> HIDE DEF Until
<1> QED
  BY <1>1, <1>3, <1>6, <1>7 DEF Fine

\* The numbers from 1, and those of them that belong to a set.
LEMMA NumbersAscend ==
  ASSUME NEW n \in Nat
  PROVE  Ascending([i \in 1..n |-> i], 1..n)
<1> DEFINE s == [i \in 1..n |-> i]
<1>1. s \in Seq(Nat) /\ DOMAIN s = 1..n /\ \A i \in 1..n : s[i] = i
  OBVIOUS
<1> HIDE DEF s
<1> QED
  BY <1>1 DEF Ascending, s
-----------------------------------------------------------------------------
(* Lists made element by element.                                           *)

\* What is made of a list with one element more.
LEMMA MadeAppend ==
  ASSUME NEW S, NEW T, NEW s \in Seq(S), NEW x \in S, NEW f \in [S -> T]
  PROVE  /\ [i \in DOMAIN s |-> f[s[i]]] \in Seq(T)
         /\ [i \in DOMAIN Append(s, x) |-> f[Append(s, x)[i]]]
              = Append([i \in DOMAIN s |-> f[s[i]]], f[x])
<1> DEFINE t == Append(s, x)
           made == [i \in DOMAIN s |-> f[s[i]]]
           more == [i \in DOMAIN t |-> f[t[i]]]
<1>1. /\ t \in Seq(S) /\ Len(s) \in Nat /\ Len(t) = Len(s) + 1 /\ t[Len(s) + 1] = x
      /\ DOMAIN t = 1..(Len(s) + 1) /\ DOMAIN s = 1..Len(s)
      /\ \A i \in 1..Len(s) : t[i] = s[i] /\ s[i] \in S
  OBVIOUS
<1> HIDE DEF t
<1>2. made \in Seq(T) /\ Len(made) = Len(s)
  BY <1>1
<1>3. \A i \in DOMAIN t : f[t[i]] \in T
  BY <1>1
<1>4. more \in Seq(T) /\ Len(more) = Len(s) + 1
  BY <1>1, <1>3
<1>5. /\ \A i \in 1..Len(made) : more[i] = made[i]
      /\ more[Len(made) + 1] = f[x] /\ f[x] \in T
  BY <1>1, <1>2
<1>6. more = Append(made, f[x])
  <2> HIDE DEF made, more
  <2> QED
    BY <1>2, <1>4, <1>5, AppendIs
<1> QED
  BY <1>2, <1>6 DEF t

\* Filtering takes nothing from a list of elements that all belong.
LEMMA FilteredAll ==
  ASSUME NEW S, NEW s \in Seq(S), NEW keep, S \subseteq keep
  PROVE  Filtered(s, keep) = s
<1> DEFINE f == [n \in 0..Len(s) |-> SubSeq(s, 1, n)]
           e(n) == IF n = 0 THEN << >>
                   ELSE IF s[n] \in keep THEN Append(f[n - 1], s[n]) ELSE f[n - 1]
<1>1. Len(s) \in Nat /\ \A n \in 1..Len(s) : s[n] \in S
  OBVIOUS
<1>2. ASSUME NEW n \in 0..Len(s) PROVE f[n] = e(n)
  <2>1. CASE n = 0
    <3>1. SubSeq(s, 1, 0) = << >>
      OBVIOUS
    <3> QED
      BY <1>1, <2>1, <3>1
  <2>2. CASE n \in 1..Len(s)
    <3>1. n - 1 \in 0..Len(s) /\ s[n] \in S /\ s[n] \in keep /\ n # 0
      BY <1>1, <2>2
    <3>2. f[n - 1] = SubSeq(s, 1, n - 1) /\ f[n] = SubSeq(s, 1, n)
      BY <3>1
    <3>3. /\ SubSeq(s, 1, n - 1) \in Seq(S) /\ Len(SubSeq(s, 1, n - 1)) = n - 1
          /\ SubSeq(s, 1, n) \in Seq(S) /\ Len(SubSeq(s, 1, n)) = n
          /\ \A i \in 1..(n - 1) : SubSeq(s, 1, n)[i] = s[i] /\ SubSeq(s, 1, n - 1)[i] = s[i]
          /\ SubSeq(s, 1, n)[n] = s[n]
      BY <1>1, <2>2
    <3>4. (n - 1) + 1 = n
      BY <2>2
    <3>5. SubSeq(s, 1, n) = Append(SubSeq(s, 1, n - 1), s[n])
      BY <3>1, <3>3, <3>4, AppendIs
    <3> HIDE DEF f
    <3> QED
      BY <3>1, <3>2, <3>5
  <2> QED
    BY <1>1, <2>1, <2>2
<1>3. Among(f, s, keep)
  <2>1. f = [n \in 0..Len(s) |-> e(n)]
    <3> HIDE DEF e
    <3> QED
      BY <1>2
  <2> HIDE DEF f
  <2> QED
    BY <2>1 DEF Among
<1>4. Filtered(s, keep) = f[Len(s)]
  <2> HIDE DEF f
  <2> QED
    BY <1>3, FilteredIs
<1>5. SubSeq(s, 1, Len(s)) = s
  BY <1>1
<1> QED
  BY <1>1, <1>4, <1>5
-----------------------------------------------------------------------------
(* InOrder.                                                                 *)

\* before puts the members of S in one order.
Orders(before, S) ==
  /\ \A x \in S : <<x, x>> \notin before
  /\ \A x, y, z \in S : <<x, y>> \in before /\ <<y, z>> \in before => <<x, z>> \in before
  /\ \A x, y \in S : x # y => <<x, y>> \in before \/ <<y, x>> \in before

Rank(x, S, before) == Cardinality({y \in S : <<y, x>> \in before})

\* A member's rank is its place in the order, from 0.
LEMMA RankIs ==
  ASSUME NEW S, IsFiniteSet(S), NEW before, Orders(before, S), NEW a \in S
  PROVE  /\ Cardinality(S) \in Nat
         /\ Rank(a, S, before) \in 0..(Cardinality(S) - 1)
         /\ \A b \in S : <<a, b>> \in before => Rank(a, S, before) < Rank(b, S, before)
         /\ \A b \in S : a # b => Rank(a, S, before) # Rank(b, S, before)
<1> DEFINE Earlier(x) == {y \in S : <<y, x>> \in before}
           R(x) == Cardinality(Earlier(x))
<1>1. \A x \in S : IsFiniteSet(Earlier(x)) /\ R(x) \in Nat
  BY FS_Subset, FS_CardinalityType
<1>2. ASSUME NEW x \in S, NEW y \in S, <<x, y>> \in before
      PROVE  R(x) < R(y)
  <2>1. Earlier(x) \subseteq Earlier(y) /\ x \in Earlier(y) /\ x \notin Earlier(x)
    BY <1>2 DEF Orders
  <2> HIDE DEF Earlier
  <2>2. R(x) <= R(y) /\ (R(x) = R(y) => Earlier(x) = Earlier(y))
    BY <1>1, <2>1, FS_Subset
  <2> QED
    BY <1>1, <2>1, <2>2
<1>3. Cardinality(S) \in Nat /\ R(a) <= Cardinality(S) - 1
  <2>1. Earlier(a) \in SUBSET (S \ {a})
    BY DEF Orders
  <2>2. IsFiniteSet(S \ {a}) /\ Cardinality(S \ {a}) = Cardinality(S) - 1
    BY FS_RemoveElement
  <2> HIDE DEF Earlier
  <2>3. R(a) <= Cardinality(S \ {a})
    BY <2>1, <2>2, FS_Subset
  <2>4. Cardinality(S) \in Nat
    BY FS_CardinalityType
  <2> QED
    BY <2>2, <2>3, <2>4
<1> HIDE DEF Earlier
<1>4. ASSUME NEW b \in S, a # b PROVE R(a) # R(b)
  <2>1. <<a, b>> \in before \/ <<b, a>> \in before
    BY <1>4 DEF Orders
  <2>2. R(a) \in Nat /\ R(b) \in Nat
    BY <1>1
  <2>3. R(a) < R(b) \/ R(b) < R(a)
    BY <1>2, <2>1
  <2> HIDE DEF R
  <2> QED
    BY <2>2, <2>3
<1>5. R(a) \in 0..(Cardinality(S) - 1)
  BY <1>1, <1>3
<1>6. \A x : Rank(x, S, before) = R(x)
  BY DEF Rank, Earlier
<1> HIDE DEF R
<1> QED
  BY <1>2, <1>3, <1>4, <1>5, <1>6

\* The list has every member, once, and in the order.
LEMMA InOrderIs ==
  ASSUME NEW S, IsFiniteSet(S), NEW before, Orders(before, S)
  PROVE  /\ InOrder(S, before) \in Seq(S)
         /\ Len(InOrder(S, before)) = Cardinality(S) /\ Cardinality(S) \in Nat
         /\ {InOrder(S, before)[i] : i \in DOMAIN InOrder(S, before)} = S
         /\ \A i, j \in DOMAIN InOrder(S, before) :
              i < j => <<InOrder(S, before)[i], InOrder(S, before)[j]>> \in before
         /\ \A i, j \in DOMAIN InOrder(S, before) :
              i # j => InOrder(S, before)[i] # InOrder(S, before)[j]
<1> DEFINE n == Cardinality(S)
           R(x) == Rank(x, S, before)
           rank == [x \in S |-> R(x)]
           t == InOrder(S, before)
<1>1. n \in Nat
  BY FS_CardinalityType
<1>2. \A x \in S : R(x) \in 0..(n - 1)
  BY RankIs
<1>3. /\ \A x, y \in S : x # y => R(x) # R(y)
      /\ \A x, y \in S : <<x, y>> \in before => R(x) < R(y)
  BY RankIs
<1> HIDE DEF R
<1>4. rank \in Injection(S, 0..(n - 1))
  <2> HIDE DEF n
  <2> QED
    BY <1>2, <1>3 DEF Injection, IsInjective
<1>5. IsFiniteSet(0..(n - 1)) /\ Cardinality(0..(n - 1)) = n
  <2> HIDE DEF n
  <2>1. 0 \in Int /\ n - 1 \in Int
    BY <1>1
  <2>2. IsFiniteSet(0..(n - 1)) /\ Cardinality(0..(n - 1)) = IF 0 > n - 1 THEN 0 ELSE (n - 1) - 0 + 1
    BY <2>1, FS_Interval
  <2> QED
    BY <1>1, <2>2
<1>6. rank \in Surjection(S, 0..(n - 1))
  <2> HIDE DEF rank
  <2> QED
    BY <1>4, <1>5, FS_Injection
<1>7. ASSUME NEW i \in 1..n
      PROVE  \E x \in S : R(x) = i - 1
  <2>1. i - 1 \in 0..(n - 1)
    BY <1>1
  <2> HIDE DEF n
  <2>2. \E x \in S : rank[x] = i - 1
    BY <1>6, <2>1 DEF Surjection
  <2> QED
    BY <2>2
<1>8. t = [i \in 1..n |-> CHOOSE x \in S : R(x) = i - 1]
  BY DEF InOrder, Rank, R
<1> HIDE DEF n, rank, t
<1>9. \A i \in 1..n : t[i] \in S /\ R(t[i]) = i - 1
  BY <1>7, <1>8
<1>10. DOMAIN t = 1..n
  BY <1>8
<1>11. t \in Seq(S) /\ Len(t) = n
  <2>1. t \in [1..n -> S]
    BY <1>8, <1>9
  <2> QED
    BY <1>1, <1>10, <2>1
<1>12. ASSUME NEW x \in S PROVE \E i \in DOMAIN t : t[i] = x
  <2>1. R(x) + 1 \in 1..n /\ (R(x) + 1) - 1 = R(x)
    BY <1>1, <1>2
  <2>2. t[R(x) + 1] = x
    BY <1>3, <1>9, <2>1
  <2> QED
    BY <1>10, <2>1, <2>2
<1>13. \A i, j \in DOMAIN t : i # j => t[i] # t[j]
  BY <1>1, <1>9, <1>10
<1>14. ASSUME NEW i \in DOMAIN t, NEW j \in DOMAIN t, i < j
       PROVE  <<t[i], t[j]>> \in before
  <2>1. /\ t[i] \in S /\ t[j] \in S /\ R(t[i]) = i - 1 /\ R(t[j]) = j - 1
        /\ i \in Nat /\ j \in Nat
    BY <1>9, <1>10
  <2>2. ~(R(t[j]) < R(t[i])) /\ t[i] # t[j]
    BY <1>14, <2>1
  <2>3. <<t[i], t[j]>> \in before \/ <<t[j], t[i]>> \in before
    BY <2>1, <2>2 DEF Orders
  <2> QED
    BY <1>3, <2>1, <2>2, <2>3
<1>15. {t[i] : i \in DOMAIN t} = S
  BY <1>9, <1>10, <1>12
<1> QED
  BY <1>1, <1>11, <1>13, <1>14, <1>15 DEF t, n
-----------------------------------------------------------------------------
(* Of numbers and sets.                                                     *)

\* No element is more than the sum.
LEMMA SummedElement ==
  ASSUME NEW s \in Seq(Nat), NEW k \in DOMAIN s
  PROVE  s[k] <= Summed(s)
<1>1. Len(s) \in Nat /\ DOMAIN s = 1..Len(s) /\ \A i \in 1..Len(s) : s[i] \in Nat
  OBVIOUS
<1>2. PICK f : Sums(f, s)
  BY SumIterates
<1>3. /\ \A i \in 1..Len(s) : f[i] = f[i - 1] + s[i]
      /\ \A i \in 0..Len(s) : f[i] \in Nat
      /\ Summed(s) = f[Len(s)]
  BY <1>2, SumValues
<1> DEFINE Above == {i \in Nat : k + i <= Len(s) => s[k] <= f[k + i]}
<1>4. 0 \in Above
  <2>1. k \in 1..Len(s) /\ k - 1 \in 0..Len(s) /\ k \in 0..Len(s) /\ k + 0 = k
    BY <1>1
  <2>2. f[k] = f[k - 1] + s[k] /\ f[k - 1] \in Nat /\ s[k] \in Nat
    BY <1>1, <1>3, <2>1
  <2> QED
    BY <2>1, <2>2
<1>5. ASSUME NEW i \in Nat, i \in Above PROVE i + 1 \in Above
  <2> SUFFICES ASSUME k + (i + 1) <= Len(s) PROVE s[k] <= f[k + (i + 1)]
    OBVIOUS
  <2>1. /\ k + (i + 1) \in 1..Len(s) /\ (k + (i + 1)) - 1 = k + i
        /\ k + i \in 0..Len(s) /\ k + i <= Len(s)
    BY <1>1
  <2>2. /\ f[k + (i + 1)] = f[k + i] + s[k + (i + 1)] /\ s[k] <= f[k + i]
        /\ f[k + i] \in Nat /\ s[k + (i + 1)] \in Nat /\ s[k] \in Nat
    BY <1>1, <1>3, <1>5, <2>1
  <2> QED
    BY <2>2
<1> HIDE DEF Above
<1>6. Len(s) - k \in Above
  <2>1. Len(s) - k \in Nat
    BY <1>1
  <2> QED
    BY <1>4, <1>5, <2>1, Induction
<1>7. k + (Len(s) - k) = Len(s)
  BY <1>1
<1> QED
  BY <1>1, <1>3, <1>6, <1>7 DEF Above

\* Among numbers up to n one is the greatest.
LEMMA GreatestNumber ==
  ASSUME NEW n \in Nat, NEW T \in SUBSET (0..n), T # {}
  PROVE  \E m \in T : \A k \in T : m >= k
<1> DEFINE below == {n - k : k \in T}
<1>1. below \in SUBSET Nat /\ below # {}
  <2>1. PICK k \in T : TRUE
    OBVIOUS
  <2>2. n - k \in below
    BY <2>1 DEF below
  <2>3. \A e \in T : e \in 0..n /\ n - e \in Nat
    OBVIOUS
  <2>4. \A d \in below : \E e \in T : d = n - e
    BY DEF below
  <2> HIDE DEF below
  <2> QED
    BY <2>2, <2>3, <2>4
<1> HIDE DEF below
<1>2. PICK d \in below : \A e \in below : d <= e
  BY <1>1, LeastNumber
<1>3. PICK m \in T : d = n - m
  BY DEF below
<1>4. ASSUME NEW k \in T PROVE m >= k
  <2>1. n - k \in below
    BY DEF below
  <2>2. n - m <= n - k /\ m \in 0..n /\ k \in 0..n
    BY <1>2, <1>3, <2>1
  <2> QED
    BY <2>2
<1> QED
  BY <1>4

\* What a function on a finite set returns is finite.
LEMMA ImageIsFinite ==
  ASSUME NEW f, IsFiniteSet(DOMAIN f)
  PROVE  IsFiniteSet({f[x] : x \in DOMAIN f})
<1> DEFINE S == DOMAIN f
           T == {f[x] : x \in S}
           g == [x \in S |-> f[x]]
<1>1. g \in Surjection(S, T)
  BY DEF Surjection
<1> HIDE DEF S, T, g
<1>2. IsFiniteSet(S)
  BY DEF S
<1>3. IsFiniteSet(T)
  BY <1>1, <1>2, FS_Surjection
<1> QED
  BY <1>3 DEF S, T
\* The first n elements of a list.
LEMMA FirstOfIs ==
  ASSUME NEW S, NEW s \in Seq(S), NEW n \in Nat
  PROVE  /\ FirstOf(n, s) \in Seq(S)
         /\ Len(FirstOf(n, s)) = IF Len(s) < n THEN Len(s) ELSE n
         /\ \A i \in DOMAIN FirstOf(n, s) : i \in DOMAIN s /\ FirstOf(n, s)[i] = s[i]
<1> DEFINE m == IF Len(s) < n THEN Len(s) ELSE n
           q == SubSeq(s, 1, m)
<1>1. Len(s) \in Nat /\ DOMAIN s = 1..Len(s)
  OBVIOUS
<1>2. m \in Nat /\ m <= Len(s)
  BY <1>1
<1>3. FirstOf(n, s) = q
  BY DEF FirstOf
<1> HIDE DEF m
<1>4. q \in Seq(S) /\ Len(q) = m /\ DOMAIN q = 1..m /\ \A i \in 1..m : q[i] = s[i]
  BY <1>1, <1>2
<1>5. \A i \in 1..m : i \in 1..Len(s)
  BY <1>1, <1>2
<1> QED
  BY <1>1, <1>3, <1>4, <1>5 DEF m

-----------------------------------------------------------------------------
(* SortedBy.                                                                *)

\* The keys a sort needs: lists of n numbers, and each that of one member only.
KeysOf(S, key, n) ==
  /\ \A x \in S : DOMAIN key[x] = 1..n /\ \A m \in 1..n : key[x][m] \in Int
  /\ \A x, y \in S : x # y => \E m \in 1..n : key[x][m] # key[y][m]

\* t lists the members of S, each once, by their keys.
ListsBy(t, S, key) ==
  /\ t \in Seq(S) /\ Len(t) = Cardinality(S) /\ Cardinality(S) \in Nat
  /\ {t[i] : i \in DOMAIN t} = S
  /\ \A i, j \in DOMAIN t : i < j => Lexical(key[t[i]], key[t[j]])
  /\ \A i, j \in DOMAIN t : i < j => key[t[i]][1] <= key[t[j]][1]
  /\ \A i, j \in DOMAIN t : i # j => t[i] # t[j]

LEMMA SortedByIs ==
  ASSUME NEW S, IsFiniteSet(S), NEW n \in Nat, n > 0, NEW key, KeysOf(S, key, n)
  PROVE  ListsBy(SortedBy(S, key), S, key)
<1> DEFINE before == {pair \in S \X S : Lexical(key[pair[1]], key[pair[2]])}
           Less(x, y) == \E k \in 1..n : /\ key[x][k] < key[y][k]
                                         /\ \A m \in 1..(k - 1) : key[x][m] = key[y][m]
<1>1. /\ \A x \in S : DOMAIN key[x] = 1..n /\ \A m \in 1..n : key[x][m] \in Int
      /\ \A x, y \in S : x # y => \E m \in 1..n : key[x][m] # key[y][m]
  BY DEF KeysOf
<1>2. \A x, y \in S : Lexical(key[x], key[y]) <=> Less(x, y)
  BY <1>1 DEF Lexical
<1>3. \A x, y \in S : <<x, y>> \in before <=> Lexical(key[x], key[y])
  OBVIOUS
<1>4. ASSUME NEW x \in S PROVE ~Less(x, x)
  BY <1>1
<1>5. ASSUME NEW x \in S, NEW y \in S, NEW z \in S, Less(x, y), Less(y, z) PROVE Less(x, z)
  <2>1. PICK k \in 1..n : key[x][k] < key[y][k] /\ \A m \in 1..(k - 1) : key[x][m] = key[y][m]
    BY <1>5
  <2>2. PICK l \in 1..n : key[y][l] < key[z][l] /\ \A m \in 1..(l - 1) : key[y][m] = key[z][m]
    BY <1>5
  <2>3. /\ key[x][k] \in Int /\ key[y][k] \in Int /\ key[z][k] \in Int
        /\ key[x][l] \in Int /\ key[y][l] \in Int /\ key[z][l] \in Int
    BY <1>1
  <2>4. CASE k < l
    <3>1. key[y][k] = key[z][k] /\ \A m \in 1..(k - 1) : m \in 1..(l - 1)
      BY <2>2, <2>4
    <3> QED
      BY <2>1, <2>2, <3>1
  <2>5. CASE k = l
    BY <2>1, <2>2, <2>3, <2>5
  <2>6. CASE k > l
    <3>1. key[x][l] = key[y][l] /\ \A m \in 1..(l - 1) : m \in 1..(k - 1)
      BY <2>1, <2>6
    <3> QED
      BY <2>1, <2>2, <3>1
  <2> QED
    BY <2>4, <2>5, <2>6
<1>6. ASSUME NEW x \in S, NEW y \in S, x # y PROVE Less(x, y) \/ Less(y, x)
  <2> DEFINE T == {m \in 1..n : key[x][m] # key[y][m]}
  <2>1. T \in SUBSET Nat /\ T # {}
    BY <1>1, <1>6
  <2>2. PICK k \in T : \A m \in T : k <= m
    BY <2>1, LeastNumber
  <2>3. \A m \in 1..(k - 1) : key[x][m] = key[y][m]
    BY <2>2
  <2>4. k \in 1..n /\ key[x][k] # key[y][k] /\ key[x][k] \in Int /\ key[y][k] \in Int
    BY <1>1
  <2>5. key[x][k] < key[y][k] \/ key[y][k] < key[x][k]
    BY <2>4
  <2> QED
    BY <2>3, <2>4, <2>5
<1> HIDE DEF Less, before
<1>7. Orders(before, S)
  <2>1. \A x, y \in S : <<x, y>> \in before <=> Less(x, y)
    BY <1>2, <1>3
  <2> QED
    BY <1>4, <1>5, <1>6, <2>1 DEF Orders
<1>8. SortedBy(S, key) = InOrder(S, before)
  BY DEF SortedBy, before
<1> DEFINE t == SortedBy(S, key)
<1>9. /\ t \in Seq(S) /\ Len(t) = Cardinality(S) /\ Cardinality(S) \in Nat
      /\ {t[i] : i \in DOMAIN t} = S
      /\ \A i, j \in DOMAIN t : i < j => <<t[i], t[j]>> \in before
      /\ \A i, j \in DOMAIN t : i # j => t[i] # t[j]
  BY <1>7, <1>8, InOrderIs
<1> HIDE DEF t
<1>10. \A i \in DOMAIN t : t[i] \in S
  BY <1>9
<1>11. \A i, j \in DOMAIN t : i < j => Lexical(key[t[i]], key[t[j]])
  BY <1>3, <1>9, <1>10
<1>12. ASSUME NEW x \in S, NEW y \in S, Less(x, y) PROVE key[x][1] <= key[y][1]
  <2>1. PICK k \in 1..n : key[x][k] < key[y][k] /\ \A m \in 1..(k - 1) : key[x][m] = key[y][m]
    BY <1>12 DEF Less
  <2>2. key[x][1] \in Int /\ key[y][1] \in Int
    BY <1>1
  <2>3. k = 1 \/ 1 \in 1..(k - 1)
    OBVIOUS
  <2> QED
    BY <2>1, <2>2, <2>3
<1>13. \A i, j \in DOMAIN t : i < j => key[t[i]][1] <= key[t[j]][1]
  BY <1>2, <1>10, <1>11, <1>12
<1> QED
  BY <1>9, <1>11, <1>13 DEF ListsBy, t

\* Where order lists places by falling values, and so many in a row reach x, so many at the
\* head of order do.
LEMMA SortedBlock ==
  ASSUME NEW n \in Nat, NEW order \in [1..n -> 1..n], \A j \in 1..n : \E k \in 1..n : order[k] = j,
         NEW v \in [1..n -> Int], \A i, j \in 1..n : i < j => v[order[i]] >= v[order[j]],
         NEW p \in Nat, NEW most \in Nat, p + most <= n,
         NEW x \in Int, \A q \in 1..most : v[p + q] >= x,
         NEW k \in 1..n, k <= most
  PROVE  v[order[k]] >= x
<1> SUFFICES ASSUME ~(v[order[k]] >= x) PROVE FALSE
  OBVIOUS
<1> DEFINE block == (p + 1)..(p + most)
           g == [j \in 1..(k - 1) |-> order[j]]
           T == {g[j] : j \in 1..(k - 1)}
<1>1. \A b \in block : b \in 1..n /\ v[b] >= x
  <2> TAKE b \in block
  <2>1. b - p \in 1..most /\ b = p + (b - p) /\ b \in 1..n
    OBVIOUS
  <2> QED
    BY <2>1
<1>2. \A b \in block : b \in T
  <2> TAKE b \in block
  <2>1. PICK j \in 1..n : order[j] = b
    BY <1>1
  <2>2. PICK a \in Int : a = v[order[j]]
    BY <1>1, <2>1
  <2>3. PICK c \in Int : c = v[order[k]]
    OBVIOUS
  <2>5. a >= x /\ ~(c >= x)
    BY <1>1, <2>1, <2>2, <2>3
  <2>6. j < k
    <3>1. ~(c >= a)
      BY <2>5
    <3>2. ~(v[order[k]] >= v[order[j]])
      BY <2>2, <2>3, <3>1
    <3>3. ~(k < j)
      BY <3>2
    <3>4. k # j
      <4>1. c # a
        BY <3>1
      <4> QED
        BY <2>2, <2>3, <4>1
    <3> QED
      BY <3>3, <3>4
  <2>4. j \in 1..(k - 1)
    BY <2>6
  <2> QED
    BY <2>1, <2>4
<1>3. g \in Surjection(1..(k - 1), T)
  BY DEF Surjection
<1>4. IsFiniteSet(1..(k - 1)) /\ Cardinality(1..(k - 1)) = k - 1
  <2>1. 1 \in Int /\ k - 1 \in Int /\ k >= 1
    OBVIOUS
  <2>2. /\ IsFiniteSet(1..(k - 1))
        /\ Cardinality(1..(k - 1)) = IF 1 > k - 1 THEN 0 ELSE (k - 1) - 1 + 1
    BY <2>1, FS_Interval
  <2> QED
    BY <2>2
<1>5. Cardinality(block) = most
  <2>1. p + 1 \in Int /\ p + most \in Int
    OBVIOUS
  <2>2. Cardinality(block) = IF p + 1 > p + most THEN 0 ELSE (p + most) - (p + 1) + 1
    BY <2>1, FS_Interval
  <2> QED
    BY <2>2
<1> HIDE DEF g, T, block
<1>6. IsFiniteSet(T) /\ Cardinality(T) <= k - 1
  BY <1>3, <1>4, FS_Surjection
<1>7. Cardinality(block) <= Cardinality(T)
  <2>1. block \subseteq T
    BY <1>2
  <2> QED
    BY <1>6, <2>1, FS_Subset
<1>8. Cardinality(T) \in Nat
  BY <1>6, FS_CardinalityType
<1> QED
  BY <1>5, <1>6, <1>7, <1>8

\* Lists that differ in one place have sums that differ by as much.
LEMMA SummedChange ==
  ASSUME NEW s \in Seq(Nat), NEW t \in Seq(Nat), Len(s) = Len(t), NEW k \in DOMAIN s,
         \A i \in DOMAIN s : i # k => t[i] = s[i]
  PROVE  /\ Summed(s) \in Nat /\ Summed(t) \in Nat
         /\ Summed(t) + s[k] = Summed(s) + t[k]
<1>1. PICK n \in Nat : n = Len(s) /\ n = Len(t)
  OBVIOUS
<1>2. DOMAIN s = 1..n /\ \A i \in 1..n : s[i] \in Nat /\ t[i] \in Nat
  BY <1>1
<1>3. PICK f : Sums(f, s)
  BY SumIterates
<1>4. PICK g : Sums(g, t)
  BY SumIterates
<1>5. /\ f[0] = 0 /\ \A i \in 1..n : f[i] = f[i - 1] + s[i]
      /\ \A i \in 0..n : f[i] \in Nat
      /\ Summed(s) = f[n]
  BY <1>1, <1>3, SumValues
<1>6. /\ g[0] = 0 /\ \A i \in 1..n : g[i] = g[i - 1] + t[i]
      /\ \A i \in 0..n : g[i] \in Nat
      /\ Summed(t) = g[n]
  BY <1>1, <1>4, SumValues
<1> DEFINE Level == {i \in Nat : i <= n => IF i < k THEN g[i] = f[i] ELSE g[i] + s[k] = f[i] + t[k]}
<1>7. 0 \in Level
  BY <1>2, <1>5, <1>6
<1>8. ASSUME NEW i \in Nat, i \in Level PROVE i + 1 \in Level
  <2> SUFFICES ASSUME i + 1 <= n
               PROVE  IF i + 1 < k THEN g[i + 1] = f[i + 1] ELSE g[i + 1] + s[k] = f[i + 1] + t[k]
    OBVIOUS
  <2>1. PICK m \in 1..n : m = i + 1
    BY <1>1
  <2>2. m - 1 = i /\ i \in 0..n /\ m \in 0..n /\ k \in Nat
    BY <1>1, <1>2, <2>1
  <2>3. PICK x \in Nat, y \in Nat, b \in Nat, c \in Nat, a \in Nat, d \in Nat :
          x = f[i] /\ y = g[i] /\ b = s[m] /\ c = t[m] /\ a = s[k] /\ d = t[k]
    BY <1>2, <1>5, <1>6, <2>2
  <2>4. f[m] = x + b /\ g[m] = y + c
    BY <1>5, <1>6, <2>2, <2>3
  <2>5. IF i < k THEN y = x ELSE y + a = x + d
    <3>1. i <= n
      BY <2>2
    <3> QED
      BY <1>8, <2>3, <3>1
  <2>6. m # k => b = c
    BY <1>2, <2>3
  <2>7. m = k => b = a /\ c = d
    BY <2>3
  <2>8. IF m < k THEN y + c = x + b ELSE (y + c) + a = (x + b) + d
    BY <2>1, <2>2, <2>5, <2>6, <2>7
  <2>9. IF m < k THEN g[m] = f[m] ELSE g[m] + s[k] = f[m] + t[k]
    BY <2>3, <2>4, <2>8
  <2> QED
    BY <2>1, <2>9
<1> HIDE DEF Level
<1>9. n \in Level
  BY <1>7, <1>8, Induction
<1>10. ~(n < k) /\ n \in 0..n
  BY <1>2
<1> QED
  BY <1>5, <1>6, <1>9, <1>10 DEF Level

\* Nothing makes nothing.
LEMMA SummedZeros ==
  ASSUME NEW s \in Seq(Nat), \A i \in DOMAIN s : s[i] = 0
  PROVE  Summed(s) = 0
<1>1. PICK n \in Nat : n = Len(s)
  OBVIOUS
<1>2. PICK f : Sums(f, s)
  BY SumIterates
<1>3. f[0] = 0 /\ \A i \in 1..n : f[i] = f[i - 1] + s[i]
  BY <1>1, <1>2, SumValues
<1>4. Summed(s) = f[n]
  BY <1>1, <1>2, SumValues
<1> DEFINE Zero == {i \in Nat : i <= n => f[i] = 0}
<1>5. 0 \in Zero
  BY <1>3
<1>6. ASSUME NEW i \in Nat, i \in Zero PROVE i + 1 \in Zero
  <2> SUFFICES ASSUME i + 1 <= n PROVE f[i + 1] = 0
    OBVIOUS
  <2>1. i + 1 \in 1..n /\ (i + 1) - 1 = i /\ f[i] = 0 /\ s[i + 1] = 0
    BY <1>1, <1>6
  <2> QED
    BY <1>3, <2>1
<1> HIDE DEF Zero
<1>7. n \in Zero
  BY <1>5, <1>6, Induction
<1> QED
  BY <1>4, <1>7 DEF Zero

\* Lists of which one has nowhere more than the other.
LEMMA SummedLess ==
  ASSUME NEW s \in Seq(Nat), NEW t \in Seq(Nat), Len(s) = Len(t),
         \A i \in DOMAIN s : t[i] <= s[i]
  PROVE  Summed(t) <= Summed(s) /\ Summed(t) \in Nat /\ Summed(s) \in Nat
<1>1. PICK n \in Nat : n = Len(s) /\ n = Len(t)
  OBVIOUS
<1>2. DOMAIN s = 1..n /\ \A i \in 1..n : s[i] \in Nat /\ t[i] \in Nat
  BY <1>1
<1>3. PICK f : Sums(f, s)
  BY SumIterates
<1>4. PICK g : Sums(g, t)
  BY SumIterates
<1>5. /\ f[0] = 0 /\ \A i \in 1..n : f[i] = f[i - 1] + s[i]
      /\ \A i \in 0..n : f[i] \in Nat
      /\ Summed(s) = f[n]
  BY <1>1, <1>3, SumValues
<1>6. /\ g[0] = 0 /\ \A i \in 1..n : g[i] = g[i - 1] + t[i]
      /\ \A i \in 0..n : g[i] \in Nat
      /\ Summed(t) = g[n]
  BY <1>1, <1>4, SumValues
<1> DEFINE Level == {i \in Nat : i <= n => g[i] <= f[i]}
<1>7. 0 \in Level
  BY <1>5, <1>6
<1>8. ASSUME NEW i \in Nat, i \in Level PROVE i + 1 \in Level
  <2> SUFFICES ASSUME i + 1 <= n PROVE g[i + 1] <= f[i + 1]
    OBVIOUS
  <2>1. PICK m \in 1..n : m = i + 1
    BY <1>1
  <2>2. m - 1 = i /\ i \in 0..n /\ m \in 0..n /\ i <= n
    BY <1>1, <2>1
  <2>3. PICK x \in Nat, y \in Nat, b \in Nat, c \in Nat :
          x = f[i] /\ y = g[i] /\ b = s[m] /\ c = t[m]
    BY <1>2, <1>5, <1>6, <2>2
  <2>4. f[m] = x + b /\ g[m] = y + c
    BY <1>5, <1>6, <2>2, <2>3
  <2>5. y <= x /\ c <= b
    BY <1>2, <1>8, <2>2, <2>3
  <2>6. g[m] <= f[m]
    BY <2>4, <2>5
  <2> QED
    BY <2>1, <2>6
<1> HIDE DEF Level
<1>9. n \in Level
  BY <1>7, <1>8, Induction
<1>10. n \in 0..n
  OBVIOUS
<1> QED
  BY <1>5, <1>6, <1>9, <1>10 DEF Level
=============================================================================
