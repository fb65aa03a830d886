-------------------------------- MODULE Lists --------------------------------
(***************************************************************************)
(* Operators on lists that the other modules share, as recursive functions *)
(* with sets where the library takes operators: what they return is proved *)
(* in ListLemmas.                                                          *)
(***************************************************************************)
EXTENDS Naturals, Sequences, FiniteSets

\* A list of whatever its elements are.
IsList(s) == s \in Seq({s[i] : i \in DOMAIN s})

\* The elements of s that belong to keep, in their order.
Filtered(s, keep) ==
  LET among[n \in 0..Len(s)] ==
        IF n = 0 THEN << >>
        ELSE IF s[n] \in keep THEN Append(among[n - 1], s[n]) ELSE among[n - 1]
  IN among[Len(s)]

\* The first n elements of s, or all.
FirstOf(n, s) == SubSeq(s, 1, IF Len(s) < n THEN Len(s) ELSE n)

\* The members of S in the order of before, a set of pairs: each stands at the place that
\* the number of those before it tells.
InOrder(S, before) ==
  [n \in 1..Cardinality(S) |->
     CHOOSE x \in S : Cardinality({y \in S : <<y, x>> \in before}) = n - 1]

\* a comes first: where two lists of numbers differ first, a has less.
Lexical(a, b) == \E k \in DOMAIN a : a[k] < b[k] /\ \A m \in 1..(k - 1) : a[m] = b[m]

\* The members of S by their keys, which are lists of numbers of one length.
SortedBy(S, key) == InOrder(S, {pair \in S \X S : Lexical(key[pair[1]], key[pair[2]])})

\* The sum of a list of numbers.
Summed(s) ==
  LET sum[n \in 0..Len(s)] == IF n = 0 THEN 0 ELSE sum[n - 1] + s[n]
  IN sum[Len(s)]

\* The lists of a list, one after the other.
Joined(s) ==
  LET joined[n \in 0..Len(s)] == IF n = 0 THEN << >> ELSE joined[n - 1] \o s[n]
  IN joined[Len(s)]
=============================================================================
