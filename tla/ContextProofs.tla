---------------------------- MODULE ContextProofs ----------------------------
(* Theorems of what a model call is given: of ContextMaterials for any     *)
(* stores, mounts, materials and limits, of PromptBudget for any contents, *)
(* injections, rules and targets, and of Timeline for any facts, lengths,  *)
(* times, budgets and readers.                                             *)
EXTENDS ContextMaterials, PromptBudget, Timeline, SequenceTheorems, ListLemmas

-----------------------------------------------------------------------------
(* Types of ContextMaterials.                                               *)

CtxAnswers == [rank : Int, index : Nat, store : CtxStores, held : Nat, material : Materials]
CtxSearches ==
  [at : {"search", "found"}, query : CtxQueries, given : Seq(Materials),
   left : Seq(Range(CtxNames)), plan : SUBSET Range(CtxNames), failed : SUBSET Range(CtxNames),
   answers : Seq(CtxAnswers), asked : Seq(CtxMounts), from : [CtxStores -> Nat]]
CtxSelections ==
  [at : {"selected"}, materials : Seq(Materials), limits : SelectLimits, chosen : SUBSET Nat]

CtxMountsOK ==
  /\ IsFiniteSet(DOMAIN ctxMounts)
  /\ \A name \in DOMAIN ctxMounts : ctxMounts[name] \in CtxMounts /\ ctxMounts[name].name = name

CtxTypeOK ==
  /\ CtxMountsOK
  /\ ctxHeld \in [CtxStores -> Seq(Materials)]
  /\ ctxTurn = NoTurn \/ ctxTurn \in CtxSearches \/ ctxTurn \in CtxSelections

-----------------------------------------------------------------------------
(* Which known a centre picks.                                             *)

\* Names have places, and no two of them one.
LEMMA NamesAt ==
  ASSUME NEW a \in Range(CtxNames), NEW b \in Range(CtxNames)
  PROVE  /\ NameAt(a) \in Int /\ NameAt(b) \in Int
         /\ a # b => NameAt(a) # NameAt(b)
<1>1. ASSUME NEW c \in Range(CtxNames) PROVE NameAt(c) \in DOMAIN CtxNames /\ CtxNames[NameAt(c)] = c
  <2>1. \E i \in DOMAIN CtxNames : CtxNames[i] = c
    BY DEF Range
  <2> QED
    BY <2>1, Zenon DEF NameAt
<1>2. DOMAIN CtxNames \subseteq Int
  BY ContextAssumption
<1> QED
  BY <1>1, <1>2

LEMMA CtxOrderedIs ==
  ASSUME CtxMountsOK
  PROVE  /\ CtxOrdered \in Seq(CtxMounts)
         /\ \A i \in DOMAIN CtxOrdered : CtxOrdered[i].name \in DOMAIN ctxMounts
<1> DEFINE S == Range(ctxMounts)
           t == CtxOrdered
<1>1. S = {ctxMounts[name] : name \in DOMAIN ctxMounts}
  BY DEF Range
<1>2. IsFiniteSet(S)
  BY <1>1, ImageIsFinite DEF CtxMountsOK
<1>3. \A m \in S : /\ m \in CtxMounts /\ m.priority \in Int /\ m.name \in Range(CtxNames)
                   /\ m.name \in DOMAIN ctxMounts /\ ctxMounts[m.name] = m
  BY <1>1, ContextAssumption DEF CtxMountsOK
<1> DEFINE key == MountKeys
<1>4. \A m \in S : key[m] = <<-m.priority, NameAt(m.name)>>
  BY DEF MountKeys
<1>5. t = SortedBy(S, key)
  BY DEF CtxOrdered
<1> HIDE DEF S, key, t
<1>6. KeysOf(S, key, 2)
  <2>1. ASSUME NEW m \in S
        PROVE  DOMAIN key[m] = 1..2 /\ \A p \in 1..2 : key[m][p] \in Int
    <3>1. -m.priority \in Int /\ NameAt(m.name) \in Int
      BY <1>3, NamesAt
    <3> QED
      BY <1>4, <3>1
  <2>2. ASSUME NEW a \in S, NEW b \in S, a # b
        PROVE  \E p \in 1..2 : key[a][p] # key[b][p]
    <3>1. a.name # b.name
      BY <1>3, <2>2
    <3>2. NameAt(a.name) # NameAt(b.name)
      BY <1>3, <3>1, NamesAt
    <3>3. key[a][2] # key[b][2]
      BY <1>4, <3>2
    <3> QED
      BY <3>3
  <2> QED
    BY <2>1, <2>2 DEF KeysOf
<1>7. ListsBy(t, S, key)
  BY <1>2, <1>5, <1>6, SortedByIs
<1>8. t \in Seq(S)
  BY <1>7, Zenon DEF ListsBy
<1>9. \A i \in DOMAIN t : t[i] \in S
  BY <1>8
<1>10. t \in Seq(CtxMounts)
  <2>1. S \subseteq CtxMounts
    BY <1>3
  <2> QED
    BY <1>8, <2>1
<1> QED
  BY <1>3, <1>9, <1>10 DEF t

\* Of the ordered mounts some are kept.
LEMMA CtxKept ==
  ASSUME CtxMountsOK, NEW keep
  PROVE  /\ Filtered(CtxOrdered, keep) \in Seq(CtxMounts)
         /\ \A i \in DOMAIN Filtered(CtxOrdered, keep) :
              Filtered(CtxOrdered, keep)[i].name \in DOMAIN ctxMounts
<1> DEFINE s == CtxOrdered
           t == Filtered(s, keep)
<1>1. s \in Seq(CtxMounts) /\ \A i \in DOMAIN s : s[i].name \in DOMAIN ctxMounts
  BY CtxOrderedIs
<1> HIDE DEF s
<1>2. t \in Seq(CtxMounts \cap keep)
  BY <1>1, FilteredType
<1>3. {t[i] : i \in DOMAIN t} = {s[i] : i \in DOMAIN s} \cap keep
  <2>1. s \in Seq(CtxMounts)
    BY <1>1
  <2>2. {Filtered(s, keep)[i] : i \in DOMAIN Filtered(s, keep)} = {s[i] : i \in DOMAIN s} \cap keep
    BY <2>1, FilteredMembers
  <2> QED
    BY <2>2
<1> HIDE DEF t
<1>4. t \in Seq(CtxMounts)
  <2>1. \A T \in SUBSET CtxMounts : Seq(T) \subseteq Seq(CtxMounts)
    OBVIOUS
  <2> QED
    BY <1>2, <2>1
<1>5. \A i \in DOMAIN t : \E j \in DOMAIN s : t[i] = s[j]
  BY <1>3
<1> QED
  BY <1>1, <1>4, <1>5 DEF t, s

LEMMA CtxReadableIs ==
  ASSUME CtxMountsOK, NEW query
  PROVE  /\ CtxReadable(query) \in Seq(CtxMounts)
         /\ \A i \in DOMAIN CtxReadable(query) : CtxReadable(query)[i].name \in DOMAIN ctxMounts
<1>1. PICK keep : CtxReadable(query) = Filtered(CtxOrdered, keep)
  BY DEF CtxReadable
<1> QED
  BY <1>1, CtxKept

LEMMA CtxWriteIs ==
  ASSUME CtxMountsOK, NEW name, CtxWriteMount(name) # << >>
  PROVE  Head(CtxWriteMount(name)) \in CtxMounts
<1>1. PICK keep : keep = {m \in CtxMounts : m.writable}
  OBVIOUS
<1>2. PICK writable : writable = Filtered(CtxOrdered, keep)
  OBVIOUS
<1>3. writable \in Seq(CtxMounts)
  BY <1>2, CtxKept
<1>4. FirstOf(1, writable) \in Seq(CtxMounts)
  BY <1>3, FirstOfIs
<1>5. CtxWriteMount(name) \in Seq(CtxMounts)
  <2>1. CASE name # NoMount
    BY <2>1 DEF CtxWriteMount, CtxMountsOK
  <2>2. CASE name = NoMount
    BY <1>1, <1>2, <1>4, <2>2 DEF CtxWriteMount
  <2> QED
    BY <2>1, <2>2
<1> QED
  BY <1>5

-----------------------------------------------------------------------------
(* What a search makes of its stores.                                       *)

\* What the list order of a store's matches leaves out is behind as many as it may have.
CtxFindsBest(order, held, limit) ==
  \A i \in DOMAIN held :
    \/ held[i].score = 0
    \/ \E k \in DOMAIN order : order[k] = i
    \/ Len(order) = limit /\ \A k \in DOMAIN order : held[order[k]].score >= held[i].score

LEMMA StoreFindsIs ==
  ASSUME NEW held \in Seq(Materials), NEW limit \in Nat, NEW order, order = StoreFinds(held, limit)
  PROVE  order \in Seq(DOMAIN held) /\ CtxFindsBest(order, held, limit)
<1> DEFINE S == {i \in DOMAIN held : held[i].score > 0}
           key == FindKeys(held)
           R == SortedBy(S, key)
<1>1. \A i \in DOMAIN held : i \in Int /\ held[i].score \in Nat /\ held[i].name \in Range(CtxNames)
  <2>1. DOMAIN held \subseteq Int /\ \A i \in DOMAIN held : held[i] \in Materials
    OBVIOUS
  <2> QED
    BY <2>1 DEF Materials
<1>2. IsFiniteSet(S)
  <2>1. DOMAIN held = 1..Len(held) /\ 1 \in Int /\ Len(held) \in Int
    OBVIOUS
  <2>2. IsFiniteSet(1..Len(held))
    BY <2>1, FS_Interval
  <2>3. S \subseteq 1..Len(held)
    BY <2>1
  <2> QED
    BY <2>2, <2>3, FS_Subset
<1>3. \A i \in S : key[i] = <<-held[i].score, NameAt(held[i].name), i>>
  BY DEF FindKeys
<1>4. \A i \in S : i \in DOMAIN held /\ held[i].score > 0
  OBVIOUS
<1>5. order = FirstOf(limit, R)
  BY DEF StoreFinds
<1>6. \A i \in DOMAIN held : held[i].score # 0 => i \in S
  BY <1>1
<1>7. S \subseteq DOMAIN held
  OBVIOUS
<1> HIDE DEF S, key
<1>8. KeysOf(S, key, 3)
  <2>1. ASSUME NEW i \in S
        PROVE  DOMAIN key[i] = 1..3 /\ \A p \in 1..3 : key[i][p] \in Int
    <3>1. -held[i].score \in Int /\ NameAt(held[i].name) \in Int /\ i \in Int
      BY <1>1, <1>4, NamesAt
    <3> QED
      BY <1>3, <3>1
  <2>2. ASSUME NEW i \in S, NEW j \in S, i # j
        PROVE  \E p \in 1..3 : key[i][p] # key[j][p]
    <3>1. key[i][3] # key[j][3]
      BY <1>3, <2>2
    <3> QED
      BY <3>1
  <2> QED
    BY <2>1, <2>2 DEF KeysOf
<1>9. ListsBy(R, S, key)
  BY <1>2, <1>8, SortedByIs
<1> HIDE DEF R
<1>10. /\ R \in Seq(S) /\ {R[i] : i \in DOMAIN R} = S
       /\ \A i, j \in DOMAIN R : i < j => key[R[i]][1] <= key[R[j]][1]
  BY <1>9, Zenon DEF ListsBy
<1>11. /\ Len(R) \in Nat /\ DOMAIN R = 1..Len(R) /\ \A i \in DOMAIN R : R[i] \in S
  BY <1>10
<1>12. \A i, j \in DOMAIN R : i < j => held[R[i]].score >= held[R[j]].score
  <2> TAKE i, j \in DOMAIN R
  <2> HAVE i < j
  <2>1. key[R[i]][1] = -held[R[i]].score /\ key[R[j]][1] = -held[R[j]].score
    BY <1>3, <1>11
  <2>2. PICK a \in Nat, b \in Nat : a = held[R[i]].score /\ b = held[R[j]].score
    BY <1>1, <1>4, <1>11
  <2>3. key[R[i]][1] <= key[R[j]][1]
    BY <1>10
  <2>4. -a <= -b
    BY <2>1, <2>2, <2>3
  <2>5. a >= b
    BY <2>4
  <2> QED
    BY <2>2, <2>5
<1>13. /\ order \in Seq(S) /\ Len(order) = IF Len(R) < limit THEN Len(R) ELSE limit
       /\ \A i \in DOMAIN order : i \in DOMAIN R /\ order[i] = R[i]
  BY <1>5, <1>10, FirstOfIs
<1>14. order \in Seq(DOMAIN held)
  BY <1>7, <1>13
<1>15. DOMAIN order = 1..Len(order) /\ Len(order) \in Nat
  BY <1>13
<1>16. ASSUME NEW i \in DOMAIN held, held[i].score # 0, ~(\E k \in DOMAIN order : order[k] = i)
       PROVE  Len(order) = limit /\ \A k \in DOMAIN order : held[order[k]].score >= held[i].score
  <2>1. i \in S
    BY <1>6, <1>16
  <2>2. PICK j \in DOMAIN R : R[j] = i
    BY <1>10, <2>1
  <2>3. j \notin DOMAIN order
    BY <1>13, <1>16, <2>2
  <2>4. PICK a \in Nat, b \in Nat : a = Len(R) /\ b = Len(order)
    BY <1>11, <1>15
  <2>5. b = (IF a < limit THEN a ELSE limit) /\ j \in 1..a /\ j \notin 1..b
    BY <1>11, <1>13, <1>15, <2>3, <2>4
  <2>6. b = limit /\ \A m \in 1..b : m < j
    BY <2>5
  <2>7. Len(order) = limit /\ \A m \in DOMAIN order : m < j
    BY <1>15, <2>4, <2>6
  <2>8. ASSUME NEW k \in DOMAIN order PROVE held[order[k]].score >= held[i].score
    <3>1. k \in DOMAIN R /\ order[k] = R[k] /\ k < j
      BY <1>13, <2>7
    <3> QED
      BY <1>12, <2>2, <3>1
  <2> QED
    BY <2>7, <2>8
<1> QED
  BY <1>14, <1>16 DEF CtxFindsBest

\* What a store that holds held answers.
CtxAnswersFor(answer, held, mount, limit) ==
  /\ \A k \in DOMAIN answer :
       /\ answer[k].store = mount.store /\ answer[k].held \in DOMAIN held
       /\ answer[k].rank = held[answer[k].held].score + mount.priority
  /\ \A i \in DOMAIN held :
       \/ held[i].score = 0
       \/ \E k \in DOMAIN answer : answer[k].held = i
       \/ /\ Len(answer) = limit
          /\ \A k \in DOMAIN answer : answer[k].rank >= held[i].score + mount.priority

LEMMA AnswerIs ==
  ASSUME CtxTypeOK, NEW mount \in CtxMounts, NEW limit \in Nat,
         NEW held, held = ctxHeld[mount.store], NEW answer, answer = AnswerOf(mount, limit)
  PROVE  answer \in Seq(CtxAnswers) /\ CtxAnswersFor(answer, held, mount, limit)
<1>1. mount.store \in CtxStores /\ mount.priority \in Int
  BY ContextAssumption
<1>2. held \in Seq(Materials)
  BY <1>1 DEF CtxTypeOK
<1>3. \A i \in DOMAIN held : i \in Nat /\ held[i] \in Materials /\ held[i].score \in Nat
  <2>1. DOMAIN held \subseteq Nat /\ \A i \in DOMAIN held : held[i] \in Materials
    BY <1>2
  <2> QED
    BY <2>1 DEF Materials
<1>4. PICK order : order = StoreFinds(held, limit)
  OBVIOUS
<1>5. order \in Seq(DOMAIN held) /\ CtxFindsBest(order, held, limit)
  BY <1>2, <1>4, StoreFindsIs
<1>6. answer = [k \in DOMAIN order |->
                 [rank |-> held[order[k]].score + mount.priority, index |-> k,
                  store |-> mount.store, held |-> order[k], material |-> held[order[k]]]]
  BY <1>4 DEF AnswerOf
<1>7. Len(order) \in Nat /\ DOMAIN order = 1..Len(order) /\ \A k \in DOMAIN order : order[k] \in DOMAIN held
  BY <1>5
<1>8. /\ DOMAIN answer = DOMAIN order
      /\ \A k \in DOMAIN order :
           /\ answer[k] \in CtxAnswers
           /\ answer[k].store = mount.store /\ answer[k].held = order[k]
           /\ answer[k].rank = held[order[k]].score + mount.priority
  BY <1>1, <1>3, <1>6, <1>7 DEF CtxAnswers
<1>9. answer \in Seq(CtxAnswers) /\ Len(answer) = Len(order)
  <2>1. answer \in [1..Len(order) -> CtxAnswers]
    BY <1>6, <1>7, <1>8
  <2> QED
    BY <1>7, <2>1
<1>10. ASSUME NEW i \in DOMAIN held, held[i].score # 0,
              ~(\E k \in DOMAIN answer : answer[k].held = i)
       PROVE  /\ Len(answer) = limit
              /\ \A k \in DOMAIN answer : answer[k].rank >= held[i].score + mount.priority
  <2>1. Len(order) = limit /\ \A k \in DOMAIN order : held[order[k]].score >= held[i].score
    BY <1>5, <1>8, <1>10 DEF CtxFindsBest
  <2>2. ASSUME NEW k \in DOMAIN answer PROVE answer[k].rank >= held[i].score + mount.priority
    <3>1. held[order[k]].score \in Nat /\ held[i].score \in Nat
      BY <1>3, <1>7, <1>8
    <3> QED
      BY <1>1, <1>8, <2>1, <3>1
  <2> QED
    BY <1>9, <2>1, <2>2
<1>11. \A k \in DOMAIN answer :
         /\ answer[k].store = mount.store /\ answer[k].held \in DOMAIN held
         /\ answer[k].rank = held[answer[k].held].score + mount.priority
  BY <1>7, <1>8
<1> QED
  BY <1>9, <1>10, <1>11 DEF CtxAnswersFor

\* The merged and cut answers: what they leave out is behind as many as they may be.
CutFrom(found, answers, limit) ==
  /\ \A k \in DOMAIN found : \E j \in DOMAIN answers : found[k] = answers[j]
  /\ \A j \in DOMAIN answers :
       \/ \E k \in DOMAIN found : found[k] = answers[j]
       \/ Len(found) = limit /\ \A k \in DOMAIN found : found[k].rank >= answers[j].rank
  /\ \A p \in Nat, x \in Int :
       (p + limit <= Len(answers) /\ \A q \in 1..limit : answers[p + q].rank >= x) =>
         Len(found) = limit /\ \A k \in DOMAIN found : found[k].rank >= x

LEMMA CtxFoundIs ==
  ASSUME NEW sought \in CtxSearches, NEW answers, answers = sought.answers,
         NEW limit, limit = sought.query.limit, NEW found, found = CtxFound(sought)
  PROVE  found \in Seq(CtxAnswers) /\ CutFrom(found, answers, limit)
<1> DEFINE S == DOMAIN answers
           key == MergeKeys(answers)
           R == SortedBy(S, key)
           m == [k \in DOMAIN R |-> answers[R[k]]]
<1>1. answers \in Seq(CtxAnswers) /\ limit \in Nat
  BY ContextAssumption DEF CtxSearches
<1>2. PICK n \in Nat : n = Len(answers)
  BY <1>1
<1>3. S = 1..n /\ \A i \in S : answers[i] \in CtxAnswers
  BY <1>1, <1>2
<1>4. \A i \in S : /\ i \in Int /\ answers[i].rank \in Int /\ answers[i].index \in Int
                   /\ answers[i].material.name \in Range(CtxNames)
  BY <1>2, <1>3 DEF CtxAnswers, Materials
<1>5. \A i \in S : key[i] = <<-answers[i].rank, answers[i].index, NameAt(answers[i].material.name), i>>
  BY DEF MergeKeys
<1>6. found = FirstOf(limit, m)
  BY DEF CtxFound
<1> HIDE DEF S, key
<1>7. KeysOf(S, key, 4)
  <2>1. ASSUME NEW i \in S
        PROVE  DOMAIN key[i] = 1..4 /\ \A p \in 1..4 : key[i][p] \in Int
    <3>1. /\ -answers[i].rank \in Int /\ answers[i].index \in Int /\ i \in Int
          /\ NameAt(answers[i].material.name) \in Int
      BY <1>4, NamesAt
    <3> QED
      BY <1>5, <3>1
  <2>2. ASSUME NEW i \in S, NEW j \in S, i # j
        PROVE  \E p \in 1..4 : key[i][p] # key[j][p]
    <3>1. key[i][4] # key[j][4]
      BY <1>5, <2>2
    <3> QED
      BY <3>1
  <2> QED
    BY <2>1, <2>2 DEF KeysOf
<1>8. IsFiniteSet(S) /\ Cardinality(S) = n
  <2>1. 1 \in Int /\ n \in Int
    BY <1>2
  <2>2. IsFiniteSet(1..n) /\ Cardinality(1..n) = IF 1 > n THEN 0 ELSE n - 1 + 1
    BY <2>1, FS_Interval
  <2> QED
    BY <1>2, <1>3, <2>2
<1>9. ListsBy(R, S, key)
  BY <1>7, <1>8, SortedByIs
<1> HIDE DEF R
<1>10. /\ R \in Seq(S) /\ Len(R) = n /\ {R[i] : i \in DOMAIN R} = S
       /\ \A i, j \in DOMAIN R : i < j => key[R[i]][1] <= key[R[j]][1]
  BY <1>8, <1>9, Zenon DEF ListsBy
<1>11. /\ DOMAIN R = 1..n /\ \A k \in 1..n : R[k] \in S
       /\ \A j \in S : \E k \in 1..n : R[k] = j
  BY <1>2, <1>10
<1>12. \A i, j \in 1..n : i < j => answers[R[i]].rank >= answers[R[j]].rank
  <2> TAKE i, j \in 1..n
  <2> HAVE i < j
  <2>1. key[R[i]][1] = -answers[R[i]].rank /\ key[R[j]][1] = -answers[R[j]].rank
    BY <1>5, <1>11
  <2>2. PICK a \in Int, b \in Int : a = answers[R[i]].rank /\ b = answers[R[j]].rank
    BY <1>4, <1>11
  <2>3. key[R[i]][1] <= key[R[j]][1]
    BY <1>10, <1>11
  <2>4. -a <= -b
    BY <2>1, <2>2, <2>3
  <2>5. a >= b
    BY <2>4
  <2> QED
    BY <2>2, <2>5
<1>13. /\ DOMAIN m = 1..n /\ \A k \in 1..n : m[k] = answers[R[k]] /\ m[k] \in CtxAnswers
  BY <1>3, <1>11
<1>14. m \in Seq(CtxAnswers) /\ Len(m) = n
  <2>1. m \in [1..n -> CtxAnswers]
    BY <1>11, <1>13
  <2> QED
    BY <1>2, <2>1
<1> HIDE DEF m
<1>15. /\ found \in Seq(CtxAnswers) /\ Len(found) = IF n < limit THEN n ELSE limit
       /\ \A k \in DOMAIN found : k \in 1..n /\ found[k] = m[k]
  <2>1. limit \in Nat
    BY <1>1
  <2>2. /\ FirstOf(limit, m) \in Seq(CtxAnswers)
        /\ Len(FirstOf(limit, m)) = IF Len(m) < limit THEN Len(m) ELSE limit
        /\ \A i \in DOMAIN FirstOf(limit, m) : i \in DOMAIN m /\ FirstOf(limit, m)[i] = m[i]
    BY <1>14, <2>1, FirstOfIs
  <2>3. found \in Seq(CtxAnswers) /\ Len(found) = IF n < limit THEN n ELSE limit
    BY <1>6, <1>14, <2>2
  <2>4. \A k \in DOMAIN found : k \in 1..n /\ found[k] = m[k]
    BY <1>6, <1>13, <2>2
  <2> QED
    BY <2>3, <2>4
<1>16. DOMAIN found = 1..Len(found) /\ Len(found) \in Nat
  BY <1>15
<1>17. \A k \in DOMAIN found : \E j \in DOMAIN answers : found[k] = answers[j]
  BY <1>11, <1>13, <1>15 DEF S
<1>18. ASSUME NEW j \in DOMAIN answers, ~(\E k \in DOMAIN found : found[k] = answers[j])
       PROVE  Len(found) = limit /\ \A k \in DOMAIN found : found[k].rank >= answers[j].rank
  <2>1. PICK l \in 1..n : R[l] = j
    BY <1>11 DEF S
  <2>2. l \notin DOMAIN found
    BY <1>13, <1>15, <1>18, <2>1
  <2>3. Len(found) = limit /\ \A k \in DOMAIN found : k < l
    BY <1>1, <1>2, <1>15, <1>16, <2>2
  <2> QED
    BY <1>12, <1>13, <1>15, <2>1, <2>3
<1>19. ASSUME NEW p \in Nat, NEW x \in Int, p + limit <= Len(answers),
              \A q \in 1..limit : answers[p + q].rank >= x
       PROVE  Len(found) = limit /\ \A k \in DOMAIN found : found[k].rank >= x
  <2> DEFINE v == [i \in 1..n |-> answers[i].rank]
  <2>1. v \in [1..n -> Int]
    BY <1>3, <1>4
  <2>2. R \in [1..n -> 1..n]
    BY <1>2, <1>3, <1>10, <1>11
  <2>3. \A j \in 1..n : \E k \in 1..n : R[k] = j
    BY <1>3, <1>11
  <2>4. \A i, j \in 1..n : i < j => v[R[i]] >= v[R[j]]
    BY <1>3, <1>11, <1>12
  <2>5. p + limit <= n /\ \A q \in 1..limit : v[p + q] >= x
    <3>1. \A q \in 1..limit : p + q \in 1..n
      BY <1>1, <1>2, <1>19
    <3> QED
      BY <1>2, <1>19, <3>1
  <2>6. \A k \in 1..n : v[R[k]] = answers[R[k]].rank
    BY <1>3, <1>11
  <2> HIDE DEF v
  <2>7. \A k \in 1..n : k <= limit => v[R[k]] >= x
    BY <1>1, <1>2, <2>1, <2>2, <2>3, <2>4, <2>5, SortedBlock
  <2>8. Len(found) = limit
    BY <1>1, <1>2, <1>15, <2>5
  <2>9. \A k \in DOMAIN found : k \in 1..n /\ k <= limit
    BY <1>15, <1>16, <2>8
  <2> QED
    BY <1>13, <1>15, <2>6, <2>7, <2>8, <2>9
<1> QED
  BY <1>15, <1>17, <1>18, <1>19 DEF CutFrom

-----------------------------------------------------------------------------
(* The invariant of a search.                                               *)

\* A match of an asked mount is among the answers, or behind as many as may be found.
CtxConsidered(held, sought, mount, i) ==
  \/ held[mount.store][i].score = 0
  \/ \E n \in DOMAIN sought.answers :
       /\ sought.answers[n].store = mount.store /\ sought.answers[n].held = i
       /\ sought.answers[n].rank = held[mount.store][i].score + mount.priority
  \/ \E p \in Nat : /\ p + sought.query.limit <= Len(sought.answers)
                    /\ \A q \in 1..sought.query.limit :
                         sought.answers[p + q].rank >= held[mount.store][i].score + mount.priority

CtxBest(held, sought, mount, i) ==
  \/ held[mount.store][i].score = 0
  \/ \E n \in DOMAIN sought.answers : sought.answers[n].store = mount.store /\ sought.answers[n].held = i
  \/ /\ Len(sought.answers) = sought.query.limit
     /\ \A n \in DOMAIN sought.answers :
          sought.answers[n].rank >= held[mount.store][i].score + mount.priority

\* Every store of the plan has failed, was asked, or is left.
AllPlanned(sought) ==
  sought.plan = sought.failed \cup {sought.asked[k].name : k \in DOMAIN sought.asked}
                          \cup {sought.left[i] : i \in DOMAIN sought.left}

CtxSearchOK(known, held, sought) ==
  /\ \A s \in CtxStores : sought.from[s] <= Len(held[s])
  /\ \A i \in DOMAIN sought.left : sought.left[i] \in known
  /\ AllPlanned(sought)
  /\ sought.at = "search" =>
       \A k \in DOMAIN sought.asked : \A i \in 1..sought.from[sought.asked[k].store] :
         CtxConsidered(held, sought, sought.asked[k], i)
  /\ sought.at = "search" <=> sought.left # << >>
  /\ sought.at = "found" =>
       \A k \in DOMAIN sought.asked : \A i \in 1..sought.from[sought.asked[k].store] :
         CtxBest(held, sought, sought.asked[k], i)

\* A selection is what the selector makes of its materials.
CtxSelectionOK(sought) == sought.chosen = SelectedOf(sought.materials, sought.limits)

CtxInv ==
  /\ CtxTypeOK
  /\ ctxTurn.at \in {"search", "found"} => CtxSearchOK(DOMAIN ctxMounts, ctxHeld, ctxTurn)
  /\ ctxTurn.at = "selected" => CtxSelectionOK(ctxTurn)

\* What is needed of a turn that goes on, or is done.
CtxGoesOn(known, held, sought) ==
  /\ sought.at = "search"
  /\ \A s \in CtxStores : sought.from[s] <= Len(held[s])
  /\ \A i \in DOMAIN sought.left : sought.left[i] \in known
  /\ AllPlanned(sought)
  /\ \A k \in DOMAIN sought.asked : \A i \in 1..sought.from[sought.asked[k].store] :
       CtxConsidered(held, sought, sought.asked[k], i)

LEMMA AnsweredHolds ==
  ASSUME NEW known, NEW held \in [CtxStores -> Seq(Materials)], NEW sought \in CtxSearches,
         CtxGoesOn(known, held, sought), NEW next, next = Answered(sought)
  PROVE  next \in CtxSearches /\ CtxSearchOK(known, held, next)
<1>1. CASE sought.left # << >>
  <2>1. next = sought
    BY <1>1 DEF Answered
  <2> QED
    BY <1>1, <2>1 DEF CtxGoesOn, CtxSearchOK
<1>2. CASE sought.left = << >>
  <2>1. PICK found : found = CtxFound(sought)
    OBVIOUS
  <2>2. PICK answers : answers = sought.answers
    OBVIOUS
  <2>3. PICK limit : limit = sought.query.limit
    OBVIOUS
  <2>4. found \in Seq(CtxAnswers) /\ CutFrom(found, answers, limit)
    BY <2>1, <2>2, <2>3, CtxFoundIs
  <2>5. next = [sought EXCEPT !.at = "found", !.answers = found]
    BY <1>2, <2>1 DEF Answered
  <2>6. /\ next \in CtxSearches
        /\ next.at = "found" /\ next.answers = found /\ next.query = sought.query
        /\ next.left = sought.left /\ next.plan = sought.plan /\ next.failed = sought.failed
        /\ next.asked = sought.asked /\ next.from = sought.from
    BY <2>4, <2>5 DEF CtxSearches
  <2>7. AllPlanned(next)
    BY <2>6 DEF CtxGoesOn, AllPlanned
  <2>8. ASSUME NEW k \in DOMAIN next.asked, NEW i \in 1..next.from[next.asked[k].store]
        PROVE  CtxBest(held, next, next.asked[k], i)
    <3>1. PICK mount : mount = next.asked[k]
      OBVIOUS
    <3>2. mount \in CtxMounts /\ mount = sought.asked[k] /\ k \in DOMAIN sought.asked
      BY <2>6, <3>1 DEF CtxSearches
    <3>3. CtxConsidered(held, sought, mount, i)
      BY <2>6, <2>8, <3>1, <3>2 DEF CtxGoesOn
    <3>4. PICK rank : rank = held[mount.store][i].score + mount.priority
      OBVIOUS
    <3>5. rank \in Int
      <4>1. mount.store \in CtxStores /\ mount.priority \in Int
        BY <3>2, ContextAssumption
      <4>2. /\ held[mount.store] \in Seq(Materials)
            /\ sought.from[mount.store] \in Nat /\ sought.from[mount.store] <= Len(held[mount.store])
        BY <4>1 DEF CtxSearches, CtxGoesOn
      <4>3. i \in DOMAIN held[mount.store]
        BY <2>6, <2>8, <3>1, <4>2
      <4>4. held[mount.store][i] \in Materials
        BY <4>2, <4>3
      <4> QED
        BY <3>4, <4>1, <4>4 DEF Materials
    <3>6. CASE \E n \in DOMAIN answers : answers[n].store = mount.store /\ answers[n].held = i
                                         /\ answers[n].rank = rank
      <4>1. PICK n \in DOMAIN answers : answers[n].store = mount.store /\ answers[n].held = i
                                        /\ answers[n].rank = rank
        BY <3>6
      <4>2. \/ \E m \in DOMAIN found : found[m] = answers[n]
            \/ Len(found) = limit /\ \A m \in DOMAIN found : found[m].rank >= rank
        BY <2>4, <4>1 DEF CutFrom
      <4> QED
        BY <2>3, <2>6, <3>1, <3>4, <4>1, <4>2 DEF CtxBest
    <3>7. CASE \E p \in Nat : p + limit <= Len(answers) /\ \A q \in 1..limit : answers[p + q].rank >= rank
      <4>1. Len(found) = limit /\ \A m \in DOMAIN found : found[m].rank >= rank
        BY <2>4, <3>5, <3>7 DEF CutFrom
      <4> QED
        BY <2>3, <2>6, <3>1, <3>4, <4>1 DEF CtxBest
    <3>8. CASE held[mount.store][i].score = 0
      BY <3>1, <3>8 DEF CtxBest
    <3> QED
      BY <2>2, <2>3, <3>3, <3>4, <3>6, <3>7, <3>8 DEF CtxConsidered
  <2> QED
    BY <1>2, <2>6, <2>7, <2>8 DEF CtxGoesOn, CtxSearchOK
<1> QED
  BY <1>1, <1>2

\* What holds of a search goes on to hold when stores get more.
LEMMA CtxSearchOfMore ==
  ASSUME NEW known, NEW held \in [CtxStores -> Seq(Materials)],
         NEW more \in [CtxStores -> Seq(Materials)], NEW moreMounts, known \subseteq moreMounts,
         \A s \in CtxStores : Len(held[s]) <= Len(more[s]),
         \A s \in CtxStores : \A i \in DOMAIN held[s] : more[s][i] = held[s][i],
         NEW sought \in CtxSearches, CtxSearchOK(known, held, sought)
  PROVE  CtxSearchOK(moreMounts, more, sought)
<1>1. \A s \in CtxStores : /\ sought.from[s] \in Nat /\ Len(held[s]) \in Nat /\ Len(more[s]) \in Nat
                           /\ DOMAIN held[s] = 1..Len(held[s])
  BY DEF CtxSearches
<1>2. \A s \in CtxStores : sought.from[s] <= Len(held[s])
  BY DEF CtxSearchOK
<1>3. ASSUME NEW k \in DOMAIN sought.asked, NEW i \in 1..sought.from[sought.asked[k].store]
      PROVE  more[sought.asked[k].store][i] = held[sought.asked[k].store][i]
  <2>1. sought.asked[k] \in CtxMounts
    BY DEF CtxSearches
  <2>2. sought.asked[k].store \in CtxStores
    BY <2>1, ContextAssumption
  <2> QED
    BY <1>1, <1>2, <2>2
<1>4. ASSUME NEW k \in DOMAIN sought.asked, NEW i \in 1..sought.from[sought.asked[k].store]
      PROVE  /\ CtxConsidered(held, sought, sought.asked[k], i) => CtxConsidered(more, sought, sought.asked[k], i)
             /\ CtxBest(held, sought, sought.asked[k], i) => CtxBest(more, sought, sought.asked[k], i)
  BY <1>3, Zenon DEF CtxConsidered, CtxBest
<1>5. \A s \in CtxStores : sought.from[s] <= Len(more[s])
  BY <1>1, <1>2
<1> QED
  BY <1>4, <1>5 DEF CtxSearchOK

-----------------------------------------------------------------------------
(* Steps of a search.                                                       *)

\* An action that changes the turn alone, to a search that holds.
LEMMA CtxTurnStep ==
  ASSUME CtxInv, UNCHANGED <<ctxMounts, ctxHeld>>, ctxTurn' \in CtxSearches,
         CtxSearchOK(DOMAIN ctxMounts, ctxHeld, ctxTurn')
  PROVE  CtxInv'
<1>1. CtxTypeOK'
  BY DEF CtxInv, CtxTypeOK, CtxMountsOK
<1>2. ctxTurn'.at # "selected"
  BY DEF CtxSearches
<1> QED
  BY <1>1, <1>2 DEF CtxInv

\* What a turn is, where its place says so.
LEMMA TurnAt ==
  ASSUME CtxTypeOK
  PROVE  /\ ctxTurn.at \in {"search", "found"} => ctxTurn \in CtxSearches
         /\ ctxTurn.at = "selected" => ctxTurn \in CtxSelections
  BY DEF CtxTypeOK, NoTurn, CtxSearches, CtxSelections

\* Mounts and what stores hold only grow: the turn stays as good.
LEMMA CtxGrows ==
  ASSUME CtxInv, CtxTypeOK', UNCHANGED ctxTurn, DOMAIN ctxMounts \subseteq DOMAIN ctxMounts',
         \A s \in CtxStores : Len(ctxHeld[s]) <= Len(ctxHeld'[s]),
         \A s \in CtxStores : \A i \in DOMAIN ctxHeld[s] : ctxHeld'[s][i] = ctxHeld[s][i]
  PROVE  CtxInv'
<1>1. ctxHeld \in [CtxStores -> Seq(Materials)] /\ ctxHeld' \in [CtxStores -> Seq(Materials)]
  BY DEF CtxInv, CtxTypeOK
<1>2. CASE ctxTurn.at \in {"search", "found"}
  <2>1. PICK sought : sought = ctxTurn
    OBVIOUS
  <2>2. PICK known : known = DOMAIN ctxMounts
    OBVIOUS
  <2>3. PICK moreMounts : moreMounts = DOMAIN ctxMounts'
    OBVIOUS
  <2>4. sought \in CtxSearches /\ CtxSearchOK(known, ctxHeld, sought)
    BY <1>2, <2>1, <2>2, TurnAt DEF CtxInv
  <2>5. CtxSearchOK(moreMounts, ctxHeld', sought)
    BY <1>1, <2>2, <2>3, <2>4, CtxSearchOfMore
  <2>6. ctxTurn'.at # "selected"
    BY <1>2
  <2> QED
    BY <2>1, <2>3, <2>5, <2>6 DEF CtxInv
<1>3. CASE ~(ctxTurn.at \in {"search", "found"})
  BY <1>3 DEF CtxInv
<1> QED
  BY <1>2, <1>3

LEMMA RegisterHolds ==
  ASSUME CtxInv, NEW mount \in CtxMounts, RegisterMount(mount)
  PROVE  CtxInv'
<1>1. /\ DOMAIN ctxMounts' = DOMAIN ctxMounts \cup {mount.name}
      /\ \A name \in DOMAIN ctxMounts' :
           ctxMounts'[name] = IF name = mount.name THEN mount ELSE ctxMounts[name]
      /\ ctxHeld' = ctxHeld /\ ctxTurn' = ctxTurn
  BY DEF RegisterMount
<1>2. CtxMountsOK'
  <2>1. IsFiniteSet(DOMAIN ctxMounts')
    <3>1. IsFiniteSet(DOMAIN ctxMounts)
      BY DEF CtxInv, CtxTypeOK, CtxMountsOK
    <3>2. PICK old : old = DOMAIN ctxMounts
      OBVIOUS
    <3>3. PICK name : name = mount.name
      OBVIOUS
    <3>4. IsFiniteSet(old \cup {name})
      BY <3>1, <3>2, FS_AddElement
    <3> QED
      BY <1>1, <3>2, <3>3, <3>4
  <2> QED
    BY <1>1, <2>1 DEF CtxInv, CtxTypeOK, CtxMountsOK
<1>3. CtxTypeOK'
  BY <1>1, <1>2 DEF CtxInv, CtxTypeOK
<1>4. \A s \in CtxStores : Len(ctxHeld[s]) <= Len(ctxHeld'[s])
  <2>1. \A s \in CtxStores : Len(ctxHeld[s]) \in Nat
    BY DEF CtxInv, CtxTypeOK
  <2> QED
    BY <1>1, <2>1
<1> QED
  BY <1>1, <1>3, <1>4, CtxGrows

LEMMA WriteHolds ==
  ASSUME CtxInv, NEW material \in CtxMaterials, WriteMaterial(material)
  PROVE  CtxInv'
<1>1. PICK mount : mount = CtxWriteMount(DefaultMount)
  OBVIOUS
<1>2. PICK store : store = Head(mount).store
  OBVIOUS
<1>3. /\ mount # << >> /\ ctxHeld' = [ctxHeld EXCEPT ![store] = Append(@, material)]
      /\ ctxMounts' = ctxMounts /\ ctxTurn' = ctxTurn
  BY <1>1, <1>2 DEF WriteMaterial
<1>4. store \in CtxStores
  <2>1. Head(mount) \in CtxMounts
    BY <1>1, <1>3, CtxWriteIs DEF CtxInv, CtxTypeOK
  <2> QED
    BY <1>2, <2>1, ContextAssumption
<1>5. ctxHeld \in [CtxStores -> Seq(Materials)] /\ material \in Materials
  BY ContextAssumption DEF CtxInv, CtxTypeOK
<1>6. /\ ctxHeld' \in [CtxStores -> Seq(Materials)]
      /\ ctxHeld'[store] = Append(ctxHeld[store], material)
      /\ \A s \in CtxStores : s # store => ctxHeld'[s] = ctxHeld[s]
  BY <1>3, <1>4, <1>5
<1>7. CtxTypeOK'
  BY <1>3, <1>6 DEF CtxInv, CtxTypeOK, CtxMountsOK
<1>8. \A s \in CtxStores : /\ Len(ctxHeld[s]) <= Len(ctxHeld'[s])
                           /\ \A i \in DOMAIN ctxHeld[s] : ctxHeld'[s][i] = ctxHeld[s][i]
  <2> TAKE s \in CtxStores
  <2>1. ctxHeld[s] \in Seq(Materials)
    BY <1>5
  <2>2. PICK q : q = ctxHeld[s]
    OBVIOUS
  <2>3. Len(q) \in Nat /\ Len(Append(q, material)) = Len(q) + 1
        /\ \A i \in DOMAIN q : Append(q, material)[i] = q[i]
    BY <2>1, <2>2
  <2>4. ctxHeld'[s] = q \/ ctxHeld'[s] = Append(q, material)
    BY <1>6, <2>2
  <2> QED
    BY <2>2, <2>3, <2>4
<1> QED
  BY <1>3, <1>7, <1>8, CtxGrows

LEMMA SearchesHolds ==
  ASSUME CtxInv, NEW query \in CtxQueries, NEW given \in GivenMaterials, TurnSearches(query, given)
  PROVE  CtxInv'
<1>1. PICK plan : plan = CtxReadable(query)
  OBVIOUS
<1>2. plan \in Seq(CtxMounts) /\ \A i \in DOMAIN plan : plan[i].name \in DOMAIN ctxMounts
  BY <1>1, CtxReadableIs DEF CtxInv, CtxTypeOK
<1>3. PICK names : names = [i \in DOMAIN plan |-> plan[i].name]
  OBVIOUS
<1>4. PICK all : all = {m.name : m \in Range(plan)}
  OBVIOUS
<1>5. PICK from : from = [s \in CtxStores |-> Len(ctxHeld[s])]
  OBVIOUS
<1>6. PICK sought : sought = [at |-> "search", query |-> query, given |-> given, left |-> names,
                          plan |-> all, failed |-> {}, answers |-> << >>, asked |-> << >>,
                          from |-> from]
  OBVIOUS
<1>7. ctxTurn' = Answered(sought) /\ ctxMounts' = ctxMounts /\ ctxHeld' = ctxHeld
  BY <1>1, <1>3, <1>4, <1>5, <1>6 DEF TurnSearches
<1>8. /\ DOMAIN plan = 1..Len(plan) /\ Len(plan) \in Nat
      /\ \A i \in DOMAIN plan : plan[i].name \in Range(CtxNames)
  BY <1>2, ContextAssumption
<1>9. /\ names \in Seq(Range(CtxNames)) /\ DOMAIN names = DOMAIN plan
      /\ \A i \in DOMAIN names : names[i] = plan[i].name
  BY <1>3, <1>8
<1>10. all = {names[i] : i \in DOMAIN names} /\ all \subseteq Range(CtxNames)
  <2>1. Range(plan) = {plan[i] : i \in DOMAIN plan}
    BY DEF Range
  <2>2. \A n : n \in all <=> \E i \in DOMAIN plan : n = plan[i].name
    BY <1>4, <2>1
  <2> QED
    BY <1>8, <1>9, <2>2
<1>11. ctxHeld \in [CtxStores -> Seq(Materials)]
  BY DEF CtxInv, CtxTypeOK
<1>12. from \in [CtxStores -> Nat] /\ \A s \in CtxStores : from[s] = Len(ctxHeld[s])
  BY <1>5, <1>11
<1>13. sought \in CtxSearches
  <2>1. given \in Seq(Materials) /\ << >> \in Seq(CtxAnswers) /\ << >> \in Seq(CtxMounts)
    BY ContextAssumption
  <2> QED
    BY <1>6, <1>9, <1>10, <1>12, <2>1 DEF CtxSearches
<1>14. CtxGoesOn(DOMAIN ctxMounts, ctxHeld, sought)
  <2>1. AllPlanned(sought)
    BY <1>6, <1>10 DEF AllPlanned
  <2>2. \A s \in CtxStores : sought.from[s] <= Len(ctxHeld[s])
    <3>1. \A s \in CtxStores : Len(ctxHeld[s]) \in Nat
      BY <1>11
    <3> QED
      BY <1>6, <1>12, <3>1
  <2>3. \A i \in DOMAIN sought.left : sought.left[i] \in DOMAIN ctxMounts
    BY <1>2, <1>6, <1>9
  <2>4. sought.asked = << >> /\ sought.at = "search"
    BY <1>6
  <2> QED
    BY <2>1, <2>2, <2>3, <2>4 DEF CtxGoesOn
<1>15. PICK next : next = Answered(sought)
  OBVIOUS
<1>16. next \in CtxSearches /\ CtxSearchOK(DOMAIN ctxMounts, ctxHeld, next)
  BY <1>11, <1>13, <1>14, <1>15, AnsweredHolds
<1> QED
  BY <1>7, <1>15, <1>16, CtxTurnStep

\* The first of a list that has some, and what is left.
Parts(s, h, t, S) ==
  /\ h \in S /\ t \in Seq(S)
  /\ h \in {s[i] : i \in DOMAIN s}
  /\ {s[i] : i \in DOMAIN s} = {h} \cup {t[i] : i \in DOMAIN t}

LEMMA HeadAndTail ==
  ASSUME NEW S, NEW s \in Seq(S), s # << >>
  PROVE  Parts(s, Head(s), Tail(s), S)
<1> PICK h : h = Head(s)
  OBVIOUS
<1> PICK t : t = Tail(s)
  OBVIOUS
<1>1. /\ 1 \in DOMAIN s /\ Head(s) = s[1] /\ Tail(s) \in Seq(S) /\ Head(s) \in S
      /\ DOMAIN s = 1..Len(s) /\ Len(s) \in Nat
      /\ DOMAIN Tail(s) = 1..(Len(s) - 1)
      /\ \A i \in 1..(Len(s) - 1) : Tail(s)[i] = s[i + 1]
  OBVIOUS
<1>3. ASSUME NEW i \in DOMAIN s PROVE s[i] = h \/ \E j \in DOMAIN t : t[j] = s[i]
  <2>1. CASE i = 1
    BY <1>1, <2>1
  <2>2. CASE i # 1
    <3>1. i - 1 \in DOMAIN t /\ (i - 1) + 1 = i
      BY <1>1, <2>2
    <3>2. t[i - 1] = s[i]
      BY <1>1, <3>1
    <3> QED
      BY <3>1, <3>2
  <2> QED
    BY <2>1, <2>2
<1>4. ASSUME NEW j \in DOMAIN t PROVE \E i \in DOMAIN s : t[j] = s[i]
  <2>1. j + 1 \in DOMAIN s /\ t[j] = s[j + 1]
    BY <1>1
  <2> QED
    BY <2>1
<1>5. {s[i] : i \in DOMAIN s} = {h} \cup {t[i] : i \in DOMAIN t}
  <2> DEFINE all == {s[i] : i \in DOMAIN s}
             rest == {t[i] : i \in DOMAIN t}
  <2>1. /\ \A x : x \in all <=> \E i \in DOMAIN s : x = s[i]
        /\ \A x : x \in rest <=> \E i \in DOMAIN t : x = t[i]
    OBVIOUS
  <2> HIDE DEF all, rest
  <2>2. h \in all
    BY <1>1, <2>1
  <2>3. \A x \in rest : x \in all
    BY <1>4, <2>1
  <2>4. \A x \in all : x = h \/ x \in rest
    BY <1>3, <2>1
  <2>5. all = {h} \cup rest
    BY <2>2, <2>3, <2>4
  <2> QED
    BY <2>5 DEF all, rest
<1>6. h \in {s[i] : i \in DOMAIN s}
  BY <1>1
<1>7. Parts(s, h, t, S)
  BY <1>1, <1>5, <1>6, Zenon DEF Parts
<1> QED
  BY <1>7

LEMMA AnswersHolds ==
  ASSUME CtxInv, StoreAnswers
  PROVE  CtxInv'
<1>1. PICK old : old = ctxTurn
  OBVIOUS
<1>2. PICK known : known = DOMAIN ctxMounts
  OBVIOUS
<1>3. PICK held : held = ctxHeld
  OBVIOUS
<1>4. /\ old.at = "search" /\ old \in CtxSearches /\ CtxSearchOK(known, held, old)
      /\ held \in [CtxStores -> Seq(Materials)]
  BY <1>1, <1>2, <1>3, TurnAt DEF StoreAnswers, CtxInv, CtxTypeOK
<1>5. PICK limit : limit = old.query.limit
  OBVIOUS
<1>6. /\ old.left \in Seq(Range(CtxNames)) /\ old.left # << >> /\ limit \in Nat
      /\ old.answers \in Seq(CtxAnswers) /\ old.asked \in Seq(CtxMounts)
      /\ old.from \in [CtxStores -> Nat]
      /\ \A i \in DOMAIN old.left : old.left[i] \in known
  BY <1>4, <1>5, ContextAssumption DEF CtxSearches, CtxSearchOK
<1>7. PICK name : name = Head(old.left)
  OBVIOUS
<1>8. PICK left : left = Tail(old.left)
  OBVIOUS
<1>9. /\ left \in Seq(Range(CtxNames)) /\ name \in known
      /\ {old.left[i] : i \in DOMAIN old.left} = {name} \cup {left[i] : i \in DOMAIN left}
      /\ \A i \in DOMAIN left : left[i] \in known
  <2>1. /\ name \in {old.left[i] : i \in DOMAIN old.left} /\ left \in Seq(Range(CtxNames))
        /\ {old.left[i] : i \in DOMAIN old.left} = {name} \cup {left[i] : i \in DOMAIN left}
    <3>1. Parts(old.left, name, left, Range(CtxNames))
      BY <1>6, <1>7, <1>8, HeadAndTail
    <3> QED
      BY <3>1, Zenon DEF Parts
  <2>2. \A i \in DOMAIN left : left[i] \in {old.left[j] : j \in DOMAIN old.left}
    BY <2>1
  <2> QED
    BY <1>6, <2>1, <2>2
<1>10. PICK mount : mount = ctxMounts[name]
  OBVIOUS
<1>11. mount \in CtxMounts /\ mount.name = name
  BY <1>2, <1>9, <1>10 DEF CtxInv, CtxTypeOK, CtxMountsOK
<1>12. mount.store \in CtxStores
  BY <1>11, ContextAssumption
<1>13. PICK answer : answer = AnswerOf(mount, limit)
  OBVIOUS
<1>14. PICK mine : mine = held[mount.store]
  OBVIOUS
<1>15. answer \in Seq(CtxAnswers) /\ CtxAnswersFor(answer, mine, mount, limit)
  BY <1>3, <1>6, <1>11, <1>13, <1>14, AnswerIs DEF CtxInv
<1>16. PICK answers : answers = old.answers \o answer
  OBVIOUS
<1>17. PICK asked : asked = Append(old.asked, mount)
  OBVIOUS
<1>18. /\ answers \in Seq(CtxAnswers) /\ Len(answers) = Len(old.answers) + Len(answer)
       /\ Len(old.answers) \in Nat /\ Len(answer) \in Nat
       /\ DOMAIN old.answers = 1..Len(old.answers) /\ DOMAIN answer = 1..Len(answer)
       /\ DOMAIN answers = 1..(Len(old.answers) + Len(answer))
       /\ \A n \in DOMAIN old.answers : answers[n] = old.answers[n]
       /\ \A n \in DOMAIN answer : answers[Len(old.answers) + n] = answer[n]
  BY <1>6, <1>15, <1>16
<1>19. /\ asked \in Seq(CtxMounts) /\ DOMAIN asked = 1..(Len(old.asked) + 1) /\ Len(old.asked) \in Nat
       /\ DOMAIN old.asked = 1..Len(old.asked)
       /\ \A k \in DOMAIN old.asked : asked[k] = old.asked[k]
       /\ asked[Len(old.asked) + 1] = mount
  BY <1>6, <1>11, <1>17
<1>20. PICK sought : sought = [old EXCEPT !.answers = answers, !.asked = asked, !.left = left]
  OBVIOUS
<1>21. /\ ctxTurn' = Answered(sought) /\ ctxMounts' = ctxMounts /\ ctxHeld' = ctxHeld
  BY <1>1, <1>5, <1>7, <1>8, <1>10, <1>13, <1>16, <1>17, <1>20 DEF StoreAnswers
<1>22. /\ sought \in CtxSearches /\ sought.at = "search" /\ sought.answers = answers
       /\ sought.asked = asked /\ sought.left = left /\ sought.plan = old.plan /\ sought.failed = old.failed
       /\ sought.from = old.from /\ sought.query = old.query
  BY <1>4, <1>9, <1>18, <1>19, <1>20 DEF CtxSearches
<1>23. AllPlanned(sought)
  <2>1. {asked[k].name : k \in DOMAIN asked} = {old.asked[k].name : k \in DOMAIN old.asked} \cup {name}
    <3>1. \A k \in DOMAIN asked : k \in DOMAIN old.asked \/ k = Len(old.asked) + 1
      BY <1>19
    <3>2. \A k \in DOMAIN old.asked : k \in DOMAIN asked
      BY <1>19
    <3>3. Len(old.asked) + 1 \in DOMAIN asked
      BY <1>19
    <3> QED
      BY <1>11, <1>19, <3>1, <3>2, <3>3
  <2>2. old.plan = old.failed \cup {old.asked[k].name : k \in DOMAIN old.asked}
                              \cup {old.left[i] : i \in DOMAIN old.left}
    BY <1>4 DEF CtxSearchOK, AllPlanned
  <2>3. sought.plan = sought.failed \cup {asked[k].name : k \in DOMAIN asked}
                                \cup {left[i] : i \in DOMAIN left}
    BY <1>9, <1>22, <2>1, <2>2
  <2> QED
    BY <1>22, <2>3 DEF AllPlanned
<1>24. \A s \in CtxStores : sought.from[s] <= Len(held[s])
  BY <1>4, <1>22 DEF CtxSearchOK
<1>25. ASSUME NEW k \in DOMAIN old.asked, NEW i \in 1..old.from[old.asked[k].store]
       PROVE  CtxConsidered(held, sought, old.asked[k], i)
  <2>1. PICK m : m = old.asked[k]
    OBVIOUS
  <2>2. CtxConsidered(held, old, m, i)
    BY <1>4, <1>25, <2>1 DEF CtxSearchOK
  <2>3. PICK rank : rank = held[m.store][i].score + m.priority
    OBVIOUS
  <2>4. CASE \E n \in DOMAIN old.answers :
               /\ old.answers[n].store = m.store /\ old.answers[n].held = i
               /\ old.answers[n].rank = rank
    <3>1. PICK n \in DOMAIN old.answers :
               /\ old.answers[n].store = m.store /\ old.answers[n].held = i
               /\ old.answers[n].rank = rank
      BY <2>4
    <3>2. n \in DOMAIN answers /\ answers[n] = old.answers[n]
      BY <1>18
    <3> QED
      BY <1>22, <2>1, <2>3, <3>1, <3>2 DEF CtxConsidered
  <2>5. CASE \E p \in Nat : /\ p + limit <= Len(old.answers)
                            /\ \A q \in 1..limit : old.answers[p + q].rank >= rank
    <3>1. PICK p \in Nat : /\ p + limit <= Len(old.answers)
                           /\ \A q \in 1..limit : old.answers[p + q].rank >= rank
      BY <2>5
    <3>2. p + limit <= Len(answers)
      BY <1>6, <1>18, <3>1
    <3>3. \A q \in 1..limit : p + q \in DOMAIN old.answers
      BY <1>6, <1>18, <3>1
    <3>4. \A q \in 1..limit : answers[p + q].rank >= rank
      BY <1>18, <3>1, <3>3
    <3> QED
      BY <1>5, <1>22, <2>1, <2>3, <3>2, <3>4 DEF CtxConsidered
  <2>6. CASE held[m.store][i].score = 0
    BY <2>1, <2>6 DEF CtxConsidered
  <2> QED
    BY <1>5, <2>2, <2>3, <2>4, <2>5, <2>6 DEF CtxConsidered
<1>26. ASSUME NEW i \in 1..old.from[mount.store]
       PROVE  CtxConsidered(held, sought, mount, i)
  <2>1. i \in DOMAIN mine
    <3>1. mine \in Seq(Materials) /\ old.from[mount.store] \in Nat
          /\ old.from[mount.store] <= Len(mine)
      BY <1>4, <1>6, <1>12, <1>14 DEF CtxSearchOK
    <3> QED
      BY <3>1
  <2>2. PICK rank : rank = held[mount.store][i].score + mount.priority
    OBVIOUS
  <2>3. \/ mine[i].score = 0
        \/ \E k \in DOMAIN answer : answer[k].held = i
        \/ Len(answer) = limit /\ \A k \in DOMAIN answer : answer[k].rank >= rank
    BY <1>14, <1>15, <2>1, <2>2 DEF CtxAnswersFor
  <2>4. CASE mine[i].score = 0
    BY <1>14, <2>4 DEF CtxConsidered
  <2>5. CASE \E k \in DOMAIN answer : answer[k].held = i
    <3>1. PICK k \in DOMAIN answer : answer[k].held = i
      BY <2>5
    <3>2. answer[k].store = mount.store /\ answer[k].rank = rank
      BY <1>14, <1>15, <2>2, <3>1 DEF CtxAnswersFor
    <3>3. Len(old.answers) + k \in DOMAIN answers /\ answers[Len(old.answers) + k] = answer[k]
      BY <1>18
    <3> QED
      BY <1>22, <2>2, <3>1, <3>2, <3>3 DEF CtxConsidered
  <2>6. CASE Len(answer) = limit /\ \A k \in DOMAIN answer : answer[k].rank >= rank
    <3>1. PICK p \in Nat : p = Len(old.answers)
      BY <1>18
    <3>3. p + limit <= Len(answers)
      BY <1>18, <2>6, <3>1
    <3>4. \A q \in 1..limit : q \in DOMAIN answer /\ answers[p + q] = answer[q]
      BY <1>18, <2>6, <3>1
    <3>2. p + limit <= Len(answers) /\ \A q \in 1..limit : answers[p + q].rank >= rank
      BY <2>6, <3>3, <3>4
    <3> QED
      BY <1>5, <1>22, <2>2, <3>1, <3>2 DEF CtxConsidered
  <2> QED
    BY <2>3, <2>4, <2>5, <2>6
<1>27. \A k \in DOMAIN sought.asked : \A i \in 1..sought.from[sought.asked[k].store] :
         CtxConsidered(held, sought, sought.asked[k], i)
  <2> SUFFICES ASSUME NEW k \in DOMAIN asked, NEW i \in 1..old.from[asked[k].store]
               PROVE  CtxConsidered(held, sought, asked[k], i)
    BY <1>22
  <2>1. k \in DOMAIN old.asked \/ k = Len(old.asked) + 1
    BY <1>19
  <2>2. CASE k \in DOMAIN old.asked
    <3>1. asked[k] = old.asked[k]
      BY <1>19, <2>2
    <3> QED
      BY <1>25, <2>2, <3>1
  <2>3. CASE k = Len(old.asked) + 1
    <3>1. asked[k] = mount
      BY <1>19, <2>3
    <3> QED
      BY <1>26, <3>1
  <2> QED
    BY <2>1, <2>2, <2>3
<1>28. CtxGoesOn(known, held, sought)
  BY <1>9, <1>22, <1>23, <1>24, <1>27 DEF CtxGoesOn
<1>29. PICK next : next = Answered(sought)
  OBVIOUS
<1>30. next \in CtxSearches /\ CtxSearchOK(known, held, next)
  BY <1>4, <1>22, <1>28, <1>29, AnsweredHolds
<1> QED
  BY <1>2, <1>3, <1>21, <1>29, <1>30, CtxTurnStep

LEMMA FailsHolds ==
  ASSUME CtxInv, StoreFails
  PROVE  CtxInv'
<1>1. PICK old : old = ctxTurn
  OBVIOUS
<1>2. PICK known : known = DOMAIN ctxMounts
  OBVIOUS
<1>3. PICK held : held = ctxHeld
  OBVIOUS
<1>4. /\ old.at = "search" /\ old \in CtxSearches /\ CtxSearchOK(known, held, old)
      /\ held \in [CtxStores -> Seq(Materials)]
  BY <1>1, <1>2, <1>3, TurnAt DEF StoreFails, CtxInv, CtxTypeOK
<1>5. PICK name : name = Head(old.left)
  OBVIOUS
<1>6. PICK left : left = Tail(old.left)
  OBVIOUS
<1>7. /\ left \in Seq(Range(CtxNames)) /\ name \in Range(CtxNames)
      /\ {old.left[i] : i \in DOMAIN old.left} = {name} \cup {left[i] : i \in DOMAIN left}
  <2>1. old.left \in Seq(Range(CtxNames)) /\ old.left # << >>
    BY <1>4 DEF CtxSearches, CtxSearchOK
  <2> QED
    <3>1. Parts(old.left, name, left, Range(CtxNames))
      BY <1>5, <1>6, <2>1, HeadAndTail
    <3> QED
      BY <3>1, Zenon DEF Parts
<1>8. \A i \in DOMAIN left : left[i] \in known
  <2>1. \A i \in DOMAIN left : left[i] \in {old.left[j] : j \in DOMAIN old.left}
    BY <1>7
  <2> QED
    BY <1>4, <2>1 DEF CtxSearchOK
<1>9. PICK sought : sought = [old EXCEPT !.left = left, !.failed = @ \cup {name}]
  OBVIOUS
<1>10. ctxTurn' = Answered(sought) /\ ctxMounts' = ctxMounts /\ ctxHeld' = ctxHeld
  BY <1>1, <1>5, <1>6, <1>9 DEF StoreFails, SearchGoesOn
<1>11. /\ sought \in CtxSearches /\ sought.at = "search" /\ sought.answers = old.answers
       /\ sought.asked = old.asked /\ sought.left = left /\ sought.plan = old.plan
       /\ sought.failed = old.failed \cup {name} /\ sought.from = old.from /\ sought.query = old.query
  BY <1>4, <1>7, <1>9 DEF CtxSearches
<1>12. AllPlanned(sought)
  <2>1. old.plan = old.failed \cup {old.asked[k].name : k \in DOMAIN old.asked}
                              \cup {old.left[i] : i \in DOMAIN old.left}
    BY <1>4 DEF CtxSearchOK, AllPlanned
  <2>2. sought.plan = sought.failed \cup {old.asked[k].name : k \in DOMAIN old.asked}
                                \cup {left[i] : i \in DOMAIN left}
    BY <1>7, <1>11, <2>1
  <2> QED
    BY <1>11, <2>2 DEF AllPlanned
<1>13. \A k \in DOMAIN sought.asked : \A i \in 1..sought.from[sought.asked[k].store] :
         CtxConsidered(held, sought, sought.asked[k], i)
  <2> SUFFICES ASSUME NEW k \in DOMAIN old.asked, NEW i \in 1..old.from[old.asked[k].store]
               PROVE  CtxConsidered(held, sought, old.asked[k], i)
    BY <1>11
  <2>1. CtxConsidered(held, old, old.asked[k], i)
    BY <1>4 DEF CtxSearchOK
  <2> QED
    BY <1>11, <2>1 DEF CtxConsidered
<1>14. CtxGoesOn(known, held, sought)
  BY <1>4, <1>8, <1>11, <1>12, <1>13 DEF CtxSearchOK, CtxGoesOn
<1>15. PICK next : next = Answered(sought)
  OBVIOUS
<1>16. next \in CtxSearches /\ CtxSearchOK(known, held, next)
  BY <1>4, <1>11, <1>14, <1>15, AnsweredHolds
<1> QED
  BY <1>2, <1>3, <1>10, <1>15, <1>16, CtxTurnStep

-----------------------------------------------------------------------------
(* Selection.                                                               *)

LEMMA CandidatesAre ==
  ASSUME NEW materials \in Seq(Materials), NEW limits,
         NEW order, order = CandidateOrder(materials, limits)
  PROVE  /\ order \in Seq(DOMAIN materials)
         /\ \A i, j \in DOMAIN order : i # j => order[i] # order[j]
<1> DEFINE S == {i \in DOMAIN materials : ~Immediate(materials[i], limits)}
           key == CandidateKeys(materials)
<1>1. \A i \in DOMAIN materials : i \in Int /\ materials[i].score \in Nat /\ materials[i].priority \in Int
  <2>1. DOMAIN materials \subseteq Int /\ \A i \in DOMAIN materials : materials[i] \in Materials
    OBVIOUS
  <2> QED
    BY <2>1 DEF Materials
<1>2. S \subseteq DOMAIN materials
  OBVIOUS
<1>3. IsFiniteSet(S)
  <2>1. DOMAIN materials = 1..Len(materials) /\ 1 \in Int /\ Len(materials) \in Int
    OBVIOUS
  <2>2. IsFiniteSet(1..Len(materials))
    BY <2>1, FS_Interval
  <2> HIDE DEF S
  <2> QED
    BY <1>2, <2>1, <2>2, FS_Subset
<1>4. order = SortedBy(S, key)
  BY DEF CandidateOrder
<1>5. \A i \in DOMAIN materials : key[i] = <<-materials[i].score, -materials[i].priority, i>>
  BY DEF CandidateKeys
<1> HIDE DEF S, key
<1>6. KeysOf(S, key, 3)
  <2>1. ASSUME NEW i \in S
        PROVE  DOMAIN key[i] = 1..3 /\ \A p \in 1..3 : key[i][p] \in Int
    <3>1. -materials[i].score \in Int /\ -materials[i].priority \in Int /\ i \in Int
      BY <1>1, <1>2
    <3> QED
      BY <1>2, <1>5, <3>1
  <2>2. ASSUME NEW i \in S, NEW j \in S, i # j
        PROVE  \E p \in 1..3 : key[i][p] # key[j][p]
    <3>1. key[i][3] # key[j][3]
      BY <1>2, <1>5, <2>2
    <3> QED
      BY <3>1
  <2> QED
    BY <2>1, <2>2 DEF KeysOf
<1>7. ListsBy(order, S, key)
  BY <1>3, <1>4, <1>6, SortedByIs
<1>8. order \in Seq(S) /\ \A i, j \in DOMAIN order : i # j => order[i] # order[j]
  BY <1>7, Zenon DEF ListsBy
<1>9. order \in Seq(DOMAIN materials)
  BY <1>2, <1>8
<1> QED
  BY <1>8, <1>9

\* What one more material adds.
LEMMA BytesFacts ==
  ASSUME NEW materials \in Seq(Materials), NEW chosen, NEW i \in DOMAIN materials, i \notin chosen
  PROVE  /\ BytesOf(materials, {}) = 0 /\ BytesOf(materials, chosen) \in Nat
         /\ materials[i].size \in Nat
         /\ BytesOf(materials, chosen \cup {i}) = BytesOf(materials, chosen) + materials[i].size
<1>1. \A j \in DOMAIN materials : materials[j].size \in Nat
  <2>1. \A j \in DOMAIN materials : materials[j] \in Materials
    OBVIOUS
  <2> QED
    BY <2>1 DEF Materials
<1>2. DOMAIN materials = 1..Len(materials) /\ Len(materials) \in Nat
  OBVIOUS
<1> DEFINE Sizes(set) == [j \in DOMAIN materials |-> IF j \in set THEN materials[j].size ELSE 0]
<1>3. ASSUME NEW set
      PROVE  /\ Sizes(set) \in Seq(Nat) /\ Len(Sizes(set)) = Len(materials)
             /\ DOMAIN Sizes(set) = DOMAIN materials
             /\ \A j \in DOMAIN materials : Sizes(set)[j] = IF j \in set THEN materials[j].size ELSE 0
  <2>1. Sizes(set) \in [1..Len(materials) -> Nat]
    BY <1>1, <1>2
  <2> QED
    BY <1>2, <2>1
<1>4. \A set : BytesOf(materials, set) = Summed(Sizes(set))
  BY DEF BytesOf
<1> DEFINE none == Sizes({})
           s == Sizes(chosen)
           t == Sizes(chosen \cup {i})
<1>5. none \in Seq(Nat) /\ \A j \in DOMAIN none : none[j] = 0
  BY <1>3
<1>6. /\ s \in Seq(Nat) /\ t \in Seq(Nat) /\ Len(s) = Len(t) /\ i \in DOMAIN s
      /\ \A j \in DOMAIN s : j # i => t[j] = s[j]
      /\ s[i] = 0 /\ t[i] = materials[i].size
  BY <1>3
<1>7. /\ BytesOf(materials, {}) = Summed(none) /\ BytesOf(materials, chosen) = Summed(s)
      /\ BytesOf(materials, chosen \cup {i}) = Summed(t)
  BY <1>4
<1> HIDE DEF none, s, t, Sizes
<1>8. Summed(none) = 0
  BY <1>5, SummedZeros
<1>9. Summed(s) \in Nat /\ Summed(t) \in Nat /\ Summed(t) + s[i] = Summed(s) + t[i]
  BY <1>6, SummedChange
<1> QED
  BY <1>1, <1>6, <1>7, <1>8, <1>9

\* The rounds of the loop: what is chosen after each.
Rounds(f, materials, limits, order) ==
  f = [n \in 0..Len(order) |->
         IF n = 0 THEN {} ELSE ChosenWith(materials, limits, f[n - 1], order[n])]

LEMMA RoundsExist ==
  ASSUME NEW materials \in Seq(Materials), NEW limits, NEW order \in Seq(DOMAIN materials)
  PROVE  \E f : Rounds(f, materials, limits, order)
<1> DEFINE V == SUBSET DOMAIN materials
           n == Len(order)
           step == [p \in (1..n) \X V |-> ChosenWith(materials, limits, p[2], order[p[1]])]
<1>1. n \in Nat /\ \A i \in 1..n : order[i] \in DOMAIN materials
  OBVIOUS
<1>2. step \in [(1..n) \X V -> V]
  <2> SUFFICES ASSUME NEW i \in 1..n, NEW v \in V
               PROVE  ChosenWith(materials, limits, v, order[i]) \in V
    OBVIOUS
  <2>1. order[i] \in DOMAIN materials
    BY <1>1
  <2> QED
    BY <2>1 DEF ChosenWith
<1>3. {} \in V
  OBVIOUS
<1>4. PICK f \in [0..n -> V] : Iterates(f, n, {}, step)
  <2> HIDE DEF n, step, V
  <2> QED
    BY <1>1, <1>2, <1>3, RecursionExists
<1>5. f[0] = {} /\ \A i \in 1..n : f[i] = ChosenWith(materials, limits, f[i - 1], order[i])
  <2>1. f[0] = {}
    BY <1>4 DEF Iterates
  <2>2. ASSUME NEW i \in 1..n PROVE f[i] = ChosenWith(materials, limits, f[i - 1], order[i])
    <3>1. i - 1 \in 0..n
      BY <1>1
    <3>2. f[i] = step[<<i, f[i - 1]>>] /\ f[i - 1] \in V
      <4> HIDE DEF n, step, V
      <4> QED
        BY <1>4, <3>1 DEF Iterates
    <3> QED
      BY <3>2
  <2> QED
    BY <2>1, <2>2
<1> DEFINE e(i) == IF i = 0 THEN {} ELSE ChosenWith(materials, limits, f[i - 1], order[i])
<1>6. \A i \in 0..n : f[i] = e(i)
  <2>1. f[0] = e(0)
    BY <1>5
  <2>2. \A i \in 1..n : f[i] = e(i)
    <3> HIDE DEF n
    <3>1. \A i \in 1..n : i # 0
      BY <1>1
    <3> QED
      BY <1>5, <3>1, Zenon
  <2>3. \A i \in 0..n : i = 0 \/ i \in 1..n
    BY <1>1
  <2> QED
    BY <2>1, <2>2, <2>3
<1> HIDE DEF e, n, V
<1>7. f = [i \in 0..n |-> e(i)]
  BY <1>6
<1> QED
  BY <1>7 DEF Rounds, e, n

\* f is what the rounds of select have chosen.
RoundsOf(f, materials, limits, order) ==
  /\ f[0] = {}
  /\ \A n \in 1..Len(order) : f[n] = ChosenWith(materials, limits, f[n - 1], order[n])
  /\ SelectedOf(materials, limits) = f[Len(order)]

LEMMA SelectedIs ==
  ASSUME NEW materials \in Seq(Materials), NEW limits,
         NEW order, order = CandidateOrder(materials, limits)
  PROVE  \E f : RoundsOf(f, materials, limits, order)
<1> DEFINE f == CHOOSE h : Rounds(h, materials, limits, order)
<1>1. order \in Seq(DOMAIN materials)
  BY CandidatesAre
<1>2. Rounds(f, materials, limits, order)
  <2>1. \E h : Rounds(h, materials, limits, order)
    BY <1>1, RoundsExist
  <2> QED
    BY <2>1, Zenon
<1>3. SelectedOf(materials, limits) = f[Len(order)]
  BY Zenon DEF SelectedOf, Rounds
<1> HIDE DEF f
<1> DEFINE e(i) == IF i = 0 THEN {} ELSE ChosenWith(materials, limits, f[i - 1], order[i])
<1>4. f = [i \in 0..Len(order) |-> e(i)]
  BY <1>2 DEF Rounds
<1> HIDE DEF e
<1>5. \A i \in 0..Len(order) : f[i] = e(i)
  BY <1>4
<1>6. Len(order) \in Nat
  BY <1>1
<1>7. 0 \in 0..Len(order) /\ \A i \in 1..Len(order) : i \in 0..Len(order) /\ i # 0
  BY <1>6
<1>8. f[0] = {}
  BY <1>5, <1>7 DEF e
<1>9. \A i \in 1..Len(order) : f[i] = ChosenWith(materials, limits, f[i - 1], order[i])
  BY <1>5, <1>7 DEF e
<1>10. RoundsOf(f, materials, limits, order)
  BY <1>3, <1>8, <1>9, Zenon DEF RoundsOf
<1> QED
  BY <1>10

\* What is chosen after n rounds are candidates up to the n-th, within both limits.
RoundFits(materials, limits, order, chosen, n) ==
  /\ \A i \in chosen : \E m \in 1..n : order[m] = i
  /\ IsFiniteSet(chosen) /\ Cardinality(chosen) \in Nat /\ Cardinality(chosen) <= limits.count
  /\ BytesOf(materials, chosen) \in Nat /\ BytesOf(materials, chosen) <= limits.bytes

LEMMA RoundsFit ==
  ASSUME NEW materials \in Seq(Materials), NEW limits \in SelectLimits,
         NEW order \in Seq(DOMAIN materials),
         \A i, j \in DOMAIN order : i # j => order[i] # order[j],
         NEW f, f[0] = {},
         \A n \in 1..Len(order) : f[n] = ChosenWith(materials, limits, f[n - 1], order[n]),
         NEW n \in 0..Len(order)
  PROVE  RoundFits(materials, limits, order, f[n], n)
<1>1. /\ limits.count \in Nat /\ limits.bytes \in Nat /\ Len(order) \in Nat
      /\ DOMAIN order = 1..Len(order) /\ \A m \in 1..Len(order) : order[m] \in DOMAIN materials
  BY ContextAssumption
<1> DEFINE Fit == {m \in Nat : m <= Len(order) => RoundFits(materials, limits, order, f[m], m)}
<1>2. 0 \in Fit
  <2>1. IsFiniteSet({}) /\ Cardinality({}) = 0
    BY FS_EmptySet
  <2>2. BytesOf(materials, {}) = 0
    <3> DEFINE zeros == [j \in DOMAIN materials |-> IF j \in {} THEN materials[j].size ELSE 0]
    <3>1. DOMAIN materials = 1..Len(materials) /\ Len(materials) \in Nat
      OBVIOUS
    <3>2. zeros \in [1..Len(materials) -> Nat] /\ \A j \in DOMAIN zeros : zeros[j] = 0
      BY <3>1
    <3>3. BytesOf(materials, {}) = Summed(zeros)
      BY DEF BytesOf
    <3> HIDE DEF zeros
    <3>4. zeros \in Seq(Nat)
      BY <3>1, <3>2
    <3> QED
      BY <3>2, <3>3, <3>4, SummedZeros
  <2>3. 0 <= limits.count /\ 0 <= limits.bytes
    BY <1>1
  <2>4. RoundFits(materials, limits, order, {}, 0)
    BY <2>1, <2>2, <2>3 DEF RoundFits
  <2> QED
    BY <2>4
<1>3. ASSUME NEW m \in Nat, m \in Fit PROVE m + 1 \in Fit
  <2> SUFFICES ASSUME m + 1 <= Len(order)
               PROVE  RoundFits(materials, limits, order, f[m + 1], m + 1)
    OBVIOUS
  <2>1. m + 1 \in 1..Len(order) /\ (m + 1) - 1 = m /\ m <= Len(order)
    BY <1>1
  <2>2. PICK chosen : chosen = f[m]
    OBVIOUS
  <2>3. PICK i : i = order[m + 1]
    OBVIOUS
  <2>4. RoundFits(materials, limits, order, chosen, m)
    BY <1>3, <2>1, <2>2
  <2>5. f[m + 1] = ChosenWith(materials, limits, chosen, i)
    BY <2>1, <2>2, <2>3
  <2>6. \A k \in 1..m : k \in 1..(m + 1)
    OBVIOUS
  <2>7. CASE FitsIn(materials, limits, chosen, i)
    <3>1. f[m + 1] = chosen \cup {i}
      BY <2>5, <2>7 DEF ChosenWith
    <3>2. i \notin chosen
      <4> SUFFICES ASSUME i \in chosen PROVE FALSE
        OBVIOUS
      <4>1. PICK k \in 1..m : order[k] = i
        BY <2>4 DEF RoundFits
      <4>2. k # m + 1 /\ k \in DOMAIN order /\ m + 1 \in DOMAIN order
        BY <1>1, <2>1
      <4> QED
        BY <2>3, <4>1, <4>2
    <3>3. i \in DOMAIN materials
      BY <1>1, <2>1, <2>3
    <3>4. /\ BytesOf(materials, chosen) \in Nat /\ materials[i].size \in Nat
          /\ BytesOf(materials, chosen \cup {i}) = BytesOf(materials, chosen) + materials[i].size
      BY <3>2, <3>3, BytesFacts
    <3>5. IsFiniteSet(chosen \cup {i}) /\ Cardinality(chosen \cup {i}) = Cardinality(chosen) + 1
      BY <2>4, <3>2, FS_AddElement DEF RoundFits
    <3>6. /\ Cardinality(chosen) < limits.count
          /\ BytesOf(materials, chosen) + materials[i].size <= limits.bytes
      BY <2>7 DEF FitsIn
    <3>7. \A j \in chosen \cup {i} : \E k \in 1..(m + 1) : order[k] = j
      <4>1. m + 1 \in 1..(m + 1)
        OBVIOUS
      <4> QED
        BY <2>3, <2>4, <2>6, <4>1 DEF RoundFits
    <3>8. Cardinality(chosen) \in Nat
      BY <2>4 DEF RoundFits
    <3>9. PICK more : more = chosen \cup {i}
      OBVIOUS
    <3>10. /\ IsFiniteSet(more) /\ Cardinality(more) \in Nat /\ Cardinality(more) <= limits.count
      BY <1>1, <3>5, <3>6, <3>8, <3>9
    <3>11. BytesOf(materials, more) \in Nat /\ BytesOf(materials, more) <= limits.bytes
      BY <3>4, <3>6, <3>9
    <3>12. RoundFits(materials, limits, order, more, m + 1)
      BY <3>7, <3>9, <3>10, <3>11 DEF RoundFits
    <3> QED
      BY <3>1, <3>9, <3>12
  <2>8. CASE ~FitsIn(materials, limits, chosen, i)
    <3>1. f[m + 1] = chosen
      BY <2>5, <2>8 DEF ChosenWith
    <3> QED
      BY <2>4, <2>6, <3>1 DEF RoundFits
  <2> QED
    BY <2>7, <2>8
<1> HIDE DEF Fit
<1>4. n \in Nat /\ n <= Len(order)
  BY <1>1
<1>5. n \in Fit
  BY <1>2, <1>3, <1>4, Induction
<1> QED
  BY <1>4, <1>5 DEF Fit

\* Later rounds keep what was chosen, and choose none of the candidates before.
LEMMA RoundsKeep ==
  ASSUME NEW materials \in Seq(Materials), NEW limits, NEW order \in Seq(DOMAIN materials),
         \A i, j \in DOMAIN order : i # j => order[i] # order[j],
         NEW f,
         \A n \in 1..Len(order) : f[n] = ChosenWith(materials, limits, f[n - 1], order[n]),
         NEW p \in 0..Len(order)
  PROVE  /\ f[p] \subseteq f[Len(order)]
         /\ \A m \in 1..p : order[m] \in f[Len(order)] => order[m] \in f[p]
<1>1. Len(order) \in Nat /\ DOMAIN order = 1..Len(order) /\ p \in Nat
  OBVIOUS
<1> DEFINE KeptSoFar == {k \in Nat : p + k <= Len(order) =>
                      /\ f[p] \subseteq f[p + k]
                      /\ \A m \in 1..p : order[m] \in f[p + k] => order[m] \in f[p]}
<1>2. 0 \in KeptSoFar
  <2>1. p + 0 = p
    BY <1>1
  <2> QED
    BY <2>1
<1>3. ASSUME NEW k \in Nat, k \in KeptSoFar PROVE k + 1 \in KeptSoFar
  <2> SUFFICES ASSUME p + (k + 1) <= Len(order)
               PROVE  /\ f[p] \subseteq f[p + (k + 1)]
                      /\ \A m \in 1..p : order[m] \in f[p + (k + 1)] => order[m] \in f[p]
    OBVIOUS
  <2>1. PICK n : n = p + (k + 1)
    OBVIOUS
  <2>2. n \in 1..Len(order) /\ n - 1 = p + k /\ p + k <= Len(order) /\ n \in Nat /\ p < n
    BY <1>1, <2>1
  <2>3. /\ f[p] \subseteq f[n - 1]
        /\ \A m \in 1..p : order[m] \in f[n - 1] => order[m] \in f[p]
    BY <1>3, <2>2
  <2>4. f[n] = ChosenWith(materials, limits, f[n - 1], order[n])
    BY <2>2
  <2>5. f[n] = f[n - 1] \/ f[n] = f[n - 1] \cup {order[n]}
    BY <2>4 DEF ChosenWith
  <2>6. \A m \in 1..p : order[m] # order[n]
    <3>1. \A m \in 1..p : m \in DOMAIN order /\ m # n /\ n \in DOMAIN order
      BY <1>1, <2>2
    <3> QED
      BY <3>1
  <2>7. f[p] \subseteq f[n]
    BY <2>3, <2>5
  <2>8. \A m \in 1..p : order[m] \in f[n] => order[m] \in f[p]
    BY <2>3, <2>5, <2>6
  <2> QED
    BY <2>1, <2>7, <2>8
<1> HIDE DEF KeptSoFar
<1>4. PICK k \in Nat : p + k = Len(order)
  <2>1. Len(order) - p \in Nat /\ p + (Len(order) - p) = Len(order)
    BY <1>1
  <2> QED
    BY <2>1
<1>5. k \in KeptSoFar
  BY <1>2, <1>3, Induction
<1>6. p + k <= Len(order)
  BY <1>1, <1>4
<1> QED
  BY <1>4, <1>5, <1>6 DEF KeptSoFar

LEMMA SelectionFits ==
  ASSUME CtxInv
  PROVE  LeftOutIsUnfit
<1> SUFFICES ASSUME ctxTurn.at = "selected" PROVE LeftOutIsUnfit
  BY DEF LeftOutIsUnfit
<1>1. PICK materials : materials = ctxTurn.materials
  OBVIOUS
<1>2. PICK limits : limits = ctxTurn.limits
  OBVIOUS
<1>3. PICK chosen : chosen = ctxTurn.chosen
  OBVIOUS
<1>4. /\ materials \in Seq(Materials) /\ limits \in SelectLimits
      /\ chosen = SelectedOf(materials, limits)
  BY <1>1, <1>2, <1>3, TurnAt DEF CtxInv, CtxSelections, CtxSelectionOK
<1>5. PICK order : order = CandidateOrder(materials, limits)
  OBVIOUS
<1>6. order \in Seq(DOMAIN materials) /\ \A i, j \in DOMAIN order : i # j => order[i] # order[j]
  BY <1>4, <1>5, CandidatesAre
<1>7. PICK last : last = Len(order)
  OBVIOUS
<1>8. last \in Nat /\ DOMAIN order = 1..last
  BY <1>6, <1>7
<1> PICK f : RoundsOf(f, materials, limits, order)
  BY <1>4, <1>5, SelectedIs
<1>9. /\ f[0] = {}
      /\ \A n \in 1..Len(order) : f[n] = ChosenWith(materials, limits, f[n - 1], order[n])
      /\ SelectedOf(materials, limits) = f[Len(order)]
  BY DEF RoundsOf
<1>10. \A n \in 0..last : RoundFits(materials, limits, order, f[n], n)
  BY <1>4, <1>6, <1>7, <1>9, RoundsFit
<1>11. chosen = f[last] /\ last \in 0..last
  BY <1>4, <1>7, <1>8, <1>9
<1> DEFINE place(i) == CHOOSE p \in DOMAIN order : order[p] = i
           above(i) == {j \in chosen : place(j) < place(i)}
<1>12. \A m \in 1..last : place(order[m]) = m
  <2> TAKE m \in 1..last
  <2>1. \E p \in DOMAIN order : order[p] = order[m]
    BY <1>8
  <2>2. place(order[m]) \in DOMAIN order /\ order[place(order[m])] = order[m]
    BY <2>1, Zenon
  <2> QED
    BY <1>6, <1>8, <2>2
<1> HIDE DEF place
<1>13. ASSUME NEW p \in 1..last, order[p] \notin chosen
       PROVE  \/ Cardinality(above(order[p])) = limits.count
              \/ BytesOf(materials, above(order[p])) + materials[order[p]].size > limits.bytes
  <2>1. p - 1 \in 0..last /\ p \in 0..last /\ p \in Nat
    BY <1>8
  <2>2. above(order[p]) = f[p - 1]
    <3>1. ASSUME NEW j \in chosen, place(j) < place(order[p]) PROVE j \in f[p - 1]
      <4>1. PICK m \in 1..last : order[m] = j
        BY <1>10, <1>11 DEF RoundFits
      <4>2. m < p
        BY <1>12, <3>1, <4>1
      <4>3. m \in 1..(p - 1)
        BY <1>8, <4>2
      <4>5. PICK q \in 0..last : q = p - 1
        BY <2>1
      <4>6. \A n \in 1..q : order[n] \in f[Len(order)] => order[n] \in f[q]
        BY <1>4, <1>6, <1>7, <1>9, RoundsKeep
      <4>4. order[m] \in f[last] => order[m] \in f[p - 1]
        BY <1>7, <4>3, <4>5, <4>6
      <4> QED
        BY <1>11, <4>1, <4>4
    <3>2. ASSUME NEW j \in f[p - 1] PROVE j \in chosen /\ place(j) < place(order[p])
      <4>1. j \in f[last]
        BY <1>4, <1>6, <1>7, <1>9, <2>1, RoundsKeep
      <4>2. PICK m \in 1..(p - 1) : order[m] = j
        BY <1>10, <2>1 DEF RoundFits
      <4>3. m \in 1..last /\ m < p
        BY <1>8, <2>1
      <4>4. place(j) = m /\ place(order[p]) = p
        BY <1>12, <4>2, <4>3
      <4> QED
        BY <1>11, <4>1, <4>3, <4>4
    <3> QED
      BY <3>1, <3>2
  <2>3. order[p] \notin f[p]
    <3>1. f[p] \subseteq f[Len(order)]
      BY <1>4, <1>6, <1>7, <1>9, <2>1, RoundsKeep
    <3> QED
      BY <1>7, <1>11, <1>13, <3>1
  <2>4. ~FitsIn(materials, limits, f[p - 1], order[p])
    BY <1>7, <1>9, <2>3 DEF ChosenWith
  <2>5. RoundFits(materials, limits, order, f[p - 1], p - 1)
    BY <1>10, <2>1
  <2>6. materials[order[p]].size \in Nat
    <3>1. order[p] \in DOMAIN materials
      BY <1>6, <1>8
    <3>2. materials[order[p]] \in Materials
      BY <1>4, <3>1
    <3> QED
      BY <3>2 DEF Materials
  <2>7. limits.count \in Nat /\ limits.bytes \in Nat
    BY <1>4, ContextAssumption
  <2>8. \/ ~(Cardinality(f[p - 1]) < limits.count)
        \/ ~(BytesOf(materials, f[p - 1]) + materials[order[p]].size <= limits.bytes)
    BY <2>4 DEF FitsIn
  <2>9. /\ Cardinality(f[p - 1]) \in Nat /\ Cardinality(f[p - 1]) <= limits.count
        /\ BytesOf(materials, f[p - 1]) \in Nat
    BY <2>5 DEF RoundFits
  <2>10. \/ Cardinality(f[p - 1]) = limits.count
         \/ BytesOf(materials, f[p - 1]) + materials[order[p]].size > limits.bytes
    BY <2>6, <2>7, <2>8, <2>9
  <2> QED
    BY <2>2, <2>10
<1>14. Cardinality(chosen) <= limits.count /\ BytesOf(materials, chosen) <= limits.bytes
  BY <1>10, <1>11 DEF RoundFits
<1>15. \A i \in Range(order) \ chosen :
         \/ Cardinality(above(i)) = limits.count
         \/ BytesOf(materials, above(i)) + materials[i].size > limits.bytes
  <2> TAKE i \in Range(order) \ chosen
  <2>1. PICK p \in 1..last : order[p] = i
    BY <1>8 DEF Range
  <2> QED
    BY <1>13, <2>1
<1> QED
  BY <1>1, <1>2, <1>3, <1>5, <1>14, <1>15, Zenon DEF LeftOutIsUnfit, place, above

LEMMA SelectsHolds ==
  ASSUME CtxInv, NEW limits \in SelectLimits, SelectContext(limits)
  PROVE  CtxInv'
<1>1. PICK old : old = ctxTurn
  OBVIOUS
<1>2. old \in CtxSearches
  BY <1>1, TurnAt DEF SelectContext, CtxInv
<1>3. PICK brought : brought = [k \in DOMAIN old.answers |-> old.answers[k].material]
  OBVIOUS
<1>4. PICK materials : materials = old.given \o brought
  OBVIOUS
<1>5. PICK chosen : chosen = SelectedOf(materials, limits)
  OBVIOUS
<1>6. /\ ctxTurn' = [at |-> "selected", materials |-> materials, limits |-> limits, chosen |-> chosen]
      /\ ctxMounts' = ctxMounts /\ ctxHeld' = ctxHeld
  BY <1>1, <1>3, <1>4, <1>5 DEF SelectContext
<1>7. old.answers \in Seq(CtxAnswers) /\ old.given \in Seq(Materials)
  BY <1>2 DEF CtxSearches
<1>8. brought \in Seq(Materials)
  <2>1. /\ DOMAIN old.answers = 1..Len(old.answers) /\ Len(old.answers) \in Nat
        /\ \A k \in 1..Len(old.answers) : old.answers[k] \in CtxAnswers
    BY <1>7
  <2>2. \A k \in 1..Len(old.answers) : old.answers[k].material \in Materials
    BY <2>1 DEF CtxAnswers
  <2>3. brought \in [1..Len(old.answers) -> Materials]
    BY <1>3, <2>1, <2>2
  <2> QED
    BY <2>1, <2>3
<1>9. materials \in Seq(Materials)
  BY <1>4, <1>7, <1>8
<1>10. chosen \subseteq Nat
  <2>1. PICK order : order = CandidateOrder(materials, limits)
    OBVIOUS
  <2>2. /\ order \in Seq(DOMAIN materials)
        /\ \A i, j \in DOMAIN order : i # j => order[i] # order[j]
    BY <1>9, <2>1, CandidatesAre
  <2> PICK f : RoundsOf(f, materials, limits, order)
    BY <1>9, <2>1, SelectedIs
  <2>3. /\ f[0] = {}
        /\ \A n \in 1..Len(order) : f[n] = ChosenWith(materials, limits, f[n - 1], order[n])
        /\ SelectedOf(materials, limits) = f[Len(order)]
    BY DEF RoundsOf
  <2>4. Len(order) \in 0..Len(order)
    BY <2>2
  <2>5. RoundFits(materials, limits, order, f[Len(order)], Len(order))
    BY <1>9, <2>2, <2>3, <2>4, RoundsFit
  <2>6. \A i \in chosen : \E m \in 1..Len(order) : order[m] = i
    BY <1>5, <2>3, <2>5 DEF RoundFits
  <2>7. \A m \in 1..Len(order) : order[m] \in DOMAIN materials
    BY <2>2
  <2>8. DOMAIN materials \subseteq Nat
    BY <1>9
  <2> QED
    BY <2>6, <2>7, <2>8
<1>11. ctxTurn' \in CtxSelections
  BY <1>6, <1>9, <1>10 DEF CtxSelections
<1>12. CtxTypeOK'
  BY <1>6, <1>11 DEF CtxInv, CtxTypeOK, CtxMountsOK
<1>13. ctxTurn'.at = "selected" /\ CtxSelectionOK(ctxTurn')
  BY <1>5, <1>6 DEF CtxSelectionOK
<1> QED
  BY <1>12, <1>13 DEF CtxInv

-----------------------------------------------------------------------------
(* The theorem on contexts.                                                 *)

LEMMA CtxInitInv == ContextInit => CtxInv
<1> SUFFICES ASSUME ContextInit PROVE CtxInv
  OBVIOUS
<1>1. ctxMounts = << >> /\ ctxTurn = NoTurn /\ ctxHeld = [s \in CtxStores |-> << >>]
  BY DEF ContextInit
<1>2. CtxMountsOK
  <2>1. DOMAIN ctxMounts = {}
    BY <1>1
  <2> QED
    BY <2>1, FS_EmptySet DEF CtxMountsOK
<1>3. ctxTurn.at = "idle"
  BY <1>1 DEF NoTurn
<1> QED
  BY <1>1, <1>2, <1>3 DEF CtxInv, CtxTypeOK

LEMMA CtxStep == CtxInv /\ [ContextNext]_contextVars => CtxInv'
<1> SUFFICES ASSUME CtxInv, [ContextNext]_contextVars PROVE CtxInv'
  OBVIOUS
<1>1. CASE UNCHANGED contextVars
  <2>1. UNCHANGED <<ctxMounts, ctxHeld, ctxTurn>>
    BY <1>1 DEF contextVars
  <2> QED
    BY <2>1 DEF CtxInv, CtxTypeOK, CtxMountsOK
<1>2. ASSUME NEW mount \in CtxMounts, RegisterMount(mount) PROVE CtxInv'
  BY <1>2, RegisterHolds
<1>3. ASSUME NEW material \in CtxMaterials, WriteMaterial(material) PROVE CtxInv'
  BY <1>3, WriteHolds
<1>4. ASSUME NEW query \in CtxQueries, NEW given \in GivenMaterials, TurnSearches(query, given)
      PROVE  CtxInv'
  BY <1>4, SearchesHolds
<1>5. CASE StoreAnswers
  BY <1>5, AnswersHolds
<1>6. CASE StoreFails
  BY <1>6, FailsHolds
<1>7. ASSUME NEW limits \in SelectLimits, SelectContext(limits) PROVE CtxInv'
  BY <1>7, SelectsHolds
<1> QED
  BY <1>1, <1>2, <1>3, <1>4, <1>5, <1>6, <1>7 DEF ContextNext

LEMMA FailuresAreContained ==
  ASSUME CtxInv
  PROVE  FailureIsContained
<1> SUFFICES ASSUME ctxTurn.at = "found" PROVE FailureIsContained
  BY DEF FailureIsContained
<1>1. PICK sought : sought = ctxTurn
  OBVIOUS
<1>2. CtxSearchOK(DOMAIN ctxMounts, ctxHeld, sought) /\ sought \in CtxSearches /\ sought.at = "found"
  BY <1>1, TurnAt DEF CtxInv
<1>3. sought.plan = sought.failed \cup {m.name : m \in Range(sought.asked)}
  <2>1. sought.left = << >>
    BY <1>2 DEF CtxSearchOK
  <2>2. sought.plan = sought.failed \cup {sought.asked[k].name : k \in DOMAIN sought.asked}
                                \cup {sought.left[i] : i \in DOMAIN sought.left}
    BY <1>2 DEF CtxSearchOK, AllPlanned
  <2>3. {m.name : m \in Range(sought.asked)} = {sought.asked[k].name : k \in DOMAIN sought.asked}
    BY DEF Range
  <2>4. {sought.left[i] : i \in DOMAIN sought.left} = {}
    <3>1. DOMAIN sought.left = {}
      BY <2>1
    <3> QED
      BY <3>1
  <2>5. PICK names : names = {sought.asked[k].name : k \in DOMAIN sought.asked}
    OBVIOUS
  <2>6. sought.plan = sought.failed \cup names
    BY <2>2, <2>4, <2>5
  <2> QED
    BY <2>3, <2>5, <2>6
<1>4. \A k \in DOMAIN sought.asked : \A i \in 1..sought.from[sought.asked[k].store] :
        CtxBest(ctxHeld, sought, sought.asked[k], i)
  BY <1>2 DEF CtxSearchOK
<1> QED
  BY <1>1, <1>3, <1>4, Zenon DEF FailureIsContained, CtxBest

\* The context of a turn (search and write of ContextMaterialCenter, select of
\* DefaultContextMaterialSelector): a store that fails hides no other store's materials, and
\* what is left out did not fit behind what ranks higher.
THEOREM ContextsFit == ContextSpec => []ContextIsFit
<1>1. ContextInit => CtxInv
  BY CtxInitInv
<1>2. CtxInv /\ [ContextNext]_contextVars => CtxInv'
  BY CtxStep
<1>3. CtxInv => ContextIsFit
  BY FailuresAreContained, SelectionFits DEF ContextIsFit
<1> QED
  BY <1>1, <1>2, <1>3, PTL DEF ContextSpec

-----------------------------------------------------------------------------
(* The prompt: sizes.                                                       *)

LEMMA PartSizes ==
  ASSUME NEW part \in Paragraphs
  PROVE  PartSize(part) \in Nat /\ part.body \in Nat
BY PromptAssumption DEF PartSize, Paragraphs

LEMMA PlainParts ==
  ASSUME NEW bytes \in Nat
  PROVE  Plain(bytes) \in Paragraphs /\ ~IsInjection(Plain(bytes)) /\ PartSize(Plain(bytes)) = bytes
<1>1. Plain(bytes) \in Paragraphs /\ Plain(bytes).body = bytes
  BY DEF Plain, Paragraphs
<1>2. ~IsInjection(Plain(bytes))
  BY DEF Plain, IsInjection
<1> QED
  BY <1>1, <1>2 DEF PartSize

Widths(content) == [i \in DOMAIN content |-> PartSize(content[i]) + Gap]

\* The size of contents, and of contents with one part more.
LEMMA Sizes ==
  ASSUME NEW content \in Seq(Paragraphs), NEW part \in Paragraphs
  PROVE  /\ SizeOfContent(<< >>) = 0
         /\ SizeOfContent(content) \in Nat
         /\ SizeOfContent(Append(content, part))
              = IF content = << >> THEN PartSize(part)
                ELSE SizeOfContent(content) + Gap + PartSize(part)
<1>1. Gap \in Nat /\ Gap > 0
  BY PromptAssumption
<1> DEFINE f == [p \in Paragraphs |-> PartSize(p) + Gap]
           more == Append(content, part)
<1>2. f \in [Paragraphs -> Nat]
  BY <1>1, PartSizes
<1>3. \A s \in Seq(Paragraphs) : Widths(s) = [i \in DOMAIN s |-> f[s[i]]]
  <2> SUFFICES ASSUME NEW s \in Seq(Paragraphs) PROVE Widths(s) = [i \in DOMAIN s |-> f[s[i]]]
    OBVIOUS
  <2>1. \A i \in DOMAIN s : s[i] \in Paragraphs
    OBVIOUS
  <2> QED
    BY <2>1 DEF Widths
<1>4. more \in Seq(Paragraphs) /\ more # << >>
  <2>1. more \in Seq(Paragraphs) /\ Len(more) = Len(content) + 1 /\ Len(content) \in Nat
    OBVIOUS
  <2> QED
    BY <2>1
<1> HIDE DEF f
<1>5. /\ Widths(content) \in Seq(Nat)
      /\ Widths(more) = Append(Widths(content), f[part])
  <2>1. /\ [i \in DOMAIN content |-> f[content[i]]] \in Seq(Nat)
        /\ [i \in DOMAIN more |-> f[more[i]]] = Append([i \in DOMAIN content |-> f[content[i]]], f[part])
    BY <1>2, MadeAppend
  <2>2. Widths(content) = [i \in DOMAIN content |-> f[content[i]]]
    BY <1>3
  <2>3. Widths(more) = [i \in DOMAIN more |-> f[more[i]]]
    BY <1>3, <1>4
  <2> QED
    BY <2>1, <2>2, <2>3, Zenon
<1>6. f[part] = PartSize(part) + Gap /\ f[part] \in Nat /\ PartSize(part) \in Nat
  BY <1>2, PartSizes DEF f
<1>7. Summed(Widths(more)) = Summed(Widths(content)) + f[part] /\ Summed(Widths(content)) \in Nat
  BY <1>5, <1>6, SummedAppend
<1>8. SizeOfContent(more) = Summed(Widths(content)) + PartSize(part)
  <2>1. SizeOfContent(more) = Summed(Widths(more)) - Gap
    BY <1>4 DEF SizeOfContent, Widths
  <2> QED
    BY <1>1, <1>6, <1>7, <2>1
<1>9. CASE content = << >>
  <2>1. Widths(content) = << >>
    BY <1>9 DEF Widths
  <2>2. Summed(Widths(content)) = 0
    BY <1>5, <2>1, SummedAppend
  <2> QED
    BY <1>6, <1>8, <1>9, <2>2 DEF SizeOfContent
<1>10. CASE content # << >>
  <2>1. SizeOfContent(content) = Summed(Widths(content)) - Gap
    BY <1>10 DEF SizeOfContent, Widths
  <2>2. 1 \in DOMAIN content /\ content[1] \in Paragraphs
    BY <1>10
  <2>3. 1 \in DOMAIN Widths(content) /\ Widths(content)[1] = PartSize(content[1]) + Gap
    BY <2>2 DEF Widths
  <2>4. Widths(content)[1] <= Summed(Widths(content))
    BY <1>5, <2>3, SummedElement
  <2>5. PartSize(content[1]) \in Nat
    BY <2>2, PartSizes
  <2>6. SizeOfContent(content) \in Nat
    BY <1>1, <1>7, <2>1, <2>3, <2>4, <2>5
  <2>7. PICK w \in Nat, p \in Nat : w = Summed(Widths(content)) /\ p = PartSize(part)
    BY <1>6, <1>7
  <2>8. SizeOfContent(more) = w + p /\ SizeOfContent(content) = w - Gap
    BY <1>8, <2>1, <2>7
  <2>9. w + p = (w - Gap) + Gap + p
    BY <1>1
  <2>10. SizeOfContent(<< >>) = 0
    BY DEF SizeOfContent
  <2> QED
    BY <1>10, <2>6, <2>7, <2>8, <2>9, <2>10
<1> QED
  BY <1>9, <1>10

LEMMA PlainSize ==
  ASSUME NEW bytes \in Nat
  PROVE  <<Plain(bytes)>> \in Seq(Paragraphs) /\ SizeOfContent(<<Plain(bytes)>>) = bytes
<1>1. Plain(bytes) \in Paragraphs /\ PartSize(Plain(bytes)) = bytes
  BY PlainParts
<1>2. << >> \in Seq(Paragraphs) /\ Append(<< >>, Plain(bytes)) = <<Plain(bytes)>>
  OBVIOUS
<1>3. SizeOfContent(Append(<< >>, Plain(bytes))) = PartSize(Plain(bytes))
  BY <1>1, <1>2, Sizes
<1> QED
  BY <1>1, <1>2, <1>3

\* The prefixes within a bound.
PrefixesTo(most) ==
  {acc \in [kept : Seq(Paragraphs), full : BOOLEAN] : SizeOfContent(acc.kept) <= most}

LEMMA PrefixStep ==
  ASSUME NEW most \in Nat, NEW acc \in PrefixesTo(most), NEW part \in Paragraphs
  PROVE  PrefixWith(acc, part, most) \in PrefixesTo(most)
<1>1. /\ acc.kept \in Seq(Paragraphs) /\ SizeOfContent(acc.kept) <= most
      /\ SizeOfContent(acc.kept) \in Nat
  BY Sizes DEF PrefixesTo
<1>2. Gap \in Nat /\ Header \in Nat /\ Header > 0
  BY PromptAssumption
<1> DEFINE room == most - SizeOfContent(acc.kept) - (IF acc.kept = << >> THEN 0 ELSE Gap)
           cut == IF ~IsInjection(part) \/ room < Header THEN Plain(room)
                  ELSE [part EXCEPT !.body = Larger(0, room - Header - 1)]
<1>3. room \in Int
  BY <1>1, <1>2
<1>4. CASE acc.full \/ room <= 0
  <2>1. PrefixWith(acc, part, most) = [kept |-> acc.kept, full |-> TRUE]
    BY <1>4 DEF PrefixWith
  <2> QED
    BY <1>1, <2>1 DEF PrefixesTo
<1>5. ASSUME NEW p \in Paragraphs, NEW b \in BOOLEAN, ~(acc.full \/ room <= 0), PartSize(p) <= room
      PROVE  [kept |-> Append(acc.kept, p), full |-> b] \in PrefixesTo(most)
  <2>1. PartSize(p) \in Nat
    BY PartSizes
  <2>2. SizeOfContent(Append(acc.kept, p))
          = IF acc.kept = << >> THEN PartSize(p) ELSE SizeOfContent(acc.kept) + Gap + PartSize(p)
    BY <1>1, Sizes
  <2>3. SizeOfContent(Append(acc.kept, p)) <= most
    BY <1>1, <1>2, <1>5, <2>1, <2>2
  <2>4. Append(acc.kept, p) \in Seq(Paragraphs)
    BY <1>1
  <2> QED
    BY <2>3, <2>4 DEF PrefixesTo
<1>6. CASE ~(acc.full \/ room <= 0) /\ PartSize(part) <= room
  <2>1. PrefixWith(acc, part, most) = [kept |-> Append(acc.kept, part), full |-> FALSE]
    BY <1>6 DEF PrefixWith
  <2> QED
    BY <1>5, <1>6, <2>1
<1>7. CASE ~(acc.full \/ room <= 0) /\ ~(PartSize(part) <= room)
  <2>1. PrefixWith(acc, part, most) = [kept |-> Append(acc.kept, cut), full |-> TRUE]
    BY <1>7 DEF PrefixWith
  <2> HIDE DEF room
  <2>2. CASE ~IsInjection(part) \/ room < Header
    <3>1. room \in Nat /\ cut = Plain(room)
      BY <1>3, <1>7, <2>2
    <3>2. cut \in Paragraphs /\ PartSize(cut) <= room
      BY <3>1, PlainParts
    <3> HIDE DEF cut
    <3> QED
      BY <1>5, <1>7, <2>1, <3>2
  <2>3. CASE IsInjection(part) /\ ~(room < Header)
    <3>1. PICK body \in Nat : body = Larger(0, room - Header - 1) /\ (body = 0 \/ body = room - Header - 1)
      <4>1. room - Header - 1 \in Int
        BY <1>2, <1>3
      <4>2. CASE 0 >= room - Header - 1
        BY <4>2 DEF Larger
      <4>3. CASE ~(0 >= room - Header - 1)
        BY <4>1, <4>3 DEF Larger
      <4> QED
        BY <4>2, <4>3
    <3>2. cut = [part EXCEPT !.body = body]
      BY <2>3, <3>1
    <3>3. cut \in Paragraphs /\ cut.body = body /\ cut.name = part.name
      BY <3>2 DEF Paragraphs
    <3>4. IsInjection(cut)
      BY <2>3, <3>3 DEF IsInjection
    <3> HIDE DEF cut
    <3>5. PartSize(cut) = IF body = 0 THEN Header ELSE Header + 1 + body
      BY <3>3, <3>4 DEF PartSize
    <3>6. PartSize(cut) <= room
      BY <1>2, <1>3, <2>3, <3>1, <3>5
    <3> QED
      BY <1>5, <1>7, <2>1, <3>3, <3>6
  <2> QED
    BY <2>2, <2>3
<1> QED
  BY <1>4, <1>6, <1>7

LEMMA PrefixIs ==
  ASSUME NEW content \in Seq(Paragraphs), NEW most \in Nat
  PROVE  /\ PrefixOf(content, most) \in Seq(Paragraphs)
         /\ SizeOfContent(PrefixOf(content, most)) <= most
<1> DEFINE V == PrefixesTo(most)
           start == [kept |-> << >>, full |-> FALSE]
           step == [p \in (1..Len(content)) \X V |-> PrefixWith(p[2], content[p[1]], most)]
           Rec(f) == f = [n \in 0..Len(content) |->
                            IF n = 0 THEN start ELSE PrefixWith(f[n - 1], content[n], most)]
<1>1. Len(content) \in Nat /\ \A n \in 1..Len(content) : content[n] \in Paragraphs
  OBVIOUS
<1>2. start \in V
  <2>1. << >> \in Seq(Paragraphs) /\ SizeOfContent(<< >>) = 0
    BY DEF SizeOfContent
  <2> QED
    BY <2>1 DEF PrefixesTo
<1>3. \A n \in 1..Len(content), v \in V : PrefixWith(v, content[n], most) \in V
  BY <1>1, PrefixStep
<1> HIDE DEF V, start
<1>4. step \in [(1..Len(content)) \X V -> V]
  BY <1>3
<1>5. PICK f \in [0..Len(content) -> V] :
        Recursive(f, Len(content), start, step)
  <2> HIDE DEF step
  <2> QED
    BY <1>1, <1>2, <1>4, RecursiveFunction
<1>6. Rec(f)
  <2>1. \A n \in 0..Len(content) : n # 0 => f[n - 1] \in V /\ n \in 1..Len(content)
    BY <1>1
  <2> QED
    BY <1>5, <2>1 DEF Recursive
<1> DEFINE g == CHOOSE h : Rec(h)
<1>7. Rec(g)
  BY <1>6, Zenon
<1>8. PrefixOf(content, most) = g[Len(content)].kept
  BY Zenon DEF PrefixOf, start
<1> HIDE DEF g
<1>9. g[0] = start /\ \A n \in 1..Len(content) : g[n] = PrefixWith(g[n - 1], content[n], most)
  <2> DEFINE e(n) == IF n = 0 THEN start ELSE PrefixWith(g[n - 1], content[n], most)
  <2>1. g = [n \in 0..Len(content) |-> e(n)]
    BY <1>7
  <2> HIDE DEF e
  <2>2. \A n \in 0..Len(content) : g[n] = e(n)
    BY <2>1
  <2> QED
    BY <1>1, <2>2 DEF e
<1> DEFINE Fine == {n \in Nat : n <= Len(content) => g[n] \in V}
<1>10. 0 \in Fine
  BY <1>2, <1>9
<1>11. ASSUME NEW n \in Nat, n \in Fine PROVE n + 1 \in Fine
  <2> SUFFICES ASSUME n + 1 <= Len(content) PROVE g[n + 1] \in V
    OBVIOUS
  <2>1. n + 1 \in 1..Len(content) /\ (n + 1) - 1 = n /\ g[n] \in V
    BY <1>1, <1>11
  <2> QED
    BY <1>3, <1>9, <2>1
<1> HIDE DEF Fine
<1>12. Len(content) \in Fine
  BY <1>1, <1>10, <1>11, Induction
<1>13. g[Len(content)] \in V
  BY <1>1, <1>12 DEF Fine
<1> QED
  BY <1>8, <1>13 DEF V, PrefixesTo

LEMMA FilteredParts ==
  ASSUME NEW S, NEW content \in Seq(S), NEW keep
  PROVE  Filtered(content, keep) \in Seq(S)
<1>1. Filtered(content, keep) \in Seq(S \cap keep)
  BY FilteredType
<1> QED
  BY <1>1

LEMMA UnitTrimmedType ==
  ASSUME NEW bytes \in Nat, NEW most \in Nat
  PROVE  UnitTrimmed(bytes, most) \in Nat
<1>1. Marker \in Nat
  BY PromptAssumption
<1>2. CASE bytes <= most \/ most <= Marker
  BY <1>2 DEF UnitTrimmed
<1>3. CASE ~(bytes <= most \/ most <= Marker)
  <2>1. Larger(2, most - Marker) \in Nat
    BY <1>1, <1>3 DEF Larger
  <2> QED
    BY <1>1, <1>3, <2>1 DEF UnitTrimmed
<1> QED
  BY <1>2, <1>3

\* Contents with injections are cut to the bound.
LEMMA SplitTrimmedIs ==
  ASSUME NEW content \in Seq(Paragraphs), HasInjection(content), NEW most \in Nat
  PROVE  /\ SplitTrimmed(content, most) \in Seq(Paragraphs)
         /\ SizeOfContent(SplitTrimmed(content, most)) <= most
<1> DEFINE isInjection == {part \in Range(content) : IsInjection(part)}
           isPlain == {part \in Range(content) : ~IsInjection(part)}
           injected == Filtered(content, isInjection)
           plain == Filtered(content, isPlain)
           first == IF plain = << >> THEN << >> ELSE <<Plain(SizeOfContent(plain))>>
           parts == first \o injected
           share == Larger(0, most - Len(injected) * (Header + 1)) \div Len(parts)
           cut == [i \in DOMAIN parts |-> [parts[i] EXCEPT !.body = UnitTrimmed(@, share)]]
           stays == {part \in Range(cut) : IsInjection(part) \/ part.body > 0}
           kept == Filtered(cut, stays)
<1>1. SplitTrimmed(content, most)
        = IF SizeOfContent(kept) <= most THEN kept ELSE PrefixOf(kept, most)
  BY DEF SplitTrimmed
<1>2. PICK i \in DOMAIN content : content[i] \in isInjection
  BY DEF HasInjection, Range
<1> HIDE DEF isInjection, isPlain, stays
<1>3. injected \in Seq(Paragraphs) /\ plain \in Seq(Paragraphs)
  BY FilteredParts
<1>4. {injected[j] : j \in DOMAIN injected} = {content[j] : j \in DOMAIN content} \cap isInjection
  BY FilteredMembers
<1>5. Len(injected) \in Nat /\ Len(injected) > 0
  <2>1. DOMAIN injected # {}
    BY <1>2, <1>4
  <2> HIDE DEF injected
  <2> QED
    BY <1>3, <2>1
<1> HIDE DEF injected, plain
<1>6. first \in Seq(Paragraphs)
  <2>1. SizeOfContent(plain) \in Nat
    BY <1>3, PlainParts, Sizes
  <2>2. <<Plain(SizeOfContent(plain))>> \in Seq(Paragraphs)
    BY <2>1, PlainSize
  <2> QED
    BY <2>2
<1> HIDE DEF first
<1>7. parts \in Seq(Paragraphs) /\ Len(parts) = Len(first) + Len(injected)
  BY <1>3, <1>6, ConcatProperties
<1>8. Len(parts) \in Nat /\ Len(parts) > 0
  <2>1. Len(first) \in Nat
    BY <1>6
  <2> QED
    BY <1>5, <1>7, <2>1
<1> HIDE DEF parts
<1>9. share \in Nat
  <2>1. Header \in Nat
    BY PromptAssumption
  <2>2. PICK taken \in Nat : taken = Len(injected) * (Header + 1)
    BY <1>5, <2>1
  <2>3. PICK rest \in Nat : rest = Larger(0, most - taken)
    BY <2>2 DEF Larger
  <2>4. \A a \in Nat, b \in Nat : b > 0 => a \div b \in Nat
    OBVIOUS
  <2> QED
    BY <1>8, <2>2, <2>3, <2>4
<1> HIDE DEF share
<1>10. cut \in Seq(Paragraphs)
  <2>1. \A j \in DOMAIN parts : [parts[j] EXCEPT !.body = UnitTrimmed(@, share)] \in Paragraphs
    <3> SUFFICES ASSUME NEW j \in DOMAIN parts
                 PROVE  [parts[j] EXCEPT !.body = UnitTrimmed(@, share)] \in Paragraphs
      OBVIOUS
    <3>1. parts[j] \in Paragraphs
      BY <1>7
    <3>2. PICK p \in Paragraphs : p = parts[j]
      BY <3>1
    <3>3. p.body \in Nat
      BY <3>2, PartSizes
    <3>4. PICK b \in Nat : b = UnitTrimmed(p.body, share)
      BY <1>9, <3>3, UnitTrimmedType
    <3>5. [p EXCEPT !.body = b] \in Paragraphs
      BY DEF Paragraphs
    <3> QED
      BY <3>2, <3>4, <3>5
  <2>2. DOMAIN parts = 1..Len(parts)
    BY <1>7
  <2> QED
    BY <1>8, <2>1, <2>2
<1> HIDE DEF cut
<1>11. kept \in Seq(Paragraphs)
  BY <1>10, FilteredParts
<1> HIDE DEF kept
<1>12. PrefixOf(kept, most) \in Seq(Paragraphs) /\ SizeOfContent(PrefixOf(kept, most)) <= most
  BY <1>11, PrefixIs
<1> QED
  BY <1>1, <1>11, <1>12

\* Exhausted contents: nothing but a cut is left.
Spare == 2 + Marker

\* What a cut leaves: parts; no more than there was, when what is to be kept leaves room for
\* the marker; and, of contents with no injection, exactly so much less or next to nothing.
TrimmedFrom(cut, content, overage, keep) ==
  /\ cut \in Seq(Paragraphs)
  /\ content = << >> => cut = << >>
  /\ (keep = 0 \/ keep + Marker < SizeOfContent(content))
       => SizeOfContent(cut) <= SizeOfContent(content)
  /\ SizeOfContent(cut) <= SizeOfContent(content) + Marker
  /\ (keep = 0 /\ overage > 0 /\ ~HasInjection(content))
       => \/ SizeOfContent(cut) <= Spare
          \/ /\ cut # << >> /\ content # << >>
             /\ SizeOfContent(cut) = SizeOfContent(content) - overage

LEMMA TrimmedIs ==
  ASSUME NEW content \in Seq(Paragraphs), NEW overage \in Int, NEW keep \in Nat
  PROVE  TrimmedFrom(Trimmed(content, overage, keep), content, overage, keep)
<1>1. Marker \in Nat /\ Marker > 0
  BY PromptAssumption
<1>2. PICK size \in Nat : size = SizeOfContent(content)
  BY Sizes, PlainParts
<1>3. PICK wanted \in Int :
        /\ wanted = IF keep > 0 /\ size > keep THEN Larger(Wanted(size, overage), keep)
                    ELSE Wanted(size, overage)
        /\ keep = 0 => wanted = size - Larger(1, overage) - Marker
        /\ \/ wanted = size - Larger(1, overage) - Marker
           \/ keep > 0 /\ wanted = keep
  <2>1. Wanted(size, overage) \in Int /\ Wanted(size, overage) = size - Larger(1, overage) - Marker
    BY <1>1 DEF Wanted, Larger
  <2>2. Larger(Wanted(size, overage), keep) \in {Wanted(size, overage), keep}
    BY DEF Larger
  <2> QED
    BY <2>1, <2>2
<1>4. PICK more \in Nat : more = Larger(1, overage) /\ more >= 1 /\ (overage > 0 => more = overage)
  BY DEF Larger
<1> DEFINE cut == Trimmed(content, overage, keep)
<1>5. cut = IF content = << >> \/ wanted <= 0 THEN << >>
            ELSE IF wanted >= size THEN content
            ELSE IF HasInjection(content) THEN SplitTrimmed(content, wanted)
            ELSE <<Plain(Larger(2, wanted) + Marker)>>
  BY <1>2, <1>3 DEF Trimmed
<1> SUFFICES TrimmedFrom(cut, content, overage, keep)
  OBVIOUS
<1> HIDE DEF cut
<1>6. SizeOfContent(<< >>) = 0 /\ << >> \in Seq(Paragraphs)
  BY DEF SizeOfContent
<1>7. CASE content = << >> \/ wanted <= 0
  <2>1. cut = << >> /\ SizeOfContent(cut) = 0
    BY <1>5, <1>6, <1>7
  <2> QED
    BY <1>1, <1>2, <1>6, <2>1 DEF TrimmedFrom, Spare
<1>8. CASE ~(content = << >> \/ wanted <= 0) /\ wanted >= size
  <2>1. cut = content
    BY <1>5, <1>8
  <2>2. keep = 0 => FALSE
    BY <1>1, <1>3, <1>4, <1>8
  <2> QED
    BY <1>1, <1>2, <1>8, <2>1, <2>2 DEF TrimmedFrom
<1>9. CASE ~(content = << >> \/ wanted <= 0) /\ ~(wanted >= size) /\ HasInjection(content)
  <2>1. cut = SplitTrimmed(content, wanted) /\ wanted \in Nat
    BY <1>5, <1>9
  <2>2. cut \in Seq(Paragraphs) /\ SizeOfContent(cut) <= wanted
    BY <1>9, <2>1, SplitTrimmedIs
  <2>3. SizeOfContent(cut) \in Nat
    BY <2>2, Sizes, PlainParts
  <2> QED
    BY <1>1, <1>2, <1>9, <2>2, <2>3 DEF TrimmedFrom
<1>10. CASE ~(content = << >> \/ wanted <= 0) /\ ~(wanted >= size) /\ ~HasInjection(content)
  <2>1. PICK left \in Nat : left = Larger(2, wanted) /\ left = IF wanted >= 2 THEN wanted ELSE 2
    BY <1>10 DEF Larger
  <2>2. cut = <<Plain(left + Marker)>> /\ left + Marker \in Nat
    BY <1>1, <1>5, <1>10, <2>1
  <2>3. cut \in Seq(Paragraphs) /\ SizeOfContent(cut) = left + Marker /\ cut # << >>
    BY <2>2, PlainSize
  <2>4. (keep = 0 \/ keep + Marker < size) => left + Marker <= size
    BY <1>1, <1>3, <1>4, <1>10, <2>1
  <2>5. keep = 0 /\ overage > 0 => left + Marker <= 2 + Marker \/ left + Marker = size - overage
    BY <1>1, <1>3, <1>4, <1>10, <2>1
  <2>6. left + Marker <= size + Marker
    BY <1>1, <1>10, <2>1
  <2> QED
    BY <1>2, <1>10, <2>3, <2>4, <2>5, <2>6 DEF TrimmedFrom, Spare
<1> QED
  BY <1>7, <1>8, <1>9, <1>10

-----------------------------------------------------------------------------
(* The rendered prompt.                                                     *)

Buckets == [Roles -> Seq(Paragraphs)]

LEMMA OrderOfRoles ==
  /\ TrimOrder \in Seq(Roles) /\ Len(TrimOrder) = 6 /\ DOMAIN TrimOrder = 1..6
  /\ \A i \in 1..6 : TrimOrder[i] \in Roles
  /\ \A i, j \in 1..6 : i # j => TrimOrder[i] # TrimOrder[j]
  /\ \A role \in Roles : \E i \in 1..6 : role = TrimOrder[i]
BY DEF TrimOrder, Roles

WidthOf(buckets, role) ==
  IF buckets[role] = << >> THEN 0 ELSE SizeOfContent(buckets[role]) + Wrapper + Gap
WidthsOf(buckets) == [i \in DOMAIN TrimOrder |-> WidthOf(buckets, TrimOrder[i])]

HasWidths(buckets, widths) ==
  /\ widths \in Seq(Nat) /\ Len(widths) = 6 /\ DOMAIN widths = 1..6
  /\ \A i \in 1..6 : widths[i] = WidthOf(buckets, TrimOrder[i])
  /\ \A i \in 1..6 : widths[i] # 0 => widths[i] >= Gap

LEMMA RoleWidths ==
  ASSUME NEW buckets \in Buckets
  PROVE  HasWidths(buckets, WidthsOf(buckets))
<1>1. Gap \in Nat /\ Wrapper \in Nat
  BY PromptAssumption
<1>2. \A i \in 1..6 : /\ WidthOf(buckets, TrimOrder[i]) \in Nat
                      /\ WidthOf(buckets, TrimOrder[i]) # 0 => WidthOf(buckets, TrimOrder[i]) >= Gap
  <2> SUFFICES ASSUME NEW i \in 1..6
               PROVE  /\ WidthOf(buckets, TrimOrder[i]) \in Nat
                      /\ WidthOf(buckets, TrimOrder[i]) # 0
                           => WidthOf(buckets, TrimOrder[i]) >= Gap
    OBVIOUS
  <2>1. TrimOrder[i] \in Roles
    BY OrderOfRoles
  <2>2. buckets[TrimOrder[i]] \in Seq(Paragraphs)
    BY <2>1 DEF Buckets
  <2>3. SizeOfContent(buckets[TrimOrder[i]]) \in Nat
    BY <2>2, Sizes, PlainParts
  <2> QED
    BY <1>1, <2>3 DEF WidthOf
<1>3. /\ DOMAIN WidthsOf(buckets) = 1..6
      /\ \A i \in 1..6 : WidthsOf(buckets)[i] = WidthOf(buckets, TrimOrder[i])
  BY OrderOfRoles DEF WidthsOf
<1>4. WidthsOf(buckets) = [i \in 1..6 |-> WidthOf(buckets, TrimOrder[i])]
  BY OrderOfRoles DEF WidthsOf
<1>5. WidthsOf(buckets) \in Seq(Nat) /\ Len(WidthsOf(buckets)) = 6
  <2>1. WidthsOf(buckets) \in [1..6 -> Nat]
    BY <1>2, <1>4
  <2>2. \A n \in Nat : \A f \in [1..n -> Nat] : f \in Seq(Nat) /\ Len(f) = n
    OBVIOUS
  <2> QED
    BY <2>1, <2>2
<1>6. \A i \in 1..6 : WidthsOf(buckets)[i] # 0 => WidthsOf(buckets)[i] >= Gap
  BY <1>2, <1>3
<1> QED
  BY <1>3, <1>5, <1>6, Zenon DEF HasWidths

LEMMA RenderedIs ==
  ASSUME NEW buckets \in Buckets
  PROVE  /\ Summed(WidthsOf(buckets)) \in Nat
         /\ Summed(WidthsOf(buckets)) # 0 => Summed(WidthsOf(buckets)) >= Gap
         /\ Rendered(buckets) = IF Summed(WidthsOf(buckets)) = 0 THEN 0
                                ELSE Summed(WidthsOf(buckets)) - Gap
         /\ Rendered(buckets) \in Nat
<1> DEFINE w == WidthsOf(buckets)
<1>1. Gap \in Nat
  BY PromptAssumption
<1>2. Rendered(buckets) = IF Summed(w) = 0 THEN 0 ELSE Summed(w) - Gap
  BY Zenon DEF Rendered, WidthsOf, WidthOf
<1>3. /\ w \in Seq(Nat) /\ DOMAIN w = 1..6
      /\ \A i \in 1..6 : w[i] # 0 => w[i] >= Gap
  BY RoleWidths DEF HasWidths
<1> HIDE DEF w
<1>4. Summed(w) \in Nat
  BY <1>3, SummedAppend
<1>5. Summed(w) # 0 => Summed(w) >= Gap
  <2> SUFFICES ASSUME Summed(w) # 0 PROVE Summed(w) >= Gap
    OBVIOUS
  <2>1. PICK i \in DOMAIN w : w[i] # 0
    BY <1>3, SummedZeros
  <2>2. w[i] <= Summed(w) /\ w[i] \in Nat /\ w[i] >= Gap
    BY <1>3, <2>1, SummedElement
  <2> QED
    BY <1>1, <1>4, <2>2
<1> QED
  BY <1>1, <1>2, <1>4, <1>5 DEF w

NoLarger(less, buckets) ==
  \A role \in Roles : /\ SizeOfContent(less[role]) <= SizeOfContent(buckets[role])
                      /\ buckets[role] = << >> => less[role] = << >>

\* What has no larger bucket renders no longer.
LEMMA RenderedLess ==
  ASSUME NEW buckets \in Buckets, NEW less \in Buckets, NoLarger(less, buckets)
  PROVE  Rendered(less) <= Rendered(buckets)
<1>1. Gap \in Nat /\ Wrapper \in Nat
  BY PromptAssumption
<1>2. ASSUME NEW i \in 1..6
      PROVE  WidthsOf(less)[i] <= WidthsOf(buckets)[i]
  <2>1. PICK role \in Roles : role = TrimOrder[i]
    BY OrderOfRoles
  <2>2. less[role] \in Seq(Paragraphs) /\ buckets[role] \in Seq(Paragraphs)
    BY DEF Buckets
  <2>3. PICK a \in Nat, b \in Nat : a = SizeOfContent(less[role]) /\ b = SizeOfContent(buckets[role])
    BY <2>2, Sizes, PlainParts
  <2>4. a <= b /\ (buckets[role] = << >> => less[role] = << >>)
    BY <2>3 DEF NoLarger
  <2>5. WidthOf(less, role) <= WidthOf(buckets, role)
    BY <1>1, <2>3, <2>4 DEF WidthOf
  <2> QED
    BY <2>1, <2>5, RoleWidths DEF HasWidths
<1>3. Summed(WidthsOf(less)) <= Summed(WidthsOf(buckets))
  <2>1. /\ WidthsOf(less) \in Seq(Nat) /\ WidthsOf(buckets) \in Seq(Nat)
        /\ Len(WidthsOf(less)) = Len(WidthsOf(buckets)) /\ DOMAIN WidthsOf(buckets) = 1..6
    BY RoleWidths DEF HasWidths
  <2> QED
    BY <1>2, <2>1, SummedLess
<1>4. /\ Summed(WidthsOf(less)) \in Nat /\ Summed(WidthsOf(buckets)) \in Nat
      /\ Summed(WidthsOf(buckets)) # 0 => Summed(WidthsOf(buckets)) >= Gap
      /\ Rendered(less) = IF Summed(WidthsOf(less)) = 0 THEN 0 ELSE Summed(WidthsOf(less)) - Gap
      /\ Rendered(buckets) = IF Summed(WidthsOf(buckets)) = 0 THEN 0
                             ELSE Summed(WidthsOf(buckets)) - Gap
  BY RenderedIs
<1> QED
  BY <1>1, <1>3, <1>4

\* What one bucket loses, the prompt loses.
LEMMA RenderedChange ==
  ASSUME NEW buckets \in Buckets, NEW role \in Roles, NEW content \in Seq(Paragraphs),
         content # << >>, buckets[role] # << >>
  PROVE  /\ [buckets EXCEPT ![role] = content] \in Buckets
         /\ Rendered([buckets EXCEPT ![role] = content])
              = Rendered(buckets) + SizeOfContent(content) - SizeOfContent(buckets[role])
<1> DEFINE after == [buckets EXCEPT ![role] = content]
<1>1. Gap \in Nat /\ Gap > 0 /\ Wrapper \in Nat
  BY PromptAssumption
<1>2. /\ after \in Buckets /\ after[role] = content
      /\ \A other \in Roles : other # role => after[other] = buckets[other]
  BY DEF Buckets
<1> HIDE DEF after
<1>3. PICK k \in 1..6 : role = TrimOrder[k]
  BY OrderOfRoles
<1>4. PICK a \in Nat, b \in Nat : a = SizeOfContent(content) /\ b = SizeOfContent(buckets[role])
  <2>1. buckets[role] \in Seq(Paragraphs)
    BY DEF Buckets
  <2> QED
    BY <2>1, Sizes, PlainParts
<1> DEFINE s == WidthsOf(buckets)
           t == WidthsOf(after)
<1>5. /\ s \in Seq(Nat) /\ t \in Seq(Nat) /\ Len(s) = Len(t) /\ DOMAIN s = 1..6
      /\ s[k] = WidthOf(buckets, role) /\ t[k] = WidthOf(after, role)
  BY <1>2, <1>3, RoleWidths DEF HasWidths
<1>6. \A i \in DOMAIN s : i # k => t[i] = s[i]
  <2> SUFFICES ASSUME NEW i \in 1..6, i # k PROVE t[i] = s[i]
    BY <1>5
  <2>1. TrimOrder[i] \in Roles /\ TrimOrder[i] # role
    BY <1>3, OrderOfRoles
  <2>2. after[TrimOrder[i]] = buckets[TrimOrder[i]]
    BY <1>2, <2>1
  <2>3. WidthOf(after, TrimOrder[i]) = WidthOf(buckets, TrimOrder[i])
    BY <2>2 DEF WidthOf
  <2>4. s[i] = WidthOf(buckets, TrimOrder[i]) /\ t[i] = WidthOf(after, TrimOrder[i])
    BY <1>2, RoleWidths DEF HasWidths
  <2> QED
    BY <2>3, <2>4
<1>7. s[k] = b + Wrapper + Gap /\ t[k] = a + Wrapper + Gap
  BY <1>2, <1>4, <1>5 DEF WidthOf
<1>8. /\ Summed(s) \in Nat
      /\ Rendered(buckets) = IF Summed(s) = 0 THEN 0 ELSE Summed(s) - Gap
      /\ Summed(t) \in Nat
      /\ Rendered(after) = IF Summed(t) = 0 THEN 0 ELSE Summed(t) - Gap
  BY <1>2, RenderedIs
<1> HIDE DEF s, t
<1>9. Summed(t) + s[k] = Summed(s) + t[k]
  BY <1>5, <1>6, SummedChange
<1>10. s[k] <= Summed(s) /\ t[k] <= Summed(t)
  <2>1. DOMAIN t = 1..6
    BY <1>2, RoleWidths DEF HasWidths, t
  <2> QED
    BY <1>5, <2>1, SummedElement
<1>11. Rendered(after) = Rendered(buckets) + a - b
  BY <1>1, <1>7, <1>8, <1>9, <1>10
<1> QED
  BY <1>2, <1>4, <1>11 DEF after

-----------------------------------------------------------------------------
(* The bucket budget, and the last cut.                                     *)

MayTrim(buckets, role) == role \notin TrimProtected /\ ~HasInjection(buckets[role])
Used(buckets, role) == SizeOfContent(buckets[role]) <= Spare

\* What the last cut has come to behind the first n roles of its order.
Progress(before, now, n, target) ==
  /\ now \in Buckets /\ NoLarger(now, before)
  /\ \A m \in 1..6 : m > n => now[TrimOrder[m]] = before[TrimOrder[m]]
  /\ Rendered(now) > target =>
       \A m \in 1..n : MayTrim(before, TrimOrder[m]) => Used(now, TrimOrder[m])
  /\ \A i, j \in 1..6 :
       (i < j /\ now[TrimOrder[j]] # before[TrimOrder[j]] /\ MayTrim(before, TrimOrder[i]))
         => Used(now, TrimOrder[i])

LEMMA ProgressStep ==
  ASSUME NEW before \in Buckets, NEW target \in Int, NEW n \in 0..5, NEW now,
         Progress(before, now, n, target)
  PROVE  Progress(before, TrimmedAt(now, TrimOrder[n + 1], target), n + 1, target)
<1>1. /\ now \in Buckets /\ NoLarger(now, before)
      /\ \A m \in 1..6 : m > n => now[TrimOrder[m]] = before[TrimOrder[m]]
  BY DEF Progress
<1>2. Rendered(now) > target =>
        \A m \in 1..n : MayTrim(before, TrimOrder[m]) => Used(now, TrimOrder[m])
  BY DEF Progress
<1>3. \A i, j \in 1..6 :
        (i < j /\ now[TrimOrder[j]] # before[TrimOrder[j]] /\ MayTrim(before, TrimOrder[i]))
          => Used(now, TrimOrder[i])
  BY DEF Progress
<1>4. PICK k \in 1..6 : k = n + 1
  OBVIOUS
<1>5. PICK role \in Roles : role = TrimOrder[k]
  BY OrderOfRoles
<1>6. now[role] = before[role] /\ now[role] \in Seq(Paragraphs)
  BY <1>1, <1>4, <1>5 DEF Buckets
<1>7. Rendered(now) \in Nat
  BY <1>1, RenderedIs
<1> DEFINE overage == Rendered(now) - target
           after == TrimmedAt(now, role, target)
<1>8. CASE overage <= 0 \/ ~MayTrim(now, role)
  <2>1. after = now
    BY <1>8 DEF TrimmedAt, MayTrim
  <2>2. Rendered(now) > target => ~MayTrim(before, TrimOrder[k])
    BY <1>5, <1>6, <1>7, <1>8 DEF MayTrim
  <2>3. Rendered(now) > target =>
          \A m \in 1..k : MayTrim(before, TrimOrder[m]) => Used(now, TrimOrder[m])
    <3>1. \A m \in 1..k : m \in 1..n \/ m = k
      BY <1>4
    <3> QED
      BY <1>2, <2>2, <3>1
  <2>4. \A m \in 1..6 : m > k => now[TrimOrder[m]] = before[TrimOrder[m]]
    BY <1>1, <1>4
  <2>5. Progress(before, now, k, target)
    BY <1>1, <1>3, <2>3, <2>4, Zenon DEF Progress
  <2> QED
    BY <1>4, <1>5, <2>1, <2>5
<1>9. CASE ~(overage <= 0) /\ MayTrim(now, role)
  <2>1. overage \in Int /\ overage > 0
    BY <1>7, <1>9
  <2> DEFINE cut == Trimmed(now[role], overage, 0)
  <2>2. after = [now EXCEPT ![role] = cut]
    BY <1>9 DEF TrimmedAt, MayTrim
  <2>3. TrimmedFrom(cut, now[role], overage, 0)
    BY <1>6, <2>1, TrimmedIs
  <2> HIDE DEF cut, after, overage
  <2>4. /\ cut \in Seq(Paragraphs) /\ (now[role] = << >> => cut = << >>)
        /\ SizeOfContent(cut) <= SizeOfContent(now[role])
        /\ \/ SizeOfContent(cut) <= Spare
           \/ /\ cut # << >> /\ now[role] # << >>
              /\ SizeOfContent(cut) = SizeOfContent(now[role]) - overage
    BY <1>9, <2>1, <2>3 DEF TrimmedFrom, MayTrim
  <2>5. /\ after \in Buckets /\ after[role] = cut
        /\ \A other \in Roles : other # role => after[other] = now[other]
    BY <1>1, <2>2, <2>4 DEF Buckets
  <2>6. \A m \in 1..6 : /\ TrimOrder[m] \in Roles
                        /\ m # k => TrimOrder[m] # role
                        /\ m # k => after[TrimOrder[m]] = now[TrimOrder[m]]
    BY <1>5, <2>5, OrderOfRoles
  <2>7. NoLarger(after, before)
    BY <1>1, <1>6, <2>4, <2>5 DEF NoLarger
  <2>8. \A m \in 1..6 : m > k => after[TrimOrder[m]] = before[TrimOrder[m]]
    BY <1>1, <1>4, <2>6
  <2>9. \A m \in 1..n : MayTrim(before, TrimOrder[m]) => Used(after, TrimOrder[m])
    <3> SUFFICES ASSUME NEW m \in 1..n, MayTrim(before, TrimOrder[m])
                 PROVE  Used(after, TrimOrder[m])
      OBVIOUS
    <3>1. m \in 1..6 /\ m # k
      BY <1>4
    <3>2. Rendered(now) > target
      BY <1>7, <2>1 DEF overage
    <3>3. Used(now, TrimOrder[m])
      BY <1>2, <3>2
    <3> QED
      BY <2>6, <3>1, <3>3 DEF Used
  <2>10. Rendered(after) > target => Used(after, role)
    <3> SUFFICES ASSUME ~Used(after, role) PROVE ~(Rendered(after) > target)
      OBVIOUS
    <3>1. /\ cut # << >> /\ now[role] # << >>
          /\ SizeOfContent(cut) = SizeOfContent(now[role]) - overage
      BY <2>4, <2>5 DEF Used
    <3>2. Rendered(after) = Rendered(now) + SizeOfContent(cut) - SizeOfContent(now[role])
      BY <1>1, <2>2, <2>4, <3>1, RenderedChange
    <3>3. SizeOfContent(now[role]) \in Nat
      BY <1>6, PlainParts, Sizes
    <3> QED
      BY <1>7, <3>1, <3>2, <3>3 DEF overage
  <2>11. Rendered(after) > target =>
           \A m \in 1..k : MayTrim(before, TrimOrder[m]) => Used(after, TrimOrder[m])
    <3>1. \A m \in 1..k : m \in 1..n \/ m = k
      BY <1>4
    <3> QED
      BY <1>5, <2>9, <2>10, <3>1
  <2>12. \A i, j \in 1..6 :
           (i < j /\ after[TrimOrder[j]] # before[TrimOrder[j]] /\ MayTrim(before, TrimOrder[i]))
             => Used(after, TrimOrder[i])
    <3> SUFFICES ASSUME NEW i \in 1..6, NEW j \in 1..6, i < j,
                        after[TrimOrder[j]] # before[TrimOrder[j]], MayTrim(before, TrimOrder[i])
                 PROVE  Used(after, TrimOrder[i])
      OBVIOUS
    <3>1. j <= k
      BY <1>4, <2>8
    <3>2. i \in 1..n
      BY <1>4, <3>1
    <3> QED
      BY <2>9, <3>2
  <2>13. Progress(before, after, k, target)
    BY <2>5, <2>7, <2>8, <2>11, <2>12, Zenon DEF Progress
  <2> QED
    BY <1>4, <1>5, <2>13 DEF after
<1> QED
  BY <1>8, <1>9

LEMMA TrimmedToBudgetIs ==
  ASSUME NEW before \in Buckets, NEW target \in Int
  PROVE  Progress(before, TrimmedToBudget(before, target), 6, target)
<1> DEFINE V == Buckets
           step == [p \in (1..6) \X V |-> TrimmedAt(p[2], Planned[p[1]], target)]
           Rec(f) == f = [n \in 0..6 |-> IF n = 0 THEN before ELSE TrimmedAt(f[n - 1], Planned[n], target)]
<1>1. Len(Planned) = 6 /\ Planned = TrimOrder
  BY OrderOfRoles DEF Planned
<1>2. ASSUME NEW n \in 1..6, NEW v \in V PROVE TrimmedAt(v, Planned[n], target) \in V
  <2>1. PICK role \in Roles : role = Planned[n]
    BY <1>1, OrderOfRoles
  <2>2. v[role] \in Seq(Paragraphs) /\ Rendered(v) - target \in Int
    BY RenderedIs DEF Buckets
  <2>3. Trimmed(v[role], Rendered(v) - target, 0) \in Seq(Paragraphs)
    BY <2>2, TrimmedIs DEF TrimmedFrom
  <2> QED
    BY <2>1, <2>3 DEF TrimmedAt, Buckets
<1> HIDE DEF V
<1>3. step \in [(1..6) \X V -> V]
  BY <1>2
<1>4. PICK f \in [0..6 -> V] : Recursive(f, 6, before, step)
  <2>1. before \in V
    BY DEF V
  <2> HIDE DEF step
  <2> QED
    BY <1>3, <2>1, RecursiveFunction
<1>5. Rec(f)
  <2>1. \A n \in 0..6 : n # 0 => f[n - 1] \in V /\ n \in 1..6
    OBVIOUS
  <2> QED
    BY <1>4, <2>1 DEF Recursive
<1> DEFINE g == CHOOSE h : Rec(h)
<1>6. Rec(g)
  BY <1>5, Zenon
<1>7. TrimmedToBudget(before, target) = g[6]
  BY <1>1 DEF TrimmedToBudget
<1> HIDE DEF g
<1>8. g[0] = before /\ \A n \in 1..6 : g[n] = TrimmedAt(g[n - 1], TrimOrder[n], target)
  <2> DEFINE e(n) == IF n = 0 THEN before ELSE TrimmedAt(g[n - 1], Planned[n], target)
  <2>1. g = [n \in 0..6 |-> e(n)]
    BY <1>6
  <2> HIDE DEF e
  <2>2. \A n \in 0..6 : g[n] = e(n)
    BY <2>1
  <2> QED
    BY <1>1, <2>2 DEF e
<1> DEFINE Fine == {n \in Nat : n <= 6 => Progress(before, g[n], n, target)}
<1>9. 0 \in Fine
  <2>1. \A role \in Roles : SizeOfContent(before[role]) \in Nat
    <3>1. \A role \in Roles : before[role] \in Seq(Paragraphs)
      BY DEF Buckets
    <3> QED
      BY <3>1, PlainParts, Sizes
  <2>2. NoLarger(before, before)
    BY <2>1 DEF NoLarger
  <2>3. Progress(before, before, 0, target)
    BY <2>2 DEF Progress
  <2> QED
    BY <1>8, <2>3
<1>10. ASSUME NEW n \in Nat, n \in Fine PROVE n + 1 \in Fine
  <2> SUFFICES ASSUME n + 1 <= 6 PROVE Progress(before, g[n + 1], n + 1, target)
    OBVIOUS
  <2>1. n \in 0..5 /\ n + 1 \in 1..6 /\ (n + 1) - 1 = n /\ Progress(before, g[n], n, target)
    BY <1>10
  <2>2. g[n + 1] = TrimmedAt(g[n], TrimOrder[n + 1], target)
    BY <1>8, <2>1
  <2> QED
    BY <2>1, <2>2, ProgressStep
<1> HIDE DEF Fine
<1>11. 6 \in Fine
  BY <1>9, <1>10, Induction
<1>12. Progress(before, g[6], 6, target)
  BY <1>11 DEF Fine
<1> QED
  BY <1>7, <1>12

\* What the bucket budget may do to each bucket.
LittleLarger(after, buckets) ==
  \A role \in Roles :
    /\ \/ SizeOfContent(after[role]) <= SizeOfContent(buckets[role])
       \/ /\ ~LeavesRoom(role)
          /\ SizeOfContent(after[role]) <= SizeOfContent(buckets[role]) + Marker
    /\ buckets[role] = << >> => after[role] = << >>

LEMMA BucketsBudgetedIs ==
  ASSUME NEW buckets \in Buckets
  PROVE  BucketsBudgeted(buckets) \in Buckets /\ LittleLarger(BucketsBudgeted(buckets), buckets)
<1> DEFINE after == BucketsBudgeted(buckets)
<1>1. ASSUME NEW role \in Roles
      PROVE  /\ after[role] \in Seq(Paragraphs)
             /\ \/ SizeOfContent(after[role]) <= SizeOfContent(buckets[role])
                \/ /\ ~LeavesRoom(role)
                   /\ SizeOfContent(after[role]) <= SizeOfContent(buckets[role]) + Marker
             /\ buckets[role] = << >> => after[role] = << >>
  <2>1. buckets[role] \in Seq(Paragraphs)
    BY DEF Buckets
  <2>2. PICK size \in Nat : size = SizeOfContent(buckets[role])
    BY <2>1, PlainParts, Sizes
  <2>3. CASE after[role] = buckets[role]
    BY <2>1, <2>2, <2>3
  <2>4. CASE after[role] # buckets[role]
    <3> DEFINE most == BucketRules[role].max
               keep == BucketRules[role].keep
    <3>1. /\ role \in DOMAIN BucketRules /\ ~(size <= most)
          /\ after[role] = Trimmed(buckets[role], size - most, keep)
      BY <2>2, <2>4 DEF BucketsBudgeted
    <3>2. keep \in Nat /\ most \in Nat /\ Marker \in Nat
      BY <3>1, PromptAssumption
    <3>3. LeavesRoom(role) => keep + Marker <= most
      BY <3>1 DEF LeavesRoom
    <3> HIDE DEF after, most, keep
    <3>4. TrimmedFrom(after[role], buckets[role], size - most, keep)
      <4>1. size - most \in Int
        BY <3>2
      <4>2. TrimmedFrom(Trimmed(buckets[role], size - most, keep), buckets[role], size - most, keep)
        BY <2>1, <3>2, <4>1, TrimmedIs
      <4> QED
        BY <3>1, <4>2
    <3>5. LeavesRoom(role) => keep + Marker < SizeOfContent(buckets[role])
      BY <2>2, <3>1, <3>2, <3>3
    <3> QED
      BY <3>4, <3>5 DEF TrimmedFrom
  <2> QED
    BY <2>3, <2>4
<1>2. after = [role \in Roles |-> after[role]]
  BY DEF BucketsBudgeted
<1> HIDE DEF after
<1>3. after \in Buckets
  BY <1>1, <1>2 DEF Buckets
<1> QED
  BY <1>1, <1>3 DEF LittleLarger, after

-----------------------------------------------------------------------------
(* What is injected.                                                        *)

Statuses == {"target_denied", "empty", "total_budget_exceeded", "trimmed", "included"}
PolicyDecisions == [injection : Injections, status : Statuses, bytes : Nat]

LEMMA Totals ==
  ASSUME NEW decided \in Seq(PolicyDecisions), NEW d \in PolicyDecisions
  PROVE  /\ TotalOf(<< >>) = 0 /\ TotalOf(decided) \in Nat
         /\ TotalOf(Append(decided, d)) = TotalOf(decided) + d.bytes
<1> DEFINE f == [x \in PolicyDecisions |-> x.bytes]
           more == Append(decided, d)
           BytesIn(s) == [i \in DOMAIN s |-> s[i].bytes]
<1>1. f \in [PolicyDecisions -> Nat] /\ f[d] = d.bytes /\ d.bytes \in Nat
  BY DEF PolicyDecisions
<1>2. \A s \in Seq(PolicyDecisions) : BytesIn(s) = [i \in DOMAIN s |-> f[s[i]]]
  <2> SUFFICES ASSUME NEW s \in Seq(PolicyDecisions) PROVE BytesIn(s) = [i \in DOMAIN s |-> f[s[i]]]
    OBVIOUS
  <2>1. \A i \in DOMAIN s : s[i] \in PolicyDecisions
    OBVIOUS
  <2> QED
    BY <2>1
<1>3. more \in Seq(PolicyDecisions) /\ << >> \in Seq(PolicyDecisions)
  OBVIOUS
<1> HIDE DEF f, BytesIn
<1>4. BytesIn(decided) \in Seq(Nat) /\ BytesIn(more) = Append(BytesIn(decided), f[d])
  <2>1. /\ [i \in DOMAIN decided |-> f[decided[i]]] \in Seq(Nat)
        /\ [i \in DOMAIN more |-> f[more[i]]]
             = Append([i \in DOMAIN decided |-> f[decided[i]]], f[d])
    BY <1>1, MadeAppend
  <2>2. BytesIn(decided) = [i \in DOMAIN decided |-> f[decided[i]]]
    BY <1>2
  <2>3. BytesIn(more) = [i \in DOMAIN more |-> f[more[i]]]
    BY <1>2, <1>3
  <2> QED
    BY <2>1, <2>2, <2>3, Zenon
<1>5. /\ Summed(<< >>) = 0 /\ Summed(BytesIn(decided)) \in Nat
      /\ Summed(BytesIn(more)) = Summed(BytesIn(decided)) + f[d]
  BY <1>1, <1>4, SummedAppend
<1>6. TotalOf(decided) = Summed(BytesIn(decided)) /\ TotalOf(more) = Summed(BytesIn(more))
  BY DEF TotalOf, BytesIn
<1>7. TotalOf(<< >>) = 0
  <2>1. [i \in DOMAIN << >> |-> << >>[i].bytes] = << >>
    OBVIOUS
  <2> QED
    BY <1>5, <2>1 DEF TotalOf
<1> QED
  BY <1>1, <1>5, <1>6, <1>7

\* One decision more: within the policy, and nothing when nothing is left.
Decided(more, decided, given, d) ==
  /\ d \in PolicyDecisions /\ more = Append(decided, d) /\ d.injection = given
  /\ d.bytes <= MaxInjection
  /\ TotalOf(decided) + d.bytes <= MaxTotalInjected
  /\ TotalOf(decided) = MaxTotalInjected => d.bytes = 0
  /\ d.status = "total_budget_exceeded" =>
       d.bytes = 0 /\ TotalOf(decided) = MaxTotalInjected

LEMMA GovernIs ==
  ASSUME NEW decided \in Seq(PolicyDecisions), TotalOf(decided) <= MaxTotalInjected,
         NEW given \in Injections
  PROVE  \E d : Decided(Govern(decided, given), decided, given, d)
<1>1. MaxInjection \in Nat /\ MaxTotalInjected \in Nat /\ given.body \in Nat
  BY PromptAssumption
<1>2. PICK total \in Nat : total = TotalOf(decided) /\ total <= MaxTotalInjected
  <2>1. \A s \in Seq(PolicyDecisions), x \in PolicyDecisions : TotalOf(s) \in Nat
    BY Totals
  <2>2. Decision(given, "empty", 0) \in PolicyDecisions
    BY DEF Decision, PolicyDecisions, Statuses
  <2> QED
    BY <2>1, <2>2
<1>3. PICK each \in Nat : each = Smaller(given.body, MaxInjection) /\ each <= MaxInjection
  BY <1>1 DEF Smaller
<1>4. PICK rest \in Nat : rest = MaxTotalInjected - total
  BY <1>1, <1>2
<1>5. PICK bytes \in Nat : bytes = Smaller(each, rest) /\ bytes <= each /\ bytes <= rest
  BY DEF Smaller
<1>6. PICK status \in {"trimmed", "included"} :
        status = IF each < given.body \/ each > rest THEN "trimmed" ELSE "included"
  OBVIOUS
<1>7. Spent(decided) = total
  BY <1>2 DEF Spent
<1> DEFINE d == IF AllowedTargets # {} /\ given.target \notin AllowedTargets
                THEN Decision(given, "target_denied", 0)
                ELSE IF given.body = 0 THEN Decision(given, "empty", 0)
                ELSE IF each > rest /\ rest <= 0 THEN Decision(given, "total_budget_exceeded", 0)
                ELSE Decision(given, status, bytes)
<1>8. Govern(decided, given) = Append(decided, d)
  BY <1>3, <1>4, <1>5, <1>6, <1>7 DEF Govern
<1>9. \/ d = Decision(given, "target_denied", 0)
      \/ d = Decision(given, "empty", 0)
      \/ d = Decision(given, "total_budget_exceeded", 0) /\ rest = 0
      \/ d = Decision(given, status, bytes)
  BY <1>4
<1> HIDE DEF d
<1>10. /\ d \in PolicyDecisions /\ d.injection = given /\ d.bytes <= MaxInjection
       /\ d.bytes <= rest
       /\ d.status = "total_budget_exceeded" => d.bytes = 0 /\ rest = 0
  <2>1. \A s \in Statuses, b \in Nat :
          /\ Decision(given, s, b) \in PolicyDecisions
          /\ Decision(given, s, b).injection = given
          /\ Decision(given, s, b).status = s
          /\ Decision(given, s, b).bytes = b
    BY DEF Decision, PolicyDecisions
  <2>2. /\ "target_denied" \in Statuses /\ "empty" \in Statuses
        /\ "total_budget_exceeded" \in Statuses /\ status \in Statuses
        /\ status # "total_budget_exceeded"
    BY DEF Statuses
  <2>3. CASE d = Decision(given, "target_denied", 0)
    <3>1. d \in PolicyDecisions /\ d.injection = given /\ d.status = "target_denied" /\ d.bytes = 0
      BY <2>1, <2>2, <2>3
    <3> QED
      BY <1>1, <3>1
  <2>4. CASE d = Decision(given, "empty", 0)
    <3>1. d \in PolicyDecisions /\ d.injection = given /\ d.status = "empty" /\ d.bytes = 0
      BY <2>1, <2>2, <2>4
    <3> QED
      BY <1>1, <3>1
  <2>5. CASE d = Decision(given, "total_budget_exceeded", 0) /\ rest = 0
    <3>1. d \in PolicyDecisions /\ d.injection = given /\ d.bytes = 0
      BY <2>1, <2>2, <2>5
    <3> QED
      BY <1>1, <2>5, <3>1
  <2>6. CASE d = Decision(given, status, bytes)
    <3>1. d \in PolicyDecisions /\ d.injection = given /\ d.status = status /\ d.bytes = bytes
      BY <2>1, <2>2, <2>6
    <3> QED
      BY <1>1, <1>3, <1>5, <2>2, <3>1
  <2> QED
    BY <1>9, <2>3, <2>4, <2>5, <2>6
<1>11. d.bytes \in Nat
  BY <1>10 DEF PolicyDecisions
<1>12. Decided(Govern(decided, given), decided, given, d)
  <2>1. TotalOf(decided) + d.bytes <= MaxTotalInjected
    BY <1>1, <1>2, <1>4, <1>10, <1>11
  <2>2. TotalOf(decided) = MaxTotalInjected => d.bytes = 0
    BY <1>1, <1>2, <1>4, <1>10, <1>11
  <2>3. d.status = "total_budget_exceeded" =>
          d.bytes = 0 /\ TotalOf(decided) = MaxTotalInjected
    BY <1>1, <1>2, <1>4, <1>10
  <2> QED
    BY <1>8, <1>10, <2>1, <2>2, <2>3 DEF Decided
<1> QED
  BY <1>12

\* The decisions of a policy that takes injections in an order.
PolicyHolds(decided, n, injections, order) ==
  /\ decided \in Seq(PolicyDecisions) /\ Len(decided) = n
  /\ \A i \in 1..n : decided[i].injection = injections[order[i]]
  /\ \A i \in 1..n : decided[i].bytes <= MaxInjection
  /\ TotalOf(decided) <= MaxTotalInjected
  /\ \A i \in 1..n : decided[i].status = "total_budget_exceeded" =>
                       TotalOf(decided) = MaxTotalInjected
  /\ \A i, j \in 1..n :
       decided[i].status = "total_budget_exceeded" /\ decided[j].bytes > 0 => j < i

LEMMA PolicyStep ==
  ASSUME NEW injections, NEW order, NEW decided, NEW n \in Nat,
         PolicyHolds(decided, n, injections, order), injections[order[n + 1]] \in Injections
  PROVE  PolicyHolds(Govern(decided, injections[order[n + 1]]), n + 1, injections, order)
<1>1. /\ decided \in Seq(PolicyDecisions) /\ Len(decided) = n
      /\ \A i \in 1..n : decided[i].injection = injections[order[i]]
      /\ \A i \in 1..n : decided[i].bytes <= MaxInjection
      /\ TotalOf(decided) <= MaxTotalInjected
  BY DEF PolicyHolds
<1>2. \A i \in 1..n : decided[i].status = "total_budget_exceeded" =>
                       TotalOf(decided) = MaxTotalInjected
  BY DEF PolicyHolds
<1>3. \A i, j \in 1..n :
        decided[i].status = "total_budget_exceeded" /\ decided[j].bytes > 0 => j < i
  BY DEF PolicyHolds
<1> DEFINE given == injections[order[n + 1]]
           more == Govern(decided, given)
<1>4. PICK d : Decided(more, decided, given, d)
  BY <1>1, GovernIs
<1>5. /\ d \in PolicyDecisions /\ more = Append(decided, d) /\ d.injection = given
      /\ d.bytes <= MaxInjection /\ d.bytes \in Nat
      /\ TotalOf(decided) + d.bytes <= MaxTotalInjected
      /\ TotalOf(decided) = MaxTotalInjected => d.bytes = 0
      /\ d.status = "total_budget_exceeded" =>
           d.bytes = 0 /\ TotalOf(decided) = MaxTotalInjected
  BY <1>4 DEF Decided, PolicyDecisions
<1> HIDE DEF given, more
<1>6. /\ more \in Seq(PolicyDecisions) /\ Len(more) = n + 1 /\ more[n + 1] = d
      /\ \A i \in 1..n : more[i] = decided[i]
  BY <1>1, <1>5
<1>7. \A i \in 1..(n + 1) : i \in 1..n \/ i = n + 1
  OBVIOUS
<1>8. TotalOf(more) = TotalOf(decided) + d.bytes /\ TotalOf(decided) \in Nat
  BY <1>1, <1>5, Totals
<1>9. MaxTotalInjected \in Nat
  BY PromptAssumption
<1>10. \A i \in 1..(n + 1) : more[i].injection = injections[order[i]] /\ more[i].bytes <= MaxInjection
  BY <1>1, <1>5, <1>6, <1>7 DEF given
<1>11. TotalOf(more) <= MaxTotalInjected
  BY <1>5, <1>8
<1>12. ASSUME NEW i \in 1..(n + 1), more[i].status = "total_budget_exceeded"
       PROVE  TotalOf(more) = MaxTotalInjected
  <2>1. TotalOf(decided) = MaxTotalInjected
    <3>1. CASE i \in 1..n
      BY <1>2, <1>6, <1>12, <3>1
    <3>2. CASE i = n + 1
      BY <1>5, <1>6, <1>12, <3>2
    <3> QED
      BY <1>7, <3>1, <3>2
  <2> QED
    BY <1>5, <1>8, <1>9, <2>1
<1>13. ASSUME NEW i \in 1..(n + 1), NEW j \in 1..(n + 1),
              more[i].status = "total_budget_exceeded", more[j].bytes > 0
       PROVE  j < i
  <2>1. CASE i = n + 1 /\ j \in 1..n
    BY <2>1
  <2>2. CASE j = n + 1
    <3>1. d.bytes > 0
      BY <1>6, <1>13, <2>2
    <3>2. CASE i = n + 1
      BY <1>5, <1>6, <1>13, <3>1, <3>2
    <3>3. CASE i \in 1..n
      BY <1>2, <1>5, <1>6, <1>13, <3>1, <3>3
    <3> QED
      BY <1>7, <3>2, <3>3
  <2>3. CASE i \in 1..n /\ j \in 1..n
    BY <1>3, <1>6, <1>13, <2>3
  <2> QED
    BY <1>7, <2>1, <2>2, <2>3
<1> QED
  BY <1>6, <1>10, <1>11, <1>12, <1>13 DEF PolicyHolds, more, given

\* More urgent injections come first.
LEMMA InjectionOrderIs ==
  ASSUME NEW injections \in Seq(Injections)
  PROVE  /\ InjectionOrder(injections) \in Seq(DOMAIN injections)
         /\ \A i, j \in DOMAIN InjectionOrder(injections) :
              i < j => injections[InjectionOrder(injections)[i]].priority
                         >= injections[InjectionOrder(injections)[j]].priority
<1> DEFINE S == DOMAIN injections
           key == [i \in S |-> <<-injections[i].priority, i>>]
           order == InjectionOrder(injections)
<1>1. PICK n \in Nat : S = 1..n /\ n = Len(injections)
  OBVIOUS
<1>2. \A i \in S : injections[i].priority \in Int /\ i \in Nat
  <2>1. \A i \in S : injections[i] \in Injections
    OBVIOUS
  <2> QED
    BY <1>1, <2>1, PromptAssumption
<1>3. IsFiniteSet(S)
  BY <1>1, FS_Interval
<1>4. KeysOf(S, key, 2)
  <2>1. ASSUME NEW x \in S
        PROVE  DOMAIN key[x] = 1..2 /\ \A m \in 1..2 : key[x][m] \in Int
    <3>1. PICK a \in Int, b \in Int : key[x] = <<a, b>>
      BY <1>2
    <3> QED
      BY <3>1
  <2>2. ASSUME NEW x \in S, NEW y \in S, x # y
        PROVE  \E m \in 1..2 : key[x][m] # key[y][m]
    <3>1. key[x][2] = x /\ key[y][2] = y /\ 2 \in 1..2
      OBVIOUS
    <3> HIDE DEF key
    <3> QED
      BY <2>2, <3>1
  <2> HIDE DEF key
  <2> QED
    BY <2>1, <2>2 DEF KeysOf
<1>5. order = SortedBy(S, key)
  BY DEF InjectionOrder
<1> HIDE DEF key, order
<1>6. ListsBy(order, S, key)
  BY <1>3, <1>4, <1>5, SortedByIs
<1>7. order \in Seq(S) /\ \A i, j \in DOMAIN order : i < j => key[order[i]][1] <= key[order[j]][1]
  BY <1>6 DEF ListsBy
<1>8. ASSUME NEW i \in DOMAIN order, NEW j \in DOMAIN order, i < j
      PROVE  injections[order[i]].priority >= injections[order[j]].priority
  <2>1. order[i] \in S /\ order[j] \in S
    BY <1>7
  <2>2. PICK a \in Int, b \in Int :
          a = injections[order[i]].priority /\ b = injections[order[j]].priority
    BY <1>2, <2>1
  <2>3. key[order[i]][1] = -a /\ key[order[j]][1] = -b
    BY <2>1, <2>2 DEF key
  <2>4. -a <= -b
    BY <1>7, <1>8, <2>3
  <2> QED
    BY <2>2, <2>4
<1> QED
  BY <1>7, <1>8 DEF order

\* What the policy promises.
Promised(d) ==
  /\ d \in Seq(PolicyDecisions)
  /\ TotalOf(d) <= MaxTotalInjected
  /\ \A i \in DOMAIN d : d[i].bytes <= MaxInjection
  /\ \A i, j \in DOMAIN d :
       (d[i].status = "total_budget_exceeded" /\ d[j].bytes > 0)
         => d[j].injection.priority >= d[i].injection.priority

LEMMA InjectionDecisionsAre ==
  ASSUME NEW injections \in Seq(Injections)
  PROVE  Promised(InjectionDecisions(injections))
<1> DEFINE order == InjectionOrder(injections)
<1>1. /\ order \in Seq(DOMAIN injections)
      /\ \A i, j \in DOMAIN order :
           i < j => injections[order[i]].priority >= injections[order[j]].priority
  BY InjectionOrderIs
<1> DEFINE V == {decided \in Seq(PolicyDecisions) : TotalOf(decided) <= MaxTotalInjected}
           F(decided, n) == Govern(decided, injections[order[n]])
           step == [p \in (1..Len(order)) \X V |-> F(p[2], p[1])]
           Rec(f) == f = [n \in 0..Len(order) |-> IF n = 0 THEN << >> ELSE F(f[n - 1], n)]
           g == CHOOSE h : Rec(h)
<1>2. InjectionDecisions(injections) = g[Len(order)]
  BY Zenon DEF InjectionDecisions
<1> HIDE DEF order
<1>3. Len(order) \in Nat /\ \A n \in 1..Len(order) : injections[order[n]] \in Injections
  <2>1. \A n \in 1..Len(order) : order[n] \in DOMAIN injections
    BY <1>1
  <2> QED
    BY <1>1, <2>1
<1>4. << >> \in V
  <2>1. MaxTotalInjected \in Nat
    BY PromptAssumption
  <2>2. TotalOf(<< >>) = 0
    <3>1. [i \in DOMAIN << >> |-> << >>[i].bytes] = << >>
      OBVIOUS
    <3>2. << >> \in Seq(Nat) /\ 0 \in Nat
      OBVIOUS
    <3> QED
      BY <3>1, <3>2, SummedAppend DEF TotalOf
  <2> QED
    BY <2>1, <2>2
<1>5. ASSUME NEW n \in 1..Len(order), NEW v \in V PROVE F(v, n) \in V
  <2>1. PICK given \in Injections : given = injections[order[n]]
    BY <1>3
  <2>2. PICK d : Decided(Govern(v, given), v, given, d)
    BY GovernIs
  <2>3. /\ d \in PolicyDecisions /\ Govern(v, given) = Append(v, d)
        /\ TotalOf(v) + d.bytes <= MaxTotalInjected
    BY <2>2 DEF Decided
  <2>4. Append(v, d) \in Seq(PolicyDecisions) /\ TotalOf(Append(v, d)) = TotalOf(v) + d.bytes
    BY <2>3, Totals
  <2> QED
    BY <2>1, <2>3, <2>4
<1> HIDE DEF V, F, g
<1>6. step \in [(1..Len(order)) \X V -> V]
  BY <1>5
<1>7. PICK f \in [0..Len(order) -> V] : Recursive(f, Len(order), << >>, step)
  <2> HIDE DEF step
  <2> QED
    BY <1>3, <1>4, <1>6, RecursiveFunction
<1>8. Rec(f)
  <2>1. \A n \in 0..Len(order) : n # 0 => f[n - 1] \in V /\ n \in 1..Len(order)
    BY <1>3
  <2> QED
    BY <1>7, <2>1 DEF Recursive
<1>9. Rec(g)
  BY <1>8, Zenon DEF g
<1>10. g[0] = << >> /\ \A n \in 1..Len(order) : g[n] = F(g[n - 1], n)
  <2> DEFINE e(n) == IF n = 0 THEN << >> ELSE F(g[n - 1], n)
  <2>1. g = [n \in 0..Len(order) |-> e(n)]
    BY <1>9
  <2> HIDE DEF e
  <2>2. \A n \in 0..Len(order) : g[n] = e(n)
    BY <2>1
  <2> QED
    BY <1>3, <2>2 DEF e
<1> DEFINE Fine == {n \in Nat : n <= Len(order) => PolicyHolds(g[n], n, injections, order)}
<1>11. 0 \in Fine
  <2>1. << >> \in Seq(PolicyDecisions) /\ Len(<< >>) = 0
    OBVIOUS
  <2>2. TotalOf(<< >>) <= MaxTotalInjected
    BY <1>4 DEF V
  <2>3. PolicyHolds(<< >>, 0, injections, order)
    BY <2>1, <2>2 DEF PolicyHolds
  <2> QED
    BY <1>10, <2>3
<1>12. ASSUME NEW n \in Nat, n \in Fine PROVE n + 1 \in Fine
  <2> SUFFICES ASSUME n + 1 <= Len(order) PROVE PolicyHolds(g[n + 1], n + 1, injections, order)
    OBVIOUS
  <2>1. n + 1 \in 1..Len(order) /\ (n + 1) - 1 = n /\ PolicyHolds(g[n], n, injections, order)
    BY <1>3, <1>12
  <2>2. g[n + 1] = Govern(g[n], injections[order[n + 1]])
    BY <1>10, <2>1 DEF F
  <2>3. injections[order[n + 1]] \in Injections
    BY <1>3, <2>1
  <2> QED
    BY <2>1, <2>2, <2>3, PolicyStep
<1> HIDE DEF Fine
<1>13. Len(order) \in Fine
  BY <1>3, <1>11, <1>12, Induction
<1> DEFINE d == g[Len(order)]
<1>14. PolicyHolds(d, Len(order), injections, order)
  BY <1>3, <1>13 DEF Fine
<1> HIDE DEF d
<1>15. /\ d \in Seq(PolicyDecisions) /\ Len(d) = Len(order) /\ TotalOf(d) <= MaxTotalInjected
       /\ \A i \in 1..Len(order) : d[i].injection = injections[order[i]]
       /\ \A i \in 1..Len(order) : d[i].bytes <= MaxInjection
  BY <1>14 DEF PolicyHolds
<1>16. \A i, j \in 1..Len(order) :
         d[i].status = "total_budget_exceeded" /\ d[j].bytes > 0 => j < i
  BY <1>14 DEF PolicyHolds
<1>17. DOMAIN d = 1..Len(order) /\ DOMAIN order = 1..Len(order)
  BY <1>1, <1>15
<1>18. ASSUME NEW i \in DOMAIN d, NEW j \in DOMAIN d,
              d[i].status = "total_budget_exceeded", d[j].bytes > 0
       PROVE  d[j].injection.priority >= d[i].injection.priority
  <2>1. j < i
    BY <1>16, <1>17, <1>18
  <2>2. injections[order[j]].priority >= injections[order[i]].priority
    BY <1>1, <1>17, <2>1
  <2> QED
    BY <1>15, <1>17, <2>2
<1>19. Promised(d)
  BY <1>15, <1>17, <1>18 DEF Promised
<1> QED
  BY <1>2, <1>19 DEF d

LEMMA BuiltIs ==
  ASSUME NEW base \in [Roles -> Seq(Paragraphs)], NEW decided \in Seq(PolicyDecisions)
  PROVE  Built(base, decided) \in Buckets
<1> SUFFICES ASSUME NEW role \in Roles PROVE Built(base, decided)[role] \in Seq(Paragraphs)
  BY DEF Built, Buckets
<1> DEFINE wanted == {d \in Range(decided) : d.bytes > 0 /\ d.injection.target = role}
           into == Filtered(decided, wanted)
           parts == [i \in DOMAIN into |->
                      [name |-> into[i].injection.name, body |-> into[i].bytes, score |-> 1]]
<1>1. Built(base, decided)[role] = base[role] \o parts
  BY Zenon DEF Built
<1> HIDE DEF wanted
<1>2. into \in Seq(PolicyDecisions)
  BY FilteredParts
<1> HIDE DEF into
<1>3. parts \in Seq(Paragraphs)
  <2>1. \A i \in DOMAIN into :
          [name |-> into[i].injection.name, body |-> into[i].bytes, score |-> 1] \in Paragraphs
    <3> SUFFICES ASSUME NEW i \in DOMAIN into
                 PROVE  [name |-> into[i].injection.name, body |-> into[i].bytes, score |-> 1] \in Paragraphs
      OBVIOUS
    <3>1. into[i] \in PolicyDecisions
      BY <1>2
    <3>2. into[i].injection \in Injections /\ into[i].bytes \in Nat
      BY <3>1 DEF PolicyDecisions
    <3> QED
      BY <3>2 DEF Paragraphs
  <2>2. DOMAIN into = 1..Len(into) /\ Len(into) \in Nat
    BY <1>2
  <2> QED
    BY <2>1, <2>2
<1> HIDE DEF parts
<1> QED
  BY <1>1, <1>3, ConcatProperties

-----------------------------------------------------------------------------
(* The reducer.                                                             *)

LEMMA UnitsRenderedIs ==
  ASSUME NEW content \in Seq(Paragraphs), NEW kept
  PROVE  UnitsRendered(content, kept) \in Seq(Paragraphs)
<1> DEFINE V == Seq(Paragraphs)
           k == Len(content)
           mark == Plain(Marker - Gap)
           marked(parts, n) == IF n > 0 /\ n \notin kept THEN Append(parts, mark) ELSE parts
           F(v, n) == IF n \notin kept THEN v
                      ELSE Append(IF v = << >> THEN << >> ELSE marked(v, n - 1), content[n])
           step == [p \in (1..k) \X V |-> F(p[2], p[1])]
           Rec(f) == f = [n \in 0..k |->
                            IF n = 0 THEN << >>
                            ELSE IF n \notin kept THEN f[n - 1]
                            ELSE Append(IF f[n - 1] = << >> THEN << >> ELSE marked(f[n - 1], n - 1),
                                        content[n])]
           g == CHOOSE h : Rec(h)
<1>1. UnitsRendered(content, kept) = marked(g[k], k)
  BY Zenon DEF UnitsRendered
<1>2. k \in Nat /\ \A n \in 1..k : content[n] \in Paragraphs
  OBVIOUS
<1>3. mark \in Paragraphs
  <2>1. Marker - Gap \in Nat
    BY PromptAssumption
  <2> QED
    BY <2>1, PlainParts
<1> HIDE DEF mark, k
<1>4. \A v \in V : \A n : marked(v, n) \in V
  BY <1>3
<1>5. ASSUME NEW n \in 1..k, NEW v \in V PROVE F(v, n) \in V
  <2>1. \A w \in V : Append(w, content[n]) \in V
    BY <1>2
  <2>2. (IF v = << >> THEN << >> ELSE marked(v, n - 1)) \in V
    BY <1>4
  <2> HIDE DEF marked, V
  <2> QED
    BY <2>1, <2>2
<1>6. << >> \in V
  OBVIOUS
<1> HIDE DEF V, F, g, marked
<1>7. step \in [(1..k) \X V -> V]
  BY <1>5
<1>8. PICK f \in [0..k -> V] : Recursive(f, k, << >>, step)
  <2> HIDE DEF step
  <2> QED
    BY <1>2, <1>6, <1>7, RecursiveFunction
<1>9. Rec(f)
  <2>1. \A n \in 0..k : n # 0 => f[n - 1] \in V /\ n \in 1..k
    BY <1>2
  <2>2. f = [n \in 0..k |-> IF n = 0 THEN << >> ELSE F(f[n - 1], n)]
    BY <1>8, <2>1 DEF Recursive
  <2> QED
    BY <2>2, Zenon DEF F
<1>10. Rec(g)
  BY <1>9, Zenon DEF g
<1>11. g[0] = << >> /\ \A n \in 1..k : g[n] = F(g[n - 1], n)
  <2> DEFINE e(n) == IF n = 0 THEN << >> ELSE F(g[n - 1], n)
  <2>1. g = [n \in 0..k |-> e(n)]
    BY <1>10, Zenon DEF F
  <2> HIDE DEF e
  <2>2. \A n \in 0..k : g[n] = e(n)
    BY <2>1
  <2> QED
    BY <1>2, <2>2 DEF e
<1> DEFINE Fine == {n \in Nat : n <= k => g[n] \in V}
<1>12. 0 \in Fine
  BY <1>6, <1>11
<1>13. ASSUME NEW n \in Nat, n \in Fine PROVE n + 1 \in Fine
  <2> SUFFICES ASSUME n + 1 <= k PROVE g[n + 1] \in V
    OBVIOUS
  <2>1. n + 1 \in 1..k /\ (n + 1) - 1 = n /\ g[n] \in V
    BY <1>2, <1>13
  <2> QED
    BY <1>5, <1>11, <2>1
<1> HIDE DEF Fine
<1>14. k \in Fine
  BY <1>2, <1>12, <1>13, Induction
<1>15. g[k] \in V
  BY <1>2, <1>14 DEF Fine
<1>16. marked(g[k], k) \in V
  BY <1>4, <1>15
<1> QED
  BY <1>1, <1>16 DEF V

LEMMA ReducedIs ==
  ASSUME NEW content \in Seq(Paragraphs), NEW overage \in Int, NEW terms
  PROVE  Reduced(content, overage, terms) \in [content : Seq(Paragraphs), last : BOOLEAN]
<1>1. \A c \in Seq(Paragraphs), over \in Int : Trimmed(c, over, 0) \in Seq(Paragraphs)
  BY TrimmedIs DEF TrimmedFrom
<1>2. \A c \in Seq(Paragraphs) : SizeOfContent(c) \in Nat
  BY PlainParts, Sizes
<1>3. PICK most \in Int : most = Wanted(SizeOfContent(content), overage)
  <2>1. Marker \in Nat
    BY PromptAssumption
  <2> QED
    BY <1>2, <2>1 DEF Wanted, Larger
<1>4. Larger(1, most) \in Nat
  BY DEF Larger
<1>5. HasInjection(content) => SplitTrimmed(content, Larger(1, most)) \in Seq(Paragraphs)
  BY <1>4, SplitTrimmedIs
<1> DEFINE kept == UnitsRendered(content, UnitsKept(content, most))
           sound == IF SizeOfContent(kept) > SizeOfContent(content)
                    THEN Trimmed(content, overage, 0) ELSE kept
           last == IF SizeOfContent(sound) > most + Marker
                   THEN Trimmed(sound, SizeOfContent(sound) - Larger(1, most), 0) ELSE sound
<1>6. kept \in Seq(Paragraphs)
  BY UnitsRenderedIs
<1>7. Reduced(content, overage, terms)
        = IF Len(content) <= 1 \/ ~terms
          THEN [content |-> Trimmed(content, overage, 0), last |-> FALSE]
          ELSE IF HasInjection(content)
          THEN [content |-> SplitTrimmed(content, Larger(1, most)), last |-> FALSE]
          ELSE IF most <= 0 THEN [content |-> kept, last |-> TRUE]
          ELSE [content |-> last, last |-> FALSE]
  BY <1>3, Zenon DEF Reduced
<1> HIDE DEF kept
<1>8. sound \in Seq(Paragraphs)
  BY <1>1, <1>6
<1> HIDE DEF sound
<1>9. last \in Seq(Paragraphs)
  <2>1. SizeOfContent(sound) - Larger(1, most) \in Int
    BY <1>2, <1>4, <1>8
  <2> QED
    BY <1>1, <1>8, <2>1
<1> HIDE DEF last
<1> QED
  BY <1>1, <1>5, <1>6, <1>7, <1>9

LEMMA SemanticallyReducedIs ==
  ASSUME NEW buckets \in Buckets, NEW target \in Int, NEW terms
  PROVE  SemanticallyReduced(buckets, target, terms) \in Buckets
<1> DEFINE V == [buckets : Buckets, last : BOOLEAN]
           start == [buckets |-> buckets, last |-> FALSE]
           F(v, n) == ReducedAt(v, TrimOrder[n], target, terms)
           step == [p \in (1..6) \X V |-> F(p[2], p[1])]
           Rec(f) == f = [n \in 0..6 |-> IF n = 0 THEN start ELSE F(f[n - 1], n)]
           g == CHOOSE h : Rec(h)
<1>1. Len(TrimOrder) = 6
  BY OrderOfRoles
<1>2. SemanticallyReduced(buckets, target, terms) = g[6].buckets
  BY <1>1 DEF SemanticallyReduced
<1>3. start \in V
  OBVIOUS
<1>4. ASSUME NEW n \in 1..6, NEW v \in V PROVE F(v, n) \in V
  <2>1. PICK role \in Roles : role = TrimOrder[n]
    BY OrderOfRoles
  <2>2. PICK b \in Buckets, l \in BOOLEAN : v.buckets = b /\ v.last = l
    OBVIOUS
  <2>3. b[role] \in Seq(Paragraphs) /\ Rendered(b) - target \in Int
    <3>1. Rendered(b) \in Nat
      BY RenderedIs
    <3>2. b[role] \in Seq(Paragraphs)
      BY DEF Buckets
    <3> QED
      BY <3>1, <3>2
  <2>4. Reduced(b[role], Rendered(b) - target, terms) \in [content : Seq(Paragraphs), last : BOOLEAN]
    BY <2>3, ReducedIs
  <2>5. PICK c \in Seq(Paragraphs), last \in BOOLEAN :
          /\ Reduced(b[role], Rendered(b) - target, terms).content = c
          /\ Reduced(b[role], Rendered(b) - target, terms).last = last
    BY <2>4
  <2>6. [b EXCEPT ![role] = c] \in Buckets
    BY DEF Buckets
  <2>7. \/ F(v, n) = v
        \/ F(v, n) = [buckets |-> [b EXCEPT ![role] = c], last |-> last]
    BY <2>1, <2>2, <2>5, Zenon DEF ReducedAt
  <2> HIDE DEF F
  <2>8. [buckets |-> [b EXCEPT ![role] = c], last |-> last] \in V
    BY <2>6
  <2> HIDE DEF V
  <2> QED
    BY <2>7, <2>8
<1> HIDE DEF V, start, F, g
<1>5. step \in [(1..6) \X V -> V]
  BY <1>4
<1>6. PICK f \in [0..6 -> V] : Recursive(f, 6, start, step)
  <2> HIDE DEF step
  <2> QED
    BY <1>3, <1>5, RecursiveFunction
<1>7. Rec(f)
  <2>1. \A n \in 0..6 : n # 0 => f[n - 1] \in V /\ n \in 1..6
    OBVIOUS
  <2> QED
    BY <1>6, <2>1 DEF Recursive
<1>8. Rec(g)
  BY <1>7, Zenon DEF g
<1>9. g[0] = start /\ \A n \in 1..6 : g[n] = F(g[n - 1], n)
  <2> DEFINE e(n) == IF n = 0 THEN start ELSE F(g[n - 1], n)
  <2>1. g = [n \in 0..6 |-> e(n)]
    BY <1>8
  <2> HIDE DEF e
  <2>2. \A n \in 0..6 : g[n] = e(n)
    BY <2>1
  <2> QED
    BY <2>2 DEF e
<1> DEFINE Fine == {n \in Nat : n <= 6 => g[n] \in V}
<1>10. 0 \in Fine
  BY <1>3, <1>9
<1>11. ASSUME NEW n \in Nat, n \in Fine PROVE n + 1 \in Fine
  <2> SUFFICES ASSUME n + 1 <= 6 PROVE g[n + 1] \in V
    OBVIOUS
  <2>1. n + 1 \in 1..6 /\ (n + 1) - 1 = n /\ g[n] \in V
    BY <1>11
  <2> QED
    BY <1>4, <1>9, <2>1
<1> HIDE DEF Fine
<1>12. 6 \in Fine
  BY <1>10, <1>11, Induction
<1>13. g[6] \in V
  BY <1>12 DEF Fine
<1> QED
  BY <1>2, <1>13 DEF V

-----------------------------------------------------------------------------
(* The theorem on prompts.                                                  *)

PromptType ==
  prompt \in [at : {"collecting", "built", "budgeted", "reduced", "trimmed"},
              injections : Seq(Injections), decisions : Seq(PolicyDecisions),
              buckets : Buckets, before : Buckets, target : Int]

PromptInv == PromptType /\ (prompt.at # "collecting" => Promised(prompt.decisions))

LEMMA PromptStarts == PromptInit => PromptInv
<1>1. [role \in Roles |-> << >>] \in Buckets
  BY DEF Buckets
<1> QED
  BY <1>1 DEF PromptInit, NoPrompt, PromptInv, PromptType

LEMMA PromptBuilds ==
  ASSUME PromptInv, NEW base \in Bases, NEW target \in PromptTargets, Build(base, target)
  PROVE  PromptInv'
<1>1. PICK injections \in Seq(Injections) : prompt.injections = injections
  BY DEF PromptInv, PromptType
<1> DEFINE d == InjectionDecisions(injections)
           built == Built(base, d)
<1>2. prompt' = [prompt EXCEPT !.at = "built", !.decisions = d, !.target = target, !.buckets = built]
  BY <1>1 DEF Build
<1>3. Promised(d)
  BY InjectionDecisionsAre
<1> HIDE DEF d
<1>4. d \in Seq(PolicyDecisions) /\ target \in Int /\ base \in [Roles -> Seq(Paragraphs)]
  BY <1>3, PromptAssumption DEF Promised
<1>5. built \in Buckets
  BY <1>4, BuiltIs
<1> HIDE DEF built
<1>6. PromptType' /\ prompt'.decisions = d
  BY <1>2, <1>4, <1>5 DEF PromptInv, PromptType
<1>7. Promised(prompt'.decisions)
  BY <1>3, <1>6
<1> QED
  BY <1>6, <1>7 DEF PromptInv, Promised, TotalOf

\* Of the buckets only, with the rest as it was.
LEMMA PromptCuts ==
  ASSUME PromptInv, prompt.at # "collecting", NEW at \in {"budgeted", "reduced", "trimmed"},
         NEW after \in Buckets, NEW before \in Buckets,
         prompt' = [prompt EXCEPT !.at = at, !.before = before, !.buckets = after]
  PROVE  PromptInv' /\ prompt'.buckets = after /\ prompt'.before = before /\ prompt'.at = at
           /\ prompt'.target = prompt.target
<1>1. PromptType' /\ prompt'.decisions = prompt.decisions /\ prompt'.buckets = after
        /\ prompt'.before = before /\ prompt'.at = at /\ prompt'.target = prompt.target
  BY DEF PromptInv, PromptType
<1>2. Promised(prompt'.decisions)
  BY <1>1 DEF PromptInv
<1> QED
  BY <1>1, <1>2 DEF PromptInv, Promised, TotalOf

Ordered == VolatileTrimmedFirst' /\ InjectedByUrgency' /\ CutsNeverGrow

LEMMA UrgencyHolds ==
  ASSUME PromptInv'
  PROVE  InjectedByUrgency'
BY DEF PromptInv, InjectedByUrgency, Promised, TotalOf

LEMMA PromptSteps ==
  ASSUME PromptInv, PromptNext
  PROVE  PromptInv' /\ Ordered
<1>1. /\ prompt.buckets \in Buckets /\ prompt.before \in Buckets /\ prompt.target \in Int
      /\ prompt = [prompt EXCEPT !.before = prompt.before]
  BY DEF PromptInv, PromptType
<1>2. ASSUME NEW given \in Injections, Inject(given)
      PROVE  PromptInv' /\ Ordered
  <2>1. PromptType' /\ prompt'.at = "collecting" /\ prompt.at = "collecting"
    <3>1. Append(prompt.injections, given) \in Seq(Injections)
      BY DEF PromptInv, PromptType
    <3> QED
      BY <1>2, <3>1 DEF Inject, PromptInv, PromptType
  <2>2. PromptInv'
    BY <2>1 DEF PromptInv
  <2> QED
    BY <2>1, <2>2 DEF Ordered, VolatileTrimmedFirst, InjectedByUrgency, CutsNeverGrow
<1>3. ASSUME NEW base \in Bases, NEW target \in PromptTargets, Build(base, target)
      PROVE  PromptInv' /\ Ordered
  <2>1. PromptInv'
    BY <1>3, PromptBuilds
  <2>2. prompt'.at = "built" /\ prompt.at = "collecting"
    BY <1>3 DEF Build, PromptInv, PromptType
  <2> QED
    BY <2>1, <2>2, UrgencyHolds DEF Ordered, VolatileTrimmedFirst, CutsNeverGrow
<1>4. CASE ApplyBucketBudget
  <2> DEFINE after == BucketsBudgeted(prompt.buckets)
  <2>1. after \in Buckets /\ LittleLarger(after, prompt.buckets)
    BY <1>1, BucketsBudgetedIs
  <2>2. prompt.at # "collecting"
        /\ prompt' = [prompt EXCEPT !.at = "budgeted", !.before = prompt.before, !.buckets = after]
    BY <1>1, <1>4 DEF ApplyBucketBudget, PromptInv, PromptType
  <2> HIDE DEF after
  <2>3. PromptInv' /\ prompt'.buckets = after /\ prompt'.at = "budgeted"
    BY <1>1, <2>1, <2>2, PromptCuts
  <2>4. (\A role \in Roles : LeavesRoom(role)) => NoLarger(after, prompt.buckets)
    BY <2>1 DEF LittleLarger, NoLarger
  <2>5. (\A role \in Roles : LeavesRoom(role)) => Rendered(after) <= Rendered(prompt.buckets)
    BY <1>1, <2>1, <2>4, RenderedLess
  <2>6. CutsNeverGrow
    BY <2>1, <2>3, <2>5 DEF LittleLarger, CutsNeverGrow
  <2> QED
    BY <2>3, <2>6, UrgencyHolds DEF Ordered, VolatileTrimmedFirst
<1>5. ASSUME NEW terms \in BOOLEAN, Reduce(terms)
      PROVE  PromptInv' /\ Ordered
  <2> DEFINE after == SemanticallyReduced(prompt.buckets, prompt.target, terms)
  <2>1. after \in Buckets
    BY <1>1, SemanticallyReducedIs
  <2>2. prompt.at # "collecting"
        /\ prompt' = [prompt EXCEPT !.at = "reduced", !.before = prompt.before, !.buckets = after]
    BY <1>1, <1>5 DEF Reduce, PromptInv, PromptType
  <2> HIDE DEF after
  <2>3. PromptInv' /\ prompt'.at = "reduced"
    BY <1>1, <2>1, <2>2, PromptCuts
  <2> QED
    BY <2>3, UrgencyHolds DEF Ordered, VolatileTrimmedFirst, CutsNeverGrow
<1>6. CASE TrimToBudget
  <2> DEFINE before == prompt.buckets
             target == prompt.target
             after == TrimmedToBudget(before, target)
  <2>1. Progress(before, after, 6, target)
    BY <1>1, TrimmedToBudgetIs
  <2>2. prompt.at # "collecting"
        /\ prompt' = [prompt EXCEPT !.at = "trimmed", !.before = before, !.buckets = after]
    BY <1>6 DEF TrimToBudget, PromptInv, PromptType
  <2> HIDE DEF after
  <2>3. after \in Buckets /\ NoLarger(after, before)
    BY <2>1 DEF Progress
  <2>4. PromptInv' /\ prompt'.buckets = after /\ prompt'.before = before /\ prompt'.target = target
    BY <1>1, <2>2, <2>3, PromptCuts
  <2>5. Rendered(after) <= Rendered(before)
    BY <1>1, <2>3, RenderedLess
  <2>6. \A role \in Roles : /\ Trimmable(role)' <=> MayTrim(before, role)
                            /\ Exhausted(role)' <=> Used(after, role)
    BY <2>4 DEF Trimmable, Exhausted, MayTrim, Used, Spare
  <2>7. Rendered(after) > target =>
          \A role \in Roles : MayTrim(before, role) => Used(after, role)
    <3>1. Rendered(after) > target =>
            \A m \in 1..6 : MayTrim(before, TrimOrder[m]) => Used(after, TrimOrder[m])
      BY <2>1 DEF Progress
    <3> QED
      BY <3>1, OrderOfRoles
  <2>8. \A i, j \in 1..6 :
          (i < j /\ after[TrimOrder[j]] # before[TrimOrder[j]] /\ MayTrim(before, TrimOrder[i]))
            => Used(after, TrimOrder[i])
    BY <2>1 DEF Progress
  <2>9. VolatileTrimmedFirst'
    BY <2>4, <2>6, <2>7, <2>8, OrderOfRoles DEF VolatileTrimmedFirst
  <2>10. CutsNeverGrow
    BY <2>3, <2>4, <2>5 DEF NoLarger, CutsNeverGrow
  <2> QED
    BY <2>4, <2>9, <2>10, UrgencyHolds DEF Ordered
<1> QED
  BY <1>2, <1>3, <1>4, <1>5, <1>6 DEF PromptNext

\* Whatever a turn injects, with whatever rules and target: injections stay within the policy,
\* the more urgent first; no cut makes a bucket longer, but by the marker where a bucket rule
\* leaves it no room; and the last cut takes the volatile buckets first and stops at the target.
THEOREM PromptIsTrimmedInOrder == PromptSpec => TrimmedInOrder
<1>1. PromptInv /\ [PromptNext]_prompt => PromptInv'
  <2>1. PromptInv /\ UNCHANGED prompt => PromptInv'
    BY DEF PromptInv, PromptType, Promised, TotalOf
  <2> QED
    BY <2>1, PromptSteps
<1>2. PromptInv /\ [PromptNext]_prompt
        => [VolatileTrimmedFirst' /\ InjectedByUrgency' /\ CutsNeverGrow]_prompt
  BY PromptSteps DEF Ordered
<1> QED
  BY <1>1, <1>2, PromptStarts, PTL DEF PromptSpec, TrimmedInOrder

-----------------------------------------------------------------------------
(* Types of Timeline.                                                       *)

Facts == [bytes : Nat, time : Nat, pinned : BOOLEAN, deleted : BOOLEAN]
Places == [cursor : Nat, since : Nat, given : Seq(Nat), kept : BOOLEAN]

TimelineType ==
  /\ backing \in {"memory", "sqlite", "markdown"}
  /\ facts \in Seq(Facts)
  /\ digest \in Seq(Nat) /\ archived \in Seq(Nat)
  /\ disk \in [facts : Seq(Facts), digest : Seq(Nat), archived : Seq(Nat)]
  /\ reader \in [Readers -> Places]

-----------------------------------------------------------------------------
(* The order of the facts.                                                  *)

\* Time and place put the active facts in one order, and the buckets follow it.
FactsInOrder ==
  /\ IsFiniteSet(ActiveFacts) /\ ActiveFacts \subseteq 1..Len(facts) /\ Len(facts) \in Nat
  /\ \A i \in ActiveFacts : ~EarlierThan(i, i)
  /\ \A i, j, k \in ActiveFacts : EarlierThan(i, j) /\ EarlierThan(j, k) => EarlierThan(i, k)
  /\ \A i, j \in ActiveFacts : i # j => EarlierThan(i, j) \/ EarlierThan(j, i)
  /\ \A i, j \in ActiveFacts : EarlierThan(i, j) => ~EarlierThan(j, i)
  /\ \A i, j \in ActiveFacts : EarlierThan(i, j) => BucketOf(i) <= BucketOf(j)
  /\ \A i \in ActiveFacts : BucketOf(i) \in Nat

LEMMA BucketsFollowTime ==
  ASSUME NEW a \in Nat, NEW b \in Nat, a <= b
  PROVE  a \div Interval <= b \div Interval /\ a \div Interval \in Nat /\ b \div Interval \in Nat
<1>1. Interval \in Nat /\ Interval > 0
  BY TimelineAssumption DEF TimelineAssumption
<1> QED
  BY <1>1

LEMMA OrderOfFacts == TimelineType => FactsInOrder
<1> SUFFICES ASSUME TimelineType PROVE FactsInOrder
  OBVIOUS
<1>1. facts \in Seq(Facts) /\ Len(facts) \in Nat /\ DOMAIN facts = 1..Len(facts)
  BY DEF TimelineType
<1>2. ActiveFacts \subseteq 1..Len(facts)
  BY <1>1 DEF ActiveFacts, ActiveOf
<1>3. IsFiniteSet(1..Len(facts))
  BY <1>1, FS_Interval
<1>4. IsFiniteSet(ActiveFacts)
  BY <1>2, <1>3, FS_Subset
<1>5. \A i \in ActiveFacts : i \in Nat /\ facts[i].time \in Nat
  <2>1. \A i \in 1..Len(facts) : facts[i] \in Facts
    BY <1>1
  <2>2. \A i \in ActiveFacts : i \in Nat /\ facts[i] \in Facts
    BY <1>1, <1>2, <2>1
  <2> QED
    BY <2>2 DEF Facts
<1>6. \A i, j \in ActiveFacts : EarlierThan(i, j) => facts[i].time <= facts[j].time
  BY <1>5 DEF EarlierThan
<1>7. ASSUME NEW i \in ActiveFacts, NEW j \in ActiveFacts, EarlierThan(i, j)
      PROVE  BucketOf(i) <= BucketOf(j)
  BY <1>5, <1>6, <1>7, BucketsFollowTime DEF BucketOf
<1>8. \A i \in ActiveFacts : BucketOf(i) \in Nat
  BY <1>5, BucketsFollowTime DEF BucketOf
<1>9. /\ \A i \in ActiveFacts : ~EarlierThan(i, i)
      /\ \A i, j \in ActiveFacts : i # j => EarlierThan(i, j) \/ EarlierThan(j, i)
      /\ \A i, j \in ActiveFacts : EarlierThan(i, j) => ~EarlierThan(j, i)
  BY <1>5 DEF EarlierThan
<1>10. \A i, j, k \in ActiveFacts : EarlierThan(i, j) /\ EarlierThan(j, k) => EarlierThan(i, k)
  BY <1>5 DEF EarlierThan
<1> QED
  BY <1>1, <1>2, <1>4, <1>7, <1>8, <1>9, <1>10 DEF FactsInOrder

Precedes == {pair \in ActiveFacts \X ActiveFacts : EarlierThan(pair[1], pair[2])}
RankOf(i) == Rank(i, ActiveFacts, Precedes)

LEMMA RanksOfFacts ==
  FactsInOrder =>
    /\ Cardinality(ActiveFacts) \in Nat
    /\ \A i \in ActiveFacts : RankOf(i) \in 0..(Cardinality(ActiveFacts) - 1)
    /\ \A i, j \in ActiveFacts : EarlierThan(i, j) => RankOf(i) < RankOf(j)
<1> SUFFICES ASSUME FactsInOrder
             PROVE  /\ Cardinality(ActiveFacts) \in Nat
                    /\ \A i \in ActiveFacts : RankOf(i) \in 0..(Cardinality(ActiveFacts) - 1)
                    /\ \A i, j \in ActiveFacts : EarlierThan(i, j) => RankOf(i) < RankOf(j)
  OBVIOUS
<1>1. \A x, y \in ActiveFacts : <<x, y>> \in Precedes <=> EarlierThan(x, y)
  BY DEF Precedes
<1>2. Orders(Precedes, ActiveFacts)
  BY <1>1 DEF Orders, FactsInOrder
<1>3. IsFiniteSet(ActiveFacts)
  BY DEF FactsInOrder
<1>4. \A x \in ActiveFacts :
        /\ RankOf(x) \in 0..(Cardinality(ActiveFacts) - 1)
        /\ \A y \in ActiveFacts : <<x, y>> \in Precedes => RankOf(x) < RankOf(y)
  BY <1>2, <1>3, RankIs DEF RankOf
<1> QED
  BY <1>1, <1>3, <1>4, FS_CardinalityType

\* Some active facts have an earliest and a latest among them.
LEMMA EndsOfFacts ==
  FactsInOrder =>
    \A T \in SUBSET ActiveFacts : T # {} =>
      /\ \E m \in T : \A n \in T : n = m \/ EarlierThan(m, n)
      /\ \E m \in T : \A n \in T : n = m \/ EarlierThan(n, m)
<1> SUFFICES ASSUME FactsInOrder, NEW T \in SUBSET ActiveFacts, T # {}
             PROVE  /\ \E m \in T : \A n \in T : n = m \/ EarlierThan(m, n)
                    /\ \E m \in T : \A n \in T : n = m \/ EarlierThan(n, m)
  OBVIOUS
<1> DEFINE top == Cardinality(ActiveFacts)
           ranks == {RankOf(i) : i \in T}
<1>1. /\ top \in Nat
      /\ \A i \in ActiveFacts : RankOf(i) \in 0..top
      /\ \A i, j \in ActiveFacts : EarlierThan(i, j) => RankOf(i) < RankOf(j)
  BY RanksOfFacts
<1>2. ranks \in SUBSET (0..top) /\ ranks # {} /\ ranks \in SUBSET Nat
  BY <1>1
<1>3. \A i \in T : RankOf(i) \in ranks
  OBVIOUS
<1>4. \A r \in ranks : \E i \in T : r = RankOf(i)
  OBVIOUS
<1>5. \A i, j \in T : i # j => EarlierThan(i, j) \/ EarlierThan(j, i)
  BY DEF FactsInOrder
<1> HIDE DEF ranks, top
<1>6. \E m \in T : \A n \in T : n = m \/ EarlierThan(m, n)
  <2>1. PICK r \in ranks : \A q \in ranks : r <= q
    BY <1>2, LeastNumber
  <2>2. PICK m \in T : r = RankOf(m)
    BY <1>4
  <2>3. \A n \in T : ~(RankOf(n) < RankOf(m))
    BY <1>1, <1>3, <2>1, <2>2
  <2> QED
    BY <1>1, <1>5, <2>3
<1>7. \E m \in T : \A n \in T : n = m \/ EarlierThan(n, m)
  <2>1. PICK r \in ranks : \A q \in ranks : r >= q
    BY <1>1, <1>2, GreatestNumber
  <2>2. PICK m \in T : r = RankOf(m)
    BY <1>4
  <2>3. \A n \in T : ~(RankOf(m) < RankOf(n))
    BY <1>1, <1>3, <2>1, <2>2
  <2> QED
    BY <1>1, <1>5, <2>3
<1> QED
  BY <1>6, <1>7

-----------------------------------------------------------------------------
(* The one split.                                                           *)

\* Whether a fact begins a block depends on the starts before it alone.
LEMMA BeginsByEarlier ==
  ASSUME NEW S, NEW T, NEW i,
         \A k : EarlierThan(k, i) => (k \in S <=> k \in T)
  PROVE  Begins(S, i) <=> Begins(T, i)
<1>1. Upto(S, i) = Upto(T, i)
  BY DEF Upto
<1> QED
  BY <1>1 DEF Begins

SplitsBelow(S, n) ==
  \A i \in ActiveFacts : RankOf(i) < n => (i \in S <=> Begins(S, i))

LEMMA SplitExists == FactsInOrder => \E S \in SUBSET ActiveFacts : S \in Splits
<1> SUFFICES ASSUME FactsInOrder PROVE \E S \in SUBSET ActiveFacts : S \in Splits
  OBVIOUS
<1> DEFINE A == ActiveFacts
           Good == {n \in Nat : \E S \in SUBSET A : SplitsBelow(S, n)}
<1>1. /\ Cardinality(A) \in Nat
      /\ \A i \in A : RankOf(i) \in 0..(Cardinality(A) - 1)
      /\ \A i, j \in A : EarlierThan(i, j) => RankOf(i) < RankOf(j)
  BY RanksOfFacts
<1>2. 0 \in Good
  BY <1>1 DEF SplitsBelow
<1>3. ASSUME NEW n \in Nat, n \in Good PROVE n + 1 \in Good
  <2>1. PICK S \in SUBSET A : SplitsBelow(S, n)
    BY <1>3
  <2> DEFINE T == {i \in A : \/ RankOf(i) < n /\ i \in S
                             \/ RankOf(i) = n /\ Begins(S, i)}
  <2>2. ASSUME NEW i \in A, RankOf(i) < n + 1 PROVE i \in T <=> Begins(T, i)
    <3>1. ASSUME NEW k, EarlierThan(k, i) PROVE k \in S <=> k \in T
      <4>1. CASE k \notin A
        BY <4>1
      <4>2. CASE k \in A
        <5>1. RankOf(k) < n
          BY <1>1, <2>2, <3>1, <4>2
        <5>2. ~(RankOf(k) = n)
          BY <1>1, <4>2, <5>1
        <5> QED
          BY <4>2, <5>1, <5>2
      <4> QED
        BY <4>1, <4>2
    <3> HIDE DEF T
    <3>2. Begins(S, i) <=> Begins(T, i)
      BY <3>1, BeginsByEarlier
    <3>3. CASE RankOf(i) < n
      <4>1. i \in S <=> Begins(S, i)
        BY <2>1, <3>3 DEF SplitsBelow
      <4>2. ~(RankOf(i) = n)
        BY <1>1, <3>3
      <4>3. i \in T <=> i \in S
        BY <3>3, <4>2 DEF T
      <4> QED
        BY <3>2, <4>1, <4>3
    <3>4. CASE RankOf(i) = n
      <4>1. ~(RankOf(i) < n)
        BY <1>1, <3>4
      <4>2. i \in T <=> Begins(S, i)
        BY <3>4, <4>1 DEF T
      <4> QED
        BY <3>2, <4>2
    <3> QED
      BY <1>1, <2>2, <3>3, <3>4
  <2>3. T \in SUBSET A /\ SplitsBelow(T, n + 1)
    BY <2>2 DEF SplitsBelow
  <2> QED
    BY <2>3
<1>4. Nat \subseteq Good
  <2> HIDE DEF Good
  <2> QED
    BY <1>2, <1>3, Induction
<1>5. PICK S \in SUBSET A : SplitsBelow(S, Cardinality(A))
  BY <1>1, <1>4
<1>6. \A i \in A : i \in S <=> Begins(S, i)
  BY <1>1, <1>5 DEF SplitsBelow
<1> QED
  BY <1>6 DEF Splits

LEMMA SplitIsOne ==
  FactsInOrder => \A S, T \in Splits : S = T
<1> SUFFICES ASSUME FactsInOrder, NEW S \in Splits, NEW T \in Splits, S # T PROVE FALSE
  OBVIOUS
<1>1. /\ S \in SUBSET ActiveFacts /\ T \in SUBSET ActiveFacts
      /\ \A i \in ActiveFacts : i \in S <=> Begins(S, i)
      /\ \A i \in ActiveFacts : i \in T <=> Begins(T, i)
  BY DEF Splits
<1> DEFINE D == {i \in ActiveFacts : ~(i \in S <=> i \in T)}
<1>2. D \in SUBSET ActiveFacts /\ D # {}
  BY <1>1
<1>3. PICK i \in D : \A j \in D : j = i \/ EarlierThan(i, j)
  <2> HIDE DEF D
  <2> QED
    BY <1>2, EndsOfFacts
<1>4. ASSUME NEW k, EarlierThan(k, i) PROVE k \in S <=> k \in T
  <2> SUFFICES ASSUME k \in ActiveFacts, k \in D PROVE FALSE
    BY <1>1
  <2>1. k = i \/ EarlierThan(i, k)
    BY <1>3
  <2> QED
    BY <1>4, <2>1 DEF FactsInOrder
<1>5. Begins(S, i) <=> Begins(T, i)
  BY <1>4, BeginsByEarlier
<1> QED
  BY <1>1, <1>3, <1>5

\* The active facts are split into blocks in one way.
OneSplit == \E S \in SUBSET ActiveFacts : Splits = {S} /\ \A i \in ActiveFacts : i \in S <=> Begins(S, i)

LEMMA SplitOnce == FactsInOrder => OneSplit
<1> SUFFICES ASSUME FactsInOrder PROVE OneSplit
  OBVIOUS
<1>1. PICK S \in SUBSET ActiveFacts : S \in Splits
  BY SplitExists
<1>2. Splits = {S}
  BY <1>1, SplitIsOne
<1>3. \A i \in ActiveFacts : i \in S <=> Begins(S, i)
  BY <1>1 DEF Splits
<1> QED
  BY <1>2, <1>3 DEF OneSplit

-----------------------------------------------------------------------------
(* The blocks.                                                              *)

\* A bucket of a later fact is no earlier: facts between two of a bucket are in it.
LEMMA BucketsAreWhole ==
  FactsInOrder =>
    \A i, j, k \in ActiveFacts :
      /\ BucketOf(i) = BucketOf(k) /\ (i = j \/ EarlierThan(i, j)) /\ (j = k \/ EarlierThan(j, k))
      => BucketOf(j) = BucketOf(i)
<1> SUFFICES ASSUME FactsInOrder, NEW i \in ActiveFacts, NEW j \in ActiveFacts,
                    NEW k \in ActiveFacts, BucketOf(i) = BucketOf(k),
                    i = j \/ EarlierThan(i, j), j = k \/ EarlierThan(j, k)
             PROVE  BucketOf(j) = BucketOf(i)
  OBVIOUS
<1>1. BucketOf(i) \in Nat /\ BucketOf(j) \in Nat /\ BucketOf(k) \in Nat
  BY DEF FactsInOrder
<1>2. BucketOf(i) <= BucketOf(j)
  <2>1. EarlierThan(i, j) => BucketOf(i) <= BucketOf(j)
    BY DEF FactsInOrder
  <2> QED
    BY <1>1, <2>1
<1>3. BucketOf(j) <= BucketOf(k)
  <2>1. EarlierThan(j, k) => BucketOf(j) <= BucketOf(k)
    BY DEF FactsInOrder
  <2> QED
    BY <1>1, <2>1
<1> QED
  BY <1>1, <1>2, <1>3

\* Every active fact stands in a block.
LEMMA BlocksCover ==
  FactsInOrder =>
    \A S \in Splits : \A j \in ActiveFacts : \E s \in S : j \in BlockOf(S, s)
<1> SUFFICES ASSUME FactsInOrder, NEW S \in Splits, NEW j \in ActiveFacts
             PROVE  \E s \in S : j \in BlockOf(S, s)
  OBVIOUS
<1>1. /\ S \in SUBSET ActiveFacts
      /\ \A i \in ActiveFacts : i \in S <=> Begins(S, i)
  BY DEF Splits
<1> DEFINE B == Bucket(j)
           C == {k \in S : k \in B /\ (k = j \/ EarlierThan(k, j))}
<1>2. B \in SUBSET ActiveFacts /\ j \in B /\ \A k \in ActiveFacts : k \in B <=> BucketOf(k) = BucketOf(j)
  BY DEF Bucket
<1>3. \A k \in B : Bucket(k) = B
  BY <1>2 DEF Bucket
<1>4. PICK f \in B : \A n \in B : n = f \/ EarlierThan(f, n)
  <2> HIDE DEF B
  <2> QED
    BY <1>2, EndsOfFacts
<1> HIDE DEF B
<1>5. f \in S
  <2>1. \A n \in Bucket(f) : ~EarlierThan(n, f)
    BY <1>2, <1>3, <1>4 DEF FactsInOrder
  <2>2. Begins(S, f)
    BY <2>1 DEF Begins
  <2> QED
    BY <1>1, <1>2, <1>4, <2>2
<1>6. C \in SUBSET ActiveFacts /\ f \in C
  BY <1>1, <1>2, <1>4, <1>5
<1>7. PICK s \in C : \A n \in C : n = s \/ EarlierThan(n, s)
  <2> HIDE DEF C
  <2> QED
    BY <1>6, EndsOfFacts
<1>8. s \in S /\ s \in ActiveFacts /\ s \in B /\ Bucket(s) = B /\ (j = s \/ EarlierThan(s, j))
  BY <1>1, <1>3, <1>7
<1>9. ASSUME NEW k \in S, EarlierThan(s, k) PROVE EarlierThan(j, k)
  <2> SUFFICES ASSUME ~EarlierThan(j, k) PROVE FALSE
    OBVIOUS
  <2>1. k \in ActiveFacts /\ (k = j \/ EarlierThan(k, j))
    BY <1>1 DEF FactsInOrder
  <2>2. BucketOf(s) = BucketOf(j)
    BY <1>2, <1>8
  <2>3. BucketOf(k) = BucketOf(s)
    BY <1>8, <1>9, <2>1, <2>2, BucketsAreWhole
  <2>4. k \in C
    BY <1>2, <2>1, <2>2, <2>3
  <2>5. k = s \/ EarlierThan(k, s)
    BY <1>7, <2>4
  <2> QED
    BY <1>8, <1>9, <2>1, <2>5 DEF FactsInOrder
<1>10. j \in BlockOf(S, s)
  BY <1>2, <1>8, <1>9 DEF BlockOf
<1> QED
  BY <1>8, <1>10

\* The prompt has the active facts, and no other.
LEMMA AllFactsAreShown == FactsInOrder => InFrozen \cup InOpen = ActiveFacts
<1> SUFFICES ASSUME FactsInOrder PROVE InFrozen \cup InOpen = ActiveFacts
  OBVIOUS
<1>1. PICK S \in SUBSET ActiveFacts : Splits = {S}
  BY SplitOnce DEF OneSplit
<1>2. \A s : BlockOf(S, s) \subseteq ActiveFacts
  BY DEF BlockOf, Bucket
<1> DEFINE frozen == {k \in S : ~IsOpen(S, k)}
           open == {k \in S : IsOpen(S, k)}
<1>3. FrozenBlocks = {[nonce |-> Nonce(S, s), of |-> BlockOf(S, s)] : s \in frozen}
  BY <1>1 DEF FrozenBlocks
<1>4. \A j : j \in InOpen <=> \E t \in open : j \in BlockOf(S, t)
  <2>1. InOpen = UNION {BlockOf(S, t) : t \in open}
    BY <1>1 DEF InOpen
  <2> QED
    BY <2>1
<1> DEFINE shown == UNION {block.of : block \in FrozenBlocks}
<1>5. \A j : j \in shown <=> \E t \in frozen : j \in BlockOf(S, t)
  <2> HIDE DEF frozen
  <2>1. \A t \in frozen : \E block \in FrozenBlocks : block.of = BlockOf(S, t)
    <3> TAKE t \in frozen
    <3>1. [nonce |-> Nonce(S, t), of |-> BlockOf(S, t)] \in FrozenBlocks
      BY <1>3
    <3>2. [nonce |-> Nonce(S, t), of |-> BlockOf(S, t)].of = BlockOf(S, t)
      OBVIOUS
    <3> QED
      BY <3>1, <3>2
  <2>2. \A block \in FrozenBlocks : \E t \in frozen : block.of = BlockOf(S, t)
    BY <1>3
  <2>3. \A j : j \in shown <=> \E block \in FrozenBlocks : j \in block.of
    OBVIOUS
  <2> HIDE DEF shown
  <2> QED
    BY <2>1, <2>2, <2>3
<1>6. \A j \in ActiveFacts : \E t \in S : j \in BlockOf(S, t)
  BY <1>1, BlocksCover
<1>7. shown \cup InOpen = ActiveFacts
  <2>1. \A j \in ActiveFacts : j \in shown \/ j \in InOpen
    <3> HIDE DEF shown
    <3> QED
      BY <1>4, <1>5, <1>6
  <2>2. \A j : j \in shown \/ j \in InOpen => j \in ActiveFacts
    <3> HIDE DEF shown
    <3> QED
      BY <1>2, <1>4, <1>5
  <2> HIDE DEF shown
  <2> QED
    BY <2>1, <2>2
<1>8. CASE FrozenBlocks # {} \/ digest # << >>
  BY <1>7, <1>8 DEF InFrozen
<1>9. CASE ~(FrozenBlocks # {} \/ digest # << >>)
  <2>1. frozen = {}
    BY <1>3, <1>9
  <2>2. InOpen = ActiveFacts
    <3> HIDE DEF frozen, shown
    <3>1. \A j : j \notin shown
      BY <1>5, <2>1
    <3> QED
      BY <1>7, <3>1
  <2>3. FrozenFacts \subseteq ActiveFacts
    BY DEF FrozenFacts
  <2> QED
    BY <1>9, <2>2, <2>3 DEF InFrozen
<1> QED
  BY <1>8, <1>9

-----------------------------------------------------------------------------
(* A fact that is later than all others.                                    *)

\* The bytes of some facts are the sum of a list.
Weights(fs, P) == [i \in DOMAIN fs |-> IF i \in P THEN fs[i].bytes ELSE 0]
Weighs(f, fs, P) ==
  f = [n \in 0..Len(fs) |-> IF n = 0 THEN 0 ELSE f[n - 1] + IF n \in P THEN fs[n].bytes ELSE 0]

LEMMA BytesAreSummed ==
  ASSUME NEW fs \in Seq(Facts), NEW P
  PROVE  /\ Weights(fs, P) \in Seq(Nat) /\ Len(Weights(fs, P)) = Len(fs)
         /\ \A i \in 1..Len(fs) : Weights(fs, P)[i] = IF i \in P THEN fs[i].bytes ELSE 0
         /\ Bytes(fs, P) = Summed(Weights(fs, P))
<1> DEFINE w == Weights(fs, P)
           c(i) == IF i \in P THEN fs[i].bytes ELSE 0
<1>1. Len(fs) \in Nat /\ DOMAIN fs = 1..Len(fs) /\ \A i \in 1..Len(fs) : fs[i] \in Facts
  OBVIOUS
<1>2. \A i \in 1..Len(fs) : c(i) \in Nat
  BY <1>1 DEF Facts
<1>3. w = [i \in 1..Len(fs) |-> c(i)]
  BY <1>1 DEF Weights
<1>4. w \in Seq(Nat) /\ Len(w) = Len(fs) /\ \A i \in 1..Len(fs) : w[i] = c(i)
  <2> HIDE DEF w, c
  <2>1. w \in [1..Len(fs) -> Nat]
    BY <1>2, <1>3
  <2> QED
    BY <1>1, <1>3, <2>1
<1>5. ASSUME NEW f PROVE Weighs(f, fs, P) <=> Sums(f, w)
  <2> DEFINE e(n) == IF n = 0 THEN 0 ELSE f[n - 1] + c(n)
             d(n) == IF n = 0 THEN 0 ELSE f[n - 1] + w[n]
  <2>1. \A n \in 0..Len(fs) : e(n) = d(n)
    <3> HIDE DEF w, c
    <3>1. \A n \in 0..Len(fs) : n = 0 \/ n \in 1..Len(fs)
      BY <1>1
    <3> QED
      BY <1>4, <3>1
  <2>2. Weighs(f, fs, P) <=> f = [n \in 0..Len(fs) |-> e(n)]
    BY DEF Weighs
  <2>3. Sums(f, w) <=> f = [n \in 0..Len(fs) |-> d(n)]
    <3> HIDE DEF w
    <3> QED
      BY <1>4 DEF Sums
  <2> HIDE DEF e, d, w
  <2> QED
    BY <2>1, <2>2, <2>3
<1> HIDE DEF w, c
<1>6. PICK f : Sums(f, w)
  BY <1>4, SumIterates
<1> DEFINE chosen == CHOOSE h : Weighs(h, fs, P)
<1>7. Weighs(chosen, fs, P)
  <2>1. Weighs(f, fs, P)
    BY <1>5, <1>6
  <2> QED
    BY <2>1, Zenon
<1>8. Bytes(fs, P) = chosen[Len(fs)]
  BY Zenon DEF Bytes, Weighs
<1> HIDE DEF chosen
<1>9. Sums(chosen, w)
  BY <1>5, <1>7
<1>10. Summed(w) = chosen[Len(w)]
  BY <1>4, <1>9, SumValues
<1> QED
  BY <1>4, <1>8, <1>10 DEF w, c

\* A fact more at the end weighs nothing where it is not counted.
LEMMA BytesAppend ==
  ASSUME NEW fs \in Seq(Facts), NEW f \in Facts, NEW P \in SUBSET (1..Len(fs))
  PROVE  Bytes(Append(fs, f), P) = Bytes(fs, P)
<1> DEFINE gs == Append(fs, f)
           old == Weights(fs, P)
           new == Weights(gs, P)
<1>1. /\ Len(fs) \in Nat /\ gs \in Seq(Facts) /\ Len(gs) = Len(fs) + 1
      /\ \A i \in 1..Len(fs) : gs[i] = fs[i]
  OBVIOUS
<1> HIDE DEF gs
<1>2. /\ old \in Seq(Nat) /\ Len(old) = Len(fs)
      /\ \A i \in 1..Len(fs) : old[i] = IF i \in P THEN fs[i].bytes ELSE 0
  BY BytesAreSummed
<1>3. /\ new \in Seq(Nat) /\ Len(new) = Len(fs) + 1
      /\ \A i \in 1..(Len(fs) + 1) : new[i] = IF i \in P THEN gs[i].bytes ELSE 0
  BY <1>1, BytesAreSummed
<1>4. Bytes(fs, P) = Summed(old) /\ Bytes(gs, P) = Summed(new)
  BY <1>1, BytesAreSummed
<1> HIDE DEF old, new
<1>5. ASSUME NEW i \in 1..Len(fs) PROVE new[i] = old[i]
  <2>1. i \in 1..(Len(fs) + 1) /\ gs[i].bytes = fs[i].bytes
    BY <1>1
  <2> QED
    BY <1>2, <1>3, <2>1
<1>6. new[Len(fs) + 1] = 0
  <2>1. Len(fs) + 1 \notin P /\ Len(fs) + 1 \in 1..(Len(fs) + 1)
    BY <1>1
  <2> QED
    BY <1>3, <2>1
<1>7. new = Append(old, 0)
  BY <1>1, <1>2, <1>3, <1>5, <1>6, AppendIs
<1>8. Summed(new) = Summed(old) + 0 /\ Summed(old) \in Nat
  BY <1>2, <1>7, SummedAppend
<1> QED
  BY <1>4, <1>8 DEF gs

\* What a fact at the end, later than all others, changes of the facts and of their order.
LaterFact(f, x) ==
  /\ x = Len(facts) + 1 /\ x \notin ActiveFacts /\ ActiveFacts' = ActiveFacts \cup {x}
  /\ \A i, j \in ActiveFacts : EarlierThan(i, j)' <=> EarlierThan(i, j)
  /\ \A i \in ActiveFacts : EarlierThan(i, x)' /\ ~EarlierThan(x, i)'
  /\ \A i \in ActiveFacts : BucketOf(i)' = BucketOf(i)
  /\ \A i \in ActiveFacts : /\ Bucket(i) \subseteq ActiveFacts
                            /\ Bucket(i)' \subseteq Bucket(i) \cup {x}
                            /\ Bucket(i) \subseteq Bucket(i)'
  /\ \A P \in SUBSET ActiveFacts : EntriesOf(P)' = EntriesOf(P)

LEMMA LaterFactIsLast ==
  ASSUME facts \in Seq(Facts), FactsInOrder, NEW f \in Facts, facts' = Append(facts, f), ~f.deleted,
         \A i \in ActiveFacts : facts[i].time <= f.time, NEW x, x = Len(facts) + 1
  PROVE  LaterFact(f, x)
<1> DEFINE A == ActiveFacts
<1>1. /\ x = Len(facts) + 1 /\ Len(facts) \in Nat /\ DOMAIN facts = 1..Len(facts)
      /\ DOMAIN facts' = 1..x /\ \A i \in 1..Len(facts) : facts'[i] = facts[i]
      /\ facts'[x] = f
  OBVIOUS
<1>2. A \subseteq 1..Len(facts) /\ x \notin A /\ \A i \in A : i < x /\ i \in Nat
  BY <1>1 DEF FactsInOrder
<1>3. ActiveFacts' = A \cup {x}
  <2>1. A = {i \in 1..Len(facts) : ~facts[i].deleted}
    BY <1>1 DEF ActiveFacts, ActiveOf
  <2>2. ActiveFacts' = {i \in 1..x : ~facts'[i].deleted}
    BY <1>1 DEF ActiveFacts, ActiveOf
  <2>3. 1..x = 1..Len(facts) \cup {x} /\ x \notin 1..Len(facts)
    BY <1>1
  <2> QED
    BY <1>1, <2>1, <2>2, <2>3
<1>4. \A i \in A : facts'[i] = facts[i]
  BY <1>1, <1>2
<1>5. \A i, j \in A : EarlierThan(i, j)' <=> EarlierThan(i, j)
  BY <1>4 DEF EarlierThan
<1>6. \A i \in A : EarlierThan(i, x)' /\ ~EarlierThan(x, i)'
  <2>1. \A i \in A : facts'[i].time <= facts'[x].time /\ facts'[i].time \in Nat /\ facts'[x].time \in Nat
    <3>1. \A i \in 1..Len(facts) : facts[i] \in Facts
      BY <1>1
    <3> QED
      BY <1>1, <1>2, <1>4, <3>1 DEF Facts
  <2> QED
    BY <1>2, <2>1 DEF EarlierThan
<1>7. \A i \in A : BucketOf(i)' = BucketOf(i)
  BY <1>4 DEF BucketOf
<1>8. \A i \in A : /\ Bucket(i) \subseteq A
                   /\ Bucket(i)' \subseteq Bucket(i) \cup {x}
                   /\ Bucket(i) \subseteq Bucket(i)'
  <2> QED
    BY <1>3, <1>7 DEF Bucket
<1>9. \A P \in SUBSET A : EntriesOf(P)' = EntriesOf(P)
  <2> TAKE P \in SUBSET A
  <2>1. Bytes(facts', P) = Bytes(facts, P)
    BY <1>2, BytesAppend
  <2> QED
    BY <2>1 DEF EntriesOf
<1> QED
  BY <1>2, <1>3, <1>5, <1>6, <1>7, <1>8, <1>9 DEF LaterFact

\* It begins a block of its own or joins the last one.
LEMMA BeginsAsBefore ==
  ASSUME NEW f, NEW x, LaterFact(f, x), NEW T \in SUBSET (ActiveFacts \cup {x}), NEW i \in ActiveFacts
  PROVE  Begins(T, i)' <=> Begins(T \cap ActiveFacts, i)
<1> DEFINE A == ActiveFacts
<1> PICK U : U = Upto(T \cap A, i)
  OBVIOUS
<1>1. x \notin A /\ i # x /\ i \in A
  BY DEF LaterFact
<1>2. /\ Bucket(i) \subseteq A /\ Bucket(i)' \subseteq Bucket(i) \cup {x} /\ Bucket(i) \subseteq Bucket(i)'
      /\ ~EarlierThan(x, i)'
  BY DEF LaterFact
<1>3. /\ \A j, k \in A : EarlierThan(j, k)' <=> EarlierThan(j, k)
      /\ \A j \in A : ~EarlierThan(x, j)'
  BY DEF LaterFact
<1>4. Upto(T, i)' = U
  <2>1. \A j : j \in Upto(T, i)' <=>
          /\ j \in Bucket(i)' /\ (j = i \/ EarlierThan(j, i)')
          /\ \A k \in T : EarlierThan(j, k)' => ~EarlierThan(k, i)'
    BY DEF Upto
  <2>2. \A j : j \in U <=>
          /\ j \in Bucket(i) /\ (j = i \/ EarlierThan(j, i))
          /\ \A k \in T \cap A : EarlierThan(j, k) => ~EarlierThan(k, i)
    BY DEF Upto
  <2>3. ASSUME NEW j PROVE j \in Upto(T, i)' <=> j \in U
    <3>1. CASE j \in Bucket(i)
      <4>1. j \in A /\ j \in Bucket(i)' /\ (EarlierThan(j, i)' <=> EarlierThan(j, i))
        BY <1>1, <1>2, <1>3, <3>1
      <4>2. ASSUME NEW k \in T
            PROVE  (EarlierThan(j, k)' => ~EarlierThan(k, i)')
                     <=> (k \in A => (EarlierThan(j, k) => ~EarlierThan(k, i)))
        <5>1. CASE k \in A
          BY <1>1, <1>3, <4>1, <5>1
        <5>2. CASE k = x
          BY <1>1, <1>2, <5>2
        <5> QED
          BY <5>1, <5>2
      <4> QED
        BY <2>1, <2>2, <3>1, <4>1, <4>2
    <3>2. CASE j \notin Bucket(i)
      <4>1. j \notin U
        BY <2>2, <3>2
      <4>2. j \in Bucket(i)' => j = x
        BY <1>2, <3>2
      <4>3. j = x => ~(j = i \/ EarlierThan(j, i)')
        BY <1>1, <1>2
      <4> QED
        BY <2>1, <4>1, <4>2, <4>3
    <3> QED
      BY <3>1, <3>2
  <2> QED
    BY <2>3
<1>5. U \in SUBSET A
  BY <1>2 DEF Upto
<1>6. EntriesOf(U)' = EntriesOf(U)
  <2> QED
    BY <1>5 DEF LaterFact
<1>7. (\A j \in Bucket(i)' : ~EarlierThan(j, i)') <=> (\A j \in Bucket(i) : ~EarlierThan(j, i))
  BY <1>1, <1>2, <1>3
<1>8. Begins(T, i)' <=>
        \/ \A j \in Bucket(i)' : ~EarlierThan(j, i)'
        \/ /\ Cardinality(U) > 1
           /\ HeaderBytes + EntriesOf(U)' + Cardinality(U) - 1 > BlockBytes
  BY <1>4 DEF Begins
<1>9. Begins(T \cap A, i) <=>
        \/ \A j \in Bucket(i) : ~EarlierThan(j, i)
        \/ /\ Cardinality(U) > 1
           /\ HeaderBytes + EntriesOf(U) + Cardinality(U) - 1 > BlockBytes
  BY DEF Begins
<1> QED
  BY <1>6, <1>7, <1>8, <1>9

\* The starts before it stay, and it may be one more.
LEMMA SplitAsBefore ==
  ASSUME NEW f, NEW x, LaterFact(f, x), FactsInOrder,
         NEW S, Splits = {S}, NEW T, T \in Splits'
  PROVE  T \subseteq ActiveFacts \cup {x} /\ T \cap ActiveFacts = S
<1>1. ActiveFacts' = ActiveFacts \cup {x}
  BY DEF LaterFact
<1>2. /\ T \in SUBSET (ActiveFacts \cup {x})
      /\ \A i \in ActiveFacts : i \in T <=> Begins(T, i)'
  BY <1>1 DEF Splits
<1>3. \A i \in ActiveFacts : i \in T \cap ActiveFacts <=> Begins(T \cap ActiveFacts, i)
  BY <1>2, BeginsAsBefore
<1>4. T \cap ActiveFacts \in Splits
  BY <1>3 DEF Splits
<1> QED
  BY <1>2, <1>4

\* Two members make a finite set greater than one.
LEMMA TwoMembers ==
  ASSUME NEW S, IsFiniteSet(S), NEW a \in S, NEW b \in S, a # b
  PROVE  Cardinality(S) > 1
<1>1. IsFiniteSet({b}) /\ Cardinality({b}) = 1
  BY FS_Singleton
<1>2. IsFiniteSet({b} \cup {a}) /\ Cardinality({b} \cup {a}) = 2
  BY <1>1, FS_AddElement
<1>3. {b} \cup {a} \subseteq S /\ Cardinality(S) \in Nat
  BY FS_CardinalityType
<1>4. Cardinality({b} \cup {a}) <= Cardinality(S)
  BY <1>3, FS_Subset
<1> QED
  BY <1>2, <1>3, <1>4

LEMMA LaterFactFreezes ==
  ASSUME NEW f, NEW x, LaterFact(f, x), FactsInOrder, FactsInOrder', OneSplit, OneSplit'
  PROVE  FrozenBlocks \subseteq FrozenBlocks'
<1>1. PICK S \in SUBSET ActiveFacts : Splits = {S}
  BY DEF OneSplit
<1>2. PICK T : Splits' = {T}
  BY DEF OneSplit
<1>3. T \subseteq ActiveFacts \cup {x} /\ T \cap ActiveFacts = S
  BY <1>1, <1>2, SplitAsBefore
<1>4. /\ x \notin ActiveFacts
      /\ \A i, j \in ActiveFacts : EarlierThan(i, j)' <=> EarlierThan(i, j)
      /\ \A i \in ActiveFacts : EarlierThan(i, x)' /\ ~EarlierThan(x, i)'
      /\ \A i \in ActiveFacts : BucketOf(i)' = BucketOf(i)
      /\ \A i \in ActiveFacts : /\ Bucket(i) \subseteq ActiveFacts
                                /\ Bucket(i)' \subseteq Bucket(i) \cup {x}
                                /\ Bucket(i) \subseteq Bucket(i)'
  BY DEF LaterFact
<1>5. \A i \in T : i \in S \/ i = x
  BY <1>3
<1>6. S \subseteq T /\ S \subseteq ActiveFacts
  BY <1>3
<1>7. ASSUME NEW s \in S, ~IsOpen(S, s)
      PROVE  ~IsOpen(T, s)' /\ BlockOf(T, s)' = BlockOf(S, s) /\ Nonce(T, s)' = Nonce(S, s)
  <2>1. PICK late \in S : EarlierThan(s, late)
    BY <1>7 DEF IsOpen
  <2>2. s \in ActiveFacts /\ late \in ActiveFacts /\ late \in T /\ EarlierThan(s, late)'
    BY <1>4, <1>6, <2>1
  <2>3. ~IsOpen(T, s)'
    BY <2>2 DEF IsOpen
  <2>4. ASSUME NEW j PROVE j \in BlockOf(T, s)' <=> j \in BlockOf(S, s)
    <3>1. j \in BlockOf(T, s)' <=>
            /\ j \in Bucket(s)' /\ (j = s \/ EarlierThan(s, j)')
            /\ \A k \in T : EarlierThan(s, k)' => EarlierThan(j, k)'
      BY DEF BlockOf
    <3>2. j \in BlockOf(S, s) <=>
            /\ j \in Bucket(s) /\ (j = s \/ EarlierThan(s, j))
            /\ \A k \in S : EarlierThan(s, k) => EarlierThan(j, k)
      BY DEF BlockOf
    <3>3. CASE j \in Bucket(s)
      <4>1. j \in ActiveFacts /\ j \in Bucket(s)' /\ (EarlierThan(s, j)' <=> EarlierThan(s, j))
        BY <1>4, <2>2, <3>3
      <4>2. (\A k \in T : EarlierThan(s, k)' => EarlierThan(j, k)')
              <=> (\A k \in S : EarlierThan(s, k) => EarlierThan(j, k))
        BY <1>4, <1>5, <1>6, <2>2, <4>1
      <4> QED
        BY <3>1, <3>2, <3>3, <4>1, <4>2
    <3>4. CASE j \notin Bucket(s)
      <4>1. j \in Bucket(s)' => j = x
        BY <1>4, <2>2, <3>4
      <4>2. j = x => ~(EarlierThan(s, late)' => EarlierThan(j, late)')
        BY <1>4, <2>2
      <4> QED
        BY <2>2, <3>1, <3>2, <3>4, <4>1, <4>2
    <3> QED
      BY <3>3, <3>4
  <2>5. BlockOf(T, s)' = BlockOf(S, s)
    <3> PICK b, c : b = BlockOf(T, s)' /\ c = BlockOf(S, s)
      OBVIOUS
    <3>1. (\A j \in b : j \in BlockOf(T, s)') /\ (\A j \in c : j \in BlockOf(S, s))
      OBVIOUS
    <3>2. \A j \in b : j \in {m \in Bucket(s)' : TRUE}
      BY DEF BlockOf
    <3> QED
      BY <2>4 DEF BlockOf
  <2>6. Nonce(T, s)' = Nonce(S, s)
    <3> PICK old, new : old = S \cap Bucket(s) /\ new = T \cap Bucket(s)'
      OBVIOUS
    <3>1. Nonce(S, s) = <<BucketOf(s), Cardinality({k \in old : EarlierThan(k, s)}), Cardinality(old) > 1>>
      BY DEF Nonce
    <3>2. Nonce(T, s)' = <<BucketOf(s)', Cardinality({k \in new : EarlierThan(k, s)'}), Cardinality(new) > 1>>
      BY DEF Nonce
    <3>3. BucketOf(s)' = BucketOf(s)
      BY <1>4, <2>2
    <3>4. old \subseteq new /\ new \subseteq old \cup {x} /\ old \subseteq ActiveFacts
      BY <1>4, <1>5, <1>6, <2>2
    <3>5. {k \in new : EarlierThan(k, s)'} = {k \in old : EarlierThan(k, s)}
      BY <1>4, <2>2, <3>4
    <3>6. s \in old
      BY <2>2 DEF Bucket
    <3>7. IsFiniteSet(old) /\ IsFiniteSet(new)
      <4>1. IsFiniteSet(ActiveFacts)
        BY DEF FactsInOrder
      <4>2. IsFiniteSet(old) /\ IsFiniteSet(old \cup {x})
        BY <3>4, <4>1, FS_Subset, FS_AddElement
      <4> QED
        BY <3>4, <4>2, FS_Subset
    <3>8. Cardinality(new) > 1 <=> Cardinality(old) > 1
      <4>1. CASE new = old
        BY <4>1
      <4>2. CASE x \in new
        <5>1. x \in Bucket(s)'
          BY <4>2
        <5>2. BucketOf(x)' = BucketOf(s)
          BY <3>3, <5>1 DEF Bucket
        <5>3. BucketOf(late) = BucketOf(s)
          <6>1. {s, late, x} \subseteq ActiveFacts' /\ EarlierThan(late, x)'
            BY <1>4, <2>2 DEF LaterFact
          <6>2. BucketOf(s)' <= BucketOf(late)' /\ BucketOf(late)' <= BucketOf(x)'
            BY <2>2, <6>1 DEF FactsInOrder
          <6>3. BucketOf(s)' \in Nat /\ BucketOf(late)' \in Nat /\ BucketOf(late)' = BucketOf(late)
            BY <1>4, <2>2, <6>1 DEF FactsInOrder
          <6> QED
            BY <3>3, <5>2, <6>2, <6>3
        <5>4. late \in old /\ late # s
          BY <2>1, <2>2, <5>3 DEF Bucket, FactsInOrder
        <5>5. Cardinality(old) > 1 /\ Cardinality(new) > 1
          BY <3>4, <3>6, <3>7, <5>4, TwoMembers
        <5> QED
          BY <5>5
      <4> QED
        BY <3>4, <4>1, <4>2
    <3> QED
      BY <3>1, <3>2, <3>3, <3>5, <3>8
  <2> QED
    BY <2>3, <2>5, <2>6
<1> DEFINE Block(R, t) == [nonce |-> Nonce(R, t), of |-> BlockOf(R, t)]
<1>8. FrozenBlocks = {Block(S, t) : t \in {k \in S : ~IsOpen(S, k)}}
  BY <1>1 DEF FrozenBlocks
<1>9. FrozenBlocks' = {Block(T, t)' : t \in {k \in T : ~IsOpen(T, k)'}}
  BY <1>2 DEF FrozenBlocks
<1>10. \A t \in S : ~IsOpen(S, t) => t \in {k \in T : ~IsOpen(T, k)'} /\ Block(T, t)' = Block(S, t)
  BY <1>6, <1>7
<1> HIDE DEF Block
<1> QED
  BY <1>8, <1>9, <1>10

-----------------------------------------------------------------------------
(* The invariant.                                                           *)

\* What a reader has, if its place was kept: the facts after its start and up to its cursor,
\* upwards.
Follows(place, active, n) ==
  /\ place.cursor \in 0..n
  /\ place.kept =>
       \E G : /\ Ascending(place.given, G)
              /\ \A j \in G : j <= place.cursor
              /\ \A j \in active : place.since < j /\ j <= place.cursor => j \in G

TimelineInv ==
  /\ TimelineType
  /\ backing # "memory" => disk.facts = facts /\ IsPrefix(disk.digest, digest)
  /\ \A r \in Readers : Follows(reader[r], ActiveFacts, Len(facts))

LEMMA InvShows == TimelineInv => EachFactOnce /\ FactsAreShown
<1> SUFFICES ASSUME TimelineInv PROVE EachFactOnce /\ FactsAreShown
  OBVIOUS
<1>1. FactsAreShown
  BY OrderOfFacts, AllFactsAreShown DEF FactsAreShown, TimelineInv
<1>2. ASSUME NEW r \in Readers, reader[r].kept
      PROVE  /\ \A m, n \in DOMAIN reader[r].given :
                  m < n => reader[r].given[m] < reader[r].given[n]
             /\ {j \in ActiveFacts : reader[r].since < j /\ j <= reader[r].cursor}
                  \subseteq ToSet(reader[r].given)
  <2> DEFINE given == reader[r].given
  <2>1. PICK G : /\ Ascending(given, G)
                 /\ \A j \in ActiveFacts :
                      reader[r].since < j /\ j <= reader[r].cursor => j \in G
    BY <1>2 DEF TimelineInv, Follows
  <2> HIDE DEF given
  <2>2. /\ \A m, n \in DOMAIN given : m < n => given[m] < given[n]
        /\ {given[i] : i \in DOMAIN given} = G
    BY <2>1 DEF Ascending
  <2>3. ToSet(given) = G
    BY <2>2 DEF ToSet
  <2> QED
    BY <2>1, <2>2, <2>3 DEF given
<1> QED
  BY <1>1, <1>2 DEF EachFactOnce

\* A fact fewer is none a reader missed.
LEMMA FollowsFewer ==
  ASSUME NEW place, NEW active, NEW n \in Nat, Follows(place, active, n),
         NEW fewer \in SUBSET active
  PROVE  Follows(place, fewer, n)
BY DEF Follows

\* The newest active fact.
LEMMA NewestFact ==
  ASSUME NEW fs \in Seq(Facts)
  PROVE  /\ Max(ActiveOf(fs) \cup {0}) \in ActiveOf(fs) \cup {0}
         /\ Max(ActiveOf(fs) \cup {0}) \in 0..Len(fs)
         /\ \A j \in ActiveOf(fs) : j <= Max(ActiveOf(fs) \cup {0})
<1> DEFINE T == ActiveOf(fs) \cup {0}
<1>1. Len(fs) \in Nat /\ DOMAIN fs = 1..Len(fs)
  OBVIOUS
<1>2. T \in SUBSET (0..Len(fs)) /\ T # {}
  BY <1>1 DEF ActiveOf
<1> HIDE DEF T
<1>3. \E m \in T : \A k \in T : m >= k
  BY <1>1, <1>2, GreatestNumber
<1>4. Max(T) \in T /\ \A k \in T : Max(T) >= k
  BY <1>3 DEF Max
<1>5. \A k \in T : k \in Nat
  BY <1>1, <1>2
<1> QED
  BY <1>2, <1>4, <1>5 DEF T

\* Facts that were marked.
LEMMA DeletedFacts ==
  ASSUME NEW fs \in Seq(Facts), NEW P
  PROVE  /\ Deleted(fs, P) \in Seq(Facts) /\ Len(Deleted(fs, P)) = Len(fs)
         /\ ActiveOf(Deleted(fs, P)) \subseteq ActiveOf(fs)
<1> DEFINE gs == Deleted(fs, P)
<1>1. Len(fs) \in Nat /\ DOMAIN fs = 1..Len(fs) /\ \A i \in 1..Len(fs) : fs[i] \in Facts
  OBVIOUS
<1>2. gs = [i \in 1..Len(fs) |-> [fs[i] EXCEPT !.deleted = @ \/ i \in P]]
  BY <1>1 DEF Deleted
<1>3. ASSUME NEW i \in 1..Len(fs)
      PROVE  /\ [fs[i] EXCEPT !.deleted = @ \/ i \in P] \in Facts
             /\ ~[fs[i] EXCEPT !.deleted = @ \/ i \in P].deleted => ~fs[i].deleted
  <2>1. fs[i] \in Facts
    BY <1>1
  <2> QED
    BY <2>1 DEF Facts
<1>4. gs \in [1..Len(fs) -> Facts]
  BY <1>2, <1>3
<1>5. gs \in Seq(Facts) /\ Len(gs) = Len(fs) /\ DOMAIN gs = 1..Len(fs)
  BY <1>1, <1>4
<1>6. \A i \in 1..Len(fs) : ~gs[i].deleted => ~fs[i].deleted
  BY <1>2, <1>3
<1> HIDE DEF gs
<1>7. ActiveOf(gs) \subseteq ActiveOf(fs)
  BY <1>1, <1>5, <1>6 DEF ActiveOf
<1> QED
  BY <1>5, <1>7 DEF gs

\* What a store keeps when its facts change.
LEMMA KeptFacts ==
  ASSUME TimelineInv, NEW fs \in Seq(Facts)
  PROVE  /\ Kept(fs) \in [facts : Seq(Facts), digest : Seq(Nat), archived : Seq(Nat)]
         /\ backing # "memory" => Kept(fs).facts = fs /\ IsPrefix(Kept(fs).digest, digest)
<1>1. IsPrefix(digest, digest)
  BY DEF IsPrefix, TimelineInv, TimelineType
<1>2. /\ disk \in [facts : Seq(Facts), digest : Seq(Nat), archived : Seq(Nat)]
      /\ digest \in Seq(Nat) /\ archived \in Seq(Nat)
      /\ backing \in {"memory", "sqlite", "markdown"}
      /\ backing # "memory" => IsPrefix(disk.digest, digest)
  BY DEF TimelineInv, TimelineType
<1>3. CASE backing = "memory"
  BY <1>2, <1>3 DEF Kept
<1>4. CASE backing = "sqlite"
  <2>1. Kept(fs) = [disk EXCEPT !.facts = fs]
    BY <1>4 DEF Kept
  <2> QED
    BY <1>2, <1>4, <2>1
<1>5. CASE backing = "markdown"
  <2>1. Kept(fs) = [facts |-> fs, digest |-> digest, archived |-> archived]
    BY <1>5 DEF Kept
  <2> QED
    BY <1>1, <1>2, <1>5, <2>1
<1> QED
  BY <1>2, <1>3, <1>4, <1>5

-----------------------------------------------------------------------------
(* The steps.                                                               *)

LEMMA TimelineStarts == TimelineInit => TimelineInv
<1> SUFFICES ASSUME TimelineInit PROVE TimelineInv
  OBVIOUS
<1>1. facts \in Seq(Facts) /\ Len(facts) \in Nat
  BY TimelineAssumption DEF TimelineInit, TimelineAssumption, Facts
<1>2. << >> \in Seq(Nat) /\ Unread \in Places
  BY DEF Unread, Places
<1>3. TimelineType
  BY <1>1, <1>2 DEF TimelineInit, TimelineType
<1>4. IsPrefix(<< >>, << >>)
  BY DEF IsPrefix
<1>5. backing # "memory" => disk.facts = facts /\ IsPrefix(disk.digest, digest)
  BY <1>4 DEF TimelineInit
<1>6. Ascending(<< >>, {})
  BY DEF Ascending
<1>7. Follows(Unread, ActiveFacts, Len(facts))
  <2>1. \A j \in ActiveFacts : j \in 1..Len(facts)
    BY <1>1 DEF ActiveFacts, ActiveOf
  <2>2. \A j \in ActiveFacts : ~(0 < j /\ j <= 0)
    BY <1>1, <2>1
  <2>3. Unread.cursor = 0 /\ Unread.since = 0 /\ Unread.given = << >>
    BY DEF Unread
  <2>4. 0 \in 0..Len(facts)
    BY <1>1
  <2> QED
    BY <1>6, <2>2, <2>3, <2>4 DEF Follows
<1> QED
  BY <1>3, <1>5, <1>7 DEF TimelineInit, TimelineInv

\* A fact more is no reader's yet, and freezes what others are.
LEMMA AddHolds ==
  ASSUME TimelineInv, NEW bytes \in Lengths, NEW time \in Times, Add(bytes, time)
  PROVE  TimelineInv' /\ FrozenIsStable
<1> PICK f : f = [bytes |-> bytes, time |-> time, pinned |-> FALSE, deleted |-> FALSE]
  OBVIOUS
<1> PICK x : x = Len(facts) + 1
  OBVIOUS
<1>1. f \in Facts /\ ~f.deleted
  BY TimelineAssumption DEF TimelineAssumption, Facts
<1>2. facts \in Seq(Facts) /\ facts' = Append(facts, f) /\ facts' \in Seq(Facts)
  BY <1>1 DEF Add, TimelineInv, TimelineType
<1>3. /\ Len(facts) \in Nat /\ Len(facts') = x /\ DOMAIN facts = 1..Len(facts)
      /\ DOMAIN facts' = 1..x /\ \A i \in 1..Len(facts) : facts'[i] = facts[i]
      /\ facts'[x] = f
  BY <1>2
<1>4. disk' = Kept(facts') /\ UNCHANGED <<backing, digest, archived, reader>>
  BY DEF Add
<1>5. /\ disk' \in [facts : Seq(Facts), digest : Seq(Nat), archived : Seq(Nat)]
      /\ backing' # "memory" => disk'.facts = facts' /\ IsPrefix(disk'.digest, digest')
  <2> PICK fs \in Seq(Facts) : fs = facts'
    BY <1>2
  <2> QED
    BY <1>4, KeptFacts
<1>6. TimelineType'
  BY <1>2, <1>4, <1>5 DEF TimelineInv, TimelineType
<1>7. \A j \in ActiveFacts' : j = x \/ j \in ActiveFacts
  BY <1>3 DEF ActiveFacts, ActiveOf
<1>8. ASSUME NEW r \in Readers PROVE Follows(reader[r], ActiveFacts, Len(facts))'
  <2>1. Follows(reader[r], ActiveFacts, Len(facts)) /\ reader'[r] = reader[r]
    BY <1>4 DEF TimelineInv
  <2>2. reader[r].cursor \in 0..Len(facts)
    BY <2>1 DEF Follows
  <2>3. ~(x <= reader[r].cursor) /\ reader[r].cursor \in 0..x
    BY <1>3, <2>2
  <2> QED
    BY <1>3, <1>7, <2>1, <2>3 DEF Follows
<1>9. TimelineInv'
  BY <1>5, <1>6, <1>8 DEF TimelineInv
<1>10. FactsInOrder /\ OneSplit
  BY OrderOfFacts, SplitOnce DEF TimelineInv
<1>11. FactsInOrder' /\ OneSplit'
  BY <1>6, OrderOfFacts, SplitOnce, PTL
<1>12. FrozenIsStable
  <2> SUFFICES ASSUME \A i \in ActiveFacts : facts[i].time <= Last(facts').time
               PROVE  FrozenBlocks \subseteq FrozenBlocks'
    BY DEF FrozenIsStable
  <2>1. Last(facts') = f
    BY <1>3 DEF Last
  <2>2. LaterFact(f, x)
    BY <1>1, <1>2, <1>10, <2>1, LaterFactIsLast
  <2> QED
    BY <1>10, <1>11, <2>2, LaterFactFreezes
<1> QED
  BY <1>9, <1>12

\* Facts that are marked go from the view, and no other.
LEMMA DeletionHolds ==
  ASSUME TimelineInv, NEW P, facts' = Deleted(facts, P), disk' = Kept(facts'),
         UNCHANGED <<backing, digest, archived, reader>>
  PROVE  TimelineInv' /\ Len(facts') = Len(facts)
<1>1. facts \in Seq(Facts) /\ Len(facts) \in Nat
  BY DEF TimelineInv, TimelineType
<1>2. /\ facts' \in Seq(Facts) /\ Len(facts') = Len(facts)
      /\ ActiveOf(facts') \subseteq ActiveOf(facts)
  BY <1>1, DeletedFacts
<1>3. /\ disk' \in [facts : Seq(Facts), digest : Seq(Nat), archived : Seq(Nat)]
      /\ backing' # "memory" => disk'.facts = facts' /\ IsPrefix(disk'.digest, digest')
  <2> PICK fs \in Seq(Facts) : fs = facts'
    BY <1>2
  <2> QED
    BY KeptFacts
<1>4. TimelineType'
  BY <1>2, <1>3 DEF TimelineInv, TimelineType
<1>5. ActiveFacts' \subseteq ActiveFacts
  BY <1>2 DEF ActiveFacts
<1>6. ASSUME NEW r \in Readers PROVE Follows(reader[r], ActiveFacts, Len(facts))'
  <2>1. Follows(reader[r], ActiveFacts, Len(facts)) /\ reader'[r] = reader[r]
    BY DEF TimelineInv
  <2>2. Follows(reader[r], ActiveFacts', Len(facts))
    <3> PICK fewer : fewer = ActiveFacts'
      OBVIOUS
    <3> QED
      BY <1>1, <1>5, <2>1, FollowsFewer
  <2> QED
    BY <1>2, <2>1, <2>2
<1> QED
  BY <1>2, <1>3, <1>4, <1>6 DEF TimelineInv

\* The place of a reader that was given nothing.
LEMMA PlaceOfAReader ==
  ASSUME NEW place, NEW c \in Nat, NEW n \in Nat,
         place = [cursor |-> c, since |-> n, given |-> << >>, kept |-> TRUE]
  PROVE  /\ place.cursor = c /\ place.since = n /\ place.given = << >>
         /\ place \in Places
<1>1. << >> \in Seq(Nat)
  OBVIOUS
<1> QED
  BY <1>1 DEF Places

\* A store that is opened again has what was kept, and its readers begin after it.
LEMMA OpenedHolds ==
  ASSUME TimelineInv, NEW stored, Opened(stored), Len(stored.facts) = Len(facts),
         stored \in [facts : Seq(Facts), digest : Seq(Nat), archived : Seq(Nat)]
  PROVE  TimelineInv' /\ Len(facts') = Len(facts)
<1> PICK fs \in Seq(Facts) : fs = stored.facts
  OBVIOUS
<1> PICK top : top = Max(ActiveOf(fs) \cup {0})
  OBVIOUS
<1>8. PICK place : place = [Unread EXCEPT !.since = Len(fs), !.cursor = top]
  OBVIOUS
<1>1. /\ facts' = fs /\ digest' = stored.digest /\ archived' = stored.archived
      /\ disk' = stored /\ backing' = backing
      /\ reader' = [r \in Readers |-> place]
  BY <1>8 DEF Opened
<1>2. /\ top \in 0..Len(fs) /\ Len(fs) \in Nat
      /\ \A j \in ActiveOf(fs) : j \in 1..Len(fs)
  BY NewestFact DEF ActiveOf
<1>3. /\ place.cursor = top /\ place.since = Len(fs) /\ place.given = << >>
      /\ place \in Places
  <2>1. top \in Nat
    BY <1>2
  <2>2. place = [cursor |-> top, since |-> Len(fs), given |-> << >>, kept |-> TRUE]
    BY <1>8 DEF Unread
  <2> QED
    BY <1>2, <2>1, <2>2, PlaceOfAReader
<1>4. TimelineType'
  BY <1>1, <1>3 DEF TimelineInv, TimelineType
<1>5. IsPrefix(stored.digest, stored.digest)
  BY DEF IsPrefix
<1>6. Follows(place, ActiveOf(fs), Len(fs))
  <2>1. Ascending(<< >>, {})
    BY DEF Ascending
  <2>2. \A j \in ActiveOf(fs) : ~(Len(fs) < j)
    BY <1>2
  <2> QED
    BY <1>2, <1>3, <2>1, <2>2 DEF Follows
<1>7. \A r \in Readers : Follows(reader[r], ActiveFacts, Len(facts))'
  BY <1>1, <1>6 DEF ActiveFacts
<1> QED
  BY <1>1, <1>4, <1>5, <1>7 DEF TimelineInv

LEMMA ReadHolds ==
  ASSUME TimelineInv, NEW r \in Readers, Read(r)
  PROVE  TimelineInv' /\ Len(facts') = Len(facts)
<1> PICK old \in Places : old = reader[r]
  BY DEF TimelineInv, TimelineType
<1> PICK top : top = NextCursor
  OBVIOUS
<1> PICK news : news = DiffSince(old.cursor)
  OBVIOUS
<1> PICK list : list = InPlace(news)
  OBVIOUS
<1> PICK place : place = [old EXCEPT !.cursor = top, !.given = @ \o list,
                                     !.kept = @ /\ old.cursor \in ActiveFacts \cup {0}]
  OBVIOUS
<1>1. facts \in Seq(Facts) /\ Len(facts) \in Nat /\ DOMAIN facts = 1..Len(facts)
  BY DEF TimelineInv, TimelineType
<1>2. /\ top \in ActiveFacts \cup {0} /\ top \in 0..Len(facts)
      /\ \A j \in ActiveFacts : j <= top
      /\ \A j \in ActiveFacts : j \in 1..Len(facts)
  BY <1>1, NewestFact DEF NextCursor, ActiveFacts, ActiveOf
<1>3. news \in SUBSET ActiveFacts
  BY DEF DiffSince
<1>4. Ascending(list, news)
  <2>1. Ascending([i \in DOMAIN facts |-> i], 1..Len(facts))
    BY <1>1, NumbersAscend
  <2>2. Ascending(list, 1..Len(facts) \cap news)
    BY <2>1, AscendingFiltered DEF InPlace
  <2>3. 1..Len(facts) \cap news = news
    BY <1>2, <1>3
  <2> QED
    BY <2>2, <2>3
<1>5. list \in Seq(Nat)
  BY <1>4 DEF Ascending
<1>6. /\ place \in Places /\ place.cursor = top /\ place.since = old.since
      /\ place.given = old.given \o list
      /\ place.kept <=> old.kept /\ old.cursor \in ActiveFacts \cup {0}
  <2>1. /\ old.cursor \in Nat /\ old.since \in Nat /\ old.given \in Seq(Nat) /\ old.kept \in BOOLEAN
        /\ old = [cursor |-> old.cursor, since |-> old.since, given |-> old.given, kept |-> old.kept]
    BY DEF Places
  <2> PICK is \in BOOLEAN : is <=> old.kept /\ old.cursor \in ActiveFacts \cup {0}
    OBVIOUS
  <2>2. place = [cursor |-> top, since |-> old.since, given |-> old.given \o list, kept |-> is]
    BY <2>1
  <2>3. top \in Nat /\ old.given \o list \in Seq(Nat)
    BY <1>2, <1>5, <2>1
  <2> QED
    BY <2>1, <2>2, <2>3 DEF Places
<1>7. reader' = [reader EXCEPT ![r] = place] /\ UNCHANGED <<backing, facts, digest, archived, disk>>
  <2>1. /\ reader' = [reader EXCEPT
                        ![r].cursor = top, ![r].given = old.given \o list,
                        ![r].kept = old.kept /\ old.cursor \in ActiveFacts \cup {0}]
        /\ UNCHANGED <<backing, facts, digest, archived, disk>>
    BY DEF Read
  <2>2. place = [old EXCEPT !.cursor = top, !.given = old.given \o list,
                            !.kept = old.kept /\ old.cursor \in ActiveFacts \cup {0}]
    OBVIOUS
  <2>3. reader \in [Readers -> Places]
    BY DEF TimelineInv, TimelineType
  <2> QED
    BY <2>1, <2>2, <2>3 DEF Places
<1>8. TimelineType'
  BY <1>6, <1>7 DEF TimelineInv, TimelineType
<1>9. Follows(place, ActiveFacts, Len(facts))
  <2> SUFFICES ASSUME place.kept
               PROVE  \E G : /\ Ascending(place.given, G)
                             /\ \A j \in G : j <= place.cursor
                             /\ \A j \in ActiveFacts :
                                  place.since < j /\ j <= place.cursor => j \in G
    BY <1>2, <1>6 DEF Follows
  <2>1. Follows(old, ActiveFacts, Len(facts)) /\ old.kept /\ old.cursor \in ActiveFacts \cup {0}
    BY <1>6 DEF TimelineInv
  <2>2. old.cursor \in 0..Len(facts)
    BY <2>1 DEF Follows
  <2>3. PICK G : /\ Ascending(old.given, G)
                 /\ \A j \in G : j <= old.cursor
                 /\ \A j \in ActiveFacts : old.since < j /\ j <= old.cursor => j \in G
    BY <2>1 DEF Follows
  <2>4. G \subseteq Nat
    BY <2>3, AscendingFacts
  <2>5. \A j \in news : old.cursor < j /\ j \in ActiveFacts /\ j \in Nat
    BY <1>2, <2>1, <2>2 DEF DiffSince
  <2>6. \A x \in G, y \in news : x < y
    BY <2>2, <2>3, <2>4, <2>5
  <2>7. Ascending(place.given, G \cup news)
    BY <1>4, <1>6, <2>3, <2>6, AscendingConcat
  <2>8. \A j \in G \cup news : j <= top
    <3>1. \A j \in news : j <= top
      BY <1>2, <2>5
    <3>2. old.cursor <= top
      BY <1>2, <2>1
    <3>3. \A j \in G : j <= top
      BY <1>2, <2>2, <2>3, <2>4, <3>2
    <3> QED
      BY <3>1, <3>3
  <2>9. ASSUME NEW j \in ActiveFacts, old.since < j PROVE j \in G \cup news
    <3>1. j \in Nat
      BY <1>2
    <3>2. CASE j <= old.cursor
      BY <2>3, <2>9, <3>2
    <3>3. CASE j > old.cursor
      BY <3>3 DEF DiffSince
    <3> QED
      BY <2>2, <3>1, <3>2, <3>3
  <2> QED
    BY <1>6, <2>7, <2>8, <2>9
<1>10. \A q \in Readers : Follows(reader[q], ActiveFacts, Len(facts))'
  <2>1. \A q \in Readers : reader'[q] = IF q = r THEN place ELSE reader[q]
    BY <1>7 DEF TimelineInv, TimelineType
  <2>2. ActiveFacts' = ActiveFacts /\ facts' = facts
    BY <1>7 DEF ActiveFacts
  <2> QED
    BY <1>9, <2>1, <2>2 DEF TimelineInv
<1> QED
  BY <1>7, <1>8, <1>10 DEF TimelineInv

\* The list of the places of some facts.
LEMMA InPlaceType ==
  ASSUME facts \in Seq(Facts), NEW P
  PROVE  InPlace(P) \in Seq(Nat)
<1>1. Len(facts) \in Nat /\ DOMAIN facts = 1..Len(facts)
  OBVIOUS
<1>2. Ascending([i \in DOMAIN facts |-> i], 1..Len(facts))
  BY <1>1, NumbersAscend
<1> QED
  BY <1>2, AscendingFiltered DEF InPlace, Ascending

LEMMA ReduceHolds ==
  ASSUME TimelineInv, ReduceTimeline
  PROVE  TimelineInv' /\ Len(facts') = Len(facts)
<1> PICK lines : lines = Filtered(Compressed, {i \in DOMAIN facts : facts[i].bytes > 0})
  OBVIOUS
<1>1. Compressed \in Seq(Nat)
  BY InPlaceType DEF Compressed, TimelineInv, TimelineType
<1>2. lines \in Seq(Nat)
  <2>1. lines \in Seq(Nat \cap {i \in DOMAIN facts : facts[i].bytes > 0})
    BY <1>1, FilteredType
  <2> QED
    BY <2>1
<1>3. Referred(archived, Compressed) \in Seq(Nat)
  <2> PICK keep : keep = ToSet(Compressed) \ ToSet(archived)
    OBVIOUS
  <2>1. Filtered(Compressed, keep) \in Seq(Nat \cap keep)
    BY <1>1, FilteredType
  <2>2. Filtered(Compressed, keep) \in Seq(Nat)
    BY <2>1
  <2> QED
    BY <2>2 DEF Referred, TimelineInv, TimelineType
<1>4. /\ digest' = digest \o lines /\ archived' = Referred(archived, Compressed)
      /\ UNCHANGED <<backing, facts, disk, reader>>
  BY DEF ReduceTimeline
<1>5. TimelineType'
  BY <1>2, <1>3, <1>4 DEF TimelineInv, TimelineType
<1>6. ASSUME NEW s \in Seq(Nat), IsPrefix(s, digest) PROVE IsPrefix(s, digest \o lines)
  BY <1>2, <1>6 DEF IsPrefix, TimelineInv, TimelineType
<1>7. backing # "memory" => IsPrefix(disk.digest, digest')
  BY <1>4, <1>6 DEF TimelineInv, TimelineType
<1>8. \A r \in Readers : Follows(reader[r], ActiveFacts, Len(facts))'
  BY <1>4 DEF TimelineInv, ActiveFacts
<1> QED
  BY <1>4, <1>5, <1>7, <1>8 DEF TimelineInv

LEMMA SaveHolds ==
  ASSUME TimelineInv, SaveState
  PROVE  TimelineInv' /\ Len(facts') = Len(facts)
<1>1. TimelineType'
  BY DEF TimelineInv, TimelineType, SaveState
<1>2. IsPrefix(digest, digest)
  BY DEF IsPrefix, TimelineInv, TimelineType
<1>3. \A r \in Readers : Follows(reader[r], ActiveFacts, Len(facts))'
  BY DEF TimelineInv, ActiveFacts, SaveState
<1> QED
  BY <1>1, <1>2, <1>3 DEF TimelineInv, SaveState

LEMMA TimelineSteps ==
  ASSUME TimelineInv, TimelineNext
  PROVE  TimelineInv' /\ FrozenIsStable
<1>1. facts \in Seq(Facts) /\ Len(facts) \in Nat /\ DOMAIN facts = 1..Len(facts)
  BY DEF TimelineInv, TimelineType
<1>2. SUFFICES (TimelineInv' /\ Len(facts') = Len(facts)) \/ (TimelineInv' /\ FrozenIsStable)
  BY <1>1 DEF FrozenIsStable
<1>3. CASE \E bytes \in Lengths, time \in Times : Add(bytes, time)
  BY <1>3, AddHolds
<1>4. CASE \E i \in DOMAIN facts : SoftDelete(i)
  BY <1>4, DeletionHolds DEF SoftDelete
<1>5. CASE \E i \in DOMAIN facts : TruncateAfter(i)
  <2> PICK i \in DOMAIN facts : TruncateAfter(i)
    BY <1>5
  <2> PICK P : P = After(i)
    OBVIOUS
  <2>1. /\ facts' = Deleted(facts, P) /\ disk' = Kept(facts')
        /\ UNCHANGED <<backing, digest, archived, reader>>
    BY DEF TruncateAfter
  <2> QED
    BY <2>1, DeletionHolds
<1>6. CASE SaveState
  BY <1>6, SaveHolds
<1>7. CASE Reopen
  <2> PICK stored : stored = disk
    OBVIOUS
  <2>1. Opened(stored) /\ backing # "memory"
    BY <1>7 DEF Reopen, Opened
  <2>2. stored \in [facts : Seq(Facts), digest : Seq(Nat), archived : Seq(Nat)]
    BY DEF TimelineInv, TimelineType
  <2>3. stored.facts = facts
    BY <2>1 DEF TimelineInv
  <2> QED
    BY <2>1, <2>2, <2>3, OpenedHolds
<1>8. CASE \E i \in DOMAIN facts : DieInTruncation(i)
  <2>1. PICK P : Opened(Kept(Deleted(facts, P)))
    BY <1>8 DEF DieInTruncation
  <2> PICK fs : fs = Deleted(facts, P)
    OBVIOUS
  <2>2. fs \in Seq(Facts) /\ Len(fs) = Len(facts)
    BY <1>1, DeletedFacts
  <2> PICK stored : stored = Kept(fs)
    OBVIOUS
  <2>3. Opened(stored) /\ backing # "memory"
    BY <2>1 DEF Opened
  <2>4. /\ stored \in [facts : Seq(Facts), digest : Seq(Nat), archived : Seq(Nat)]
        /\ stored.facts = fs
    BY <2>2, <2>3, KeptFacts
  <2> QED
    BY <2>2, <2>3, <2>4, OpenedHolds
<1>9. CASE \E r \in Readers : Read(r)
  BY <1>9, ReadHolds
<1>10. CASE ReduceTimeline
  BY <1>10, ReduceHolds
<1> QED
  BY <1>3, <1>4, <1>5, <1>6, <1>7, <1>8, <1>9, <1>10 DEF TimelineNext

\* Whatever is added, marked, truncated, reduced, kept and opened again, and wherever a process
\* dies: a reader whose place is kept is given each fact once and misses none, the prompt shows
\* the active facts and no other, a durable store is what its callers were told, and a fact that
\* is later than all others leaves the frozen blocks as they are.
THEOREM FactsArrive == TimelineSpec => FactsReachTheirReaders
<1>1. TimelineInv /\ [TimelineNext]_timelineVars => TimelineInv'
  <2>1. TimelineInv /\ UNCHANGED timelineVars => TimelineInv'
    BY DEF TimelineInv, TimelineType, timelineVars, ActiveFacts
  <2> QED
    BY <2>1, TimelineSteps
<1>2. TimelineInv /\ [TimelineNext]_timelineVars => [FrozenIsStable]_timelineVars
  BY TimelineSteps
<1>3. TimelineInv => EachFactOnce /\ FactsAreShown
  BY InvShows
<1> QED
  BY <1>1, <1>2, <1>3, TimelineStarts, PTL DEF TimelineSpec, FactsReachTheirReaders
=============================================================================
