---------------------------- MODULE PromptBudget ----------------------------
(***************************************************************************)
(* How a turn's prompt is fitted to its budget: ContextInjectionPolicy and *)
(* AgentPromptBuilder of src/agent_core/context.py, then the bucket budget,*)
(* the semantic reducer and trim_to_budget of src/agent_core/prompt.py, in *)
(* the order of before_model_call in runner.py.                            *)
(*                                                                         *)
(* Content is a sequence of paragraphs, each a number of bytes in coarse   *)
(* units; an injection is a paragraph with a header.  What a cut leaves of *)
(* white space at its edges is not modelled, and a header that is cut is   *)
(* no header any more.                                                     *)
(***************************************************************************)
EXTENDS Integers, Sequences, FiniteSets, Functions, Lists

CONSTANTS
  Bases,         \* contents of the buckets: functions from roles to paragraphs
  Injections,    \* what a turn injects: [name, target, priority, body]
  MaxInjections, \* bound of the model
  MaxInjection, MaxTotalInjected, AllowedTargets, \* ContextInjectionPolicy
  BucketRules,   \* PromptBucketBudgetPolicy: role -> [max, keep, protected]
  PromptTargets, \* target_prompt_bytes
  Marker, Wrapper, Header, Gap \* sizes of what is put around and between contents

\* PROMPT_BUCKET_ORDER, and DEFAULT_PROMPT_TRIM_ORDER.
Roles == {"high_static", "frozen", "semi_dynamic_1", "semi_dynamic_2", "timeline_open", "dynamic"}
TrimOrder == <<"timeline_open", "semi_dynamic_1", "dynamic", "semi_dynamic_2", "frozen",
               "high_static">>

\* A paragraph: of an injection, or without a name.
NoName == ""
Paragraphs == [name : {NoName} \cup {injection.name : injection \in Injections}, body : Nat, score : Nat]

ASSUME PromptAssumption ==
  /\ Marker \in Nat /\ Wrapper \in Nat /\ Header \in Nat \ {0} /\ Gap \in 1 .. Marker
  /\ MaxInjection \in Nat /\ MaxTotalInjected \in Nat /\ PromptTargets \subseteq Nat
  /\ Bases \subseteq [Roles -> Seq(Paragraphs)]
  /\ \A injection \in Injections : injection.body \in Nat /\ injection.priority \in Int
  /\ \A role \in DOMAIN BucketRules :
       BucketRules[role].max \in Nat /\ BucketRules[role].keep \in 0 .. BucketRules[role].max

VARIABLE prompt

\* Stable buckets first.
StableFirst == [i \in 1 .. 6 |-> TrimOrder[7 - i]]

\* The order trim_plan sorts the rules in.
Planned == TrimOrder

TrimProtected == {"high_static", "frozen", "dynamic"}
ReduceProtected == {"high_static", "dynamic"}

Larger(a, b) == IF a >= b THEN a ELSE b
Smaller(a, b) == IF a <= b THEN a ELSE b

-----------------------------------------------------------------------------
(* Contents.                                                                *)

Plain(bytes) == [name |-> NoName, body |-> bytes, score |-> 0]
IsInjection(part) == part.name # NoName
HasInjection(content) == \E i \in DOMAIN content : IsInjection(content[i])

\* Bytes of a paragraph; a header ends in a line break.
PartSize(part) ==
  IF ~IsInjection(part) THEN part.body
  ELSE IF part.body = 0 THEN Header ELSE Header + 1 + part.body
SizeOfContent(content) ==
  IF content = << >> THEN 0
  ELSE Summed([i \in DOMAIN content |-> PartSize(content[i]) + Gap]) - Gap

\* PromptIR.render: the buckets that have contents, wrapped.
Rendered(buckets) ==
  LET width(role) == IF buckets[role] = << >> THEN 0
                     ELSE SizeOfContent(buckets[role]) + Wrapper + Gap
      total == Summed([i \in DOMAIN TrimOrder |-> width(TrimOrder[i])])
  IN IF total = 0 THEN 0 ELSE total - Gap

\* _take_utf8_prefix of contents joined, one part after the other.
PrefixWith(acc, part, most) ==
  LET room == most - SizeOfContent(acc.kept) - (IF acc.kept = << >> THEN 0 ELSE Gap)
      cut == IF ~IsInjection(part) \/ room < Header THEN Plain(room)
             ELSE [part EXCEPT !.body = Larger(0, room - Header - 1)]
  IN IF acc.full \/ room <= 0 THEN [kept |-> acc.kept, full |-> TRUE]
     ELSE IF PartSize(part) <= room THEN [kept |-> Append(acc.kept, part), full |-> FALSE]
     ELSE [kept |-> Append(acc.kept, cut), full |-> TRUE]
PrefixOf(content, most) ==
  LET prefix[n \in 0..Len(content)] ==
        IF n = 0 THEN [kept |-> << >>, full |-> FALSE]
        ELSE PrefixWith(prefix[n - 1], content[n], most)
  IN prefix[Len(content)].kept

\* _trim_text_unit_to_bytes: a head and a tail of at least a byte around the marker.
UnitTrimmed(bytes, most) ==
  IF bytes <= most THEN bytes
  ELSE IF most <= Marker THEN most
  ELSE Marker + Larger(2, most - Marker)

\* _trim_context_injection_bucket_content: headers stay, bodies share what is left.
SplitTrimmed(content, most) ==
  LET injected == Filtered(content, {part \in Range(content) : IsInjection(part)})
      plain == Filtered(content, {part \in Range(content) : ~IsInjection(part)})
      parts == (IF plain = << >> THEN << >> ELSE <<Plain(SizeOfContent(plain))>>) \o injected
      share == Larger(0, most - Len(injected) * (Header + 1)) \div Len(parts)
      cut == [i \in DOMAIN parts |-> [parts[i] EXCEPT !.body = UnitTrimmed(@, share)]]
      kept == Filtered(cut, {part \in Range(cut) : IsInjection(part) \/ part.body > 0})
  IN IF SizeOfContent(kept) <= most THEN kept ELSE PrefixOf(kept, most)

\* A cut that does not count its marker.
WantedWithoutMarker(size, overage) == size - Larger(1, overage)

\* What is to be left, so that the marker fits in.
Wanted(size, overage) == size - Larger(1, overage) - Marker

\* _trim_bucket_content
Trimmed(content, overage, keep) ==
  LET size == SizeOfContent(content)
      wanted == IF keep > 0 /\ size > keep THEN Larger(Wanted(size, overage), keep)
                ELSE Wanted(size, overage)
  IN IF content = << >> \/ wanted <= 0 THEN << >>
     ELSE IF wanted >= size THEN content
     ELSE IF HasInjection(content) THEN SplitTrimmed(content, wanted)
     ELSE <<Plain(Larger(2, wanted) + Marker)>>

-----------------------------------------------------------------------------
(* Injections.                                                              *)

\* _ordered_injections: by priority; names and targets break ties, here their number.
InjectionOrder(injections) ==
  SortedBy(DOMAIN injections, [i \in DOMAIN injections |-> <<-injections[i].priority, i>>])

Decision(injection, status, bytes) ==
  [injection |-> injection, status |-> status, bytes |-> bytes]

TotalOf(decisions) == Summed([i \in DOMAIN decisions |-> decisions[i].bytes])

\* A policy that does not count what it trimmed.
SpentUntrimmed(decisions) ==
  TotalOf(Filtered(decisions, {d \in Range(decisions) : d.status = "included"}))

\* total_bytes
Spent(decisions) == TotalOf(decisions)

\* The loop of ContextInjectionPolicy.apply, for one injection.
Govern(decisions, injection) ==
  LET each == Smaller(injection.body, MaxInjection)
      rest == MaxTotalInjected - Spent(decisions)
      status == IF each < injection.body \/ each > rest THEN "trimmed" ELSE "included"
  IN Append(decisions,
       IF AllowedTargets # {} /\ injection.target \notin AllowedTargets
       THEN Decision(injection, "target_denied", 0)
       ELSE IF injection.body = 0 THEN Decision(injection, "empty", 0)
       ELSE IF each > rest /\ rest <= 0 THEN Decision(injection, "total_budget_exceeded", 0)
       ELSE Decision(injection, status, Smaller(each, rest)))

InjectionDecisions(injections) ==
  LET order == InjectionOrder(injections)
      governed[n \in 0..Len(order)] ==
        IF n = 0 THEN << >> ELSE Govern(governed[n - 1], injections[order[n]])
  IN governed[Len(order)]

\* AgentPromptBuilder.build: each bucket's own content, then what is injected into it.
Built(base, decisions) ==
  [role \in Roles |->
     LET into == Filtered(decisions, {d \in Range(decisions) :
                                        d.bytes > 0 /\ d.injection.target = role})
     IN base[role] \o [i \in DOMAIN into |->
                        [name |-> into[i].injection.name, body |-> into[i].bytes, score |-> 1]]]

-----------------------------------------------------------------------------
(* Reductions.                                                              *)

\* PromptBucketBudgetPolicy.apply
BucketsBudgeted(buckets) ==
  [role \in Roles |->
     IF \/ role \notin DOMAIN BucketRules
        \/ BucketRules[role].protected
        \/ SizeOfContent(buckets[role]) <= BucketRules[role].max
     THEN buckets[role]
     ELSE Trimmed(buckets[role], SizeOfContent(buckets[role]) - BucketRules[role].max,
                  BucketRules[role].keep)]

\* _render_semantic_units: a marker for each run of units left out behind the first kept.
UnitsRendered(content, kept) ==
  LET mark == Plain(Marker - Gap)
      marked(parts, n) == IF n > 0 /\ n \notin kept THEN Append(parts, mark) ELSE parts
      done[n \in 0..Len(content)] ==
        IF n = 0 THEN << >>
        ELSE IF n \notin kept THEN done[n - 1]
        ELSE Append(IF done[n - 1] = << >> THEN << >> ELSE marked(done[n - 1], n - 1), content[n])
  IN marked(done[Len(content)], Len(content))

\* The greedy choice of units by overlap with the task, the later of equals first.
UnitsKept(content, most) ==
  LET order == SortedBy(DOMAIN content, [i \in DOMAIN content |-> <<-content[i].score, -i>>])
      used(kept) == Summed([i \in DOMAIN content |-> IF i \in kept THEN PartSize(content[i]) ELSE 0])
      fits(kept, i) == used(kept) < most /\ (kept = {} \/ used(kept) + PartSize(content[i]) <= most)
      chosen[n \in 0..Len(order)] ==
        IF n = 0 THEN {Head(order)}
        ELSE IF fits(chosen[n - 1], order[n]) THEN chosen[n - 1] \cup {order[n]} ELSE chosen[n - 1]
  IN chosen[Len(order)]

\* _semantic_trim_bucket_content: what is left, and whether only the best unit is.
Reduced(content, overage, terms) ==
  LET size == SizeOfContent(content)
      most == Wanted(size, overage)
      kept == UnitsRendered(content, UnitsKept(content, most))
      sound == IF SizeOfContent(kept) > size THEN Trimmed(content, overage, 0) ELSE kept
  IN IF Len(content) <= 1 \/ ~terms
     THEN [content |-> Trimmed(content, overage, 0), last |-> FALSE]
     ELSE IF HasInjection(content)
     THEN [content |-> SplitTrimmed(content, Larger(1, most)), last |-> FALSE]
     ELSE IF most <= 0 THEN [content |-> kept, last |-> TRUE]
     ELSE [content |-> IF SizeOfContent(sound) > most + Marker
                       THEN Trimmed(sound, SizeOfContent(sound) - Larger(1, most), 0) ELSE sound,
           last |-> FALSE]

\* DefaultPromptSemanticReducer.reduce
ReducedAt(acc, role, target, terms) ==
  LET overage == Rendered(acc.buckets) - target
      reduced == Reduced(acc.buckets[role], overage, terms)
  IN IF acc.last \/ overage <= 0 \/ acc.buckets[role] = << >> \/ role \in ReduceProtected
     THEN acc
     ELSE [buckets |-> [acc.buckets EXCEPT ![role] = reduced.content], last |-> reduced.last]
SemanticallyReduced(buckets, target, terms) ==
  LET after[n \in 0..Len(TrimOrder)] ==
        IF n = 0 THEN [buckets |-> buckets, last |-> FALSE]
        ELSE ReducedAt(after[n - 1], TrimOrder[n], target, terms)
  IN after[Len(TrimOrder)].buckets

\* PromptIR.trim_to_budget
TrimmedAt(buckets, role, target) ==
  LET overage == Rendered(buckets) - target
  IN IF overage <= 0 \/ HasInjection(buckets[role]) \/ role \in TrimProtected THEN buckets
     ELSE [buckets EXCEPT ![role] = Trimmed(@, overage, 0)]
TrimmedToBudget(buckets, target) ==
  LET after[n \in 0..Len(Planned)] ==
        IF n = 0 THEN buckets ELSE TrimmedAt(after[n - 1], Planned[n], target)
  IN after[Len(Planned)]

-----------------------------------------------------------------------------
(* A turn's prompt.                                                         *)

NoPrompt == [at |-> "collecting", injections |-> << >>, decisions |-> << >>,
             buckets |-> [role \in Roles |-> << >>], before |-> [role \in Roles |-> << >>],
             target |-> 0]

PromptInit == prompt = NoPrompt

\* AgentContextPack.with_injection
Inject(injection) ==
  /\ prompt.at = "collecting" /\ Len(prompt.injections) < MaxInjections
  /\ prompt' = [prompt EXCEPT !.injections = Append(@, injection)]

Build(base, target) ==
  /\ prompt.at = "collecting"
  /\ LET decisions == InjectionDecisions(prompt.injections)
     IN prompt' = [prompt EXCEPT !.at = "built", !.decisions = decisions, !.target = target,
                                 !.buckets = Built(base, decisions)]

\* The session may have no bucket policy; then the next stage begins at once.
ApplyBucketBudget ==
  /\ prompt.at = "built"
  /\ prompt' = [prompt EXCEPT !.at = "budgeted", !.buckets = BucketsBudgeted(@)]

\* The session may have no reducer.
Reduce(terms) ==
  /\ prompt.at \in {"built", "budgeted"}
  /\ prompt' = [prompt EXCEPT !.at = "reduced",
                              !.buckets = SemanticallyReduced(@, prompt.target, terms)]

TrimToBudget ==
  /\ prompt.at \in {"built", "budgeted", "reduced"}
  /\ prompt' = [prompt EXCEPT !.at = "trimmed", !.before = prompt.buckets,
                              !.buckets = TrimmedToBudget(@, prompt.target)]

PromptNext ==
  \/ \E injection \in Injections : Inject(injection)
  \/ \E base \in Bases, target \in PromptTargets : Build(base, target)
  \/ ApplyBucketBudget
  \/ \E terms \in BOOLEAN : Reduce(terms)
  \/ TrimToBudget

PromptSpec == PromptInit /\ [][PromptNext]_prompt

-----------------------------------------------------------------------------
(* Properties.                                                              *)

\* A bucket that trim_to_budget may trim.
Trimmable(role) == role \notin TrimProtected /\ ~HasInjection(prompt.before[role])
Exhausted(role) == SizeOfContent(prompt.buckets[role]) <= 2 + Marker

\* A prompt is over its budget only when nothing is left to trim, and a bucket is touched
\* only when what is more volatile is used up: the last cut of a turn ends exactly at the
\* budget, or goes on.
VolatileTrimmedFirst ==
  prompt.at = "trimmed" =>
    /\ Rendered(prompt.buckets) > prompt.target =>
         \A role \in Roles : Trimmable(role) => Exhausted(role)
    /\ \A i, j \in DOMAIN TrimOrder :
         (i < j /\ prompt.buckets[TrimOrder[j]] # prompt.before[TrimOrder[j]]
               /\ Trimmable(TrimOrder[i]))
           => Exhausted(TrimOrder[i])

\* A bucket's rule lets the marker fit in beside what it keeps; the code asks only that it
\* keeps no more than the bucket may have.
LeavesRoom(role) ==
  role \in DOMAIN BucketRules => BucketRules[role].keep + Marker <= BucketRules[role].max

\* The last cut never makes a bucket or the prompt longer, whatever its markers add, nor does
\* the bucket budget where the rules leave room for the marker; a bucket whose rule leaves none
\* grows by the marker at most.  The reducer may make a prompt longer, when the one unit it
\* keeps and its marker outweigh the others.
CutsNeverGrow ==
  (prompt.at # "collecting" /\ prompt'.at # "reduced") =>
    /\ \A role \in Roles :
         \/ SizeOfContent(prompt'.buckets[role]) <= SizeOfContent(prompt.buckets[role])
         \/ /\ prompt'.at = "budgeted" /\ ~LeavesRoom(role)
            /\ SizeOfContent(prompt'.buckets[role]) <= SizeOfContent(prompt.buckets[role]) + Marker
    /\ (prompt'.at = "trimmed" \/ \A role \in Roles : LeavesRoom(role))
         => Rendered(prompt'.buckets) <= Rendered(prompt.buckets)

\* What is injected stays within the policy, however much of each was cut, and room goes to
\* the more urgent: none is left out for the total while a less urgent one is in.
InjectedByUrgency ==
  prompt.at # "collecting" =>
    LET d == prompt.decisions
    IN /\ TotalOf(d) <= MaxTotalInjected
       /\ \A i \in DOMAIN d : d[i].bytes <= MaxInjection
       /\ \A i, j \in DOMAIN d :
            (d[i].status = "total_budget_exceeded" /\ d[j].bytes > 0)
              => d[j].injection.priority >= d[i].injection.priority

\* A prompt that is too long loses its most volatile parts first, and no injection grows as
\* it is cut: what each step of a turn comes to satisfies the three above.
TrimmedInOrder == [][VolatileTrimmedFirst' /\ InjectedByUrgency' /\ CutsNeverGrow]_prompt
=============================================================================
