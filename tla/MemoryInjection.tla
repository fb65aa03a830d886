-------------------------- MODULE MemoryInjection --------------------------
(***************************************************************************)
(* Which recalled memories reach the prompt, and under which heading:      *)
(* build_memory_injection in src/agent_core/memory.py.  Scores are whole   *)
(* percents.                                                               *)
(***************************************************************************)
EXTENDS Integers, Sequences, FiniteSets, Functions, Lists

CONSTANTS
  Profiles,      \* scores of hits: records of percents by Scored
  MaxHits,       \* bound of the model: hits of one recall
  MaxTotal, MaxPerRoute, MinUtility

Scored == <<"sim", "c", "o", "r", "e", "p", "a", "t">>
Intents == {"generic", "fact_check", "advice", "emotional", "brainstorm"}
Routes == {"must_aware", "action_tips", "reliability_warning", "context", "connection_links",
           "emotional_context"}

ASSUME InjectionAssumption ==
  /\ Profiles \subseteq [Range(Scored) -> Nat]
  /\ MaxTotal \in Nat \ {0} /\ MaxPerRoute \in Nat \ {0} /\ MinUtility \in Nat

VARIABLE injection

\* _memory_intent_weights
Weights(intent) ==
  CASE intent = "fact_check" -> [sim |-> 45, o |-> 32, r |-> 22, t |-> 16]
    [] intent = "advice"     -> [sim |-> 42, a |-> 30, p |-> 22, r |-> 18]
    [] intent = "emotional"  -> [sim |-> 35, e |-> 38, p |-> 24, r |-> 12]
    [] intent = "brainstorm" -> [sim |-> 35, c |-> 34, r |-> 24, a |-> 10]
    [] OTHER -> [sim |-> 40, r |-> 20, c |-> 14, t |-> 12, a |-> 12, p |-> 8, o |-> 8]

WeightOf(key, intent) == IF key \in DOMAIN Weights(intent) THEN Weights(intent)[key] ELSE 0

\* _memory_injection_candidate: the weighted sum, clamped.
Utility(hit, intent) ==
  LET sum == Summed([k \in DOMAIN Scored |-> WeightOf(Scored[k], intent) * hit[Scored[k]]]) \div 100
  IN IF sum > 100 THEN 100 ELSE sum

\* _memory_route_order
RouteOrder(intent) ==
  CASE intent = "advice" -> <<"action_tips", "must_aware", "reliability_warning", "context",
                              "connection_links", "emotional_context">>
    [] intent = "fact_check" -> <<"reliability_warning", "must_aware", "context",
                                  "action_tips", "connection_links", "emotional_context">>
    [] intent = "emotional" -> <<"emotional_context", "must_aware", "context",
                                 "reliability_warning", "action_tips", "connection_links">>
    [] intent = "brainstorm" -> <<"connection_links", "context", "must_aware", "action_tips",
                                  "reliability_warning", "emotional_context">>
    [] OTHER -> <<"must_aware", "action_tips", "reliability_warning", "context",
                  "connection_links", "emotional_context">>

\* The thresholds of _memory_injection_route.
Fits(hit, route, intent) ==
  CASE route = "action_tips" -> hit.a >= 78 /\ hit.r >= 35
    [] route = "must_aware" -> \/ hit.r >= 70 /\ hit.p >= 55
                               \/ hit.p >= 82 /\ hit.r >= 35
    [] route = "reliability_warning" -> hit.r >= 62 /\ hit.o <= 42
    [] route = "emotional_context" -> hit.e >= 55 /\ (intent = "emotional" \/ hit.r >= 45)
    [] route = "connection_links" -> hit.c >= 70 /\ hit.r >= 30
    [] OTHER -> FALSE

\* _memory_injection_route: the first that fits in the intent's order, or plain context.
RouteOf(hit, intent) ==
  LET order == Filtered(RouteOrder(intent), {route \in Routes : Fits(hit, route, intent)})
  IN IF order = << >> THEN "context" ELSE Head(order)

\* Candidates in the order of the hits.
CandidatesByHit(hits, intent) ==
  [i \in DOMAIN hits |-> [hit |-> hits[i], utility |-> Utility(hits[i], intent), index |-> i,
                          route |-> RouteOf(hits[i], intent)]]

\* Candidates by utility; equal ones by route and source, here the order of the hits.
UtilityKeys(candidates) == [i \in DOMAIN candidates |-> <<-candidates[i].utility, i>>]
Candidates(hits, intent) ==
  LET all == CandidatesByHit(hits, intent)
      order == SortedBy(DOMAIN all, UtilityKeys(all))
  IN [k \in DOMAIN order |-> all[order[k]]]

\* The inner loop of build_memory_injection: what one route takes of the room left.
Useful(candidates, route) ==
  {c \in Range(candidates) : c.route = route /\ c.utility >= MinUtility}
TakenOf(candidates, route, room) ==
  FirstOf(room, FirstOf(MaxPerRoute, Filtered(candidates, Useful(candidates, route))))

\* The outer loop: a route takes of what those before it left.
WithRoute(candidates, route, chosen) ==
  chosen \o TakenOf(candidates, route, MaxTotal - Len(chosen))
Chosen(candidates, intent) ==
  LET order == RouteOrder(intent)
      chosen[n \in 0..Len(order)] ==
        IF n = 0 THEN << >> ELSE WithRoute(candidates, order[n], chosen[n - 1])
  IN chosen[Len(order)]

NoInjection == [intent |-> "generic", hits |-> << >>, selected |-> << >>]

InjectionInit == injection = NoInjection

\* A recall adds a hit, and the injection is built anew.
Recall(hit, intent) ==
  /\ Len(injection.hits) < MaxHits
  /\ LET hits == Append(injection.hits, hit)
     IN \E candidates \in {Candidates(hits, intent)} :
          injection' = [intent |-> intent, hits |-> hits, selected |-> Chosen(candidates, intent)]

InjectionNext == \E hit \in Profiles, intent \in Intents : Recall(hit, intent)

InjectionSpec == InjectionInit /\ [][InjectionNext]_injection

-----------------------------------------------------------------------------
(* Properties.                                                              *)

\* A memory is left out of the prompt for a reason only: it is not useful enough, or the
\* memories of its heading fill the heading, or more urgent ones fill the prompt; and in
\* each case those are no less useful under the same heading.
LeftOutForAReason ==
  LET intent == injection.intent
      all == Range(Candidates(injection.hits, intent))
      selected == Range(injection.selected)
      rank(route) == CHOOSE i \in 1 .. 6 : RouteOrder(intent)[i] = route
  IN \A c \in all \ selected :
       \/ c.utility < MinUtility
       \/ /\ Cardinality({d \in selected : d.route = c.route}) = MaxPerRoute
          /\ \A d \in selected : d.route = c.route => d.utility >= c.utility
       \/ /\ Cardinality(selected) = MaxTotal
          /\ \A d \in selected : \/ rank(d.route) < rank(c.route)
                                 \/ d.route = c.route /\ d.utility >= c.utility

\* What hardly matches the query is never put under a heading that asks to act on it; only
\* a recall for an emotional turn takes it for more than context.
IrrelevantIsContext ==
  \A i \in DOMAIN injection.selected :
    LET c == injection.selected[i]
    IN /\ c.utility >= MinUtility
       /\ c.hit.r < 30 => \/ c.route = "context"
                          \/ c.route = "emotional_context" /\ injection.intent = "emotional"

\* What a turn is shown of the memories that were recalled: the two properties above.
RecallIsUseful == LeftOutForAReason /\ IrrelevantIsContext
=============================================================================
