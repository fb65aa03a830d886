--------------------------- MODULE ProviderProofs ---------------------------
(* Theorems of ProviderCenter, for every number of tasks, providers and    *)
(* retries and every limit, and of ProviderCodec, for streams of any       *)
(* length.                                                                 *)
EXTENDS ProviderCenter, ProviderCodec, SequenceTheorems, ListLemmas

-----------------------------------------------------------------------------
(* What the records and the tasks are made of, as far as counting needs it. *)

Fields == {"pc", "request", "streamed", "plan", "left", "attempt"}

Countable ==
  /\ \E S : calls \in Seq(S)
  /\ DOMAIN task = Tasks /\ \A t \in Tasks : DOMAIN task[t] = Fields

Counting == Countable /\ AttemptsNearLimit

LEMMA SomeOfTasks ==
  ASSUME NEW some \in SUBSET Tasks
  PROVE  /\ IsFiniteSet(some) /\ Cardinality(some) \in Nat
         /\ Cardinality(Tasks) \in Nat /\ Cardinality(some) <= Cardinality(Tasks)
<1>1. IsFiniteSet(Tasks)  BY ProviderAssumption
<1> QED  BY <1>1, FS_Subset, FS_CardinalityType

LEMMA RecordAppended ==
  ASSUME Countable, NEW record, calls' = Append(calls, record)
  PROVE  (\E S : calls' \in Seq(S)) /\ Len(calls') <= Len(calls) + 1
<1>1. PICK S : calls \in Seq(S)  BY DEF Countable
<1>2. calls \in Seq(S \cup {record})  BY <1>1
<1>3. calls' \in Seq(S \cup {record}) /\ Len(calls') = Len(calls) + 1  BY <1>2
<1>4. Len(calls) \in Nat  BY <1>2
<1> QED  BY <1>3, <1>4

LEMMA TasksShape ==
  ASSUME Countable, NEW t \in Tasks, NEW next, DOMAIN next = Fields,
         task' = [task EXCEPT ![t] = next]
  PROVE  /\ DOMAIN task' = Tasks /\ \A u \in Tasks : DOMAIN task'[u] = Fields
         /\ task'[t] = next /\ \A u \in Tasks \ {t} : task'[u] = task[u]
  BY DEF Countable

-----------------------------------------------------------------------------
(* A task that stops waiting makes room for one record.                     *)
LEMMA OneLessWaiting ==
  ASSUME Countable, NEW t \in Tasks, task[t].pc = "waiting", task'[t].pc # "waiting",
         \A u \in Tasks \ {t} : task'[u] = task[u]
  PROVE  Cardinality(Waiting') = Cardinality(Waiting) - 1
<1>1. Waiting' = Waiting \ {t} /\ t \in Waiting  BY DEF Waiting
<1>2. Waiting \in SUBSET Tasks  BY DEF Waiting
<1> QED  BY <1>1, <1>2, SomeOfTasks, FS_RemoveElement

LEMMA NoneWaitsMore ==
  ASSUME NEW t \in Tasks, task[t].pc # "waiting", task'[t].pc # "waiting",
         \A u \in Tasks \ {t} : task'[u] = task[u]
  PROVE  Waiting' = Waiting
  BY DEF Waiting

(* An attempt begins only while the records leave a call: with every other  *)
(* task waiting as well, that is still within the bound.                    *)
LEMMA BeginningIsNear ==
  ASSUME Countable', ~NoCallLeft(calls')
  PROVE  AttemptsNearLimit'
<1> SUFFICES ASSUME MaxCallAttempts # None
             PROVE  Len(calls') + Cardinality(Waiting') <= MaxCallAttempts + Cardinality(Tasks) - 1
  BY DEF AttemptsNearLimit
<1>1. MaxCallAttempts \in Nat /\ ~(Len(calls') + 1 > MaxCallAttempts)
  BY ProviderAssumption DEF NoCallLeft, Bound
<1>2. Len(calls') \in Nat  BY DEF Countable
<1>3. /\ Cardinality(Waiting') \in Nat /\ Cardinality(Tasks) \in Nat
      /\ Cardinality(Waiting') <= Cardinality(Tasks)
  <2>1. Waiting' \in SUBSET Tasks  BY DEF Waiting
  <2> QED  BY <2>1, SomeOfTasks
<1> QED  BY <1>1, <1>2, <1>3

LEMMA EndsShape ==
  ASSUME Countable, NEW t \in Tasks, NEW outcome, outcome # "waiting", Ends(t, outcome)
  PROVE  /\ DOMAIN task' = Tasks /\ \A u \in Tasks : DOMAIN task'[u] = Fields
         /\ task'[t].pc # "waiting" /\ \A u \in Tasks \ {t} : task'[u] = task[u]
<1> DEFINE next == [task[t] EXCEPT !.pc = outcome, !.left = << >>]
<1>1. task' = [task EXCEPT ![t] = next]  BY DEF Ends
<1>2. DOMAIN next = Fields /\ next.pc = outcome  BY DEF Countable, Fields
<1> HIDE DEF next
<1> QED  BY <1>1, <1>2, TasksShape

(* An attempt that is refused leaves its task as one that ended.            *)
LEMMA AttemptsShape ==
  ASSUME Countable, NEW t \in Tasks, NEW state, DOMAIN state = Fields, NEW records,
         Attempts(t, state, records)
  PROVE  /\ DOMAIN task' = Tasks /\ \A u \in Tasks : DOMAIN task'[u] = Fields
         /\ \A u \in Tasks \ {t} : task'[u] = task[u]
         /\ NoCallLeft(records) => task'[t].pc # "waiting"
<1> DEFINE refused == [state EXCEPT !.pc = "over_budget", !.left = << >>]
           begun == [state EXCEPT !.pc = "waiting"]
<1>1. DOMAIN refused = Fields /\ DOMAIN begun = Fields /\ refused.pc = "over_budget"
  BY DEF Fields
<1>2. task' = [task EXCEPT ![t] = IF NoCallLeft(records) THEN refused ELSE begun]
  BY DEF Attempts
<1> HIDE DEF refused, begun
<1> QED  BY <1>1, <1>2, TasksShape

-----------------------------------------------------------------------------
(* Each action.                                                             *)

LEMMA CallKeeps ==
  ASSUME Counting, NEW t \in Tasks, NEW r, NEW streamed, Call(t, r, streamed)
  PROVE  Counting'
<1> DEFINE state == [Absent EXCEPT !.request = r, !.streamed = streamed, !.attempt = 1,
                                   !.plan = Plan(r, streamed), !.left = CandidatesOf(r, streamed)]
           ended(outcome) == [state EXCEPT !.pc = outcome]
           dropped == [state EXCEPT !.pc = "over_budget", !.left = << >>]
<1>1. /\ DOMAIN state = Fields
      /\ DOMAIN dropped = Fields /\ dropped.pc = "over_budget"
      /\ DOMAIN ended("not_found") = Fields /\ ended("not_found").pc = "not_found"
  BY DEF Absent, Fields
<1>2. /\ task[t].pc = "idle" /\ calls' = calls
      /\ \/ task' = [task EXCEPT ![t] = dropped]
         \/ task' = [task EXCEPT ![t] = ended("not_found")]
         \/ Attempts(t, state, calls)
  BY DEF Call
<1> HIDE DEF state, ended, dropped
<1>3. /\ DOMAIN task' = Tasks /\ \A u \in Tasks : DOMAIN task'[u] = Fields
      /\ \A u \in Tasks \ {t} : task'[u] = task[u]
      /\ NoCallLeft(calls) \/ ~Attempts(t, state, calls) => task'[t].pc # "waiting"
  BY <1>1, <1>2, AttemptsShape, TasksShape DEF Counting
<1>4. Countable'  BY <1>2, <1>3 DEF Counting, Countable
<1>5. CASE task'[t].pc = "waiting"
  BY <1>2, <1>3, <1>4, <1>5, BeginningIsNear DEF Counting
<1>6. CASE task'[t].pc # "waiting"
  <2>1. Waiting' = Waiting  BY <1>2, <1>3, <1>6, NoneWaitsMore
  <2> QED  BY <1>2, <1>4, <2>1 DEF Counting, AttemptsNearLimit
<1> QED  BY <1>5, <1>6

(* A record for a task that waits no more leaves the sum as it was.         *)
LEMMA RecordForWaiting ==
  ASSUME Counting, Countable', NEW t \in Tasks, task[t].pc = "waiting",
         task'[t].pc # "waiting", \A u \in Tasks \ {t} : task'[u] = task[u],
         Len(calls') <= Len(calls) + 1
  PROVE  Counting'
<1>1. Cardinality(Waiting') = Cardinality(Waiting) - 1  BY OneLessWaiting DEF Counting
<1>2. Cardinality(Waiting) \in Nat /\ Cardinality(Tasks) \in Nat
  <2>1. Waiting \in SUBSET Tasks  BY DEF Waiting
  <2> QED  BY <2>1, SomeOfTasks
<1>3. Len(calls) \in Nat /\ Len(calls') \in Nat  BY DEF Counting, Countable
<1>4. MaxCallAttempts # None => MaxCallAttempts \in Nat
  BY ProviderAssumption DEF Bound
<1> QED  BY <1>1, <1>2, <1>3, <1>4 DEF Counting, AttemptsNearLimit

LEMMA AnsweredKeeps ==
  ASSUME Counting, NEW t \in Tasks, NEW used, Answered(t, used)
  PROVE  Counting'
<1>1. /\ task[t].pc = "waiting"
      /\ \E outcome \in {"over_budget", "completed"} : Ends(t, outcome)
      /\ calls' = calls \/ calls' = Append(calls, Record(t, "completed", used))
  BY DEF Answered, Noted
<1>2. /\ DOMAIN task' = Tasks /\ \A u \in Tasks : DOMAIN task'[u] = Fields
      /\ task'[t].pc # "waiting" /\ \A u \in Tasks \ {t} : task'[u] = task[u]
  BY <1>1, EndsShape DEF Counting
<1>3. (\E S : calls' \in Seq(S)) /\ Len(calls') <= Len(calls) + 1
  <2>1. CASE calls' = calls  BY <2>1 DEF Counting, Countable
  <2>2. CASE calls' # calls  BY <1>1, <2>2, RecordAppended DEF Counting
  <2> QED  BY <2>1, <2>2
<1>4. Countable'  BY <1>2, <1>3 DEF Countable
<1> QED  BY <1>1, <1>2, <1>3, <1>4, RecordForWaiting

LEMMA FailedKeeps ==
  ASSUME Counting, NEW t \in Tasks, NEW error, FailedAttempt(t, error)
  PROVE  Counting'
<1> DEFINE again == [task[t] EXCEPT !.attempt = @ + 1]
           fallback == [task[t] EXCEPT !.left = Tail(@), !.attempt = 1]
<1>1. DOMAIN again = Fields /\ DOMAIN fallback = Fields
  BY DEF Counting, Countable
<1>2. /\ task[t].pc = "waiting" /\ calls' = Append(calls, Record(t, "failed", NoUsage))
      /\ \/ Attempts(t, again, calls') \/ Attempts(t, fallback, calls')
         \/ Ends(t, "failed")
  BY DEF FailedAttempt, Noted
<1> HIDE DEF again, fallback
<1>3. /\ DOMAIN task' = Tasks /\ \A u \in Tasks : DOMAIN task'[u] = Fields
      /\ \A u \in Tasks \ {t} : task'[u] = task[u]
      /\ NoCallLeft(calls') => task'[t].pc # "waiting"
  BY <1>1, <1>2, AttemptsShape, EndsShape DEF Counting
<1>4. (\E S : calls' \in Seq(S)) /\ Len(calls') <= Len(calls) + 1
  BY <1>2, RecordAppended DEF Counting
<1>5. Countable'  BY <1>3, <1>4 DEF Countable
<1>6. CASE task'[t].pc = "waiting"
  BY <1>3, <1>5, <1>6, BeginningIsNear DEF Counting
<1>7. CASE task'[t].pc # "waiting"
  BY <1>2, <1>3, <1>4, <1>5, <1>7, RecordForWaiting
<1> QED  BY <1>6, <1>7

LEMMA AbandonedKeeps ==
  ASSUME Counting, NEW t \in Tasks, Abandoned(t)
  PROVE  Counting'
<1>1. task[t].pc = "waiting" /\ Ends(t, "cut") /\ calls' = calls  BY DEF Abandoned
<1>2. /\ DOMAIN task' = Tasks /\ \A u \in Tasks : DOMAIN task'[u] = Fields
      /\ task'[t].pc # "waiting" /\ \A u \in Tasks \ {t} : task'[u] = task[u]
  BY <1>1, EndsShape DEF Counting
<1>3. Countable' /\ Len(calls') <= Len(calls) + 1
  BY <1>1, <1>2 DEF Counting, Countable
<1> QED  BY <1>1, <1>2, <1>3, RecordForWaiting

(* However many calls overlap, fail, are retried or abandoned: all of them  *)
(* together exceed the limit on attempts by one attempt for each call but   *)
(* one (_check_call_attempt_limit looks before an attempt, which is counted *)
(* when it came back).                                                      *)
THEOREM OverrunIsBounded == ProviderSpec => []AttemptsNearLimit
<1>1. ProviderInit => Counting
  <2> SUFFICES ASSUME ProviderInit PROVE Counting  OBVIOUS
  <2>1. calls \in Seq({}) /\ Len(calls) = 0  BY DEF ProviderInit
  <2>2. Countable  BY <2>1 DEF ProviderInit, Countable, Absent, Fields
  <2>3. Waiting = {} /\ Cardinality(Waiting) = 0
    BY FS_EmptySet DEF ProviderInit, Waiting, Absent
  <2>4. Cardinality(Tasks) \in Nat \ {0}
    BY ProviderAssumption, FS_EmptySet, FS_CardinalityType
  <2>5. MaxCallAttempts # None => MaxCallAttempts \in Nat
    BY ProviderAssumption DEF Bound
  <2> QED  BY <2>1, <2>2, <2>3, <2>4, <2>5 DEF Counting, AttemptsNearLimit
<1>2. Counting /\ [ProviderNext]_providerVars => Counting'
  <2> SUFFICES ASSUME Counting, [ProviderNext]_providerVars PROVE Counting'  OBVIOUS
  <2>1. ASSUME UNCHANGED <<calls, task>> PROVE Counting'
    BY <2>1 DEF Counting, Countable, AttemptsNearLimit, Waiting
  <2>2. CASE UNCHANGED providerVars  BY <2>1, <2>2 DEF providerVars
  <2>3. ASSUME NEW spec \in Registrations, RegisterProvider(spec) PROVE Counting'
    BY <2>1, <2>3 DEF RegisterProvider
  <2> QED
    BY <2>2, <2>3, CallKeeps, AnsweredKeeps, FailedKeeps, AbandonedKeeps DEF ProviderNext
<1>3. Counting => AttemptsNearLimit  BY DEF Counting
<1> QED  BY <1>1, <1>2, <1>3, PTL DEF ProviderSpec
-----------------------------------------------------------------------------
(* The order of the providers.                                              *)

\* The centre knows finitely many providers, each name once.
Registry ==
  /\ IsFiniteSet(providers)
  /\ \A a, b \in providers : a.name = b.name => a = b

LEMMA PlaceIs ==
  ASSUME NEW name \in ToSet(Alphabet)
  PROVE  Place(name) \in Nat /\ Alphabet[Place(name)] = name
<1>1. \E i \in DOMAIN Alphabet : Alphabet[i] = name
  BY DEF ToSet
<1>2. Place(name) \in DOMAIN Alphabet /\ Alphabet[Place(name)] = name
  BY <1>1 DEF Place
<1> QED
  BY <1>2, ProviderAssumption

LEMMA SoonerIsOrder ==
  ASSUME NEW a \in Registrations, NEW b \in Registrations, NEW c \in Registrations
  PROVE  /\ ~(Sooner(a, b) /\ Sooner(b, a))
         /\ Sooner(a, b) /\ Sooner(b, c) => Sooner(a, c)
         /\ a.name # b.name => Sooner(a, b) \/ Sooner(b, a)
<1>1. \A spec \in {a, b, c} : spec.name \in ToSet(Alphabet) /\ spec.priority \in Int
  BY ProviderAssumption
<1>2. \A spec \in {a, b, c} :
        Place(spec.name) \in Nat /\ Alphabet[Place(spec.name)] = spec.name
  BY <1>1, PlaceIs
<1>3. a.name # b.name => Place(a.name) # Place(b.name)
  BY <1>2
<1> HIDE DEF Place
<1> QED
  BY <1>1, <1>2, <1>3 DEF Sooner

SoonerPairs == {pair \in providers \X providers : Sooner(pair[1], pair[2])}

LEMMA SoonerOrders ==
  ASSUME Registry, providers \subseteq Registrations, NEW specs \in SUBSET providers
  PROVE  IsFiniteSet(specs) /\ Orders(SoonerPairs, specs)
<1>1. IsFiniteSet(specs)
  BY FS_Subset DEF Registry
<1>2. \A a, b \in providers : <<a, b>> \in SoonerPairs <=> Sooner(a, b)
  BY DEF SoonerPairs
<1>3. \A a, b, c \in providers : a \in Registrations /\ b \in Registrations /\ c \in Registrations
  OBVIOUS
<1>4. \A x \in specs : <<x, x>> \notin SoonerPairs
  BY <1>2, <1>3, SoonerIsOrder
<1>5. \A x, y, z \in specs :
        <<x, y>> \in SoonerPairs /\ <<y, z>> \in SoonerPairs => <<x, z>> \in SoonerPairs
  BY <1>2, <1>3, SoonerIsOrder
<1>6. \A x, y \in specs : x # y => <<x, y>> \in SoonerPairs \/ <<y, x>> \in SoonerPairs
  BY <1>2, <1>3, SoonerIsOrder DEF Registry
<1> QED
  BY <1>1, <1>4, <1>5, <1>6 DEF Orders

\* Among some providers one comes before all others.
LEMMA OneIsSoonest ==
  ASSUME Registry, providers \subseteq Registrations, NEW specs \in SUBSET providers, specs # {}
  PROVE  Soonest(specs) # {}
<1> DEFINE order == InOrder(specs, SoonerPairs)
<1>1. /\ order \in Seq(specs) /\ {order[i] : i \in DOMAIN order} = specs
      /\ \A i, j \in DOMAIN order : i < j => <<order[i], order[j]>> \in SoonerPairs
  <2>1. IsFiniteSet(specs) /\ Orders(SoonerPairs, specs)
    BY SoonerOrders
  <2> QED
    BY <2>1, InOrderIs
<1> HIDE DEF order
<1>2. DOMAIN order = 1..Len(order) /\ Len(order) \in Nat /\ 1 \in DOMAIN order
  BY <1>1
<1>3. ASSUME NEW b \in specs \ {order[1]} PROVE Sooner(order[1], b)
  <2>1. PICK i \in DOMAIN order : order[i] = b
    BY <1>1
  <2>2. 1 < i
    BY <1>2, <1>3, <2>1
  <2>3. <<order[1], b>> \in SoonerPairs
    BY <1>1, <1>2, <2>1, <2>2
  <2> QED
    BY <2>3 DEF SoonerPairs
<1>4. order[1] \in Soonest(specs)
  BY <1>1, <1>2, <1>3 DEF Soonest
<1> QED
  BY <1>4

\* The order has every provider, and each once.
LEMMA OrderedHasAll ==
  ASSUME Registry, providers \subseteq Registrations
  PROVE  /\ Ordered \in Seq(providers)
         /\ {Ordered[i] : i \in DOMAIN Ordered} = providers
         /\ \A i, j \in DOMAIN Ordered : i # j => Ordered[i] # Ordered[j]
<1>1. Ordered = InOrder(providers, SoonerPairs)
  BY DEF Ordered, SoonerPairs
<1>2. IsFiniteSet(providers) /\ Orders(SoonerPairs, providers)
  BY SoonerOrders
<1> HIDE DEF Ordered
<1> QED
  BY <1>1, <1>2, InOrderIs
-----------------------------------------------------------------------------
(* What a call tries, and the plan it carries.                              *)

FallbackSpecs(r, streamed) ==
  IF ~FallbackEnabled \/ r.provider # NoName THEN {}
  ELSE Able(r, streamed) \ Selected(r, streamed)

LEMMA SelectedIs ==
  ASSUME Registry, providers \subseteq Registrations, NEW r, NEW streamed
  PROVE  /\ Selected(r, streamed) \subseteq Able(r, streamed)
         /\ Able(r, streamed) \subseteq providers
         /\ \A a, b \in Selected(r, streamed) : a = b
         /\ r.provider # NoName => \A a \in Selected(r, streamed) : a.name = r.provider
         /\ Selected(r, streamed) = {} => FallbackSpecs(r, streamed) = {}
<1> DEFINE able == Able(r, streamed)
           selected == Selected(r, streamed)
<1>1. able \subseteq providers
  BY DEF Able
<1>2. selected = IF r.provider # NoName THEN able \cap Registered(r.provider)
                 ELSE IF able \cap Registered(DefaultProvider) # {}
                 THEN able \cap Registered(DefaultProvider)
                 ELSE Soonest(able)
  BY DEF Selected
<1>3. selected \subseteq able
  BY <1>2 DEF Soonest
<1>4. \A name : \A a, b \in Registered(name) : a = b
  BY DEF Registered, Registry
<1>5. \A a, b \in Soonest(able) : a = b
  <2> SUFFICES ASSUME NEW a \in Soonest(able), NEW b \in Soonest(able), a # b PROVE FALSE
    OBVIOUS
  <2>1. Sooner(a, b) /\ Sooner(b, a) /\ a \in Registrations /\ b \in Registrations
    BY <1>1 DEF Soonest
  <2> QED
    BY <2>1, SoonerIsOrder
<1>6. able # {} => Soonest(able) # {}
  BY <1>1, OneIsSoonest
<1> HIDE DEF able, selected
<1>7. \A a, b \in selected : a = b
  BY <1>2, <1>4, <1>5
<1>8. r.provider # NoName => \A a \in selected : a.name = r.provider
  BY <1>2 DEF Registered
<1>9. selected = {} => FallbackSpecs(r, streamed) = {}
  BY <1>2, <1>6 DEF FallbackSpecs, able, selected
<1> QED
  BY <1>1, <1>3, <1>7, <1>8, <1>9 DEF able, selected

LEMMA PlanIs ==
  ASSUME Registry, providers \subseteq Registrations, NEW r, NEW streamed
  PROVE  /\ Plan(r, streamed).selected = {spec.name : spec \in Selected(r, streamed)}
         /\ Plan(r, streamed).fallback = {spec.name : spec \in FallbackSpecs(r, streamed)}
         /\ Plan(r, streamed) \in [selected : SUBSET STRING, fallback : SUBSET STRING]
<1>1. ASSUME NEW p \in providers
      PROVE  /\ Reason(p, r, streamed) = "selected" <=> p \in Selected(r, streamed)
             /\ Reason(p, r, streamed) = "fallback_candidate" <=> p \in FallbackSpecs(r, streamed)
  <2> DEFINE model == ModelFor(p, r)
             able == \A c \in CapabilitiesFor(p, model) : SupportsShaped(c, r, streamed)
             serves == ServesModel(p, model)
             other == r.provider # NoName /\ p.name # r.provider
             selected == p \in Selected(r, streamed)
  <2>1. p \in Able(r, streamed) <=> serves /\ able
    BY DEF Able, Supports
  <2>2. /\ selected => p \in Able(r, streamed)
        /\ other => ~selected
    BY SelectedIs
  <2>3. Reason(p, r, streamed) =
          CASE other -> "provider_not_requested"
            [] ~other /\ ~serves -> "unsupported_model"
            [] ~other /\ serves /\ ~able -> "unsupported_capabilities"
            [] ~other /\ serves /\ able ->
                 IF selected THEN "selected"
                 ELSE IF r.provider = NoName /\ FallbackEnabled THEN "fallback_candidate"
                 ELSE "eligible_not_selected"
    BY DEF Reason
  <2>4. p \in FallbackSpecs(r, streamed)
          <=> FallbackEnabled /\ r.provider = NoName /\ p \in Able(r, streamed) /\ ~selected
    BY DEF FallbackSpecs
  <2>5. other => r.provider # NoName
    OBVIOUS
  <2> HIDE DEF able, serves, other, selected, model
  <2>6. CASE other
    BY <2>1, <2>2, <2>3, <2>4, <2>5, <2>6 DEF selected
  <2>7. CASE ~other /\ ~serves
    BY <2>1, <2>2, <2>3, <2>4, <2>7 DEF selected
  <2>8. CASE ~other /\ serves /\ ~able
    BY <2>1, <2>2, <2>3, <2>4, <2>8 DEF selected
  <2>9. CASE ~other /\ serves /\ able
    BY <2>1, <2>2, <2>3, <2>4, <2>9 DEF selected
  <2> QED
    BY <2>6, <2>7, <2>8, <2>9
<1>2. Selected(r, streamed) \subseteq providers /\ FallbackSpecs(r, streamed) \subseteq providers
  BY SelectedIs DEF FallbackSpecs
<1>3. \A p \in providers : p.name \in STRING
  <2>1. Alphabet \in Seq(STRING)
    BY ProviderAssumption
  <2>2. ToSet(Alphabet) \subseteq STRING
    BY <2>1 DEF ToSet
  <2> QED
    BY <2>2, ProviderAssumption
<1>4. /\ {p \in providers : Reason(p, r, streamed) = "selected"} = Selected(r, streamed)
      /\ {p \in providers : Reason(p, r, streamed) = "fallback_candidate"} = FallbackSpecs(r, streamed)
  BY <1>1, <1>2
<1>5. Plan(r, streamed) = [selected |-> {spec.name : spec \in Selected(r, streamed)},
                           fallback |-> {spec.name : spec \in FallbackSpecs(r, streamed)}]
  BY <1>4 DEF Plan
<1>6. /\ {spec.name : spec \in Selected(r, streamed)} \subseteq STRING
      /\ {spec.name : spec \in FallbackSpecs(r, streamed)} \subseteq STRING
  BY <1>2, <1>3
<1> QED
  BY <1>5, <1>6

LEMMA FallbacksAre ==
  ASSUME Registry, providers \subseteq Registrations, NEW r, NEW streamed
  PROVE  /\ Fallbacks(r, streamed) \in Seq(providers)
         /\ {Fallbacks(r, streamed)[i] : i \in DOMAIN Fallbacks(r, streamed)}
              = FallbackSpecs(r, streamed)
         /\ \A i, j \in DOMAIN Fallbacks(r, streamed) :
              i # j => Fallbacks(r, streamed)[i] # Fallbacks(r, streamed)[j]
<1>1. CASE ~FallbackEnabled \/ r.provider # NoName
  <2>1. Fallbacks(r, streamed) = << >> /\ FallbackSpecs(r, streamed) = {}
    BY <1>1 DEF Fallbacks, FallbackSpecs
  <2> QED
    BY <2>1
<1>2. CASE ~(~FallbackEnabled \/ r.provider # NoName)
  <2> DEFINE keep == Able(r, streamed) \ Selected(r, streamed)
             t == Filtered(Ordered, keep)
  <2>1. Fallbacks(r, streamed) = t /\ FallbackSpecs(r, streamed) = keep
    BY <1>2 DEF Fallbacks, FallbackSpecs
  <2>2. keep \subseteq providers
    BY SelectedIs
  <2> HIDE DEF keep
  <2>3. t \in Seq(providers \cap keep)
    BY OrderedHasAll, FilteredType
  <2>4. /\ {t[i] : i \in DOMAIN t} = providers \cap keep
        /\ \A i, j \in DOMAIN t : i # j => t[i] # t[j]
    <3>1. PICK order : order = Ordered
      OBVIOUS
    <3>2. /\ order \in Seq(providers) /\ {order[i] : i \in DOMAIN order} = providers
          /\ \A i, j \in DOMAIN order : i # j => order[i] # order[j]
      BY <3>1, OrderedHasAll
    <3>3. t = Filtered(order, keep)
      BY <3>1
    <3> HIDE DEF t
    <3>4. {t[i] : i \in DOMAIN t} = {order[i] : i \in DOMAIN order} \cap keep
      BY <3>2, <3>3, FilteredMembers
    <3>5. \A i, j \in DOMAIN t : i # j => t[i] # t[j]
      BY <3>2, <3>3, FilteredMembers
    <3> QED
      BY <3>2, <3>4, <3>5
  <2> HIDE DEF t
  <2>5. t \in Seq(providers)
    BY <2>3
  <2> QED
    BY <2>1, <2>2, <2>4, <2>5
<1> QED
  BY <1>1, <1>2
-----------------------------------------------------------------------------
(* A call goes through its plan.                                            *)

NamesOf(specs) == {specs[i].name : i \in DOMAIN specs}
Tried(done) == {done[i][1] : i \in DOMAIN done}
InPlan(plan) == plan.selected \cup plan.fallback

\* The attempts made are as the plan says.
Sound(done, plan) ==
  /\ done # << >> => plan.selected = {done[1][1]}
  /\ Tried(done) \subseteq InPlan(plan)
  /\ \A i \in DOMAIN done : done[i][2] \in 1..MaxRetries + 1
  /\ \A i, j \in DOMAIN done : i # j => done[i] # done[j]

\* What is left to try is what the plan has beyond the attempts made, each provider once.
Leaves(done, left, plan) ==
  /\ left # << >>
  /\ Tried(done) \cup NamesOf(left) = InPlan(plan)
  /\ \A i, j \in DOMAIN left : i # j => left[i].name # left[j].name
  /\ \A i \in DOMAIN done, j \in DOMAIN left : j > 1 => done[i][1] # left[j].name

\* The next attempt is to be made.
Ready(done, left, attempt, plan) ==
  /\ Sound(done, plan) /\ Leaves(done, left, plan)
  /\ attempt \in 1..MaxRetries + 1
  /\ done = << >> => plan.selected = {left[1].name}
  /\ \A i \in DOMAIN done : done[i][1] = left[1].name => done[i][2] < attempt

\* It was made, and is the last one.
UnderWay(done, left, attempt, plan) ==
  /\ Sound(done, plan) /\ Leaves(done, left, plan)
  /\ attempt \in 1..MaxRetries + 1
  /\ done # << >> /\ done[Len(done)] = <<left[1].name, attempt>>
  /\ \A i \in DOMAIN done : done[i][1] = left[1].name => done[i][2] <= attempt

LEMMA CallBegins ==
  ASSUME Registry, providers \subseteq Registrations, NEW r, NEW streamed
  PROVE  /\ CandidatesOf(r, streamed) \in Seq(providers)
         /\ CandidatesOf(r, streamed) = << >> => InPlan(Plan(r, streamed)) = {}
         /\ CandidatesOf(r, streamed) # << >>
              => Ready(<< >>, CandidatesOf(r, streamed), 1, Plan(r, streamed))
<1> DEFINE fallbacks == Fallbacks(r, streamed)
           first == CHOOSE spec \in Selected(r, streamed) : TRUE
           left == <<first>> \o fallbacks
           plan == Plan(r, streamed)
<1>1. /\ fallbacks \in Seq(providers)
      /\ {fallbacks[i] : i \in DOMAIN fallbacks} = FallbackSpecs(r, streamed)
      /\ \A i, j \in DOMAIN fallbacks : i # j => fallbacks[i] # fallbacks[j]
  BY FallbacksAre
<1>2. /\ plan.selected = {spec.name : spec \in Selected(r, streamed)}
      /\ plan.fallback = {spec.name : spec \in FallbackSpecs(r, streamed)}
  BY PlanIs
<1>3. /\ CandidatesOf(r, streamed) = IF Selected(r, streamed) = {} THEN << >> ELSE left
  BY DEF CandidatesOf
<1>4. CASE Selected(r, streamed) = {}
  <2>1. FallbackSpecs(r, streamed) = {}
    BY <1>4, SelectedIs
  <2>2. InPlan(plan) = {}
    BY <1>2, <1>4, <2>1 DEF InPlan
  <2> QED
    BY <1>3, <1>4, <2>2
<1>5. CASE Selected(r, streamed) # {}
  <2>1. first \in Selected(r, streamed) /\ first \in providers
    BY <1>5, SelectedIs
  <2>2. Selected(r, streamed) = {first} /\ first \notin FallbackSpecs(r, streamed)
    BY <2>1, SelectedIs DEF FallbackSpecs
  <2> HIDE DEF first, fallbacks, plan
  <2>3. /\ left \in Seq(providers) /\ Len(fallbacks) \in Nat
        /\ DOMAIN left = 1..(Len(fallbacks) + 1) /\ left[1] = first
        /\ DOMAIN fallbacks = 1..Len(fallbacks)
        /\ \A i \in DOMAIN left : i # 1 => i - 1 \in DOMAIN fallbacks /\ left[i] = fallbacks[i - 1]
    BY <1>1, <2>1
  <2>4. \A i \in DOMAIN fallbacks : i + 1 \in DOMAIN left /\ left[i + 1] = fallbacks[i]
    BY <1>1, <2>1
  <2> HIDE DEF left
  <2>5. \A i \in DOMAIN fallbacks : fallbacks[i] \in FallbackSpecs(r, streamed)
    BY <1>1
  <2>6. ASSUME NEW i \in DOMAIN left, NEW j \in DOMAIN left, i # j
        PROVE  left[i].name # left[j].name
    <3>1. left[i] \in providers /\ left[j] \in providers
      BY <2>3
    <3>2. left[i] # left[j]
      <4>1. CASE i = 1
        BY <2>2, <2>3, <2>5, <2>6, <4>1
      <4>2. CASE j = 1
        BY <2>2, <2>3, <2>5, <2>6, <4>2
      <4>3. CASE i # 1 /\ j # 1
        <5>1. /\ i - 1 \in DOMAIN fallbacks /\ left[i] = fallbacks[i - 1]
              /\ j - 1 \in DOMAIN fallbacks /\ left[j] = fallbacks[j - 1]
          BY <2>3, <4>3
        <5>2. i - 1 # j - 1
          BY <2>3, <2>6
        <5> QED
          BY <1>1, <5>1, <5>2
      <4> QED
        BY <4>1, <4>2, <4>3
    <3> QED
      BY <3>1, <3>2 DEF Registry
  <2>7. NamesOf(left) = InPlan(plan)
    <3>1. InPlan(plan) = {first.name} \cup {spec.name : spec \in FallbackSpecs(r, streamed)}
      BY <1>2, <2>2 DEF InPlan
    <3>2. ASSUME NEW i \in DOMAIN left PROVE left[i].name \in InPlan(plan)
      BY <2>3, <2>5, <3>1, <3>2
    <3>3. first.name \in NamesOf(left)
      BY <2>3 DEF NamesOf
    <3>4. ASSUME NEW spec \in FallbackSpecs(r, streamed) PROVE spec.name \in NamesOf(left)
      <4>1. PICK i \in DOMAIN fallbacks : fallbacks[i] = spec
        BY <1>1
      <4> QED
        BY <2>4, <4>1 DEF NamesOf
    <3> QED
      BY <3>1, <3>2, <3>3, <3>4 DEF NamesOf
  <2>8. left # << >> /\ plan.selected = {left[1].name}
    <3>1. 1 \in DOMAIN left
      BY <2>3
    <3> QED
      BY <1>2, <2>2, <2>3, <3>1
  <2>9. Sound(<< >>, plan) /\ Tried(<< >>) = {} /\ 1 \in 1..MaxRetries + 1 /\ DOMAIN << >> = {}
    BY ProviderAssumption DEF Sound, Tried
  <2>10. Ready(<< >>, left, 1, plan)
    <3>1. Leaves(<< >>, left, plan)
      BY <2>6, <2>7, <2>8, <2>9 DEF Leaves
    <3> QED
      BY <2>8, <2>9, <3>1 DEF Ready
  <2> QED
    BY <1>3, <1>5, <2>3, <2>8, <2>10 DEF plan
<1> QED
  BY <1>4, <1>5

\* The attempts of a task, and one more.
LEMMA OneMore ==
  ASSUME NEW done \in Seq(STRING \X Nat), NEW name \in STRING, NEW attempt \in Nat
  PROVE  LET next == Append(done, <<name, attempt>>)
         IN  /\ next \in Seq(STRING \X Nat) /\ next # << >>
             /\ Len(next) = Len(done) + 1 /\ Len(done) \in Nat
             /\ DOMAIN done = 1..Len(done) /\ DOMAIN next = DOMAIN done \cup {Len(next)}
             /\ \A i \in DOMAIN done : next[i] = done[i]
             /\ next[Len(next)] = <<name, attempt>>
             /\ Front(next) = done
             /\ Tried(next) = Tried(done) \cup {name}
<1> DEFINE S == STRING \X Nat
           pair == <<name, attempt>>
           next == Append(done, pair)
<1>1. /\ next \in Seq(S) /\ Len(next) = Len(done) + 1 /\ Len(done) \in Nat
      /\ DOMAIN done = 1..Len(done) /\ DOMAIN next = 1..(Len(done) + 1)
      /\ \A i \in DOMAIN done : next[i] = done[i]
      /\ next[Len(next)] = pair
  <2>1. pair \in S /\ done \in Seq(S)
    OBVIOUS
  <2> HIDE DEF S, pair
  <2> QED
    BY <2>1
<1>2. Front(next) = done
  BY <1>1 DEF Front
<1> HIDE DEF next
<1>3. DOMAIN next = DOMAIN done \cup {Len(next)}
  BY <1>1
<1>4. next # << >>
  BY <1>1
<1>5. Tried(next) = Tried(done) \cup {name}
  <2>1. ASSUME NEW i \in DOMAIN next PROVE next[i][1] \in Tried(done) \cup {name}
    <3>1. CASE i \in DOMAIN done
      BY <1>1, <3>1 DEF Tried
    <3>2. CASE i = Len(next)
      <4>1. next[i] = <<name, attempt>>
        BY <1>1, <3>2
      <4> QED
        BY <4>1
    <3> QED
      BY <1>3, <3>1, <3>2
  <2>2. ASSUME NEW i \in DOMAIN done PROVE done[i][1] \in Tried(next)
    BY <1>1, <1>3 DEF Tried
  <2>3. name \in Tried(next)
    <3>1. Len(next) \in DOMAIN next /\ next[Len(next)][1] = name
      BY <1>1, <1>3
    <3> QED
      BY <3>1 DEF Tried
  <2> QED
    BY <2>1, <2>2, <2>3 DEF Tried
<1> QED
  BY <1>1, <1>2, <1>3, <1>4, <1>5 DEF next

LEMMA AttemptMade ==
  ASSUME NEW done \in Seq(STRING \X Nat), NEW left \in Seq(Registrations), NEW attempt, NEW plan,
         left[1].name \in STRING, Ready(done, left, attempt, plan)
  PROVE  UnderWay(Append(done, <<left[1].name, attempt>>), left, attempt, plan)
<1> DEFINE name == left[1].name
           next == Append(done, <<name, attempt>>)
<1>1. /\ attempt \in 1..MaxRetries + 1 /\ attempt \in Nat /\ name \in STRING
      /\ Sound(done, plan) /\ Leaves(done, left, plan)
      /\ done = << >> => plan.selected = {name}
      /\ \A i \in DOMAIN done : done[i][1] = name => done[i][2] < attempt
  BY ProviderAssumption DEF Ready
<1>2. 1 \in DOMAIN left /\ name \in NamesOf(left) /\ \A j \in DOMAIN left : j > 1 => left[j].name # name
  BY <1>1 DEF Leaves, NamesOf
<1> HIDE DEF name
<1>3. /\ next \in Seq(STRING \X Nat) /\ next # << >>
      /\ Len(next) = Len(done) + 1 /\ Len(done) \in Nat
      /\ DOMAIN done = 1..Len(done) /\ DOMAIN next = DOMAIN done \cup {Len(next)}
      /\ \A i \in DOMAIN done : next[i] = done[i]
      /\ next[Len(next)] = <<name, attempt>>
      /\ Tried(next) = Tried(done) \cup {name}
  BY <1>1, OneMore
<1> HIDE DEF next
<1>4. \A i \in DOMAIN done : done[i] \in STRING \X Nat /\ i # Len(next)
  BY <1>3
<1>5. next[1] = IF done = << >> THEN <<name, attempt>> ELSE done[1]
  <2>1. CASE done = << >>
    BY <1>3, <2>1
  <2>2. CASE done # << >>
    <3>1. 1 \in DOMAIN done
      BY <2>2
    <3> QED
      BY <1>3, <2>2, <3>1
  <2> QED
    BY <2>1, <2>2
<1>6. Sound(next, plan)
  <2>1. plan.selected = {next[1][1]}
    BY <1>1, <1>5 DEF Sound
  <2>2. Tried(next) \subseteq InPlan(plan)
    BY <1>1, <1>2, <1>3 DEF Leaves
  <2>3. \A i \in DOMAIN next : next[i][2] \in 1..MaxRetries + 1
    BY <1>1, <1>3 DEF Sound
  <2>4. \A i \in DOMAIN done : done[i] # <<name, attempt>>
    <3> SUFFICES ASSUME NEW i \in DOMAIN done, done[i] = <<name, attempt>>
                 PROVE  FALSE
      OBVIOUS
    <3>1. done[i][1] = name /\ done[i][2] = attempt
      OBVIOUS
    <3>2. done[i][2] < attempt
      BY <1>1, <3>1
    <3> QED
      BY <1>1, <3>1, <3>2
  <2>5. \A i, j \in DOMAIN next : i # j => next[i] # next[j]
    BY <1>1, <1>3, <2>4 DEF Sound
  <2> QED
    BY <2>1, <2>2, <2>3, <2>5 DEF Sound
<1>7. Leaves(next, left, plan)
  <2>1. Tried(next) \cup NamesOf(left) = InPlan(plan)
    BY <1>1, <1>2, <1>3 DEF Leaves
  <2>2. \A i \in DOMAIN next, j \in DOMAIN left : j > 1 => next[i][1] # left[j].name
    BY <1>1, <1>2, <1>3 DEF Leaves
  <2> QED
    BY <1>1, <2>1, <2>2 DEF Leaves
<1>8. \A i \in DOMAIN next : next[i][1] = name => next[i][2] <= attempt
  <2>1. \A i \in DOMAIN done : done[i][2] \in Nat
    BY <1>4
  <2> QED
    BY <1>1, <1>3, <2>1
<1> QED
  BY <1>1, <1>3, <1>6, <1>7, <1>8 DEF UnderWay, name, next

LEMMA AttemptRetried ==
  ASSUME NEW done \in Seq(STRING \X Nat), NEW left, NEW attempt, NEW plan,
         UnderWay(done, left, attempt, plan), attempt < MaxRetries + 1
  PROVE  Ready(done, left, attempt + 1, plan)
<1>1. attempt \in Nat /\ attempt + 1 \in 1..MaxRetries + 1 /\ MaxRetries \in Nat
  BY ProviderAssumption DEF UnderWay
<1>2. \A i \in DOMAIN done : done[i][2] \in Nat
  <2> DEFINE S == STRING \X Nat
  <2>1. \A p \in S : p[2] \in Nat
    OBVIOUS
  <2>2. done \in Seq(S)
    OBVIOUS
  <2> HIDE DEF S
  <2>3. \A i \in DOMAIN done : done[i] \in S
    BY <2>2
  <2> QED
    BY <2>1, <2>3
<1>3. \A i \in DOMAIN done : done[i][1] = left[1].name => done[i][2] < attempt + 1
  BY <1>1, <1>2 DEF UnderWay
<1> QED
  BY <1>1, <1>3 DEF UnderWay, Ready

LEMMA AttemptsFallBack ==
  ASSUME NEW done \in Seq(STRING \X Nat), NEW left \in Seq(Registrations), NEW attempt, NEW plan,
         UnderWay(done, left, attempt, plan), Len(left) > 1
  PROVE  Ready(done, Tail(left), 1, plan)
<1> DEFINE rest == Tail(left)
<1>1. /\ rest # << >> /\ rest \in Seq(Registrations) /\ DOMAIN left = 1..Len(left) /\ Len(left) \in Nat
      /\ DOMAIN rest = 1..(Len(left) - 1)
      /\ \A j \in DOMAIN rest : rest[j] = left[j + 1]
  <2>1. DOMAIN left = 1..Len(left) /\ Len(left) \in Nat /\ left # << >>
    OBVIOUS
  <2>2. rest \in Seq(Registrations) /\ Len(rest) = Len(left) - 1
    BY <2>1
  <2>3. DOMAIN rest = 1..(Len(left) - 1) /\ rest # << >>
    <3> HIDE DEF rest
    <3>1. DOMAIN rest = 1..Len(rest)
      BY <2>2
    <3>2. Len(rest) # 0
      <4>1. \A n \in Nat : n > 1 => n - 1 # 0
        OBVIOUS
      <4>2. Len(left) - 1 # 0
        BY <2>1, <4>1
      <4> QED
        BY <2>2, <4>2
    <3>3. rest # << >>
      BY <3>2
    <3> QED
      BY <2>2, <3>1, <3>3
  <2>4. \A j \in 1..(Len(left) - 1) : rest[j] = left[j + 1]
    BY <2>1
  <2> QED
    BY <2>1, <2>2, <2>3, <2>4
<1> HIDE DEF rest
<1>2. /\ Sound(done, plan) /\ Leaves(done, left, plan) /\ done # << >>
      /\ done[Len(done)] = <<left[1].name, attempt>>
  BY DEF UnderWay
<1>3. left[1].name \in Tried(done)
  <2>1. Len(done) \in DOMAIN done
    BY <1>2
  <2> QED
    BY <1>2, <2>1 DEF Tried
<1>4. NamesOf(left) = NamesOf(rest) \cup {left[1].name}
  <2>1. ASSUME NEW j \in DOMAIN left PROVE left[j].name \in NamesOf(rest) \cup {left[1].name}
    <3>1. CASE j = 1
      BY <3>1
    <3>2. CASE j # 1
      <4>1. j - 1 \in DOMAIN rest /\ rest[j - 1] = left[j]
        BY <1>1, <3>2
      <4> QED
        BY <4>1 DEF NamesOf
    <3> QED
      BY <3>1, <3>2
  <2>2. ASSUME NEW j \in DOMAIN rest PROVE rest[j].name \in NamesOf(left)
    <3>1. j + 1 \in DOMAIN left
      BY <1>1
    <3> QED
      BY <1>1, <3>1 DEF NamesOf
  <2>3. left[1].name \in NamesOf(left)
    BY <1>1 DEF NamesOf
  <2> QED
    BY <2>1, <2>2, <2>3 DEF NamesOf
<1>5. \A i \in DOMAIN done, j \in DOMAIN rest : done[i][1] # rest[j].name
  <2>1. \A j \in DOMAIN rest : j + 1 \in DOMAIN left /\ j + 1 > 1
    BY <1>1
  <2> QED
    BY <1>1, <1>2, <2>1 DEF Leaves
<1>6. Leaves(done, rest, plan)
  <2>1. Tried(done) \cup NamesOf(rest) = InPlan(plan)
    BY <1>2, <1>3, <1>4 DEF Leaves
  <2>2. \A i, j \in DOMAIN rest : i # j => rest[i].name # rest[j].name
    <3>1. \A i, j \in DOMAIN rest :
            i # j => i + 1 # j + 1 /\ i + 1 \in DOMAIN left /\ j + 1 \in DOMAIN left
      BY <1>1
    <3> QED
      BY <1>1, <1>2, <3>1 DEF Leaves
  <2> QED
    BY <1>1, <1>5, <2>1, <2>2 DEF Leaves
<1>7. 1 \in DOMAIN rest /\ 1 \in 1..MaxRetries + 1
  BY <1>1, ProviderAssumption
<1>8. \A i \in DOMAIN done : done[i][1] # rest[1].name
  BY <1>5, <1>7
<1> QED
  BY <1>2, <1>6, <1>7, <1>8 DEF Ready, rest

LEMMA AllAttempted ==
  ASSUME NEW done \in Seq(STRING \X Nat), NEW left \in Seq(Registrations), NEW attempt, NEW plan,
         UnderWay(done, left, attempt, plan), ~(Len(left) > 1)
  PROVE  Tried(done) = InPlan(plan)
<1>1. /\ Leaves(done, left, plan) /\ done # << >> /\ left # << >>
      /\ done[Len(done)] = <<left[1].name, attempt>>
  BY DEF UnderWay, Leaves
<1>2. DOMAIN left = {1} /\ Len(done) \in DOMAIN done
  <2>1. Len(left) \in Nat /\ DOMAIN left = 1..Len(left) /\ Len(left) # 0
    BY <1>1
  <2>2. Len(left) = 1
    BY <2>1
  <2>3. DOMAIN left = 1..1 /\ 1..1 = {1}
    BY <2>1, <2>2
  <2>4. Len(done) \in DOMAIN done
    BY <1>1
  <2> QED
    BY <2>3, <2>4
<1>3. NamesOf(left) = {left[1].name} /\ left[1].name \in Tried(done)
  BY <1>1, <1>2 DEF NamesOf, Tried
<1> QED
  BY <1>1, <1>3 DEF Leaves
-----------------------------------------------------------------------------
(* The invariant.                                                           *)

CallStates ==
  [pc : Outcomes \cup {"idle", "waiting"}, request : LlmRequests \cup {None},
   streamed : BOOLEAN, plan : [selected : SUBSET STRING, fallback : SUBSET STRING],
   left : Seq(Registrations), attempt : Nat]

Attempted == STRING \X Nat

PairsOf(records) == [i \in DOMAIN records |-> <<records[i].provider, records[i].attempt>>]
AmountsOf(records, m) == [i \in DOMAIN records |-> records[i].usage[m]]

\* The attempts of t that are on record.
NotedBy(t) == PairsOf(Filtered(calls, RecordsOf({t})))

\* Where a call is tells what its attempts came to.
AddsUp(call, done, noted) ==
  LET missesLast == done # << >> /\ noted = Front(done)
  IN /\ Sound(done, call.plan)
     /\ \/ noted = done
        \/ missesLast /\ call.pc \in {"waiting", "cut", "over_budget"}
     /\ call.pc = "idle" => done = << >> /\ noted = << >>
     /\ call.pc = "waiting" => missesLast /\ UnderWay(done, call.left, call.attempt, call.plan)
     /\ call.pc = "failed" => Tried(done) = InPlan(call.plan)
     /\ call.pc = "not_found" => InPlan(call.plan) = {}

CenterInv ==
  /\ ProviderTypeOK /\ Registry /\ UsageMatchesRecords
  /\ \A t \in Tasks : AddsUp(task[t], reached[t], NotedBy(t))

-----------------------------------------------------------------------------
(* The records.                                                             *)

LEMMA PairsMore ==
  ASSUME NEW R, \A record \in R : record.provider \in STRING /\ record.attempt \in Nat,
         NEW s \in Seq(R), NEW x \in R
  PROVE  /\ PairsOf(s) \in Seq(Attempted)
         /\ PairsOf(Append(s, x)) = Append(PairsOf(s), <<x.provider, x.attempt>>)
<1> DEFINE t == Append(s, x)
<1>1. /\ Len(s) \in Nat /\ DOMAIN s = 1..Len(s) /\ \A i \in DOMAIN s : s[i] \in R
      /\ DOMAIN t = 1..(Len(s) + 1) /\ t[Len(s) + 1] = x
      /\ \A i \in DOMAIN s : t[i] = s[i]
  OBVIOUS
<1> HIDE DEF t
<1>2. \A i \in DOMAIN s : <<s[i].provider, s[i].attempt>> \in Attempted
  BY <1>1 DEF Attempted
<1>3. PairsOf(s) \in [1..Len(s) -> Attempted]
  BY <1>1, <1>2 DEF PairsOf
<1>4. PICK ps : ps = PairsOf(s)
  OBVIOUS
<1>5. PICK y : y = <<x.provider, x.attempt>>
  OBVIOUS
<1>6. ps \in Seq(Attempted) /\ Len(ps) = Len(s) /\ y \in Attempted
  <2>1. ps \in Seq(Attempted) /\ Len(ps) = Len(s)
    BY <1>1, <1>3, <1>4
  <2>2. y \in Attempted
    BY <1>5 DEF Attempted
  <2> QED
    BY <2>1, <2>2
<1>7. PICK qs : qs = PairsOf(t)
  OBVIOUS
<1>8. DOMAIN qs = 1..(Len(s) + 1) /\ \A i \in 1..(Len(s) + 1) : qs[i] = <<t[i].provider, t[i].attempt>>
  BY <1>1, <1>7 DEF PairsOf
<1>9. \A i \in 1..Len(s) : qs[i] = ps[i] /\ i \in 1..(Len(s) + 1)
  BY <1>1, <1>4, <1>8 DEF PairsOf
<1>10. qs[Len(s) + 1] = y
  BY <1>1, <1>5, <1>8
<1>11. qs \in Seq(Attempted) /\ Len(qs) = Len(ps) + 1
  <2>1. \A i \in 1..(Len(s) + 1) : t[i] \in R
    BY <1>1
  <2>2. \A i \in 1..(Len(s) + 1) : <<t[i].provider, t[i].attempt>> \in Attempted
    BY <2>1 DEF Attempted
  <2>3. qs \in [1..(Len(s) + 1) -> Attempted]
    BY <1>1, <1>7, <2>2 DEF PairsOf
  <2>4. PICK k \in Nat : k = Len(s) + 1
    BY <1>1
  <2>5. qs \in [1..k -> Attempted]
    BY <2>3, <2>4
  <2>6. qs \in Seq(Attempted) /\ Len(qs) = k
    BY <2>5
  <2> QED
    BY <1>6, <2>4, <2>6
<1>12. qs = Append(ps, y)
  <2>1. \A i \in 1..Len(ps) : qs[i] = ps[i]
    BY <1>6, <1>9
  <2>2. qs[Len(ps) + 1] = y
    BY <1>6, <1>10
  <2> QED
    BY <1>6, <1>11, <2>1, <2>2, AppendIs
<1> QED
  BY <1>4, <1>5, <1>6, <1>7, <1>12 DEF t

LEMMA AmountsMore ==
  ASSUME NEW R, NEW m, \A record \in R : record.usage[m] \in Nat, NEW s \in Seq(R), NEW x \in R
  PROVE  Summed(AmountsOf(Append(s, x), m)) = Summed(AmountsOf(s, m)) + x.usage[m]
<1> DEFINE t == Append(s, x)
<1>1. /\ Len(s) \in Nat /\ DOMAIN s = 1..Len(s) /\ \A i \in DOMAIN s : s[i] \in R
      /\ DOMAIN t = 1..(Len(s) + 1) /\ t[Len(s) + 1] = x
      /\ \A i \in DOMAIN s : t[i] = s[i]
  OBVIOUS
<1> HIDE DEF t
<1>2. AmountsOf(s, m) \in [1..Len(s) -> Nat]
  BY <1>1 DEF AmountsOf
<1>3. PICK ps : ps = AmountsOf(s, m)
  OBVIOUS
<1>4. PICK y \in Nat : y = x.usage[m]
  OBVIOUS
<1>5. ps \in Seq(Nat) /\ Len(ps) = Len(s)
  BY <1>1, <1>2, <1>3
<1>6. PICK qs : qs = AmountsOf(t, m)
  OBVIOUS
<1>7. /\ qs = [i \in 1..(Len(s) + 1) |-> t[i].usage[m]]
  BY <1>1, <1>6 DEF AmountsOf
<1>8. \A i \in 1..Len(s) : qs[i] = ps[i] /\ i \in 1..(Len(s) + 1)
  BY <1>1, <1>3, <1>7 DEF AmountsOf
<1>9. qs[Len(s) + 1] = y
  BY <1>1, <1>4, <1>7
<1>10. qs \in Seq(Nat) /\ Len(qs) = Len(ps) + 1
  <2>1. \A i \in 1..(Len(s) + 1) : t[i].usage[m] \in Nat
    BY <1>1
  <2>2. qs \in [1..(Len(s) + 1) -> Nat]
    BY <1>7, <2>1
  <2>3. PICK k \in Nat : k = Len(s) + 1
    BY <1>1
  <2>4. qs \in [1..k -> Nat]
    BY <2>2, <2>3
  <2>5. qs \in Seq(Nat) /\ Len(qs) = k
    BY <2>4
  <2> QED
    BY <1>5, <2>3, <2>5
<1>11. qs = Append(ps, y)
  <2>1. \A i \in 1..Len(ps) : qs[i] = ps[i]
    BY <1>5, <1>8
  <2>2. qs[Len(ps) + 1] = y
    BY <1>5, <1>9
  <2> QED
    BY <1>5, <1>10, <2>1, <2>2, AppendIs
<1>12. Summed(qs) = Summed(ps) + y
  BY <1>5, <1>11, SummedAppend
<1> QED
  BY <1>3, <1>4, <1>6, <1>12 DEF t

\* A record more is one of its task, and none of another.
LEMMA RecordMade ==
  ASSUME ProviderTypeOK, NEW record \in RecordsOf(Tasks), calls' = Append(calls, record)
  PROVE  /\ calls' \in Seq(RecordsOf(Tasks))
         /\ NotedBy(record.task)'
              = Append(NotedBy(record.task), <<record.provider, record.attempt>>)
         /\ \A t \in Tasks \ {record.task} : NotedBy(t)' = NotedBy(t)
         /\ \A m \in Meters : UsageOnRecord(m)' = UsageOnRecord(m) + record.usage[m]
<1> DEFINE R == RecordsOf(Tasks)
           mine(t) == Filtered(calls, RecordsOf({t}))
<1>1. calls \in Seq(R) /\ record \in R
  BY DEF ProviderTypeOK
<1>2. \A x \in R : /\ x.provider \in STRING /\ x.attempt \in Nat
                   /\ \A m \in Meters : x.usage[m] \in Nat
                   /\ \A t : x \in RecordsOf({t}) <=> x.task = t
  BY DEF RecordsOf
<1> HIDE DEF R
<1>3. calls' \in Seq(R)
  BY <1>1
<1>4. ASSUME NEW t
      PROVE  /\ mine(t)' = IF record.task = t THEN Append(mine(t), record) ELSE mine(t)
             /\ mine(t) \in Seq(R)
  <2>1. Filtered(calls', RecordsOf({t}))
          = IF record \in RecordsOf({t}) THEN Append(mine(t), record) ELSE mine(t)
    BY <1>1, FilteredAppend
  <2>2. mine(t) \in Seq(R \cap RecordsOf({t}))
    BY <1>1, FilteredType
  <2> HIDE DEF mine
  <2>3. mine(t) \in Seq(R)
    BY <2>2
  <2> QED
    BY <1>1, <1>2, <2>1, <2>3 DEF mine
<1>5. \A t \in Tasks \ {record.task} : NotedBy(t)' = NotedBy(t)
  BY <1>4 DEF NotedBy
<1>6. NotedBy(record.task)' = Append(NotedBy(record.task), <<record.provider, record.attempt>>)
  <2> DEFINE old == mine(record.task)
  <2>1. old \in Seq(R) /\ mine(record.task)' = Append(old, record)
    BY <1>4
  <2>2. NotedBy(record.task)' = PairsOf(Append(old, record)) /\ NotedBy(record.task) = PairsOf(old)
    BY <2>1 DEF NotedBy
  <2> HIDE DEF old, mine
  <2> QED
    BY <1>1, <1>2, <2>1, <2>2, PairsMore
<1>7. ASSUME NEW m \in Meters
      PROVE  UsageOnRecord(m)' = UsageOnRecord(m) + record.usage[m]
  <2>1. UsageOnRecord(m) = Summed(AmountsOf(calls, m))
    BY DEF UsageOnRecord, AmountsOf
  <2>2. UsageOnRecord(m)' = Summed(AmountsOf(Append(calls, record), m))
    BY DEF UsageOnRecord, AmountsOf
  <2> QED
    BY <1>1, <1>2, <2>1, <2>2, AmountsMore
<1> QED
  BY <1>3, <1>5, <1>6, <1>7 DEF R
-----------------------------------------------------------------------------
(* Each action keeps the invariant.                                         *)

Typed ==
  /\ task \in [Tasks -> CallStates] /\ reached \in [Tasks -> Seq(Attempted)]

\* Nothing about a task other than t changes.
OnlyTask(t) ==
  \A u \in Tasks \ {t} : task'[u] = task[u] /\ reached'[u] = reached[u]

LEMMA InvTyped ==
  ASSUME CenterInv
  PROVE  Typed /\ providers \subseteq Registrations
  BY DEF CenterInv, ProviderTypeOK, Typed, CallStates, Attempted

LEMMA SpecNamed ==
  ASSUME NEW spec \in Registrations
  PROVE  spec.name \in STRING
<1>1. Alphabet \in Seq(STRING) /\ spec.name \in ToSet(Alphabet)
  BY ProviderAssumption
<1> QED
  BY <1>1 DEF ToSet

\* A call's state in another place, and with nothing left to try.
At(state, pc) == [state EXCEPT !.pc = pc]
Over(state, pc) == [state EXCEPT !.pc = pc, !.left = << >>]

LEMMA StateWith ==
  ASSUME NEW state \in CallStates, NEW pc \in Outcomes \cup {"idle", "waiting"}
  PROVE  /\ At(state, pc) \in CallStates /\ At(state, pc).pc = pc
         /\ At(state, pc).plan = state.plan /\ At(state, pc).left = state.left
         /\ At(state, pc).attempt = state.attempt
         /\ Over(state, pc) \in CallStates /\ Over(state, pc).pc = pc
         /\ Over(state, pc).plan = state.plan
<1> DEFINE Lefts == Seq(Registrations)
           Pcs == Outcomes \cup {"idle", "waiting"}
<1>1. << >> \in Lefts /\ pc \in Pcs
  OBVIOUS
<1>2. CallStates = [pc : Pcs, request : LlmRequests \cup {None},
        streamed : BOOLEAN, plan : [selected : SUBSET STRING, fallback : SUBSET STRING],
        left : Lefts, attempt : Nat]
  BY DEF CallStates
<1> HIDE DEF Lefts, Pcs
<1> QED
  BY <1>1, <1>2 DEF At, Over

LEMMA EndsIs ==
  ASSUME Typed, NEW t \in Tasks, NEW outcome \in Outcomes, Ends(t, outcome)
  PROVE  /\ Typed' /\ OnlyTask(t) /\ reached'[t] = reached[t]
         /\ task'[t].pc = outcome /\ task'[t].plan = task[t].plan
<1> DEFINE next == Over(task[t], outcome)
<1>1. task' = [task EXCEPT ![t] = next] /\ reached' = reached
  BY DEF Ends, Over
<1>2. task[t] \in CallStates
  BY DEF Typed
<1>3. next \in CallStates /\ next.pc = outcome /\ next.plan = task[t].plan
  <2>1. outcome \in Outcomes \cup {"idle", "waiting"}
    OBVIOUS
  <2> QED
    BY <1>2, <2>1, StateWith
<1> HIDE DEF next
<1> QED
  BY <1>1, <1>3 DEF Typed, OnlyTask

\* The next attempt is made, or refused.
LEMMA AttemptsIs ==
  ASSUME Typed, NEW t \in Tasks, NEW state \in CallStates, NEW records,
         Ready(reached[t], state.left, state.attempt, state.plan),
         Attempts(t, state, records)
  PROVE  /\ Typed' /\ OnlyTask(t) /\ task'[t].plan = state.plan
         /\ \/ task'[t].pc = "over_budget" /\ reached'[t] = reached[t]
            \/ /\ task'[t].pc = "waiting" /\ reached'[t] # << >> /\ Front(reached'[t]) = reached[t]
               /\ UnderWay(reached'[t], task'[t].left, task'[t].attempt, state.plan)
<1> DEFINE refused == Over(state, "over_budget")
           begun == At(state, "waiting")
           name == state.left[1].name
           done == reached[t]
           more == Append(done, <<name, state.attempt>>)
<1>1. /\ refused \in CallStates /\ refused.pc = "over_budget" /\ refused.plan = state.plan
      /\ begun \in CallStates /\ begun.pc = "waiting" /\ begun.plan = state.plan
      /\ begun.left = state.left /\ begun.attempt = state.attempt
  <2>1. {"over_budget", "waiting"} \subseteq Outcomes \cup {"idle", "waiting"}
    BY DEF Outcomes
  <2> QED
    BY <2>1, StateWith
<1>2. \/ task' = [task EXCEPT ![t] = refused] /\ reached' = reached
      \/ task' = [task EXCEPT ![t] = begun] /\ reached' = [reached EXCEPT ![t] = more]
  BY DEF Attempts, At, Over
<1>3. /\ state.left \in Seq(Registrations) /\ state.attempt \in Nat
      /\ done \in Seq(STRING \X Nat)
  BY DEF CallStates, Typed, Attempted
<1>4. name \in STRING
  <2>1. state.left # << >>
    BY DEF Ready, Leaves
  <2>2. state.left[1] \in Registrations
    BY <1>3, <2>1
  <2> QED
    BY <2>2, SpecNamed
<1>5. more \in Seq(Attempted) /\ more # << >> /\ Front(more) = done
  <2> HIDE DEF name, done
  <2> QED
    BY <1>3, <1>4, OneMore DEF Attempted
<1>6. UnderWay(more, state.left, state.attempt, state.plan)
  BY <1>3, <1>4, AttemptMade
<1> HIDE DEF refused, begun, name, more
<1>7. CASE task' = [task EXCEPT ![t] = refused] /\ reached' = reached
  BY <1>1, <1>7 DEF Typed, OnlyTask
<1>8. CASE task' = [task EXCEPT ![t] = begun] /\ reached' = [reached EXCEPT ![t] = more]
  BY <1>1, <1>5, <1>6, <1>8 DEF Typed, OnlyTask
<1> QED
  BY <1>2, <1>7, <1>8

\* What is to be shown of a step of t that leaves the providers alone.
LEMMA TaskSteps ==
  ASSUME CenterInv, NEW t \in Tasks, Typed', OnlyTask(t), providers' = providers,
         calls' \in Seq(RecordsOf(Tasks)), usage' \in [Meters -> Nat], UsageMatchesRecords',
         \A u \in Tasks \ {t} : NotedBy(u)' = NotedBy(u),
         AddsUp(task'[t], reached'[t], NotedBy(t)')
  PROVE  CenterInv'
<1>1. ProviderTypeOK'
  BY DEF CenterInv, ProviderTypeOK, Typed, CallStates, Attempted
<1>2. Registry'
  BY DEF CenterInv, Registry
<1>3. \A u \in Tasks : AddsUp(task'[u], reached'[u], NotedBy(u)')
  <2>1. \A u \in Tasks : AddsUp(task[u], reached[u], NotedBy(u))
    BY DEF CenterInv
  <2> QED
    BY <2>1 DEF OnlyTask
<1> QED
  BY <1>1, <1>2, <1>3 DEF CenterInv

\* A call that ends before it attempts anything.
LEMMA NothingAttempted ==
  ASSUME NEW call, call.pc \in {"not_found", "over_budget"},
         call.pc = "not_found" => InPlan(call.plan) = {}
  PROVE  AddsUp(call, << >>, << >>)
<1>1. Sound(<< >>, call.plan)
  BY DEF Sound, Tried
<1>2. call.pc \notin {"idle", "waiting", "failed"}
  OBVIOUS
<1>3. call.pc = "not_found" => InPlan(call.plan) = {}
  OBVIOUS
<1> QED
  BY <1>1, <1>2, <1>3, Zenon DEF AddsUp

LEMMA CallAddsUp ==
  ASSUME CenterInv, NEW t \in Tasks, NEW r \in LlmRequests, NEW streamed \in BOOLEAN,
         Call(t, r, streamed)
  PROVE  CenterInv'
<1> DEFINE state == [Absent EXCEPT !.request = r, !.streamed = streamed, !.attempt = 1,
                                   !.plan = Plan(r, streamed), !.left = CandidatesOf(r, streamed)]
           lost == At(state, "not_found")
           dropped == Over(state, "over_budget")
<1>1. Typed /\ providers \subseteq Registrations /\ Registry
  BY InvTyped DEF CenterInv
<1>2. /\ CandidatesOf(r, streamed) \in Seq(Registrations)
      /\ CandidatesOf(r, streamed) = << >> => InPlan(Plan(r, streamed)) = {}
      /\ CandidatesOf(r, streamed) # << >>
           => Ready(<< >>, CandidatesOf(r, streamed), 1, Plan(r, streamed))
  BY <1>1, CallBegins
<1>3. Plan(r, streamed) \in [selected : SUBSET STRING, fallback : SUBSET STRING]
  BY <1>1, PlanIs
<1>4. /\ state \in CallStates /\ state.left = CandidatesOf(r, streamed)
      /\ state.plan = Plan(r, streamed) /\ state.attempt = 1
      /\ lost \in CallStates /\ lost.pc = "not_found" /\ lost.plan = Plan(r, streamed)
      /\ dropped \in CallStates /\ dropped.pc = "over_budget" /\ dropped.plan = Plan(r, streamed)
  <2>1. state \in CallStates
    <3> DEFINE Plans == [selected : SUBSET STRING, fallback : SUBSET STRING]
               Lefts == Seq(Registrations)
               Pcs == Outcomes \cup {"idle", "waiting"}
    <3>1. /\ NoPlan \in Plans /\ << >> \in Lefts /\ "idle" \in Pcs /\ 0 \in Nat /\ 1 \in Nat
          /\ Plan(r, streamed) \in Plans /\ CandidatesOf(r, streamed) \in Lefts
      BY <1>2, <1>3 DEF NoPlan
    <3>2. CallStates = [pc : Pcs, request : LlmRequests \cup {None}, streamed : BOOLEAN,
                        plan : Plans, left : Lefts, attempt : Nat]
      BY DEF CallStates
    <3> HIDE DEF Plans, Lefts, Pcs
    <3>3. Absent \in CallStates
      BY <3>1, <3>2 DEF Absent
    <3> QED
      BY <3>1, <3>2, <3>3
  <2>2. /\ state.left = CandidatesOf(r, streamed)
        /\ state.plan = Plan(r, streamed) /\ state.attempt = 1
    BY DEF Absent
  <2>3. {"over_budget", "not_found"} \subseteq Outcomes \cup {"idle", "waiting"}
    BY DEF Outcomes
  <2> HIDE DEF state
  <2> QED
    BY <2>1, <2>2, <2>3, StateWith
<1>5. /\ task[t].pc = "idle" /\ UNCHANGED <<providers, usage, calls>>
      /\ \/ task' = [task EXCEPT ![t] = dropped] /\ reached' = reached
         \/ state.left = << >> /\ task' = [task EXCEPT ![t] = lost] /\ reached' = reached
         \/ state.left # << >> /\ Attempts(t, state, calls)
  BY DEF Call, At, Over
<1> HIDE DEF state, lost, dropped
<1>6. AddsUp(task[t], reached[t], NotedBy(t))
  BY DEF CenterInv
<1>7. reached[t] = << >> /\ NotedBy(t) = << >>
  BY <1>5, <1>6 DEF AddsUp
<1>9. Typed' /\ OnlyTask(t) /\ AddsUp(task'[t], reached'[t], NotedBy(t))
  <2>1. CASE task' = [task EXCEPT ![t] = dropped] /\ reached' = reached
    <3>1. Typed' /\ OnlyTask(t) /\ task'[t] = dropped /\ reached'[t] = << >>
      BY <1>1, <1>4, <1>7, <2>1 DEF Typed, OnlyTask
    <3> QED
      BY <1>4, <1>7, <3>1, NothingAttempted
  <2>2. CASE state.left = << >> /\ task' = [task EXCEPT ![t] = lost] /\ reached' = reached
    <3>1. Typed' /\ OnlyTask(t) /\ task'[t] = lost /\ reached'[t] = << >>
      BY <1>1, <1>4, <1>7, <2>2 DEF Typed, OnlyTask
    <3> QED
      <4>1. InPlan(task'[t].plan) = {} /\ task'[t].pc = "not_found"
        BY <1>2, <1>4, <2>2, <3>1
      <4>2. reached'[t] = << >>
        BY <3>1
      <4> QED
        <5>1. PICK call : call = task'[t]
          OBVIOUS
        <5>2. AddsUp(call, << >>, << >>)
          BY <4>1, <5>1, NothingAttempted
        <5> QED
          BY <1>7, <3>1, <4>2, <5>1, <5>2
  <2>3. CASE state.left # << >> /\ Attempts(t, state, calls)
    <3>1. Ready(reached[t], state.left, state.attempt, state.plan)
      BY <1>2, <1>4, <1>7, <2>3
    <3>2. /\ Typed' /\ OnlyTask(t) /\ task'[t].plan = state.plan
          /\ \/ task'[t].pc = "over_budget" /\ reached'[t] = reached[t]
             \/ /\ task'[t].pc = "waiting" /\ reached'[t] # << >> /\ Front(reached'[t]) = reached[t]
                /\ UnderWay(reached'[t], task'[t].left, task'[t].attempt, state.plan)
      BY <1>1, <1>4, <2>3, <3>1, AttemptsIs
    <3>3. CASE task'[t].pc = "over_budget" /\ reached'[t] = reached[t]
      <4>1. PICK call : call = task'[t]
        OBVIOUS
      <4>2. AddsUp(call, << >>, << >>)
        BY <3>3, <4>1, NothingAttempted
      <4> QED
        BY <1>7, <3>2, <3>3, <4>1, <4>2
    <3>4. CASE /\ task'[t].pc = "waiting" /\ reached'[t] # << >> /\ Front(reached'[t]) = reached[t]
               /\ UnderWay(reached'[t], task'[t].left, task'[t].attempt, state.plan)
      BY <1>4, <1>7, <3>2, <3>4 DEF AddsUp, UnderWay
    <3> QED
      BY <3>2, <3>3, <3>4
  <2> QED
    BY <1>5, <2>1, <2>2, <2>3
<1>10. \A u : NotedBy(u)' = NotedBy(u)
  BY <1>5 DEF NotedBy
<1>11. calls' \in Seq(RecordsOf(Tasks)) /\ usage' \in [Meters -> Nat] /\ UsageMatchesRecords'
  BY <1>5 DEF CenterInv, ProviderTypeOK, UsageMatchesRecords, UsageOnRecord
<1> QED
  BY <1>5, <1>9, <1>10, <1>11, TaskSteps

\* What is known of the attempt that is awaited.
LEMMA Awaited ==
  ASSUME CenterInv, NEW t \in Tasks, task[t].pc = "waiting",
         NEW status \in {"completed", "failed"}, NEW used \in [Meters -> Nat]
  PROVE  /\ Record(t, status, used) \in RecordsOf(Tasks)
         /\ Append(NotedBy(t), <<Record(t, status, used).provider, Record(t, status, used).attempt>>)
              = reached[t]
         /\ reached[t] # << >> /\ NotedBy(t) = Front(reached[t])
         /\ reached[t] \in Seq(STRING \X Nat) /\ task[t].left \in Seq(Registrations)
         /\ UnderWay(reached[t], task[t].left, task[t].attempt, task[t].plan)
         /\ Sound(reached[t], task[t].plan)
<1> DEFINE done == reached[t]
           name == task[t].left[1].name
<1>1. AddsUp(task[t], done, NotedBy(t)) /\ Typed
  BY InvTyped DEF CenterInv
<1>2. /\ done # << >> /\ NotedBy(t) = Front(done)
      /\ UnderWay(done, task[t].left, task[t].attempt, task[t].plan)
      /\ Sound(done, task[t].plan)
  BY <1>1 DEF AddsUp
<1>3. done \in Seq(Attempted) /\ task[t].left \in Seq(Registrations)
  BY <1>1 DEF Typed, CallStates
<1>4. /\ task[t].left # << >> /\ task[t].attempt \in Nat \ {0}
      /\ done[Len(done)] = <<name, task[t].attempt>>
  BY <1>2, ProviderAssumption DEF UnderWay, Leaves
<1>5. name \in STRING
  <2>1. task[t].left[1] \in Registrations
    BY <1>3, <1>4
  <2> QED
    BY <2>1, SpecNamed
<1>6. Record(t, status, used) \in RecordsOf(Tasks)
  BY <1>4, <1>5 DEF Record, RecordsOf
<1>7. Append(Front(done), <<name, task[t].attempt>>) = done
  <2> HIDE DEF done, name
  <2>1. PICK last \in Attempted : last = done[Len(done)]
    BY <1>2, <1>3
  <2>2. /\ Front(done) \in Seq(Attempted) /\ Len(done) \in Nat \ {0}
        /\ Len(Front(done)) = Len(done) - 1
        /\ \A i \in 1..(Len(done) - 1) : Front(done)[i] = done[i]
    <3>1. Len(done) \in Nat \ {0}
      BY <1>2, <1>3
    <3>2. Front(done) = SubSeq(done, 1, Len(done) - 1)
      BY DEF Front
    <3>3. Len(done) - 1 \in Nat /\ Len(done) - 1 <= Len(done)
      BY <3>1
    <3>4. /\ SubSeq(done, 1, Len(done) - 1) \in Seq(Attempted)
          /\ Len(SubSeq(done, 1, Len(done) - 1)) = Len(done) - 1
          /\ \A i \in 1..(Len(done) - 1) : SubSeq(done, 1, Len(done) - 1)[i] = done[i]
      <4>1. \A i \in 1..(Len(done) - 1) : done[i] \in Attempted /\ 1 + i - 1 = i
        BY <1>3, <3>1
      <4>2. 1 \in Int /\ Len(done) - 1 \in Int /\ (Len(done) - 1) - 1 + 1 = Len(done) - 1
        BY <3>1
      <4>3. /\ SubSeq(done, 1, Len(done) - 1) \in Seq(Attempted)
            /\ Len(SubSeq(done, 1, Len(done) - 1))
                 = IF 1 <= Len(done) - 1 THEN (Len(done) - 1) - 1 + 1 ELSE 0
            /\ \A i \in 1..((Len(done) - 1) - 1 + 1) :
                 SubSeq(done, 1, Len(done) - 1)[i] = done[1 + i - 1]
        BY <4>1, <4>2, SubSeqProperties
      <4> QED
        BY <3>1, <4>1, <4>2, <4>3
    <3> QED
      BY <3>1, <3>2, <3>4
  <2>3. PICK front \in Seq(Attempted) : front = Front(done)
    BY <2>2
  <2>4. /\ Len(done) = Len(front) + 1 /\ done[Len(front) + 1] = last
        /\ \A i \in 1..Len(front) : done[i] = front[i]
    BY <2>1, <2>2, <2>3
  <2>5. done = Append(front, last)
    BY <1>3, <2>4, AppendIs
  <2> QED
    BY <1>4, <2>1, <2>3, <2>5
<1>8. Record(t, status, used).provider = name /\ Record(t, status, used).attempt = task[t].attempt
  BY DEF Record
<1> QED
  BY <1>2, <1>3, <1>6, <1>7, <1>8 DEF Attempted
\* An attempt that came back is on record, with what it used.
LEMMA Recorded ==
  ASSUME CenterInv, NEW t \in Tasks, task[t].pc = "waiting",
         NEW status \in {"completed", "failed"}, NEW used \in [Meters -> Nat],
         calls' = Append(calls, Record(t, status, used)),
         usage' \in [Meters -> Nat], \A m \in Meters : usage'[m] = usage[m] + used[m]
  PROVE  /\ calls' \in Seq(RecordsOf(Tasks)) /\ UsageMatchesRecords'
         /\ NotedBy(t)' = reached[t]
         /\ \A u \in Tasks \ {t} : NotedBy(u)' = NotedBy(u)
<1>1. PICK record : record = Record(t, status, used)
  OBVIOUS
<1>2. /\ record \in RecordsOf(Tasks)
      /\ Append(NotedBy(t), <<record.provider, record.attempt>>) = reached[t]
      /\ calls' = Append(calls, record) /\ ProviderTypeOK
  BY <1>1, Awaited DEF CenterInv
<1>3. record.task = t /\ record.usage = used
  BY <1>1 DEF Record
<1>4. /\ calls' \in Seq(RecordsOf(Tasks))
      /\ NotedBy(record.task)'
           = Append(NotedBy(record.task), <<record.provider, record.attempt>>)
      /\ \A u \in Tasks \ {record.task} : NotedBy(u)' = NotedBy(u)
      /\ \A m \in Meters : UsageOnRecord(m)' = UsageOnRecord(m) + record.usage[m]
  BY <1>2, RecordMade
<1>5. NotedBy(t)' = reached[t] /\ \A u \in Tasks \ {t} : NotedBy(u)' = NotedBy(u)
  BY <1>2, <1>3, <1>4
<1>6. UsageMatchesRecords'
  <2>1. \A m \in Meters : usage[m] = UsageOnRecord(m)
    BY DEF CenterInv, UsageMatchesRecords
  <2>2. \A m \in Meters : usage'[m] = UsageOnRecord(m)'
    BY <1>3, <1>4, <2>1
  <2> QED
    BY <2>2 DEF UsageMatchesRecords
<1> QED
  BY <1>4, <1>5, <1>6

\* What a step that leaves the records alone leaves as it was.
LEMMA RecordsStay ==
  ASSUME CenterInv, calls' = calls, usage' = usage
  PROVE  /\ calls' \in Seq(RecordsOf(Tasks)) /\ usage' \in [Meters -> Nat] /\ UsageMatchesRecords'
         /\ \A t : NotedBy(t)' = NotedBy(t)
<1>1. calls' \in Seq(RecordsOf(Tasks)) /\ usage' \in [Meters -> Nat]
  BY DEF CenterInv, ProviderTypeOK
<1>2. UsageMatchesRecords'
  BY DEF CenterInv, UsageMatchesRecords, UsageOnRecord
<1>3. \A t : NotedBy(t)' = NotedBy(t)
  BY DEF NotedBy
<1> QED
  BY <1>1, <1>2, <1>3

\* A call that ends while its last attempt is not on record.
LEMMA LastMissed ==
  ASSUME CenterInv, NEW t \in Tasks, task[t].pc = "waiting",
         NEW outcome \in {"cut", "over_budget"}, Ends(t, outcome),
         UNCHANGED <<providers, usage, calls>>
  PROVE  CenterInv'
<1>1. /\ reached[t] # << >> /\ NotedBy(t) = Front(reached[t]) /\ Sound(reached[t], task[t].plan)
  <2>1. NoUsage \in [Meters -> Nat]
    BY DEF NoUsage
  <2> QED
    BY <2>1, Awaited
<1>2. /\ Typed' /\ OnlyTask(t) /\ reached'[t] = reached[t]
      /\ task'[t].pc = outcome /\ task'[t].plan = task[t].plan
  BY InvTyped, EndsIs DEF Outcomes
<1>3. NotedBy(t)' = NotedBy(t) /\ \A u \in Tasks \ {t} : NotedBy(u)' = NotedBy(u)
  BY RecordsStay
<1>4. AddsUp(task'[t], reached'[t], NotedBy(t)')
  BY <1>1, <1>2, <1>3 DEF AddsUp
<1> QED
  BY <1>2, <1>3, <1>4, RecordsStay, TaskSteps

LEMMA AnsweredAddsUp ==
  ASSUME CenterInv, NEW t \in Tasks, NEW used \in Usages, Answered(t, used)
  PROVE  CenterInv'
<1>1. task[t].pc = "waiting" /\ providers' = providers
  BY DEF Answered
<1>2. CASE AnswerExceeds(task[t].request, used)
  <2>1. Ends(t, "over_budget") /\ UNCHANGED <<providers, usage, calls>>
    BY <1>2 DEF Answered, Counted
  <2> QED
    BY <1>1, <2>1, LastMissed
<1>3. CASE ~AnswerExceeds(task[t].request, used)
  <2>1. /\ Ends(t, "completed") /\ calls' = Append(calls, Record(t, "completed", used))
        /\ usage' = [m \in Meters |-> usage[m] + used[m]]
    BY <1>3 DEF Answered, Counted, Noted
  <2>2. used \in [Meters -> Nat] /\ usage \in [Meters -> Nat]
    BY ProviderAssumption DEF CenterInv, ProviderTypeOK
  <2>3. usage' \in [Meters -> Nat] /\ \A m \in Meters : usage'[m] = usage[m] + used[m]
    BY <2>1, <2>2
  <2>4. /\ calls' \in Seq(RecordsOf(Tasks)) /\ UsageMatchesRecords'
        /\ NotedBy(t)' = reached[t]
        /\ \A u \in Tasks \ {t} : NotedBy(u)' = NotedBy(u)
    BY <1>1, <2>1, <2>2, <2>3, Recorded
  <2>5. Sound(reached[t], task[t].plan)
    BY <1>1, <2>2, Awaited
  <2>6. /\ Typed' /\ OnlyTask(t) /\ reached'[t] = reached[t]
        /\ task'[t].pc = "completed" /\ task'[t].plan = task[t].plan
    BY <2>1, InvTyped, EndsIs DEF Outcomes
  <2>7. AddsUp(task'[t], reached'[t], NotedBy(t)')
    BY <2>4, <2>5, <2>6 DEF AddsUp
  <2> QED
    BY <1>1, <2>3, <2>4, <2>6, <2>7, TaskSteps
<1> QED
  BY <1>2, <1>3

LEMMA AbandonedAddsUp ==
  ASSUME CenterInv, NEW t \in Tasks, Abandoned(t)
  PROVE  CenterInv'
  BY LastMissed DEF Abandoned

LEMMA FailedAddsUp ==
  ASSUME CenterInv, NEW t \in Tasks, NEW error, FailedAttempt(t, error)
  PROVE  CenterInv'
<1> DEFINE again == [task[t] EXCEPT !.attempt = @ + 1]
           fallback == [task[t] EXCEPT !.left = Tail(@), !.attempt = 1]
           done == reached[t]
<1>1. /\ task[t].pc = "waiting" /\ UNCHANGED <<providers, usage>>
      /\ calls' = Append(calls, Record(t, "failed", NoUsage))
      /\ \/ HasRetries(t) /\ Attempts(t, again, calls')
         \/ Len(task[t].left) > 1 /\ Attempts(t, fallback, calls')
         \/ ~(Len(task[t].left) > 1) /\ Ends(t, "failed")
  BY DEF FailedAttempt, Noted
<1>2. NoUsage \in [Meters -> Nat] /\ \A m \in Meters : NoUsage[m] = 0
  BY DEF NoUsage
<1>3. usage' \in [Meters -> Nat] /\ \A m \in Meters : usage'[m] = usage[m] + NoUsage[m]
  BY <1>1, <1>2 DEF CenterInv, ProviderTypeOK
<1>4. /\ calls' \in Seq(RecordsOf(Tasks)) /\ UsageMatchesRecords'
      /\ NotedBy(t)' = done
      /\ \A u \in Tasks \ {t} : NotedBy(u)' = NotedBy(u)
  BY <1>1, <1>2, <1>3, Recorded
<1>5. /\ done # << >> /\ done \in Seq(STRING \X Nat) /\ task[t].left \in Seq(Registrations)
      /\ UnderWay(done, task[t].left, task[t].attempt, task[t].plan)
      /\ Sound(done, task[t].plan)
  BY <1>1, <1>2, Awaited
<1>6. Typed /\ task[t] \in CallStates
  BY InvTyped DEF Typed
<1>7. task[t].attempt \in 1..MaxRetries + 1
  BY <1>5 DEF UnderWay
<1> HIDE DEF done
<1>8. ASSUME NEW state \in CallStates, state.plan = task[t].plan, Attempts(t, state, calls'),
             Ready(done, state.left, state.attempt, state.plan)
      PROVE  CenterInv'
  <2>1. /\ Typed' /\ OnlyTask(t) /\ task'[t].plan = state.plan
        /\ \/ task'[t].pc = "over_budget" /\ reached'[t] = done
           \/ /\ task'[t].pc = "waiting" /\ reached'[t] # << >> /\ Front(reached'[t]) = done
              /\ UnderWay(reached'[t], task'[t].left, task'[t].attempt, state.plan)
    BY <1>6, <1>8, AttemptsIs DEF done
  <2>2. AddsUp(task'[t], reached'[t], NotedBy(t)')
    <3>1. CASE task'[t].pc = "over_budget" /\ reached'[t] = done
      BY <1>4, <1>5, <1>8, <2>1, <3>1 DEF AddsUp
    <3>2. CASE /\ task'[t].pc = "waiting" /\ reached'[t] # << >> /\ Front(reached'[t]) = done
               /\ UnderWay(reached'[t], task'[t].left, task'[t].attempt, state.plan)
      BY <1>4, <2>1, <3>2 DEF AddsUp, UnderWay
    <3> QED
      BY <2>1, <3>1, <3>2
  <2> QED
    BY <1>1, <1>3, <1>4, <2>1, <2>2, TaskSteps
<1>9. CASE HasRetries(t) /\ Attempts(t, again, calls')
  <2>1. task[t].attempt + 1 \in Nat /\ MaxRetries \in Nat
    BY <1>7, ProviderAssumption
  <2>2. /\ again \in CallStates /\ again.plan = task[t].plan /\ again.left = task[t].left
        /\ again.attempt = task[t].attempt + 1
    BY <1>6, <2>1 DEF CallStates
  <2>3. Ready(done, task[t].left, task[t].attempt + 1, task[t].plan)
    BY <1>5, <1>9, AttemptRetried DEF HasRetries
  <2> HIDE DEF again
  <2> QED
    BY <1>8, <1>9, <2>2, <2>3
<1>10. CASE Len(task[t].left) > 1 /\ Attempts(t, fallback, calls')
  <2>1. Tail(task[t].left) \in Seq(Registrations)
    <3>1. PICK l \in Seq(Registrations) : l = task[t].left
      BY <1>5
    <3>2. l # << >>
      BY <1>10, <3>1
    <3>3. Tail(l) \in Seq(Registrations)
      BY <3>2
    <3> QED
      BY <3>1, <3>3
  <2>2. /\ fallback \in CallStates /\ fallback.plan = task[t].plan
        /\ fallback.left = Tail(task[t].left) /\ fallback.attempt = 1
    <3> DEFINE Lefts == Seq(Registrations)
    <3>1. CallStates = [pc : Outcomes \cup {"idle", "waiting"}, request : LlmRequests \cup {None},
                        streamed : BOOLEAN, plan : [selected : SUBSET STRING, fallback : SUBSET STRING],
                        left : Lefts, attempt : Nat]
      BY DEF CallStates
    <3>2. PICK rest \in Lefts : rest = Tail(task[t].left)
      BY <2>1
    <3> HIDE DEF Lefts
    <3>3. fallback = [task[t] EXCEPT !.left = rest, !.attempt = 1]
      BY <3>2
    <3> HIDE DEF fallback
    <3>4. /\ fallback \in CallStates /\ fallback.plan = task[t].plan
          /\ fallback.left = rest /\ fallback.attempt = 1
      BY <1>6, <3>1, <3>3
    <3> QED
      BY <3>2, <3>4
  <2>3. Ready(done, Tail(task[t].left), 1, task[t].plan)
    BY <1>5, <1>10, AttemptsFallBack
  <2> HIDE DEF fallback
  <2> QED
    BY <1>8, <1>10, <2>2, <2>3
<1>11. CASE ~(Len(task[t].left) > 1) /\ Ends(t, "failed")
  <2>1. Tried(done) = InPlan(task[t].plan)
    BY <1>5, <1>11, AllAttempted
  <2>2. /\ Typed' /\ OnlyTask(t) /\ reached'[t] = done
        /\ task'[t].pc = "failed" /\ task'[t].plan = task[t].plan
    BY <1>6, <1>11, EndsIs DEF Outcomes, done
  <2>3. AddsUp(task'[t], reached'[t], NotedBy(t)')
    BY <1>4, <1>5, <2>1, <2>2 DEF AddsUp
  <2> QED
    BY <1>1, <1>3, <1>4, <2>2, <2>3, TaskSteps
<1> QED
  BY <1>1, <1>9, <1>10, <1>11

\* A registration takes no name twice, and touches no call.
LEMMA RegisterAddsUp ==
  ASSUME CenterInv, NEW spec \in Registrations, RegisterProvider(spec)
  PROVE  CenterInv'
<1> DEFINE others == {other \in providers : other.name # spec.name}
<1>1. providers' = others \cup {spec} /\ UNCHANGED <<usage, calls, task, reached>>
  BY DEF RegisterProvider
<1>2. Registry /\ ProviderTypeOK
  BY DEF CenterInv
<1>3. Registry'
  <2>1. IsFiniteSet(others)
    BY <1>2, FS_Subset DEF Registry
  <2>2. IsFiniteSet(others \cup {spec})
    BY <2>1, FS_AddElement
  <2>3. \A a, b \in others \cup {spec} : a.name = b.name => a = b
    BY <1>2 DEF Registry
  <2> HIDE DEF others
  <2> QED
    BY <1>1, <2>2, <2>3 DEF Registry
<1>4. ProviderTypeOK'
  BY <1>1, <1>2 DEF ProviderTypeOK
<1>5. UsageMatchesRecords' /\ \A t : NotedBy(t)' = NotedBy(t)
  BY <1>1, RecordsStay
<1> QED
  BY <1>1, <1>3, <1>4, <1>5 DEF CenterInv

LEMMA InvAddsUp ==
  ASSUME CenterInv
  PROVE  UsageMatchesRecords /\ AttemptsAreRecorded /\ PlanIsFollowed
<1>1. UsageMatchesRecords /\ \A t \in Tasks : AddsUp(task[t], reached[t], NotedBy(t))
  BY DEF CenterInv
<1>2. AttemptsAreRecorded
  BY <1>1 DEF AttemptsAreRecorded, AddsUp, NotedBy, PairsOf
<1>3. PlanIsFollowed
  BY <1>1 DEF PlanIsFollowed, AddsUp, Sound, Tried, InPlan
<1> QED
  BY <1>1, <1>2, <1>3

(* Whatever calls overlap, fail, are retried, fall back, are abandoned or go *)
(* over budget, while providers are registered: the usage that the limits go *)
(* by is the sum of the completed records, every attempt that came back      *)
(* within budget is on record once and in order, the attempts exceed their   *)
(* limit by one for each other call at most, and each call makes the         *)
(* attempts its plan says (_record_usage, _record_call, _record_failure,     *)
(* _check_call_attempt_limit, route_plan, complete, stream).                 *)
THEOREM CallsAddUp == ProviderSpec => []AttemptsAddUp
<1>1. ProviderInit => CenterInv
  <2> SUFFICES ASSUME ProviderInit PROVE CenterInv
    OBVIOUS
  <2>1. /\ providers = {} /\ usage = NoUsage /\ calls = << >>
        /\ task = [t \in Tasks |-> Absent] /\ reached = [t \in Tasks |-> << >>]
    BY DEF ProviderInit
  <2>2. ProviderTypeOK
    <3>1. Absent \in CallStates
      <4> DEFINE Plans == [selected : SUBSET STRING, fallback : SUBSET STRING]
                 Lefts == Seq(Registrations)
      <4>1. NoPlan \in Plans /\ << >> \in Lefts /\ 0 \in Nat
        BY DEF NoPlan
      <4>2. CallStates = [pc : Outcomes \cup {"idle", "waiting"}, request : LlmRequests \cup {None},
                          streamed : BOOLEAN, plan : Plans, left : Lefts, attempt : Nat]
        BY DEF CallStates
      <4> HIDE DEF Plans, Lefts
      <4> QED
        BY <4>1, <4>2 DEF Absent
    <3>2. task \in [Tasks -> CallStates]
      BY <2>1, <3>1
    <3>3. reached \in [Tasks -> Seq(STRING \X Nat)]
      <4> DEFINE Pairs == Seq(STRING \X Nat)
      <4>1. << >> \in Pairs
        OBVIOUS
      <4> HIDE DEF Pairs
      <4>2. reached \in [Tasks -> Pairs]
        BY <2>1, <4>1
      <4> QED
        BY <4>2 DEF Pairs
    <3>4. usage \in [Meters -> Nat] /\ calls \in Seq(RecordsOf(Tasks)) /\ providers \subseteq Registrations
      BY <2>1 DEF NoUsage
    <3> QED
      BY <3>2, <3>3, <3>4 DEF ProviderTypeOK, CallStates
  <2>3. Registry
    BY <2>1, FS_EmptySet DEF Registry
  <2>4. UsageMatchesRecords
    <3>1. \A m \in Meters : UsageOnRecord(m) = Summed(<< >>)
      <4>1. \A m \in Meters : [i \in DOMAIN << >> |-> << >>[i].usage[m]] = << >>
        OBVIOUS
      <4> QED
        BY <2>1, <4>1 DEF UsageOnRecord
    <3>2. Summed(<< >>) = 0
      <4>1. << >> \in Seq(Nat) /\ 0 \in Nat
        OBVIOUS
      <4> QED
        BY <4>1, SummedAppend
    <3> QED
      BY <2>1, <3>1, <3>2 DEF UsageMatchesRecords, NoUsage
  <2>5. \A t \in Tasks : NotedBy(t) = << >>
    <3>1. \A t \in Tasks : Filtered(calls, RecordsOf({t})) = << >>
      BY <2>1, FilteredEmpty
    <3>2. PairsOf(<< >>) = << >>
      BY DEF PairsOf
    <3> QED
      BY <3>1, <3>2 DEF NotedBy
  <2>6. Sound(<< >>, Absent.plan) /\ Absent.pc = "idle"
    BY DEF Sound, Tried, Absent
  <2>7. AddsUp(Absent, << >>, << >>)
    BY <2>6 DEF AddsUp
  <2> QED
    BY <2>1, <2>2, <2>3, <2>4, <2>5, <2>7 DEF CenterInv
<1>2. CenterInv /\ [ProviderNext]_providerVars => CenterInv'
  <2> SUFFICES ASSUME CenterInv, [ProviderNext]_providerVars PROVE CenterInv'
    OBVIOUS
  <2>1. CASE UNCHANGED providerVars
    <3>1. UNCHANGED <<providers, usage, calls, task, reached>>
      BY <2>1 DEF providerVars
    <3>2. UsageMatchesRecords' /\ \A t : NotedBy(t)' = NotedBy(t)
      BY <3>1, RecordsStay
    <3> QED
      BY <3>1, <3>2 DEF CenterInv, ProviderTypeOK, Registry
  <2>2. CASE ProviderNext
    BY <2>2, RegisterAddsUp, CallAddsUp, AnsweredAddsUp, FailedAddsUp, AbandonedAddsUp
    DEF ProviderNext
  <2> QED
    BY <2>1, <2>2
<1>3. ProviderSpec => []CenterInv
  BY <1>1, <1>2, PTL DEF ProviderSpec
<1>4. CenterInv => UsageMatchesRecords /\ AttemptsAreRecorded /\ PlanIsFollowed
  BY InvAddsUp
<1>5. UsageMatchesRecords /\ AttemptsAreRecorded /\ PlanIsFollowed /\ AttemptsNearLimit
        => AttemptsAddUp
  BY DEF AttemptsAddUp
<1> QED
  BY <1>3, <1>4, <1>5, OverrunIsBounded, PTL
-----------------------------------------------------------------------------
(* ProviderCodec: what decoding makes of a list of calls.                   *)

\* Calls as the decoder leaves them.
SoundCalls == {c \in NamedCalls : c.arguments # NotJson}

LEMMA MendedIsSound ==
  ASSUME NEW c \in NamedCalls
  PROVE  Mended(c) \in SoundCalls
<1>1. NotJson # NoArguments
  BY DEF NotJson, NoArguments
<1> QED
  BY <1>1 DEF Mended, SoundCalls, NamedCalls, PayloadCalls

LEMMA SoundIsMended ==
  ASSUME NEW c \in SoundCalls
  PROVE  Mended(c) = c
  BY DEF Mended, SoundCalls, NamedCalls, PayloadCalls

\* Decoding as a function of the list of named calls.
Mending == [c \in NamedCalls |-> Mended(c)]

LEMMA DecodedIs ==
  ASSUME NEW s \in Seq(PayloadCalls)
  PROVE  /\ Mending \in [NamedCalls -> SoundCalls]
         /\ Filtered(s, NamedCalls) \in Seq(NamedCalls)
         /\ DecodedCalls(s) = [i \in DOMAIN Filtered(s, NamedCalls) |-> Mending[Filtered(s, NamedCalls)[i]]]
         /\ DecodedCalls(s) \in Seq(SoundCalls)
<1> DEFINE named == Filtered(s, NamedCalls)
<1>1. Mending \in [NamedCalls -> SoundCalls]
  BY MendedIsSound DEF Mending
<1>2. named \in Seq(NamedCalls)
  <2>1. named \in Seq(PayloadCalls \cap NamedCalls)
    BY FilteredType
  <2>2. PayloadCalls \cap NamedCalls = NamedCalls
    BY DEF NamedCalls
  <2> QED
    BY <2>1, <2>2
<1>3. DecodedCalls(s) = [i \in DOMAIN named |-> Mended(named[i])]
  BY DEF DecodedCalls
<1> HIDE DEF named
<1>4. \A i \in DOMAIN named : Mended(named[i]) = Mending[named[i]]
  BY <1>2 DEF Mending
<1>5. DecodedCalls(s) = [i \in DOMAIN named |-> Mending[named[i]]]
  BY <1>3, <1>4
<1>6. [i \in DOMAIN named |-> Mending[named[i]]] \in Seq(SoundCalls)
  BY <1>1, <1>2
<1> QED
  BY <1>1, <1>2, <1>5, <1>6 DEF named

LEMMA DecodedAppend ==
  ASSUME NEW s \in Seq(PayloadCalls), NEW c \in PayloadCalls
  PROVE  DecodedCalls(Append(s, c))
           = IF c \in NamedCalls THEN Append(DecodedCalls(s), Mended(c)) ELSE DecodedCalls(s)
<1> DEFINE t == Append(s, c)
           named == Filtered(s, NamedCalls)
<1>1. t \in Seq(PayloadCalls)
  OBVIOUS
<1>2. Filtered(t, NamedCalls) = IF c \in NamedCalls THEN Append(named, c) ELSE named
  BY FilteredAppend
<1> HIDE DEF t
<1>3. /\ Mending \in [NamedCalls -> SoundCalls] /\ named \in Seq(NamedCalls)
      /\ DecodedCalls(s) = [i \in DOMAIN named |-> Mending[named[i]]]
      /\ DecodedCalls(t) = [i \in DOMAIN Filtered(t, NamedCalls) |-> Mending[Filtered(t, NamedCalls)[i]]]
  BY <1>1, DecodedIs
<1> HIDE DEF named
<1>4. CASE c \in NamedCalls
  <2>1. DecodedCalls(t) = [i \in DOMAIN Append(named, c) |-> Mending[Append(named, c)[i]]]
    BY <1>2, <1>3, <1>4
  <2>2. [i \in DOMAIN Append(named, c) |-> Mending[Append(named, c)[i]]]
          = Append([i \in DOMAIN named |-> Mending[named[i]]], Mending[c])
    BY <1>3, <1>4, MadeAppend
  <2>3. Mending[c] = Mended(c)
    BY <1>4 DEF Mending
  <2> QED
    BY <1>3, <1>4, <2>1, <2>2, <2>3 DEF t
<1>5. CASE c \notin NamedCalls
  BY <1>2, <1>3, <1>5 DEF t
<1> QED
  BY <1>4, <1>5

LEMMA DecodedNone ==
  DecodedCalls(<< >>) = << >>
<1>1. << >> \in Seq(PayloadCalls)
  OBVIOUS
<1>2. Filtered(<< >>, NamedCalls) = << >>
  BY FilteredEmpty
<1>3. DecodedCalls(<< >>) = [i \in DOMAIN << >> |-> Mended(<< >>[i])]
  BY <1>2 DEF DecodedCalls
<1> QED
  BY <1>3

\* What one call becomes, and what it adds to those before it.
LEMMA DecodedOne ==
  ASSUME NEW s \in Seq(PayloadCalls), NEW c \in PayloadCalls
  PROVE  /\ DecodedCalls(<<c>>) = IF c \in NamedCalls THEN <<Mended(c)>> ELSE << >>
         /\ DecodedCalls(s \o <<c>>) = DecodedCalls(s) \o DecodedCalls(<<c>>)
<1>1. << >> \in Seq(PayloadCalls) /\ Append(<< >>, c) = <<c>> /\ s \o <<c>> = Append(s, c)
  OBVIOUS
<1>2. DecodedCalls(<<c>>) = IF c \in NamedCalls THEN Append(<< >>, Mended(c)) ELSE << >>
  BY <1>1, DecodedAppend, DecodedNone
<1>3. DecodedCalls(<<c>>) = IF c \in NamedCalls THEN <<Mended(c)>> ELSE << >>
  BY <1>2
<1>4. DecodedCalls(s) \in Seq(SoundCalls)
  BY DecodedIs
<1>5. DecodedCalls(Append(s, c))
        = IF c \in NamedCalls THEN Append(DecodedCalls(s), Mended(c)) ELSE DecodedCalls(s)
  BY DecodedAppend
<1>6. c \in NamedCalls => Mended(c) \in SoundCalls
  BY MendedIsSound
<1>7. CASE c \in NamedCalls
  <2>1. DecodedCalls(s) \o <<Mended(c)>> = Append(DecodedCalls(s), Mended(c))
    BY <1>4, <1>6, <1>7
  <2> QED
    BY <1>1, <1>3, <1>5, <1>7, <2>1
<1>8. CASE c \notin NamedCalls
  <2>1. DecodedCalls(s) \o << >> = DecodedCalls(s)
    BY <1>4
  <2> QED
    BY <1>1, <1>3, <1>5, <1>8, <2>1
<1> QED
  BY <1>3, <1>7, <1>8

\* Sound calls are sent back whole and decode to themselves.
LEMMA SoundCallsReturn ==
  ASSUME NEW s \in Seq(SoundCalls)
  PROVE  EncodedCalls(s) = s /\ DecodedCalls(s) = s
<1>1. \A c \in SoundCalls : c \in NamedCalls /\ c \in PayloadCalls /\ c.id # NoText
  BY CodecAssumption DEF SoundCalls, NamedCalls, PayloadCalls
<1>2. SoundCalls \subseteq {c \in NamedCalls : c.id # NoText}
  BY <1>1
<1>3. EncodedCalls(s) = s
  BY <1>2, FilteredAll DEF EncodedCalls
<1>4. Filtered(s, NamedCalls) = s
  BY <1>1, FilteredAll
<1>5. DecodedCalls(s) = [i \in DOMAIN s |-> Mended(s[i])]
  BY <1>4 DEF DecodedCalls
<1>6. \A i \in DOMAIN s : Mended(s[i]) = s[i]
  BY SoundIsMended
<1>7. DecodedCalls(s) = [i \in DOMAIN s |-> s[i]]
  BY <1>5, <1>6
<1> QED
  BY <1>3, <1>7
-----------------------------------------------------------------------------
(* ProviderCodec: one chunk.                                                *)

\* What a chunk may carry.
Carries(chunk) ==
  /\ ~(chunk.error /\ chunk.usage)
  /\ chunk.text \in Texts \cup {NoText}
  /\ chunk.calls = << >> \/ \E c \in PayloadCalls : chunk.calls = <<c>>
  /\ ~chunk.choice => chunk.text = NoText /\ chunk.calls = << >>

LEMMA ChunksCarry ==
  ASSUME NEW chunk \in Chunks
  PROVE  Carries(chunk)
  BY DEF Chunks, Carries

\* The event of a chunk brings content, or a call that is sound, or neither.
LEMMA EventBrings ==
  ASSUME NEW chunk \in Chunks
  PROVE  /\ Decoded(chunk).delta \in Seq(Texts)
         /\ Decoded(chunk).calls \in Seq(SoundCalls)
         /\ Decoded(chunk).type
              \in {"error", "message_start", "delta", "tool_call", "usage", "message_end"}
<1>1. Carries(chunk)
  BY ChunksCarry
<1>2. chunk.calls \in Seq(PayloadCalls)
  <2>1. << >> \in Seq(PayloadCalls) /\ \A c \in PayloadCalls : <<c>> \in Seq(PayloadCalls)
    OBVIOUS
  <2> QED
    BY <1>1, <2>1, Zenon DEF Carries
<1>3. DecodedCalls(chunk.calls) \in Seq(SoundCalls)
  BY <1>2, DecodedIs
<1>4. ASSUME NEW type
      PROVE  /\ Event(type, chunk).type = type
             /\ Event(type, chunk).delta = IF type = "delta" THEN Pieces(chunk.text) ELSE << >>
             /\ Event(type, chunk).calls
                  = IF type = "tool_call" THEN <<Head(DecodedCalls(chunk.calls))>> ELSE << >>
  BY DEF Event
<1>5. Pieces(chunk.text) \in Seq(Texts)
  BY <1>1 DEF Carries, Pieces
<1>6. ASSUME NEW type, type # "tool_call"
      PROVE  Event(type, chunk).delta \in Seq(Texts) /\ Event(type, chunk).calls \in Seq(SoundCalls)
  <2>1. << >> \in Seq(Texts) /\ << >> \in Seq(SoundCalls)
    OBVIOUS
  <2>2. Event(type, chunk).calls = << >>
    BY <1>4, <1>6
  <2>3. Event(type, chunk).delta = Pieces(chunk.text) \/ Event(type, chunk).delta = << >>
    BY <1>4
  <2> HIDE DEF Event
  <2> QED
    BY <1>5, <2>1, <2>2, <2>3, Zenon
<1>7. ASSUME DecodedCalls(chunk.calls) # << >>
      PROVE  /\ Event("tool_call", chunk).delta \in Seq(Texts)
             /\ Event("tool_call", chunk).calls \in Seq(SoundCalls)
  <2>1. Head(DecodedCalls(chunk.calls)) \in SoundCalls
    BY <1>3, <1>7
  <2>2. /\ Event("tool_call", chunk).delta = << >>
        /\ Event("tool_call", chunk).calls = <<Head(DecodedCalls(chunk.calls))>>
    BY <1>4
  <2>3. << >> \in Seq(Texts) /\ <<Head(DecodedCalls(chunk.calls))>> \in Seq(SoundCalls)
    BY <2>1
  <2> QED
    BY <2>2, <2>3
<1>8. \/ \E type \in {"error", "message_start", "delta", "usage", "message_end"} :
           Decoded(chunk) = Event(type, chunk)
      \/ Decoded(chunk) = Event("tool_call", chunk) /\ DecodedCalls(chunk.calls) # << >>
  BY DEF Decoded
<1>9. CASE \E type \in {"error", "message_start", "delta", "usage", "message_end"} :
             Decoded(chunk) = Event(type, chunk)
  BY <1>4, <1>6, <1>9
<1>10. CASE Decoded(chunk) = Event("tool_call", chunk) /\ DecodedCalls(chunk.calls) # << >>
  BY <1>4, <1>7, <1>10
<1> QED
  BY <1>8, <1>9, <1>10

\* The event of a plain chunk brings all that the chunk carries.
LEMMA PlainBringsAll ==
  ASSUME NEW chunk \in Chunks, PlainlyChunked(chunk), Decoded(chunk).type # "error"
  PROVE  /\ Decoded(chunk).delta = Pieces(chunk.text)
         /\ Decoded(chunk).calls = DecodedCalls(chunk.calls)
         /\ Decoded(chunk).type = "usage" <=> chunk.usage
<1>1. Carries(chunk)
  BY ChunksCarry
<1> DEFINE made == IF chunk.choice THEN DecodedCalls(chunk.calls) ELSE << >>
           text == IF chunk.choice THEN chunk.text ELSE NoText
<1>2. ASSUME NEW type
      PROVE  /\ Event(type, chunk).type = type
             /\ Event(type, chunk).delta = IF type = "delta" THEN Pieces(chunk.text) ELSE << >>
             /\ Event(type, chunk).calls
                  = IF type = "tool_call" THEN <<Head(DecodedCalls(chunk.calls))>> ELSE << >>
  BY DEF Event
<1>3. made = DecodedCalls(chunk.calls) /\ text = chunk.text
  BY <1>1, DecodedNone DEF Carries
<1>4. Pieces(NoText) = << >>
  BY DEF Pieces
<1>5. DecodedCalls(chunk.calls) # << >>
        => DecodedCalls(chunk.calls) = <<Head(DecodedCalls(chunk.calls))>>
  <2>1. CASE chunk.calls = << >>
    BY <2>1, DecodedNone
  <2>2. ASSUME NEW c \in PayloadCalls, chunk.calls = <<c>>, DecodedCalls(chunk.calls) # << >>
        PROVE  DecodedCalls(chunk.calls) = <<Head(DecodedCalls(chunk.calls))>>
    <3>1. << >> \in Seq(PayloadCalls)
      OBVIOUS
    <3>2. DecodedCalls(chunk.calls) = <<Mended(c)>>
      BY <2>2, <3>1, DecodedOne
    <3> QED
      BY <3>2
  <2> QED
    BY <1>1, <2>1, <2>2 DEF Carries
<1>6. Decoded(chunk) =
        IF chunk.error THEN Event("error", chunk)
        ELSE IF chunk.usage /\ ~chunk.choice THEN Event("usage", chunk)
        ELSE IF made # << >> THEN Event("tool_call", chunk)
        ELSE IF text # NoText THEN Event("delta", chunk)
        ELSE IF chunk.choice /\ chunk.finish THEN Event("message_end", chunk)
        ELSE Event("message_start", chunk)
  BY DEF Decoded
<1> HIDE DEF made, text
<1>7. ~chunk.error
  BY <1>2, <1>6
<1>8. (chunk.usage => ~chunk.choice) /\ (chunk.text # NoText => chunk.calls = << >>)
  BY DEF PlainlyChunked
<1>9. CASE chunk.usage
  <2>1. ~chunk.choice /\ chunk.text = NoText /\ chunk.calls = << >>
    BY <1>1, <1>8, <1>9 DEF Carries
  <2>2. Decoded(chunk) = Event("usage", chunk)
    BY <1>6, <1>7, <1>9, <2>1
  <2> QED
    BY <1>2, <1>4, <1>9, <2>1, <2>2, DecodedNone
<1>10. CASE ~chunk.usage /\ DecodedCalls(chunk.calls) # << >>
  <2>1. Decoded(chunk) = Event("tool_call", chunk)
    BY <1>3, <1>6, <1>7, <1>10
  <2>2. chunk.text = NoText
    BY <1>8, <1>10, DecodedNone
  <2> QED
    BY <1>2, <1>4, <1>5, <1>10, <2>1, <2>2
<1>11. CASE ~chunk.usage /\ DecodedCalls(chunk.calls) = << >> /\ chunk.text # NoText
  <2>1. Decoded(chunk) = Event("delta", chunk)
    BY <1>3, <1>6, <1>7, <1>11
  <2> QED
    BY <1>2, <1>11, <2>1
<1>12. CASE ~chunk.usage /\ DecodedCalls(chunk.calls) = << >> /\ chunk.text = NoText
  <2>1. Decoded(chunk) = Event("message_end", chunk) \/ Decoded(chunk) = Event("message_start", chunk)
    BY <1>3, <1>6, <1>7, <1>12
  <2> QED
    BY <1>2, <1>4, <1>12, <2>1
<1> QED
  BY <1>9, <1>10, <1>11, <1>12
-----------------------------------------------------------------------------
(* ProviderCodec: the stream.                                               *)

\* The types, and that every call taken so far is as the decoder leaves it.
CodecShape ==
  /\ stream = [chunks |-> stream.chunks, response |-> stream.response,
               events |-> stream.events, status |-> stream.status]
  /\ stream.response = [content |-> stream.response.content, calls |-> stream.response.calls,
                        usage |-> stream.response.usage, finish |-> stream.response.finish]
  /\ stream.chunks \in Seq(Chunks)
  /\ stream.response.content \in Seq(Texts)
  /\ stream.response.calls \in Seq(SoundCalls)
  /\ stream.response.usage \in BOOLEAN
  /\ stream.response.finish \in {NoText, "stop"}
  /\ stream.events \in Seq({"message_start", "delta", "tool_call", "usage", "message_end"})
  /\ stream.status \in {"open", "raised", "ended"}

CodecInv == CodecShape /\ StreamEqualsWhole

\* What one chunk more adds to the whole.
LEMMA WholeAppend ==
  ASSUME NEW chunks \in Seq(Chunks), NEW chunk \in Chunks
  PROVE  LET before == WholeResponse(chunks)
             after == WholeResponse(Append(chunks, chunk))
         IN /\ after.content = before.content \o Pieces(chunk.text)
            /\ after.calls = before.calls \o DecodedCalls(chunk.calls)
            /\ after.usage <=> before.usage \/ chunk.usage
<1> DEFINE more == Append(chunks, chunk)
           text == [c \in Chunks |-> Pieces(c.text)]
           asked == [c \in Chunks |-> c.calls]
<1>1. /\ more \in Seq(Chunks) /\ Len(chunks) \in Nat /\ more[Len(chunks) + 1] = chunk
      /\ DOMAIN more = 1..(Len(chunks) + 1) /\ DOMAIN chunks = 1..Len(chunks)
      /\ \A i \in DOMAIN chunks : more[i] = chunks[i] /\ chunks[i] \in Chunks
  OBVIOUS
<1>2. \A c \in Chunks : Pieces(c.text) \in Seq(Texts) /\ c.calls \in Seq(PayloadCalls)
  <2> SUFFICES ASSUME NEW c \in Chunks
               PROVE  Pieces(c.text) \in Seq(Texts) /\ c.calls \in Seq(PayloadCalls)
    OBVIOUS
  <2>1. Carries(c)
    BY ChunksCarry
  <2>2. Pieces(c.text) \in Seq(Texts)
    BY <2>1 DEF Carries, Pieces
  <2>3. << >> \in Seq(PayloadCalls) /\ \A d \in PayloadCalls : <<d>> \in Seq(PayloadCalls)
    OBVIOUS
  <2>4. c.calls \in Seq(PayloadCalls)
    BY <2>1, <2>3, Zenon DEF Carries
  <2> QED
    BY <2>2, <2>4
<1>3. text \in [Chunks -> Seq(Texts)] /\ asked \in [Chunks -> Seq(PayloadCalls)]
  BY <1>2
<1> HIDE DEF more
<1>4. /\ [i \in DOMAIN chunks |-> Pieces(chunks[i].text)] = [i \in DOMAIN chunks |-> text[chunks[i]]]
      /\ [i \in DOMAIN more |-> Pieces(more[i].text)] = [i \in DOMAIN more |-> text[more[i]]]
      /\ [i \in DOMAIN chunks |-> chunks[i].calls] = [i \in DOMAIN chunks |-> asked[chunks[i]]]
      /\ [i \in DOMAIN more |-> more[i].calls] = [i \in DOMAIN more |-> asked[more[i]]]
  BY <1>1
<1>5. text[chunk] = Pieces(chunk.text) /\ asked[chunk] = chunk.calls
  OBVIOUS
<1> HIDE DEF text, asked
<1> DEFINE texts == [i \in DOMAIN chunks |-> text[chunks[i]]]
           calling == [i \in DOMAIN chunks |-> asked[chunks[i]]]
<1>6. /\ texts \in Seq(Seq(Texts))
      /\ [i \in DOMAIN more |-> text[more[i]]] = Append(texts, text[chunk])
  <2> DEFINE T == Seq(Texts)
  <2>3. text \in [Chunks -> T]
    BY <1>3
  <2> HIDE DEF T
  <2>1. /\ [i \in DOMAIN chunks |-> text[chunks[i]]] \in Seq(T)
        /\ [i \in DOMAIN Append(chunks, chunk) |-> text[Append(chunks, chunk)[i]]]
             = Append([i \in DOMAIN chunks |-> text[chunks[i]]], text[chunk])
    BY <2>3, MadeAppend
  <2> QED
    BY <2>1 DEF more, T
<1>7. /\ calling \in Seq(Seq(PayloadCalls))
      /\ [i \in DOMAIN more |-> asked[more[i]]] = Append(calling, asked[chunk])
  <2> DEFINE T == Seq(PayloadCalls)
  <2>3. asked \in [Chunks -> T]
    BY <1>3
  <2> HIDE DEF T
  <2>1. /\ [i \in DOMAIN chunks |-> asked[chunks[i]]] \in Seq(T)
        /\ [i \in DOMAIN Append(chunks, chunk) |-> asked[Append(chunks, chunk)[i]]]
             = Append([i \in DOMAIN chunks |-> asked[chunks[i]]], asked[chunk])
    BY <2>3, MadeAppend
  <2> QED
    BY <2>1 DEF more, T
<1> HIDE DEF texts, calling
<1>8. Joined(Append(texts, text[chunk])) = Joined(texts) \o Pieces(chunk.text)
  BY <1>2, <1>5, <1>6, JoinedAppend
<1>9. /\ Joined(Append(calling, asked[chunk])) = Joined(calling) \o chunk.calls
      /\ Joined(calling) \in Seq(PayloadCalls)
  BY <1>2, <1>5, <1>7, JoinedAppend
<1>10. DecodedCalls(Joined(calling) \o chunk.calls)
         = DecodedCalls(Joined(calling)) \o DecodedCalls(chunk.calls)
  <2>1. Carries(chunk)
    BY ChunksCarry
  <2>2. CASE chunk.calls = << >>
    <3>1. Joined(calling) \o << >> = Joined(calling)
      BY <1>9
    <3>2. DecodedCalls(Joined(calling)) \in Seq(SoundCalls)
      BY <1>9, DecodedIs
    <3>3. DecodedCalls(Joined(calling)) \o << >> = DecodedCalls(Joined(calling))
      BY <3>2
    <3> QED
      BY <2>2, <3>1, <3>3, DecodedNone
  <2>3. CASE \E c \in PayloadCalls : chunk.calls = <<c>>
    BY <1>9, <2>3, DecodedOne
  <2> QED
    BY <2>1, <2>2, <2>3 DEF Carries
<1>11. (\E i \in DOMAIN more : more[i].usage) <=> (\E i \in DOMAIN chunks : chunks[i].usage) \/ chunk.usage
  <2>1. \A i \in DOMAIN more : i \in DOMAIN chunks \/ i = Len(chunks) + 1
    BY <1>1
  <2>2. Len(chunks) + 1 \in DOMAIN more /\ DOMAIN chunks \subseteq DOMAIN more
    BY <1>1
  <2> QED
    BY <1>1, <2>1, <2>2
<1>12. /\ WholeResponse(chunks).content = Joined(texts)
       /\ WholeResponse(chunks).calls = DecodedCalls(Joined(calling))
       /\ WholeResponse(chunks).usage = \E i \in DOMAIN chunks : chunks[i].usage
  BY <1>4 DEF WholeResponse, texts, calling
<1>13. /\ WholeResponse(more).content = Joined(Append(texts, text[chunk]))
       /\ WholeResponse(more).calls = DecodedCalls(Joined(Append(calling, asked[chunk])))
       /\ WholeResponse(more).usage = \E i \in DOMAIN more : more[i].usage
  BY <1>4, <1>6, <1>7 DEF WholeResponse
<1> QED
  BY <1>8, <1>9, <1>10, <1>11, <1>12, <1>13 DEF more

LEMMA InitIsWhole ==
  ASSUME CodecInit
  PROVE  CodecInv
<1>1. stream = [chunks |-> << >>, response |-> NoResponse, events |-> << >>, status |-> "open"]
  BY DEF CodecInit
<1>2. /\ stream.chunks = << >> /\ stream.events = << >> /\ stream.status = "open"
      /\ stream.response = NoResponse
  BY <1>1
<1>3. /\ NoResponse.content = << >> /\ NoResponse.calls = << >> /\ NoResponse.finish = NoText
      /\ NoResponse.usage \in BOOLEAN /\ ~NoResponse.usage
      /\ NoResponse = [content |-> NoResponse.content, calls |-> NoResponse.calls,
                       usage |-> NoResponse.usage, finish |-> NoResponse.finish]
  BY DEF NoResponse
<1>7. CodecShape
  <2>1. stream = [chunks |-> stream.chunks, response |-> stream.response,
                  events |-> stream.events, status |-> stream.status]
    BY <1>1
  <2>2. \A S : << >> \in Seq(S)
    OBVIOUS
  <2> QED
    BY <1>2, <1>3, <2>1, <2>2, Zenon DEF CodecShape
<1>4. /\ [i \in DOMAIN << >> |-> Pieces(<< >>[i].text)] = << >>
      /\ [i \in DOMAIN << >> |-> << >>[i].calls] = << >>
      /\ DOMAIN << >> = {}
  OBVIOUS
<1>5. Joined(<< >>) = << >>
  <2>1. << >> \in Seq(Seq({})) /\ << >> \in Seq({})
    OBVIOUS
  <2> QED
    BY <2>1, JoinedAppend
<1>6. /\ WholeResponse(<< >>).content = << >> /\ WholeResponse(<< >>).calls = << >>
      /\ WholeResponse(<< >>).usage \in BOOLEAN /\ ~WholeResponse(<< >>).usage
  BY <1>4, <1>5, DecodedNone DEF WholeResponse
<1>8. NoResponse.usage = WholeResponse(<< >>).usage
  BY <1>3, <1>6
<1> QED
  BY <1>2, <1>3, <1>6, <1>7, <1>8 DEF CodecInv, StreamEqualsWhole

LEMMA ReceiveKeepsWhole ==
  ASSUME CodecInv, NEW chunk \in Chunks, Receive(chunk)
  PROVE  CodecInv'
<1> DEFINE event == Decoded(chunk)
           added == Added(stream.response, event)
<1>1. CodecShape /\ stream.status = "open" /\ stream.chunks \in Seq(Chunks)
  BY DEF CodecInv, CodecShape, Receive
<1>2. /\ event.delta \in Seq(Texts) /\ event.calls \in Seq(SoundCalls)
      /\ event.type \in {"error", "message_start", "delta", "tool_call", "usage", "message_end"}
  BY EventBrings
<1>3. stream' = [chunks |-> Append(stream.chunks, chunk),
                 response |-> IF event.type = "error" THEN stream.response ELSE added,
                 events |-> IF event.type = "error" THEN stream.events
                            ELSE Append(stream.events, event.type),
                 status |-> IF event.type = "error" THEN "raised" ELSE "open"]
  BY <1>1 DEF Receive, CodecShape
<1> HIDE DEF event
<1>4. /\ added.content = stream.response.content \o event.delta
      /\ added.calls = stream.response.calls \o event.calls
      /\ added.usage <=> stream.response.usage \/ event.type = "usage"
      /\ added.usage \in BOOLEAN
      /\ added.finish \in {NoText, "stop"}
      /\ added = [content |-> added.content, calls |-> added.calls,
                  usage |-> added.usage, finish |-> added.finish]
  <2> DEFINE r == stream.response
  <2>1. /\ DOMAIN r = {"content", "calls", "usage", "finish"}
        /\ r.usage \in BOOLEAN /\ r.finish \in {NoText, "stop"}
    BY <1>1 DEF CodecShape
  <2>2. added = [r EXCEPT !.content = r.content \o event.delta,
                          !.calls = r.calls \o event.calls,
                          !.usage = r.usage \/ event.type = "usage",
                          !.finish = IF event.type = "message_end" /\ r.finish = NoText
                                     THEN "stop" ELSE r.finish]
    BY DEF Added
  <2> HIDE DEF added, r
  <2>3. /\ added.content = r.content \o event.delta /\ added.calls = r.calls \o event.calls
        /\ added.usage = (r.usage \/ event.type = "usage")
        /\ added.finish = IF event.type = "message_end" /\ r.finish = NoText
                          THEN "stop" ELSE r.finish
    BY <2>1, <2>2
  <2>4. added = [content |-> added.content, calls |-> added.calls,
                 usage |-> added.usage, finish |-> added.finish]
    BY <2>1, <2>2
  <2> QED
    BY <2>1, <2>3, <2>4 DEF r
<1> HIDE DEF added
<1>5. Append(stream.chunks, chunk) \in Seq(Chunks)
  BY <1>1
<1>6. CASE event.type = "error"
  <2>1. CodecShape'
    BY <1>1, <1>3, <1>5, <1>6 DEF CodecShape
  <2>2. stream'.status = "raised"
    BY <1>3, <1>6
  <2> QED
    BY <2>1, <2>2 DEF CodecInv, StreamEqualsWhole, Raised
<1>7. CASE event.type # "error"
  <2>1. /\ stream'.chunks = Append(stream.chunks, chunk) /\ stream'.response = added
        /\ stream'.events = Append(stream.events, event.type) /\ stream'.status = "open"
        /\ stream' = [chunks |-> stream'.chunks, response |-> stream'.response,
                      events |-> stream'.events, status |-> stream'.status]
    BY <1>3, <1>7
  <2>2. /\ added.content = stream.response.content \o event.delta
        /\ added.calls = stream.response.calls \o event.calls
        /\ added.usage <=> stream.response.usage \/ event.type = "usage"
        /\ added.usage \in BOOLEAN
        /\ added.finish \in {NoText, "stop"}
        /\ added = [content |-> added.content, calls |-> added.calls,
                    usage |-> added.usage, finish |-> added.finish]
    BY <1>4
  <2>3. /\ added.content \in Seq(Texts) /\ added.calls \in Seq(SoundCalls)
    BY <1>1, <1>2, <2>2 DEF CodecShape
  <2>4. Append(stream.events, event.type)
          \in Seq({"message_start", "delta", "tool_call", "usage", "message_end"})
    BY <1>1, <1>2, <1>7 DEF CodecShape
  <2>5. CodecShape'
    BY <1>5, <2>1, <2>2, <2>3, <2>4 DEF CodecShape
  <2>6. ASSUME \A i \in DOMAIN stream'.chunks : PlainlyChunked(stream'.chunks[i])
        PROVE  LET whole == WholeResponse(stream'.chunks)
               IN /\ stream'.response.content = whole.content
                  /\ stream'.response.calls = whole.calls
                  /\ stream'.response.usage = whole.usage
    <3> DEFINE chunks == stream.chunks
               before == WholeResponse(chunks)
               after == WholeResponse(Append(chunks, chunk))
    <3>1. /\ DOMAIN Append(chunks, chunk) = 1..(Len(chunks) + 1)
          /\ Append(chunks, chunk)[Len(chunks) + 1] = chunk
          /\ DOMAIN chunks = 1..Len(chunks) /\ Len(chunks) \in Nat
          /\ \A i \in DOMAIN chunks : Append(chunks, chunk)[i] = chunks[i]
      BY <1>1
    <3>2. /\ Len(chunks) + 1 \in DOMAIN Append(chunks, chunk)
          /\ \A i \in DOMAIN chunks : i \in DOMAIN Append(chunks, chunk)
      BY <3>1
    <3>3. PlainlyChunked(chunk) /\ \A i \in DOMAIN chunks : PlainlyChunked(chunks[i])
      BY <2>1, <2>6, <3>1, <3>2, Zenon
    <3>4. /\ stream.response.content = before.content /\ stream.response.calls = before.calls
          /\ stream.response.usage = before.usage
      BY <1>1, <3>3 DEF CodecInv, StreamEqualsWhole, Raised
    <3>5. /\ event.delta = Pieces(chunk.text) /\ event.calls = DecodedCalls(chunk.calls)
          /\ event.type = "usage" <=> chunk.usage
      BY <1>7, <3>3, PlainBringsAll DEF event
    <3>6. /\ after.content = before.content \o Pieces(chunk.text)
          /\ after.calls = before.calls \o DecodedCalls(chunk.calls)
          /\ after.usage <=> before.usage \/ chunk.usage
      BY <1>1, WholeAppend
    <3> HIDE DEF before, after
    <3>7. after.usage \in BOOLEAN
      BY DEF after, WholeResponse
    <3>8. /\ added.content = after.content /\ added.calls = after.calls
          /\ added.usage <=> after.usage
      BY <2>2, <3>4, <3>5, <3>6
    <3>9. added.usage = after.usage
      BY <2>2, <3>7, <3>8
    <3> QED
      BY <2>1, <3>8, <3>9 DEF after
  <2> QED
    BY <2>5, <2>6 DEF CodecInv, StreamEqualsWhole
<1> QED
  BY <1>6, <1>7

LEMMA EndKeepsWhole ==
  ASSUME CodecInv, EndOfStream
  PROVE  CodecInv'
<1>1. CodecShape
  BY DEF CodecInv
<1>2. stream' = [chunks |-> stream.chunks, response |-> stream.response,
                 events |-> stream.events, status |-> "ended"]
  BY <1>1 DEF EndOfStream, CodecShape
<1>3. /\ stream'.chunks = stream.chunks /\ stream'.response = stream.response
      /\ stream'.events = stream.events /\ stream'.status = "ended"
      /\ stream.status # "raised"
  BY <1>2 DEF EndOfStream
<1>4. CodecShape'
  BY <1>1, <1>2, <1>3 DEF CodecShape
<1> QED
  BY <1>3, <1>4 DEF CodecInv, StreamEqualsWhole, Raised

\* A stream of any length, cut into plain chunks in any way, is collected to what the whole
\* answer would be decoded to; and whatever calls were taken go back into the next request
\* as they are (LLMStreamAccumulator, decode_response).
THEOREM CodecHolds == CodecSpec => []CodecAgrees
<1>1. CodecInit => CodecInv
  BY InitIsWhole
<1>2. CodecInv /\ [CodecNext]_stream => CodecInv'
  <2> SUFFICES ASSUME CodecInv, [CodecNext]_stream PROVE CodecInv'
    OBVIOUS
  <2>1. CASE UNCHANGED stream
    BY <2>1 DEF CodecInv, CodecShape, StreamEqualsWhole, Raised
  <2>2. CASE CodecNext
    BY <2>2, ReceiveKeepsWhole, EndKeepsWhole DEF CodecNext
  <2> QED
    BY <2>1, <2>2
<1>3. CodecInv => CodecAgrees
  <2> SUFFICES ASSUME CodecInv PROVE CodecAgrees
    OBVIOUS
  <2>1. stream.response.calls \in Seq(SoundCalls)
    BY DEF CodecInv, CodecShape
  <2>2. CallsRoundTrip
    BY <2>1, SoundCallsReturn DEF CallsRoundTrip
  <2> QED
    BY <2>2 DEF CodecAgrees, CodecInv
<1> QED
  BY <1>1, <1>2, <1>3, PTL DEF CodecSpec
=============================================================================
