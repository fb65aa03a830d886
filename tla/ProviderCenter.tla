--------------------------- MODULE ProviderCenter ---------------------------
(***************************************************************************)
(* LLMProviderCenter of src/agent_core/providers.py: which providers serve *)
(* a request, retries and fallbacks over them, and the usage and call      *)
(* limits of the centre.                                                   *)
(*                                                                         *)
(* Tasks of one event loop call complete() or stream() on the same centre. *)
(* Only the provider's answer is awaited, so a step of a task runs from    *)
(* one answer to the next attempt.  A stream is collected whole before its *)
(* first event is given on, and fails and is retried like an answer.       *)
(***************************************************************************)
EXTENDS Integers, Sequences, FiniteSets, SequencesExt, Lists

CONSTANTS
  Tasks,                \* tasks that call the centre, once each
  LlmRequests,          \* what they ask for
  Registrations,        \* specs that a host may register, at any time
  Alphabet,             \* provider names in their order
  DefaultProvider,      \* or NoName
  DefaultModel,         \* or NoName
  MaxRetries,
  FallbackEnabled,
  RetryOnStreamErrors,
  Limits,               \* LLMUsageLimits per meter, None for none
  MaxCallAttempts,      \* or None
  Usages,               \* what an answer may report
  None                  \* no limit, no request

NoName == ""
Meters == {"cost", "input", "output", "total"}
Streaming == "streaming"

Bound == {None} \cup Nat
NoUsage == [m \in Meters |-> 0]

\* LLMModelCapabilities: features are what requires_* flags, modalities, tools and response
\* formats ask for; a bound of 0 is none.
ASSUME ProviderAssumption ==
  /\ IsFiniteSet(Tasks) /\ Tasks # {}
  /\ MaxRetries \in Nat
  /\ FallbackEnabled \in BOOLEAN /\ RetryOnStreamErrors \in BOOLEAN
  /\ Limits \in [Meters -> Bound]
  /\ MaxCallAttempts \in Bound
  /\ Usages \subseteq [Meters -> Nat]
  /\ Alphabet \in Seq(STRING)
  /\ \A spec \in Registrations :
       spec.name \in ToSet(Alphabet) \ {NoName} /\ spec.priority \in Int

VARIABLES
  providers,  \* _providers: the registered specs
  usage,      \* usage so far, per meter
  calls,      \* LLMCallRecord of every attempt that came back
  task,       \* each task: where it is and what is left to try
  reached     \* history: the attempts each task made, as <<provider, attempt>>

providerVars == <<providers, usage, calls, task, reached>>

NoPlan == [selected |-> {}, fallback |-> {}]

Absent == [pc |-> "idle", request |-> None, streamed |-> FALSE, plan |-> NoPlan,
           left |-> << >>, attempt |-> 0]

ProviderInit ==
  /\ providers = {}
  /\ usage = NoUsage
  /\ calls = << >>
  /\ task = [t \in Tasks |-> Absent]
  /\ reached = [t \in Tasks |-> << >>]

-----------------------------------------------------------------------------
(* Which providers serve a request.                                         *)

FirstNamed(a, b) == IF a = NoName THEN b ELSE a

\* _model_for_entry
ModelFor(spec, r) == FirstNamed(FirstNamed(r.model, spec.default), DefaultModel)

\* LLMProviderSpec.supports; a spec without models serves any.
ServesModel(spec, model) == model = NoName \/ spec.models = {} \/ model \in spec.models

\* capabilities_for: the capabilities known, none or one.
CapabilitiesFor(spec, model) ==
  IF model \in DOMAIN spec.own THEN {spec.own[model]}
  ELSE IF spec.default \in DOMAIN spec.own THEN {spec.own[spec.default]}
  ELSE spec.other

\* _shape_request_for_entry: the output asked for is cut to what the model can give.
ShapedOutput(r, capabilities) ==
  IF capabilities.output # 0 /\ r.output > capabilities.output
  THEN capabilities.output ELSE r.output

\* LLMModelCapabilities.supports_request, of the shaped request.
SupportsShaped(capabilities, r, streamed) ==
  LET shaped == ShapedOutput(r, capabilities)
      output == IF shaped # 0 THEN shaped ELSE r.estimate["output"]
      total == IF r.estimate["total"] > 0 THEN r.estimate["total"]
               ELSE r.estimate["input"] + output
  IN /\ r.needs \subseteq capabilities.features
     /\ streamed => Streaming \in capabilities.features
     /\ capabilities.output # 0 => output <= capabilities.output
     /\ capabilities.window # 0 => total <= capabilities.window

\* _entry_supports_request
Supports(spec, r, streamed) ==
  LET model == ModelFor(spec, r)
  IN /\ ServesModel(spec, model)
     /\ \A c \in CapabilitiesFor(spec, model) : SupportsShaped(c, r, streamed)

Place(name) == CHOOSE i \in DOMAIN Alphabet : Alphabet[i] = name

\* _ordered_entries: by falling priority, then by name.
Sooner(a, b) ==
  \/ a.priority > b.priority
  \/ a.priority = b.priority /\ Place(a.name) < Place(b.name)

Ordered == InOrder(providers, {pair \in providers \X providers : Sooner(pair[1], pair[2])})

Registered(name) == {spec \in providers : spec.name = name}

Able(r, streamed) == {spec \in providers : Supports(spec, r, streamed)}
Soonest(specs) == {a \in specs : \A b \in specs \ {a} : Sooner(a, b)}

\* _select_entry: the selected spec, none or one.  A provider the request names is taken or
\* nobody; the default provider comes before all others.
Selected(r, streamed) ==
  LET able == Able(r, streamed)
  IN IF r.provider # NoName THEN able \cap Registered(r.provider)
     ELSE IF able \cap Registered(DefaultProvider) # {} THEN able \cap Registered(DefaultProvider)
     ELSE Soonest(able)

\* A fallback without regard to what the request needs.
FallbacksOfAnyKind(r, streamed) ==
  Filtered(Ordered, providers \ Selected(r, streamed))

\* _candidate_entries after the first.
Fallbacks(r, streamed) ==
  IF ~FallbackEnabled \/ r.provider # NoName THEN << >>
  ELSE Filtered(Ordered, Able(r, streamed) \ Selected(r, streamed))

CandidatesOf(r, streamed) ==
  IF Selected(r, streamed) = {} THEN << >>
  ELSE <<CHOOSE spec \in Selected(r, streamed) : TRUE>> \o Fallbacks(r, streamed)

\* route_plan goes over the entries by itself: each one's place in the plan.
Reason(spec, r, streamed) ==
  LET model == ModelFor(spec, r)
      able == \A c \in CapabilitiesFor(spec, model) : SupportsShaped(c, r, streamed)
      selected == spec \in Selected(r, streamed)
  IN CASE r.provider # NoName /\ spec.name # r.provider -> "provider_not_requested"
       [] ~(r.provider # NoName /\ spec.name # r.provider) /\ ~ServesModel(spec, model)
            -> "unsupported_model"
       [] ~(r.provider # NoName /\ spec.name # r.provider) /\ ServesModel(spec, model) /\ ~able
            -> "unsupported_capabilities"
       [] ~(r.provider # NoName /\ spec.name # r.provider) /\ ServesModel(spec, model) /\ able
            -> IF selected THEN "selected"
               ELSE IF r.provider = NoName /\ FallbackEnabled THEN "fallback_candidate"
               ELSE "eligible_not_selected"

\* The plan that goes into the records of a call.
Plan(r, streamed) ==
  [selected |-> {spec.name : spec \in {p \in providers : Reason(p, r, streamed) = "selected"}},
   fallback |-> {spec.name : spec \in
                   {p \in providers : Reason(p, r, streamed) = "fallback_candidate"}}]

-----------------------------------------------------------------------------
(* Limits.                                                                  *)

\* _limit_value: a request may bring its own limit.
LimitOf(r, m) == IF r.limit[m] # None THEN r.limit[m] ELSE Limits[m]

Exceeds(amount, limit) == limit # None /\ amount > limit

\* _check_call_attempt_limit: the next attempt is one too many.
NoCallLeftOffByOne(records) == MaxCallAttempts # None /\ Len(records) > MaxCallAttempts
NoCallLeft(records) == MaxCallAttempts # None /\ Len(records) + 1 > MaxCallAttempts

\* _check_estimated_usage: costs are compared even when nothing is estimated.
EstimateExceeds(r) ==
  \E m \in Meters :
    /\ m = "cost" \/ r.estimate[m] > 0
    /\ Exceeds(usage[m] + r.estimate[m], LimitOf(r, m))

\* The checks of _record_usage.
AnswerExceeds(r, used) ==
  \E m \in Meters : used[m] > 0 /\ Exceeds(usage[m] + used[m], LimitOf(r, m))

\* An over-budget answer counted all the same.
CountedAnyway(r, used) == usage' = [m \in Meters |-> usage[m] + used[m]]

Counted(r, used) ==
  usage' = IF AnswerExceeds(r, used) THEN usage ELSE [m \in Meters |-> usage[m] + used[m]]

-----------------------------------------------------------------------------
(* A call.                                                                  *)

Record(t, status, used) ==
  [task |-> t, provider |-> task[t].left[1].name, attempt |-> task[t].attempt,
   status |-> status, usage |-> used]

\* Failures that go to the list of failures only.
NotedIfCompleted(t, status, used) ==
  IF status = "completed" THEN Append(calls, Record(t, status, used)) ELSE calls
Noted(t, status, used) == Append(calls, Record(t, status, used))

Ends(t, outcome) ==
  /\ task' = [task EXCEPT ![t].pc = outcome, ![t].left = << >>]
  /\ UNCHANGED reached

\* An attempt is awaited unless the records say that no call is left.
Attempts(t, state, records) ==
  IF NoCallLeft(records)
  THEN task' = [task EXCEPT ![t] = [state EXCEPT !.pc = "over_budget", !.left = << >>]]
       /\ UNCHANGED reached
  ELSE /\ task' = [task EXCEPT ![t] = [state EXCEPT !.pc = "waiting"]]
       /\ reached' = [reached EXCEPT ![t] = Append(@, <<state.left[1].name, state.attempt>>)]

\* register: a spec takes the place of the one of its name.
RegisterProvider(spec) ==
  /\ spec \notin providers
  /\ providers' = {other \in providers : other.name # spec.name} \cup {spec}
  /\ UNCHANGED <<usage, calls, task, reached>>

Call(t, r, streamed) ==
  /\ task[t].pc = "idle"
  /\ LET state == [Absent EXCEPT !.request = r, !.streamed = streamed, !.attempt = 1,
                                 !.plan = Plan(r, streamed), !.left = CandidatesOf(r, streamed)]
     IN IF NoCallLeft(calls) \/ EstimateExceeds(r)
        THEN task' = [task EXCEPT ![t] = [state EXCEPT !.pc = "over_budget", !.left = << >>]]
             /\ UNCHANGED reached
        ELSE IF state.left = << >>
        THEN task' = [task EXCEPT ![t] = [state EXCEPT !.pc = "not_found"]] /\ UNCHANGED reached
        ELSE Attempts(t, state, calls)
  /\ UNCHANGED <<providers, usage, calls>>

\* An answer, or a stream that came to its end.  One that exceeds a limit is neither counted
\* nor recorded, and ends the call.
Answered(t, used) ==
  /\ task[t].pc = "waiting"
  /\ Counted(task[t].request, used)
  /\ IF AnswerExceeds(task[t].request, used)
     THEN Ends(t, "over_budget") /\ UNCHANGED calls
     ELSE Ends(t, "completed") /\ calls' = Noted(t, "completed", used)
  /\ UNCHANGED providers

\* LLMRetryPolicy.allows: errors are a provider's with its hint, or any other exception.
Retryable(t, error) ==
  /\ error = "retryable"
  /\ task[t].streamed => RetryOnStreamErrors

\* One retry more than configured.
HasRetriesPlusOne(t) == task[t].attempt <= MaxRetries + 1
HasRetries(t) == task[t].attempt < MaxRetries + 1

Errors == {"retryable", "final"}

FailedAttempt(t, error) ==
  /\ task[t].pc = "waiting"
  /\ calls' = Noted(t, "failed", NoUsage)
  /\ IF Retryable(t, error) /\ HasRetries(t)
     THEN Attempts(t, [task[t] EXCEPT !.attempt = @ + 1], calls')
     ELSE IF Len(task[t].left) > 1
     THEN Attempts(t, [task[t] EXCEPT !.left = Tail(@), !.attempt = 1], calls')
     ELSE Ends(t, "failed")
  /\ UNCHANGED <<providers, usage>>

\* The caller is cancelled or goes away while the answer is awaited.
Abandoned(t) ==
  /\ task[t].pc = "waiting"
  /\ Ends(t, "cut")
  /\ UNCHANGED <<providers, usage, calls>>

ProviderNext ==
  \/ \E spec \in Registrations : RegisterProvider(spec)
  \/ \E t \in Tasks, r \in LlmRequests, streamed \in BOOLEAN : Call(t, r, streamed)
  \/ \E t \in Tasks, used \in Usages : Answered(t, used)
  \/ \E t \in Tasks, error \in Errors : FailedAttempt(t, error)
  \/ \E t \in Tasks : Abandoned(t)

ProviderSpec == ProviderInit /\ [][ProviderNext]_providerVars

-----------------------------------------------------------------------------
(* Properties.                                                              *)

Outcomes == {"completed", "failed", "over_budget", "not_found", "cut"}

\* LLMCallRecord, of calls of some tasks.
RecordsOf(tasks) ==
  [task : tasks, provider : STRING, attempt : Nat \ {0}, status : {"completed", "failed"},
   usage : [Meters -> Nat]]

\* Every variable keeps its type.
ProviderTypeOK ==
  /\ providers \subseteq Registrations
  /\ usage \in [Meters -> Nat]
  /\ calls \in Seq(RecordsOf(Tasks))
  /\ task \in [Tasks ->
       [pc : Outcomes \cup {"idle", "waiting"}, request : LlmRequests \cup {None},
        streamed : BOOLEAN, plan : [selected : SUBSET STRING, fallback : SUBSET STRING],
        left : Seq(Registrations), attempt : Nat]]
  /\ reached \in [Tasks -> Seq(STRING \X Nat)]

UsageOnRecord(m) == Summed([i \in DOMAIN calls |-> calls[i].usage[m]])

\* Whatever calls overlap, fail, are retried, abandoned or over budget, the usage that the
\* limits go by is what the completed records add up to (_record_usage, _record_call).
UsageMatchesRecords == \A m \in Meters : usage[m] = UsageOnRecord(m)

\* Every attempt that came back is on record, once and in order; only the attempt that is
\* awaited, was abandoned or came back over budget may be missing (_record_failure).
AttemptsAreRecorded ==
  \A t \in Tasks :
    LET mine == Filtered(calls, RecordsOf({t}))
        noted == [i \in DOMAIN mine |-> <<mine[i].provider, mine[i].attempt>>]
    IN \/ noted = reached[t]
       \/ /\ task[t].pc \in {"waiting", "cut", "over_budget"}
          /\ reached[t] # << >> /\ noted = Front(reached[t])

\* A call follows the plan its records carry, whatever is registered meanwhile: it begins
\* with the selected provider, tries no provider outside the plan, makes no attempt
\* twice, and fails only when all of the plan have failed it (route_plan, complete, stream).
PlanIsFollowed ==
  \A t \in Tasks :
    LET plan == task[t].plan.selected \cup task[t].plan.fallback
        tried == {reached[t][i][1] : i \in DOMAIN reached[t]}
    IN /\ reached[t] # << >> => task[t].plan.selected = {reached[t][1][1]}
       /\ tried \subseteq plan
       /\ task[t].pc = "failed" => tried = plan
       /\ task[t].pc = "not_found" => plan = {}
       /\ \A i \in DOMAIN reached[t] : reached[t][i][2] \in 1..MaxRetries + 1
       /\ \A i, j \in DOMAIN reached[t] : i # j => reached[t][i] # reached[t][j]

Waiting == {t \in Tasks : task[t].pc = "waiting"}

\* The limit on attempts is looked at before an attempt and counted after it, so calls that
\* overlap exceed it together, each other call by one attempt at most; attempts that end
\* over budget or are abandoned are not counted at all (_check_call_attempt_limit).
AttemptsNearLimit ==
  MaxCallAttempts # None =>
    Len(calls) + Cardinality(Waiting) <= MaxCallAttempts + Cardinality(Tasks) - 1

\* What the attempts cost, how many there were and how each ended is on record: the three
\* properties above.
AttemptsAddUp ==
  UsageMatchesRecords /\ AttemptsAreRecorded /\ AttemptsNearLimit /\ PlanIsFollowed
=============================================================================
