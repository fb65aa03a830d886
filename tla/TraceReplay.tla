---------------------------- MODULE TraceReplay ----------------------------
(***************************************************************************)
(* The replay of a saved trace as a sequence of steps                      *)
(* (TraceReplayHarness), and the comparison of two traces by their steps   *)
(* (TraceReplayComparator).                                                *)
(***************************************************************************)
EXTENDS TraceEval

CONSTANTS
  DiffSpecs,  \* [ordered, sources, payloads, ignored]
  EvalSpecs   \* sets of checks: [part, check, field, value]

\* What the manifests hold, as far as it matters: handoff records of four texts, plans and
\* reports in lists, counted sizes, finitely many issues, and no error in the result of a
\* validation that went well (structured.py).
InLists(m) == IsList(m.plans) /\ IsList(m.reports) /\ \A i \in DOMAIN m.reports : IsList(m.reports[i].plan)
ASSUME ItemsAssumption ==
  \A item \in Items :
    LET d == item.data
    IN  /\ item.section = "handoff"
             => d \in [status : STRING, selected : STRING, source : STRING, target : STRING]
        /\ item.section = "journal" /\ d.type = "checkpoint" /\ d.state.ok = "true"
             => d.state.error = NoText
        /\ item.section \in {"planner", "plan_executor", "planner_trace"} => InLists(d)
        /\ item.section = "artifacts" => d.size \in Nat
        /\ item.section = "provider" => IsList(d.calls) /\ IsList(d.streamCalls)
        /\ item.section = "preflight" => IsFiniteSet(d.blocking)

Step(source, type, payload) == [source |-> source, type |-> type, payload |-> payload]
StepsFrom(s, Make(_)) == [i \in DOMAIN s |-> Make(s[i])]
StepIf(condition, step) == IF condition THEN <<step>> ELSE << >>

-----------------------------------------------------------------------------
(* The steps, source by source.                                             *)

ResumeSteps(t) ==
  StepsFrom(Of(t, "resume_plan"), LAMBDA p : Step("resume_plan", "selected", p))
    \o StepsFrom(Of(t, "resume"), LAMBDA p : Step("resume", "checkpoint_loaded", p))
PreflightSteps(t) ==
  StepIf(Preflight(t) # None, Step("preflight", Preflight(t).status, Preflight(t)))
    \o StepIf(StorageReport(t) # None,
              Step("storage_backend_preflight",
                   IF StorageReport(t).ready THEN "ready" ELSE "blocked", StorageReport(t)))
JournalSteps(t) ==
  StepsFrom(Of(t, "journal"), LAMBDA e : Step("journal", e.type, e))
    \o StepsFrom(ToolResults(t), LAMBDA e : Step("provider_tool_result", "recorded", e))
\* An event's number is not part of its payload.
EventSteps(t) ==
  StepsFrom(Events(t), LAMBDA e : Step("event_log", e.type, [tool |-> e.tool,
                                       execution |-> e.execution]))
\* Neither the steps of a plan nor those of a report are replayed.
PlannerSteps(t) ==
  StepsFrom(Plans(t).plans, LAMBDA p : Step("planner_trace", "plan_created", p.id))
    \o StepsFrom(Plans(t).reports,
                 LAMBDA r : Step("planner_trace", "plan_execution",
                                 [status |-> r.status, count |-> Len(r.steps)]))
HandoffSteps(t) == StepsFrom(Handoffs(t), LAMBDA r : Step("handoff_trace", r.status, r))
AgentToolSteps(t) == StepsFrom(AgentTools(t), LAMBDA r : Step("agent_tool_trace", r.status, r))
ApprovalSteps(t) == StepsFrom(Approvals(t), LAMBDA r : Step("approval_trace", r.status, r))
ArtifactSteps(t) == StepsFrom(Artifacts(t), LAMBDA r : Step("artifact_trace", "stored", r))
StructuredType(r) ==
  IF r.ok THEN "structured_output_ok"
  ELSE IF r.status = "structured_output_error" THEN "structured_output_repair_requested"
  ELSE "structured_output_failed"
StructuredSteps(t) ==
  StepsFrom(Structured(t), LAMBDA r : Step("structured_output", StructuredType(r), r))
\* A call's error and route are not replayed.
CallType(c) ==
  IF c.streamed THEN IF c.status = "failed" THEN "stream_failed" ELSE "stream_completed"
  ELSE IF c.status = "failed" THEN "call_failed" ELSE "call_completed"
ProviderSteps(t) ==
  StepsFrom(Calls(t), LAMBDA c :
    Step("provider", CallType(c),
         [name |-> c.name, model |-> c.model, status |-> c.status, caps |-> c.caps,
          stream |-> c.stream, calls |-> c.calls, streamCalls |-> c.streamCalls,
          shape |-> c.shape, cost |-> c.cost]))
EmbeddingSteps(t) ==
  StepsFrom(Embeddings(t), LAMBDA c : Step("embedding", c.status, c))
HookSteps(t) == StepsFrom(Hooks(t), LAMBDA h : Step("lifecycle_hooks", h.event, h))

\* The parts of the prompt are replayed as sets and counts.
MaterialSummary(t) ==
  LET in == Where(Materials(t), LAMBDA m : m.selected)
  IN  [selected |-> Len(in), dropped |-> Len(Materials(t)) - Len(in),
       bytes |-> SumOf(in, LAMBDA m : m.bytes), names |-> Values(in, LAMBDA m : m.name),
       statuses |-> Values(Materials(t), LAMBDA m : m.status),
       targets |-> Values(Materials(t), LAMBDA m : m.target)]
DecisionSummary(decisions) ==
  [roles |-> Values(decisions, LAMBDA d : d.role), count |-> Len(decisions),
   trimmed |-> CountOf(decisions, LAMBDA d : d.status = "trimmed"),
   statuses |-> Values(decisions, LAMBDA d : d.status)]
PromptSteps(t) ==
  StepIf(t.built \/ Materials(t) # << >>,
         Step("context_material_selection", "applied", MaterialSummary(t)))
    \o StepsFrom(Of(t, "prompt_budget"), LAMBDA b : Step("prompt_budget", "applied", b))
    \o StepIf(Buckets(t) # << >>,
              Step("prompt_bucket_budget", "applied",
                   [of |-> DecisionSummary(Buckets(t)),
                    over |-> CountOf(Buckets(t), LAMBDA d : d.over)]))
    \o StepIf(Semantic(t) # << >>,
              Step("prompt_semantic_trim", "applied",
                   [of |-> DecisionSummary(Semantic(t)),
                    dropped |-> SumOf(Semantic(t), LAMBDA d : d.dropped)]))
    \o StepIf(Of(t, "trim") # << >>,
              Step("prompt_trim", "applied", Values(Of(t, "trim"), LAMBDA d : d.role)))

\* The servers are replayed only when no refresh is.
CapabilitySteps(t) ==
  StepsFrom(IF Of(t, "mcp_refreshes") # << >> THEN Of(t, "mcp_refreshes") ELSE Servers(t),
            LAMBDA s : Step("mcp_center", s.status, s))
    \o StepsFrom(Of(t, "skills"), LAMBDA s : Step("skill_center", "skill_loaded", s.name))
    \o StepsFrom(Of(t, "views"), LAMBDA v : Step("skill_center", "view_loaded", v))

Steps(t) ==
  ResumeSteps(t) \o PreflightSteps(t) \o JournalSteps(t) \o EventSteps(t)
    \o PlannerSteps(t) \o HandoffSteps(t) \o AgentToolSteps(t) \o PromptSteps(t)
    \o CapabilitySteps(t) \o ApprovalSteps(t) \o ArtifactSteps(t) \o StructuredSteps(t)
    \o ProviderSteps(t) \o EmbeddingSteps(t) \o HookSteps(t)

-----------------------------------------------------------------------------
(* The comparison.                                                          *)

Summaries == {"provider", "embedding", "tool_replay", "policy_decisions", "approvals",
              "event_log"}
SameRun(t, u) == t.status = u.status /\ t.iterations = u.iterations
\* Only a bundle has a summary.
SameSummary(t, u) ==
  /\ t.built = u.built
  /\ t.built => \A section \in Summaries : Len(Of(t, section)) = Len(Of(u, section))

\* A signature that never has the payload.
SignatureOfType(step, spec) ==
  [type |-> step.type, source |-> step.source, payload |-> << >>]

Signature(step, spec) ==
  [type |-> step.type, source |-> IF spec.sources THEN step.source ELSE NoText,
   payload |-> IF spec.payloads THEN <<step.payload>> ELSE << >>]
Compared(t, spec) ==
  LET steps == Where(Steps(t), LAMBDA s : s.type \notin spec.ignored)
  IN  [i \in DOMAIN steps |-> Signature(steps[i], spec)]

\* The indices at which two replays differ, or the signatures of which they
\* have different numbers.
OrderIssues(s, u) ==
  {i \in 1..Max({Len(s), Len(u)}) :
     i > Len(s) \/ i > Len(u) \/ s[Min({i, Len(s)})] # u[Min({i, Len(u)})]}
Occurrences(s, x) == CountOf(s, LAMBDA y : y = x)
CountIssues(s, u) ==
  {x \in ToSet(s) \cup ToSet(u) : Occurrences(s, x) # Occurrences(u, x)}
StepIssues(s, u, spec) == IF spec.ordered THEN OrderIssues(s, u) ELSE CountIssues(s, u)

Alike(t, u, spec) ==
  /\ SameRun(t, u) /\ SameSummary(t, u)
  /\ StepIssues(Compared(t, spec), Compared(u, spec), spec) = {}

-----------------------------------------------------------------------------
(* Properties, of every two saved traces.                                   *)

Bare(t) == [t EXCEPT !.built = FALSE]

DerivedParts == {"handoff", "materials", "approvals", "artifacts", "structured", "mcp",
                 "planner", "agent_tools"}
OwnRecordOnly(t) == \A i \in DOMAIN Of(t, "tools") :
  LET c == Of(t, "tools")[i] IN c.agent = None /\ (c.resultAgent # None => IsAgentRecord(c.resultAgent))
\* Two readings with the same texts and numbers.
SameReading(derived, own) == derived.values = own.values /\ derived.counts = own.counts
(* What the evaluator derives from raw manifests is what the bundle derives *)
(* from them: the two are separate code (evals.py, trace.py).  Out of this: *)
(* storage and failures, which it cannot derive; agents recorded in a       *)
(* call's own metadata or without a name; and a session with more than one  *)
(* planner manifest.                                                        *)
DerivationsAgree ==
  \A t \in Saved : \A part \in DerivedParts :
    \/ part = "planner" /\ Len(PlannerManifests(t)) > 1
    \/ part = "agent_tools" /\ ~OwnRecordOnly(t)
    \/ SameReading(Part(t, part), Part(Bare(t), part))

\* What a list of failures has of each source, and what the evaluator counted.
CountedParts == {"tool_center", "agent_tools", "mcp", "preflight", "planner", "structured"}
AreCounted(failures, parts) ==
  LET Listed(source) == CountOf(failures, LAMBDA f : f.source = source)
      Counted(part, field) == parts[part].counts[field]
  IN  /\ Listed("tool_center") = Counted("tool_center", "tool_center_failed_calls")
      /\ Listed("agent_tool") = Counted("agent_tools", "agent_tool_failures")
      /\ Listed("mcp") = Counted("mcp", "mcp_failed_servers")
      /\ Listed("preflight") = IF "preflight_blocked" \in parts["preflight"].holds
                               THEN Counted("preflight", "preflight_blocking_issues") ELSE 0
      /\ Listed("planner") > 0 <=> Counted("planner", "failed_plan_steps") > 0
      /\ Listed("structured_output") <= Counted("structured", "structured_output_failures")

(* The failures a bundle lists are those the evaluator counts, source by    *)
(* source: none is listed twice, and none is left out.  A structured output *)
(* that failed is listed only with a text of its error, once per text.      *)
FailuresAreCounted ==
  \A t \in Saved :
    AreCounted(FailureSummary(t), [part \in CountedParts |-> Part(t, part)])

(* Two stored traces whose replays are the same, payloads included, pass    *)
(* the same checks of these parts, whatever the spec.  Not so for the       *)
(* others: a replay has no stored tool results, no event numbers, no steps  *)
(* of plans, no errors or routes of calls.                                  *)
ReplayedParts == {"approvals", "artifacts", "structured", "handoff", "agent_tools",
                  "provider", "stream", "tool_calls", "tool_results", "shapes", "hooks",
                  "materials", "buckets", "semantic", "trim", "budget", "skills",
                  "preflight", "resume", "storage_preflight"}
FullReplay(spec) == spec.payloads /\ spec.sources /\ spec.ignored = {}
SameResults(results, i, j) == results[i] = results[j]
EqualReplaysEvaluateAlike ==
  LET records == RecordsInMemory
  IN  \A i, j \in DOMAIN records :
        i < j /\ (\E spec \in DiffSpecs :
                     FullReplay(spec) /\ Alike(records[i], records[j], spec))
          => \A spec \in EvalSpecs :
               (\A c \in spec : c.part \in ReplayedParts)
                 => SameResults(EvaluateAll(spec), i, j)

(* What the bundle derives, the evaluator counts and the comparison         *)
(* replays of the same run is the same story: the three above.              *)
ReplaysAgree == DerivationsAgree /\ FailuresAreCounted /\ EqualReplaysEvaluateAlike
=============================================================================
