----------------------------- MODULE TraceEval -----------------------------
(***************************************************************************)
(* The evaluation of a saved trace (DefaultTraceEvaluator): what it reads  *)
(* out of a trace, part by part, and the checks a TraceEvalSpec makes.     *)
(*                                                                         *)
(* A trace that no bundle built (built = FALSE) has only the raw           *)
(* manifests, and the evaluator derives the summaries itself.              *)
(***************************************************************************)
EXTENDS RunTrace

\* A reading: the texts a part has, its numbers, and the facts that hold.
Reading(values, counts, holds) == [values |-> values, counts |-> counts, holds |-> holds]
NoCounts == << >>
HoldsIf(name, condition) == IF condition THEN {name} ELSE {}
SumOf(s, Field(_)) == Summed([i \in DOMAIN s |-> Field(s[i])])
MaxOf(s, Field(_)) == Max({Field(s[i]) : i \in DOMAIN s} \cup {0})

-----------------------------------------------------------------------------
(* What the evaluator derives itself when no bundle did: code of its own    *)
(* for each summary.                                                        *)

Derived(records, Make(_), Kept(_)) ==
  Where([i \in DOMAIN records |-> Make(records[i])], Kept)

OwnHandoffs(t) ==
  Derived(Of(t, "handoff"),
          LAMBDA r : IF r.status # NoText \/ r.selected = NoText THEN r
                     ELSE [r EXCEPT !.status = "selected"],
          LAMBDA r : r.status # NoText)
OwnMaterials(t) ==
  IF Of(t, "materials") # << >> THEN Of(t, "materials")
  ELSE Derived(Of(t, "context_injections"),
               LAMBDA i : [name |-> i.name, status |-> "selected",
                           selected |-> i.material # None, bytes |-> i.bytes,
                           target |-> IF i.material = None \/ i.material.target = NoText
                                      THEN i.target ELSE i.material.target],
               LAMBDA m : m.selected)
OwnApprovals(t) == Derived(Of(t, "approvals"), LAMBDA r : r, LAMBDA r : r.id # NoText)
OwnArtifacts(t) == Derived(Of(t, "artifacts"), LAMBDA r : r, LAMBDA r : r.id # NoText)
\* A record that says nothing of the outcome is of a failure.
OwnStructured(t) ==
  LET states == Derived(Where(Of(t, "journal"), LAMBDA e : e.type = "checkpoint"),
                        LAMBDA e : e.state,
                        LAMBDA s : ~(s.status \notin FaultStatuses /\ s.ok = "none"))
      Status(s) == CASE s.status # NoText -> s.status
                     [] s.status = NoText /\ s.ok = "true" -> "structured_output_ok"
                     [] OTHER -> "structured_output_failed"
  IN  [i \in DOMAIN states |->
         [status |-> Status(states[i]), ok |-> states[i].ok = "true",
          schema |-> states[i].schema, error |-> states[i].error]]
OwnServers(t, status) ==
  LET own == {<<s.name, s.status>> : s \in ToSet(Of(t, "mcp_servers"))}
      last == {<<s.name, s.status>> : s \in ToSet(Of(t, "mcp_refreshes"))}
      all == own \cup {r \in last : r[2] \in {"failed", "partial"}}
  IN  {r[1] : r \in {q \in all : q[2] = status}}

-----------------------------------------------------------------------------
(* The calls of models and embedders.                                       *)

Calls(t) == Of(t, "provider")
Embeddings(t) == Of(t, "embedding")
Streams(t) == Where(Calls(t), LAMBDA c : c.stream # "none")
\* A response's calls and its stream summary's are counted both.
NamedCalls(t) == Joined([i \in DOMAIN Calls(t) |-> Calls(t)[i].calls])
                   \o Joined([i \in DOMAIN Streams(t) |-> Streams(t)[i].streamCalls])
Routes(t) == Joined([i \in DOMAIN Calls(t) |-> Calls(t)[i].route])
Shapes(t) == Where([i \in DOMAIN Calls(t) |-> Calls(t)[i].shape], LAMBDA s : s # None)

RunReading(t) ==
  Reading([embedding_provider_names |-> Values(Embeddings(t), LAMBDA c : c.name),
           embedding_models |-> Values(Embeddings(t), LAMBDA c : c.model),
           statuses |-> {t.status}],
          [iterations |-> t.iterations, provider_calls |-> Len(Calls(t)),
           embedding_calls |-> Len(Embeddings(t)),
           cost_usd |-> SumOf(Calls(t), LAMBDA c : c.cost)],
          HoldsIf("embedding_calls", Embeddings(t) # << >>))

ProviderReading(t) ==
  Reading([provider_names |-> Values(Calls(t), LAMBDA c : c.name),
           provider_models |-> Values(Calls(t), LAMBDA c : c.model),
           provider_model_capabilities |->
                 UNION {Calls(t)[i].caps : i \in DOMAIN Calls(t)}],
          NoCounts,
          HoldsIf("provider_model_capabilities",
                  \E i \in DOMAIN Calls(t) : Calls(t)[i].caps # {}))

\* A failed streamed call counts, and so does the error in its summary.
StreamErrors(t) ==
  CountOf(Calls(t), LAMBDA c : c.streamed /\ c.status = "failed")
    + CountOf(Streams(t), LAMBDA c : c.stream = "error")

StreamReading(t) ==
  Reading([provider_stream_event_types |->
            UNION {IF Streams(t)[i].stream = "error" THEN {"error"} ELSE {"message_end"} :
                     i \in DOMAIN Streams(t)}],
          [provider_stream_errors |-> StreamErrors(t)],
          HoldsIf("provider_streaming", \E i \in DOMAIN Calls(t) : Calls(t)[i].streamed))

ToolCallReading(t) ==
  Reading([provider_tool_call_names |-> ToSet(NamedCalls(t)) \ {NoText}],
          [provider_tool_calls |-> Len(NamedCalls(t))],
          HoldsIf("provider_tool_calls", NamedCalls(t) # << >>))

\* What the journal says of the calls a model asked for natively.
ToolResults(t) == Where(Of(t, "journal"), LAMBDA e : e.type = "tool_call" /\ e.native)

ToolResultReading(t) ==
  Reading([provider_tool_result_names |-> Values(ToolResults(t), LAMBDA e : e.tool),
           provider_tool_result_statuses |-> Values(ToolResults(t), LAMBDA e : e.status)],
          [provider_tool_result_failures |->
            CountOf(ToolResults(t), LAMBDA e : e.status # "completed")],
          HoldsIf("provider_tool_results", ToolResults(t) # << >>)
            \cup HoldsIf("provider_tool_result_execution",
                         \E i \in DOMAIN ToolResults(t) : ToolResults(t)[i].execution # None))

ErrorReading(t) ==
  Reading([provider_error_kinds |-> Values(Calls(t), LAMBDA c : c.error)], NoCounts,
          HoldsIf("provider_error_classification",
                  \E i \in DOMAIN Calls(t) : Calls(t)[i].error # NoText))

RouteReading(t) ==
  Reading([provider_route_candidate_names |-> Values(Routes(t), LAMBDA c : c.name),
           provider_route_selected_names |->
                 Values(Where(Routes(t), LAMBDA c : c.selected), LAMBDA c : c.name),
           provider_route_reasons |-> Values(Routes(t), LAMBDA c : c.reason)],
          NoCounts, HoldsIf("provider_route_plan", Routes(t) # << >>))

RoutePreflightReading(t) ==
  LET route == RoutePreflight(t)
      candidates == IF route = None THEN << >> ELSE route.candidates
  IN  Reading([provider_route_preflight_candidate_names |->
                Values(candidates, LAMBDA c : c.name),
               provider_route_preflight_reasons |->
                     Values(candidates, LAMBDA c : c.reason)],
              NoCounts,
              HoldsIf("provider_route_preflight", route # None)
                \cup HoldsIf("provider_route_preflight_ready",
                             route # None /\ route.ready))

ShapeReading(t) ==
  Reading([provider_request_shape_decisions |->
            UNION {Shapes(t)[i].decisions : i \in DOMAIN Shapes(t)},
           provider_request_shape_provider_names |->
                 Values(Shapes(t), LAMBDA s : s.name)],
          [provider_request_shape_final_output_tokens |->
            MaxOf(Shapes(t), LAMBDA s : s.tokens)],
          HoldsIf("provider_request_shape_plan", Shapes(t) # << >>)
            \cup HoldsIf("provider_request_shape_adjusted",
                         \E i \in DOMAIN Shapes(t) : Shapes(t)[i].adjusted))

-----------------------------------------------------------------------------
(* The course of the run.                                                   *)

Hooks(t) == Of(t, "lifecycle_hooks")
HookReading(t) ==
  Reading([lifecycle_event_types |-> Values(Hooks(t), LAMBDA h : h.event),
           lifecycle_hook_statuses |-> Values(Hooks(t), LAMBDA h : h.status)],
          [lifecycle_hook_failures |-> CountOf(Hooks(t), LAMBDA h : h.status = "failed")],
          HoldsIf("lifecycle_hooks", Hooks(t) # << >>))

ResumeReading(t) ==
  LET point == First(t, "resume")
      plan == First(t, "resume_plan")
  IN  Reading([resume_checkpoint_id |->
                {p.checkpoint : p \in {point, plan} \ {None}}],
              NoCounts,
              HoldsIf("resume", point # None) \cup HoldsIf("resume_plan", plan # None)
                \cup HoldsIf("resume_plan_ready", plan # None /\ plan.ready))

PreflightReading(t) ==
  LET p == Preflight(t)
  IN  Reading([preflight_issue_codes |-> IF p = None THEN {} ELSE p.codes],
              [preflight_blocking_issues |-> IF p = None THEN 0 ELSE Cardinality(p.blocking)],
              HoldsIf("preflight", p # None)
                \cup HoldsIf("preflight_passed", p # None /\ p.status = "passed")
                \cup HoldsIf("preflight_blocked", p # None /\ p.status = "blocked"))

Handoffs(t) == IF t.built THEN HandoffTrace(t) ELSE OwnHandoffs(t)
HandoffReading(t) ==
  Reading([handoff_statuses |-> Values(Handoffs(t), LAMBDA r : r.status),
           handoff_selected_sessions |-> Values(Handoffs(t), LAMBDA r : r.selected),
           handoff_source_sessions |-> Values(Handoffs(t), LAMBDA r : r.source)],
          [handoff_denied |-> CountOf(Handoffs(t), LAMBDA r : r.status = "denied"),
           handoff_not_found |-> CountOf(Handoffs(t), LAMBDA r : r.status = "not_found")],
          HoldsIf("handoff", t.built \/ Handoffs(t) # << >>))

Storage(t) == IF t.built THEN SetToSeq(StorageBackends(t)) ELSE << >>
StorageReading(t) ==
  LET external == CountOf(Storage(t), LAMBDA b : ~b.builtin)
  IN  Reading([storage_backend_roles |-> Values(Storage(t), LAMBDA b : b.role),
               storage_backend_kinds |-> Values(Storage(t), LAMBDA b : b.kind)],
              [external_storage_backends |-> external],
              HoldsIf("storage_backends", Storage(t) # << >>)
                \cup HoldsIf("external_storage_backends", external > 0))

\* The raw preflight has no place the evaluator would look for the report in.
StorageReport(t) == IF t.built THEN StoragePreflight(t) ELSE None
StoragePreflightReading(t) ==
  LET p == StorageReport(t)
  IN  Reading([storage_backend_preflight_roles |-> (IF p = None THEN {} ELSE p.roles),
               storage_backend_preflight_reasons |-> IF p = None THEN {} ELSE p.reasons],
              [storage_backend_preflight_blocking |->
                IF p = None THEN 0 ELSE Cardinality(p.reasons)],
              HoldsIf("storage_backend_preflight", p # None)
                \cup HoldsIf("storage_backend_preflight_ready", p # None /\ p.ready))

-----------------------------------------------------------------------------
(* Context and prompt.                                                      *)

Injections(t) == Of(t, "context_injections")
InjectionReading(t) ==
  LET in == Where(Injections(t), LAMBDA i : i.included)
      out == Where(Injections(t), LAMBDA i : ~i.included)
      cut == Where(Injections(t), LAMBDA i : i.trimmed)
      Source(i) == i.source
  IN  Reading([context_injection_names |-> Values(Injections(t), LAMBDA i : i.name),
               context_injection_sources |-> Values(Injections(t), Source),
               context_injection_targets |-> Values(Injections(t), LAMBDA i : i.target),
               context_injection_statuses |-> Values(Injections(t), LAMBDA i : i.status),
               included_context_injection_sources |-> Values(in, Source),
               trimmed_context_injection_sources |-> Values(cut, Source),
               excluded_context_injection_sources |-> Values(out, Source)],
              [trimmed_context_injections |-> Len(cut),
               excluded_context_injections |-> Len(out)],
              HoldsIf("context_injections", Injections(t) # << >>)
                \cup HoldsIf("trimmed_context_injections", cut # << >>))

Materials(t) == IF t.built THEN ContextMaterialTrace(t) ELSE OwnMaterials(t)
MaterialReading(t) ==
  LET in == Where(Materials(t), LAMBDA m : m.selected)
  IN  Reading([selected_context_material_names |-> Values(in, LAMBDA m : m.name),
               context_material_statuses |-> Values(Materials(t), LAMBDA m : m.status),
               context_material_targets |-> Values(Materials(t), LAMBDA m : m.target)],
              [dropped_context_materials |-> CountOf(Materials(t), LAMBDA m : ~m.selected),
               selected_context_material_bytes |-> SumOf(in, LAMBDA m : m.bytes)],
              HoldsIf("context_material_selection", t.built \/ Materials(t) # << >>))

Governance(t) == Of(t, "governance")
GovernanceReading(t) ==
  Reading([memory_governance_decisions |-> Values(Governance(t), LAMBDA d : d.decision)],
          [denied_memory_writes |-> CountOf(Governance(t), LAMBDA d : d.decision = "deny"),
           rewritten_memory_writes |->
                 CountOf(Governance(t), LAMBDA d : d.decision = "rewrite"),
           high_risk_memory_writes |-> CountOf(Governance(t), LAMBDA d : d.risk = "high")],
          HoldsIf("memory_governance", Governance(t) # << >>))

BudgetReading(t) ==
  LET b == First(t, "prompt_budget")
  IN  Reading([prompt_budget_sources |-> (IF b = None THEN {} ELSE {b.source}),
               prompt_budget_provider_names |-> IF b = None THEN {} ELSE {b.provider}],
              [prompt_budget_target_bytes |-> IF b = None THEN 0 ELSE b.target],
              HoldsIf("prompt_budget", b # None)
                \cup HoldsIf("prompt_budget_provider_limited", b # None /\ b.limited))

\* One item per decision of the bucket budget, of the semantic trim and of
\* the byte trim.
Buckets(t) == Of(t, "bucket_budget")
BucketReading(t) ==
  LET over == CountOf(Buckets(t), LAMBDA d : d.over)
  IN  Reading([prompt_bucket_budget_roles |-> Values(Buckets(t), LAMBDA d : d.role),
               prompt_bucket_budget_statuses |-> Values(Buckets(t), LAMBDA d : d.status)],
              [prompt_bucket_budget_trimmed |->
                CountOf(Buckets(t), LAMBDA d : d.status = "trimmed"),
               prompt_bucket_budget_over_budget |-> over],
              HoldsIf("prompt_bucket_budget", Buckets(t) # << >>)
                \cup HoldsIf("over_budget_prompt_buckets", over > 0))

Semantic(t) == Of(t, "semantic_trim")
SemanticReading(t) ==
  Reading([prompt_semantic_trim_roles |-> Values(Semantic(t), LAMBDA d : d.role),
           prompt_semantic_trim_statuses |-> Values(Semantic(t), LAMBDA d : d.status)],
          [prompt_semantic_trimmed |->
            CountOf(Semantic(t), LAMBDA d : d.status = "trimmed"),
           prompt_semantic_dropped_units |-> SumOf(Semantic(t), LAMBDA d : d.dropped)],
          HoldsIf("prompt_semantic_trim", Semantic(t) # << >>))

TrimReading(t) ==
  Reading([prompt_trim_roles |-> Values(Of(t, "trim"), LAMBDA d : d.role)], NoCounts,
          HoldsIf("prompt_trim", Of(t, "trim") # << >>))

-----------------------------------------------------------------------------
(* Tools.                                                                   *)

\* Summaries of executions: of the events, of the journal, of the stored
\* results; one that repeats name, call, attempts and status is the same.
ExecutionKey(x) == [name |-> x.name, call |-> x.call, attempts |-> x.attempts,
                    status |-> x.status]
Reported(t) ==
  Where([i \in DOMAIN Of(t, "event_log") |-> Of(t, "event_log")[i].execution]
              \o [i \in DOMAIN Of(t, "journal") |-> Of(t, "journal")[i].execution]
              \o [i \in DOMAIN Of(t, "tool_replay") |-> Of(t, "tool_replay")[i].execution],
            LAMBDA x : x # None)
Executions(t) ==
  LET all == Reported(t)
      new == {i \in DOMAIN all : \A j \in 1..(i - 1) :
                ExecutionKey(all[j]) # ExecutionKey(all[i])}
  IN  SetToSeq({all[i] : i \in new})
Schemed(t) == Where(Executions(t), LAMBDA x : x.schema # "none")

ExecutionReading(t) ==
  LET Name(x) == x.name
  IN  Reading([tool_error_kinds |-> Values(Executions(t), LAMBDA x : x.error),
               tool_execution_names |-> Values(Executions(t), Name),
               tool_execution_ok_names |->
                     Values(Where(Executions(t), LAMBDA x : x.ok), Name),
               tool_retry_names |->
                     Values(Where(Executions(t), LAMBDA x : x.retried), Name),
               tool_schema_validation_names |-> Values(Schemed(t), Name),
               tool_schema_valid_names |->
                     Values(Where(Schemed(t), LAMBDA x : x.schema = "valid"), Name),
               tool_schema_invalid_names |->
                     Values(Where(Schemed(t), LAMBDA x : x.schema = "invalid"), Name)],
              [tool_schema_invalid |->
                CountOf(Schemed(t), LAMBDA x : x.schema = "invalid")],
              HoldsIf("tool_execution", Executions(t) # << >>)
                \cup HoldsIf("tool_error_classification",
                             \E i \in DOMAIN Executions(t) : Executions(t)[i].error # NoText)
                \cup HoldsIf("tool_schema_validation", Schemed(t) # << >>))

ToolNameReading(t) ==
  Reading([tool_names |-> Values(Of(t, "tool_replay"), LAMBDA r : r.tool)
            \cup Values(Of(t, "event_log"), LAMBDA e : e.tool)
            \cup Values(Of(t, "journal"), LAMBDA e : e.tool)], NoCounts, {})

ToolCenterReading(t) ==
  Reading([tool_center_selected_mounts |-> Values(Of(t, "tools"), LAMBDA c : c.mount),
           tool_center_selected_tools |-> Values(Of(t, "tools"), LAMBDA c : c.tool),
           tool_center_requested_tools |-> Values(Of(t, "tools"), LAMBDA c : c.requested)],
          [tool_center_failed_calls |-> Len(FailedCalls(t))],
          HoldsIf("tool_center", Of(t, "tools") # << >>)
            \cup HoldsIf("tool_center_ready_routes",
                         \A i \in DOMAIN Of(t, "tools") : Of(t, "tools")[i].ready))

\* Without a bundle only the metadata of results is looked at.
AgentTools(t) ==
  IF t.built THEN AgentToolTrace(t)
  ELSE LET held == Where([i \in DOMAIN Of(t, "tools") |-> Of(t, "tools")[i].resultAgent],
                             LAMBDA r : r # None)
       IN  [i \in DOMAIN held |-> AgentRecord(held[i])]
AgentToolReading(t) ==
  Reading([agent_tool_names |-> Values(AgentTools(t), LAMBDA r : r.tool),
           agent_tool_sessions |-> Values(AgentTools(t), LAMBDA r : r.session),
           agent_tool_statuses |-> Values(AgentTools(t), LAMBDA r : r.status)],
          [agent_tool_failures |-> CountOf(AgentTools(t), LAMBDA r : r.status # "completed")],
          HoldsIf("agent_tools", t.built \/ AgentTools(t) # << >>))

-----------------------------------------------------------------------------
(* Events and records.                                                      *)

Events(t) == Of(t, "event_log")
TerminalEvents == {"run_finished", "run_cancelled", "run_timeout"}
Duplicates(t) ==
  LET numbers == {Events(t)[i].seq : i \in DOMAIN Events(t)}
  IN  Len(Events(t)) - Cardinality(numbers)
Monotonic(t) == \A i \in 2..Len(Events(t)) : Events(t)[i].seq > Events(t)[i - 1].seq

EventReading(t) ==
  Reading([event_log_types |-> Values(Events(t), LAMBDA e : e.type)],
          [duplicate_event_sequences |-> Duplicates(t)],
          HoldsIf("event_log", Events(t) # << >>)
            \cup HoldsIf("terminal_event",
                         \E i \in DOMAIN Events(t) : Events(t)[i].type \in TerminalEvents)
            \cup HoldsIf("event_sequence_monotonic", Monotonic(t)))

Approvals(t) == IF t.built THEN ApprovalTrace(t) ELSE OwnApprovals(t)
ApprovalReading(t) ==
  Reading([approval_statuses |-> Values(Approvals(t), LAMBDA r : r.status),
           approval_subjects |-> Values(Approvals(t), LAMBDA r : r.subject),
           approval_subject_kinds |-> Values(Approvals(t), LAMBDA r : r.kind),
           approved_approval_subjects |->
                 Values(Where(Approvals(t), LAMBDA r : r.status = "approved"),
                        LAMBDA r : r.subject)],
          [pending_approvals |-> CountOf(Approvals(t), LAMBDA r : r.status = "pending"),
           rejected_approvals |-> CountOf(Approvals(t), LAMBDA r : r.status = "rejected")],
          HoldsIf("approvals", t.built \/ Approvals(t) # << >>))

Artifacts(t) == IF t.built THEN ArtifactTrace(t) ELSE OwnArtifacts(t)
ArtifactReading(t) ==
  Reading([artifact_kinds |-> Values(Artifacts(t), LAMBDA r : r.kind),
           artifact_tool_names |-> Values(Artifacts(t), LAMBDA r : r.tool)],
          [artifact_count |-> Len(Artifacts(t)),
           artifact_total_bytes |-> SumOf(Artifacts(t), LAMBDA r : r.size),
           artifact_size_bytes |-> MaxOf(Artifacts(t), LAMBDA r : r.size)],
          HoldsIf("artifacts", t.built \/ Artifacts(t) # << >>))

Structured(t) ==
  IF t.built THEN StructuredOutputTrace(t) ELSE OwnStructured(t)
StructuredReading(t) ==
  Reading([structured_output_schema_names |-> Values(Structured(t), LAMBDA r : r.schema),
           structured_output_errors |-> Values(Structured(t), LAMBDA r : r.error)],
          [structured_output_repairs |->
            CountOf(Structured(t), LAMBDA r : r.status = "structured_output_error"),
           structured_output_failures |-> CountOf(Structured(t), LAMBDA r : ~r.ok)],
          HoldsIf("structured_output", t.built \/ Structured(t) # << >>)
            \cup HoldsIf("structured_output_ok",
                         \E i \in DOMAIN Structured(t) : Structured(t)[i].ok))

\* Without a bundle only the first manifest of a planner is looked at.
Plans(t) ==
  IF t.built THEN PlannerTrace(t)
  ELSE LET all == Of(t, "planner_trace") \o Of(t, "planner") \o Of(t, "plan_executor")
       IN  IF all = << >> THEN [plans |-> << >>, reports |-> << >>]
           ELSE PlannerMaterials(all[1])
PlannerReading(t) ==
  LET p == Plans(t)
  IN  Reading([plan_ids |-> Values(p.plans, LAMBDA q : q.id),
               plan_step_ids |-> Values(StepsOf(p.plans), LAMBDA s : s.id),
               plan_step_statuses |-> Values(StepsOf(p.plans), LAMBDA s : s.status),
               plan_execution_statuses |-> Values(p.reports, LAMBDA r : r.status)],
              [failed_plan_steps |-> FailedSteps(p.plans, p.reports),
               blocked_plan_reports |->
                     CountOf(p.reports, LAMBDA r : r.status = "blocked")],
              HoldsIf("planner_trace", t.built \/ PlannerManifests(t) # << >>))

FailureReading(t) ==
  LET failures == IF t.built THEN FailureSummary(t) ELSE << >>
  IN  Reading([failure_sources |-> Values(failures, LAMBDA f : f.source)],
              [failure_count |-> Len(failures)], HoldsIf("failure_summary", t.built))

Servers(t) == Of(t, "mcp_servers")
ServersIn(t, status) ==
  IF t.built THEN ServersWith(t, status) ELSE OwnServers(t, status)
McpReading(t) ==
  Reading([mcp_server_names |-> Values(Servers(t), LAMBDA s : s.name),
           mcp_server_statuses |-> Values(Servers(t), LAMBDA s : s.status),
           mcp_refreshed_servers |-> ServersIn(t, "refreshed")],
          [mcp_failed_servers |-> Cardinality(ServersIn(t, "failed")),
           mcp_partial_inventory_refreshes |-> Cardinality(ServersIn(t, "partial"))],
          HoldsIf("mcp_center", Servers(t) # << >>))

SkillReading(t) ==
  Reading([loaded_skills |-> SkillNames(t), skill_resource_view_ids |-> ViewIds(t),
           skill_resource_view_skills |-> ViewSkills(t)],
          [skill_resource_views |-> Len(Of(t, "views"))],
          HoldsIf("skill_center", Of(t, "skills") \o Of(t, "views") # << >>))

-----------------------------------------------------------------------------
(* The whole evaluation.                                                    *)

CallPart(t, part) ==
  CASE part = "run" -> RunReading(t)
    [] part = "provider" -> ProviderReading(t)
    [] part = "stream" -> StreamReading(t)
    [] part = "tool_calls" -> ToolCallReading(t)
    [] part = "tool_results" -> ToolResultReading(t)
    [] part = "errors" -> ErrorReading(t)
    [] part = "routes" -> RouteReading(t)
    [] part = "route_preflight" -> RoutePreflightReading(t)
    [] part = "shapes" -> ShapeReading(t)
CoursePart(t, part) ==
  CASE part = "hooks" -> HookReading(t)
    [] part = "resume" -> ResumeReading(t)
    [] part = "preflight" -> PreflightReading(t)
    [] part = "handoff" -> HandoffReading(t)
    [] part = "tool_center" -> ToolCenterReading(t)
    [] part = "agent_tools" -> AgentToolReading(t)
    [] part = "failures" -> FailureReading(t)
    [] part = "mcp" -> McpReading(t)
    [] part = "skills" -> SkillReading(t)
    [] part = "storage" -> StorageReading(t)
    [] part = "storage_preflight" -> StoragePreflightReading(t)
PromptPart(t, part) ==
  CASE part = "injections" -> InjectionReading(t)
    [] part = "materials" -> MaterialReading(t)
    [] part = "governance" -> GovernanceReading(t)
    [] part = "budget" -> BudgetReading(t)
    [] part = "buckets" -> BucketReading(t)
    [] part = "semantic" -> SemanticReading(t)
    [] part = "trim" -> TrimReading(t)
RecordPart(t, part) ==
  CASE part = "events" -> EventReading(t)
    [] part = "approvals" -> ApprovalReading(t)
    [] part = "artifacts" -> ArtifactReading(t)
    [] part = "structured" -> StructuredReading(t)
    [] part = "planner" -> PlannerReading(t)
    [] part = "tool_names" -> ToolNameReading(t)
    [] part = "executions" -> ExecutionReading(t)

OfCalls == {"run", "provider", "stream", "tool_calls", "tool_results", "errors", "routes",
            "route_preflight", "shapes"}
OfCourse == {"hooks", "resume", "preflight", "handoff", "tool_center", "agent_tools",
             "failures", "mcp", "skills", "storage", "storage_preflight"}
OfPrompt == {"injections", "materials", "governance", "budget", "buckets", "semantic", "trim"}
Part(t, part) ==
  CASE part \in OfCalls -> CallPart(t, part)
    [] part \in OfCourse -> CoursePart(t, part)
    [] part \in OfPrompt -> PromptPart(t, part)
    [] OTHER -> RecordPart(t, part)

\* A check of a TraceEvalSpec: of one part, one field, and a value or limit.
Satisfies(reading, c) ==
  CASE c.check = "require" -> c.field \in reading.holds
    [] c.check = "forbid" -> c.field \notin reading.holds
    [] c.check = "required" -> c.value \in reading.values[c.field]
    [] c.check = "forbidden" -> c.value \notin reading.values[c.field]
    [] c.check = "max" -> reading.counts[c.field] <= c.value

Issues(t, spec) == {c \in spec : ~Satisfies(Part(t, c.part), c)}

\* Every stored trace is evaluated, in the order of the store.
EvaluateAll(spec) ==
  [i \in DOMAIN RecordsInMemory |-> Issues(RecordsInMemory[i], spec)]

=============================================================================
