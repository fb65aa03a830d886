------------------------------ MODULE MCTraces ------------------------------
(***************************************************************************)
(* Traces on small instances: each behaviour records the items of one      *)
(* group, so that items that meet in one part are recorded together.       *)
(***************************************************************************)
EXTENDS TraceReplay

VARIABLE group
MCVars == <<group, log, active, kept, rows, page>>

In(section, data) == [section |-> section, data |-> data]

-----------------------------------------------------------------------------
Plain == [name |-> "p1", model |-> "m1", status |-> "completed", error |-> "",
          streamed |-> FALSE, stream |-> "none", caps |-> {"tools"}, calls |-> <<"t1">>,
          streamCalls |-> << >>, shape |-> None, cost |-> 1,
          route |-> <<[name |-> "p1", selected |-> TRUE, reason |-> "ok"]>>]
ProviderItems ==
  {In("provider", c) : c \in {Plain,
     [Plain EXCEPT !.streamed = TRUE, !.stream = "ok", !.streamCalls = <<"t1">>,
        !.shape = [name |-> "p1", adjusted |-> TRUE, tokens |-> 2, decisions |-> {"cut"}]],
     [Plain EXCEPT !.name = "p2", !.status = "failed", !.error = "timeout",
        !.streamed = TRUE, !.stream = "error", !.calls = << >>]}}
  \cup {In("embedding", [name |-> "e1", model |-> "m2", status |-> "completed"])}

Execution(status, schema) ==
  [name |-> "t1", call |-> "c1", attempts |-> 1, status |-> status,
   ok |-> status = "completed", retried |-> FALSE, schema |-> schema,
   error |-> IF status = "completed" THEN "" ELSE "runtime"]
NoState == [status |-> "", ok |-> "none", schema |-> "", error |-> ""]
Entry(type, tool, native, execution, state) ==
  [type |-> type, turn |-> 1, tool |-> tool, call |-> "c1", native |-> native,
   status |-> IF type = "tool_call" THEN execution.status ELSE "",
   execution |-> execution, state |-> state]
Event(type, seq, execution) ==
  [type |-> type, seq |-> seq, tool |-> IF execution = None THEN "" ELSE execution.name,
   execution |-> execution]
ExecutionItems ==
  {In("journal", Entry("tool_call", "t1", TRUE, Execution("completed", "valid"), NoState)),
   In("journal", Entry("tool_call", "t1", TRUE, Execution("failed", "invalid"), NoState)),
   In("tool_replay", [tool |-> "t1", execution |-> Execution("completed", "valid")]),
   In("event_log", Event("tool_finished", 1, Execution("completed", "valid")))}
EventItems ==
  {In("event_log", Event("run_started", 1, None)), In("event_log", Event("error", 2, None)),
   In("event_log", Event("run_finished", 2, None)),
   In("policy_decisions", [allowed |-> TRUE])}

State(status, ok, error) == [status |-> status, ok |-> ok, schema |-> "s1", error |-> error]
StructuredItems ==
  {In("journal", Entry("checkpoint", "", FALSE, None, s)) : s \in
     {State("completed", "true", ""), State("structured_output_error", "false", "e1"),
      State("structured_output_error", "none", "e1"), State("", "false", "e2"), NoState}}

-----------------------------------------------------------------------------
Agent(tool, status, error) ==
  [tool |-> tool, session |-> "s1", status |-> status, error |-> error]
Call(status, agent, resultAgent) ==
  [requested |-> "t1", status |-> status, mount |-> "m1", tool |-> "t1",
   ready |-> status = "completed", agent |-> agent, resultAgent |-> resultAgent]
ToolItems ==
  {In("tools", Call("completed", None, Agent("a1", "completed", FALSE))),
   In("tools", Call("failed", None, Agent("a1", "", TRUE))),
   In("tools", Call("completed", Agent("a2", "denied", FALSE), None)),
   In("tools", Call("completed", None, None))}

HandoffData(status, selected) ==
  [status |-> status, selected |-> selected, source |-> "s1", target |-> "s2"]
RecordItems ==
  {In("approvals", [id |-> "ap1", status |-> s, subject |-> "t1", kind |-> "tool"]) :
     s \in {"pending", "rejected"}}
  \cup {In("approvals", [id |-> "", status |-> "approved", subject |-> "t1", kind |-> "tool"])}
  \cup {In("artifacts", [id |-> i, kind |-> "text", tool |-> "t1", size |-> 2]) :
          i \in {"", "ar1"}}
HandoffItems ==
  {In("handoff", HandoffData("", "s2")), In("handoff", HandoffData("", "")),
   In("handoff", HandoffData("denied", "")), In("handoff", HandoffData("selected", "s2"))}

Steps12(status) == <<[id |-> "st1", status |-> "completed"], [id |-> "st2", status |-> status]>>
Plan(status) == [id |-> "pl1", steps |-> Steps12(status)]
Report(plan) == [status |-> "blocked", plan |-> plan, steps |-> Steps12("failed")]
Planning(form, plans, reports) == [form |-> form, plans |-> plans, reports |-> reports]
PlannerItems ==
  {In("planner", Planning("plan", <<Plan("failed")>>, << >>)),
   In("plan_executor", Planning("executor", << >>, <<Report(<<Plan("pending")>>)>>)),
   In("planner_trace", Planning("trace", <<Plan("pending")>>, <<Report(<< >>)>>))}

-----------------------------------------------------------------------------
Material(name, selected) ==
  [name |-> name, status |-> IF selected THEN "selected" ELSE "dropped",
   selected |-> selected, target |-> "dynamic", bytes |-> 1]
Inject(name, included, material) ==
  [name |-> name, source |-> "knowledge", target |-> "dynamic",
   status |-> IF included THEN "included" ELSE "excluded", included |-> included,
   trimmed |-> FALSE, bytes |-> 1, material |-> material]
ContextItems ==
  {In("materials", Material("k1", TRUE)), In("materials", Material("k2", FALSE)),
   In("context_injections", Inject("k1", TRUE, [target |-> ""])),
   In("context_injections", Inject("k2", FALSE, None)),
   In("governance", [decision |-> "deny", risk |-> "high"])}
Decision(role, status) == [role |-> role, status |-> status, over |-> TRUE, dropped |-> 1]
PromptItems ==
  {In("bucket_budget", Decision("memory", "trimmed")),
   In("bucket_budget", Decision("memory", "kept")),
   In("semantic_trim", Decision("memory", "trimmed")),
   In("trim", [role |-> "memory"]),
   In("prompt_budget", [source |-> "provider", provider |-> "p1", limited |-> TRUE,
                        target |-> 9])}

Check(status, blocking, ready) ==
  [status |-> status, codes |-> blocking \cup {"note"}, blocking |-> blocking,
   route |-> [ready |-> ready, candidates |-> <<[name |-> "p1", reason |-> "ok"]>>],
   storage |-> [ready |-> ready, roles |-> {"memory"},
                reasons |-> IF ready THEN {} ELSE {"missing"}]]
CourseItems ==
  {In("preflight", Check("passed", {}, TRUE)),
   In("preflight", Check("blocked", {"model", "store"}, FALSE)),
   In("resume", [checkpoint |-> "c1"]), In("resume_plan", [checkpoint |-> "c1", ready |-> TRUE]),
   In("lifecycle_hooks", [hook |-> "h1", event |-> "before_run", status |-> "failed"])}
CenterItems ==
  {In("mcp_servers", [name |-> "s1", status |-> "failed"]),
   In("mcp_servers", [name |-> "s2", status |-> "ready"]),
   In("mcp_refreshes", [name |-> "s1", status |-> "failed"]),
   In("skills", [name |-> "k1"]), In("views", [id |-> "v1", skill |-> "k1"]),
   In("storage", [role |-> "memory", kind |-> "sqlite", name |-> "m", builtin |-> FALSE])}

Groups == {ProviderItems, ExecutionItems, EventItems, StructuredItems, ToolItems,
           RecordItems, HandoffItems, PlannerItems, ContextItems, PromptItems,
           CourseItems, CenterItems}
MCItems == UNION Groups

-----------------------------------------------------------------------------
MCQueries ==
  [runs : {{}, {1}}, statuses : {{}, {"denied"}}, limit : {None, 1}, reverse : BOOLEAN]
MCDiffSpecs ==
  {[ordered |-> o, sources |-> p, payloads |-> p, ignored |-> i] :
     o \in BOOLEAN, p \in BOOLEAN, i \in {{}, {"provider", "failed"}}}

Has(part, field) == [part |-> part, check |-> "require", field |-> field, value |-> ""]
Not(part, field) == [part |-> part, check |-> "forbid", field |-> field, value |-> ""]
Needs(part, field, value) ==
  [part |-> part, check |-> "required", field |-> field, value |-> value]
Bars(part, field, value) ==
  [part |-> part, check |-> "forbidden", field |-> field, value |-> value]
AtMost(part, field, n) == [part |-> part, check |-> "max", field |-> field, value |-> n]
MCEvalSpecs ==
  {{Has("preflight", "preflight_passed"), Has("hooks", "lifecycle_hooks"),
    Not("structured", "structured_output_ok"), Needs("handoff", "handoff_statuses", "denied"),
    Bars("provider", "provider_names", "p2"), AtMost("stream", "provider_stream_errors", 1),
    AtMost("artifacts", "artifact_total_bytes", 2),
    AtMost("agent_tools", "agent_tool_failures", 0),
    AtMost("tool_calls", "provider_tool_calls", 1),
    AtMost("tool_results", "provider_tool_result_failures", 0)},
   {Needs("approvals", "approval_statuses", "pending"),
    Needs("skills", "skill_resource_view_ids", "v1"),
    Bars("structured", "structured_output_errors", "e1"),
    AtMost("materials", "dropped_context_materials", 0),
    AtMost("buckets", "prompt_bucket_budget_trimmed", 0),
    AtMost("semantic", "prompt_semantic_dropped_units", 1),
    Has("resume", "resume_plan_ready"), Not("shapes", "provider_request_shape_adjusted")}}

MCInit == TraceInit /\ group \in Groups
MCNext ==
  /\ TraceNext
  /\ \A i \in DOMAIN log' \ DOMAIN log : In(log'[i].section, log'[i].data) \in group
  /\ UNCHANGED group
MCSpec == MCInit /\ [][MCNext]_MCVars
=============================================================================
