------------------------------ MODULE RunTrace ------------------------------
(***************************************************************************)
(* The trace of a run: what the runner puts into the bundle it saves when  *)
(* a run ends, the summaries the bundle derives from the raw manifests,    *)
(* its list of failures, the index that relates its parts, and the three   *)
(* stores that keep one bundle per run.                                    *)
(*                                                                         *)
(* A manifest is a sequence of items, each of a section and written by a   *)
(* run.  A missing text is NoText, a missing record None.                  *)
(***************************************************************************)
EXTENDS Integers, SequencesExt, FiniteSetsExt, Lists

CONSTANTS
  TraceRuns,    \* run ids, numbered in the order of their text
  Items,        \* what a run may record: [section, data]
  EndStatuses,  \* the statuses a run may end with
  MaxItems,     \* bound: items one session records
  TraceQueries, \* [runs, statuses, limit, reverse]
  None          \* no record, no run

ASSUME TraceAssumption == TraceRuns \subseteq Nat

NoText == ""

VARIABLES
  log,       \* the items of the session, in the order they were recorded
  active,    \* the run under way, or None
  kept,      \* InMemoryRunTraceStore: run id -> trace
  rows,      \* SQLiteRunTraceStore: traces in the order of their rows
  page       \* MarkdownRunTraceStore: traces in the order of the file

traceVars == <<log, active, kept, rows, page>>

-----------------------------------------------------------------------------
(* The sections.                                                            *)

\* A session keeps these over all of its runs.
SessionSections ==
  {"provider", "tool_replay", "policy_decisions", "approvals", "event_log", "tools",
   "mcp_servers", "mcp_refreshes", "skills", "views", "lifecycle_hooks", "governance",
   "artifacts", "storage"}

\* These are of one run.
OwnSections ==
  {"journal", "context_injections", "materials", "handoff", "prompt_budget",
   "bucket_budget", "semantic_trim", "trim", "preflight", "resume", "resume_plan"}

\* The runner has no manifest of these: only a host puts them into a bundle.
HostSections == {"embedding", "planner", "plan_executor", "planner_trace"}

\* The elements of s that pass a test, in their order.
Where(s, Test(_)) == Filtered(s, {x \in ToSet(s) : Test(x)})

\* The data of the items of one section.
DataOf(items) == [i \in DOMAIN items |-> items[i].data]
Of(t, section) == DataOf(Filtered(t.items, {item \in ToSet(t.items) : item.section = section}))
First(t, section) == IF Of(t, section) = << >> THEN None ELSE Of(t, section)[1]

\* How many of a sequence satisfy a test, and the non-empty values of a field.
CountOf(s, Test(_)) == Cardinality({i \in DOMAIN s : Test(s[i])})
Values(s, Field(_)) == {Field(s[i]) : i \in DOMAIN s} \ {NoText}

-----------------------------------------------------------------------------
(* What the bundle derives from the raw manifests.                          *)

ApprovalTrace(t) == Where(Of(t, "approvals"), LAMBDA r : r.id # NoText)

ArtifactTrace(t) == Where(Of(t, "artifacts"), LAMBDA r : r.id # NoText)

\* A record without a status that stays so.
HandoffRecordAsItIs(r) == r

\* A record that names a chosen session needs no status of its own.
HandoffRecord(r) ==
  [r EXCEPT !.status = IF @ = NoText /\ r.selected # NoText THEN "selected" ELSE @]
HandoffTrace(t) ==
  LET all == Of(t, "handoff")
  IN  Where([i \in DOMAIN all |-> HandoffRecord(all[i])], LAMBDA r : r.status # NoText)

ContextMaterialTrace(t) ==
  IF Of(t, "materials") # << >> THEN Of(t, "materials")
  ELSE LET used == Where(Of(t, "context_injections"), LAMBDA i : i.material # None)
       IN  [i \in DOMAIN used |->
              [name |-> used[i].name, status |-> "selected", selected |-> TRUE,
               target |-> IF used[i].material.target # NoText THEN used[i].material.target
                          ELSE used[i].target,
               bytes |-> used[i].bytes]]

\* The record of a managed agent, in the metadata of a call or of its result.
AgentRecord(r) ==
  [r EXCEPT !.status = IF @ # NoText THEN @ ELSE IF r.error THEN "failed" ELSE "unknown"]
IsAgentRecord(r) == r # None /\ (r.tool # NoText \/ r.session # NoText)
AgentToolTrace(t) ==
  LET found == [i \in DOMAIN Of(t, "tools") |->
                  LET call == Of(t, "tools")[i]
                  IN  IF IsAgentRecord(call.agent) THEN call.agent ELSE call.resultAgent]
      real == Where(found, IsAgentRecord)
  IN  [i \in DOMAIN real |-> AgentRecord(real[i])]

\* A plan, a report, a plan executor's reports, or a trace of both.
PlannerMaterials(m) ==
  LET inReports == Joined([i \in DOMAIN m.reports |-> m.reports[i].plan])
  IN  [plans |-> CASE m.form = "trace" -> m.plans
                   [] m.form = "executor" -> inReports
                   [] m.form = "plan" -> m.plans
                   [] OTHER -> m.plans \o inReports,
       reports |-> IF m.form = "plan" THEN << >> ELSE m.reports]
PlannerManifests(t) == Of(t, "planner") \o Of(t, "plan_executor") \o Of(t, "planner_trace")
PlannerTrace(t) ==
  LET all == [i \in DOMAIN PlannerManifests(t) |-> PlannerMaterials(PlannerManifests(t)[i])]
  IN  [plans |-> Joined([i \in DOMAIN all |-> all[i].plans]),
       reports |-> Joined([i \in DOMAIN all |-> all[i].reports])]
StepsOf(owners) == Joined([i \in DOMAIN owners |-> owners[i].steps])
FailedSteps(plans, reports) ==
  CountOf(StepsOf(plans), LAMBDA s : s.status = "failed")
    + CountOf(StepsOf(reports), LAMBDA s : s.status = "failed")

\* The validation results that the run's checkpoints carry.
FaultStatuses == {"structured_output_error", "structured_output_failed"}
IsStructured(state) == state.status \in FaultStatuses \/ state.ok # "none"
StructuredRecord(state) ==
  [status |-> IF state.status # NoText THEN state.status
              ELSE IF state.ok = "true" THEN "structured_output_ok"
              ELSE "structured_output_failed",
   ok |-> state.ok = "true", schema |-> state.schema, error |-> state.error]
StructuredOutputTrace(t) ==
  LET at == Where(Of(t, "journal"),
                      LAMBDA e : e.type = "checkpoint" /\ IsStructured(e.state))
  IN  [i \in DOMAIN at |-> StructuredRecord(at[i].state)]

FailedCalls(t) == Where(Of(t, "tools"), LAMBDA c : c.status # "completed")

\* A server's own status, then what the last refresh adds.
ServersWith(t, status) ==
  LET servers == Of(t, "mcp_servers")
      refreshes == Of(t, "mcp_refreshes")
      added == IF status \in {"partial", "failed"} THEN refreshes ELSE << >>
  IN  {servers[i].name : i \in {j \in DOMAIN servers : servers[j].status = status}}
        \cup {added[i].name : i \in {j \in DOMAIN added : added[j].status = status}}

SkillNames(t) == {Of(t, "skills")[i].name : i \in DOMAIN Of(t, "skills")}
ViewIds(t) == Values(Of(t, "views"), LAMBDA v : v.id)
ViewSkills(t) == Values(Of(t, "views"), LAMBDA v : v.skill)

\* One entry per backend, however many manifests show it.
StorageBackends(t) == ToSet(Of(t, "storage"))

\* A report on the route or the storage that the preflight carries.
Preflight(t) == First(t, "preflight")
RoutePreflight(t) == IF Preflight(t) = None THEN None ELSE Preflight(t).route
StoragePreflight(t) == IF Preflight(t) = None THEN None ELSE Preflight(t).storage

-----------------------------------------------------------------------------
(* The failures.                                                            *)

EventFailures == {"error", "run_cancelled", "run_timeout"}

FailuresOf(t, source, s) == [i \in DOMAIN s |-> [source |-> source, what |-> s[i]]]
OneFailure(t, source, what, holds) ==
  IF holds THEN <<[source |-> source, what |-> what]>> ELSE << >>

ProviderFailures(t) ==
  Where(Of(t, "provider"), LAMBDA c : c.status = "failed" \/ c.error # NoText)

StructuredErrors(t) ==
  LET records == StructuredOutputTrace(t)
  IN  IF \E i \in DOMAIN records : ~records[i].ok
      THEN SetToSeq(Values(records, LAMBDA r : r.error)) ELSE << >>

\* Only what says failed, not what was denied, cut off or left unknown.
FailedAgentsOnly(t) == Where(AgentToolTrace(t), LAMBDA r : r.status = "failed")

FailedAgents(t) == Where(AgentToolTrace(t), LAMBDA r : r.status # "completed")

FailureSummary(t) ==
  LET plans == PlannerTrace(t)
      approvals == ApprovalTrace(t)
      events == Where(Of(t, "event_log"), LAMBDA e : e.type \in EventFailures)
      route == RoutePreflight(t)
      storage == StoragePreflight(t)
  IN  OneFailure(t, "run", t.status, t.status \notin {NoText, "completed"})
        \o FailuresOf(t, "provider",
                      [i \in DOMAIN ProviderFailures(t) |-> ProviderFailures(t)[i].error])
        \o FailuresOf(t, "tool_center",
                      [i \in DOMAIN FailedCalls(t) |-> FailedCalls(t)[i].status])
        \o (IF Preflight(t) # None /\ Preflight(t).status = "blocked"
            THEN FailuresOf(t, "preflight", SetToSeq(Preflight(t).blocking)) ELSE << >>)
        \o OneFailure(t, "provider_route_preflight", "blocked",
                      route # None /\ ~route.ready)
        \o OneFailure(t, "storage_backend_preflight", "blocked",
                      storage # None /\ ~storage.ready)
        \o FailuresOf(t, "event_log", [i \in DOMAIN events |-> events[i].type])
        \o FailuresOf(t, "structured_output", StructuredErrors(t))
        \o OneFailure(t, "planner", "failed", FailedSteps(plans.plans, plans.reports) > 0)
        \o OneFailure(t, "approval", "rejected",
                      \E i \in DOMAIN approvals : approvals[i].status = "rejected")
        \o OneFailure(t, "approval", "cancelled",
                      \E i \in DOMAIN approvals : approvals[i].status = "cancelled")
        \o FailuresOf(t, "agent_tool", [i \in DOMAIN FailedAgents(t) |-> FailedAgents(t)[i].status])
        \o FailuresOf(t, "mcp", SetToSeq(ServersWith(t, "failed")))

-----------------------------------------------------------------------------
(* The index: one entry per item, with the run it is filed under.           *)

\* Journal and event items of another run are left out; an approval or a
\* decision keeps its own run; a stored tool result and a provider call that
\* name no run are filed under the trace's.
Filed(t, item) ==
  CASE item.section \in {"tool_replay", "provider", "embedding"} -> t.run
    [] item.run = None -> t.run
    [] OTHER -> item.run
Indexed == {"journal", "provider", "embedding", "tool_replay", "policy_decisions",
            "approvals", "event_log"}
Correlation(t) ==
  LET in == Where(t.items,
              LAMBDA item : /\ item.section \in Indexed
                            /\ item.section \in {"journal", "event_log"}
                                 => item.run \in {None, t.run})
  IN  [i \in DOMAIN in |-> [source |-> in[i].section, run |-> Filed(t, in[i]),
                            recorded |-> in[i].run]]

-----------------------------------------------------------------------------
(* The stores.                                                              *)

\* Of one file or table, sorted by run id, of which a store has one trace (_trace_sort_key
\* goes on with the status, here with the place).
Sorted(traces) ==
  LET order == SortedBy(DOMAIN traces, [i \in DOMAIN traces |-> <<traces[i].run, i>>])
  IN [n \in DOMAIN order |-> traces[order[n]]]

SaveInMemory(t) == kept' = [r \in DOMAIN kept \cup {t.run} |->
                              IF r = t.run THEN t ELSE kept[r]]

\* An insert without its conflict clause.
UpsertedAlwaysNew(t) == Append(rows, t)

\* The row of a run that is saved again keeps its place.
Upserted(t) ==
  IF \E i \in DOMAIN rows : rows[i].run = t.run
  THEN [i \in DOMAIN rows |-> IF rows[i].run = t.run THEN t ELSE rows[i]]
  ELSE Append(rows, t)
SaveInTable(t) == rows' = Upserted(t)

\* The whole file is read, changed and written again.
SaveInFile(t) ==
  page' = Sorted(Append(Filtered(page, {u \in ToSet(page) : u.run # t.run}), t))

Save(t) == SaveInMemory(t) /\ SaveInTable(t) /\ SaveInFile(t)

RecordsInMemory ==
  LET order == SortedBy(DOMAIN kept, [r \in DOMAIN kept |-> <<r>>])
  IN [n \in DOMAIN order |-> kept[order[n]]]

Matching(records, q) ==
  {t \in ToSet(records) : /\ q.runs = {} \/ t.run \in q.runs
                          /\ q.statuses = {} \/ t.status \in q.statuses}
Query(records, q) ==
  LET found == Sorted(Filtered(records, Matching(records, q)))
      ordered == IF q.reverse THEN Reverse(found) ELSE found
  IN  IF q.limit = None THEN ordered ELSE FirstOf(q.limit, ordered)

-----------------------------------------------------------------------------
(* Runs.                                                                    *)

TraceInit ==
  /\ log = << >> /\ active = None
  /\ kept = << >> /\ rows = << >> /\ page = << >>

Used == DOMAIN kept \cup {log[i].run : i \in DOMAIN log} \cup {active}

BeginRun(r) ==
  /\ active = None /\ r \notin Used
  /\ active' = r
  /\ UNCHANGED <<log, kept, rows, page>>

\* A server or a skill is listed once in its inventory, and a run has one
\* preflight, one resume point and one budget.
Single == {"mcp_servers", "mcp_refreshes", "skills"}
OncePerRun == {"preflight", "resume", "resume_plan", "prompt_budget", "planner",
               "plan_executor", "planner_trace"}
MayRecord(item) ==
  \A i \in DOMAIN log :
    /\ item.section \in Single /\ log[i].section = item.section
         => log[i].data.name # item.data.name
    /\ item.section \in OncePerRun /\ log[i].section = item.section
         => log[i].run # active

\* Between two runs only what the session keeps is written.
Record(item) ==
  /\ Len(log) < MaxItems /\ MayRecord(item)
  /\ active = None => item.section \in SessionSections
  /\ log' = Append(log, [section |-> item.section, run |-> active, data |-> item.data])
  /\ UNCHANGED <<active, kept, rows, page>>

\* The bundle has the session's manifests as they are, and the run's own.
InBundle(item, r) ==
  item.section \in SessionSections \/ (item.section \in OwnSections /\ item.run = r)

Bundle(r, status, iterations, items) ==
  [run |-> r, status |-> status, iterations |-> iterations, items |-> items,
   built |-> TRUE]

FinishRun(status) ==
  /\ active # None
  /\ Save(Bundle(active, status, 1, Where(log, LAMBDA item : InBundle(item, active))))
  /\ active' = None
  /\ UNCHANGED log

\* A run that the preflight blocks gets a run id only for its trace.
BlockRun(r, p) ==
  /\ active = None /\ r \notin Used
  /\ p.section = "preflight" /\ p.data.status = "blocked"
  /\ LET session == Where(log, LAMBDA item : InBundle(item, r))
         own == [section |-> "preflight", run |-> r, data |-> p.data]
     IN  Save(Bundle(r, "denied", 0, Append(session, own)))
  /\ UNCHANGED <<log, active>>

\* A host saves the trace of an ended run again, with every manifest it has
\* of that run.
HostSaves(r) ==
  /\ active = None /\ r \in DOMAIN kept
  /\ Save(Bundle(r, kept[r].status, kept[r].iterations,
                 Where(log, LAMBDA item : item.run \in {r, None})))
  /\ UNCHANGED <<log, active>>

TraceNext ==
  \/ \E r \in TraceRuns : BeginRun(r) \/ HostSaves(r)
  \/ \E item \in Items : Record(item)
  \/ \E status \in EndStatuses : FinishRun(status)
  \/ \E r \in TraceRuns, p \in Items : BlockRun(r, p)

TraceSpec == TraceInit /\ [][TraceNext]_traceVars

Saved == {kept[r] : r \in DOMAIN kept}

-----------------------------------------------------------------------------
(* Properties.                                                              *)

(* Whatever was saved, in whatever order and however often: the dictionary, *)
(* the table and the file answer every query alike (RunTraceStorePort).     *)
StoresAgree ==
  \A q \in TraceQueries :
    /\ Query(RecordsInMemory, q) = Query(rows, q)
    /\ Query(RecordsInMemory, q) = Query(page, q)

(* Not so: an entry of a saved index is filed under the run that recorded   *)
(* its item ("It gives provider-neutral cross references across provider    *)
(* calls, tool replay records, [...] by run", architecture.md:426).         *)
FiledUnderItsRun ==
  \A t \in Saved : \A i \in DOMAIN Correlation(t) :
    Correlation(t)[i].recorded \in {None, Correlation(t)[i].run}
=============================================================================
