# A verification of the agent core

`src/agent_core` is an agent SDK: a host registers sessions with a manager, the
manager runs tasks on them, each run is a ReAct loop that asks a model, gates and
executes what it wants, and keeps a journal from which an interrupted run can be
resumed. Everything runs in one asyncio thread, so code between two awaits is
atomic and every await is a place where another run, a cancel, a deadline, an
operator's decision or the end of the process may come in between.

This directory holds TLA+ modules translated from that code, TLC configurations
that check them on small instances, and proofs for every value of the constants.
`PROJECT.json` maps each definition to the lines it stands for and lists the
hazards, the runs, the findings and the theorems.

## 1. Inventory

| Component (source) | State | Operations | Correct when |
|---|---|---|---|
| Session manager (`runner.py`, `AgentSessionManager`) | registered sessions, records of runs and their status, claimed capacity per session, background tasks, outcomes, the run store | register, unregister, run, start, cancel, wait, poll for capacity, restore | capacity is never exceeded and never leaks; an accepted cancel reaches its run and no other; endings are final and agree with outcomes; queued runs are admitted or withdrawn |
| ReAct loop (`react.py`, `loop_guard.py`, `structured.py`, `actions.py`) | turn, answer, calls left, repairs, guard, cancel token | run: ask, parse, gate, verify, invoke, validate, end | nothing runs past its gate, after a cancel, or unrecorded; endings mean what they say |
| Run journal (`harness.py`) and its audit (`trace.py`) | runs, turns, prompts, model events, tool calls, checkpoints, finished entries, errors; the snapshot in the store | start_run, start_turn, record_*, checkpoint, finish_run, record_error, open | what a call returned for survives; a run ends once, with its turns; the audit finds nothing |
| Resume index (`harness.py`, `runner.py`) | derived from the journal | index, plan, token, resume | the plan names the run's latest checkpoint; a token that was once given can be redeemed |
| Approvals and policy (`approvals.py`, `policy.py`) | rules, approval records, grants, decision log | check, submit, decide, resume with grants | only an approval of that subject unlocks it, and it is never revised |
| Tools (`tools.py`) | mounts, execution records, replay store | route, validate, invoke with retry, replay | one route per name, attempts within the policy, a replayed result is that of the same request |
| MCP (`mcp.py`) | server specs and states, connections, catalogues | connect, refresh, close, route | what is offered comes from a live server |
| Planner (`planner.py`), handoff and agent tools (`handoff.py`) | plans and step statuses; routes; records of delegated runs | execute a plan, hand a task to a session, call an agent as a tool | steps run after what they depend on; nothing runs that nobody awaits |
| Event stream (`events.py`) | event log, cursors | emit, page, tail | a client of a run sees each of its events once, in order |
| Skills and core actions (`skills.py`, `react.py`) | loaded skills, view windows, remembered capabilities | load, view, move a window, forget | a reader that reads on sees every line |
| Providers (`providers.py`, `errors.py`) | providers, usage, records | complete, stream, retry, fall back; encode and decode | every attempt accounted for, limits within reach, an answer means the same streamed and whole |
| Memory (`memory.py`) | stores, flush buffer, hashes seen, recalled hits | observe, flush, write, search, inject | no signal is lost or written twice; only governed writes; the best is found and shown |
| Turn refresh and perception (`turn_runtime.py`, `runner.py`) | perception state, evaluations and recalls in the background | tool result, evaluate, before and after a model call | answers are about the current state and reach the turn they are for |
| Context and prompt (`context.py`, `prompt.py`) | mounts, materials, injections, buckets | search, select, inject, reduce, trim | the best that fits; the volatile goes first |
| Timeline (`timeline.py`, `reducer.py`) | facts, digest, archive references | add, delete, truncate, diff, view, reduce | a reader gets each fact once; what is cached stays |
| Traces (`trace.py`), evaluations and replays (`evals.py`) | bundles in three kinds of store | save, query, summarise, evaluate, compare | stores answer alike; the summaries, the evaluation and the replay agree |
| Embeddings, search, knowledge | dictionaries | look up, score | data |
| Lifecycle, preflight, recovery, validation, schema, task contract | none | report to the host | data |
| Export, redaction, artifacts, state bundle, manifests, testing doubles, `*_acceptance.py` | none | describe or exercise the system | not part of its behaviour |

How they interact: the host calls the manager; the manager creates a task per
run around `AgentRunner.run`, which is given the session and, when it builds its
executor, the session's `CancelToken` (shared by every run of the session).
Before a model call the executor has its turn refreshed: perception, memory
recall, context search, timeline reduction and the prompt's budget, in that
order. The answer comes through the provider centre. What it asks for passes the
policy and the approval store, and then the tool centre, whose mounts are
registered tools, MCP servers, and other sessions of the same manager; plans and
handoffs reach those sessions too. Journal, event log, timeline and, at the end,
the trace are told. Policy verdicts that ask for approval end the run or the
call; the host hands decided records as grants to a later run. The journal and
the manager's run store are written independently.

Hard to test: steps of tasks that share a token, the capacity, a catalogue, a
replay store or a limit; work in the background that outlives the turn it was
begun for; cancels before the first step, during a call or after the end;
deadlines that cut a tool off; saves that raise and processes that die between a
change and its save; several code paths that should say the same. `PROJECT.json`
lists these hazards at their lines with the properties that cover them.

## 2. The modules

### Session manager

`SessionManager` follows a background run through the positions of its task
(`pc`: waiting in the poll loop, claimed by `start()` but not begun, preparing,
top of the loop, provider, acting, finishing, recording an exception, done,
dead, gone). An action is the code between two awaits:

| Action | Code |
|---|---|
| `Register`, `Unregister` | `register`, `unregister` |
| `StartNow`, `StartQueued`, `RunNow` | `start`, `run` with and without room |
| `CancelQueued`, `CancelActive` | the two branches of `cancel` |
| `PollAdmits`, `PollCancelled`, `PollUnknownSession` | `_run_when_capacity` and the head of `_run_once` it goes straight on into |
| `Begin` | the first step of the task `start` created |
| `BuildExecutor`, `PreflightBlocks`, `StartTurn`, `ProviderReturns`, `NextTurn`, `EndLoop`, `DeadlinePasses` | `AgentRunner.run` and the loop, as far as token and ending are concerned |
| `Finish`, `Fail`, `Raise` | the end, the `except` and the `finally` of `_run_once` |
| `Abandon` | `wait` is cancelled, and with it the task |
| `Restart` | a new manager restores the run store |

`EnterSession` is the synchronous head of `_run_once`: it replaces a token left
tripped by an earlier run. `TokenOf` is the token a run is going to look at,
depending on whether the executor has been built and whether the session was
copied for an event sink. `asked` and `struck` are history variables: a cancel
of the run was accepted, and a token of its session was tripped while it held
its claim. Run keys are never reused. `HostCalls` says which of replace,
unregister, abandon and restart the host makes, because some properties hold
only for hosts that do not make some of them.

`Admission` is the abstract specification: jobs enter a group if there is room,
else wait, are admitted or withdrawn, and leave once. `ImplementsAdmission` maps
claims to slots and polling tasks to waiting jobs.

### Journal

`AgentJournal` holds the lists of a journal as a record, the snapshot in the
store, whether the process is up, and `kept`, the journal as of the last call
that returned. Each operation computes the new lists and then persists them
with one of three ends: `Returns`, `Raises` (memory is ahead of the store),
`Dies`. SQLite replaces its row in a transaction; Markdown rewrites a file, may
be cut off in between, and reads the snapshot up to the first end marker.
Prompts, model events and tool calls are appended under the same guard and are
one list. A rejected call raises before it changes anything and is no step.

`AgentJournalResume` has `ResumeIndex`, `ResumePlan`, `ResumeToken` and
`resume` as operators on a journal, translated as the one pass over the
checkpoints that the code makes, a recursive function. `AgentJournalReplay` has the offline replay and
audit of `trace.py`; `AuditPasses` says that the audit, which is code of its
own, never objects to what the journal's code wrote.

`RunLedger` is the abstract specification: entries only grow, nothing is added
to an entry that is over, a crash goes back to what was saved.

`Lists` has the operators on lists that several modules share: filtering,
cutting, summing, joining, and the list of a set in a given order. Each takes
sets where the library would take operators, so that `ListLemmas` can say what it
returns.

### ReAct loop

`ReActLoop` is `ReActExecutor.run` with the approval store around it. Runs
follow one another, each with a new executor; approvals outlive them. A model's
answer is malformed, an action parsed from text, or native calls; both ways of
asking are modelled with their own gates, and a parsed action also passes the
verifier, structured output validation with its repairs, and the loop guard.
`Cancel`, `DeadlinePasses` and `Decide` may come between any two awaits, and
`Raise` is an exception of any port. `Verdict` is the policy, an arbitrary
function from subjects to verdicts.

Abstractions: a tool invocation is one step (its inside is `ToolExecution`). The
text form that names a tool inside a `tool` action is taken as an action of that
tool's name. Core actions are in `CoreActions`. `late` is the deadline as the
event loop notices it, so a deadline that has passed on the clock but is not
looked at yet is not `late`. A null approval store, a verdict that asks for
approval without a request, and a disabled guard are not covered.

### What a run calls (composed by `MCTools`)

- `McpCenter`: each host's operation awaits the connector several times;
  `HostStep` is the code up to the next await, written from where that host is.
  The catalogue maps a public name to the server that owns it.
- `ToolExecution` EXTENDS it. A call goes `asked`, `running`, `putting`, `done`,
  with `missed` between the replay lookup and the execution and `cut` for a
  cancelled or expired one. `Candidates(name)` are the mounts that offer a name
  at this moment; `Answer` is the retry decision of `ToolExecutionCenter`.
  While calls wait, an MCP host takes its steps: the two share the catalogue.
- `Delegation`: plan executions, handoffs and agent tools all await
  `manager.run`, so a run has a caller, and callers form chains. `Chain` is what
  a cancellation takes along. Hosts update and delete plans meanwhile.
- `EventStream`: events carry the number their executor gave them and the tags
  of the manager; `Poll` is one poll of `EventStreamTail`, several pages.
- `Approvals`: `Gate` is a whole check of an action or a call - composite
  policy, decision record, grant, submission. `Resume` builds the context a host
  may build, `Decide` is the store's.
- `CoreActions`: a file is the widths of its lines; `Truncated` is what the
  window says it left out, `LoadResource` and `ChangeViewOffset` move it.

### Providers (`MCProviders`)

`ProviderCenter` has one action per answer or failure of an attempt; the plan
is fixed when the call begins. `ProviderCodec` collects a stream chunk by
chunk, next to the whole answer decoded at once, and sends calls back.

### What a turn is made of (`MCTurns`)

- `MemoryCenter`: flush buffers of runs and writes of hosts share the stores;
  a write awaits its governance and its store. A search visits its mounts one by
  one. `MemoryInjection` is `build_memory_injection`, a pure function checked and
  proved against what may be left out and why.
- `TurnRefresh`: evaluations (`EvaluationBegins`, `EvaluationEnds`,
  `EvaluationFails`) and recalls (`RecallEnds`, `WaitOver`) go on beside
  `BeforeModelCall` and `ToolResult`.
- `ContextMaterials` searches mounts that are replaced meanwhile, then selects.
  `PromptBudget` builds, injects, applies bucket budgets, reduces and trims, in
  the order of `before_model_call`.
- `Timeline`: facts, readers with cursors, blocks of the prompt, truncation
  that may die half-way, and reopening of the durable stores.

### Traces (`MCTraces`)

`RunTrace` records items in the course of a run and saves the bundle the runner
would; `TraceEval` and `TraceReplay` read it again by the evaluator's own
derivations. The three stores are a dictionary, rows and a page of text.

In `MCTools`, `MCProviders` and `MCTurns`, components that share no state are
explored one at a time (`focus`), so that each gets bounds of its own size; the
others rest in an initial state. Components that do share state (tools and MCP
servers, calls and the replay store, executions and the manager's capacity, runs
and a session's windows) step together.

## 3. The runs

| Run | Instance | What it shows |
|---|---|---|
| `sm_one_per_session` | 2 sessions, 3 runs, 1 per session, 2 in all | `CapacityBound`, `ClaimIsLive`, `CancelNotLost` |
| `sm_shared_session` | 1 session, 3 runs, 2 at a time, queueing, unregister and abandoned waits | `LiveIsClaimed`, `NoStaleCancel`, `OutcomeAgrees`, `EndsAreFinal`, `ImplementsAdmission` |
| `sm_liveness` | 1 name, 2 session objects, 2 runs for one slot, event sink, replacement, restart, fair tasks | `RunningIsLive`, `QueueDrains`, `ClaimsEnd` |
| `journal_sqlite` | 2 runs, 2 turns, 2 checkpoints, a state that does not serialise, failing saves and crashes | `TurnsEndWithTheirRun`, `AuditPasses`, `KeptSurvives`, `ResumeIsSound`, `FinishedIsSettled`, `ImplementsLedger` |
| `react_loop` | 2 successive runs, 3 turns, a free, a gated and a forbidden tool, parsed and native | `GatedCalls`, `CancelStopsWork`, `RecordedCalls`, `StallsOnRepetition`, `RefusalsAreAsked`, `ParsedFinishIsValid` |
| `tools` | 2 calls with 2 attempts over 3 mounts beside a refreshing host; 2 hosts, 2 servers; 2 executions, 2 sessions, 3 runs; 5 events, 4 kinds of cursor; 4 policies, 2 runs, 3 decisions; 2 readers, 4 kinds of file | `ToolsComeFromLiveServers`, `ResultsAreGenuine`, `AttemptsReachOneLiveTool`, `WorkIsAwaited`, `RunStreamIsWhole`, `PassedIsApproved`, `ReadersMissNothing` |
| `providers` | 2 tasks, 4 registrations, 1 retry, 3 attempts; streams of 3 chunks | `AttemptsAddUp`, `CodecAgrees` |
| `turns` | 3 memory steps of a run and a host; 4 hits of 5 profiles; 3 turns with 2 events; 4 mounts, 3 queries; prompts of 3 injections; 3 facts, 2 reductions, 1 reader | `MemoryIsSound`, `RecallIsUseful`, `RefreshIsCurrent`, `ContextIsFit`, `TrimmedInOrder`, `FactsReachTheirReaders` |
| `traces` | 2 runs, 2 items of a group, 8 groups and more of items that meet in one part | `StoresAgree`, `ReplaysAgree` |

A property whose name stands for several (`ResumeIsSound`, `AttemptsAddUp`,
`MemoryIsSound` and others) is the conjunction of those stated right above it in
its module, each with its own comment.

Each property has a mutant in `PROJECT.json`: a plausible slip in one mapped
definition (a dropped reset, an off-by-one, a forgotten save) that makes TLC find
the property violated in the same run.

Why the bounds are enough. Manager: two sessions distinguish the limit of a
session from that of the manager, and three runs put one behind two that hold or
share a slot; every check of the token is repeated unchanged per turn. Journal:
two runs with two checkpoints interleave numbering; a turn each, or two of one
run, cover turns left open. Loop: three turns give two equal results in a row
with something else before or between, and one repair before the last; the
second run has grants. Tools: one name that registry and server may both offer,
a retry, and a second call of the same request meet in every order with one
server's refresh or close. Delegation: plans with an order, a missing
dependency, a skipped step and more steps than allowed; three runs make a
chain. Events: two runs of a session with equal numbers, pages of one and two.
Gate: policies in which an allow, a deny and an ask of different layers meet;
a refused call, its decision and the resumed one are three decisions. Providers:
two tasks overlap at each limit; retry and fallback both happen within three
attempts. Turns: two events and three turns let an evaluation begin before,
during and after another and end in a later turn; stores that fail, are replaced
or read-only beside one that is not. Traces: what two items can disagree about
is within one group. All bounds are constants named so (`MaxRuns`, `MaxLog`,
`MaxCoreSteps` and so on). Runs, turns, checkpoints, calls, executions, tasks
and topics are interchangeable where symmetry is declared; `sm_liveness` has
none.

Deadlock checking is off except for the journal, because finite supplies of run
keys, calls or steps can be used up and the system then rests; the journal can
always crash and restart.

Fairness: `FairSpec` gives each run's task weak fairness for its own steps (the
event loop runs every ready task, and providers and tools return or raise). The
host is never obliged to do anything. No other run assumes fairness.

### Where the code departs from what is said of it

Three departures are runs of their own:

| Run | Property | What TLC shows |
|---|---|---|
| `sm_cancel_lost` | `CancelNotLost` | with two runs on a session, one that starts replaces the token just tripped for the other, whose accepted cancel is lost |
| `react_unvalidated_finish` | `CompletedIsValid` | a finish made as a native call completes the run without gate, verifier or output validation |
| `timeline_reduction` | `ReductionReduces` | the reduction of an over-long view appends a digest and removes nothing, so every model call finds the prompt longer |

Others can be seen with properties that are in the modules, by changing a
configuration as told:

- `EndedIsFinal` in `sm_shared_session` with `LoopEndings = {"denied"}`:
  `cancel()` refuses four statuses only (`runner.py:2255`); a run that ended as
  denied, stalled or max_iterations is turned back into cancelling for good.
- `QueueDrains` in `sm_liveness` with `HostCalls = {"unregister"}`: a session
  may be unregistered while its runs wait for capacity; the poll claims, fails to
  find the session (`runner.py:2411`) and never releases.
- `KeptSurvives` in `journal_sqlite` with `Store = "markdown"` and
  `Closing = {plain}`: text with the end marker makes the saved snapshot
  unloadable (`harness.py:859`); so does a crash while the file is written over.
- `OnlyPortsRaise` in `react_loop`: the status of a failed validation is none
  the journal takes (`react.py:833`), so `run()` raises and the run stays open.
- `PivotIsRecalled` in `turns`: a recall begun for an earlier query may still be
  the one a later turn is given, and the new query is never asked.
- `FiledUnderItsRun` in `traces`: a session's manifests outlive a run, so the
  index of a later run files items of the earlier one under its own id
  (`trace.py:2121`, against `docs/architecture.md:426`).

And these were met while modelling; the properties say what holds beside them:

- Cursors over a whole session lose events, because numbers restart with every
  executor (`events.py:144`); `RunStreamIsWhole` is about clients of one run.
- After the fact its cursor names was deleted, a reader is given every fact
  again (`timeline.py:274`); `EachFactOnce` excepts that.
- Answers over budget are not recorded, and overlapping calls overshoot the
  attempt limit by one each (`providers.py:1689`, `1726`); `AttemptsNearLimit`
  is the bound that holds.
- Of several tool-call fragments in one chunk only the first is kept
  (`providers.py:701`); `StreamEqualsWhole` is about plain chunks.
- An event during a running evaluation is dropped, even a forced one
  (`turn_runtime.py:802`).
- The reducer may make a prompt longer when the one unit it keeps and its
  marker outweigh the rest (`prompt.py:1176`). The bucket budget makes a bucket
  longer when its rule keeps more than the maximum less the marker, which the
  rule allows (`prompt.py:411`); `CutsNeverGrow` bounds what it may add.
- A colliding mount stays mounted after `mount` has raised (`tools.py:752`), so
  the name cannot be called any more.
- `approval_required` without an approval request can never be unlocked.
- The flush buffer is cleared before triage is awaited: if triage raises, its
  signals are lost (`memory.py:385`).

The passing runs leave exactly these cases out, and no others: each property's
comment names its exception.

## 4. The proofs

All eight proof modules are checked to the last leaf, with no bound on runs,
sessions, turns, servers, tools, plans, providers, records or policies.

`SessionManagerProofs`. The inductive invariant is `IInv == TypeOK /\ TasksOK`:
types alone do not tell that a finishing run has a result to save, that an
executor has a token, or that a waiting task holds no claim. From it follow
`ManagerTypeCorrect`, `TasksAgree` and `LiveRunsAreClaimed`. `CapacityHolds` adds
that a claim is only made under `Available`; the cardinalities are bounded by
lemmas on finite sets, which is what `IsFiniteSet(Runs)` is assumed for.
`ManagerImplementsAdmission` maps every action to one of `Admission` or a
stutter.

The endings need more. `StatusOK` ties a record's status to where its task is,
and with it every write of a status or an outcome finds the other as it must be
(`OutcomesAgree`, `EndsStand`). `RunningRunsAreLive` and `ClaimsAreLive` are
theorems about hosts that do not cancel their own `wait()` (which takes the task
away from under its record) and, for claims, do not unregister a session whose
runs still wait (the task dies with its claim); with those calls in `HostCalls`
they are false. `TokenInv` says that a session object is registered under one
name and its token belongs to it alone, and that whoever looks at a tripped
token was struck or asked: `CancelsAreMeant`, for any number of runs that share
a session. `CancelsStay` is the converse, that a cancel is not lost. It assumes
one run per session and no replacement of sessions, without which it is false
(`sm_cancel_lost`); `OwnToken` then says that the token a run has, or is about
to get, is its session's, so the only reset it can meet is its own, made before
it was asked.

`AgentJournalProofs`. `JInv` says of the journal, the stored snapshot and the
last returned one alike that their turns follow their runs, their finished
entries match and their checkpoints are numbered; it holds over both stores and
gives `JournalTypeCorrect`, `TurnsEnd`, `RunsFinishOnce`, `CheckpointNumbers`
and `JournalsPassTheirAudit`. `DInv` adds `Durable` (the store and the journal
in memory hold what `kept` holds) and `Settled` (for a run that is over in
`kept`, all three say the same); it gives `DurabilityHolds`,
`FinishedRunsAreSettled` and `JournalImplementsLedger`, each under
`Store = "sqlite"`, since over Markdown they are false. The number of a
checkpoint is a cardinality, so the proof counts the checkpoints of one run in a
longer list.

Where a token resumes is proved from the same invariant. `LatestByRunIs` says
that the one pass over the checkpoints keeps, for every run, what
`latest_checkpoint` returns (`KeepsNext` is the pass's step, `LatestsKeep` the
induction over it), `RunsInOrderIs` and `CandidatesAre` that the index names
every run that has a checkpoint and selects its latest. `UInv` adds that no two
checkpoints have one id, which makes a token find its own checkpoint; that a
plan selects an open run needs `JInv`, where a checkpoint's turn is known and
follows its run. `ResumePointsHold` says so over either store. `ResumesAreSound`
is all of `ResumeIsSound`: with `DurabilityHolds`, what a caller was given is
still a prefix of what a later process has, so its token still finds it.

`TurnProofs` begins with `ReActLoop`. `TInv` adds to the types where in the loop an answer, calls
and turns must be present (`Placed`). `CallsAreGated` needs that grants come from
records of earlier runs and that decided records keep their decision;
`CancelsStopWork` that `cut` is unset until a cancel comes and that whatever has
been started belongs to an answer given by then; `RefusalsHaveRecords` and
`ParsedFinishesAreValid` are inductive given `TInv`. `CallsAreRecorded` needs
`RecInv`: while no tool runs the journal is level with what was started, and the
one that runs is the call at the head of those left. `RepetitionStalls` needs
`GuardInv`: the guard's count is that of the equal results at the end of the
list, exactly, and no earlier place had the limit.

`ToolProofs`, in five parts. Of `McpCenter`: `ToolsComeFromLiveServers` is not
inductive, because a host that awaits a listing will enter tools when it comes
back. `ListsAreConnected` says that such a host's server is enabled and was
connected; with it every one of the steps between awaits keeps the catalogue
honest, and `ToolsAreLive` holds for any number of hosts. Of `ToolExecution`:
`ToolInv` gives, for each place a call may be in, how far its execution record
and the centre's log are behind what ran (`Accounted`), and says that a stored
result is that of a call that is over (`StoredIsDone`) and that a call which
began with a stored result finds it (`SettledIsStored`): `ResultsHold`.
`AttemptsAreRouted` needs the MCP centre's invariant too, because the catalogue a
retry is routed by is changed by hosts meanwhile. Of `Approvals`: `GrantsHold`
says that a grant that says approved names an approved record of its subject;
together with the fact that a decided record is never written again
(`KeepsDecided`) and that the audit only grows, each way through the gate keeps
`PassedIsApproved` (`PassesAreApproved`). Of `EventStream`: `LogNumbered` says
that a run's numbers rise along the log and that its terminal event is its last;
that the sort of a page, which counts how many come before each event, gives the
order of the log (`OrderedAscends`) then makes a page the next events of the run
and no others (`BatchFacts`, `TailedFacts`), and `StreamInv`, what a cursor has
passed, gives `RunStreamHolds`. Of `CoreActions`: `ReadingInv` ties a reader's
window to the file it was cut from, which may have changed since; with
`WindowFacts`, how many lines of what width a window shows, it gives
`ReadersSeeAll`.

Of `Delegation`: `DelegationInv` says, besides the three parts of
`WorkIsAwaited`, that an execution which awaits a run awaits a run of its own
(`ExecAwaits`), that the step it is about to begin was ready when its plan was
read (`ReadyIsShown`), and that who called a run came before it. A cancelled
caller takes its `Chain` along; that nothing below it is left is an induction
along that order, from the caller down. `DelegatedWorkIsAwaited` holds for any
number of runs, plans and hosts, with runs of plans, handoffs and agent tools
calling each other without end.

`TurnProofs`. Of `TurnRefresh`: `OneEvaluation` (at most one evaluation is under
way, which is what the lock is for) makes the four parts of `RefreshIsCurrent`
inductive, with `RecallsAreNewer`: a recall under way or kept was begun after
the last turn that disabled recalling. Of `MemoryCenter`: `MemoryHolds` is all of
`MemoryIsSound`. `GovernedInv` says that a write which awaits its store has passed
the gate; `FlushInv` that the turns in a run's buffer, on their way to a store and
written are disjoint and below its next, and that the contents on their way and
written are among those the buffer has seen; `KeepsInv` that a text that counts is
in the buffer, on its way or written, unless the run's `after_turn` raised;
`SearchInv` that what the stores answering so far held is among the hits, no
match, or behind as many others as may be returned. That the sorted and cut hits
keep this is the work of `MergedFacts`. Of `MemoryInjection`: `RecallsAreUseful` is all of `RecallIsUseful`.
`RoundHolds` is what holds after each heading of the intent's order: every
candidate of the headings so far is chosen or `Excused`, because its own heading
stands in one block that is full and no less useful (`RouteFull`), or because the
whole is full (`AllFull`), and later headings change neither.

`ContextProofs`. Of `ContextMaterials`: `ContextsFit` is all of `ContextIsFit`. `CtxInv` says that every planned store has failed, was asked or
is left to ask, and of each match an asked store held when the search began that
it is among the answers, or has so many of one store before it as may be found
(`CtxConsidered`), which the merge keeps (`CtxFoundIs`). For the selector, what its
rounds have chosen fits (`RoundsFit`) and is not revised (`RoundsKeep`), so what
a candidate is measured against is what ranks above it in the end.
Of `PromptBudget`: `PromptIsTrimmedInOrder` is the action property `TrimmedInOrder`.
`PolicyHolds` is what holds as the policy takes one injection after the other: the
total is within its bound, and is the bound from the first that is left out on, so
all that got room stand before it and are no less urgent. For the cuts, `TrimmedIs`
says what one leaves of a bucket (no more than there was, if what is to be kept
leaves room for the marker; without injections, exactly what was asked for or next
to nothing), `RenderedLess` and `RenderedChange` what that does to the prompt, and
`Progress` what the last cut has come to behind each role of its order. The
reducer's result needs only its type.
Of `Timeline`: `FactsArrive` is the action property `FactsReachTheirReaders`.
`TimelineInv` adds to the types that a durable store holds what its callers were
told, and, for each reader whose place was kept, that what it was given ascends,
is not beyond its cursor and has every active fact between where it began and the
cursor (`Follows`). Blocks are the harder half. Time and place put the active
facts in one order (`FactsInOrder`), in which whether a fact begins a block
depends on the starts before it alone (`BeginsByEarlier`), so there is exactly one
split (`SplitExists` by induction on the rank of a fact, `SplitIsOne`), its blocks
cover the active facts (`BlocksCover`), and a fact behind all others adds at most
a start at the end (`LaterFact` and what follows it), which leaves frozen blocks
and their nonces as they are.

`ProviderProofs`. `OverrunIsBounded` counts: an attempt begins only while
the records are below the limit, and at that moment at most all other tasks
wait; each one that stops waiting adds at most one record. `CallsAddUp` is all of
`AttemptsAddUp`. `CenterInv` ties together, for each task, where its call is, the
attempts it made and those on record: the last attempt is all that may be missing
from the records, and while it is awaited what was tried and what is left make up
the plan, which names no provider twice (`AddsUp`, `UnderWay`). That the list
left is made of the plan's providers needs the order of the fallbacks, by
priority and then by name: `Ordered` gives each provider the place that the
number of those before it tells, and such places are all taken, once each
(`InOrderIs`). `CodecHolds` is the codec's: `CodecInv` says that what was
collected so far is what the chunks so far would be decoded to whole, that its
calls are named and mended as the decoder leaves them, and `WholeAppend` what one
more chunk adds. A plain chunk brings all it carries (`PlainBringsAll`), and a
mended call comes back as it went (`SoundCallsReturn`).

`TraceProofs`. Of `RunTrace`: `StoresInv` says that the dictionary, the table and
the file have the same traces, one of a run, in whatever order; filtering keeps that
(`FilteredOnce`), sorting by run leaves one list of a set (`SameOrder`), and so every
query has one answer (`TraceStoresAgree`). Of `TraceReplay`: `TracesTellOneStory` is
all of `ReplaysAgree`. Its inductive invariant is `RecordInv`: the log holds items
of the constant `Items`, in order, with one of a section that occurs once, and every
trace a store keeps was bundled from such a log (`RecordedTrace`). The rest is about
one such trace, or two:

- A trace without its derived parts reads the same: the evaluator's own derivation
  of each part is compared with the bundle's, section by section (`SameReading`).
- The failures of a trace are the concatenation of thirteen lists of one source
  each, so those of a source are as many as its own list has (`Listed`), which is
  what the evaluator counts.
- A replay is the concatenation of fifteen groups of steps. A source occurs in one
  group only (`OnlySource`), so a step of it occurs in the replay as often as in that
  group (`CarriesGroup`). A comparison with payloads and sources that finds no issue
  has counted every step alike, in order or not (`CountIssues`, `OrderIssues`), so
  the lists behind a source are shuffles of each other (`SameCarried`), and each of
  the readings of `ReplayedParts` is the same of a list and of its shuffle: sets of
  values, numbers of records, sums and greatest values.

`ItemsAssumption` says what such manifests hold as far as this needs it: plans,
reports and calls in lists, sizes that are numbers, finitely many blocking issues,
and no error where a validation went well (`structured.py`).

`ListLemmas` is about lists: that a filtered list has the elements that were
asked for, in their order and without new repetitions, and grows as its list does; that a sum and a
joined list do; that the list of a set in a total order, or by keys that tell its members apart, has
every member once, in that order (`SortedByIs`), and that many good members in a
row leave good ones at the head of it (`SortedBlock`); and that a recursive function over a list exists and is the only one of its kind.
They rest on `LeastNumber`, the well-foundedness of the naturals, which stands in
for the library's induction theorems: those take an operator as a parameter, which
the provers cannot instantiate. For the same reason the modules these proofs are
about (`Lists` and its users) write recursion as recursive functions and pass
sets, where the library's `SelectSeq` and folds would pass an operator.

Assumptions on constants are named and evaluated by TLC in every run whose
module extends theirs.

Every safety and action property of the passing runs has a theorem. Only
model-checked: liveness (`QueueDrains`, `ClaimsEnd`), which is out of the prover's
reach.

## 5. Not modelled, and why

- Texts: prompts, request shapes, rendered views, plan pages, hashes, redaction,
  manifests and reports. Their sizes are modelled where a budget depends on them.
- Scores: ranking in search, memory, capabilities and embeddings is a given
  order or number.
- Evaluation suites, conformance and acceptance gates, test doubles: they run
  the system and are no part of it.
- Two processes on one store (journal, approvals, event log, policy decisions):
  the docs have one process; several read-then-write places would need more
  than that (`approvals.py:519`, `policy.py:315`, `events.py:351`).
- `context_window.py`, `lifecycle.py`, `recovery.py`: reports nothing acts on.
- Manager, loop and journal in one module: each is modelled with the others as
  its environment, and composed their state space is beyond TLC.

## 6. Plan

Done: the manager, journal and loop with their abstract specifications; tools
and MCP, delegation, events, approvals and policy, core actions; providers and
codec; memory, refresh, context, prompt, timeline; traces, evaluation, replay;
proofs of every safety property of the manager, the journal with its resume
index, the loop, MCP and tool execution, delegation, approvals, the event
stream, core actions, turn refresh, the memory centre and its injections, context
search and selection, the prompt's budget, the timeline, the provider centre and the
codec, the trace stores, evaluation and replay.

Next, in this order:

1. Two processes on a SQLite store: approvals first, where the second decision
   would revise the first.
2. An abstract at-least-once tool specification that `ToolExecution` implements,
   which `ReActLoop`'s invocation step could then refer to.
3. The manager's run store and the journal about one run after an exception.
