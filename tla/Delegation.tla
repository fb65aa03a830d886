----------------------------- MODULE Delegation -----------------------------
(***************************************************************************)
(* Work that is handed to the sessions of one AgentSessionManager by       *)
(* awaiting manager.run: the steps of a plan (PlanExecutor and the         *)
(* planners of src/agent_core/planner.py), the handoffs of a               *)
(* MultiAgentCoordinator, and the agent tools that a run of the same       *)
(* manager calls (src/agent_core/handoff.py).                              *)
(*                                                                         *)
(* An action is what happens between two awaits of manager.run: nothing    *)
(* else suspends here.  What happens inside a run is SessionManager's and  *)
(* ReActLoop's subject; here a run is started, and ends.                   *)
(***************************************************************************)
EXTENDS Naturals, Sequences, FiniteSets, SequencesExt, Lists

CONSTANTS
  Executions,       \* calls of PlanExecutor.execute
  PlanIds,          \* the plan ids that hosts give
  PlanSteps,        \* the sequences of steps that hosts give
  Sessions,         \* session names
  AgentTools,       \* AgentToolSpecs: tool, session, enabled
  OwnSpecs,         \* what from_manager registers: the spec of each session
  HandoffSpecs,     \* specs that hosts register: session, tags, priority, enabled
  HandoffRequests,  \* requests: target ("" if none), tags
  DefaultSession,   \* PlanExecutor.default_session
  MaxActive, PerSession,        \* the manager's concurrency policy
  MaxSteps,                     \* PlanExecutor.max_steps
  MaxRuns, MaxMoves,            \* bounds of the model: runs, and moves of the host
  NoPlan

DelegationAssumption ==
  /\ MaxActive \in Nat /\ PerSession \in Nat \ {0} /\ MaxSteps \in Nat \ {0}
  /\ NoPlan \notin Executions \cup PlanIds \cup Sessions
  /\ \A steps \in PlanSteps : IsList(steps)
ASSUME DelegationAssumption

StepStatuses == {"pending", "running", "completed", "failed", "skipped"}
TerminalStatuses == {"completed", "failed", "skipped"}

VARIABLES
  plans,    \* the planner's store: plan id -> steps, NoPlan if there is none
  execs,    \* where each execution is
  runs,     \* the runs of the manager: session, by whom, active, status
  open,     \* the sessions that are registered with the manager
  advertised, \* the router's specs
  desk,     \* records of handoffs and of agent tools, answers to the calling runs
  moves,    \* what the host did, for the bound
  done      \* history: steps the store has shown completed

delegationVars == <<plans, execs, runs, open, advertised, desk, moves, done>>

NotBegun == [at |-> "idle", plan |-> NoPlan, ready |-> << >>, step |-> NoPlan, run |-> 0,
         records |-> << >>, report |-> NoPlan]

DelegationInit ==
  /\ plans = [p \in PlanIds |-> NoPlan]
  /\ execs = [e \in Executions |-> NotBegun]
  /\ runs = << >>
  /\ open = Sessions
  /\ advertised = OwnSpecs
  /\ desk = [handoffs |-> << >>, tools |-> << >>, answers |-> << >>]
  /\ moves = 0
  /\ done = {}

-----------------------------------------------------------------------------
(* Plans.                                                                   *)

StepIds(steps) == {steps[i].id : i \in DOMAIN steps}
CompletedIds(steps) == {steps[i].id : i \in {j \in DOMAIN steps : steps[j].status = "completed"}}

\* A step whose dependencies are over, however they ended, is ready.
ReadyOnceOver(steps) ==
  SelectSeq(steps, LAMBDA s :
    /\ s.status = "pending"
    /\ \A j \in DOMAIN steps : steps[j].id \in s.deps => steps[j].status \in TerminalStatuses)
\* Plan.ready_steps
ReadySteps(steps) ==
  Filtered(steps, {s \in ToSet(steps) : s.status = "pending" /\ s.deps \subseteq CompletedIds(steps)})

\* Plan.terminal: a plan without steps is not.
Terminal(steps) == steps # << >> /\ \A i \in DOMAIN steps : steps[i].status \in TerminalStatuses

\* _apply_plan_update: every step of that id; it raises when there is none.
Updated(steps, id, status) ==
  [i \in DOMAIN steps |->
     IF steps[i].id = id THEN [steps[i] EXCEPT !.status = status] ELSE steps[i]]
Known(stored, id) == stored # NoPlan /\ id \in StepIds(stored)

\* A planner store holds one plan per id, the last one saved.
Saved(p, steps) == [plans EXCEPT ![p] = steps]
Loaded(p) == plans[p]

Shown(p, steps) == done \cup {<<p, id>> : id \in CompletedIds(steps)}

-----------------------------------------------------------------------------
(* The manager, as its callers see it.                                      *)

ActiveIn(rs, s) == {r \in DOMAIN rs : rs[r].active /\ rs[r].session = s}
Active(rs) == {r \in DOMAIN rs : rs[r].active}

\* AgentSessionManager.run claims capacity or raises; it does not queue.
Full(rs, s) == Cardinality(ActiveIn(rs, s)) >= PerSession \/ Cardinality(Active(rs)) >= MaxActive
Accepts(rs, s) == s \in open /\ ~Full(rs, s)
Started(rs, s, kind, who) ==
  Append(rs, [session |-> s, kind |-> kind, who |-> who, active |-> TRUE, status |-> "running"])

\* A caller whose task is cancelled leaves the run it awaited.
LeavesChild(r) == {r}
\* The run ends with what it awaits: cancellation goes down the chain of awaits.
Chain(r) ==
  LET within[c \in DOMAIN runs] ==
        c = r \/ (runs[c].active /\ runs[c].kind = "tool" /\ within[runs[c].who])
  IN {c \in DOMAIN runs : within[c]}

Over(rs, gone, status) ==
  [r \in DOMAIN rs |->
     IF r \in gone /\ rs[r].active THEN [rs[r] EXCEPT !.active = FALSE, !.status = status] ELSE rs[r]]

\* A run that is inside an agent tool does nothing else; one whose deadline passed there
\* goes on to end.
InsideTool(r) == \E c \in DOMAIN runs : runs[c].active /\ runs[c].kind = "tool" /\ runs[c].who = r
MayEnd(r, status) == ~InsideTool(r) /\ (runs[r].status = "timeout" => status = "stalled")

-----------------------------------------------------------------------------
(* PlanExecutor.                                                            *)

StepRecord(step, session, status, run) ==
  [id |-> step.id, session |-> session, status |-> status, run |-> run]
SessionFor(step) == IF step.session = "" THEN DefaultSession ELSE step.session

\* The execution ends with a report of the plan it last saw.
Report(e, x, rs, steps, status) ==
  /\ execs' = [execs EXCEPT ![e] =
                 [x EXCEPT !.at = "ended", !.ready = << >>, !.step = NoPlan, !.run = 0,
                           !.report = [status |-> status, steps |-> steps]]]
  /\ plans' = Saved(x.plan, steps)
  /\ runs' = rs

\* update_plan raised: the caller of execute gets the exception and no report.
Raised(e, x, rs) ==
  /\ execs' = [execs EXCEPT ![e] = [x EXCEPT !.at = "raised", !.step = NoPlan, !.run = 0]]
  /\ runs' = rs

\* The next step of the ready list; its run is started, or the step fails at once.
BeginStep(e, x, rs, steps) ==
  LET step == Head(x.ready)
      session == SessionFor(step)
      started == Updated(steps, step.id, "running")
      failed == Updated(started, step.id, "failed")
  IN \/ /\ step.id \notin StepIds(steps)
        /\ plans' = Saved(x.plan, steps)
        /\ Raised(e, x, rs)
     \/ /\ step.id \in StepIds(steps) /\ ~Accepts(rs, session)
        /\ Report(e, [x EXCEPT !.records = Append(@, StepRecord(step, session, "failed", 0))],
                  rs, failed, "failed")
     \/ /\ step.id \in StepIds(steps) /\ Accepts(rs, session)
        /\ plans' = Saved(x.plan, started)
        /\ runs' = Started(rs, session, "plan", e)
        /\ execs' = [execs EXCEPT ![e] =
                       [x EXCEPT !.at = "running", !.ready = Tail(@), !.step = step,
                                 !.run = Len(rs) + 1]]

\* The loop of execute, from the last update to the next await.
Proceed(e, x, rs, steps) ==
  LET executed == Len(x.records)
      spent == executed >= MaxSteps
      again == x.ready = << >> \/ spent
      ready == ReadySteps(steps)
  IN \/ ~again /\ BeginStep(e, x, rs, steps)
     \/ again /\ Terminal(steps) /\ Report(e, x, rs, steps, "completed")
     \/ again /\ ~Terminal(steps) /\ spent /\ Report(e, x, rs, steps, "max_steps")
     \/ again /\ ~Terminal(steps) /\ ~spent /\ ready = << >> /\ Report(e, x, rs, steps, "blocked")
     \/ again /\ ~Terminal(steps) /\ ~spent /\ ready # << >>
          /\ BeginStep(e, [x EXCEPT !.ready = ready], rs, steps)

\* create_plan replaces a plan of that id, whoever is executing it.
Execute(e, p, steps) ==
  /\ execs[e].at = "idle" /\ Len(runs) < MaxRuns
  /\ Proceed(e, [NotBegun EXCEPT !.plan = p], runs, steps)
  /\ done' = Shown(p, steps)
  /\ UNCHANGED <<open, advertised, desk, moves>>

\* manager.run returned the step's outcome, or raised.
StepEnds(e, status) ==
  LET x == execs[e]
      rs == Over(runs, {x.run}, status)
      final == IF status = "completed" THEN "completed" ELSE "failed"
      stored == Loaded(x.plan)
      y == [x EXCEPT !.records = Append(@, StepRecord(x.step, runs[x.run].session, final, x.run)),
                     !.step = NoPlan, !.run = 0]
      steps == Updated(stored, x.step.id, final)
  IN /\ x.at = "running" /\ MayEnd(x.run, status) /\ Len(runs) < MaxRuns
     /\ \/ /\ ~Known(stored, x.step.id)
           /\ Raised(e, y, rs)
           /\ UNCHANGED <<plans, done>>
        \/ /\ Known(stored, x.step.id)
           /\ done' = Shown(x.plan, steps)
           /\ \/ final = "failed" /\ Report(e, y, rs, steps, "failed")
              \/ final = "completed" /\ Proceed(e, y, rs, steps)
     /\ UNCHANGED <<open, advertised, desk, moves>>

\* The task of execute is cancelled inside a step: the step stays running in the store.
CancelExecution(e) ==
  /\ execs[e].at = "running"
  /\ Raised(e, execs[e], Over(runs, Chain(execs[e].run), "cancelled"))
  /\ UNCHANGED <<plans, open, advertised, desk, moves, done>>

\* The host, or the UI behind it, changes or drops a plan through the same planner.
HostUpdates(p, id, status) ==
  /\ moves < MaxMoves /\ Known(Loaded(p), id)
  /\ plans' = Saved(p, Updated(Loaded(p), id, status))
  /\ done' = Shown(p, plans'[p])
  /\ moves' = moves + 1
  /\ UNCHANGED <<execs, runs, open, advertised, desk>>

HostDeletes(p) ==
  /\ moves < MaxMoves /\ Loaded(p) # NoPlan
  /\ plans' = Saved(p, NoPlan)
  /\ moves' = moves + 1
  /\ UNCHANGED <<execs, runs, open, advertised, desk, done>>

-----------------------------------------------------------------------------
(* Handoffs.                                                                *)

Fits(spec, request) == spec.enabled /\ request.tags \subseteq spec.tags

\* HandoffRouter.specs: by priority, then by name.
Preferred(s, t) == s.priority > t.priority \/ (s.priority = t.priority /\ s.rank < t.rank)
Chosen(candidates) == CHOOSE s \in candidates : \A t \in candidates \ {s} : Preferred(s, t)

\* HandoffRouter.decide: the session it selects, or why there is none.
Decision(request) ==
  LET targets == {s \in advertised : s.session = request.target}
      candidates == {s \in advertised : Fits(s, request)}
      selected == [status |-> "selected", session |-> NoPlan]
  IN CASE request.target # "" /\ targets = {} -> [selected EXCEPT !.status = "not_found"]
       [] request.target # "" /\ targets # {} /\ targets \cap candidates = {} ->
            [selected EXCEPT !.status = "denied"]
       [] request.target # "" /\ targets \cap candidates # {} ->
            [selected EXCEPT !.session = request.target]
       [] request.target = "" /\ candidates = {} -> [selected EXCEPT !.status = "not_found"]
       [] OTHER -> [selected EXCEPT !.session = Chosen(candidates).session]

HandoffRecord(request, decision, status, run) ==
  [request |-> request, decision |-> decision, status |-> status, run |-> run]

\* MultiAgentCoordinator.handoff: a refusal of the manager goes to the caller.
Handoff(request) ==
  LET d == Decision(request) IN
  /\ Len(runs) < MaxRuns
  /\ moves < MaxMoves /\ moves' = moves + 1
  /\ \/ /\ d.status # "selected"
        /\ desk' = [desk EXCEPT !.handoffs = Append(@, HandoffRecord(request, d, "none", 0))]
        /\ UNCHANGED runs
     \/ /\ d.status = "selected" /\ Accepts(runs, d.session)
        /\ runs' = Started(runs, d.session, "handoff", [request |-> request, decision |-> d])
        /\ UNCHANGED desk
     \/ /\ d.status = "selected" /\ ~Accepts(runs, d.session)
        /\ UNCHANGED <<runs, desk>>
  /\ UNCHANGED <<plans, execs, open, advertised, done>>

HandoffEnds(r, status) ==
  /\ runs[r].active /\ runs[r].kind = "handoff" /\ MayEnd(r, status)
  /\ runs' = Over(runs, {r}, status)
  /\ desk' = IF status = "raised" THEN desk
             ELSE [desk EXCEPT !.handoffs =
                     Append(@, HandoffRecord(runs[r].who.request, runs[r].who.decision, status, r))]
  /\ UNCHANGED <<plans, execs, open, advertised, moves, done>>

\* HandoffRouter.register replaces the spec of that session; unregister drops it.
Advertise(spec) ==
  /\ moves < MaxMoves
  /\ advertised' = {s \in advertised : s.session # spec.session} \cup {spec}
  /\ moves' = moves + 1
  /\ UNCHANGED <<plans, execs, runs, open, desk, done>>

\* manager.unregister, and whatever the router still advertises stays.
Unregister(s) ==
  /\ moves < MaxMoves /\ s \in open /\ ActiveIn(runs, s) = {}
  /\ open' = open \ {s}
  /\ moves' = moves + 1
  /\ UNCHANGED <<plans, execs, runs, advertised, desk, done>>

-----------------------------------------------------------------------------
(* Agent tools.                                                             *)

Answered(answers, r, call, status) ==
  Append(answers, [parent |-> r, call |-> call, status |-> status])
ToolRecord(tool, parent, status, run) ==
  [tool |-> tool, parent |-> parent, status |-> status, run |-> run]

\* AgentToolRuntime.invoke, called by run r; a cancelled caller gets no answer.
CallAgent(r, tool) ==
  /\ runs[r].active /\ runs[r].status = "running" /\ ~InsideTool(r)
  /\ Len(runs) < MaxRuns /\ Len(desk.answers) < MaxMoves
  /\ \/ /\ ~tool.enabled
        /\ desk' = [desk EXCEPT !.answers = Answered(@, r, 0, "failed")]
        /\ UNCHANGED runs
     \/ /\ tool.enabled /\ ~Accepts(runs, tool.session)
        /\ desk' = [desk EXCEPT !.tools = Append(@, ToolRecord(tool.name, r, "raised", 0)),
                                !.answers = Answered(@, r, 0, "failed")]
        /\ UNCHANGED runs
     \/ /\ tool.enabled /\ Accepts(runs, tool.session)
        /\ runs' = Started(runs, tool.session, "tool", r)
        /\ UNCHANGED desk
  /\ UNCHANGED <<plans, execs, open, advertised, moves, done>>

\* Only what completed is recorded.
RecordedIfCompleted(c, status) ==
  IF status = "completed"
    THEN Append(desk.tools, ToolRecord(runs[c].session, runs[c].who, status, c)) ELSE desk.tools
RecordedCall(c, status) ==
  Append(desk.tools, ToolRecord(runs[c].session, runs[c].who, status, c))

AgentEnds(c, status) ==
  /\ runs[c].active /\ runs[c].kind = "tool" /\ MayEnd(c, status)
  /\ runs' = Over(runs, {c}, status)
  /\ desk' = [desk EXCEPT
                !.tools = RecordedCall(c, status),
                !.answers = Answered(@, runs[c].who, c,
                                     IF status = "completed" THEN "completed" ELSE "failed")]
  /\ UNCHANGED <<plans, execs, open, advertised, moves, done>>

\* The parent's deadline passed inside the call: the child is cancelled with it, and the
\* parent's loop goes on to end.
CallTimesOut(c) ==
  /\ runs[c].active /\ runs[c].kind = "tool"
  /\ runs' = [Over(runs, Chain(c), "cancelled") EXCEPT ![runs[c].who].status = "timeout"]
  /\ UNCHANGED <<plans, execs, open, advertised, desk, moves, done>>

-----------------------------------------------------------------------------
RunEndings == {"completed", "stalled", "raised"}

DelegationNext ==
  \/ \E e \in Executions :
       \/ \E p \in PlanIds, steps \in PlanSteps : Execute(e, p, steps)
       \/ \E status \in RunEndings : StepEnds(e, status)
       \/ CancelExecution(e)
  \/ \E p \in PlanIds :
       \/ \E id \in UNION {StepIds(steps) : steps \in PlanSteps}, status \in StepStatuses :
            HostUpdates(p, id, status)
       \/ HostDeletes(p)
  \/ \E request \in HandoffRequests : Handoff(request)
  \/ \E spec \in HandoffSpecs : Advertise(spec)
  \/ \E s \in Sessions : Unregister(s)
  \/ \E r \in DOMAIN runs :
       \/ \E status \in RunEndings : HandoffEnds(r, status) \/ AgentEnds(r, status)
       \/ \E tool \in AgentTools : CallAgent(r, tool)
       \/ CallTimesOut(r)

DelegationSpec == DelegationInit /\ [][DelegationNext]_delegationVars

-----------------------------------------------------------------------------
(* Properties.                                                              *)

\* A step is run only after the plan had shown each of its dependencies completed,
\* whatever hosts, other executions of the plan, and refused sessions did meanwhile.
DependenciesCompleted ==
  \A e \in Executions :
    execs[e].at = "running" => \A d \in execs[e].step.deps : <<execs[e].plan, d>> \in done

\* Nothing runs that nobody waits for: a run of a step, and a run of an agent tool, is
\* active only while the execution, or the active run that called it, awaits it - so
\* capacity is never held by work whose caller was cancelled.
ActiveIsAwaited ==
  \A r \in DOMAIN runs : runs[r].active =>
    /\ runs[r].kind = "plan" => execs[runs[r].who].run = r
    /\ runs[r].kind = "tool" => runs[runs[r].who].active

\* An agent tool answers what the run it started came to, and every run that was started
\* for a call and ended by itself has one record: the calls that a trace is built from.
CallsAreRecorded ==
  /\ \A i \in DOMAIN desk.answers : desk.answers[i].call # 0 =>
       (desk.answers[i].status = "completed" <=> runs[desk.answers[i].call].status = "completed")
  /\ \A c \in DOMAIN runs : runs[c].kind = "tool" =>
       Cardinality({i \in DOMAIN desk.tools : desk.tools[i].run = c})
         = IF runs[c].active \/ runs[c].status = "cancelled" THEN 0 ELSE 1

\* Delegated work is begun when its plan allows, awaited while it runs, and recorded when it
\* ended: the three properties above.
WorkIsAwaited == DependenciesCompleted /\ ActiveIsAwaited /\ CallsAreRecorded
=============================================================================
