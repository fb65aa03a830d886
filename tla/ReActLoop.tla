------------------------------ MODULE ReActLoop ------------------------------
(***************************************************************************)
(* ReActExecutor.run of src/agent_core/react.py: the loop that asks the    *)
(* model, gates what it wants to do, runs tools and ends the run in the    *)
(* journal; with the approval store and the resume context of              *)
(* src/agent_core/approvals.py and the guard of src/agent_core/            *)
(* loop_guard.py.                                                          *)
(*                                                                         *)
(* Runs follow one another, each with an executor of its own; approvals    *)
(* outlive them.  The loop awaits the model, the gates, the tools and the  *)
(* stores, so a cancel, the deadline or an operator's decision may come    *)
(* between any two of its steps, and any port it awaits may raise.         *)
(*                                                                         *)
(* Events, timeline, prompts and the refresher are left out: they change   *)
(* none of this state.  Core actions (searches and loads) act on nothing   *)
(* outside the executor and are left out too.                              *)
(***************************************************************************)
EXTENDS Naturals, Sequences, FiniteSets, Lists

CONSTANTS
  Tools,          \* names of the tools
  Verdict,        \* the policy: what it says of each subject
  Results,        \* what an invocation may give back
  Decisions,      \* how operators decide
  Replies,        \* what the model may answer
  HasSchema,      \* the request has a structured output contract
  MaxIterations,
  MaxRepairs,     \* repairs of the structured output
  StallLimit,     \* stall_repetition_limit of the guard
  MaxRuns         \* bound on the runs started one after the other

Finish == "finish"
Outputs == {"", "bad", "good"}  \* of a finish: empty, against the schema, to the schema
Subjects == {"action", "tool"} \X (Tools \cup {Finish})
Refusals == {"denied", "approval_required"}

ASSUME ReActAssumption ==
  /\ Finish \notin Tools
  /\ Verdict \in [Subjects -> {"allow"} \cup Refusals]
  /\ Results \cap Refusals = {}
  /\ Decisions \subseteq {"approved", "rejected", "cancelled"}
  /\ Replies \subseteq [form : {"malformed", "action", "calls"},
                        names : Seq(Tools \cup {Finish}), output : Outputs]
  /\ \A r \in Replies : r.form # "malformed" => r.names # << >>
  /\ HasSchema \in BOOLEAN
  /\ MaxIterations \in Nat /\ MaxRepairs \in Nat
  /\ StallLimit \in Nat \ {0}
  /\ MaxRuns \in Nat

VARIABLES
  run,        \* number of the current run
  pc,         \* where its executor is
  status,     \* the run's status in the journal
  noted,      \* the tool calls recorded in the journal, in order
  index,      \* the turn of the loop
  reply,      \* the answer of the model that is acted on
  left,       \* the calls of that answer that are still to be made
  repairs,    \* structured output repairs so far
  guard,      \* the loop guard: last fingerprint and how often in a row
  token,      \* the cancel token
  late,       \* the deadline has passed, and the event loop has noticed
  grants,     \* the decisions handed to the run
  approvals,  \* the approval store
  result,     \* how run() ended: the status it returned or "raised"
  started,    \* history: the invocations started in this run
  cut,        \* history: turns and answers there were when a cancel came
  broke       \* history: a port raised in this run

loop == <<index, reply, left, repairs, guard>>
past == <<started, cut, broke>>
vars == <<run, pc, status, noted, loop, token, late, grants, approvals, result, past>>

NoReply == [form |-> "malformed", names |-> << >>, output |-> ""]
NoPrint == << >>
Quiet == [print |-> NoPrint, count |-> 0]
NotCut == [turns |-> MaxIterations, answers |-> MaxIterations]

Init ==
  /\ run = 0 /\ pc = "idle" /\ status = "absent" /\ noted = << >>
  /\ index = 0 /\ reply = NoReply /\ left = << >> /\ repairs = 0 /\ guard = Quiet
  /\ token = "clear" /\ late = FALSE
  /\ grants = {} /\ approvals = << >> /\ result = "none"
  /\ started = << >> /\ cut = NotCut /\ broke = FALSE

-----------------------------------------------------------------------------
(* Approvals.                                                               *)

\* approved_for without grant.approved: any decision on the subject will do.
ApprovedForAny(subject) == \E g \in grants : g.subject = subject
ApprovedFor(subject) == \E g \in grants : g.subject = subject /\ g.status = "approved"

Passes(subject) ==
  \/ Verdict[subject] = "allow"
  \/ Verdict[subject] = "approval_required" /\ ApprovedFor(subject)

\* _submit_approval without the call of the store.
NotSubmitted(subject) == approvals
Submitted(subject) ==
  IF Verdict[subject] = "approval_required"
  THEN Append(approvals, [subject |-> subject, status |-> "pending", run |-> run])
  ELSE approvals

MayDecide(i) == approvals[i].status = "pending"

\* An operator decides a request.
Decide(i, s) ==
  /\ MayDecide(i)
  /\ approvals' = [approvals EXCEPT ![i].status = s]
  /\ UNCHANGED <<run, pc, status, noted, loop, token, late, grants, result, past>>

-----------------------------------------------------------------------------
(* The run's beginning and its ends.                                        *)

Decided == {i \in DOMAIN approvals : approvals[i].status # "pending"}

\* The next request, with the grants its caller made of decided records.  The session
\* manager resets a tripped token unless this run itself was asked to stop.
Start(ids, asked) ==
  /\ pc = "idle"
  /\ run < MaxRuns
  /\ run' = run + 1 /\ pc' = "top" /\ status' = "running" /\ noted' = << >>
  /\ index' = 0 /\ reply' = NoReply /\ left' = << >> /\ repairs' = 0 /\ guard' = Quiet
  /\ token' = IF asked THEN "cancelled" ELSE "clear"
  /\ late' = FALSE
  /\ grants' = {[subject |-> approvals[i].subject, status |-> approvals[i].status] : i \in ids}
  /\ result' = "none"
  /\ started' = << >> /\ broke' = FALSE
  /\ cut' = IF asked THEN [turns |-> 0, answers |-> 0] ELSE NotCut
  /\ UNCHANGED approvals

\* The run is finished in the journal; what is left is to tell of it.
Ends(s) == status' = s /\ pc' = "closing"

Return ==
  /\ pc = "closing"
  /\ pc' = "idle"
  /\ result' = status
  /\ UNCHANGED <<run, status, noted, loop, token, late, grants, approvals, past>>

\* A port raises: run() raises and leaves the journal as it is.
Raise ==
  /\ pc # "idle"
  /\ pc' = "idle"
  /\ result' = "raised"
  /\ broke' = TRUE
  /\ UNCHANGED <<run, status, noted, loop, token, late, grants, approvals, started, cut>>

Turns == IF pc = "top" THEN index ELSE index + 1
Answers == IF pc \in {"top", "asking"} THEN index ELSE index + 1

Cancel ==
  /\ pc \notin {"idle", "closing"}
  /\ token = "clear"
  /\ token' = "cancelled"
  /\ cut' = [turns |-> Turns, answers |-> Answers]
  /\ UNCHANGED <<run, pc, status, noted, loop, late, grants, approvals, result, started, broke>>

DeadlinePasses ==
  /\ pc \notin {"idle", "closing"}
  /\ ~late
  /\ late' = TRUE
  /\ UNCHANGED <<run, pc, status, noted, loop, token, grants, approvals, result, past>>

\* The deadline is noticed at the top of the loop and while the model or a tool is awaited.
TimeOut ==
  /\ late
  /\ pc \in {"asking", "calling", "running"} \/ (pc = "top" /\ index < MaxIterations)
  /\ token' = "timeout"
  /\ Ends("timeout")
  /\ UNCHANGED <<run, noted, loop, late, grants, approvals, result, past>>

-----------------------------------------------------------------------------
(* The turn: asking the model.                                              *)

\* The loop goes on with the next turn and forgets the answer.
NextTurn == index' = index + 1 /\ pc' = "top" /\ reply' = NoReply

OutOfTurns ==
  /\ pc = "top"
  /\ index = MaxIterations
  /\ Ends("max_iterations")
  /\ UNCHANGED <<run, noted, loop, token, late, grants, approvals, result, past>>

StartTurn ==
  /\ pc = "top"
  /\ index < MaxIterations
  /\ ~late
  /\ token = "clear"
  /\ pc' = "asking"
  /\ UNCHANGED <<run, status, noted, loop, token, late, grants, approvals, result, past>>

\* The check of the token after the model answered, forgotten.
AnswerStandsAlways == ~late
AnswerStands == ~late /\ token = "clear"

Cancelled ==
  /\ ~late
  /\ token # "clear"
  /\ \/ pc = "top" /\ index < MaxIterations
     \/ pc = "asking" /\ ~AnswerStands
  /\ Ends("cancelled")
  /\ UNCHANGED <<run, noted, loop, token, late, grants, approvals, result, past>>

Answer(r) ==
  /\ pc = "asking"
  /\ AnswerStands
  /\ reply' = r
  /\ pc' = "judging"
  /\ UNCHANGED <<run, status, noted, index, left, repairs, guard, token, late, grants, approvals, result, past>>

-----------------------------------------------------------------------------
(* What the model answered: an action parsed from its text, or calls.       *)

Wants(n) == pc = "judging" /\ reply.form = "action" /\ reply.names[1] = n

\* Nothing to act on: an answer that does not parse, or a finish call without output.
Unusable ==
  /\ pc = "judging"
  /\ \/ reply.form = "malformed"
     \/ reply.form = "calls" /\ Finish \in {reply.names[i] : i \in DOMAIN reply.names} /\ reply.output = ""
  /\ NextTurn
  /\ UNCHANGED <<run, status, noted, left, repairs, guard, token, late, grants, approvals, result, past>>

\* A finish among the calls of an answer ends the run; the other calls are dropped.
FinishCall ==
  /\ pc = "judging"
  /\ reply.form = "calls"
  /\ Finish \in {reply.names[i] : i \in DOMAIN reply.names}
  /\ reply.output # ""
  /\ Ends("completed")
  /\ UNCHANGED <<run, noted, loop, token, late, grants, approvals, result, past>>

TakeCalls ==
  /\ pc = "judging"
  /\ reply.form = "calls"
  /\ Finish \notin {reply.names[i] : i \in DOMAIN reply.names}
  /\ left' = reply.names
  /\ pc' = "calling"
  /\ UNCHANGED <<run, status, noted, index, reply, repairs, guard, token, late, grants, approvals, result, past>>

\* The policy refuses an action: the run ends, waiting for an approval or denied.
RefuseAction(n) ==
  /\ Wants(n)
  /\ ~Passes(<<"action", n>>)
  /\ approvals' = Submitted(<<"action", n>>)
  /\ Ends(Verdict[<<"action", n>>])
  /\ UNCHANGED <<run, noted, loop, token, late, grants, result, past>>

\* The verifier rejects an action the policy lets pass.
RejectAction(n) ==
  /\ Wants(n)
  /\ Passes(<<"action", n>>)
  /\ NextTurn
  /\ UNCHANGED <<run, status, noted, left, repairs, guard, token, late, grants, approvals, result, past>>

TakeAction(n) ==
  /\ Wants(n)
  /\ n # Finish
  /\ Passes(<<"action", n>>)
  /\ left' = <<n>>
  /\ pc' = "calling"
  /\ UNCHANGED <<run, status, noted, index, reply, repairs, guard, token, late, grants, approvals, result, past>>

\* An output that was sent back for repair is taken as it comes the second time.
AcceptableOnceRepaired(out) == HasSchema => out = "good" \/ repairs > 0
Acceptable(out) == HasSchema => out = "good"

FinishAction ==
  /\ Wants(Finish)
  /\ Passes(<<"action", Finish>>)
  /\ Acceptable(reply.output)
  /\ Ends("completed")
  /\ UNCHANGED <<run, noted, loop, token, late, grants, approvals, result, past>>

RepairOutput ==
  /\ Wants(Finish)
  /\ Passes(<<"action", Finish>>)
  /\ ~Acceptable(reply.output)
  /\ repairs < MaxRepairs
  /\ repairs' = repairs + 1
  /\ NextTurn
  /\ UNCHANGED <<run, status, noted, left, guard, token, late, grants, approvals, result, past>>

\* No repair is left.  The run is to end as output_validation_failed, which is none of
\* the journal's terminal statuses: finish_run raises, and run() with it.
FailOutput ==
  /\ Wants(Finish)
  /\ Passes(<<"action", Finish>>)
  /\ ~Acceptable(reply.output)
  /\ repairs >= MaxRepairs
  /\ pc' = "idle"
  /\ result' = "raised"
  /\ UNCHANGED <<run, status, noted, loop, token, late, grants, approvals, past>>

-----------------------------------------------------------------------------
(* Tools.  A parsed action is one call followed by the loop guard; the      *)
(* calls of an answer follow one another and the guard does not see them.   *)

\* Only the result of the last call of an answer is recorded.
NoteLast(t, x) ==
  IF Len(left) = 1 THEN Append(noted, [tool |-> t, outcome |-> x, via |-> reply.form]) ELSE noted
Note(t, x) == Append(noted, [tool |-> t, outcome |-> x, via |-> reply.form])

\* The guard compares with > where it should with >=.
StalledLater(count) == count > StallLimit
Stalled(count) == count >= StallLimit

Observed(t, x) ==
  [print |-> <<t, x>>,
   count |-> IF guard.print = <<t, x>> THEN guard.count + 1 ELSE 1]

\* The call of tool t gave x: record it and go on.
AfterCall(t, x) ==
  /\ noted' = Note(t, x)
  /\ IF reply.form = "action"
     THEN /\ guard' = Observed(t, x)
          /\ left' = << >>
          /\ IF Stalled(guard'.count)
             THEN Ends("stalled") /\ UNCHANGED <<index, reply>>
             ELSE NextTurn /\ UNCHANGED status
     ELSE /\ left' = Tail(left)
          /\ IF Len(left) = 1 THEN NextTurn ELSE pc' = "calling" /\ UNCHANGED <<index, reply>>
          /\ UNCHANGED <<guard, status>>
  /\ UNCHANGED <<run, repairs, token, late, grants, result, past>>

StartTool ==
  /\ pc = "calling"
  /\ ~late
  /\ Passes(<<"tool", Head(left)>>)
  /\ pc' = "running"
  /\ started' = Append(started, [tool |-> Head(left), via |-> reply.form, turn |-> index + 1])
  /\ UNCHANGED <<run, status, noted, loop, token, late, grants, approvals, result, cut, broke>>

\* The policy refuses a tool: the model is told so and the loop goes on.
RefuseTool ==
  /\ pc = "calling"
  /\ ~late
  /\ ~Passes(<<"tool", Head(left)>>)
  /\ approvals' = Submitted(<<"tool", Head(left)>>)
  /\ AfterCall(Head(left), Verdict[<<"tool", Head(left)>>])

ToolReturns(x) ==
  /\ pc = "running"
  /\ ~late
  /\ AfterCall(Head(left), x)
  /\ UNCHANGED approvals

-----------------------------------------------------------------------------
Act ==
  \/ Return \/ Raise
  \/ TimeOut \/ OutOfTurns \/ StartTurn \/ Cancelled
  \/ \E r \in Replies : Answer(r)
  \/ Unusable \/ FinishCall \/ TakeCalls
  \/ \E n \in Tools \cup {Finish} : RefuseAction(n) \/ RejectAction(n) \/ TakeAction(n)
  \/ FinishAction \/ RepairOutput \/ FailOutput
  \/ StartTool \/ RefuseTool
  \/ \E x \in Results : ToolReturns(x)

Next ==
  \/ Act
  \/ \E ids \in SUBSET Decided, asked \in BOOLEAN : Start(ids, asked)
  \/ Cancel \/ DeadlinePasses
  \/ \E i \in DOMAIN approvals, s \in Decisions : Decide(i, s)

Spec == Init /\ [][Next]_vars

-----------------------------------------------------------------------------
(* Types.                                                                   *)

Endings == {"completed", "stalled", "max_iterations", "timeout", "cancelled"} \cup Refusals
Outcomes == Results \cup Refusals
ReplySet == Replies \cup {NoReply}
Forms == {"malformed", "action", "calls"}

\* What each variable may hold.
TypeOK ==
  /\ run \in 0..MaxRuns
  /\ pc \in {"idle", "top", "asking", "judging", "calling", "running", "closing"}
  /\ status \in {"absent", "running"} \cup Endings
  /\ noted \in Seq([tool : Tools, outcome : Outcomes, via : Forms])
  /\ index \in 0..MaxIterations
  /\ reply \in ReplySet
  /\ left \in Seq(Tools)
  /\ repairs \in 0..MaxRepairs
  /\ guard \in [print : {NoPrint} \cup (Tools \X Outcomes), count : 0..StallLimit]
  /\ token \in {"clear", "cancelled", "timeout"}
  /\ late \in BOOLEAN
  /\ grants \subseteq [subject : Subjects, status : Decisions]
  /\ approvals \in Seq([subject : Subjects, status : {"pending"} \cup Decisions, run : 1..MaxRuns])
  /\ result \in {"none", "raised"} \cup Endings
  /\ started \in Seq([tool : Tools, via : Forms, turn : 1..MaxIterations])
  /\ cut \in [turns : 0..MaxIterations, answers : 0..MaxIterations]
  /\ broke \in BOOLEAN

-----------------------------------------------------------------------------
(* Safety.                                                                  *)

\* The policy lets the subject pass, or an operator approved it during an earlier run.
Gated(subject) ==
  \/ Verdict[subject] = "allow"
  \/ /\ Verdict[subject] = "approval_required"
     /\ \E i \in DOMAIN approvals :
          approvals[i].subject = subject /\ approvals[i].status = "approved" /\ approvals[i].run < run

\* Whichever way the model asks for a tool, the tool runs only if the policy allows it or
\* an operator approved that very subject, in a record of an earlier run that still says
\* so; an action parsed from text also has to pass the gate for actions.
GatedCalls ==
  /\ \A i \in DOMAIN started :
       /\ Gated(<<"tool", started[i].tool>>)
       /\ started[i].via = "action" => Gated(<<"action", started[i].tool>>)
  /\ status = "completed" /\ reply.form = "action" => Gated(<<"action", Finish>>)

\* After a cancel no further turn begins, no tool is started for an answer that came
\* after it, and the run completes only with an answer that came before it.
CancelStopsWork ==
  /\ pc = "asking" => index < cut.turns
  /\ \A i \in DOMAIN started : started[i].turn <= cut.answers
  /\ status = "completed" => index < cut.answers

\* The notes of tools that ran: what came back is no refusal.
Ran == Filtered(noted, [tool : Tools, outcome : Results, via : Forms])

\* The journal has every tool that was started, in the order they were started, except
\* for one at most: the one still running, or cut off by the deadline or an exception.
RecordedCalls ==
  /\ Len(started) \in {Len(Ran), Len(Ran) + 1}
  /\ \A i \in DOMAIN Ran : Ran[i].tool = started[i].tool /\ Ran[i].via = started[i].via
  /\ Len(started) # Len(Ran) => pc = "running" \/ status = "timeout" \/ broke

Parsed == Filtered(noted, [tool : Tools, outcome : Outcomes, via : {"action"}])

\* The StallLimit results of parsed actions up to the i-th are all the same.
Repeated(i) == i >= StallLimit /\ \A k \in (i - StallLimit + 1)..i : Parsed[k] = Parsed[i]

\* The run is stalled exactly when the last StallLimit results of parsed actions are the
\* same action with the same result, and it never gets past the first such repetition,
\* whatever calls, refusals and unusable answers lie in between.
StallsOnRepetition ==
  /\ status = "stalled" => Repeated(Len(Parsed))
  /\ \A i \in DOMAIN Parsed : Repeated(i) => i = Len(Parsed) /\ status = "stalled"

Asked(subject) == \E i \in DOMAIN approvals : approvals[i].subject = subject /\ approvals[i].run = run

\* Nothing is held back for an approval nobody can give: the run that ends as
\* approval_required, and each tool result that says so, has its record in the store.
RefusalsAreAsked ==
  /\ status = "approval_required" => Asked(<<"action", reply.names[1]>>)
  /\ \A i \in DOMAIN noted :
       noted[i].outcome = "approval_required" => Asked(<<"tool", noted[i].tool>>)

\* Under a structured output contract a parsed finish completes the run only with an
\* output to the schema, and each repair cost a turn.
ParsedFinishIsValid ==
  /\ status = "completed" /\ reply.form = "action" /\ HasSchema => reply.output = "good"
  /\ repairs <= index

\* "ReActExecutor validates finish.output": no run under a structured output contract
\* completes with an output against it.
CompletedIsValid == status = "completed" /\ HasSchema => reply.output = "good"

\* A finish that stays invalid ends the run as output_validation_failed, as the tests have
\* it: run() raises only when something it called raised of its own accord.
OnlyPortsRaise == result = "raised" => broke
=============================================================================
