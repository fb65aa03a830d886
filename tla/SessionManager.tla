--------------------------- MODULE SessionManager ---------------------------
(***************************************************************************)
(* AgentSessionManager of src/agent_core/runner.py: named sessions, the    *)
(* runs a host starts on them, the local capacity those runs claim, the    *)
(* poll loop that admits queued runs, cancellation through the session's   *)
(* CancelToken, and the restore of the run store after a restart.          *)
(*                                                                         *)
(* The program is single-threaded asyncio: an action is the code between   *)
(* two awaits.  A background run is one task whose position is pc[r]:      *)
(*                                                                         *)
(*   "new"       the key does not exist yet                                *)
(*   "waiting"   in _run_when_capacity, polling for capacity               *)
(*   "pending"   claimed by start(), the task has not run its first step   *)
(*   "preparing" in AgentRunner.run before the executor is built           *)
(*   "turn"      at the top of the ReAct loop                              *)
(*   "provider"  awaiting the provider                                     *)
(*   "acting"    past the cancel check, executing what the model asked for *)
(*   "finishing" the loop returned; hooks, trace and outcome are left      *)
(*   "recording" an exception was saved; harness.record_error is awaited   *)
(*   "done"      the coroutine has ended (it returned or raised)           *)
(*   "dead"      the task ended without running its own ending             *)
(*   "gone"      the process it ran in was restarted                       *)
(***************************************************************************)
EXTENDS Naturals, FiniteSets

CONSTANTS
  Names,            \* the session names the host registers
  Objects,          \* AgentSession objects the host builds
  Runs,             \* run keys; uuid4 keys are never reused
  MaxActiveRuns,    \* concurrency_policy.max_active_runs, or NoLimit
  MaxPerSession,    \* concurrency_policy.max_active_runs_per_session
  RejectWhenFull,   \* concurrency_policy.reject_when_full
  EventSink,        \* whether sessions carry an event sink
  LoopEndings,      \* the executor's statuses beside completed/cancelled/timeout
  MaxIterations,    \* budget.max_iterations
  HostCalls,        \* what the host does beside register, start and cancel
  NoLimit,
  None

ASSUME ConstantsAssumption ==
  /\ IsFiniteSet(Runs)
  /\ MaxActiveRuns \in Nat \cup {NoLimit}
  /\ NoLimit \notin Nat
  /\ MaxPerSession \in Nat \ {0}
  /\ RejectWhenFull \in BOOLEAN
  /\ EventSink \in BOOLEAN
  /\ MaxIterations \in Nat \ {0}
  /\ "max_iterations" \in LoopEndings
  /\ LoopEndings \subseteq {"max_iterations", "stalled", "denied", "approval_required"}
  /\ HostCalls \subseteq {"replace", "unregister", "abandon", "restart"}

VARIABLES
  sessions,   \* _sessions: the object registered under a name
  token,      \* session.cancel_token: the token an object holds
  tripped,    \* CancelToken.cancelled of each token
  sessionOf,  \* ManagedAgentRun.session_name
  status,     \* ManagedAgentRun.status, in memory and in the run store
  claims,     \* the keys in _active_by_session
  pc,         \* where the run's task is
  holder,     \* the session object the run's AgentRunner was given
  seen,       \* the token the run looks at, once it holds one
  turns,      \* the executor's loop index
  result,     \* the ReActResult's status, before it is saved
  outcome,    \* _outcomes
  asked,      \* history: cancel(key) was accepted for the run
  struck      \* history: while the run held a claim, a token of its session tripped

hostVars == <<sessions>>
tokenVars == <<token, tripped>>
taskVars == <<pc, holder, seen, turns, result>>
history == <<asked, struck>>
vars == <<sessions, token, tripped, sessionOf, status, claims, pc, holder, seen,
          turns, result, outcome, asked, struck>>

\* A session object is created with a token of its own; reset_cancel_token makes a
\* fresh one, and a run resets at most once, so the run names the token it made.
Tokens == Objects \cup Runs

Settled == {"completed", "cancelled", "timeout", "failed"}
ActiveStatuses == {"queued", "running", "cancelling"}
EndStatuses == {"completed", "cancelled", "timeout"} \cup LoopEndings
Statuses == ActiveStatuses \cup EndStatuses \cup {"failed", "interrupted"}

ASSUME NoneAssumption == None \notin Names \cup Objects \cup Runs \cup Statuses
ASSUME TokensAssumption == Objects \cap Runs = {}

Executing == {"turn", "provider", "acting"}
Running == {"preparing", "finishing"} \cup Executing
Claiming == {"pending", "recording"} \cup Running
Places == {"new", "waiting", "done", "dead", "gone"} \cup Claiming

-----------------------------------------------------------------------------
(* Capacity.  active_runs() counts the claimed keys of every session.       *)

ClaimsOf(n) == {r \in claims : sessionOf[r] = n}

SessionAvailableOffByOne(n) == Cardinality(ClaimsOf(n)) <= MaxPerSession
SessionAvailable(n) == Cardinality(ClaimsOf(n)) < MaxPerSession

ManagerAvailable ==
  MaxActiveRuns # NoLimit => Cardinality(claims) < MaxActiveRuns

AvailableNever(n) == FALSE
Available(n) == SessionAvailable(n) /\ ManagerAvailable

ClaimForgotten(r) == claims
Claim(r) == claims \cup {r}

(* The token run r answers to: fixed when the executor is built, or when    *)
(* the session is copied for the managed event sink; until then whatever    *)
(* its session object holds.                                                *)
TokenOf(r) ==
  CASE seen[r] # None                                      -> seen[r]
    [] seen[r] = None /\ holder[r] # None                  -> token[holder[r]]
    [] seen[r] = None /\ holder[r] = None
         /\ sessions[sessionOf[r]] # None                  -> token[sessions[sessionOf[r]]]
    [] OTHER                                               -> None

Struck(n) == [r \in Runs |-> struck[r] \/ r \in ClaimsOf(n)]

-----------------------------------------------------------------------------
Init ==
  /\ sessions = [n \in Names |-> None]
  /\ token = [o \in Objects |-> o]
  /\ tripped = [t \in Tokens |-> FALSE]
  /\ sessionOf = [r \in Runs |-> None]
  /\ status = [r \in Runs |-> None]
  /\ claims = {}
  /\ pc = [r \in Runs |-> "new"]
  /\ holder = [r \in Runs |-> None]
  /\ seen = [r \in Runs |-> None]
  /\ turns = [r \in Runs |-> 0]
  /\ result = [r \in Runs |-> None]
  /\ outcome = [r \in Runs |-> None]
  /\ asked = [r \in Runs |-> FALSE]
  /\ struck = [r \in Runs |-> FALSE]

-----------------------------------------------------------------------------
(* The host's calls.                                                        *)

\* A host registers a session object under one name at a time, and not while a run
\* it started earlier under another name still holds the object.
Idle(o) ==
  /\ \A n \in Names : sessions[n] # o
  /\ \A r \in Runs : pc[r] \in Claiming => holder[r] # o

Register(n, o) ==
  /\ sessions[n] = None \/ "replace" \in HostCalls
  /\ Idle(o)
  /\ sessions' = [sessions EXCEPT ![n] = o]
  /\ UNCHANGED <<tokenVars, sessionOf, status, claims, taskVars, outcome, history>>

Unregister(n) ==
  /\ "unregister" \in HostCalls
  /\ sessions[n] # None
  /\ ClaimsOf(n) = {}
  /\ sessions' = [sessions EXCEPT ![n] = None]
  /\ UNCHANGED <<tokenVars, sessionOf, status, claims, taskVars, outcome, history>>

\* start() with room: the record is saved, the capacity claimed, the task created.
StartNow(n, r) ==
  /\ pc[r] = "new" /\ sessions[n] # None
  /\ Available(n)
  /\ sessionOf' = [sessionOf EXCEPT ![r] = n]
  /\ status' = [status EXCEPT ![r] = "queued"]
  /\ claims' = Claim(r)
  /\ pc' = [pc EXCEPT ![r] = "pending"]
  /\ UNCHANGED <<hostVars, tokenVars, holder, seen, turns, result, outcome, history>>

\* start() without room: the run waits, unless the policy rejects it.
StartQueued(n, r) ==
  /\ pc[r] = "new" /\ sessions[n] # None
  /\ ~Available(n) /\ ~RejectWhenFull
  /\ sessionOf' = [sessionOf EXCEPT ![r] = n]
  /\ status' = [status EXCEPT ![r] = "queued"]
  /\ pc' = [pc EXCEPT ![r] = "waiting"]
  /\ UNCHANGED <<hostVars, tokenVars, claims, holder, seen, turns, result, outcome, history>>

(* The synchronous head of _run_once once the claim is held: a token left   *)
(* cancelled by an earlier run is replaced, unless it is this run that is   *)
(* being cancelled, and the runner is given the session.                    *)
ResetsNever(r, o) == FALSE
ResetsAlways(r, o) == TRUE
Resets(r, o) == tripped[token[o]] /\ status[r] # "cancelling"

EnterSession(r, n) ==
  LET o == sessions[n]
      held == IF Resets(r, o) THEN r ELSE token[o] IN
  /\ token' = [token EXCEPT ![o] = held]
  /\ holder' = [holder EXCEPT ![r] = o]
  /\ seen' = [seen EXCEPT ![r] = IF EventSink THEN held ELSE None]
  /\ status' = [status EXCEPT ![r] = "running"]
  /\ pc' = [pc EXCEPT ![r] = "preparing"]
  /\ UNCHANGED tripped

\* run(): claim and enter the session without an await in between.
RunNow(n, r) ==
  /\ pc[r] = "new" /\ sessions[n] # None
  /\ Available(n)
  /\ sessionOf' = [sessionOf EXCEPT ![r] = n]
  /\ claims' = Claim(r)
  /\ EnterSession(r, n)
  /\ UNCHANGED <<hostVars, turns, result, outcome, history>>

(* cancel(key).  A settled run is refused (no step).                        *)
CancelQueued(r) ==
  /\ status[r] = "queued" /\ r \notin claims
  /\ status' = [status EXCEPT ![r] = "cancelled"]
  /\ outcome' = [outcome EXCEPT ![r] = "cancelled"]
  /\ asked' = [asked EXCEPT ![r] = TRUE]
  /\ UNCHANGED <<hostVars, tokenVars, sessionOf, claims, taskVars, struck>>

\* The statuses cancel() refuses to touch.
CancelRefusesButTimeout == {"completed", "cancelled", "failed"}
CancelRefuses == {"completed", "cancelled", "timeout", "failed"}

CancelActive(r) ==
  LET n == sessionOf[r]
      o == sessions[n] IN
  /\ status[r] \notin CancelRefuses \cup {None}
  /\ ~(status[r] = "queued" /\ r \notin claims)
  /\ tripped' = IF o = None THEN tripped ELSE [tripped EXCEPT ![token[o]] = TRUE]
  /\ struck' = IF o = None THEN struck ELSE Struck(n)
  /\ status' = [status EXCEPT ![r] = "cancelling"]
  /\ asked' = [asked EXCEPT ![r] = TRUE]
  /\ UNCHANGED <<hostVars, token, sessionOf, claims, taskVars, outcome>>

-----------------------------------------------------------------------------
(* The run's task.                                                          *)

\* The coroutine's locals end with it.
DropLocals(r) ==
  /\ holder' = [holder EXCEPT ![r] = None]
  /\ seen' = [seen EXCEPT ![r] = None]
  /\ turns' = [turns EXCEPT ![r] = 0]
  /\ result' = [result EXCEPT ![r] = None]

\* One look of the poll loop at a run that was cancelled while it waited.
PollCancelled(r) ==
  /\ pc[r] = "waiting" /\ status[r] = "cancelled"
  /\ pc' = [pc EXCEPT ![r] = "done"]
  /\ UNCHANGED <<hostVars, tokenVars, sessionOf, status, claims, holder, seen, turns,
                 result, outcome, history>>

\* The poll loop finds room, claims it and goes straight on into _run_once.
MayPollAnyone(r) == pc[r] = "waiting"
MayPoll(r) == pc[r] = "waiting" /\ status[r] # "cancelled"

PollAdmits(r) ==
  /\ MayPoll(r)
  /\ Available(sessionOf[r])
  /\ sessions[sessionOf[r]] # None
  /\ claims' = Claim(r)
  /\ EnterSession(r, sessionOf[r])
  /\ UNCHANGED <<hostVars, sessionOf, turns, result, outcome, history>>

\* The same with the session unregistered meanwhile: session() raises KeyError before
\* the try whose finally releases the claim.
PollUnknownSession(r) ==
  /\ MayPoll(r)
  /\ Available(sessionOf[r])
  /\ sessions[sessionOf[r]] = None
  /\ claims' = Claim(r)
  /\ pc' = [pc EXCEPT ![r] = "dead"]
  /\ UNCHANGED <<hostVars, tokenVars, sessionOf, status, holder, seen, turns, result,
                 outcome, history>>

\* The first step of the task start() created.
Begin(r) ==
  /\ pc[r] = "pending"
  /\ sessions[sessionOf[r]] # None
  /\ EnterSession(r, sessionOf[r])
  /\ UNCHANGED <<hostVars, sessionOf, claims, turns, result, outcome, history>>

\* Preflight passed and the executor is built: it keeps the token it finds.
BuildExecutor(r) ==
  /\ pc[r] = "preparing"
  /\ seen' = [seen EXCEPT ![r] = TokenOf(r)]
  /\ pc' = [pc EXCEPT ![r] = "turn"]
  /\ UNCHANGED <<hostVars, tokenVars, sessionOf, status, claims, holder, turns, result,
                 outcome, history>>

\* The executor returns a result with status s.
Returns(r, s) ==
  /\ result' = [result EXCEPT ![r] = s]
  /\ pc' = [pc EXCEPT ![r] = "finishing"]

\* Preflight found an error: the outcome is "denied" and no executor runs.
PreflightBlocks(r) ==
  /\ pc[r] = "preparing" /\ "denied" \in LoopEndings
  /\ Returns(r, "denied")
  /\ UNCHANGED <<hostVars, tokenVars, sessionOf, status, claims, holder, seen, turns,
                 outcome, history>>

\* The two cancel checks of an iteration: before start_turn, and after the provider
\* answered.
CancelSeen(r) == tripped[seen[r]]

LoopOverOffByOne(r) == turns[r] > MaxIterations
LoopOver(r) == turns[r] >= MaxIterations

StartTurn(r) ==
  /\ pc[r] = "turn"
  /\ \/ /\ LoopOver(r)
        /\ Returns(r, "max_iterations")
     \/ /\ ~LoopOver(r) /\ CancelSeen(r)
        /\ Returns(r, "cancelled")
     \/ /\ ~LoopOver(r) /\ ~CancelSeen(r)
        /\ pc' = [pc EXCEPT ![r] = "provider"]
        /\ UNCHANGED result
  /\ UNCHANGED <<hostVars, tokenVars, sessionOf, status, claims, holder, seen, turns,
                 outcome, history>>

ProviderReturns(r) ==
  /\ pc[r] = "provider"
  /\ \/ CancelSeen(r) /\ Returns(r, "cancelled")
     \/ ~CancelSeen(r) /\ pc' = [pc EXCEPT ![r] = "acting"] /\ UNCHANGED result
  /\ UNCHANGED <<hostVars, tokenVars, sessionOf, status, claims, holder, seen, turns,
                 outcome, history>>

\* The answer was handled and the loop goes on.
NextTurn(r) ==
  /\ pc[r] = "acting"
  /\ turns' = [turns EXCEPT ![r] = @ + 1]
  /\ pc' = [pc EXCEPT ![r] = "turn"]
  /\ UNCHANGED <<hostVars, tokenVars, sessionOf, status, claims, holder, seen, result,
                 outcome, history>>

\* The answer was the last one: a finish action, a policy gate or the loop guard.
EndLoop(r, s) ==
  /\ pc[r] = "acting"
  /\ s \in ({"completed"} \cup LoopEndings) \ {"max_iterations"}
  /\ Returns(r, s)
  /\ UNCHANGED <<hostVars, tokenVars, sessionOf, status, claims, holder, seen, turns,
                 outcome, history>>

\* The request's deadline passes at the top of the loop, in the provider call or in a
\* tool call.  It is recorded on the token, which the session still shares.
DeadlinePasses(r) ==
  /\ pc[r] \in Executing
  /\ pc[r] = "turn" => ~LoopOver(r)
  /\ tripped' = [tripped EXCEPT ![seen[r]] = TRUE]
  /\ struck' = Struck(sessionOf[r])
  /\ Returns(r, "timeout")
  /\ UNCHANGED <<hostVars, token, sessionOf, status, claims, holder, seen, turns, outcome,
                 asked>>

\* Hooks and trace are behind it: release, then save the final status and the outcome.
FinishLeavesClaim(r) ==
  /\ status' = [status EXCEPT ![r] = result[r]]
  /\ outcome' = [outcome EXCEPT ![r] = result[r]]
  /\ UNCHANGED claims
FinishKeepsStatus(r) ==
  /\ claims' = claims \ {r}
  /\ outcome' = [outcome EXCEPT ![r] = result[r]]
  /\ status' = [status EXCEPT ![r] = IF @ = "cancelling" THEN "cancelled" ELSE result[r]]
SaveEnding(r) ==
  /\ claims' = claims \ {r}
  /\ status' = [status EXCEPT ![r] = result[r]]
  /\ outcome' = [outcome EXCEPT ![r] = result[r]]

Finish(r) ==
  /\ pc[r] = "finishing"
  /\ SaveEnding(r)
  /\ pc' = [pc EXCEPT ![r] = "done"]
  /\ DropLocals(r)
  /\ UNCHANGED <<hostVars, tokenVars, sessionOf, history>>

\* Any exception of the runner: a hook, the provider, a tool, the journal, the trace.
Fail(r) ==
  /\ pc[r] \in Running
  /\ status' = [status EXCEPT ![r] = "failed"]
  /\ pc' = [pc EXCEPT ![r] = "recording"]
  /\ UNCHANGED <<hostVars, tokenVars, sessionOf, claims, holder, seen, turns, result,
                 outcome, history>>

\* record_error returned (or raised): the finally clause releases the claim.
RaiseLeavesClaim(r) == claims
ClaimsAfterRaise(r) == claims \ {r}

Raise(r) ==
  /\ pc[r] = "recording"
  /\ claims' = ClaimsAfterRaise(r)
  /\ pc' = [pc EXCEPT ![r] = "done"]
  /\ DropLocals(r)
  /\ UNCHANGED <<hostVars, tokenVars, sessionOf, status, outcome, history>>

\* The waiter of manager.wait() is cancelled, and with it the task it awaits.  A
\* CancelledError is no Exception: only the finally clause runs, and not even that for
\* a task that never took its first step or that still polls.
Abandon(r) ==
  /\ "abandon" \in HostCalls
  /\ pc[r] \in {"waiting"} \cup Claiming
  /\ claims' = IF pc[r] \in {"waiting", "pending"} THEN claims ELSE claims \ {r}
  /\ pc' = [pc EXCEPT ![r] = "dead"]
  /\ DropLocals(r)
  /\ UNCHANGED <<hostVars, tokenVars, sessionOf, status, outcome, history>>

-----------------------------------------------------------------------------
(* The process stops and a new manager restores the run store: what was     *)
(* active is interrupted; sessions, tasks, claims and outcomes are lost.    *)
RestoredButRunning(s) == IF s \in {"queued", "cancelling"} THEN "interrupted" ELSE s
Restored(s) == IF s \in ActiveStatuses THEN "interrupted" ELSE s

Restart ==
  /\ "restart" \in HostCalls
  /\ sessions' = [n \in Names |-> None]
  /\ token' = [o \in Objects |-> o]
  /\ tripped' = [t \in Tokens |-> FALSE]
  /\ status' = [r \in Runs |-> Restored(status[r])]
  /\ claims' = {}
  /\ pc' = [r \in Runs |-> IF pc[r] = "new" THEN "new" ELSE "gone"]
  /\ holder' = [r \in Runs |-> None]
  /\ seen' = [r \in Runs |-> None]
  /\ turns' = [r \in Runs |-> 0]
  /\ result' = [r \in Runs |-> None]
  /\ outcome' = [r \in Runs |-> None]
  /\ UNCHANGED <<sessionOf, history>>

-----------------------------------------------------------------------------
TaskStep(r) ==
  \/ PollCancelled(r) \/ PollAdmits(r) \/ PollUnknownSession(r)
  \/ Begin(r) \/ BuildExecutor(r) \/ PreflightBlocks(r)
  \/ StartTurn(r) \/ ProviderReturns(r) \/ NextTurn(r)
  \/ \E s \in EndStatuses : EndLoop(r, s)
  \/ DeadlinePasses(r) \/ Finish(r) \/ Fail(r) \/ Raise(r)

Next ==
  \/ \E n \in Names, o \in Objects : Register(n, o)
  \/ \E n \in Names : Unregister(n)
  \/ \E n \in Names, r \in Runs : StartNow(n, r) \/ StartQueued(n, r) \/ RunNow(n, r)
  \/ \E r \in Runs : CancelQueued(r) \/ CancelActive(r) \/ Abandon(r)
  \/ \E r \in Runs : TaskStep(r)
  \/ Restart

Spec == Init /\ [][Next]_vars

(* The event loop runs every ready task, and every provider or tool call    *)
(* returns: the loop itself is bounded by MaxIterations.                    *)
Fairness == \A r \in Runs : WF_vars(TaskStep(r))
FairSpec == Spec /\ Fairness

-----------------------------------------------------------------------------
TypeOK ==
  /\ sessions \in [Names -> Objects \cup {None}]
  /\ token \in [Objects -> Tokens]
  /\ tripped \in [Tokens -> BOOLEAN]
  /\ sessionOf \in [Runs -> Names \cup {None}]
  /\ status \in [Runs -> Statuses \cup {None}]
  /\ claims \in SUBSET Runs
  /\ pc \in [Runs -> Places]
  /\ holder \in [Runs -> Objects \cup {None}]
  /\ seen \in [Runs -> Tokens \cup {None}]
  /\ turns \in [Runs -> 0 .. MaxIterations]
  /\ result \in [Runs -> EndStatuses \cup {None}]
  /\ outcome \in [Runs -> EndStatuses \cup {None}]
  /\ asked \in [Runs -> BOOLEAN]
  /\ struck \in [Runs -> BOOLEAN]

(* What the tasks' positions say of the rest of the state: a key that exists*)
(* belongs to a session, an executor has its token and an iteration left, a *)
(* finishing run has a result, and a waiting one has not been claimed.      *)
TasksOK ==
  \A r \in Runs :
     /\ pc[r] = "new" <=> status[r] = None
     /\ pc[r] # "new" <=> sessionOf[r] \in Names
     /\ pc[r] = "waiting" => status[r] \in {"queued", "cancelled"}
     /\ r \in claims => pc[r] \in Claiming \cup {"dead"}
     /\ pc[r] \in Claiming => r \in claims
     /\ pc[r] \in Executing => seen[r] \in Tokens
     /\ pc[r] = "preparing" => holder[r] \in Objects
     /\ pc[r] \in {"provider", "acting"} => turns[r] < MaxIterations
     /\ pc[r] = "finishing" => result[r] \in EndStatuses
     /\ pc[r] \notin Running \cup {"recording"}
          => result[r] = None /\ seen[r] = None /\ holder[r] = None /\ turns[r] = 0

(* The capacity guard is a check followed by a claim, made by start(), run()*)
(* and by every polling task: together they never exceed the policy.        *)
CapacityBound ==
  /\ \A n \in Names : Cardinality(ClaimsOf(n)) <= MaxPerSession
  /\ MaxActiveRuns # NoLimit => Cardinality(claims) <= MaxActiveRuns

(* A claim is held by a task that is still going to release it: capacity    *)
(* does not leak through a failing, cancelled or timed-out run.             *)
ClaimIsLive == \A r \in claims : pc[r] \in Claiming

(* Each task between claim and release is counted as claimed.               *)
LiveIsClaimed == \A r \in Runs : pc[r] \in Claiming => r \in claims

(* A run ends "cancelled" only because its session's token was tripped      *)
(* while it held its claim, or because it was cancelled itself: a token     *)
(* left cancelled by an earlier run never poisons it.                       *)
NoStaleCancel ==
  \A r \in Runs : (result[r] = "cancelled" \/ status[r] = "cancelled")
                    => struck[r] \/ asked[r]

(* An accepted cancel stays visible to the run until it ends: nothing       *)
(* resets or replaces the token the run is going to look at.                *)
CancelNotLost ==
  \A r \in Runs :
     /\ asked[r]
     /\ pc[r] \in {"pending", "preparing"} \cup Executing
     => tripped[TokenOf(r)]

(* What a waiter is given and what the store says agree, and a store that   *)
(* says completed or timeout has an outcome to give (unless it was lost     *)
(* with the process).                                                       *)
OutcomeAgrees ==
  \A r \in Runs :
     /\ outcome[r] \in Settled => status[r] = outcome[r]
     /\ status[r] \in {"completed", "timeout"} => outcome[r] = status[r] \/ pc[r] = "gone"

(* A record that says running belongs to a live task: neither a failure nor *)
(* a restart leaves such a record behind.                                   *)
RunningIsLive ==
  \A r \in Runs : status[r] = "running" => pc[r] \in Running

(* completed, cancelled, timeout and failed are final.                      *)
SettledIsFinal ==
  [][\A r \in Runs : status[r] \in Settled => status'[r] = status[r]]_vars

(* A run cancelled while it waited never claims capacity afterwards.        *)
WithdrawnStaysOut ==
  [][\A r \in Runs : status[r] = "cancelled" /\ r \notin claims => r \notin claims']_vars

(* What a run was told it ended as stands: the two properties above.        *)
EndsAreFinal == SettledIsFinal /\ WithdrawnStaysOut

(* README.md:468 lists denied and approval_required among the terminal      *)
(* statuses; a terminal run's status does not change.                       *)
EndedIsFinal ==
  [][\A r \in Runs : status[r] \in EndStatuses => status'[r] = status[r]]_vars

(* Every waiting run is admitted or withdrawn once the claims before it are *)
(* released: no queued run is forgotten.                                    *)
QueueDrains == \A r \in Runs : pc[r] = "waiting" ~> pc[r] # "waiting"

(* A claimed run gives its capacity back.                                   *)
ClaimsEnd == \A r \in Runs : r \in claims ~> r \notin claims

(* The manager implements the admission control of module Admission.        *)
Adm == INSTANCE Admission WITH
  Jobs <- Runs, Groups <- Names, GroupLimit <- MaxPerSession,
  TotalLimit <- MaxActiveRuns, Unlimited <- NoLimit, NoGroup <- None,
  group <- sessionOf, holding <- claims,
  waiting <- {r \in Runs : pc[r] = "waiting" /\ status[r] = "queued"}

ImplementsAdmission == Adm!ASpec
=============================================================================
