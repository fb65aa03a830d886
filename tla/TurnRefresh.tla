---------------------------- MODULE TurnRefresh ----------------------------
(***************************************************************************)
(* The callbacks of one run around each model call: the perception         *)
(* controller of src/agent_core/turn_runtime.py, whose evaluations run in  *)
(* the background, and the turn refresher of runner.py, whose memory       *)
(* recall outlives the turn that started it.                               *)
(*                                                                         *)
(* A perception's topics are a model value, and so is the query made of    *)
(* them; TaskQuery is the query of a turn without a refresh.  A run has    *)
(* one task, so the task's signature never changes.  Time shows as whether *)
(* the interval since the last evaluation is over.                         *)
(***************************************************************************)
EXTENDS Naturals, Sequences, FiniteSets, FiniteSetsExt, SequencesExt

CONSTANTS
  Topics, TaskQuery, Nothing,
  Synchronous,         \* PerceptionRuntimeConfig.sync_triggers
  TriggerInterval,     \* iteration_trigger_interval
  MinInterval, MaxInterval,
  KeywordEnabled,      \* _local_keyword_memory_recall_enabled
  RefreshIntents,      \* the sets of intents that a refresh may name
  MaxTurnNumber, MaxEvents \* bounds of the model: turns, and tool results of a run

TurnAssumption ==
  /\ MinInterval \in Nat \ {0} /\ MaxInterval \in Nat /\ MinInterval <= MaxInterval
  /\ TriggerInterval \in Nat /\ Nothing \notin Topics \cup {TaskQuery}
ASSUME TurnAssumption

Triggers == {"post_action", "spin_detected", "forced"}
Shifts == {"none", "pivot", ""} \* "drift" is treated as "none"
Candidate == [topics : Topics, changed : BOOLEAN, shift : Shifts]

VARIABLES
  perception, \* the controller: state, epoch, unchanged, interval, refresh, observation, lock
  spawned,    \* events whose evaluation is scheduled and has not begun
  recall,     \* the refresher: pending background recall, last completed one
  turn,       \* the loop: turn number, where it is, what the turn injected
  timeline,   \* how many perceptions were added to the timeline
  events,     \* tool results so far, for the bound
  pivot       \* history: the query of the latest refresh that no turn has consumed

turnVars == <<perception, spawned, recall, turn, timeline, events, pivot>>

NoState == [topics |-> Nothing, changed |-> FALSE, shift |-> "", trigger |-> ""]
NoRecall == [query |-> Nothing, started |-> 0, hits |-> 0, done |-> FALSE]

TurnInit ==
  /\ perception = [state |-> NoState, epoch |-> 0, unchanged |-> 0, interval |-> MinInterval,
                   refresh |-> Nothing, observation |-> Nothing, updated |-> FALSE,
                   running |-> << >>]
  /\ spawned = << >>
  /\ recall = [pending |-> NoRecall, last |-> NoRecall, disabled |-> 0, asked |-> Nothing]
  /\ turn = [number |-> 0, at |-> "tools", used |-> NoRecall, query |-> Nothing]
  /\ timeline = 0
  /\ events = 0
  /\ pivot = Nothing

-----------------------------------------------------------------------------
(* Perception.                                                              *)

\* _should_trigger
ShouldTrigger(trigger, due) ==
  \/ trigger # "post_action"
  \/ perception.state.topics = Nothing
  \/ TriggerInterval > 0 /\ turn.number > 0 /\ turn.number % TriggerInterval = 0 /\ due

\* _should_update
ShouldUpdate(candidate, trigger) ==
  \/ perception.state.topics = Nothing
  \/ trigger # "post_action"
  \/ candidate.changed /\ candidate.topics # perception.state.topics

\* PerceptionState.should_refresh_downstream of an updated state, and is_intent_pivot.
RefreshesDownstream(candidate, trigger) ==
  \/ trigger = "forced"
  \/ candidate.shift = "pivot"
  \/ candidate.shift = "" /\ candidate.changed

\* A back-off after the first evaluation without news.
DoubledEarly(counted) == IF counted >= 1 THEN Min({2 * perception.interval, MaxInterval})
                         ELSE perception.interval

\* The back-off of _apply_result.
Doubled(counted) == IF counted >= 2 THEN Min({2 * perception.interval, MaxInterval})
                    ELSE perception.interval

\* A controller that forgets a refresh when the next evaluation asks for none.
AppliedOverRefresh(candidate, trigger) ==
  [perception EXCEPT !.epoch = @ + 1,
     !.state = [topics |-> candidate.topics, changed |-> candidate.changed,
                shift |-> candidate.shift, trigger |-> trigger],
     !.observation = candidate.topics, !.updated = ShouldUpdate(candidate, trigger),
     !.refresh = IF ShouldUpdate(candidate, trigger) /\ RefreshesDownstream(candidate, trigger)
                 THEN candidate.topics ELSE Nothing]

\* _apply_result and what _evaluate_event makes of it.
Applied(candidate, trigger) ==
  LET updated == ShouldUpdate(candidate, trigger)
      counted == perception.unchanged + 1
      state == IF updated
               THEN [topics |-> candidate.topics, changed |-> candidate.changed,
                     shift |-> candidate.shift, trigger |-> trigger]
               ELSE [perception.state EXCEPT !.trigger = trigger]
  IN [state |-> state,
      epoch |-> perception.epoch + 1,
      unchanged |-> IF updated THEN 0 ELSE counted,
      interval |-> IF updated THEN MinInterval ELSE Doubled(counted),
      refresh |-> IF updated /\ RefreshesDownstream(state, trigger) THEN state.topics
                  ELSE perception.refresh,
      observation |-> state.topics,
      updated |-> updated,
      running |-> perception.running]

\* A controller without its lock.
AlwaysUnlocked == TRUE

\* The lock is free.
Unlocked == perception.running = << >>

\* _evaluate_event up to its await: behind a running evaluation an event is dropped.
Evaluating(trigger) ==
  IF Unlocked
  THEN [perception EXCEPT !.running = Append(@, [trigger |-> trigger, previous |-> perception.state,
                                                 epoch |-> perception.epoch])]
  ELSE perception

\* _drain_perception_observation_to_timeline
Drained ==
  /\ timeline' = IF perception.observation # Nothing /\ perception.updated
                 THEN timeline + 1 ELSE timeline

\* after_tool_result of the refresher and of the controller.
ToolResult(trigger, due) ==
  /\ turn.at = "tools" /\ events < MaxEvents
  /\ events' = events + 1
  /\ IF ~ShouldTrigger(trigger, due)
     THEN UNCHANGED <<spawned, turn, timeline>> /\ perception' = perception
     ELSE IF Synchronous
     THEN /\ perception' = Evaluating(trigger)
          /\ turn' = [turn EXCEPT !.at = IF Unlocked THEN "perceiving" ELSE @]
          /\ UNCHANGED <<spawned, timeline>>
     ELSE /\ spawned' = Append(spawned, trigger)
          /\ Drained
          /\ perception' = [perception EXCEPT !.observation = Nothing]
          /\ UNCHANGED turn
  /\ UNCHANGED <<recall, pivot>>

\* A background task gets its first step.
EvaluationBegins ==
  /\ spawned # << >>
  /\ spawned' = Tail(spawned)
  /\ perception' = Evaluating(Head(spawned))
  /\ UNCHANGED <<recall, turn, timeline, events, pivot>>

\* The evaluator answers.
EvaluationEnds(i, candidate) ==
  /\ i \in DOMAIN perception.running
  /\ LET trigger == perception.running[i].trigger
     IN /\ perception' = [Applied(candidate, trigger) EXCEPT !.running = RemoveAt(@, i)]
        /\ pivot' = IF ShouldUpdate(candidate, trigger) /\ RefreshesDownstream(candidate, trigger)
                    THEN candidate.topics ELSE pivot
  /\ turn' = [turn EXCEPT !.at = IF @ = "perceiving" THEN "tools" ELSE @]
  /\ UNCHANGED <<spawned, recall, timeline, events>>

\* The evaluator raises in a background task: nobody hears of it.
EvaluationFails ==
  /\ ~Unlocked /\ ~Synchronous
  /\ perception' = [perception EXCEPT !.running = << >>]
  /\ UNCHANGED <<spawned, recall, turn, timeline, events, pivot>>

-----------------------------------------------------------------------------
(* The turn.                                                                *)

\* A recall that is switched off, but not forgotten.
RecallKept(r) == [r EXCEPT !.disabled = turn.number + 1]

\* The disabled branch of _fast_memory_recall: pending and last recall are forgotten.
RecallForgotten(r) ==
  [r EXCEPT !.pending = NoRecall, !.last = NoRecall, !.disabled = turn.number + 1]

Harvested(r) == [r EXCEPT !.pending = NoRecall, !.last = r.pending]

\* PerceptionDownstreamPlan.intent_enabled
IntentEnabled(intents, intent, default) == IF intents = {} THEN default ELSE intent \in intents

Started(query) == [query |-> query, started |-> turn.number + 1, hits |-> 0, done |-> FALSE]

\* before_model_call up to the wait in _fast_memory_recall: the observation and the refresh
\* are consumed, the turn's query is planned, and memory is recalled.
BeforeModelCall(intents) ==
  /\ turn.at = "tools" /\ turn.number < MaxTurnNumber
  /\ intents = {} <=> perception.refresh = Nothing
  /\ Drained
  /\ perception' = [perception EXCEPT !.observation = Nothing, !.refresh = Nothing]
  /\ pivot' = Nothing
  /\ LET query == IF perception.refresh = Nothing THEN TaskQuery ELSE perception.refresh
         next == [turn EXCEPT !.number = @ + 1, !.query = query]
     IN IF ~IntentEnabled(intents, "memory_recall", TRUE)
        THEN /\ recall' = RecallForgotten(recall)
             /\ turn' = [next EXCEPT !.at = "model", !.query = Nothing]
        ELSE IF recall.pending.done
        THEN /\ recall' = Harvested(recall)
             /\ turn' = [next EXCEPT !.at = "model", !.query = Nothing, !.used = recall.pending]
        ELSE /\ recall' = IF recall.pending = NoRecall
                          THEN [recall EXCEPT !.pending = Started(query), !.asked = query]
                          ELSE IF KeywordEnabled THEN [recall EXCEPT !.asked = query] ELSE recall
             /\ turn' = [next EXCEPT !.at = "waiting"]
  /\ UNCHANGED <<spawned, events>>

\* The background recall ends: with hits, or with none because it timed out or raised.
RecallEnds(hits) ==
  /\ recall.pending # NoRecall /\ ~recall.pending.done
  /\ recall' = [recall EXCEPT !.pending.done = TRUE, !.pending.hits = hits]
  /\ UNCHANGED <<perception, spawned, turn, timeline, events, pivot>>

KeywordAnswers == IF KeywordEnabled THEN {<< >>, <<0>>, <<1>>} ELSE {<< >>}

\* The wait is over: the first of the two recalls is done, or its time is.
WaitOver(keyword) ==
  /\ turn.at = "waiting" /\ keyword \in KeywordAnswers
  /\ LET done == recall.pending.done
         found == IF done THEN recall.pending.hits ELSE 0
         answer == [Started(turn.query) EXCEPT !.started = turn.number, !.done = TRUE,
                                               !.hits = IF keyword = << >> THEN 0 ELSE Head(keyword)]
         takesKeyword == keyword # << >> /\ (~done \/ (found = 0 /\ answer.hits > 0))
     IN /\ recall' = IF done THEN Harvested(recall) ELSE recall
        /\ turn' = [turn EXCEPT !.at = "model", !.query = Nothing,
                                !.used = IF takesKeyword THEN answer
                                         ELSE IF done THEN recall.pending ELSE recall.last]
  /\ UNCHANGED <<perception, spawned, timeline, events, pivot>>

\* The model has answered, and the tools it asked for run.
ModelAnswers ==
  /\ turn.at = "model"
  /\ turn' = [turn EXCEPT !.at = "tools", !.used = NoRecall]
  /\ UNCHANGED <<perception, spawned, recall, timeline, events, pivot>>

TurnNext ==
  \/ \E trigger \in Triggers, due \in BOOLEAN : ToolResult(trigger, due)
  \/ EvaluationBegins
  \/ \E i \in DOMAIN perception.running, candidate \in Candidate : EvaluationEnds(i, candidate)
  \/ EvaluationFails
  \/ \E intents \in RefreshIntents \cup {{}} : BeforeModelCall(intents)
  \/ \E hits \in 0 .. 1 : RecallEnds(hits)
  \/ \E keyword \in KeywordAnswers : WaitOver(keyword)
  \/ ModelAnswers

TurnSpec == TurnInit /\ [][TurnNext]_turnVars

-----------------------------------------------------------------------------
(* Properties.                                                              *)

\* However tool results overlap with evaluations, an evaluation is applied to the very
\* state that it was given as the previous one.
EvaluatesCurrentState ==
  \A i \in DOMAIN perception.running :
    /\ perception.running[i].previous = perception.state
    /\ perception.running[i].epoch = perception.epoch

\* A change of intent reaches the next turn: no later evaluation takes its refresh back.
RefreshReachesNextTurn == perception.refresh = pivot

\* The evaluations spread out only after two in a row without news, and to the maximum.
BackoffNeedsSilence ==
  /\ perception.interval \in MinInterval .. MaxInterval
  /\ perception.unchanged < 2 => perception.interval = MinInterval
  /\ perception.unchanged >= 2 => perception.interval = Min({MaxInterval, 2 * MinInterval})
                                  \/ perception.unchanged > 2

\* A recall that was under way or kept when a turn was told not to recall is never used by
\* a later turn.
DisabledIsForgotten ==
  turn.used # NoRecall => turn.used.started > recall.disabled

\* docs/yaklang_alignment_audit.md:24: a refresh schedules the memory recall.  A turn with a
\* change of intent has memory searched for the new query.
PivotIsRecalled ==
  [][(perception.refresh # Nothing /\ turn'.number > turn.number /\ recall'.disabled # turn'.number)
       => recall'.asked = perception.refresh]_turnVars

\* A refresh answers the turn it is for, and is asked for when there is a reason to: the
\* four properties above.
RefreshIsCurrent ==
  /\ EvaluatesCurrentState /\ RefreshReachesNextTurn
  /\ BackoffNeedsSilence /\ DisabledIsForgotten
=============================================================================
