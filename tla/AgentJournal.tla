---------------------------- MODULE AgentJournal ----------------------------
(***************************************************************************)
(* The run journal of src/agent_core/harness.py: InMemoryAgentJournal with *)
(* the lifecycle it enforces on runs and turns, and PersistentAgentJournal *)
(* with the snapshot store behind it.                                      *)
(*                                                                         *)
(* Every mutating call of the persistent journal first changes the lists   *)
(* in memory and then writes the whole snapshot.  Between the two the      *)
(* write may raise, which leaves memory ahead of the store, or the process *)
(* may die, which leaves only the store.  A call that is rejected (unknown *)
(* run or turn, finished run or turn, invalid status) raises before it     *)
(* changes anything and is no step.                                        *)
(*                                                                         *)
(* A journal is a record of the lists the class keeps.  The three lists    *)
(* prompts, model_events and tool_calls are appended to under one guard,   *)
(* and are one list here.                                                  *)
(***************************************************************************)
EXTENDS Naturals, Sequences, FiniteSets

CONSTANTS
  Runs,           \* run ids
  Turns,          \* turn ids
  Checkpoints,    \* checkpoint ids
  States,         \* the states a caller checkpoints
  Unserializable, \* those json.dumps rejects
  Closing,        \* those whose text holds "-->", which ends a Markdown snapshot
  RunEndings,     \* the statuses callers finish runs with
  Store,          \* the store behind the journal: "sqlite" or "markdown"
  Faults,         \* what may go wrong: "save_fails", "crash"
  MaxRecords,     \* bound on the list of records
  MaxErrors,      \* bound on the list of errors
  None

TerminalRunStatuses ==
  {"completed", "cancelled", "timeout", "failed", "max_iterations", "stalled",
   "denied", "approval_required"}
TerminalTurnStatuses == {"completed", "cancelled", "failed"}

ASSUME JournalAssumption ==
  /\ Unserializable \subseteq States
  /\ Closing \subseteq States
  /\ RunEndings \subseteq STRING
  /\ Store \in {"sqlite", "markdown"}
  /\ Faults \subseteq {"save_fails", "crash"}
  /\ MaxRecords \in Nat
  /\ MaxErrors \in Nat
  /\ None \notin Runs

VARIABLES
  journal,  \* the journal object of the running process
  stored,   \* the snapshot in the store
  up,       \* the process is running and has opened the store
  kept      \* history: the journal as of the last call that returned

vars == <<journal, stored, up, kept>>

-----------------------------------------------------------------------------
(* The lists of a journal.                                                  *)

EmptyJournal ==
  [run |-> [r \in Runs |-> "absent"],
   turn |-> [t \in Turns |-> "absent"],
   runOf |-> [t \in Turns |-> None],
   checkpoints |-> << >>,
   records |-> << >>,
   finished |-> << >>,
   errors |-> 0]

RunOver(j, r) == j.run[r] \in TerminalRunStatuses

\* _require_active_turn without its checks of the turn's and the run's status.
AnyKnownTurn(j, t) == j.turn[t] # "absent"
ActiveTurn(j, t) ==
  /\ j.turn[t] # "absent"
  /\ j.turn[t] \notin TerminalTurnStatuses
  /\ ~RunOver(j, j.runOf[t])

CheckpointsOf(j, r) == {i \in DOMAIN j.checkpoints : j.checkpoints[i].run = r}

\* The sequence of a checkpoint counted over the whole journal.
CountAll(j, r) == Len(j.checkpoints) + 1
\* The first checkpoint of a run numbered 0.
CountEarlier(j, r) == Cardinality(CheckpointsOf(j, r))
NextSequence(j, r) == Cardinality(CheckpointsOf(j, r)) + 1

\* The run's own status given to its turns.
SameStatus(s) == s
TurnStatusForRun(s) == IF s \in {"cancelled", "failed"} THEN s ELSE "completed"

LeaveTurnsOpen(j, r, s) == j.turn
FinishOpenTurns(j, r, s) ==
  [t \in Turns |->
     IF j.runOf[t] = r /\ j.turn[t] \notin TerminalTurnStatuses
     THEN TurnStatusForRun(s) ELSE j.turn[t]]

\* finish_run without the check that the run is not finished yet.
MayFinishAgain(j, r, s) == j.run[r] # "absent" /\ s \in TerminalRunStatuses
MayFinish(j, r, s) ==
  /\ j.run[r] # "absent"
  /\ ~RunOver(j, r)
  /\ s \in TerminalRunStatuses

WithRun(j, r) == [j EXCEPT !.run[r] = "running"]

WithTurn(j, r, t) == [j EXCEPT !.turn[t] = "running", !.runOf[t] = r]

WithRecord(j, t) == [j EXCEPT !.records = Append(@, t)]

WithCheckpoint(j, t, c, s) ==
  [j EXCEPT !.checkpoints =
     Append(@, [id |-> c, run |-> j.runOf[t], turn |-> t,
                sequence |-> NextSequence(j, j.runOf[t]), state |-> s])]

WithEnd(j, r, s) ==
  [j EXCEPT !.run[r] = s,
            !.turn = FinishOpenTurns(j, r, s),
            !.finished = Append(@, [run |-> r, status |-> s])]

WithError(j) == [j EXCEPT !.errors = @ + 1]

-----------------------------------------------------------------------------
(* The store.  SQLite replaces the one snapshot row in a transaction.  The  *)
(* Markdown store rewrites its file, so a write that does not end leaves    *)
(* the file without a snapshot ("nothing", which loads as no journal) or    *)
(* with half of one ("broken", which raises); and the snapshot's text ends  *)
(* at the first "-->", wherever that is.                                    *)

HasState(j, S) == \E i \in DOMAIN j.checkpoints : j.checkpoints[i].state \in S

Serializable(j) == ~HasState(j, Unserializable)

Nothing == [form |-> "nothing", book |-> EmptyJournal]
Broken == [form |-> "broken", book |-> EmptyJournal]
Whole(j) == [form |-> "whole", book |-> j]

\* _persist forgotten: the call returns and the store has not changed.
NotWritten(j) == stored
Written(j) == IF Store = "markdown" /\ HasState(j, Closing) THEN Broken ELSE Whole(j)

HalfWritten == IF Store = "markdown" THEN {stored, Nothing, Broken} ELSE {stored}

\* A journal that opens empty whatever the store holds.
LoadNothing(s) == EmptyJournal
Loaded(s) == s.book

-----------------------------------------------------------------------------
Init ==
  /\ journal = EmptyJournal
  /\ stored = Nothing
  /\ up = TRUE
  /\ kept = EmptyJournal

\* The three ends of a call whose lists become j: it returns; the write raises and
\* the lists stay changed; the process dies before the call returned.
Returns(j) ==
  /\ Serializable(j)
  /\ journal' = j
  /\ stored' = Written(j)
  /\ kept' = j
  /\ UNCHANGED up

Raises(j) ==
  /\ ~Serializable(j) \/ "save_fails" \in Faults
  /\ journal' = j
  /\ stored' \in IF Serializable(j) THEN HalfWritten ELSE {stored}
  /\ UNCHANGED <<up, kept>>

Dies(j) ==
  /\ "crash" \in Faults
  /\ journal' = EmptyJournal
  /\ up' = FALSE
  /\ stored' \in IF Serializable(j) THEN HalfWritten \cup {Written(j)} ELSE {stored}
  /\ UNCHANGED kept

Persist(j) == up /\ (Returns(j) \/ Raises(j) \/ Dies(j))

StartRun(r) ==
  /\ journal.run[r] = "absent"
  /\ Persist(WithRun(journal, r))

StartTurn(r, t) ==
  /\ journal.run[r] # "absent"
  /\ ~RunOver(journal, r)
  /\ journal.turn[t] = "absent"
  /\ Persist(WithTurn(journal, r, t))

\* record_prompt, record_model_event and record_tool_call.
Record(t) ==
  /\ ActiveTurn(journal, t)
  /\ Len(journal.records) < MaxRecords
  /\ Persist(WithRecord(journal, t))

FreshCheckpoint(c) ==
  \A i \in DOMAIN journal.checkpoints : journal.checkpoints[i].id # c

Checkpoint(t, c, s) ==
  /\ ActiveTurn(journal, t)
  /\ FreshCheckpoint(c)
  /\ Persist(WithCheckpoint(journal, t, c, s))

FinishRun(r, s) ==
  /\ MayFinish(journal, r, s)
  /\ Persist(WithEnd(journal, r, s))

RecordError ==
  /\ journal.errors < MaxErrors
  /\ Persist(WithError(journal))

\* The process dies between two calls.
Crash ==
  /\ up
  /\ "crash" \in Faults
  /\ up' = FALSE
  /\ journal' = EmptyJournal
  /\ UNCHANGED <<stored, kept>>

\* The process restarts and opens the journal; a broken snapshot raises ResumeError.
Restart ==
  /\ ~up
  /\ stored.form # "broken"
  /\ up' = TRUE
  /\ journal' = Loaded(stored)
  /\ UNCHANGED <<stored, kept>>

Next ==
  \/ \E r \in Runs : StartRun(r)
  \/ \E r \in Runs, t \in Turns : StartTurn(r, t)
  \/ \E t \in Turns : Record(t)
  \/ \E t \in Turns, c \in Checkpoints, s \in States : Checkpoint(t, c, s)
  \/ \E r \in Runs, s \in RunEndings : FinishRun(r, s)
  \/ RecordError
  \/ Crash
  \/ Restart

Spec == Init /\ [][Next]_vars

-----------------------------------------------------------------------------
(* Types.                                                                   *)

RunStatuses == {"absent", "running"} \cup TerminalRunStatuses
TurnStatuses == {"absent", "running"} \cup TerminalTurnStatuses

Journals ==
  [run : [Runs -> RunStatuses],
   turn : [Turns -> TurnStatuses],
   runOf : [Turns -> Runs \cup {None}],
   checkpoints : Seq([id : Checkpoints, run : Runs, turn : Turns,
                      sequence : Nat \ {0}, state : States]),
   records : Seq(Turns),
   finished : Seq([run : Runs, status : TerminalRunStatuses]),
   errors : Nat]

\* What the journal, the store and the last returned snapshot may hold.
TypeOK ==
  /\ journal \in Journals
  /\ stored \in [form : {"nothing", "broken", "whole"}, book : Journals]
  /\ up \in BOOLEAN
  /\ kept \in Journals

-----------------------------------------------------------------------------
(* Safety.                                                                  *)

TurnsFollow(j) ==
  \A t \in Turns :
    IF j.runOf[t] = None
    THEN j.turn[t] = "absent"
    ELSE /\ j.run[j.runOf[t]] # "absent"
         /\ j.turn[t] = IF RunOver(j, j.runOf[t])
                        THEN TurnStatusForRun(j.run[j.runOf[t]]) ELSE "running"

\* A turn is open exactly as long as its run: start_turn never closes an earlier
\* turn, so several are open at once, and finish_run closes every one of them, in
\* the journal and in any snapshot a restart can load.
TurnsEndWithTheirRun == TurnsFollow(journal) /\ TurnsFollow(stored.book)

FinishedEntries(j, r) == {i \in DOMAIN j.finished : j.finished[i].run = r}

FinishedOnceIn(j) ==
  \A r \in Runs :
    IF RunOver(j, r)
    THEN \E i \in DOMAIN j.finished :
           /\ FinishedEntries(j, r) = {i}
           /\ j.finished[i].status = j.run[r]
    ELSE FinishedEntries(j, r) = {}

\* A run has one entry in finished if it is over, with the status it ended with, and
\* none if it is not, whatever saves failed and restarts came between.
FinishedOnce == FinishedOnceIn(journal) /\ FinishedOnceIn(stored.book)

NumberedIn(j) ==
  \A i \in DOMAIN j.checkpoints :
    j.checkpoints[i].sequence =
      Cardinality({k \in CheckpointsOf(j, j.checkpoints[i].run) : k <= i})

\* The checkpoints of a run are numbered 1, 2, 3, ... in the order they were made,
\* whatever other runs checkpoint in between: resume picks the highest number.
CheckpointsNumbered == NumberedIn(journal) /\ NumberedIn(stored.book)

Prefix(s, t) == Len(s) <= Len(t) /\ \A i \in 1..Len(s) : t[i] = s[i]

\* Journal j still holds what journal k held.
Holds(j, k) ==
  /\ \A r \in Runs :
       /\ k.run[r] # "absent" => j.run[r] # "absent"
       /\ RunOver(k, r) => j.run[r] = k.run[r]
  /\ \A t \in Turns : k.turn[t] # "absent" => j.runOf[t] = k.runOf[t]
  /\ Prefix(k.checkpoints, j.checkpoints)
  /\ Prefix(k.records, j.records)
  /\ Prefix(k.finished, j.finished)
  /\ k.errors <= j.errors

\* What a reader of the journal sees, or would see after a restart.
Shown == IF up THEN journal ELSE stored.book

\* Whatever a call that returned had put into the journal is in the store, and in
\* every journal opened from it later, over failing saves and crashes.
KeptSurvives == Holds(stored.book, kept) /\ Holds(Shown, kept)

\* What the journal says of one run.
PageOf(j, r) ==
  [status |-> j.run[r],
   turns |-> {<<t, j.turn[t]>> : t \in {u \in Turns : j.runOf[u] = r}},
   checkpoints |-> {j.checkpoints[i] : i \in CheckpointsOf(j, r)},
   finished |-> {j.finished[i] : i \in FinishedEntries(j, r)}]

\* Once finish_run has returned for a run, nothing the journal says of that run ever
\* changes: no late turn, checkpoint or second ending, before or after a restart.
FinishedIsSettled ==
  [][\A r \in Runs : RunOver(kept, r) => PageOf(Shown, r)' = PageOf(Shown, r)]_vars

-----------------------------------------------------------------------------
(* What the journal promises: RunLedger.                                    *)

Entry(j, r) == [status |-> IF RunOver(j, r) THEN "over" ELSE j.run[r],
                pages |-> Cardinality(CheckpointsOf(j, r))]

Ledger == INSTANCE RunLedger WITH
            seen <- [r \in Runs |-> Entry(Shown, r)],
            safe <- [r \in Runs |-> Entry(stored.book, r)]

\* The persistent journal implements the ledger: entries only grow while the process
\* lives, an entry that is over is never written to again, and a crash takes the
\* ledger back to what was saved and nowhere else.
ImplementsLedger == Ledger!LSpec
=============================================================================
