------------------------- MODULE AgentJournalReplay -------------------------
(***************************************************************************)
(* The offline replay of a journal: AgentJournalReplay.from_snapshot and   *)
(* its audit _audit_snapshot of src/agent_core/trace.py, as operators on a *)
(* journal, and what the audit of a journal that AgentJournal wrote finds. *)
(*                                                                         *)
(* A record stands for a prompt, a model event or a tool call; it carries  *)
(* the ids of its turn and of the turn's run.  Errors need no run.         *)
(***************************************************************************)
EXTENDS AgentJournal

\* "include": a replay is of one run, or of all (None).
Include(run, r) == r = None \/ run = r

KnownTurn(j, run, t) == j.turn[t] # "absent" /\ j.runOf[t] = run

\* Everything the snapshot says of a run and a turn: turns, records, checkpoints and
\* endings (which name no turn).
Mentions(j) ==
  {[what |-> "turn", run |-> j.runOf[t], turn |-> t] : t \in {u \in Turns : j.turn[u] # "absent"}}
    \cup {[what |-> "record", run |-> j.runOf[j.records[i]], turn |-> j.records[i]]
            : i \in DOMAIN j.records}
    \cup {[what |-> "checkpoint", run |-> j.checkpoints[i].run, turn |-> j.checkpoints[i].turn]
            : i \in DOMAIN j.checkpoints}
    \cup {[what |-> "finished", run |-> j.finished[i].run, turn |-> None]
            : i \in DOMAIN j.finished}

UnknownRuns(j, r) ==
  {m \in Mentions(j) : Include(m.run, r) /\ (m.run \notin Runs \/ j.run[m.run] = "absent")}

UnknownTurns(j, r) ==
  {m \in Mentions(j) :
     Include(m.run, r) /\ m.what \in {"record", "checkpoint"} /\ ~KnownTurn(j, m.run, m.turn)}

\* The run's checkpoints before the i-th of the list, and of these the last.
Earlier(j, i) == {k \in CheckpointsOf(j, j.checkpoints[i].run) : k < i}
Previous(j, i) == {k \in Earlier(j, i) : \A l \in Earlier(j, i) : l <= k}

\* Numbers start above 0 and grow from a run's checkpoint to its next.
NonMonotonic(j, r) ==
  {i \in DOMAIN j.checkpoints :
     /\ Include(j.checkpoints[i].run, r)
     /\ \/ j.checkpoints[i].sequence <= 0
        \/ \E k \in Previous(j, i) : j.checkpoints[i].sequence <= j.checkpoints[k].sequence}

MissingEndings(j, r) ==
  {run \in Runs : Include(run, r) /\ RunOver(j, run) /\ FinishedEntries(j, run) = {}}

\* AgentJournalReplay.ok: the audit has no issue (each is an error).
ReplayOk(j, r) ==
  /\ UnknownRuns(j, r) = {}
  /\ UnknownTurns(j, r) = {}
  /\ NonMonotonic(j, r) = {}
  /\ MissingEndings(j, r) = {}

-----------------------------------------------------------------------------
\* The audit has nothing to say of a journal that the code wrote: not of the lists in
\* memory while a save has failed, not of what a crash left in the store, not of one run
\* and not of all.  (An issue is then a snapshot somebody else has changed.)
AuditPasses ==
  \A r \in Runs \cup {None} : ReplayOk(journal, r) /\ ReplayOk(stored.book, r)
=============================================================================
