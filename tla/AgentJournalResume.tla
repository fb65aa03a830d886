------------------------- MODULE AgentJournalResume -------------------------
(***************************************************************************)
(* Resuming from the journal: ResumeIndex, ResumePlan, ResumeToken and     *)
(* InMemoryAgentJournal.resume of src/agent_core/harness.py, as operators  *)
(* on a journal, and what a plan made from them may rely on.               *)
(***************************************************************************)
EXTENDS AgentJournal, SequencesExt, Lists

\* ResumeToken: the checkpoint a host may ask for again.
Token(c) == [run |-> c.run, id |-> c.id, sequence |-> c.sequence]

\* from_snapshot: one pass over the checkpoints keeps, for each run, the one with the
\* highest number, the later of two equal ones.
FirstOfEach(best, c) == IF best[c.run] = {} THEN [best EXCEPT ![c.run] = {c}] ELSE best
KeepLatest(best, c) ==
  IF \A p \in best[c.run] : c.sequence >= p.sequence
  THEN [best EXCEPT ![c.run] = {c}] ELSE best

LatestByRun(j) ==
  LET latest[n \in 0..Len(j.checkpoints)] ==
        IF n = 0 THEN [r \in Runs |-> {}] ELSE KeepLatest(latest[n - 1], j.checkpoints[n])
  IN latest[Len(j.checkpoints)]

\* The candidates of ResumeIndex, in the order of the runs' first checkpoints.
RunsInOrder(j) ==
  LET firsts == {i \in DOMAIN j.checkpoints :
                   \A k \in 1..(i - 1) : j.checkpoints[k].run # j.checkpoints[i].run}
      order == Filtered([i \in DOMAIN j.checkpoints |-> i], firsts)
  IN [n \in DOMAIN order |-> j.checkpoints[order[n]].run]

Candidates(j, includeTerminal) ==
  LET included == {r \in Runs : includeTerminal \/ ~RunOver(j, r)}
      latest == LatestByRun(j)
      runs == Filtered(RunsInOrder(j), included)
  IN [n \in DOMAIN runs |-> CHOOSE c \in latest[runs[n]] : TRUE]

\* ResumeIndex.for_run and latest; {} stands for None.
ForRun(j, includeTerminal, r) ==
  {c \in ToSet(Candidates(j, includeTerminal)) : c.run = r}
LatestCandidate(j, includeTerminal) ==
  IF Candidates(j, includeTerminal) = << >> THEN {}
  ELSE {Last(Candidates(j, includeTerminal))}

\* ResumePlan.from_index and ready: a terminal run is refused without allow_terminal.
ReadyIfFound(j, allowTerminal, c) == TRUE
Ready(j, allowTerminal, c) == allowTerminal \/ ~RunOver(j, c.run)

Asked(j, includeTerminal, r) ==
  IF r = None THEN LatestCandidate(j, includeTerminal) ELSE ForRun(j, includeTerminal, r)

Plan(j, includeTerminal, allowTerminal, r) ==
  {c \in Asked(j, includeTerminal, r) : Ready(j, allowTerminal, c)}

\* resume: the first checkpoint of the token's run and id, if its number is the token's.
Resumed(j, token) ==
  LET matches == {i \in DOMAIN j.checkpoints :
                    j.checkpoints[i].run = token.run /\ j.checkpoints[i].id = token.id}
  IN {j.checkpoints[i] : i \in {k \in matches :
        /\ \A l \in matches : k <= l
        /\ j.checkpoints[k].sequence = token.sequence}}

\* latest_checkpoint: the last of the run's checkpoints sorted by number.
LatestCheckpoint(j, r) ==
  {j.checkpoints[i] : i \in {k \in CheckpointsOf(j, r) :
     \A l \in CheckpointsOf(j, r) :
       \/ j.checkpoints[l].sequence < j.checkpoints[k].sequence
       \/ j.checkpoints[l].sequence = j.checkpoints[k].sequence /\ l <= k}}

-----------------------------------------------------------------------------
\* The index and the journal agree on where a run resumes: the candidate for_run
\* selects is the checkpoint latest_checkpoint returns, and its token resumes to it.
ResumePointIsLatest ==
  \A r \in Runs :
    LET chosen == ForRun(journal, TRUE, r)
    IN /\ chosen = LatestCheckpoint(journal, r)
       /\ \A c \in chosen : Resumed(journal, Token(c)) = {c}

\* A plan that refuses terminal runs, by allow_terminal or by include_terminal, never
\* selects a run that is over, and finds one whenever an open run has a checkpoint.
StrictPlanIsOpen ==
  /\ \A include \in BOOLEAN, r \in Runs \cup {None} :
       \A c \in Plan(journal, include, FALSE, r) : journal.run[c.run] = "running"
  /\ (\E i \in DOMAIN journal.checkpoints : ~RunOver(journal, journal.checkpoints[i].run))
       => Plan(journal, FALSE, FALSE, None) # {}

\* A token made from a checkpoint that was returned to its caller resumes to that very
\* checkpoint for ever after, whatever was lost and restarted since.
KeptTokenResumes ==
  up => \A i \in DOMAIN kept.checkpoints :
          Resumed(journal, Token(kept.checkpoints[i])) = {kept.checkpoints[i]}

\* Where a run resumes, however it is asked for: the three properties above.
ResumeIsSound == ResumePointIsLatest /\ StrictPlanIsOpen /\ KeptTokenResumes
=============================================================================
