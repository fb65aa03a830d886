------------------------- MODULE AgentJournalProofs -------------------------
(***************************************************************************)
(* Proofs about AgentJournal, for every set of runs, turns, checkpoints    *)
(* and states.  The argument is about one journal first: Change(j, k) says *)
(* that k is what an accepted call makes of j, and a change keeps what is  *)
(* sound about a journal, keeps what it held, and leaves the page of a run *)
(* that is over alone.  The steps of the module are then changes of the    *)
(* journal in memory, of which the store takes all or nothing.             *)
(***************************************************************************)
EXTENDS AgentJournalReplay, AgentJournalResume, FiniteSetTheorems, ListLemmas

Change(j, k) ==
  \/ \E r \in Runs : j.run[r] = "absent" /\ k = WithRun(j, r)
  \/ \E r \in Runs, t \in Turns :
       /\ j.run[r] # "absent"
       /\ ~RunOver(j, r)
       /\ j.turn[t] = "absent"
       /\ k = WithTurn(j, r, t)
  \/ \E t \in Turns : ActiveTurn(j, t) /\ k = WithRecord(j, t)
  \/ \E t \in Turns, c \in Checkpoints, s \in States :
       /\ ActiveTurn(j, t)
       /\ \A i \in DOMAIN j.checkpoints : j.checkpoints[i].id # c
       /\ k = WithCheckpoint(j, t, c, s)
  \/ \E r \in Runs, s \in TerminalRunStatuses : MayFinish(j, r, s) /\ k = WithEnd(j, r, s)
  \/ k = WithError(j)

\* A call of the journal persists a change of it.
LEMMA NextIsChange ==
  ASSUME Next
  PROVE  Crash \/ Restart \/ \E k : Change(journal, k) /\ Persist(k)
<1>1. CASE \E r \in Runs : StartRun(r)
  BY <1>1 DEF StartRun, Change
<1>2. CASE \E r \in Runs, t \in Turns : StartTurn(r, t)
  BY <1>2 DEF StartTurn, Change
<1>3. CASE \E t \in Turns : Record(t)
  BY <1>3 DEF Record, Change
<1>4. CASE \E t \in Turns, c \in Checkpoints, s \in States : Checkpoint(t, c, s)
  BY <1>4 DEF Checkpoint, FreshCheckpoint, Change
<1>5. CASE \E r \in Runs, s \in RunEndings : FinishRun(r, s)
  BY <1>5 DEF FinishRun, MayFinish, Change
<1>6. CASE RecordError
  BY <1>6 DEF RecordError, Change
<1> QED
  BY <1>1, <1>2, <1>3, <1>4, <1>5, <1>6 DEF Next

-----------------------------------------------------------------------------
(* One journal: types, turns and endings.                                   *)

Sound(j) == j \in Journals /\ TurnsFollow(j) /\ FinishedOnceIn(j)

LEMMA EmptySound == Sound(EmptyJournal)
<1>1. EmptyJournal \in Journals
  BY DEF EmptyJournal, Journals, RunStatuses, TurnStatuses
<1>2. TurnsFollow(EmptyJournal)
  BY DEF EmptyJournal, TurnsFollow
<1>3. FinishedOnceIn(EmptyJournal)
  BY DEF EmptyJournal, FinishedOnceIn, FinishedEntries, RunOver, TerminalRunStatuses
<1> QED
  BY <1>1, <1>2, <1>3 DEF Sound

\* The number of the next checkpoint is a positive natural.
LEMMA NextSequenceType ==
  ASSUME NEW j \in Journals, NEW r \in Runs
  PROVE  /\ IsFiniteSet(CheckpointsOf(j, r))
         /\ Cardinality(CheckpointsOf(j, r)) \in Nat
         /\ NextSequence(j, r) \in Nat \ {0}
<1>1. IsFiniteSet(1..Len(j.checkpoints))
  BY FS_Interval DEF Journals
<1>2. CheckpointsOf(j, r) \subseteq 1..Len(j.checkpoints)
  BY DEF CheckpointsOf, Journals
<1>3. IsFiniteSet(CheckpointsOf(j, r))
  BY <1>1, <1>2, FS_Subset
<1>4. Cardinality(CheckpointsOf(j, r)) \in Nat
  BY <1>3, FS_CardinalityType
<1> QED
  BY <1>3, <1>4 DEF NextSequence

\* In a sound journal an active turn is a running turn of a run that is running.
LEMMA ActiveTurnFacts ==
  ASSUME NEW j, Sound(j), NEW t \in Turns, ActiveTurn(j, t)
  PROVE  j.runOf[t] \in Runs /\ ~RunOver(j, j.runOf[t]) /\ j.run[j.runOf[t]] = "running"
  BY JournalAssumption
  DEF Sound, Journals, TurnsFollow, ActiveTurn, RunOver, RunStatuses, TerminalRunStatuses

\* Replacing a list of a journal by another of its type gives a journal.
LEMMA FieldTypes ==
  ASSUME NEW j \in Journals
  PROVE  /\ \A f \in [Runs -> RunStatuses] : [j EXCEPT !.run = f] \in Journals
         /\ \A q \in Seq([id : Checkpoints, run : Runs, turn : Turns,
                          sequence : Nat \ {0}, state : States]) :
              [j EXCEPT !.checkpoints = q] \in Journals
         /\ \A q \in Seq(Turns) : [j EXCEPT !.records = q] \in Journals
         /\ \A n \in Nat : [j EXCEPT !.errors = n] \in Journals
<1>1. \A f \in [Runs -> RunStatuses] : [j EXCEPT !.run = f] \in Journals
  BY DEF Journals
<1>3. \A q \in Seq([id : Checkpoints, run : Runs, turn : Turns,
                    sequence : Nat \ {0}, state : States]) :
        [j EXCEPT !.checkpoints = q] \in Journals
  BY DEF Journals
<1>4. \A q \in Seq(Turns) : [j EXCEPT !.records = q] \in Journals
  BY DEF Journals
<1>6. \A n \in Nat : [j EXCEPT !.errors = n] \in Journals
  BY DEF Journals
<1> QED
  BY <1>1, <1>3, <1>4, <1>6

LEMMA WithRunType ==
  ASSUME NEW j \in Journals, NEW r \in Runs
  PROVE  WithRun(j, r) \in Journals
<1>1. [j.run EXCEPT ![r] = "running"] \in [Runs -> RunStatuses]
  BY DEF Journals, RunStatuses
<1>2. WithRun(j, r) = [j EXCEPT !.run = [j.run EXCEPT ![r] = "running"]]
  BY DEF WithRun
<1> QED
  BY <1>1, <1>2, FieldTypes

LEMMA WithTurnType ==
  ASSUME NEW j \in Journals, NEW r \in Runs, NEW t \in Turns
  PROVE  WithTurn(j, r, t) \in Journals
<1> DEFINE turn == [j.turn EXCEPT ![t] = "running"]
           runOf == [j.runOf EXCEPT ![t] = r]
<1>1. turn \in [Turns -> TurnStatuses] /\ runOf \in [Turns -> Runs \cup {None}]
  BY DEF Journals, TurnStatuses
<1>2. WithTurn(j, r, t) = [j EXCEPT !.turn = turn, !.runOf = runOf]
  BY DEF WithTurn
<1> HIDE DEF turn, runOf
<1> QED
  BY <1>1, <1>2 DEF Journals

LEMMA WithRecordType ==
  ASSUME NEW j \in Journals, NEW t \in Turns
  PROVE  WithRecord(j, t) \in Journals
<1>1. Append(j.records, t) \in Seq(Turns)
  BY DEF Journals
<1>2. WithRecord(j, t) = [j EXCEPT !.records = Append(j.records, t)]
  BY DEF WithRecord
<1> QED
  BY <1>1, <1>2, FieldTypes

LEMMA WithCheckpointType ==
  ASSUME NEW j, Sound(j), NEW t \in Turns, NEW c \in Checkpoints, NEW s \in States,
         ActiveTurn(j, t)
  PROVE  WithCheckpoint(j, t, c, s) \in Journals
<1> DEFINE new == [id |-> c, run |-> j.runOf[t], turn |-> t,
                   sequence |-> NextSequence(j, j.runOf[t]), state |-> s]
<1> j \in Journals
  BY DEF Sound
<1>1. j.runOf[t] \in Runs
  BY ActiveTurnFacts
<1>2. NextSequence(j, j.runOf[t]) \in Nat \ {0}
  BY <1>1, NextSequenceType
<1>3. new \in [id : Checkpoints, run : Runs, turn : Turns, sequence : Nat \ {0}, state : States]
  BY <1>1, <1>2
<1>4. Append(j.checkpoints, new) \in Seq([id : Checkpoints, run : Runs, turn : Turns,
                                          sequence : Nat \ {0}, state : States])
  BY <1>3 DEF Journals
<1>5. WithCheckpoint(j, t, c, s) = [j EXCEPT !.checkpoints = Append(j.checkpoints, new)]
  BY DEF WithCheckpoint
<1> QED
  BY <1>4, <1>5, FieldTypes

LEMMA WithEndType ==
  ASSUME NEW j \in Journals, NEW r \in Runs, NEW s \in TerminalRunStatuses
  PROVE  WithEnd(j, r, s) \in Journals
<1> DEFINE run == [j.run EXCEPT ![r] = s]
           turn == FinishOpenTurns(j, r, s)
           finished == Append(j.finished, [run |-> r, status |-> s])
<1>1. run \in [Runs -> RunStatuses]
  BY DEF Journals, RunStatuses
<1>2. turn \in [Turns -> TurnStatuses]
  BY DEF FinishOpenTurns, TurnStatusForRun, Journals, TurnStatuses, TerminalTurnStatuses
<1>3. finished \in Seq([run : Runs, status : TerminalRunStatuses])
  BY DEF Journals
<1>4. WithEnd(j, r, s) = [j EXCEPT !.run = run, !.turn = turn, !.finished = finished]
  BY DEF WithEnd
<1> HIDE DEF run, turn, finished
<1> QED
  BY <1>1, <1>2, <1>3, <1>4 DEF Journals

LEMMA WithErrorType ==
  ASSUME NEW j \in Journals
  PROVE  WithError(j) \in Journals
<1>1. j.errors + 1 \in Nat
  BY DEF Journals
<1>2. WithError(j) = [j EXCEPT !.errors = j.errors + 1]
  BY DEF WithError
<1> QED
  BY <1>1, <1>2, FieldTypes

LEMMA ChangeTypes ==
  ASSUME NEW j, NEW k, Sound(j), Change(j, k)
  PROVE  k \in Journals
<1> j \in Journals
  BY DEF Sound
<1>1. CASE \E r \in Runs : k = WithRun(j, r)
  BY <1>1, WithRunType
<1>2. CASE \E r \in Runs, t \in Turns : k = WithTurn(j, r, t)
  BY <1>2, WithTurnType
<1>3. CASE \E t \in Turns : k = WithRecord(j, t)
  BY <1>3, WithRecordType
<1>4. CASE \E t \in Turns, c \in Checkpoints, s \in States :
             ActiveTurn(j, t) /\ k = WithCheckpoint(j, t, c, s)
  BY <1>4, WithCheckpointType
<1>5. CASE \E r \in Runs, s \in TerminalRunStatuses : k = WithEnd(j, r, s)
  BY <1>5, WithEndType
<1>6. CASE k = WithError(j)
  BY <1>6, WithErrorType
<1> QED
  BY <1>1, <1>2, <1>3, <1>4, <1>5, <1>6 DEF Change

(* The lists of a changed journal, one by one.                              *)

LEMMA WithRunFields ==
  ASSUME NEW j \in Journals, NEW r \in Runs
  PROVE  /\ WithRun(j, r).run = [j.run EXCEPT ![r] = "running"]
         /\ WithRun(j, r).turn = j.turn
         /\ WithRun(j, r).runOf = j.runOf
         /\ WithRun(j, r).checkpoints = j.checkpoints
         /\ WithRun(j, r).records = j.records
         /\ WithRun(j, r).finished = j.finished
         /\ WithRun(j, r).errors = j.errors
  BY DEF WithRun, Journals

LEMMA WithTurnFields ==
  ASSUME NEW j \in Journals, NEW r \in Runs, NEW t \in Turns
  PROVE  /\ WithTurn(j, r, t).run = j.run
         /\ WithTurn(j, r, t).turn = [j.turn EXCEPT ![t] = "running"]
         /\ WithTurn(j, r, t).runOf = [j.runOf EXCEPT ![t] = r]
         /\ WithTurn(j, r, t).checkpoints = j.checkpoints
         /\ WithTurn(j, r, t).records = j.records
         /\ WithTurn(j, r, t).finished = j.finished
         /\ WithTurn(j, r, t).errors = j.errors
  BY DEF WithTurn, Journals

LEMMA WithRecordFields ==
  ASSUME NEW j \in Journals, NEW t \in Turns
  PROVE  /\ WithRecord(j, t).run = j.run
         /\ WithRecord(j, t).turn = j.turn
         /\ WithRecord(j, t).runOf = j.runOf
         /\ WithRecord(j, t).checkpoints = j.checkpoints
         /\ WithRecord(j, t).records = Append(j.records, t)
         /\ WithRecord(j, t).finished = j.finished
         /\ WithRecord(j, t).errors = j.errors
  BY DEF WithRecord, Journals

LEMMA WithCheckpointFields ==
  ASSUME NEW j \in Journals, NEW t \in Turns, NEW c \in Checkpoints, NEW s \in States
  PROVE  /\ WithCheckpoint(j, t, c, s).run = j.run
         /\ WithCheckpoint(j, t, c, s).turn = j.turn
         /\ WithCheckpoint(j, t, c, s).runOf = j.runOf
         /\ WithCheckpoint(j, t, c, s).checkpoints = Append(j.checkpoints,
                      [id |-> c, run |-> j.runOf[t], turn |-> t,
                       sequence |-> NextSequence(j, j.runOf[t]), state |-> s])
         /\ WithCheckpoint(j, t, c, s).records = j.records
         /\ WithCheckpoint(j, t, c, s).finished = j.finished
         /\ WithCheckpoint(j, t, c, s).errors = j.errors
  BY DEF WithCheckpoint, Journals

LEMMA WithEndFields ==
  ASSUME NEW j \in Journals, NEW r \in Runs, NEW s \in TerminalRunStatuses
  PROVE  /\ WithEnd(j, r, s).run = [j.run EXCEPT ![r] = s]
         /\ WithEnd(j, r, s).turn = FinishOpenTurns(j, r, s)
         /\ WithEnd(j, r, s).runOf = j.runOf
         /\ WithEnd(j, r, s).checkpoints = j.checkpoints
         /\ WithEnd(j, r, s).records = j.records
         /\ WithEnd(j, r, s).finished = Append(j.finished, [run |-> r, status |-> s])
         /\ WithEnd(j, r, s).errors = j.errors
  BY DEF WithEnd, Journals

LEMMA WithErrorFields ==
  ASSUME NEW j \in Journals
  PROVE  /\ WithError(j).run = j.run
         /\ WithError(j).turn = j.turn
         /\ WithError(j).runOf = j.runOf
         /\ WithError(j).checkpoints = j.checkpoints
         /\ WithError(j).records = j.records
         /\ WithError(j).finished = j.finished
         /\ WithError(j).errors = j.errors + 1
  BY DEF WithError, Journals

\* Turns are opened with a running run and closed with it.
LEMMA ChangeTurns ==
  ASSUME NEW j, NEW k, Sound(j), Change(j, k)
  PROVE  TurnsFollow(k)
<1> j \in Journals
  BY DEF Sound
<1>1. CASE \E r \in Runs : j.run[r] = "absent" /\ k = WithRun(j, r)
  <2> PICK r \in Runs : j.run[r] = "absent" /\ k = WithRun(j, r)
    BY <1>1
  <2>1. k.run = [j.run EXCEPT ![r] = "running"] /\ k.turn = j.turn /\ k.runOf = j.runOf
    BY WithRunFields
  <2>2. \A t \in Turns : j.runOf[t] # r
    BY JournalAssumption DEF Sound, TurnsFollow
  <2>3. \A t \in Turns : j.runOf[t] # None => k.run[j.runOf[t]] = j.run[j.runOf[t]]
    BY <2>1, <2>2 DEF Journals
  <2> QED
    BY <2>1, <2>3 DEF Sound, TurnsFollow, RunOver
<1>2. CASE \E r \in Runs, t \in Turns :
             /\ j.run[r] # "absent"
             /\ ~RunOver(j, r)
             /\ j.turn[t] = "absent"
             /\ k = WithTurn(j, r, t)
  <2> PICK r \in Runs, t \in Turns : /\ j.run[r] # "absent"
                                     /\ ~RunOver(j, r)
                                     /\ k = WithTurn(j, r, t)
    BY <1>2
  <2>1. /\ k.run = j.run
        /\ k.turn = [j.turn EXCEPT ![t] = "running"]
        /\ k.runOf = [j.runOf EXCEPT ![t] = r]
    BY WithTurnFields
  <2>2. k.runOf[t] = r /\ k.turn[t] = "running"
    BY <2>1 DEF Journals
  <2>3. \A u \in Turns : u # t => k.runOf[u] = j.runOf[u] /\ k.turn[u] = j.turn[u]
    BY <2>1 DEF Journals
  <2>4. r # None
    BY JournalAssumption
  <2> QED
    BY <2>1, <2>2, <2>3, <2>4 DEF Sound, TurnsFollow, RunOver
<1>3. CASE \E t \in Turns : ActiveTurn(j, t) /\ k = WithRecord(j, t)
  BY <1>3, WithRecordFields DEF Sound, TurnsFollow, RunOver
<1>4. CASE \E t \in Turns, c \in Checkpoints, s \in States :
             ActiveTurn(j, t) /\ k = WithCheckpoint(j, t, c, s)
  <2> PICK t \in Turns, c \in Checkpoints, s \in States : k = WithCheckpoint(j, t, c, s)
    BY <1>4
  <2>1. k.run = j.run /\ k.turn = j.turn /\ k.runOf = j.runOf
    BY WithCheckpointFields
  <2> QED
    BY <2>1 DEF Sound, TurnsFollow, RunOver
<1>5. CASE \E r \in Runs, s \in TerminalRunStatuses : MayFinish(j, r, s) /\ k = WithEnd(j, r, s)
  <2> PICK r \in Runs, s \in TerminalRunStatuses : MayFinish(j, r, s) /\ k = WithEnd(j, r, s)
    BY <1>5
  <2>1. /\ k.run = [j.run EXCEPT ![r] = s]
        /\ k.runOf = j.runOf
        /\ k.turn = FinishOpenTurns(j, r, s)
    BY WithEndFields
  <2> SUFFICES ASSUME NEW t \in Turns
               PROVE  IF k.runOf[t] = None
                      THEN k.turn[t] = "absent"
                      ELSE /\ k.run[k.runOf[t]] # "absent"
                           /\ k.turn[t] = IF RunOver(k, k.runOf[t])
                                          THEN TurnStatusForRun(k.run[k.runOf[t]]) ELSE "running"
    BY DEF TurnsFollow
  <2>2. CASE j.runOf[t] = r
    <3>1. j.turn[t] = "running"
      BY <2>2, JournalAssumption DEF Sound, TurnsFollow, MayFinish
    <3>2. k.turn[t] = TurnStatusForRun(s)
      BY <2>1, <2>2, <3>1 DEF FinishOpenTurns, TerminalTurnStatuses
    <3> QED
      BY <2>1, <2>2, <3>2, JournalAssumption DEF RunOver, TerminalRunStatuses, Journals
  <2>3. CASE j.runOf[t] # r
    <3>1. k.turn[t] = j.turn[t]
      BY <2>1, <2>3 DEF FinishOpenTurns
    <3>2. j.runOf[t] # None => k.run[j.runOf[t]] = j.run[j.runOf[t]]
      BY <2>1, <2>3 DEF Journals
    <3> QED
      BY <2>1, <3>1, <3>2 DEF Sound, TurnsFollow, RunOver
  <2> QED
    BY <2>2, <2>3
<1>6. CASE k = WithError(j)
  BY <1>6, WithErrorFields DEF Sound, TurnsFollow, RunOver
<1> QED
  BY <1>1, <1>2, <1>3, <1>4, <1>5, <1>6 DEF Change

\* finish_run makes the one entry of a run when it ends it.
LEMMA ChangeFinished ==
  ASSUME NEW j, NEW k, Sound(j), Change(j, k)
  PROVE  FinishedOnceIn(k)
<1> j \in Journals
  BY DEF Sound
<1>1. CASE \E r \in Runs : j.run[r] = "absent" /\ k = WithRun(j, r)
  <2> PICK r \in Runs : j.run[r] = "absent" /\ k = WithRun(j, r)
    BY <1>1
  <2>1. k.run = [j.run EXCEPT ![r] = "running"] /\ k.finished = j.finished
    BY WithRunFields
  <2>2. ~RunOver(j, r) /\ ~RunOver(k, r)
    BY <2>1 DEF Journals, RunOver, TerminalRunStatuses
  <2>3. \A q \in Runs : RunOver(k, q) <=> RunOver(j, q)
    BY <2>1, <2>2 DEF Journals, RunOver
  <2>4. \A q \in Runs : RunOver(j, q) => k.run[q] = j.run[q]
    BY <2>1, <2>2 DEF Journals
  <2> QED
    BY <2>1, <2>3, <2>4 DEF Sound, FinishedOnceIn, FinishedEntries
<1>2. CASE \E r \in Runs, t \in Turns :
             /\ j.run[r] # "absent"
             /\ ~RunOver(j, r)
             /\ j.turn[t] = "absent"
             /\ k = WithTurn(j, r, t)
  <2> PICK r \in Runs, t \in Turns : k = WithTurn(j, r, t)
    BY <1>2
  <2>1. k.run = j.run /\ k.finished = j.finished
    BY WithTurnFields
  <2> QED
    BY <2>1 DEF Sound, FinishedOnceIn, FinishedEntries, RunOver
<1>3. CASE \E t \in Turns : ActiveTurn(j, t) /\ k = WithRecord(j, t)
  BY <1>3, WithRecordFields DEF Sound, FinishedOnceIn, FinishedEntries, RunOver
<1>4. CASE \E t \in Turns, c \in Checkpoints, s \in States :
             ActiveTurn(j, t) /\ k = WithCheckpoint(j, t, c, s)
  <2> PICK t \in Turns, c \in Checkpoints, s \in States : k = WithCheckpoint(j, t, c, s)
    BY <1>4
  <2>1. k.run = j.run /\ k.finished = j.finished
    BY WithCheckpointFields
  <2> QED
    BY <2>1 DEF Sound, FinishedOnceIn, FinishedEntries, RunOver
<1>5. CASE \E r \in Runs, s \in TerminalRunStatuses : MayFinish(j, r, s) /\ k = WithEnd(j, r, s)
  <2> PICK r \in Runs, s \in TerminalRunStatuses : MayFinish(j, r, s) /\ k = WithEnd(j, r, s)
    BY <1>5
  <2> DEFINE n == Len(j.finished)
  <2>1. k.run = [j.run EXCEPT ![r] = s] /\ k.finished = Append(j.finished, [run |-> r, status |-> s])
    BY WithEndFields
  <2>2. /\ n \in Nat
        /\ DOMAIN j.finished = 1..n
        /\ DOMAIN k.finished = 1..(n + 1)
        /\ \A i \in 1..n : k.finished[i] = j.finished[i]
        /\ k.finished[n + 1] = [run |-> r, status |-> s]
    BY <2>1 DEF Journals
  <2>3. FinishedEntries(j, r) = {}
    BY DEF Sound, FinishedOnceIn, MayFinish
  <2>4. FinishedEntries(k, r) = {n + 1}
    BY <2>2, <2>3 DEF FinishedEntries
  <2>5. ASSUME NEW q \in Runs, q # r
        PROVE  FinishedEntries(k, q) = FinishedEntries(j, q) /\ k.run[q] = j.run[q]
    BY <2>1, <2>2, <2>5 DEF FinishedEntries, Journals
  <2>6. ASSUME NEW q \in Runs, q # r
        PROVE  IF RunOver(k, q)
               THEN \E i \in DOMAIN k.finished :
                      FinishedEntries(k, q) = {i} /\ k.finished[i].status = k.run[q]
               ELSE FinishedEntries(k, q) = {}
    BY <2>2, <2>5, <2>6 DEF Sound, FinishedOnceIn, RunOver
  <2>7. k.run[r] = s /\ k.finished[n + 1].status = s /\ n + 1 \in DOMAIN k.finished
    BY <2>1, <2>2 DEF Journals
  <2>8. RunOver(k, r)
    BY <2>7 DEF RunOver
  <2> QED
    BY <2>4, <2>6, <2>7, <2>8 DEF FinishedOnceIn
<1>6. CASE k = WithError(j)
  BY <1>6, WithErrorFields DEF Sound, FinishedOnceIn, FinishedEntries, RunOver
<1> QED
  BY <1>1, <1>2, <1>3, <1>4, <1>5, <1>6 DEF Change

LEMMA ChangeSound ==
  ASSUME NEW j, NEW k, Sound(j), Change(j, k)
  PROVE  Sound(k)
  BY ChangeTypes, ChangeTurns, ChangeFinished DEF Sound

-----------------------------------------------------------------------------
(* What a journal keeps.                                                    *)

LEMMA PrefixSelf ==
  ASSUME NEW S, NEW q \in Seq(S)
  PROVE  Prefix(q, q)
  BY DEF Prefix

LEMMA PrefixAppend ==
  ASSUME NEW S, NEW q \in Seq(S), NEW e
  PROVE  Prefix(q, Append(q, e))
  BY DEF Prefix

LEMMA PrefixTrans ==
  ASSUME NEW S, NEW p \in Seq(S), NEW q \in Seq(S), NEW s \in Seq(S),
         Prefix(p, q), Prefix(q, s)
  PROVE  Prefix(p, s)
  BY DEF Prefix

LEMMA JournalSequences ==
  ASSUME NEW j \in Journals
  PROVE  /\ j.checkpoints \in Seq([id : Checkpoints, run : Runs, turn : Turns,
                                   sequence : Nat \ {0}, state : States])
         /\ j.records \in Seq(Turns)
         /\ j.finished \in Seq([run : Runs, status : TerminalRunStatuses])
         /\ j.errors \in Nat
  BY DEF Journals

LEMMA ListsHoldSelf ==
  ASSUME NEW j \in Journals
  PROVE  /\ Prefix(j.checkpoints, j.checkpoints)
         /\ Prefix(j.records, j.records)
         /\ Prefix(j.finished, j.finished)
  BY JournalSequences, PrefixSelf

LEMMA HoldsSelf ==
  ASSUME NEW j \in Journals
  PROVE  Holds(j, j)
  BY ListsHoldSelf, JournalSequences DEF Holds

LEMMA HoldsTrans ==
  ASSUME NEW i \in Journals, NEW j \in Journals, NEW k \in Journals,
         TurnsFollow(i), TurnsFollow(j), Holds(j, i), Holds(k, j)
  PROVE  Holds(k, i)
<1>1. /\ Prefix(i.checkpoints, k.checkpoints)
      /\ Prefix(i.records, k.records)
      /\ Prefix(i.finished, k.finished)
  BY JournalSequences, PrefixTrans DEF Holds
<1>2. ASSUME NEW r \in Runs
      PROVE  /\ i.run[r] # "absent" => k.run[r] # "absent"
             /\ RunOver(i, r) => k.run[r] = i.run[r]
  BY DEF Holds, RunOver
<1>3. ASSUME NEW t \in Turns, i.turn[t] # "absent"
      PROVE  k.runOf[t] = i.runOf[t]
  <2>1. i.runOf[t] \in Runs /\ j.runOf[t] = i.runOf[t]
    BY <1>3 DEF Holds, TurnsFollow, Journals
  <2>2. j.runOf[t] # None
    BY <2>1, JournalAssumption
  <2>3. j.turn[t] # "absent"
    BY <2>2 DEF TurnsFollow, TurnStatusForRun
  <2> QED
    BY <2>1, <2>3 DEF Holds
<1>4. i.errors <= k.errors
  BY JournalSequences DEF Holds
<1> QED
  BY <1>1, <1>2, <1>3, <1>4 DEF Holds

\* A change only adds to a journal.
LEMMA ChangeHolds ==
  ASSUME NEW j, NEW k, Sound(j), Change(j, k)
  PROVE  Holds(k, j)
<1> j \in Journals
  BY DEF Sound
<1>0. /\ Prefix(j.checkpoints, j.checkpoints)
      /\ Prefix(j.records, j.records)
      /\ Prefix(j.finished, j.finished)
      /\ j.errors <= j.errors
  BY ListsHoldSelf, JournalSequences
<1>1. CASE \E r \in Runs : j.run[r] = "absent" /\ k = WithRun(j, r)
  <2> PICK r \in Runs : j.run[r] = "absent" /\ k = WithRun(j, r)
    BY <1>1
  <2>1. /\ k.run = [j.run EXCEPT ![r] = "running"]
        /\ k.runOf = j.runOf
        /\ k.checkpoints = j.checkpoints
        /\ k.records = j.records
        /\ k.finished = j.finished
        /\ k.errors = j.errors
    BY WithRunFields
  <2> QED
    BY <1>0, <2>1 DEF Holds, Journals, RunOver, TerminalRunStatuses
<1>2. CASE \E r \in Runs, t \in Turns :
             /\ j.run[r] # "absent"
             /\ ~RunOver(j, r)
             /\ j.turn[t] = "absent"
             /\ k = WithTurn(j, r, t)
  <2> PICK r \in Runs, t \in Turns : j.turn[t] = "absent" /\ k = WithTurn(j, r, t)
    BY <1>2
  <2>1. /\ k.run = j.run
        /\ k.runOf = [j.runOf EXCEPT ![t] = r]
        /\ k.checkpoints = j.checkpoints
        /\ k.records = j.records
        /\ k.finished = j.finished
        /\ k.errors = j.errors
    BY WithTurnFields
  <2> QED
    BY <1>0, <2>1 DEF Holds, Journals, RunOver
<1>3. CASE \E t \in Turns : ActiveTurn(j, t) /\ k = WithRecord(j, t)
  <2> PICK t \in Turns : k = WithRecord(j, t)
    BY <1>3
  <2>1. /\ k.run = j.run
        /\ k.runOf = j.runOf
        /\ k.checkpoints = j.checkpoints
        /\ k.records = Append(j.records, t)
        /\ k.finished = j.finished
        /\ k.errors = j.errors
    BY WithRecordFields
  <2>2. Prefix(j.records, k.records)
    BY <2>1, JournalSequences, PrefixAppend
  <2> QED
    BY <1>0, <2>1, <2>2 DEF Holds, RunOver
<1>4. CASE \E t \in Turns, c \in Checkpoints, s \in States :
             ActiveTurn(j, t) /\ k = WithCheckpoint(j, t, c, s)
  <2> PICK t \in Turns, c \in Checkpoints, s \in States : k = WithCheckpoint(j, t, c, s)
    BY <1>4
  <2>1. /\ k.run = j.run
        /\ k.runOf = j.runOf
        /\ k.records = j.records
        /\ k.finished = j.finished
        /\ k.errors = j.errors
    BY WithCheckpointFields
  <2>2. Prefix(j.checkpoints, k.checkpoints)
    <3> DEFINE new == [id |-> c, run |-> j.runOf[t], turn |-> t,
                       sequence |-> NextSequence(j, j.runOf[t]), state |-> s]
    <3>1. k.checkpoints = Append(j.checkpoints, new)
      BY WithCheckpointFields
    <3> HIDE DEF new
    <3> QED
      BY <3>1, JournalSequences, PrefixAppend
  <2> QED
    BY <1>0, <2>1, <2>2 DEF Holds, RunOver
<1>5. CASE \E r \in Runs, s \in TerminalRunStatuses : MayFinish(j, r, s) /\ k = WithEnd(j, r, s)
  <2> PICK r \in Runs, s \in TerminalRunStatuses : MayFinish(j, r, s) /\ k = WithEnd(j, r, s)
    BY <1>5
  <2>1. /\ k.run = [j.run EXCEPT ![r] = s]
        /\ k.runOf = j.runOf
        /\ k.checkpoints = j.checkpoints
        /\ k.records = j.records
        /\ k.finished = Append(j.finished, [run |-> r, status |-> s])
        /\ k.errors = j.errors
    BY WithEndFields
  <2>2. Prefix(j.finished, k.finished)
    BY <2>1, JournalSequences, PrefixAppend
  <2>3. ASSUME NEW q \in Runs
        PROVE  /\ j.run[q] # "absent" => k.run[q] # "absent"
               /\ RunOver(j, q) => k.run[q] = j.run[q]
    BY <2>1 DEF Journals, MayFinish, TerminalRunStatuses
  <2> QED
    BY <1>0, <2>1, <2>2, <2>3 DEF Holds
<1>6. CASE k = WithError(j)
  <2>1. /\ k.run = j.run
        /\ k.runOf = j.runOf
        /\ k.checkpoints = j.checkpoints
        /\ k.records = j.records
        /\ k.finished = j.finished
        /\ k.errors = j.errors + 1
    BY <1>6, WithErrorFields
  <2>2. j.errors <= k.errors
    BY <2>1, JournalSequences
  <2> QED
    BY <1>0, <2>1, <2>2 DEF Holds, RunOver
<1> QED
  BY <1>1, <1>2, <1>3, <1>4, <1>5, <1>6 DEF Change

-----------------------------------------------------------------------------
(* The page of a run that is over.                                          *)

TurnPage(j, r) == {<<t, j.turn[t]>> : t \in {u \in Turns : j.runOf[u] = r}}
CheckpointPage(j, r) == {j.checkpoints[i] : i \in CheckpointsOf(j, r)}
FinishedPage(j, r) == {j.finished[i] : i \in FinishedEntries(j, r)}

LEMMA SamePage ==
  ASSUME NEW j, NEW k, NEW r,
         k.run[r] = j.run[r],
         TurnPage(k, r) = TurnPage(j, r),
         CheckpointPage(k, r) = CheckpointPage(j, r),
         FinishedPage(k, r) = FinishedPage(j, r)
  PROVE  PageOf(k, r) = PageOf(j, r)
  BY DEF PageOf, TurnPage, CheckpointPage, FinishedPage

\* Entries of other runs do not show on a run's page.
LEMMA OtherCheckpoint ==
  ASSUME NEW j \in Journals, NEW k, NEW c, NEW r,
         k.checkpoints = Append(j.checkpoints, c), c.run # r
  PROVE  CheckpointPage(k, r) = CheckpointPage(j, r)
<1> DEFINE n == Len(j.checkpoints)
<1>1. /\ n \in Nat
      /\ DOMAIN j.checkpoints = 1..n
      /\ DOMAIN k.checkpoints = 1..(n + 1)
      /\ k.checkpoints[n + 1] = c
      /\ \A i \in 1..n : k.checkpoints[i] = j.checkpoints[i]
  BY DEF Journals
<1>2. CheckpointsOf(k, r) = CheckpointsOf(j, r) /\ CheckpointsOf(j, r) \subseteq 1..n
  BY <1>1 DEF CheckpointsOf
<1> QED
  BY <1>1, <1>2 DEF CheckpointPage

LEMMA OtherEnding ==
  ASSUME NEW j \in Journals, NEW k, NEW e, NEW r,
         k.finished = Append(j.finished, e), e.run # r
  PROVE  FinishedPage(k, r) = FinishedPage(j, r)
<1> DEFINE n == Len(j.finished)
<1>1. /\ n \in Nat
      /\ DOMAIN j.finished = 1..n
      /\ DOMAIN k.finished = 1..(n + 1)
      /\ k.finished[n + 1] = e
      /\ \A i \in 1..n : k.finished[i] = j.finished[i]
  BY DEF Journals
<1>2. FinishedEntries(k, r) = FinishedEntries(j, r) /\ FinishedEntries(j, r) \subseteq 1..n
  BY <1>1 DEF FinishedEntries
<1> QED
  BY <1>1, <1>2 DEF FinishedPage

LEMMA SameLists ==
  ASSUME NEW j, NEW k, NEW r
  PROVE  /\ k.checkpoints = j.checkpoints => CheckpointPage(k, r) = CheckpointPage(j, r)
         /\ k.finished = j.finished => FinishedPage(k, r) = FinishedPage(j, r)
         /\ k.turn = j.turn /\ k.runOf = j.runOf => TurnPage(k, r) = TurnPage(j, r)
  BY DEF CheckpointPage, FinishedPage, TurnPage, CheckpointsOf, FinishedEntries

\* A change leaves the page of every run that is over as it is.
LEMMA ChangePages ==
  ASSUME NEW j, NEW k, Sound(j), Change(j, k), NEW q \in Runs, RunOver(j, q)
  PROVE  PageOf(k, q) = PageOf(j, q)
<1> j \in Journals
  BY DEF Sound
<1>1. CASE \E r \in Runs : j.run[r] = "absent" /\ k = WithRun(j, r)
  <2> PICK r \in Runs : j.run[r] = "absent" /\ k = WithRun(j, r)
    BY <1>1
  <2>1. /\ k.run = [j.run EXCEPT ![r] = "running"]
        /\ k.turn = j.turn
        /\ k.runOf = j.runOf
        /\ k.checkpoints = j.checkpoints
        /\ k.finished = j.finished
    BY WithRunFields
  <2>2. k.run[q] = j.run[q]
    BY <2>1 DEF Journals, RunOver, TerminalRunStatuses
  <2>3. /\ TurnPage(k, q) = TurnPage(j, q)
        /\ CheckpointPage(k, q) = CheckpointPage(j, q)
        /\ FinishedPage(k, q) = FinishedPage(j, q)
    BY <2>1, SameLists
  <2> QED
    BY <2>2, <2>3, SamePage
<1>2. CASE \E r \in Runs, t \in Turns :
             /\ j.run[r] # "absent"
             /\ ~RunOver(j, r)
             /\ j.turn[t] = "absent"
             /\ k = WithTurn(j, r, t)
  <2> PICK r \in Runs, t \in Turns :
             ~RunOver(j, r) /\ j.turn[t] = "absent" /\ k = WithTurn(j, r, t)
    BY <1>2
  <2>1. /\ k.run = j.run
        /\ k.turn = [j.turn EXCEPT ![t] = "running"]
        /\ k.runOf = [j.runOf EXCEPT ![t] = r]
        /\ k.checkpoints = j.checkpoints
        /\ k.finished = j.finished
    BY WithTurnFields
  <2>2. j.runOf[t] # q
    BY JournalAssumption DEF Sound, TurnsFollow, RunOver, TurnStatusForRun
  <2>3. r # q
    OBVIOUS
  <2>4. \A u \in Turns : k.runOf[u] = q <=> j.runOf[u] = q
    BY <2>1, <2>2, <2>3 DEF Journals
  <2>5. \A u \in Turns : j.runOf[u] = q => k.turn[u] = j.turn[u]
    BY <2>1, <2>2 DEF Journals
  <2>6. TurnPage(k, q) = TurnPage(j, q)
    BY <2>4, <2>5 DEF TurnPage
  <2> QED
    BY <2>1, <2>6, SameLists, SamePage
<1>3. CASE \E t \in Turns : ActiveTurn(j, t) /\ k = WithRecord(j, t)
  <2> PICK t \in Turns : k = WithRecord(j, t)
    BY <1>3
  <2>1. /\ k.run = j.run
        /\ k.turn = j.turn
        /\ k.runOf = j.runOf
        /\ k.checkpoints = j.checkpoints
        /\ k.finished = j.finished
    BY WithRecordFields
  <2> QED
    BY <2>1, SameLists, SamePage
<1>4. CASE \E t \in Turns, c \in Checkpoints, s \in States :
             ActiveTurn(j, t) /\ k = WithCheckpoint(j, t, c, s)
  <2> PICK t \in Turns, c \in Checkpoints, s \in States :
             ActiveTurn(j, t) /\ k = WithCheckpoint(j, t, c, s)
    BY <1>4
  <2> DEFINE new == [id |-> c, run |-> j.runOf[t], turn |-> t,
                     sequence |-> NextSequence(j, j.runOf[t]), state |-> s]
  <2>1. /\ k.run = j.run
        /\ k.turn = j.turn
        /\ k.runOf = j.runOf
        /\ k.finished = j.finished
        /\ k.checkpoints = Append(j.checkpoints, new)
    BY WithCheckpointFields
  <2>2. new.run # q
    BY ActiveTurnFacts
  <2> HIDE DEF new
  <2>3. CheckpointPage(k, q) = CheckpointPage(j, q)
    BY <2>1, <2>2, OtherCheckpoint
  <2> QED
    BY <2>1, <2>3, SameLists, SamePage
<1>5. CASE \E r \in Runs, s \in TerminalRunStatuses : MayFinish(j, r, s) /\ k = WithEnd(j, r, s)
  <2> PICK r \in Runs, s \in TerminalRunStatuses : MayFinish(j, r, s) /\ k = WithEnd(j, r, s)
    BY <1>5
  <2> DEFINE new == [run |-> r, status |-> s]
  <2>1. /\ k.run = [j.run EXCEPT ![r] = s]
        /\ k.turn = FinishOpenTurns(j, r, s)
        /\ k.runOf = j.runOf
        /\ k.checkpoints = j.checkpoints
        /\ k.finished = Append(j.finished, new)
    BY WithEndFields
  <2>2. r # q
    BY DEF MayFinish
  <2>3. k.run[q] = j.run[q]
    BY <2>1, <2>2 DEF Journals
  <2>4. \A u \in Turns : j.runOf[u] = q => k.turn[u] = j.turn[u]
    BY <2>1, <2>2 DEF FinishOpenTurns
  <2>5. TurnPage(k, q) = TurnPage(j, q)
    BY <2>1, <2>4 DEF TurnPage
  <2>6. new.run # q
    BY <2>2
  <2> HIDE DEF new
  <2>7. FinishedPage(k, q) = FinishedPage(j, q)
    BY <2>1, <2>6, OtherEnding
  <2>8. CheckpointPage(k, q) = CheckpointPage(j, q)
    BY <2>1, SameLists
  <2> QED
    BY <2>3, <2>5, <2>7, <2>8, SamePage
<1>6. CASE k = WithError(j)
  <2>1. /\ k.run = j.run
        /\ k.turn = j.turn
        /\ k.runOf = j.runOf
        /\ k.checkpoints = j.checkpoints
        /\ k.finished = j.finished
    BY <1>6, WithErrorFields
  <2> QED
    BY <2>1, SameLists, SamePage
<1> QED
  BY <1>1, <1>2, <1>3, <1>4, <1>5, <1>6 DEF Change

-----------------------------------------------------------------------------
(* The numbers of a run's checkpoints.                                      *)

\* The next checkpoint of a run gets the number that follows the run's last one.
LEMMA NumberedAppend ==
  ASSUME NEW j \in Journals, NEW k, NEW c, c.run \in Runs, NumberedIn(j),
         k.checkpoints = Append(j.checkpoints, c),
         c.sequence = NextSequence(j, c.run)
  PROVE  NumberedIn(k)
<1> DEFINE n == Len(j.checkpoints)
           UpTo(l, r, i) == {x \in CheckpointsOf(l, r) : x <= i}
<1>1. /\ n \in Nat
      /\ DOMAIN j.checkpoints = 1..n
      /\ DOMAIN k.checkpoints = 1..(n + 1)
      /\ k.checkpoints[n + 1] = c
      /\ \A i \in 1..n : k.checkpoints[i] = j.checkpoints[i]
  BY DEF Journals
<1>2. ASSUME NEW i \in 1..n
      PROVE  k.checkpoints[i].sequence = Cardinality(UpTo(k, k.checkpoints[i].run, i))
  <2>1. k.checkpoints[i] = j.checkpoints[i]
    BY <1>1
  <2>2. UpTo(k, j.checkpoints[i].run, i) = UpTo(j, j.checkpoints[i].run, i)
    BY <1>1 DEF CheckpointsOf
  <2>3. j.checkpoints[i].sequence = Cardinality(UpTo(j, j.checkpoints[i].run, i))
    BY <1>1 DEF NumberedIn
  <2> QED
    BY <2>1, <2>2, <2>3
<1>3. c.sequence = Cardinality(UpTo(k, c.run, n + 1))
  <2>1. UpTo(k, c.run, n + 1) = CheckpointsOf(j, c.run) \cup {n + 1}
    BY <1>1 DEF CheckpointsOf
  <2>2. n + 1 \notin CheckpointsOf(j, c.run)
    BY <1>1 DEF CheckpointsOf
  <2>3. Cardinality(CheckpointsOf(j, c.run) \cup {n + 1}) = Cardinality(CheckpointsOf(j, c.run)) + 1
    BY <2>2, NextSequenceType, FS_AddElement
  <2> QED
    BY <2>1, <2>3 DEF NextSequence
<1>4. \A i \in DOMAIN k.checkpoints :
        k.checkpoints[i].sequence = Cardinality(UpTo(k, k.checkpoints[i].run, i))
  <2> SUFFICES ASSUME NEW i \in 1..(n + 1)
               PROVE  k.checkpoints[i].sequence = Cardinality(UpTo(k, k.checkpoints[i].run, i))
    BY <1>1
  <2>1. CASE i \in 1..n
    BY <1>2, <2>1
  <2>2. CASE i = n + 1
    BY <1>1, <1>3, <2>2
  <2>3. i \in 1..n \/ i = n + 1
    BY <1>1
  <2> QED
    BY <2>1, <2>2, <2>3
<1> QED
  BY <1>4 DEF NumberedIn

LEMMA SameNumbers ==
  ASSUME NEW j, NEW k, k.checkpoints = j.checkpoints, NumberedIn(j)
  PROVE  NumberedIn(k)
  BY DEF NumberedIn, CheckpointsOf

\* Only a checkpoint changes the list of checkpoints.
LEMMA ChangeNumbers ==
  ASSUME NEW j, NEW k, Sound(j), Change(j, k), NumberedIn(j)
  PROVE  NumberedIn(k)
<1> j \in Journals
  BY DEF Sound
<1>1. CASE \E r \in Runs : j.run[r] = "absent" /\ k = WithRun(j, r)
  <2> PICK r \in Runs : k = WithRun(j, r)
    BY <1>1
  <2> QED
    BY WithRunFields, SameNumbers
<1>2. CASE \E r \in Runs, t \in Turns :
             /\ j.run[r] # "absent"
             /\ ~RunOver(j, r)
             /\ j.turn[t] = "absent"
             /\ k = WithTurn(j, r, t)
  <2> PICK r \in Runs, t \in Turns : k = WithTurn(j, r, t)
    BY <1>2
  <2>1. k.checkpoints = j.checkpoints
    BY WithTurnFields
  <2> QED
    BY <2>1, SameNumbers
<1>3. CASE \E t \in Turns : ActiveTurn(j, t) /\ k = WithRecord(j, t)
  <2> PICK t \in Turns : k = WithRecord(j, t)
    BY <1>3
  <2> QED
    BY WithRecordFields, SameNumbers
<1>4. CASE \E t \in Turns, c \in Checkpoints, s \in States :
             ActiveTurn(j, t) /\ k = WithCheckpoint(j, t, c, s)
  <2> PICK t \in Turns, c \in Checkpoints, s \in States :
             ActiveTurn(j, t) /\ k = WithCheckpoint(j, t, c, s)
    BY <1>4
  <2> DEFINE new == [id |-> c, run |-> j.runOf[t], turn |-> t,
                     sequence |-> NextSequence(j, j.runOf[t]), state |-> s]
  <2>1. k.checkpoints = Append(j.checkpoints, new)
    BY WithCheckpointFields
  <2>2. new.run \in Runs /\ new.sequence = NextSequence(j, new.run)
    BY ActiveTurnFacts
  <2> HIDE DEF new
  <2> QED
    BY <2>1, <2>2, NumberedAppend
<1>5. CASE \E r \in Runs, s \in TerminalRunStatuses : MayFinish(j, r, s) /\ k = WithEnd(j, r, s)
  <2> PICK r \in Runs, s \in TerminalRunStatuses : k = WithEnd(j, r, s)
    BY <1>5
  <2>1. k.checkpoints = j.checkpoints
    BY WithEndFields
  <2> QED
    BY <2>1, SameNumbers
<1>6. CASE k = WithError(j)
  BY <1>6, WithErrorFields, SameNumbers
<1> QED
  BY <1>1, <1>2, <1>3, <1>4, <1>5, <1>6 DEF Change

-----------------------------------------------------------------------------
(* What the lists refer to is there.                                        *)

RefersIn(j) ==
  /\ \A i \in DOMAIN j.records : j.turn[j.records[i]] # "absent"
  /\ \A i \in DOMAIN j.checkpoints : KnownTurn(j, j.checkpoints[i].run, j.checkpoints[i].turn)

LEMMA ItemTypes ==
  ASSUME NEW j \in Journals
  PROVE  /\ \A i \in DOMAIN j.records : j.records[i] \in Turns
         /\ \A i \in DOMAIN j.checkpoints :
              /\ j.checkpoints[i].run \in Runs /\ j.checkpoints[i].turn \in Turns
              /\ j.checkpoints[i].sequence \in Nat \ {0}
         /\ \A i \in DOMAIN j.finished : j.finished[i].run \in Runs
<1> DEFINE CP == [id : Checkpoints, run : Runs, turn : Turns, sequence : Nat \ {0}, state : States]
           FE == [run : Runs, status : TerminalRunStatuses]
<1>1. j.checkpoints \in Seq(CP) /\ j.records \in Seq(Turns) /\ j.finished \in Seq(FE)
  BY JournalSequences
<1>2. \A c \in CP : c.run \in Runs /\ c.turn \in Turns /\ c.sequence \in Nat \ {0}
  OBVIOUS
<1>3. \A f \in FE : f.run \in Runs
  OBVIOUS
<1> HIDE DEF CP, FE
<1>4. /\ \A i \in DOMAIN j.records : j.records[i] \in Turns
      /\ \A i \in DOMAIN j.checkpoints : j.checkpoints[i] \in CP
      /\ \A i \in DOMAIN j.finished : j.finished[i] \in FE
  BY <1>1
<1> QED
  BY <1>2, <1>3, <1>4

\* Turns that are known stay known, of the same run.
LEMMA RefersOn ==
  ASSUME NEW j \in Journals, NEW k, RefersIn(j),
         \A t \in Turns : j.turn[t] # "absent" => k.turn[t] # "absent" /\ k.runOf[t] = j.runOf[t],
         k.records = j.records, k.checkpoints = j.checkpoints
  PROVE  RefersIn(k)
<1>1. /\ \A i \in DOMAIN j.records : j.records[i] \in Turns
      /\ \A i \in DOMAIN j.checkpoints : j.checkpoints[i].turn \in Turns
  BY ItemTypes
<1> QED
  BY <1>1 DEF RefersIn, KnownTurn

LEMMA ChangeRefers ==
  ASSUME NEW j, NEW k, Sound(j), Change(j, k), RefersIn(j)
  PROVE  RefersIn(k)
<1> j \in Journals
  BY DEF Sound
<1>1. CASE \E r \in Runs : k = WithRun(j, r)
  <2> PICK r \in Runs : k = WithRun(j, r)
    BY <1>1
  <2>1. /\ k.turn = j.turn /\ k.runOf = j.runOf
        /\ k.records = j.records /\ k.checkpoints = j.checkpoints
    BY WithRunFields
  <2> QED
    BY <2>1, RefersOn
<1>2. CASE \E r \in Runs, t \in Turns : j.turn[t] = "absent" /\ k = WithTurn(j, r, t)
  <2> PICK r \in Runs, t \in Turns : j.turn[t] = "absent" /\ k = WithTurn(j, r, t)
    BY <1>2
  <2>1. /\ k.turn = [j.turn EXCEPT ![t] = "running"]
        /\ k.runOf = [j.runOf EXCEPT ![t] = r]
        /\ k.records = j.records /\ k.checkpoints = j.checkpoints
    BY WithTurnFields
  <2>2. \A u \in Turns : j.turn[u] # "absent" =>
          k.turn[u] # "absent" /\ k.runOf[u] = j.runOf[u]
    BY <2>1 DEF Journals
  <2> QED
    BY <2>1, <2>2, RefersOn
<1>3. CASE \E t \in Turns : ActiveTurn(j, t) /\ k = WithRecord(j, t)
  <2> PICK t \in Turns : ActiveTurn(j, t) /\ k = WithRecord(j, t)
    BY <1>3
  <2>1. /\ k.turn = j.turn /\ k.runOf = j.runOf /\ k.checkpoints = j.checkpoints
        /\ k.records = Append(j.records, t)
    BY WithRecordFields
  <2>2. \A i \in DOMAIN k.records : k.records[i] = t \/ (i \in DOMAIN j.records /\ k.records[i] = j.records[i])
    BY <2>1 DEF Journals
  <2> QED
    BY <2>1, <2>2 DEF RefersIn, KnownTurn, ActiveTurn
<1>4. CASE \E t \in Turns, c \in Checkpoints, s \in States :
             ActiveTurn(j, t) /\ k = WithCheckpoint(j, t, c, s)
  <2> PICK t \in Turns, c \in Checkpoints, s \in States :
             ActiveTurn(j, t) /\ k = WithCheckpoint(j, t, c, s)
    BY <1>4
  <2> DEFINE new == [id |-> c, run |-> j.runOf[t], turn |-> t,
                     sequence |-> NextSequence(j, j.runOf[t]), state |-> s]
  <2>1. /\ k.turn = j.turn /\ k.runOf = j.runOf /\ k.records = j.records
        /\ k.checkpoints = Append(j.checkpoints, new)
    BY WithCheckpointFields
  <2>2. new.run = j.runOf[t] /\ new.turn = t
    OBVIOUS
  <2> HIDE DEF new
  <2>3. \A i \in DOMAIN k.checkpoints :
          k.checkpoints[i] = new \/ (i \in DOMAIN j.checkpoints /\ k.checkpoints[i] = j.checkpoints[i])
    BY <2>1 DEF Journals
  <2> QED
    BY <2>1, <2>2, <2>3 DEF RefersIn, KnownTurn, ActiveTurn
<1>5. CASE \E r \in Runs, s \in TerminalRunStatuses : k = WithEnd(j, r, s)
  <2> PICK r \in Runs, s \in TerminalRunStatuses : k = WithEnd(j, r, s)
    BY <1>5
  <2>1. /\ k.turn = FinishOpenTurns(j, r, s) /\ k.runOf = j.runOf
        /\ k.records = j.records /\ k.checkpoints = j.checkpoints
    BY WithEndFields
  <2>2. \A u \in Turns : j.turn[u] # "absent" => k.turn[u] # "absent"
    BY <2>1 DEF FinishOpenTurns, TurnStatusForRun
  <2> QED
    BY <2>1, <2>2, RefersOn
<1>6. CASE k = WithError(j)
  BY <1>6, WithErrorFields, RefersOn
<1> QED
  BY <1>1, <1>2, <1>3, <1>4, <1>5, <1>6 DEF Change

-----------------------------------------------------------------------------
(* The audit.                                                               *)

\* A run's checkpoint has a higher number than every earlier one.
LEMMA NumbersGrow ==
  ASSUME NEW j \in Journals, NumberedIn(j),
         NEW i \in DOMAIN j.checkpoints, NEW k \in Earlier(j, i)
  PROVE  j.checkpoints[k].sequence < j.checkpoints[i].sequence
<1> DEFINE r == j.checkpoints[i].run
           UpTo(n) == {x \in CheckpointsOf(j, r) : x <= n}
<1>1. k \in DOMAIN j.checkpoints /\ j.checkpoints[k].run = r /\ k < i
  BY DEF Earlier, CheckpointsOf
<1>2. DOMAIN j.checkpoints = 1 .. Len(j.checkpoints) /\ Len(j.checkpoints) \in Nat
  BY DEF Journals
<1>3. /\ j.checkpoints[i].sequence = Cardinality(UpTo(i))
      /\ j.checkpoints[k].sequence = Cardinality(UpTo(k))
  BY <1>1 DEF NumberedIn
<1>4. UpTo(k) \subseteq UpTo(i) /\ i \in UpTo(i) /\ i \notin UpTo(k)
  BY <1>1, <1>2 DEF CheckpointsOf
<1>5. IsFiniteSet(UpTo(i))
  <2>1. IsFiniteSet(1 .. Len(j.checkpoints))
    BY <1>2, FS_Interval
  <2>2. UpTo(i) \subseteq 1 .. Len(j.checkpoints)
    BY <1>2 DEF CheckpointsOf
  <2> QED
    BY <2>1, <2>2, FS_Subset
<1>6. /\ Cardinality(UpTo(k)) \in Nat /\ Cardinality(UpTo(i)) \in Nat
      /\ Cardinality(UpTo(k)) <= Cardinality(UpTo(i))
      /\ Cardinality(UpTo(k)) # Cardinality(UpTo(i))
  BY <1>4, <1>5, FS_Subset, FS_CardinalityType
<1> QED
  BY <1>3, <1>6

\* A journal that is sound, numbered and refers to what is there passes the audit.
LEMMA AuditOfGood ==
  ASSUME NEW j, NEW r, Sound(j), NumberedIn(j), RefersIn(j)
  PROVE  ReplayOk(j, r)
<1> j \in Journals
  BY DEF Sound
<1>1. \A t \in Turns : j.turn[t] # "absent" => j.runOf[t] \in Runs /\ j.run[j.runOf[t]] # "absent"
  BY DEF Sound, TurnsFollow, Journals
<1>2. \A i \in DOMAIN j.finished : j.finished[i].run \in Runs /\ j.run[j.finished[i].run] # "absent"
  <2> SUFFICES ASSUME NEW i \in DOMAIN j.finished
               PROVE  j.finished[i].run \in Runs /\ j.run[j.finished[i].run] # "absent"
    OBVIOUS
  <2>1. j.finished[i].run \in Runs
    BY ItemTypes
  <2>2. i \in FinishedEntries(j, j.finished[i].run)
    BY DEF FinishedEntries
  <2>3. RunOver(j, j.finished[i].run)
    BY <2>1, <2>2 DEF Sound, FinishedOnceIn
  <2> QED
    BY <2>1, <2>3 DEF RunOver, TerminalRunStatuses
<1>3. \A i \in DOMAIN j.records : j.records[i] \in Turns /\ j.turn[j.records[i]] # "absent"
  BY ItemTypes DEF RefersIn
<1>4. \A i \in DOMAIN j.checkpoints :
        j.checkpoints[i].turn \in Turns /\ KnownTurn(j, j.checkpoints[i].run, j.checkpoints[i].turn)
  BY ItemTypes DEF RefersIn
<1>5. ASSUME NEW m \in Mentions(j)
      PROVE  /\ m.run \in Runs /\ j.run[m.run] # "absent"
             /\ m.what \in {"record", "checkpoint"} => KnownTurn(j, m.run, m.turn)
  <2>1. CASE \E t \in Turns : /\ j.turn[t] # "absent"
                              /\ m = [what |-> "turn", run |-> j.runOf[t], turn |-> t]
    BY <1>1, <2>1
  <2>2. CASE \E i \in DOMAIN j.records :
               m = [what |-> "record", run |-> j.runOf[j.records[i]], turn |-> j.records[i]]
    BY <1>1, <1>3, <2>2 DEF KnownTurn
  <2>3. CASE \E i \in DOMAIN j.checkpoints :
               m = [what |-> "checkpoint", run |-> j.checkpoints[i].run, turn |-> j.checkpoints[i].turn]
    BY <1>1, <1>4, <2>3 DEF KnownTurn
  <2>4. CASE \E i \in DOMAIN j.finished :
               m = [what |-> "finished", run |-> j.finished[i].run, turn |-> None]
    BY <1>2, <2>4
  <2> QED
    BY <2>1, <2>2, <2>3, <2>4 DEF Mentions
<1>6. NonMonotonic(j, r) = {}
  <2> SUFFICES ASSUME NEW i \in DOMAIN j.checkpoints
               PROVE  /\ ~(j.checkpoints[i].sequence <= 0)
                      /\ \A k \in Previous(j, i) :
                           ~(j.checkpoints[i].sequence <= j.checkpoints[k].sequence)
    BY DEF NonMonotonic
  <2>1. \A k \in DOMAIN j.checkpoints : j.checkpoints[k].sequence \in Nat \ {0}
    BY ItemTypes
  <2>2. \A k \in Previous(j, i) : k \in Earlier(j, i) /\ k \in DOMAIN j.checkpoints
    BY DEF Previous, Earlier, CheckpointsOf
  <2> QED
    BY <2>1, <2>2, NumbersGrow
<1>7. MissingEndings(j, r) = {}
  BY DEF MissingEndings, Sound, FinishedOnceIn
<1> QED
  BY <1>5, <1>6, <1>7 DEF ReplayOk, UnknownRuns, UnknownTurns

-----------------------------------------------------------------------------
(* The invariant: every journal there is, in memory, in the store and in    *)
(* the history, is a good one.                                              *)

Good(j) == Sound(j) /\ NumberedIn(j) /\ RefersIn(j)

JInv ==
  /\ stored.form \in {"nothing", "broken", "whole"}
  /\ stored = [form |-> stored.form, book |-> stored.book]
  /\ up \in BOOLEAN
  /\ Good(journal)
  /\ Good(stored.book)
  /\ Good(kept)

LEMMA EmptyGood == Good(EmptyJournal)
<1>1. NumberedIn(EmptyJournal)
  BY DEF EmptyJournal, NumberedIn
<1>2. RefersIn(EmptyJournal)
  BY DEF EmptyJournal, RefersIn
<1> QED
  BY <1>1, <1>2, EmptySound DEF Good

LEMMA ChangeGood ==
  ASSUME NEW j, NEW k, Good(j), Change(j, k)
  PROVE  Good(k)
  BY ChangeSound, ChangeNumbers, ChangeRefers DEF Good

LEMMA InitJInv == Init => JInv
  BY EmptyGood DEF Init, JInv, Nothing

\* What a step does: the store keeps its snapshot, loses it, or takes the new one, and
\* the history follows memory when the call returns.
LEMMA StepForms ==
  ASSUME Next, up \in BOOLEAN
  PROVE  \/ Crash
         \/ Restart
         \/ /\ up
            /\ \E k : /\ Change(journal, k)
                      /\ stored' \in {stored, Nothing, Broken, Whole(k)}
                      /\ \/ journal' = k /\ up' = TRUE /\ kept' = kept
                         \/ journal' = k /\ up' = TRUE /\ kept' = k /\ stored' = Written(k)
                         \/ journal' = EmptyJournal /\ up' = FALSE /\ kept' = kept
<1>1. CASE \E k : Change(journal, k) /\ Persist(k)
  <2> PICK k : Change(journal, k) /\ Persist(k)
    BY <1>1
  <2>1. Written(k) \in {Broken, Whole(k)} /\ HalfWritten \subseteq {stored, Nothing, Broken}
    BY DEF Written, HalfWritten
  <2>2. up
    BY DEF Persist
  <2>3. CASE Returns(k)
    BY <2>1, <2>2, <2>3 DEF Returns
  <2>4. CASE Raises(k)
    BY <2>1, <2>2, <2>4 DEF Raises
  <2>5. CASE Dies(k)
    BY <2>1, <2>2, <2>5 DEF Dies
  <2> QED
    BY <2>3, <2>4, <2>5 DEF Persist
<1> QED
  BY <1>1, NextIsChange

LEMMA StepJInv ==
  ASSUME JInv, [Next]_vars
  PROVE  JInv'
<1>1. CASE UNCHANGED vars
  BY <1>1 DEF vars, JInv
<1>2. CASE Crash
  BY <1>2, EmptyGood DEF Crash, JInv
<1>3. CASE Restart
  BY <1>3 DEF Restart, Loaded, JInv
<1>4. ASSUME up,
             NEW k, Change(journal, k),
             stored' \in {stored, Nothing, Broken, Whole(k)},
             \/ journal' = k /\ up' = TRUE /\ kept' = kept
             \/ journal' = k /\ up' = TRUE /\ kept' = k /\ stored' = Written(k)
             \/ journal' = EmptyJournal /\ up' = FALSE /\ kept' = kept
      PROVE  JInv'
  <2>1. Good(k)
    BY <1>4, ChangeGood DEF JInv
  <2>2. Good(journal)' /\ Good(kept)' /\ up' \in BOOLEAN
    BY <1>4, <2>1, EmptyGood DEF JInv
  <2>3. /\ Good(stored.book)'
        /\ stored'.form \in {"nothing", "broken", "whole"}
        /\ stored' = [form |-> stored'.form, book |-> stored'.book]
    BY <1>4, <2>1, EmptyGood DEF JInv, Nothing, Broken, Whole
  <2> QED
    BY <2>2, <2>3 DEF JInv
<1> QED
  BY <1>1, <1>2, <1>3, <1>4, StepForms DEF JInv

LEMMA SpecJInv == Spec => []JInv
<1>1. Init => JInv
  BY InitJInv
<1>2. JInv /\ [Next]_vars => JInv'
  BY StepJInv
<1> QED
  BY <1>1, <1>2, PTL DEF Spec

\* Type correctness of the journal, the store and the history, whatever fails.
THEOREM JournalTypeCorrect == Spec => []TypeOK
<1>1. JInv => TypeOK
  BY DEF JInv, Good, Sound, TypeOK
<1> QED
  BY <1>1, SpecJInv, PTL

\* Turns are open exactly as long as their run, in memory and in every snapshot.
THEOREM TurnsEnd == Spec => []TurnsEndWithTheirRun
<1>1. JInv => TurnsEndWithTheirRun
  BY DEF JInv, Good, Sound, TurnsEndWithTheirRun
<1> QED
  BY <1>1, SpecJInv, PTL

\* Every run that is over has exactly one entry in finished, with its status.
THEOREM RunsFinishOnce == Spec => []FinishedOnce
<1>1. JInv => FinishedOnce
  BY DEF JInv, Good, Sound, FinishedOnce
<1> QED
  BY <1>1, SpecJInv, PTL

\* The checkpoints of every run are numbered from 1 without a gap.
THEOREM CheckpointNumbers == Spec => []CheckpointsNumbered
<1>1. JInv => CheckpointsNumbered
  BY DEF JInv, Good, CheckpointsNumbered
<1> QED
  BY <1>1, SpecJInv, PTL

\* Offline replay finds no issue in a journal the code wrote, in memory or in the store,
\* for one run or for all.
THEOREM JournalsPassTheirAudit == Spec => []AuditPasses
<1>1. JInv => AuditPasses
  BY AuditOfGood DEF JInv, Good, AuditPasses
<1> QED
  BY <1>1, SpecJInv, PTL

-----------------------------------------------------------------------------
(* Durability, with the SQLite store: a save replaces the snapshot or does  *)
(* not, so the store runs behind memory and ahead of what was returned.     *)

\* With SQLite the store keeps its snapshot or takes the whole new one.
LEMMA SQLiteStepForms ==
  ASSUME Store = "sqlite", Next, up \in BOOLEAN
  PROVE  \/ Crash
         \/ Restart
         \/ /\ up
            /\ \E k : /\ Change(journal, k)
                      /\ \/ /\ journal' = k /\ up' = TRUE /\ kept' = kept
                            /\ stored' = stored
                         \/ /\ journal' = k /\ up' = TRUE /\ kept' = k
                            /\ stored' = Whole(k)
                         \/ /\ journal' = EmptyJournal /\ up' = FALSE /\ kept' = kept
                            /\ stored' \in {stored, Whole(k)}
<1>1. CASE \E k : Change(journal, k) /\ Persist(k)
  <2> PICK k : Change(journal, k) /\ Persist(k)
    BY <1>1
  <2>1. Written(k) = Whole(k) /\ HalfWritten = {stored}
    BY DEF Written, HalfWritten
  <2>2. up
    BY DEF Persist
  <2>3. CASE Returns(k)
    BY <2>1, <2>2, <2>3 DEF Returns
  <2>4. CASE Raises(k)
    BY <2>1, <2>2, <2>4 DEF Raises
  <2>5. CASE Dies(k)
    BY <2>1, <2>2, <2>5 DEF Dies
  <2> QED
    BY <2>3, <2>4, <2>5 DEF Persist
<1> QED
  BY <1>1, NextIsChange

Durable ==
  /\ Holds(stored.book, kept)
  /\ up => Holds(journal, stored.book)

Settled ==
  \A r \in Runs :
    RunOver(kept, r) =>
      /\ PageOf(stored.book, r) = PageOf(kept, r)
      /\ up => PageOf(journal, r) = PageOf(kept, r)

DInv == JInv /\ Durable /\ Settled

LEMMA InitDInv == Init => DInv
<1> SUFFICES ASSUME Init PROVE DInv
  OBVIOUS
<1>1. JInv
  BY InitJInv
<1>2. stored.book = EmptyJournal /\ kept = EmptyJournal /\ journal = EmptyJournal
  BY DEF Init, Nothing
<1>3. Holds(EmptyJournal, EmptyJournal)
  BY EmptySound, HoldsSelf DEF Sound
<1> QED
  BY <1>1, <1>2, <1>3 DEF DInv, Durable, Settled

LEMMA StepDurable ==
  ASSUME Store = "sqlite", DInv, [Next]_vars
  PROVE  Durable'
<1> /\ journal \in Journals /\ TurnsFollow(journal)
    /\ stored.book \in Journals /\ TurnsFollow(stored.book)
    /\ kept \in Journals /\ TurnsFollow(kept)
    /\ Holds(stored.book, kept) /\ (up => Holds(journal, stored.book))
  BY DEF DInv, JInv, Good, Sound, Durable
<1>1. CASE UNCHANGED vars
  BY <1>1 DEF vars, Durable
<1>2. CASE Crash
  BY <1>2 DEF Crash, Durable
<1>3. CASE Restart
  BY <1>3, HoldsSelf DEF Restart, Loaded, Durable
<1>4. ASSUME up, NEW k, Change(journal, k)
      PROVE  /\ Holds(k, kept) /\ Holds(k, k) /\ Holds(k, stored.book)
  <2>1. Holds(k, journal) /\ k \in Journals
    BY <1>4, ChangeHolds, ChangeTypes DEF DInv, JInv, Good
  <2>2. Holds(k, stored.book)
    BY <1>4, <2>1, HoldsTrans
  <2>3. Holds(k, kept)
    BY <2>1, <2>2, HoldsTrans
  <2> QED
    BY <2>1, <2>2, <2>3, HoldsSelf
<1>5. ASSUME up, NEW k, Change(journal, k),
             journal' = k /\ up' = TRUE /\ kept' = kept /\ stored' = stored
      PROVE  Durable'
  BY <1>4, <1>5 DEF Durable
<1>6. ASSUME up, NEW k, Change(journal, k),
             journal' = k /\ up' = TRUE /\ kept' = k /\ stored' = Whole(k)
      PROVE  Durable'
  BY <1>4, <1>6 DEF Durable, Whole
<1>7. ASSUME up, NEW k, Change(journal, k),
             journal' = EmptyJournal /\ up' = FALSE /\ kept' = kept,
             stored' \in {stored, Whole(k)}
      PROVE  Durable'
  BY <1>4, <1>7 DEF Durable, Whole
<1> QED
  BY <1>1, <1>2, <1>3, <1>5, <1>6, <1>7, SQLiteStepForms DEF DInv, JInv

\* Equal pages show the same status.
LEMMA PageStatus ==
  ASSUME NEW j, NEW k, NEW r, PageOf(j, r) = PageOf(k, r)
  PROVE  j.run[r] = k.run[r] /\ (RunOver(j, r) <=> RunOver(k, r))
  BY DEF PageOf, RunOver

\* A change of the journal in memory leaves the pages of the runs kept as over alone.
LEMMA ChangeKeepsSettled ==
  ASSUME DInv, up, NEW k, Change(journal, k), NEW r \in Runs, RunOver(kept, r)
  PROVE  PageOf(k, r) = PageOf(kept, r)
<1>1. PageOf(journal, r) = PageOf(kept, r)
  BY DEF DInv, Settled
<1>2. RunOver(journal, r)
  BY <1>1, PageStatus
<1>3. PageOf(k, r) = PageOf(journal, r)
  BY <1>2, ChangePages DEF DInv, JInv, Good
<1> QED
  BY <1>1, <1>3

LEMMA StepSettled ==
  ASSUME Store = "sqlite", DInv, [Next]_vars
  PROVE  Settled'
<1>1. CASE UNCHANGED vars
  <2>1. journal' = journal /\ stored' = stored /\ up' = up /\ kept' = kept
    BY <1>1 DEF vars
  <2>2. Settled
    BY DEF DInv
  <2> QED
    BY <2>1, <2>2 DEF Settled
<1>2. CASE Crash
  BY <1>2 DEF Crash, DInv, Settled, RunOver
<1>3. CASE Restart
  BY <1>3 DEF Restart, Loaded, DInv, Settled, RunOver
<1>4. ASSUME up, NEW k, Change(journal, k),
             journal' = k /\ up' = TRUE /\ kept' = kept /\ stored' = stored
      PROVE  Settled'
  BY <1>4, ChangeKeepsSettled DEF DInv, Settled
<1>5. ASSUME up, NEW k, Change(journal, k),
             journal' = k /\ up' = TRUE /\ kept' = k /\ stored' = Whole(k)
      PROVE  Settled'
  BY <1>5 DEF Settled, Whole
<1>6. ASSUME up, NEW k, Change(journal, k),
             journal' = EmptyJournal /\ up' = FALSE /\ kept' = kept,
             stored' \in {stored, Whole(k)}
      PROVE  Settled'
  BY <1>6, ChangeKeepsSettled DEF DInv, Settled, Whole
<1> QED
  BY <1>1, <1>2, <1>3, <1>4, <1>5, <1>6, SQLiteStepForms DEF DInv, JInv

LEMMA SpecDInv ==
  ASSUME Store = "sqlite"
  PROVE  Spec => []DInv
<1>1. Init => DInv
  BY InitDInv
<1>2. DInv /\ [Next]_vars => DInv'
  BY StepJInv, StepDurable, StepSettled DEF DInv
<1> QED
  BY <1>1, <1>2, PTL DEF Spec

\* With the SQLite store, what a returned call put into the journal is in the store and
\* in every journal opened later, whatever saves fail and processes die.
THEOREM DurabilityHolds ==
  ASSUME Store = "sqlite"
  PROVE  Spec => []KeptSurvives
<1>1. DInv => KeptSurvives
  <2> SUFFICES ASSUME DInv PROVE KeptSurvives
    OBVIOUS
  <2>1. Holds(stored.book, kept)
    BY DEF DInv, Durable
  <2>2. up => Holds(journal, kept)
    BY <2>1, HoldsTrans DEF DInv, JInv, Good, Sound, Durable
  <2> QED
    BY <2>1, <2>2 DEF KeptSurvives, Shown
<1> QED
  BY <1>1, SpecDInv, PTL

\* With the SQLite store, once finish_run returned for a run its page never changes.
THEOREM FinishedRunsAreSettled ==
  ASSUME Store = "sqlite"
  PROVE  Spec => FinishedIsSettled
<1>1. ASSUME DInv, [Next]_vars, DInv', NEW r \in Runs, RunOver(kept, r)
      PROVE  PageOf(Shown, r)' = PageOf(Shown, r)
  <2>1. PageOf(Shown, r) = PageOf(kept, r)
    BY <1>1 DEF DInv, Settled, Shown
  <2>2. PageOf(kept, r)' = PageOf(kept, r)
    <3>1. CASE UNCHANGED kept
      BY <3>1
    <3>2. ASSUME up, NEW k, Change(journal, k), kept' = k
          PROVE  PageOf(kept, r)' = PageOf(kept, r)
      BY <1>1, <3>2, ChangeKeepsSettled
    <3>3. UNCHANGED kept \/ (up /\ \E k : Change(journal, k) /\ kept' = k)
      BY <1>1, SQLiteStepForms DEF DInv, JInv, Crash, Restart, vars
    <3> QED
      BY <3>1, <3>2, <3>3
  <2>3. RunOver(kept, r)'
    BY <1>1, <2>2, PageStatus DEF RunOver, PageOf
  <2>4. PageOf(Shown, r)' = PageOf(kept, r)'
    BY <1>1, <2>3 DEF DInv, Settled, Shown
  <2> QED
    BY <2>1, <2>2, <2>4
<1>2. DInv /\ [Next]_vars /\ DInv'
        => [\A r \in Runs : RunOver(kept, r) => PageOf(Shown, r)' = PageOf(Shown, r)]_vars
  BY <1>1
<1> QED
  BY <1>2, SpecDInv, PTL DEF Spec, FinishedIsSettled

-----------------------------------------------------------------------------
(* The journal implements the ledger.                                       *)

Entries(j) == [r \in Runs |-> Entry(j, r)]

\* What a change does to the entries: nothing, or what one action of the ledger does.
Begins(j, k, r) ==
  Entries(j)[r].status = "absent" /\ Entries(k) = [Entries(j) EXCEPT ![r].status = "running"]
Pages(j, k, r) ==
  Entries(j)[r].status = "running" /\ Entries(k) = [Entries(j) EXCEPT ![r].pages = @ + 1]
Closes(j, k, r) ==
  Entries(j)[r].status = "running" /\ Entries(k) = [Entries(j) EXCEPT ![r].status = "over"]

LEMMA SameEntries ==
  ASSUME NEW j, NEW k, k.run = j.run, k.checkpoints = j.checkpoints
  PROVE  Entries(k) = Entries(j)
  BY DEF Entries, Entry, RunOver, CheckpointsOf

\* Two tables of entries that differ in the status, or in the pages, of one entry.
LEMMA NewStatus ==
  ASSUME NEW S, NEW r \in S, NEW f, NEW g, NEW a, NEW b, NEW n,
         f = [q \in S |-> f[q]], g = [q \in S |-> g[q]],
         \A q \in S : q # r => g[q] = f[q],
         f[r] = [status |-> a, pages |-> n], g[r] = [status |-> b, pages |-> n]
  PROVE  g = [f EXCEPT ![r].status = b]
<1>1. [f[r] EXCEPT !.status = b] = g[r]
  OBVIOUS
<1>2. g = [f EXCEPT ![r] = g[r]]
  OBVIOUS
<1> QED
  BY <1>1, <1>2

LEMMA NewPages ==
  ASSUME NEW S, NEW r \in S, NEW f, NEW g, NEW a, NEW n,
         f = [q \in S |-> f[q]], g = [q \in S |-> g[q]],
         \A q \in S : q # r => g[q] = f[q],
         f[r] = [status |-> a, pages |-> n], g[r] = [status |-> a, pages |-> n + 1]
  PROVE  g = [f EXCEPT ![r].pages = @ + 1]
<1>1. [f[r] EXCEPT !.pages = @ + 1] = g[r]
  OBVIOUS
<1>2. g = [f EXCEPT ![r] = g[r]]
  OBVIOUS
<1> QED
  BY <1>1, <1>2

LEMMA EntriesAt ==
  ASSUME NEW j
  PROVE  /\ Entries(j) = [r \in Runs |-> Entries(j)[r]]
         /\ \A r \in Runs : Entries(j)[r] = Entry(j, r)
  BY DEF Entries

LEMMA ChangeEntries ==
  ASSUME NEW j, NEW k, Sound(j), Change(j, k)
  PROVE  \/ Entries(k) = Entries(j)
         \/ \E r \in Runs : Begins(j, k, r) \/ Pages(j, k, r) \/ Closes(j, k, r)
<1> j \in Journals
  BY DEF Sound
<1>1. CASE \E r \in Runs : j.run[r] = "absent" /\ k = WithRun(j, r)
  <2> PICK r \in Runs : j.run[r] = "absent" /\ k = WithRun(j, r)
    BY <1>1
  <2>1. k.run = [j.run EXCEPT ![r] = "running"] /\ k.checkpoints = j.checkpoints
    BY WithRunFields
  <2>2. \A q \in Runs : CheckpointsOf(k, q) = CheckpointsOf(j, q)
    BY <2>1 DEF CheckpointsOf
  <2>3. Entry(j, r) = [status |-> "absent", pages |-> Cardinality(CheckpointsOf(j, r))]
    BY DEF Entry, RunOver, TerminalRunStatuses
  <2>4. Entry(k, r) = [status |-> "running", pages |-> Cardinality(CheckpointsOf(j, r))]
    BY <2>1, <2>2 DEF Entry, RunOver, TerminalRunStatuses, Journals
  <2>5. \A q \in Runs : q # r => Entry(k, q) = Entry(j, q)
    BY <2>1, <2>2 DEF Entry, RunOver, Journals
  <2>6. Entries(k) = [Entries(j) EXCEPT ![r].status = "running"]
    BY <2>3, <2>4, <2>5, EntriesAt, NewStatus
  <2>7. Entries(j)[r].status = "absent"
    BY <2>3, EntriesAt
  <2> QED
    BY <2>6, <2>7 DEF Begins
<1>2. CASE \E r \in Runs, t \in Turns :
             /\ j.run[r] # "absent"
             /\ ~RunOver(j, r)
             /\ j.turn[t] = "absent"
             /\ k = WithTurn(j, r, t)
  <2> PICK r \in Runs, t \in Turns : k = WithTurn(j, r, t)
    BY <1>2
  <2>1. k.run = j.run /\ k.checkpoints = j.checkpoints
    BY WithTurnFields
  <2> QED
    BY <2>1, SameEntries
<1>3. CASE \E t \in Turns : ActiveTurn(j, t) /\ k = WithRecord(j, t)
  <2> PICK t \in Turns : k = WithRecord(j, t)
    BY <1>3
  <2>1. k.run = j.run /\ k.checkpoints = j.checkpoints
    BY WithRecordFields
  <2> QED
    BY <2>1, SameEntries
<1>4. CASE \E t \in Turns, c \in Checkpoints, s \in States :
             ActiveTurn(j, t) /\ k = WithCheckpoint(j, t, c, s)
  <2> PICK t \in Turns, c \in Checkpoints, s \in States :
             ActiveTurn(j, t) /\ k = WithCheckpoint(j, t, c, s)
    BY <1>4
  <2> DEFINE r == j.runOf[t]
             n == Len(j.checkpoints)
             new == [id |-> c, run |-> r, turn |-> t,
                     sequence |-> NextSequence(j, r), state |-> s]
  <2>1. k.run = j.run /\ k.checkpoints = Append(j.checkpoints, new)
    BY WithCheckpointFields
  <2>2. r \in Runs /\ j.run[r] = "running" /\ ~RunOver(j, r)
    BY ActiveTurnFacts
  <2>3. new.run = r
    OBVIOUS
  <2> HIDE DEF new, r
  <2>4. /\ n \in Nat
        /\ DOMAIN j.checkpoints = 1..n
        /\ DOMAIN k.checkpoints = 1..(n + 1)
        /\ k.checkpoints[n + 1] = new
        /\ \A i \in 1..n : k.checkpoints[i] = j.checkpoints[i]
    BY <2>1 DEF Journals
  <2>5. CheckpointsOf(k, r) = CheckpointsOf(j, r) \cup {n + 1}
    BY <2>3, <2>4 DEF CheckpointsOf
  <2>6. n + 1 \notin CheckpointsOf(j, r)
    BY <2>4 DEF CheckpointsOf
  <2>7. Cardinality(CheckpointsOf(k, r)) = Cardinality(CheckpointsOf(j, r)) + 1
    BY <2>2, <2>5, <2>6, NextSequenceType, FS_AddElement
  <2>8. \A q \in Runs : q # r => CheckpointsOf(k, q) = CheckpointsOf(j, q)
    BY <2>3, <2>4 DEF CheckpointsOf
  <2>9. Entry(j, r) = [status |-> "running", pages |-> Cardinality(CheckpointsOf(j, r))]
    BY <2>2 DEF Entry
  <2>10. Entry(k, r) = [status |-> "running", pages |-> Cardinality(CheckpointsOf(j, r)) + 1]
    BY <2>1, <2>2, <2>7 DEF Entry, RunOver
  <2>11. \A q \in Runs : q # r => Entry(k, q) = Entry(j, q)
    BY <2>1, <2>8 DEF Entry, RunOver
  <2>12. Entries(k) = [Entries(j) EXCEPT ![r].pages = @ + 1]
    BY <2>2, <2>9, <2>10, <2>11, EntriesAt, NewPages
  <2>13. Entries(j)[r].status = "running"
    BY <2>2, <2>9, EntriesAt
  <2> QED
    BY <2>2, <2>12, <2>13 DEF Pages
<1>5. CASE \E r \in Runs, s \in TerminalRunStatuses : MayFinish(j, r, s) /\ k = WithEnd(j, r, s)
  <2> PICK r \in Runs, s \in TerminalRunStatuses : MayFinish(j, r, s) /\ k = WithEnd(j, r, s)
    BY <1>5
  <2>1. k.run = [j.run EXCEPT ![r] = s] /\ k.checkpoints = j.checkpoints
    BY WithEndFields
  <2>2. \A q \in Runs : CheckpointsOf(k, q) = CheckpointsOf(j, q)
    BY <2>1 DEF CheckpointsOf
  <2>3. Entry(j, r) = [status |-> "running", pages |-> Cardinality(CheckpointsOf(j, r))]
    BY DEF MayFinish, Entry, RunOver, Journals, RunStatuses
  <2>4. Entry(k, r) = [status |-> "over", pages |-> Cardinality(CheckpointsOf(j, r))]
    BY <2>1, <2>2 DEF Entry, RunOver, Journals
  <2>5. \A q \in Runs : q # r => Entry(k, q) = Entry(j, q)
    BY <2>1, <2>2 DEF Entry, RunOver, Journals
  <2>6. Entries(k) = [Entries(j) EXCEPT ![r].status = "over"]
    BY <2>3, <2>4, <2>5, EntriesAt, NewStatus
  <2>7. Entries(j)[r].status = "running"
    BY <2>3, EntriesAt
  <2> QED
    BY <2>6, <2>7 DEF Closes
<1>6. CASE k = WithError(j)
  <2>1. k.run = j.run /\ k.checkpoints = j.checkpoints
    BY <1>6, WithErrorFields
  <2> QED
    BY <2>1, SameEntries
<1> QED
  BY <1>1, <1>2, <1>3, <1>4, <1>5, <1>6 DEF Change

LEMMA InitLedger ==
  ASSUME Init
  PROVE  Ledger!LInit
<1>1. Shown = EmptyJournal /\ stored.book = EmptyJournal
  BY DEF Init, Nothing, Shown
<1>2. ASSUME NEW r \in Runs
      PROVE  Entry(EmptyJournal, r) = [status |-> "absent", pages |-> 0]
  <2>1. CheckpointsOf(EmptyJournal, r) = {}
    BY DEF CheckpointsOf, EmptyJournal
  <2>2. Cardinality({}) = 0
    BY FS_EmptySet
  <2>3. EmptyJournal.run[r] = "absent"
    BY DEF EmptyJournal
  <2> QED
    BY <2>1, <2>2, <2>3 DEF Entry, RunOver, TerminalRunStatuses
<1> QED
  BY <1>1, <1>2 DEF Ledger!LInit, Ledger!Blank

\* A change of the journal is an action of the ledger whose save may come with it, or
\* leaves the entries alone.
LEMMA ChangeIsLedgerStep ==
  ASSUME DInv, up, NEW k, Change(journal, k), Shown' = k,
         stored'.book = k \/ stored'.book = stored.book
  PROVE  Ledger!LNext \/ UNCHANGED Ledger!lvars
<1> DEFINE seen == Entries(Shown)
           safe == Entries(stored.book)
<1>1. Sound(journal) /\ Shown = journal
  BY DEF DInv, JInv, Good, Shown
<1>2. seen' = Entries(k) /\ seen = Entries(journal)
  BY <1>1 DEF Entries, Entry, RunOver, CheckpointsOf
<1>3. safe' = seen' \/ safe' = safe
  BY DEF Entries, Entry, RunOver, CheckpointsOf
<1>4. /\ seen = [r \in Runs |-> Entry(Shown, r)]
      /\ safe = [r \in Runs |-> Entry(stored.book, r)]
      /\ seen' = [r \in Runs |-> Entry(Shown, r)']
      /\ safe' = [r \in Runs |-> Entry(stored.book, r)']
  BY DEF Entries
<1> HIDE DEF seen, safe
<1>5. CASE Entries(k) = Entries(journal)
  BY <1>2, <1>3, <1>4, <1>5 DEF Ledger!LNext, Ledger!Secure, Ledger!lvars
<1>6. CASE \E r \in Runs : Begins(journal, k, r)
  BY <1>2, <1>3, <1>4, <1>6 DEF Begins, Ledger!LNext, Ledger!Begin, Ledger!Saved
<1>7. CASE \E r \in Runs : Pages(journal, k, r)
  BY <1>2, <1>3, <1>4, <1>7 DEF Pages, Ledger!LNext, Ledger!Page, Ledger!Saved
<1>8. CASE \E r \in Runs : Closes(journal, k, r)
  BY <1>2, <1>3, <1>4, <1>8 DEF Closes, Ledger!LNext, Ledger!Close, Ledger!Saved
<1> QED
  BY <1>1, <1>5, <1>6, <1>7, <1>8, ChangeEntries

LEMMA StepLedger ==
  ASSUME Store = "sqlite", DInv, [Next]_vars
  PROVE  [Ledger!LNext]_(Ledger!lvars)
<1>1. CASE UNCHANGED vars
  BY <1>1 DEF vars, Shown, Entry, RunOver, CheckpointsOf, Ledger!lvars
<1>2. CASE Crash
  BY <1>2 DEF Crash, Shown, Entry, RunOver, CheckpointsOf, Ledger!LNext, Ledger!Lose
<1>3. CASE Restart
  BY <1>3 DEF Restart, Loaded, Shown, Entry, RunOver, CheckpointsOf, Ledger!lvars
<1>4. ASSUME up, NEW k, Change(journal, k),
             journal' = k /\ up' = TRUE /\ kept' = kept /\ stored' = stored
      PROVE  Ledger!LNext \/ UNCHANGED Ledger!lvars
  BY <1>4, ChangeIsLedgerStep DEF Shown
<1>5. ASSUME up, NEW k, Change(journal, k),
             journal' = k /\ up' = TRUE /\ kept' = k /\ stored' = Whole(k)
      PROVE  Ledger!LNext \/ UNCHANGED Ledger!lvars
  BY <1>5, ChangeIsLedgerStep DEF Shown, Whole
<1>6. ASSUME up, NEW k, Change(journal, k),
             journal' = EmptyJournal /\ up' = FALSE /\ kept' = kept, stored' = Whole(k)
      PROVE  Ledger!LNext \/ UNCHANGED Ledger!lvars
  BY <1>6, ChangeIsLedgerStep DEF Shown, Whole
<1>7. ASSUME up, NEW k, Change(journal, k),
             journal' = EmptyJournal /\ up' = FALSE /\ kept' = kept, stored' = stored
      PROVE  Ledger!LNext \/ UNCHANGED Ledger!lvars
  BY <1>7 DEF Shown, Entry, RunOver, CheckpointsOf, Ledger!LNext, Ledger!Lose
<1> QED
  BY <1>1, <1>2, <1>3, <1>4, <1>5, <1>6, <1>7, SQLiteStepForms DEF DInv, JInv

\* With the SQLite store the persistent journal implements the ledger: a crash takes it
\* back to what was saved, and an entry that is over is never written to again.
THEOREM JournalImplementsLedger ==
  ASSUME Store = "sqlite"
  PROVE  Spec => ImplementsLedger
<1>1. Init => Ledger!LInit
  BY InitLedger
<1>2. DInv /\ [Next]_vars => [Ledger!LNext]_(Ledger!lvars)
  BY StepLedger
<1> QED
  BY <1>1, <1>2, SpecDInv, PTL DEF Spec, ImplementsLedger, Ledger!LSpec
-----------------------------------------------------------------------------
(* Resuming: where the index finds a run's latest checkpoint.               *)

CheckpointRecords ==
  [id : Checkpoints, run : Runs, turn : Turns, sequence : Nat \ {0}, state : States]

OfRun(s, r, n) == {k \in 1..n : s[k].run = r}

\* Among the first n checkpoints of s, those of r with the highest number, the last of them.
Newest(s, r, n) ==
  {k \in OfRun(s, r, n) :
     \A l \in OfRun(s, r, n) :
       s[l].sequence < s[k].sequence \/ (s[l].sequence = s[k].sequence /\ l <= k)}

\* best is what a pass over the first n checkpoints of s should have kept.
Keeps(best, s, n) ==
  \A r \in Runs :
    /\ best[r] = {s[k] : k \in Newest(s, r, n)}
    /\ OfRun(s, r, n) # {} => Newest(s, r, n) # {}

LEMMA KeepsNext ==
  ASSUME NEW s \in Seq(CheckpointRecords), NEW n \in Nat, n + 1 <= Len(s),
         NEW best \in [Runs -> SUBSET CheckpointRecords], Keeps(best, s, n)
  PROVE  Keeps(KeepLatest(best, s[n + 1]), s, n + 1)
<1> DEFINE c == s[n + 1]
<1>1. /\ n + 1 \in DOMAIN s
      /\ \A k \in DOMAIN s : s[k].run \in Runs /\ s[k].sequence \in Nat
      /\ \A k \in 1..(n + 1) : k \in DOMAIN s
  <2>1. DOMAIN s = 1..Len(s) /\ Len(s) \in Nat /\ \A k \in DOMAIN s : s[k] \in CheckpointRecords
    OBVIOUS
  <2>2. \A x \in CheckpointRecords : x.run \in Runs /\ x.sequence \in Nat
    BY DEF CheckpointRecords
  <2> QED
    BY <2>1, <2>2
<1>2. 1..(n + 1) = 1..n \cup {n + 1} /\ n + 1 \notin 1..n /\ \A k \in 1..n : k < n + 1
  OBVIOUS
<1> SUFFICES ASSUME NEW r \in Runs
             PROVE  /\ KeepLatest(best, c)[r] = {s[k] : k \in Newest(s, r, n + 1)}
                    /\ OfRun(s, r, n + 1) # {} => Newest(s, r, n + 1) # {}
  BY DEF Keeps
<1>3. best[r] = {s[k] : k \in Newest(s, r, n)} /\ (OfRun(s, r, n) # {} => Newest(s, r, n) # {})
  BY DEF Keeps
<1>4. CASE r # c.run
  <2>1. OfRun(s, r, n + 1) = OfRun(s, r, n)
    BY <1>2, <1>4 DEF OfRun
  <2>2. Newest(s, r, n + 1) = Newest(s, r, n)
    BY <2>1 DEF Newest
  <2>3. KeepLatest(best, c)[r] = best[r]
    BY <1>4 DEF KeepLatest
  <2> QED
    BY <1>3, <2>1, <2>2, <2>3
<1>5. CASE r = c.run
  <2>1. OfRun(s, r, n + 1) = OfRun(s, r, n) \cup {n + 1}
    BY <1>2, <1>5 DEF OfRun
  <2>2. \A k \in OfRun(s, r, n) : k \in 1..n /\ s[k].sequence \in Nat
    BY <1>1, <1>2 DEF OfRun
  <2>3. c.sequence \in Nat
    BY <1>1
  <2>4. \A k \in Newest(s, r, n) :
          /\ k \in OfRun(s, r, n) /\ s[k] \in best[r]
          /\ \A l \in OfRun(s, r, n) : s[l].sequence <= s[k].sequence
    BY <1>3, <2>2 DEF Newest
  <2>5. CASE \A p \in best[r] : c.sequence >= p.sequence
    <3>1. KeepLatest(best, c)[r] = {c}
      BY <1>5, <2>5 DEF KeepLatest
    <3>2. ASSUME NEW l \in OfRun(s, r, n) PROVE s[l].sequence <= c.sequence /\ l < n + 1
      <4>1. PICK k \in Newest(s, r, n) : TRUE
        BY <1>3
      <4>2. s[l].sequence <= s[k].sequence /\ c.sequence >= s[k].sequence
        BY <2>4, <2>5, <4>1
      <4> QED
        BY <1>2, <2>2, <2>3, <2>4, <4>1, <4>2
    <3>3. n + 1 \in Newest(s, r, n + 1)
      BY <2>1, <2>2, <2>3, <3>2 DEF Newest
    <3>4. ASSUME NEW k \in Newest(s, r, n + 1), k # n + 1 PROVE FALSE
      <4>1. k \in OfRun(s, r, n)
        BY <2>1, <3>4 DEF Newest
      <4>2. c.sequence < s[k].sequence \/ n + 1 <= k
        BY <2>1 DEF Newest
      <4>3. s[k].sequence <= c.sequence /\ k < n + 1 /\ k \in Nat /\ s[k].sequence \in Nat
        BY <2>2, <3>2, <4>1
      <4> QED
        BY <2>3, <4>2, <4>3
    <3>5. Newest(s, r, n + 1) = {n + 1}
      BY <3>3, <3>4
    <3> QED
      BY <3>1, <3>5
  <2>6. CASE \E p \in best[r] : ~(c.sequence >= p.sequence)
    <3>1. KeepLatest(best, c)[r] = best[r]
      BY <1>5, <2>6 DEF KeepLatest
    <3>2. PICK m \in Newest(s, r, n) : ~(c.sequence >= s[m].sequence)
      BY <1>3, <2>6
    <3>3. m \in OfRun(s, r, n) /\ s[m].sequence \in Nat /\ c.sequence < s[m].sequence
      BY <2>2, <2>3, <2>4, <3>2
    <3>4. ASSUME NEW k \in Newest(s, r, n) PROVE k \in Newest(s, r, n + 1)
      <4>1. c.sequence < s[k].sequence
        BY <2>2, <2>3, <2>4, <3>3
      <4> QED
        BY <2>1, <4>1 DEF Newest
    <3>5. ASSUME NEW k \in Newest(s, r, n + 1) PROVE k \in Newest(s, r, n)
      <4>1. k # n + 1
        <5>1. s[m].sequence < s[k].sequence \/ s[m].sequence = s[k].sequence
          BY <2>1, <3>3 DEF Newest
        <5> QED
          BY <2>3, <3>3, <5>1
      <4> QED
        BY <2>1, <4>1 DEF Newest
    <3>6. Newest(s, r, n + 1) = Newest(s, r, n) /\ Newest(s, r, n) # {}
      BY <3>2, <3>4, <3>5
    <3> QED
      BY <1>3, <3>1, <3>6
  <2> QED
    BY <2>5, <2>6
<1> QED
  BY <1>4, <1>5

Latests(f, s) ==
  f = [n \in 0..Len(s) |-> IF n = 0 THEN [r \in Runs |-> {}] ELSE KeepLatest(f[n - 1], s[n])]

LEMMA KeepLatestType ==
  ASSUME NEW best \in [Runs -> SUBSET CheckpointRecords], NEW c \in CheckpointRecords
  PROVE  KeepLatest(best, c) \in [Runs -> SUBSET CheckpointRecords]
  BY DEF KeepLatest

LEMMA LatestsExist ==
  ASSUME NEW s \in Seq(CheckpointRecords)
  PROVE  \E f : Latests(f, s)
<1> DEFINE V == [Runs -> SUBSET CheckpointRecords]
           start == [r \in Runs |-> {}]
           n == Len(s)
           step == [p \in (1..n) \X V |-> KeepLatest(p[2], s[p[1]])]
<1>1. n \in Nat /\ \A i \in 1..n : s[i] \in CheckpointRecords
  OBVIOUS
<1>2. start \in V
  OBVIOUS
<1>3. \A i \in 1..n, v \in V : KeepLatest(v, s[i]) \in V
  BY <1>1, KeepLatestType
<1> HIDE DEF V, start, n
<1>4. step \in [(1..n) \X V -> V]
  BY <1>3
<1> HIDE DEF step
<1>5. PICK f \in [0..n -> V] : Iterates(f, n, start, step)
  BY <1>1, <1>2, <1>4, RecursionExists
<1> DEFINE e(i) == IF i = 0 THEN start ELSE KeepLatest(f[i - 1], s[i])
<1>6. ASSUME NEW i \in 0..n PROVE f[i] = e(i)
  <2>1. CASE i = 0
    BY <1>5, <2>1 DEF Iterates
  <2>2. CASE i # 0
    <3>1. i \in 1..n /\ i - 1 \in 0..n
      BY <1>1, <2>2
    <3>2. f[i] = step[<<i, f[i - 1]>>] /\ f[i - 1] \in V
      BY <1>5, <3>1 DEF Iterates
    <3>3. step[<<i, f[i - 1]>>] = KeepLatest(f[i - 1], s[i])
      BY <3>1, <3>2 DEF step
    <3> QED
      BY <2>2, <3>2, <3>3
  <2> QED
    BY <2>1, <2>2
<1> HIDE DEF e
<1>7. f = [i \in 0..n |-> e(i)]
  BY <1>6
<1> QED
  BY <1>7 DEF Latests, e, n, start

\* Any such pass keeps what it should.
LEMMA LatestsKeep ==
  ASSUME NEW s \in Seq(CheckpointRecords), NEW f, Latests(f, s)
  PROVE  Keeps(f[Len(s)], s, Len(s))
<1> DEFINE V == [Runs -> SUBSET CheckpointRecords]
           e(i) == IF i = 0 THEN [r \in Runs |-> {}] ELSE KeepLatest(f[i - 1], s[i])
           Fine == {n \in Nat : n <= Len(s) => f[n] \in V /\ Keeps(f[n], s, n)}
<1>1. Len(s) \in Nat /\ \A i \in 1..Len(s) : s[i] \in CheckpointRecords
  OBVIOUS
<1>2. \A i \in 0..Len(s) : f[i] = e(i)
  <2>1. f = [i \in 0..Len(s) |-> e(i)]
    BY DEF Latests
  <2> HIDE DEF e
  <2> QED
    BY <2>1
<1>3. 0 \in Fine
  <2>1. f[0] = [r \in Runs |-> {}]
    <3>1. 0 \in 0..Len(s)
      BY <1>1
    <3>2. e(0) = [r \in Runs |-> {}]
      OBVIOUS
    <3> HIDE DEF e
    <3> QED
      BY <1>2, <3>1, <3>2
  <2>2. \A r \in Runs : OfRun(s, r, 0) = {} /\ Newest(s, r, 0) = {}
    BY DEF OfRun, Newest
  <2> QED
    BY <2>1, <2>2 DEF Keeps
<1>4. ASSUME NEW n \in Nat, n \in Fine PROVE n + 1 \in Fine
  <2> SUFFICES ASSUME n + 1 <= Len(s) PROVE f[n + 1] \in V /\ Keeps(f[n + 1], s, n + 1)
    OBVIOUS
  <2>1. f[n] \in V /\ Keeps(f[n], s, n) /\ n + 1 \in 1..Len(s) /\ n + 1 # 0 /\ (n + 1) - 1 = n
    BY <1>1, <1>4
  <2>2. f[n + 1] = KeepLatest(f[n], s[n + 1])
    BY <1>1, <1>2, <2>1
  <2>3. f[n + 1] \in V
    BY <1>1, <2>1, <2>2, KeepLatestType
  <2>4. Keeps(KeepLatest(f[n], s[n + 1]), s, n + 1)
    BY <2>1, KeepsNext
  <2> QED
    BY <2>2, <2>3, <2>4
<1> HIDE DEF Fine
<1>5. Len(s) \in Fine
  BY <1>1, <1>3, <1>4, Induction
<1> QED
  BY <1>1, <1>5 DEF Fine

\* What the index has of each run is what latest_checkpoint returns, and that is one
\* checkpoint of the run, or none if the run has none.
LEMMA LatestByRunIs ==
  ASSUME NEW j \in Journals, NEW r \in Runs
  PROVE  /\ LatestByRun(j)[r] = LatestCheckpoint(j, r)
         /\ CheckpointsOf(j, r) # {} => LatestCheckpoint(j, r) # {}
         /\ \A c \in LatestCheckpoint(j, r) :
              c.run = r /\ \E i \in DOMAIN j.checkpoints : j.checkpoints[i] = c
         /\ \A a, b \in LatestCheckpoint(j, r) : a = b
<1>1. PICK s \in Seq(CheckpointRecords) : s = j.checkpoints
  <2>1. j.checkpoints \in Seq(CheckpointRecords)
    BY JournalSequences DEF CheckpointRecords
  <2> QED
    BY <2>1
<1>2. DOMAIN s = 1..Len(s) /\ Len(s) \in Nat /\ \A k \in DOMAIN s : s[k].sequence \in Nat
  <2>1. \A k \in DOMAIN s : s[k] \in CheckpointRecords
    OBVIOUS
  <2>2. \A x \in CheckpointRecords : x.sequence \in Nat
    BY DEF CheckpointRecords
  <2> QED
    BY <2>1, <2>2
<1>3. CheckpointsOf(j, r) = OfRun(s, r, Len(s))
  BY <1>1, <1>2 DEF CheckpointsOf, OfRun
<1>4. LatestCheckpoint(j, r) = {s[k] : k \in Newest(s, r, Len(s))}
  BY <1>1, <1>3 DEF LatestCheckpoint, Newest
<1> DEFINE f == CHOOSE g : Latests(g, s)
<1>5. Latests(f, s)
  BY LatestsExist, Zenon
<1>6. LatestByRun(j) = f[Len(s)]
  <2>1. LatestByRun(j) = (CHOOSE g : Latests(g, j.checkpoints))[Len(j.checkpoints)]
    BY Zenon DEF LatestByRun, Latests
  <2> QED
    BY <1>1, <2>1
<1> HIDE DEF f
<1>7. Keeps(f[Len(s)], s, Len(s))
  BY <1>5, LatestsKeep
<1>8. \A a, b \in LatestCheckpoint(j, r) : a = b
  <2> SUFFICES ASSUME NEW k \in Newest(s, r, Len(s)), NEW l \in Newest(s, r, Len(s))
               PROVE  k = l
    BY <1>4
  <2>1. k \in DOMAIN s /\ l \in DOMAIN s
    BY <1>2 DEF Newest, OfRun
  <2>2. /\ s[l].sequence < s[k].sequence \/ (s[l].sequence = s[k].sequence /\ l <= k)
        /\ s[k].sequence < s[l].sequence \/ (s[k].sequence = s[l].sequence /\ k <= l)
    BY DEF Newest
  <2> QED
    BY <1>2, <2>1, <2>2
<1>9. \A c \in LatestCheckpoint(j, r) :
        c.run = r /\ \E i \in DOMAIN j.checkpoints : j.checkpoints[i] = c
  BY <1>1, <1>2, <1>4 DEF Newest, OfRun
<1> QED
  BY <1>3, <1>4, <1>6, <1>7, <1>8, <1>9 DEF Keeps
\* The places of the runs' first checkpoints.
Firsts(j) ==
  {i \in DOMAIN j.checkpoints :
     \A k \in 1..(i - 1) : j.checkpoints[k].run # j.checkpoints[i].run}

\* The index names every run that has a checkpoint, and no other.
LEMMA RunsInOrderIs ==
  ASSUME NEW j \in Journals
  PROVE  /\ RunsInOrder(j) \in Seq(Runs)
         /\ \A n \in DOMAIN RunsInOrder(j) :
              \E i \in DOMAIN j.checkpoints : RunsInOrder(j)[n] = j.checkpoints[i].run
         /\ \A i \in DOMAIN j.checkpoints :
              \E n \in DOMAIN RunsInOrder(j) : RunsInOrder(j)[n] = j.checkpoints[i].run
<1>1. PICK cps \in Seq(CheckpointRecords) : cps = j.checkpoints
  <2>1. j.checkpoints \in Seq(CheckpointRecords)
    BY JournalSequences DEF CheckpointRecords
  <2> QED
    BY <2>1
<1>2. DOMAIN cps = 1..Len(cps) /\ Len(cps) \in Nat /\ \A i \in DOMAIN cps : cps[i].run \in Runs
  BY <1>1, ItemTypes
<1>3. PICK ids : ids = [i \in DOMAIN cps |-> i]
  OBVIOUS
<1>4. ids \in Seq(Nat) /\ {ids[i] : i \in DOMAIN ids} = DOMAIN cps
  <2>1. ids = [i \in 1..Len(cps) |-> i]
    BY <1>2, <1>3
  <2>2. ids \in Seq(Nat)
    BY <1>2, <2>1
  <2> QED
    BY <1>2, <1>3, <2>2
<1>5. PICK order : order = Filtered(ids, Firsts(j))
  OBVIOUS
<1>6. order \in Seq(Nat) /\ {order[n] : n \in DOMAIN order} = Firsts(j)
  <2>1. order \in Seq(Nat \cap Firsts(j))
    BY <1>4, <1>5, FilteredType
  <2>2. order \in Seq(Nat)
    BY <2>1
  <2>3. {order[n] : n \in DOMAIN order} = DOMAIN cps \cap Firsts(j)
    BY <1>4, <1>5, FilteredMembers
  <2> QED
    BY <1>1, <2>2, <2>3 DEF Firsts
<1>7. RunsInOrder(j) = [n \in DOMAIN order |-> cps[order[n]].run]
  BY <1>1, <1>3, <1>5 DEF RunsInOrder, Firsts
<1>8. DOMAIN order = 1..Len(order) /\ Len(order) \in Nat
  BY <1>6
<1>9. \A n \in DOMAIN order : order[n] \in DOMAIN cps
  BY <1>1, <1>6 DEF Firsts
<1>10. RunsInOrder(j) \in Seq(Runs) /\ DOMAIN RunsInOrder(j) = DOMAIN order
  <2>1. \A n \in DOMAIN order : cps[order[n]].run \in Runs
    BY <1>2, <1>9
  <2>2. RunsInOrder(j) \in [1..Len(order) -> Runs]
    BY <1>7, <1>8, <2>1
  <2>3. RunsInOrder(j) \in Seq(Runs)
    BY <1>8, <2>2
  <2> QED
    BY <1>7, <2>3
<1>11. ASSUME NEW i \in DOMAIN cps
       PROVE  \E n \in DOMAIN RunsInOrder(j) : RunsInOrder(j)[n] = cps[i].run
  <2> DEFINE T == {k \in DOMAIN cps : cps[k].run = cps[i].run}
  <2>1. T \in SUBSET Nat /\ T # {}
    BY <1>2
  <2>2. PICK m \in T : \A k \in T : m <= k
    BY <2>1, LeastNumber
  <2>3. m \in Firsts(j)
    <3>1. m \in DOMAIN cps /\ cps[m].run = cps[i].run
      OBVIOUS
    <3>2. ASSUME NEW k \in 1..(m - 1), cps[k].run = cps[m].run PROVE FALSE
      <4>1. k \in DOMAIN cps /\ k < m
        BY <1>2, <3>1
      <4>2. k \in T
        BY <3>1, <3>2, <4>1
      <4> QED
        BY <1>2, <2>2, <3>1, <4>1, <4>2
    <3> QED
      BY <1>1, <3>1, <3>2 DEF Firsts
  <2>4. PICK n \in DOMAIN order : order[n] = m
    BY <1>6, <2>3
  <2> QED
    BY <1>7, <2>2, <2>4
<1>12. \A n \in DOMAIN RunsInOrder(j) :
         \E i \in DOMAIN cps : RunsInOrder(j)[n] = cps[i].run
  BY <1>7, <1>9
<1> QED
  BY <1>1, <1>10, <1>11, <1>12

\* The runs an index takes.
Included(j, incl) == {r \in Runs : incl \/ ~RunOver(j, r)}

\* The candidates are the latest checkpoints of the included runs that have one.
LEMMA CandidatesAre ==
  ASSUME NEW j \in Journals, NEW incl \in BOOLEAN
  PROVE  /\ \A c \in ToSet(Candidates(j, incl)) :
              c.run \in Included(j, incl) /\ c \in LatestCheckpoint(j, c.run)
         /\ \A r \in Included(j, incl) : LatestCheckpoint(j, r) \subseteq ToSet(Candidates(j, incl))
         /\ Candidates(j, incl) # << >>
              => Last(Candidates(j, incl)) \in ToSet(Candidates(j, incl))
         /\ \A r \in Included(j, incl) :
              CheckpointsOf(j, r) # {} => Candidates(j, incl) # << >>
<1>1. PICK rs : rs = Filtered(RunsInOrder(j), Included(j, incl))
  OBVIOUS
<1>2. PICK cand : cand = Candidates(j, incl)
  OBVIOUS
<1>3. cand = [n \in DOMAIN rs |-> CHOOSE c \in LatestByRun(j)[rs[n]] : TRUE]
  BY <1>1, <1>2 DEF Candidates, Included
<1>4. rs \in Seq(Runs) /\ \A n \in DOMAIN rs : rs[n] \in Included(j, incl)
  <2>1. rs \in Seq(Runs \cap Included(j, incl))
    BY <1>1, RunsInOrderIs, FilteredType
  <2> QED
    BY <2>1
<1>5. {rs[n] : n \in DOMAIN rs}
        = {RunsInOrder(j)[n] : n \in DOMAIN RunsInOrder(j)} \cap Included(j, incl)
  BY <1>1, RunsInOrderIs, FilteredMembers
<1>6. \A n \in DOMAIN rs : \E i \in DOMAIN j.checkpoints : rs[n] = j.checkpoints[i].run
  <2> SUFFICES ASSUME NEW n \in DOMAIN rs
               PROVE  \E i \in DOMAIN j.checkpoints : rs[n] = j.checkpoints[i].run
    OBVIOUS
  <2>1. PICK m \in DOMAIN RunsInOrder(j) : rs[n] = RunsInOrder(j)[m]
    BY <1>5
  <2> QED
    BY <2>1, RunsInOrderIs
<1>7. \A i \in DOMAIN j.checkpoints :
        j.checkpoints[i].run \in Included(j, incl)
          => \E n \in DOMAIN rs : rs[n] = j.checkpoints[i].run
  <2> SUFFICES ASSUME NEW i \in DOMAIN j.checkpoints,
                      j.checkpoints[i].run \in Included(j, incl)
               PROVE  \E n \in DOMAIN rs : rs[n] = j.checkpoints[i].run
    OBVIOUS
  <2>1. PICK m \in DOMAIN RunsInOrder(j) : RunsInOrder(j)[m] = j.checkpoints[i].run
    BY RunsInOrderIs
  <2>2. j.checkpoints[i].run \in {RunsInOrder(j)[n] : n \in DOMAIN RunsInOrder(j)}
    BY <2>1
  <2> QED
    BY <1>5, <2>2
<1>8. ASSUME NEW n \in DOMAIN rs
      PROVE  /\ cand[n] \in LatestCheckpoint(j, rs[n])
             /\ cand[n].run = rs[n]
             /\ LatestCheckpoint(j, rs[n]) = {cand[n]}
  <2>1. rs[n] \in Runs
    BY <1>4
  <2>2. PICK L : L = LatestCheckpoint(j, rs[n])
    OBVIOUS
  <2>3. CheckpointsOf(j, rs[n]) # {}
    BY <1>6 DEF CheckpointsOf
  <2>4. LatestByRun(j)[rs[n]] = L /\ L # {} /\ (\A c \in L : c.run = rs[n]) /\ \A a, b \in L : a = b
    BY <2>1, <2>2, <2>3, LatestByRunIs
  <2>5. cand[n] = CHOOSE c \in L : TRUE
    BY <1>3, <2>4
  <2>6. cand[n] \in L
    BY <2>4, <2>5
  <2> QED
    BY <2>2, <2>4, <2>6
<1>9. DOMAIN cand = DOMAIN rs /\ DOMAIN rs = 1..Len(rs) /\ Len(rs) \in Nat
  BY <1>3, <1>4
<1>10. ToSet(cand) = {cand[n] : n \in DOMAIN rs}
  BY <1>9 DEF ToSet
<1>11. \A c \in ToSet(cand) : c.run \in Included(j, incl) /\ c \in LatestCheckpoint(j, c.run)
  BY <1>4, <1>8, <1>10
<1>12. ASSUME NEW r \in Included(j, incl), CheckpointsOf(j, r) # {}
       PROVE  \E n \in DOMAIN rs : rs[n] = r
  <2>1. PICK i \in DOMAIN j.checkpoints : j.checkpoints[i].run = r
    BY <1>12 DEF CheckpointsOf
  <2> QED
    BY <1>7, <2>1
<1>13. \A r \in Included(j, incl) : LatestCheckpoint(j, r) \subseteq ToSet(cand)
  <2> SUFFICES ASSUME NEW r \in Included(j, incl), NEW c \in LatestCheckpoint(j, r)
               PROVE  c \in ToSet(cand)
    OBVIOUS
  <2>1. CheckpointsOf(j, r) # {}
    BY DEF LatestCheckpoint
  <2>2. PICK n \in DOMAIN rs : rs[n] = r
    BY <1>12, <2>1
  <2> QED
    BY <1>8, <1>10, <2>2
<1>14. cand # << >> => Last(cand) \in ToSet(cand)
  <2> SUFFICES ASSUME cand # << >> PROVE Last(cand) \in ToSet(cand)
    OBVIOUS
  <2>1. cand \in Seq({cand[n] : n \in DOMAIN rs})
    <3>1. cand = [n \in 1..Len(rs) |-> cand[n]]
      BY <1>3, <1>9
    <3> QED
      BY <1>9, <3>1
  <2>2. Len(cand) \in DOMAIN cand /\ DOMAIN cand = DOMAIN rs
    BY <1>9, <2>1
  <2> QED
    BY <1>10, <2>2 DEF Last
<1>15. \A r \in Included(j, incl) : CheckpointsOf(j, r) # {} => cand # << >>
  BY <1>9, <1>12
<1> QED
  BY <1>2, <1>11, <1>13, <1>14, <1>15
\* No two checkpoints of a journal have one id.
UniqueIn(j) ==
  \A a, b \in DOMAIN j.checkpoints :
    j.checkpoints[a].id = j.checkpoints[b].id => a = b

LEMMA SameIds ==
  ASSUME NEW j, NEW k, k.checkpoints = j.checkpoints, UniqueIn(j)
  PROVE  UniqueIn(k)
  BY DEF UniqueIn

LEMMA ChangeUnique ==
  ASSUME NEW j, NEW k, Sound(j), Change(j, k), UniqueIn(j)
  PROVE  UniqueIn(k)
<1> j \in Journals
  BY DEF Sound
<1>1. CASE \E r \in Runs : k = WithRun(j, r)
  BY <1>1, WithRunFields, SameIds
<1>2. CASE \E r \in Runs, t \in Turns : k = WithTurn(j, r, t)
  <2> PICK r \in Runs, t \in Turns : k = WithTurn(j, r, t)
    BY <1>2
  <2>1. k.checkpoints = j.checkpoints
    BY WithTurnFields
  <2> QED
    BY <2>1, SameIds
<1>3. CASE \E t \in Turns : k = WithRecord(j, t)
  BY <1>3, WithRecordFields, SameIds
<1>4. CASE \E t \in Turns, c \in Checkpoints, s \in States :
             /\ \A i \in DOMAIN j.checkpoints : j.checkpoints[i].id # c
             /\ k = WithCheckpoint(j, t, c, s)
  <2> PICK t \in Turns, c \in Checkpoints, s \in States :
             /\ \A i \in DOMAIN j.checkpoints : j.checkpoints[i].id # c
             /\ k = WithCheckpoint(j, t, c, s)
    BY <1>4
  <2> DEFINE new == [id |-> c, run |-> j.runOf[t], turn |-> t,
                     sequence |-> NextSequence(j, j.runOf[t]), state |-> s]
  <2>1. k.checkpoints = Append(j.checkpoints, new)
    BY WithCheckpointFields
  <2>2. new.id = c
    OBVIOUS
  <2> HIDE DEF new
  <2>3. j.checkpoints \in Seq([id : Checkpoints, run : Runs, turn : Turns,
                               sequence : Nat \ {0}, state : States])
    BY JournalSequences
  <2>4. \A i \in DOMAIN k.checkpoints :
          \/ i = Len(j.checkpoints) + 1 /\ k.checkpoints[i] = new
          \/ i \in DOMAIN j.checkpoints /\ k.checkpoints[i] = j.checkpoints[i]
    BY <2>1, <2>3
  <2> QED
    BY <2>2, <2>4 DEF UniqueIn
<1>5. CASE \E r \in Runs, s \in TerminalRunStatuses : k = WithEnd(j, r, s)
  <2> PICK r \in Runs, s \in TerminalRunStatuses : k = WithEnd(j, r, s)
    BY <1>5
  <2>1. k.checkpoints = j.checkpoints
    BY WithEndFields
  <2> QED
    BY <2>1, SameIds
<1>6. CASE k = WithError(j)
  BY <1>6, WithErrorFields, SameIds
<1> QED
  BY <1>1, <1>2, <1>3, <1>4, <1>5, <1>6 DEF Change

\* A token resumes to the checkpoint it was made from.
LEMMA TokenResumes ==
  ASSUME NEW j \in Journals, UniqueIn(j), NEW i \in DOMAIN j.checkpoints
  PROVE  Resumed(j, Token(j.checkpoints[i])) = {j.checkpoints[i]}
<1> DEFINE c == j.checkpoints[i]
           token == Token(c)
           matches == {k \in DOMAIN j.checkpoints :
                         j.checkpoints[k].run = token.run /\ j.checkpoints[k].id = token.id}
<1>1. token.run = c.run /\ token.id = c.id /\ token.sequence = c.sequence
  BY DEF Token
<1> HIDE DEF token
<1>2. matches = {i}
  BY <1>1 DEF UniqueIn
<1>3. Resumed(j, token)
        = {j.checkpoints[n] : n \in {k \in matches :
             (\A l \in matches : k <= l) /\ j.checkpoints[k].sequence = token.sequence}}
  BY DEF Resumed
<1>4. i \in Nat
  BY JournalSequences
<1>5. \A k \in matches : k = i
  BY <1>2
<1> HIDE DEF matches
<1>6. {k \in matches : (\A l \in matches : k <= l) /\ j.checkpoints[k].sequence = token.sequence}
        = {i}
  BY <1>1, <1>2, <1>4, <1>5
<1> QED
  BY <1>3, <1>6 DEF token

\* Where a run of a good journal resumes.
LEMMA ResumePointOf ==
  ASSUME NEW j, Good(j), UniqueIn(j), NEW r \in Runs
  PROVE  /\ ForRun(j, TRUE, r) = LatestCheckpoint(j, r)
         /\ \A c \in ForRun(j, TRUE, r) : Resumed(j, Token(c)) = {c}
<1> j \in Journals
  BY DEF Good, Sound
<1>1. r \in Included(j, TRUE)
  BY DEF Included
<1>2. PICK found : found = ToSet(Candidates(j, TRUE))
  OBVIOUS
<1>3. /\ \A c \in found : c \in LatestCheckpoint(j, c.run)
      /\ LatestCheckpoint(j, r) \subseteq found
  BY <1>1, <1>2, CandidatesAre
<1>4. \A c \in LatestCheckpoint(j, r) :
        c.run = r /\ \E i \in DOMAIN j.checkpoints : j.checkpoints[i] = c
  BY LatestByRunIs
<1>5. ForRun(j, TRUE, r) = {c \in found : c.run = r}
  BY <1>2 DEF ForRun
<1>6. ForRun(j, TRUE, r) = LatestCheckpoint(j, r)
  BY <1>3, <1>4, <1>5
<1> QED
  BY <1>4, <1>6, TokenResumes

\* The run of a checkpoint is running unless it is over.
LEMMA CheckpointRunStatus ==
  ASSUME NEW j, Good(j), NEW i \in DOMAIN j.checkpoints,
         ~RunOver(j, j.checkpoints[i].run)
  PROVE  j.run[j.checkpoints[i].run] = "running"
<1> DEFINE r == j.checkpoints[i].run
           t == j.checkpoints[i].turn
<1>1. r \in Runs /\ t \in Turns /\ j \in Journals
  BY ItemTypes DEF Good, Sound
<1>2. j.turn[t] # "absent" /\ j.runOf[t] = r
  BY DEF Good, RefersIn, KnownTurn
<1> HIDE DEF r, t
<1>3. j.run[r] # "absent"
  BY <1>1, <1>2, JournalAssumption DEF Good, Sound, TurnsFollow
<1>4. j.run[r] \in RunStatuses
  BY <1>1 DEF Journals
<1> QED
  BY <1>3, <1>4 DEF RunStatuses, RunOver, r

\* A plan that refuses terminal runs selects an open run, and finds one if there is one.
LEMMA StrictPlanOf ==
  ASSUME NEW j, Good(j)
  PROVE  /\ \A incl \in BOOLEAN, r \in Runs \cup {None} :
              \A c \in Plan(j, incl, FALSE, r) : j.run[c.run] = "running"
         /\ (\E i \in DOMAIN j.checkpoints : ~RunOver(j, j.checkpoints[i].run))
              => Plan(j, FALSE, FALSE, None) # {}
<1> j \in Journals
  BY DEF Good, Sound
<1>1. ASSUME NEW incl \in BOOLEAN, NEW c \in ToSet(Candidates(j, incl)), ~RunOver(j, c.run)
      PROVE  j.run[c.run] = "running"
  <2>1. c.run \in Runs /\ c \in LatestCheckpoint(j, c.run)
    BY CandidatesAre DEF Included
  <2>2. PICK i \in DOMAIN j.checkpoints : j.checkpoints[i] = c
    BY <2>1, LatestByRunIs
  <2> QED
    BY <1>1, <2>2, CheckpointRunStatus
<1>2. ASSUME NEW incl \in BOOLEAN, NEW r \in Runs \cup {None}, NEW c \in Plan(j, incl, FALSE, r)
      PROVE  j.run[c.run] = "running"
  <2>1. c \in Asked(j, incl, r) /\ ~RunOver(j, c.run)
    BY DEF Plan, Ready
  <2>2. c \in ToSet(Candidates(j, incl))
    <3>1. CASE r = None
      BY <2>1, <3>1, CandidatesAre DEF Asked, LatestCandidate
    <3>2. CASE r # None
      BY <2>1, <3>2 DEF Asked, ForRun
    <3> QED
      BY <3>1, <3>2
  <2> QED
    BY <1>1, <2>1, <2>2
<1>3. ASSUME NEW i \in DOMAIN j.checkpoints, ~RunOver(j, j.checkpoints[i].run)
      PROVE  Plan(j, FALSE, FALSE, None) # {}
  <2>1. j.checkpoints[i].run \in Included(j, FALSE)
    BY <1>3, ItemTypes DEF Included
  <2>2. i \in CheckpointsOf(j, j.checkpoints[i].run)
    BY DEF CheckpointsOf
  <2>3. PICK cand : cand = Candidates(j, FALSE)
    OBVIOUS
  <2>4. cand # << >> /\ Last(cand) \in ToSet(cand) /\ Last(cand).run \in Included(j, FALSE)
    <3>1. cand # << >>
      BY <2>1, <2>2, <2>3, CandidatesAre
    <3> QED
      BY <2>3, <3>1, CandidatesAre
  <2>5. Last(cand) \in Asked(j, FALSE, None)
    BY <2>3, <2>4 DEF Asked, LatestCandidate
  <2>6. Ready(j, FALSE, Last(cand))
    BY <2>4 DEF Ready, Included
  <2> QED
    BY <2>5, <2>6 DEF Plan
<1> QED
  BY <1>2, <1>3

\* The invariant: the journal and the store hold good journals without two equal ids.
UInv == JInv /\ UniqueIn(journal) /\ UniqueIn(stored.book)

LEMMA StepUnique ==
  ASSUME UInv, [Next]_vars
  PROVE  UniqueIn(journal)' /\ UniqueIn(stored.book)'
<1>1. UniqueIn(EmptyJournal)
  BY DEF UniqueIn, EmptyJournal
<1>2. CASE UNCHANGED vars
  BY <1>2 DEF vars, UInv
<1>3. CASE Crash
  BY <1>1, <1>3 DEF Crash, UInv
<1>4. CASE Restart
  BY <1>4 DEF Restart, Loaded, UInv
<1>5. ASSUME NEW k, Change(journal, k),
             stored' \in {stored, Nothing, Broken, Whole(k)},
             journal' = k \/ journal' = EmptyJournal
      PROVE  UniqueIn(journal)' /\ UniqueIn(stored.book)'
  <2>1. UniqueIn(k)
    BY <1>5, ChangeUnique DEF UInv, JInv, Good
  <2>2. UniqueIn(journal)'
    BY <1>1, <1>5, <2>1
  <2>3. stored'.book \in {stored.book, EmptyJournal, k}
    BY <1>5 DEF Nothing, Broken, Whole
  <2> QED
    BY <1>1, <2>1, <2>2, <2>3 DEF UInv
<1> QED
  BY <1>2, <1>3, <1>4, <1>5, StepForms DEF UInv, JInv

LEMMA SpecUInv == Spec => []UInv
<1>1. Init => UInv
  <2>1. UniqueIn(EmptyJournal)
    BY DEF UniqueIn, EmptyJournal
  <2> QED
    BY <2>1, InitJInv DEF Init, UInv, Nothing
<1>2. UInv /\ [Next]_vars => UInv'
  BY StepJInv, StepUnique DEF UInv
<1> QED
  BY <1>1, <1>2, PTL DEF Spec

\* Whatever the store and whatever fails, the resume index selects the checkpoint that
\* latest_checkpoint returns and its token resumes to it, and a plan that refuses
\* terminal runs selects an open run whenever one has a checkpoint.
THEOREM ResumePointsHold == Spec => [](ResumePointIsLatest /\ StrictPlanIsOpen)
<1>1. UInv => ResumePointIsLatest
  BY ResumePointOf DEF UInv, JInv, ResumePointIsLatest
<1>2. UInv => StrictPlanIsOpen
  BY StrictPlanOf DEF UInv, JInv, StrictPlanIsOpen
<1> QED
  BY <1>1, <1>2, SpecUInv, PTL

\* With the SQLite store, moreover, a token of a checkpoint that was returned to its
\* caller resumes to that checkpoint for ever after, over failing saves and crashes.
THEOREM ResumesAreSound ==
  ASSUME Store = "sqlite"
  PROVE  Spec => []ResumeIsSound
<1>1. UInv /\ KeptSurvives => KeptTokenResumes
  <2> SUFFICES ASSUME UInv, KeptSurvives, up, NEW i \in DOMAIN kept.checkpoints
               PROVE  Resumed(journal, Token(kept.checkpoints[i])) = {kept.checkpoints[i]}
    BY DEF KeptTokenResumes
  <2>1. Prefix(kept.checkpoints, journal.checkpoints)
    BY DEF KeptSurvives, Shown, Holds
  <2>2. i \in DOMAIN journal.checkpoints /\ journal.checkpoints[i] = kept.checkpoints[i]
    <3>1. kept \in Journals /\ journal \in Journals
      BY DEF UInv, JInv, Good, Sound
    <3>2. /\ DOMAIN kept.checkpoints = 1..Len(kept.checkpoints)
          /\ Len(kept.checkpoints) \in Nat
          /\ DOMAIN journal.checkpoints = 1..Len(journal.checkpoints)
          /\ Len(journal.checkpoints) \in Nat
      BY <3>1, JournalSequences
    <3> QED
      BY <2>1, <3>2 DEF Prefix
  <2> QED
    BY <2>2, TokenResumes DEF UInv, JInv, Good, Sound
<1>2. Spec => [](ResumePointIsLatest /\ StrictPlanIsOpen)
  BY ResumePointsHold
<1>3. Spec => []KeptSurvives
  BY DurabilityHolds
<1>4. ResumePointIsLatest /\ StrictPlanIsOpen /\ KeptTokenResumes => ResumeIsSound
  BY DEF ResumeIsSound
<1> QED
  BY <1>1, <1>2, <1>3, <1>4, SpecUInv, PTL
=============================================================================
