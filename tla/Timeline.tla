------------------------------ MODULE Timeline ------------------------------
(***************************************************************************)
(* The working memory of a session: the facts of a TimelineStore, the      *)
(* readers that follow it by cursor, the blocks that a prompt renders, and *)
(* the reduction that runs before each model call.                         *)
(* src/agent_core/timeline.py, reducer.py (DefaultContextReducer), and     *)
(* _reduce_timeline_if_needed of runner.py.                                *)
(*                                                                         *)
(* A fact is named by its place; its text is its length in bytes.  Time    *)
(* counts in units of which Interval make one bucket of the prompt.  No    *)
(* operation suspends; a process may die between two, or inside a          *)
(* truncation, and the store be opened again.                              *)
(***************************************************************************)
EXTENDS Naturals, Sequences, FiniteSets, SequencesExt, FiniteSetsExt, Lists

CONSTANTS
  FirstFacts,    \* what a store is made with: sequences of facts, the only ones ever pinned
  Lengths, Times, \* of the facts that are added
  Interval,      \* units of time in a bucket: TimelineBudget.interval_minutes
  BlockBytes,    \* prompt_block_bytes, and below it the parts of a block
  HeaderBytes, EntryBytes,
  MaxBytes,      \* max_bytes: a longer timeline is reduced
  KeepBytes,     \* max_bytes * recent_keep_ratio
  Readers,       \* runs that follow the timeline
  MaxFacts, MaxReductions  \* bounds of the model

TimelineAssumption ==
  /\ Interval \in Nat \ {0} /\ KeepBytes \in Nat \ {0} /\ KeepBytes <= MaxBytes
  /\ Lengths \subseteq Nat /\ Times \subseteq Nat
  /\ FirstFacts \subseteq
       Seq([bytes : Nat, time : Nat, pinned : BOOLEAN, deleted : BOOLEAN])
ASSUME TimelineAssumption

VARIABLES
  backing,   \* "memory", "sqlite" or "markdown"
  facts,     \* _items: bytes, time, pinned, deleted
  digest,    \* compressed_head: the facts it has a line of, in order
  archived,  \* archive_refs: the facts they name, in order
  disk,      \* what opening the store again finds: facts, digest, archived
  reader     \* per run: its cursor, what it was given, whether its place was kept

timelineVars == <<backing, facts, digest, archived, disk, reader>>

Unread == [cursor |-> 0, since |-> 0, given |-> << >>, kept |-> TRUE]

TimelineInit ==
  /\ backing \in {"memory", "sqlite", "markdown"}
  /\ facts \in FirstFacts
  /\ digest = << >> /\ archived = << >>
  /\ disk = [facts |-> facts, digest |-> << >>, archived |-> << >>]
  /\ reader = [r \in Readers |-> Unread]

-----------------------------------------------------------------------------
(* Facts.                                                                   *)

ActiveOf(fs) == {i \in DOMAIN fs : ~fs[i].deleted}
ActiveFacts == ActiveOf(facts)
Bytes(fs, places) ==
  LET upto[n \in 0..Len(fs)] ==
        IF n = 0 THEN 0 ELSE upto[n - 1] + IF n \in places THEN fs[n].bytes ELSE 0
  IN upto[Len(fs)]
InPlace(places) == Filtered([i \in DOMAIN facts |-> i], places)
TotalBytes == Bytes(facts, ActiveFacts)

\* SQLite keeps a row per fact and its state apart; a Markdown file is written whole.
Kept(fs) ==
  CASE backing = "memory" -> disk
    [] backing = "sqlite" -> [disk EXCEPT !.facts = fs]
    [] backing = "markdown" -> [facts |-> fs, digest |-> digest, archived |-> archived]

\* add
Add(bytes, time) ==
  /\ Len(facts) < MaxFacts
  /\ facts' = Append(facts, [bytes |-> bytes, time |-> time, pinned |-> FALSE, deleted |-> FALSE])
  /\ disk' = Kept(facts')
  /\ UNCHANGED <<backing, digest, archived, reader>>

\* A fact is marked, never dropped: places stay what they are.
Deleted(fs, places) ==
  [i \in DOMAIN fs |-> [fs[i] EXCEPT !.deleted = @ \/ i \in places]]
After(i) == {j \in ActiveFacts : j > i}

\* soft_delete
SoftDelete(i) ==
  /\ i \in DOMAIN facts
  /\ facts' = Deleted(facts, {i})
  /\ disk' = Kept(facts')
  /\ UNCHANGED <<backing, digest, archived, reader>>

\* truncate_after
TruncateAfter(i) ==
  /\ i \in DOMAIN facts /\ After(i) # {}
  /\ facts' = Deleted(facts, After(i))
  /\ disk' = Kept(facts')
  /\ UNCHANGED <<backing, digest, archived, reader>>

\* save_state, save: a host keeps the state.
SaveState ==
  /\ backing # "memory"
  /\ disk' = [facts |-> facts, digest |-> digest, archived |-> archived]
  /\ UNCHANGED <<backing, facts, digest, archived, reader>>

\* The process is over, and the next one opens the store; runs begin anew.
Opened(stored) ==
  /\ backing # "memory"
  /\ facts' = stored.facts /\ digest' = stored.digest /\ archived' = stored.archived
  /\ disk' = stored
  /\ reader' = [r \in Readers |-> [Unread EXCEPT !.since = Len(stored.facts),
                                   !.cursor = Max(ActiveOf(stored.facts) \cup {0})]]
  /\ UNCHANGED backing

Reopen == Opened(disk)
\* truncate_after marks and keeps one fact after the other.
DieInTruncation(i) ==
  /\ i \in DOMAIN facts
  /\ \E done \in {{j \in After(i) : j < k} : k \in After(i)} :
       Opened(Kept(Deleted(facts, done)))

-----------------------------------------------------------------------------
(* Cursors.                                                                 *)

\* The newest fact that is not deleted, as cursor() has it.
NextCursor == Max(ActiveFacts \cup {0})

\* A diff whose cursor is among the facts it gives.
DiffFrom(cursor) == {j \in ActiveFacts : cursor \in ActiveFacts => j >= cursor}
\* diff_since: the active facts after the cursor's, all of them if that is gone.
DiffSince(cursor) == {j \in ActiveFacts : cursor \in ActiveFacts => j > cursor}

Read(r) ==
  /\ reader' = [reader EXCEPT
                  ![r].cursor = NextCursor,
                  ![r].given = @ \o InPlace(DiffSince(reader[r].cursor)),
                  ![r].kept = @ /\ reader[r].cursor \in ActiveFacts \cup {0}]
  /\ DiffSince(reader[r].cursor) # {} \/ NextCursor # reader[r].cursor
  /\ Len(reader[r].given) < MaxFacts + 1
  /\ UNCHANGED <<backing, facts, digest, archived, disk>>

-----------------------------------------------------------------------------
(* Reduction.                                                               *)

\* The last of the places, and those before it while they fit: one always fits.
Recent(places, free) ==
  {j \in places : \A k \in places : k >= j =>
     \/ k \in free \/ k = Max(places)
     \/ Bytes(facts, {m \in places : m >= k}) <= KeepBytes}

Pinned == {i \in ActiveFacts : facts[i].pinned}

\* DefaultContextReducer.reduce keeps the pinned facts and the last of the others.
Retained == Pinned \cup Recent(ActiveFacts \ Pinned, {})
Compressed == InPlace(ActiveFacts \ Retained)

\* add_archive_ref names a fact once.
Referred(refs, places) == refs \o Filtered(places, ToSet(places) \ ToSet(refs))

\* _reduce_timeline_if_needed and apply_reduction_to_timeline: the facts stay, the digest
\* gets a line for each that is not retained and has a text.
ReduceTimeline ==
  /\ TotalBytes > MaxBytes
  /\ Len(digest) < MaxReductions
  /\ digest' = digest \o Filtered(Compressed, {i \in DOMAIN facts : facts[i].bytes > 0})
  /\ archived' = Referred(archived, Compressed)
  /\ UNCHANGED <<backing, facts, disk, reader>>

-----------------------------------------------------------------------------
(* The view of a prompt.                                                    *)

BucketOf(i) == facts[i].time \div Interval

\* By time, then by place.
EarlierThan(i, j) == facts[i].time < facts[j].time \/ (facts[i].time = facts[j].time /\ i < j)
Bucket(i) == {j \in ActiveFacts : BucketOf(j) = BucketOf(i)}

EntriesOf(places) == Bytes(facts, places) + EntryBytes * Cardinality(places)

\* What stands before i in its bucket since the last start, and i.
Upto(starts, i) ==
  {j \in Bucket(i) : (j = i \/ EarlierThan(j, i)) /\ \A k \in starts : EarlierThan(j, k) => ~EarlierThan(k, i)}

\* A fact begins a block if it is the first of its bucket, or does not fit any more.
Begins(starts, i) ==
  LET upto == Upto(starts, i) IN
  \/ \A j \in Bucket(i) : ~EarlierThan(j, i)
  \/ Cardinality(upto) > 1
     /\ HeaderBytes + EntriesOf(upto) + Cardinality(upto) - 1 > BlockBytes

\* _interval_prompt_blocks and _split_bucket_by_bytes: the one set of facts that begin a
\* block.
Splits == {starts \in SUBSET ActiveFacts : \A i \in ActiveFacts : i \in starts <=> Begins(starts, i)}

BlockOf(starts, s) ==
  {j \in Bucket(s) : (j = s \/ EarlierThan(s, j)) /\ \A k \in starts : EarlierThan(s, k) => EarlierThan(j, k)}

\* A nonce that tells how many blocks its bucket has.
NonceOfTotal(starts, s) ==
  LET same == starts \cap Bucket(s)
  IN <<BucketOf(s), Cardinality({k \in same : EarlierThan(k, s)}), Cardinality(same)>>
\* _interval_nonce: the bucket, and the number of the block if it is not the only one.
Nonce(starts, s) ==
  LET same == starts \cap Bucket(s)
  IN <<BucketOf(s), Cardinality({k \in same : EarlierThan(k, s)}), Cardinality(same) > 1>>

\* The last block is open, the others are frozen.
IsOpen(starts, s) == \A k \in starts : ~EarlierThan(s, k)
FrozenBlocks ==
  UNION {{[nonce |-> Nonce(starts, s), of |-> BlockOf(starts, s)]
            : s \in {k \in starts : ~IsOpen(starts, k)}} : starts \in Splits}
InOpen ==
  UNION {UNION {BlockOf(starts, s) : s \in {k \in starts : IsOpen(starts, k)}} : starts \in Splits}

\* TimelineView.frozen_items: over the limit, what is not among the last.
FrozenFacts == IF TotalBytes <= MaxBytes THEN {} ELSE ActiveFacts \ Recent(ActiveFacts, Pinned)

\* render_frozen: the blocks, behind the digest; without any, the frozen items.
InFrozen ==
  LET frozen == FrozenBlocks
  IN  IF digest # << >> \/ frozen # {} THEN UNION {block.of : block \in frozen} ELSE FrozenFacts

\* What is in both is rendered twice; a line of the digest counts as one byte.
ViewBytes == EntriesOf(InFrozen) + EntriesOf(InOpen) + Len(digest)

TimelineNext ==
  \/ \E bytes \in Lengths, time \in Times : Add(bytes, time)
  \/ \E i \in DOMAIN facts : SoftDelete(i)
  \/ \E i \in DOMAIN facts : TruncateAfter(i)
  \/ SaveState
  \/ Reopen
  \/ \E i \in DOMAIN facts : DieInTruncation(i)
  \/ \E r \in Readers : Read(r)
  \/ ReduceTimeline

TimelineSpec == TimelineInit /\ [][TimelineNext]_timelineVars

-----------------------------------------------------------------------------
(* Properties.                                                              *)

\* A run that follows the timeline by its cursor is given every fact added meanwhile, and
\* no fact twice, as long as the fact its cursor names is not deleted; reductions, deletions
\* and truncations elsewhere change nothing of it.
EachFactOnce ==
  \A r \in Readers : reader[r].kept =>
    /\ \A m, n \in DOMAIN reader[r].given : m < n => reader[r].given[m] < reader[r].given[n]
    /\ {j \in ActiveFacts : reader[r].since < j /\ j <= reader[r].cursor} \subseteq ToSet(reader[r].given)

\* Every fact that is not deleted stands in the prompt, in a frozen block or the open one,
\* reduced or not; a deleted fact does not; and what a durable store has opened again, and
\* would find, is what its callers were told.
FactsAreShown ==
  /\ InFrozen \cup InOpen = ActiveFacts
  /\ backing # "memory" => disk.facts = facts /\ IsPrefix(disk.digest, digest)

\* A fact that is later than all others leaves the frozen blocks of a prompt as they are:
\* the prefix that providers cache only grows.
FrozenIsStable ==
  (Len(facts') > Len(facts) /\ \A i \in ActiveFacts : facts[i].time <= Last(facts').time)
    => FrozenBlocks \subseteq FrozenBlocks'

\* README.md:725-726: "the turn refresher reduces over-budget prompt views before each model
\* call."  The prompt renders all facts whether reduced or not, and each reduction adds the
\* digest of the same facts once more.
ReductionReduces == [][ReduceTimeline => ViewBytes' <= ViewBytes]_timelineVars

\* A reader gets every fact, the model sees it, and what a provider has cached stays as it
\* is: after each step the first two above hold, and the step is the third.
FactsReachTheirReaders == [][EachFactOnce' /\ FactsAreShown' /\ FrozenIsStable]_timelineVars
=============================================================================
