---------------------------- MODULE EventStream ----------------------------
(***************************************************************************)
(* The event log of a session and the clients that page through it:        *)
(* EventStreamCursor, EventStreamBatch and EventStreamTail of              *)
(* src/agent_core/events.py, the numbering that each ReActExecutor gives   *)
(* its events, and the tags that runner.py puts on the events of a managed *)
(* run.                                                                    *)
(*                                                                         *)
(* The list, SQLite and Markdown logs keep events in the order they were   *)
(* emitted; a poll reads the log once per page, and no event is emitted    *)
(* between the pages of one poll.                                          *)
(***************************************************************************)
EXTENDS Naturals, Sequences, FiniteSets, SequencesExt, Lists

CONSTANTS
  StreamRuns,      \* run keys; each has an executor of its own
  Clients,
  Cursors,         \* what clients ask for: run, session (NoTag if any), limit, types
  SessionOfRun,    \* the session each run is started on
  MaxBatches,      \* EventStreamTail's max_batches
  StopAtTerminal,  \* its stop_at_terminal
  MaxLog           \* bound of the model: events

\* The run_key and the session_name that are not given.
NoTag == ""

StreamAssumption ==
  /\ NoTag \notin StreamRuns
  /\ MaxBatches \in Nat \ {0} /\ StopAtTerminal \in BOOLEAN
  /\ \A c \in Cursors : c.limit \in Nat \ {0}
ASSUME StreamAssumption

TerminalTypes == {"run_finished", "run_cancelled", "run_timeout"}
EventTypes == {"run_started", "tool_finished", "run_finished", "run_cancelled"}

VARIABLES
  emitted, \* the log: run, session, sequence, type
  client    \* per client: cursor, last sequence, the log positions it was given, terminal seen

streamVars == <<emitted, client>>

NoCursor == [run |-> NoTag, session |-> NoTag, limit |-> 1, types |-> {}]

StreamInit ==
  /\ emitted = << >>
  /\ client \in [Clients -> {[cursor |-> k, after |-> 0, given |-> << >>, over |-> FALSE]
                               : k \in Cursors}]

-----------------------------------------------------------------------------
(* Emission.                                                                *)

OfRun(r) == {i \in DOMAIN emitted : emitted[i].run = r}
RunEnded(r) == \E i \in OfRun(r) : emitted[i].type \in TerminalTypes

\* _next_event_sequence: every executor counts from one.
NextSequence(r) == Cardinality(OfRun(r)) + 1

\* What the sinks do with an event, and records gives back.
Logged(event) == Append(emitted, event)

\* _ManagedRunEventSink adds the run key and the session name.
Emit(r, type) ==
  /\ Len(emitted) < MaxLog /\ ~RunEnded(r)
  /\ (type = "run_started" <=> OfRun(r) = {})
  /\ emitted' = Logged([run |-> r, session |-> SessionOfRun[r], seq |-> NextSequence(r),
                        type |-> type])
  /\ UNCHANGED client

\* A host emits into the sink itself: the log numbers what has no number.
HostEmits ==
  /\ Len(emitted) < MaxLog
  /\ emitted' = Logged([run |-> NoTag, session |-> NoTag, seq |-> Len(emitted) + 1,
                        type |-> "tool_finished"])
  /\ UNCHANGED client

-----------------------------------------------------------------------------
(* Paging.                                                                  *)

\* _event_matches_cursor, and the type filter.
Matches(cursor, event) ==
  /\ cursor.run # NoTag => event.run = cursor.run
  /\ cursor.session # NoTag => event.session = cursor.session
  /\ cursor.types # {} => event.type \in cursor.types

Matching(cursor) == {i \in DOMAIN emitted : Matches(cursor, emitted[i])}

\* A page that starts with the event the last one ended with.
BeyondOrAt(i, after) == emitted[i].seq >= after
Beyond(i, after) == emitted[i].seq > after

\* In the order of the log.
InLog(positions) == Filtered([i \in DOMAIN emitted |-> i], positions)

\* In the order of their numbers; the sort is stable, and no number is above the log's length.
Ordered(positions) ==
  LET sorted[n \in 0..Len(emitted)] ==
        IF n = 0 THEN << >>
        ELSE sorted[n - 1] \o InLog({i \in positions : emitted[i].seq = n})
  IN sorted[Len(emitted)]

HasMore(selected, page, limit) == Len(selected) > Len(page)

\* EventStreamBatch.from_log
Batch(cursor, after) ==
  LET selected == Ordered({i \in Matching(cursor) : Beyond(i, after)})
      page == SubSeq(selected, 1, IF Len(selected) < cursor.limit THEN Len(selected) ELSE cursor.limit)
  IN [page |-> page,
      next |-> IF page = << >> THEN after ELSE emitted[Last(page)].seq,
      more |-> HasMore(selected, page, cursor.limit),
      terminal |-> \E n \in DOMAIN page : emitted[page[n]].type \in TerminalTypes]

\* A tail that gives up at the terminal event, whatever is still on the log.
Continues(batch) == batch.more /\ ~(StopAtTerminal /\ batch.terminal)

\* One batch more, unless the last one ended the tail.
Further(cursor, tail) ==
  LET batch == Batch(cursor, tail.next)
  IN IF ~tail.open THEN tail
     ELSE [given |-> tail.given \o batch.page, next |-> batch.next, open |-> Continues(batch),
           terminal |-> tail.terminal \/ batch.terminal]

\* EventStreamTail.from_log, and what its batches say together.
Tailed(cursor, after) ==
  LET tail[n \in 0..MaxBatches] ==
        IF n = 0 THEN [given |-> << >>, next |-> after, open |-> TRUE, terminal |-> FALSE]
        ELSE Further(cursor, tail[n - 1])
  IN tail[MaxBatches]

\* A client goes on from the tail's next cursor; it stops once it was told the run is over.
Poll(c) ==
  LET tail == Tailed(client[c].cursor, client[c].after) IN
  /\ ~client[c].over
  /\ client' = [client EXCEPT ![c] =
       [cursor |-> @.cursor, after |-> tail.next, given |-> @.given \o tail.given,
        over |-> tail.terminal]]
  /\ UNCHANGED emitted

StreamNext ==
  \/ \E r \in StreamRuns, type \in EventTypes : Emit(r, type)
  \/ HostEmits
  \/ \E c \in Clients : Poll(c)

StreamSpec == StreamInit /\ [][StreamNext]_streamVars

-----------------------------------------------------------------------------
(* Properties.                                                              *)

\* A client that follows one run, however its polls fall between the run's events, those
\* of other runs of the session and the host's, and wherever its pages end, was given
\* exactly the events of that run it asked for up to its cursor, once and in order; and
\* one that was told the run is over was given all of them.
RunStreamIsWhole ==
  \A c \in Clients :
    LET cursor == client[c].cursor
        wanted == Matching(cursor)
    IN cursor.run # NoTag =>
         /\ client[c].given = InLog({i \in wanted : emitted[i].seq <= client[c].after})
         /\ client[c].over => client[c].given = InLog(wanted)
=============================================================================
