---------------------------- MODULE MemoryCenter ----------------------------
(***************************************************************************)
(* Long-term memory, src/agent_core/memory.py: MemoryFlushBuffer with its  *)
(* triage, one per run, fed by after_turn of the turn refresher in         *)
(* runner.py; MemoryCenter with its write governance and its search over   *)
(* mounted stores; and the choice of recalled hits for the prompt.         *)
(*                                                                         *)
(* A text is a model value with a size in TextSize; what a flush joins is  *)
(* the sequence of its texts.  An item's score is what the one query of    *)
(* the model gives it, 0 for no match.                                     *)
(***************************************************************************)
EXTENDS Integers, Sequences, FiniteSets, FiniteSetsExt, Functions, Lists

CONSTANTS
  Refreshers,    \* turn refreshers, one for each run
  Hosts,         \* callers of MemoryCenter.write and search
  HostItems,     \* what hosts write
  MemoryTexts,   \* rendered timeline diffs
  TextSize,      \* [MemoryTexts -> Nat]
  StoreIds,      \* store objects
  StoreNames,    \* names of stores, in their order
  StoreMounts,   \* what is registered: a spec [name, priority, readable, writable, tags,
                 \* modes] and its store
  MemoryQueries, \* [names, tags, mode, limit, minimum]
  DefaultStore,  \* where an item goes that names no store: a store's name or NoStore
  Governed,      \* whether RuleBasedMemoryGovernance is set
  DenyAllLeaks, GlobalBuckets, MaxContent, \* its parameters
  FlushThreshold, TriageMinimum, TriageMaximum,
  MaxMemorySteps \* bound of the model: turns, writes and searches

NoStore == ""
NoBucket == ""
Host == "host"
Scopes == {"project", "user", "global"}
Modes == {"keyword", "semantic", "vector", "graph"}

\* MemoryWrite and MemoryRecord, as far as a decision looks at them.
ItemsBy(authors) ==
  [by : authors, content : Seq(MemoryTexts), turns : SUBSET Nat, cut : BOOLEAN, scope : Scopes,
   bucket : STRING \cup {NoBucket}, leaks : BOOLEAN, score : Nat, target : STRING \cup {NoStore}]

ASSUME MemoryAssumption ==
  /\ TextSize \in [MemoryTexts -> Nat]
  /\ HostItems \subseteq ItemsBy({Host}) /\ Host \notin Refreshers
  /\ Hosts \cap Refreshers = {}
  /\ StoreNames \in Seq(STRING)
  /\ \A mount \in StoreMounts :
       /\ mount.spec.name \in {StoreNames[i] : i \in DOMAIN StoreNames}
       /\ mount.spec.priority \in Int /\ mount.store \in StoreIds
  /\ \A query \in MemoryQueries : query.limit \in Nat /\ query.minimum \in Nat
  /\ {MaxContent, FlushThreshold, TriageMinimum, TriageMaximum} \subseteq Nat

Item(by, content, turns, cut, scope, bucket, leaks, score, target) ==
  [by |-> by, content |-> content, turns |-> turns, cut |-> cut, scope |-> scope,
   bucket |-> bucket, leaks |-> leaks, score |-> score, target |-> target]

VARIABLES
  mounts,      \* name -> [spec, store]
  records,     \* store -> the items written to it
  buffer,      \* run -> [signals, seen, turn, observed, last]
  task,        \* caller -> what it awaits
  decisions,   \* MemoryCenter._governance_decisions
  memorySteps  \* turns, writes and searches so far, for the bound

memoryVars == <<mounts, records, buffer, task, decisions, memorySteps>>

Callers == Refreshers \cup Hosts
Idle == [at |-> "idle"]
Raised == [at |-> "raised"]

MemoryInit ==
  /\ mounts = << >>
  /\ records = [s \in StoreIds |-> << >>]
  /\ buffer = [r \in Refreshers |-> [signals |-> << >>, seen |-> {}, turn |-> 0,
                                     observed |-> {}, last |-> "none"]]
  /\ task = [c \in Callers |-> Idle]
  /\ decisions = << >>
  /\ memorySteps = 0

CountMemoryStep == memorySteps < MaxMemorySteps /\ memorySteps' = memorySteps + 1

-----------------------------------------------------------------------------
(* Mounts.                                                                  *)

\* register and register_spec: a name is bound anew.
RegisterStore(mount) ==
  /\ mounts' = [name \in DOMAIN mounts \cup {mount.spec.name} |->
                  IF name = mount.spec.name THEN mount ELSE mounts[name]]
  /\ UNCHANGED <<records, buffer, task, decisions, memorySteps>>

\* _ordered_mounts: by falling priority, then by name.
NamePlace(name) == CHOOSE i \in DOMAIN StoreNames : StoreNames[i] = name
Before(a, b) ==
  \/ a.spec.priority > b.spec.priority
  \/ a.spec.priority = b.spec.priority /\ NamePlace(a.spec.name) < NamePlace(b.spec.name)
OrderedMounts ==
  InOrder(Range(mounts), {pair \in Range(mounts) \X Range(mounts) : Before(pair[1], pair[2])})

\* _select_write_mount, as a sequence of no or one mount.
WriteMount(name) ==
  IF name # NoStore
  THEN IF name \in DOMAIN mounts /\ mounts[name].spec.writable THEN <<mounts[name]>> ELSE << >>
  ELSE LET writable == Filtered(OrderedMounts, {m \in StoreMounts : m.spec.writable})
       IN IF writable = << >> THEN << >> ELSE <<Head(writable)>>

\* _store_supports_route
SupportsRoute(spec, query) ==
  /\ query.tags \subseteq spec.tags
  /\ IF query.mode = "hybrid" THEN spec.modes # {} ELSE query.mode \in spec.modes

\* _select_read_mounts
ReadMounts(query) ==
  Filtered(OrderedMounts, {m \in StoreMounts : /\ m.spec.readable
                                               /\ query.names # {} => m.spec.name \in query.names
                                               /\ SupportsRoute(m.spec, query)})
NamesMissing(query) == query.names # {} /\ Len(ReadMounts(query)) # Cardinality(query.names)

-----------------------------------------------------------------------------
(* Governance of writes.                                                    *)

Protected(item) == item.scope \in {"user", "global"}

\* A gate that lets any leak pass that is not in a global scope.
DeniedIfGlobal(item) ==
  \/ item.content = << >>
  \/ item.leaks /\ (item.scope = "global" \/ DenyAllLeaks)
  \/ item.scope = "global" /\ item.bucket = NoBucket

\* RuleBasedMemoryGovernance.authorize_write
Denied(item) ==
  \/ item.content = << >>
  \/ item.leaks /\ (Protected(item) \/ DenyAllLeaks)
  \/ /\ item.scope = "global"
     /\ \/ item.bucket = NoBucket
        \/ GlobalBuckets # {} /\ item.bucket \notin GlobalBuckets

SizeOf(content) == Summed([i \in DOMAIN content |-> TextSize[content[i]]])

\* The longest prefix of a content that fits.
CutTo(content, most) ==
  SubSeq(content, 1, Max({n \in 0 .. Len(content) : SizeOf(SubSeq(content, 1, n)) <= most}))

\* A gate whose rewriting is not taken over.
NotRewritten(item) == item

\* The item as the gate passes it on.
Rewritten(item) ==
  IF SizeOf(item.content) <= MaxContent THEN item
  ELSE [item EXCEPT !.content = CutTo(@, MaxContent), !.cut = TRUE]

\* MemoryCenter.write up to its first await.
BeginWrite(c, item) ==
  LET mount == WriteMount(IF item.target # NoStore THEN item.target ELSE DefaultStore)
      clean == [item EXCEPT !.target = NoStore]
  IN task' = [task EXCEPT ![c] =
       IF mount = << >> THEN Raised
       ELSE [at |-> IF Governed THEN "authorize" ELSE "store", item |-> clean,
             mount |-> Head(mount)]]

\* authorize_write answers.
Authorized(c) ==
  /\ task[c].at = "authorize"
  /\ LET item == task[c].item
         passed == Rewritten(item)
     IN /\ decisions' = Append(decisions,
             [allowed |-> ~Denied(item), item |-> IF Denied(item) THEN item ELSE passed,
              store |-> task[c].mount.spec.name])
        /\ task' = [task EXCEPT ![c] = IF Denied(item) THEN Raised
                                       ELSE [@ EXCEPT !.at = "store", !.item = passed]]
  /\ UNCHANGED <<mounts, records, buffer, memorySteps>>

\* The store of the mount that was chosen before the await has written the item.
Stored(c) ==
  /\ task[c].at = "store"
  /\ records' = [records EXCEPT ![task[c].mount.store] = Append(@, task[c].item)]
  /\ task' = [task EXCEPT ![c] = Idle]
  /\ UNCHANGED <<mounts, buffer, decisions, memorySteps>>

\* A port raises: the exception passes through the centre, and out of a run's after_turn.
PortRaises(c) ==
  /\ task[c].at \in {"triage", "authorize", "store", "search"}
  /\ task' = [task EXCEPT ![c] = Raised]
  /\ UNCHANGED <<mounts, records, buffer, decisions, memorySteps>>

HostWrites(h, item) ==
  /\ task[h].at \in {"idle", "raised", "found"}
  /\ CountMemoryStep
  /\ BeginWrite(h, item)
  /\ UNCHANGED <<mounts, records, buffer, decisions>>

-----------------------------------------------------------------------------
(* Search.                                                                  *)

\* _rank_memory_records: matches by score, older ones first among equals.
Better(held, i, j) ==
  held[i].score > held[j].score \/ (held[i].score = held[j].score /\ i < j)
Ranked(held) ==
  LET matches == {i \in DOMAIN held : held[i].score > 0}
  IN InOrder(matches, {pair \in matches \X matches : Better(held, pair[1], pair[2])})

\* What the centre makes of one store's answer: hits that reach the minimum.
HitsOf(mount, query) ==
  LET order == FirstOf(query.limit, Ranked(records[mount.store]))
      hits == [i \in DOMAIN order |->
                [score |-> records[mount.store][order[i]].score, store |-> mount.store,
                 priority |-> mount.spec.priority, index |-> i, record |-> order[i]]]
  IN Filtered(hits, {hit \in Range(hits) : hit.score >= query.minimum})

\* Answers merged in the order of the stores.
InStoreOrder(hits) == hits

\* The sort of search over all hits, stable.
HitBefore(a, b) ==
  \/ a.score > b.score
  \/ a.score = b.score /\ a.priority > b.priority
  \/ a.score = b.score /\ a.priority = b.priority /\ a.index < b.index
Ahead(hits, i, j) ==
  HitBefore(hits[i], hits[j]) \/ (~HitBefore(hits[j], hits[i]) /\ i < j)
Merged(hits) ==
  LET places == 1 .. Len(hits)
      order == InOrder(places, {pair \in places \X places : Ahead(hits, pair[1], pair[2])})
  IN [k \in DOMAIN order |-> hits[order[k]]]

\* Behind the last store's answer the hits are sorted and cut.
Finished(search) ==
  IF search.left # << >> THEN search
  ELSE [search EXCEPT !.at = "found", !.hits = FirstOf(search.query.limit, Merged(@))]

\* search up to its first await; "from" notes how much each store held by then.
HostSearches(h, query) ==
  /\ task[h].at \in {"idle", "raised", "found"}
  /\ CountMemoryStep
  /\ task' = [task EXCEPT ![h] =
       IF NamesMissing(query) THEN Raised
       ELSE Finished([at |-> "search", query |-> query, left |-> ReadMounts(query),
                      hits |-> << >>, plan |-> {m.store : m \in Range(ReadMounts(query))},
                      from |-> [s \in StoreIds |-> Len(records[s])]])]
  /\ UNCHANGED <<mounts, records, buffer, decisions>>

\* The next store answers.
SearchStep(h) ==
  /\ task[h].at = "search"
  /\ LET search == task[h]
     IN task' = [task EXCEPT ![h] =
          Finished([search EXCEPT !.hits = @ \o HitsOf(Head(search.left), search.query),
                                  !.left = Tail(@)])]
  /\ UNCHANGED <<mounts, records, buffer, decisions, memorySteps>>

-----------------------------------------------------------------------------
(* The flush buffer of a run.                                               *)

\* Statuses the loop sends with after_turn, of each kind that it tells apart.
TurnStatuses == {"tool_finished", "finished", "loop_stalled"}
DoneStatuses == {"finished", "loop_stalled"}

\* A buffer that takes nothing out.
KeepsSignals(b) == b

\* flush takes all signals and marks their content as seen before triage is asked.
Taken(b) ==
  [b EXCEPT !.signals = << >>,
            !.seen = @ \cup {[i \in DOMAIN b.signals |-> b.signals[i].text]}]

\* flush up to its await, of a buffer b.
Flush(r, b) ==
  LET content == [i \in DOMAIN b.signals |-> b.signals[i].text]
      turns == {b.signals[i].turn : i \in DOMAIN b.signals}
  IN IF b.signals = << >> \/ content \in b.seen
     THEN /\ buffer' = [buffer EXCEPT ![r] = [b EXCEPT !.signals = << >>]]
          /\ UNCHANGED task
     ELSE /\ buffer' = [buffer EXCEPT ![r] = Taken(b)]
          /\ task' = [task EXCEPT ![r] = [at |-> "triage", content |-> content, turns |-> turns]]

\* A buffer that is flushed for one of the two endings only.
MustFlushIfFinished(b, status) ==
  \/ status = "finished"
  \/ SizeOf([i \in DOMAIN b.signals |-> b.signals[i].text]) >= FlushThreshold

\* _should_flush: the age of the first signal may have reached the timeout or not.
MustFlush(b, status) ==
  \/ status \in DoneStatuses
  \/ SizeOf([i \in DOMAIN b.signals |-> b.signals[i].text]) >= FlushThreshold

\* after_turn with a diff that changed: the buffer observes it.
TurnChanged(r, text, status, aged) ==
  /\ task[r].at = "idle" /\ CountMemoryStep
  /\ buffer[r].last \notin DoneStatuses
  /\ LET b == [buffer[r] EXCEPT
                !.turn = @ + 1, !.last = status,
                !.observed = @ \cup {[text |-> text, turn |-> buffer[r].turn]},
                !.signals = Append(@, [text |-> text, turn |-> buffer[r].turn])]
     IN IF MustFlush(b, status) \/ aged THEN Flush(r, b)
        ELSE buffer' = [buffer EXCEPT ![r] = b] /\ UNCHANGED task
  /\ UNCHANGED <<mounts, records, decisions>>

\* after_turn without a change: an ending flushes what is left.
TurnUnchanged(r, status) ==
  /\ task[r].at = "idle" /\ CountMemoryStep
  /\ buffer[r].last \notin DoneStatuses
  /\ LET b == [buffer[r] EXCEPT !.turn = @ + 1, !.last = status]
     IN IF status \in DoneStatuses THEN Flush(r, b)
        ELSE buffer' = [buffer EXCEPT ![r] = b] /\ UNCHANGED task
  /\ UNCHANGED <<mounts, records, decisions>>

\* DeterministicMemoryTriage answers, and what passes is written.
Triaged(r) ==
  /\ task[r].at = "triage"
  /\ LET content == task[r].content
     IN IF SizeOf(content) < TriageMinimum
        THEN task' = [task EXCEPT ![r] = Idle]
        ELSE BeginWrite(r, Item(r, CutTo(content, TriageMaximum), task[r].turns,
                                SizeOf(content) > TriageMaximum, "project", NoBucket, FALSE, 1, NoStore))
  /\ UNCHANGED <<mounts, records, buffer, decisions, memorySteps>>

MemoryNext ==
  \/ \E mount \in StoreMounts : RegisterStore(mount)
  \/ \E c \in Callers : Authorized(c) \/ Stored(c) \/ PortRaises(c)
  \/ \E h \in Hosts, item \in HostItems : HostWrites(h, item)
  \/ \E h \in Hosts, query \in MemoryQueries : HostSearches(h, query)
  \/ \E h \in Hosts : SearchStep(h)
  \/ \E r \in Refreshers, text \in MemoryTexts, status \in TurnStatuses, aged \in BOOLEAN :
       TurnChanged(r, text, status, aged)
  \/ \E r \in Refreshers, status \in TurnStatuses : TurnUnchanged(r, status)
  \/ \E r \in Refreshers : Triaged(r)

MemorySpec == MemoryInit /\ [][MemoryNext]_memoryVars

-----------------------------------------------------------------------------
(* Properties.                                                              *)

Written == UNION {Range(records[s]) : s \in StoreIds}

\* Whatever is replaced while a write awaits its gate, a store holds only what the gate
\* passed, as it passed it: nothing longer than the limit, nothing that leaks in a scope
\* others share, no global item outside the buckets.
WrittenIsGoverned ==
  Governed => \A item \in Written :
    /\ \E i \in DOMAIN decisions : decisions[i].allowed /\ decisions[i].item = item
    /\ SizeOf(item.content) <= MaxContent
    /\ item.leaks => ~Protected(item)
    /\ item.scope = "global" => item.bucket # NoBucket

\* Each turn's diff is written at most once, and no run writes a content twice.
FlushedOnce ==
  \A s, t \in StoreIds : \A i \in DOMAIN records[s], j \in DOMAIN records[t] :
    LET a == records[s][i]
        b == records[t][j]
    IN (a.by \in Refreshers /\ b.by = a.by /\ <<s, i>> # <<t, j>>) =>
         /\ a.turns \cap b.turns = {}
         /\ (~a.cut /\ ~b.cut) => a.content # b.content

\* A run that is over with an answer or as stalled, and whose ports raised nothing, has
\* every text it observed in memory, but for texts too small or cut off.
NothingForgotten ==
  \A r \in Refreshers : (task[r].at = "idle" /\ buffer[r].last \in DoneStatuses) =>
    \A signal \in buffer[r].observed :
      TextSize[signal.text] >= TriageMinimum =>
        \E item \in Written : item.by = r /\ (signal.text \in Range(item.content) \/ item.cut)

\* A search returns the best: no match that its stores held when it began, and that
\* reaches the minimum, is missing while a worse one is returned or there is room.
SearchFindsBest ==
  \A h \in Hosts : task[h].at = "found" =>
    LET found == task[h].hits
        query == task[h].query
    IN \A s \in task[h].plan : \A i \in 1 .. task[h].from[s] :
         LET score == records[s][i].score
         IN \/ \E k \in DOMAIN found : found[k].store = s /\ found[k].record = i
            \/ score = 0 \/ score < query.minimum
            \/ /\ Len(found) = query.limit
               /\ \A k \in DOMAIN found : found[k].score >= score

\* What the memory centre owes its callers: the four properties above.
MemoryIsSound == WrittenIsGoverned /\ FlushedOnce /\ NothingForgotten /\ SearchFindsBest
=============================================================================
