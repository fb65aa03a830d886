-------------------------- MODULE ContextMaterials --------------------------
(***************************************************************************)
(* Context for a turn: the search of ContextMaterialCenter over its stores *)
(* and the choice of DefaultContextMaterialSelector, src/agent_core/       *)
(* context.py, as _context_material_selection of runner.py runs them.      *)
(*                                                                         *)
(* A material's score is what the one task of the model gives it, with its *)
(* priority in it; 0 is no match.  Bytes are coarse units.                 *)
(***************************************************************************)
EXTENDS Integers, Sequences, FiniteSets, Functions, Lists

CONSTANTS
  CtxStores,     \* store objects
  CtxNames,      \* names of stores and of materials, in their order
  CtxMounts,     \* what is registered: [name, priority, readable, writable, namespace, tags,
                 \* vector, store]
  CtxQueries,    \* [names, namespace, tags, vector, limit]
  CtxMaterials,  \* what is written
  GivenMaterials, \* sequences of materials that come with a request
  DefaultMount,  \* default_store, or NoMount
  SelectLimits,  \* of ContextMaterialSelectionRequest: [count, bytes, targets, score]
  MaxCtxSteps    \* bound of the model: writes and turns

NoMount == ""
NoNamespace == ""

\* ContextMaterial; size 0 is empty.
Materials ==
  [name : Range(CtxNames), score : Nat, size : Nat, target : STRING, priority : Int]

ASSUME ContextAssumption ==
  /\ CtxNames \in Seq(STRING)
  /\ \A mount \in CtxMounts :
       mount.name \in Range(CtxNames) /\ mount.priority \in Int /\ mount.store \in CtxStores
  /\ \A query \in CtxQueries : query.limit \in Nat
  /\ CtxMaterials \subseteq Materials /\ GivenMaterials \subseteq Seq(Materials)
  /\ \A limits \in SelectLimits : limits.count \in Nat /\ limits.bytes \in Nat

VARIABLES
  ctxMounts,   \* name -> mount
  ctxHeld,     \* store -> its materials, in the order they were written
  ctxTurn,     \* the turn that assembles its context
  ctxCalls,    \* outcomes of the centre's calls, as its records count them
  ctxSteps     \* for the bound

contextVars == <<ctxMounts, ctxHeld, ctxTurn, ctxCalls, ctxSteps>>

NoTurn == [at |-> "idle"]

ContextInit ==
  /\ ctxMounts = << >>
  /\ ctxHeld = [s \in CtxStores |-> << >>]
  /\ ctxTurn = NoTurn
  /\ ctxCalls = [completed |-> 0, failed |-> 0, written |-> 0]
  /\ ctxSteps = 0

CountCtxStep == ctxSteps < MaxCtxSteps /\ ctxSteps' = ctxSteps + 1

\* register and register_spec
RegisterMount(mount) ==
  /\ ctxMounts' = [name \in DOMAIN ctxMounts \cup {mount.name} |->
                     IF name = mount.name THEN mount ELSE ctxMounts[name]]
  /\ UNCHANGED <<ctxHeld, ctxTurn, ctxCalls, ctxSteps>>

\* A name's place in the order of names.
NameAt(name) == CHOOSE i \in DOMAIN CtxNames : CtxNames[i] = name

\* _ordered_mounts: by falling priority, then by name.
MountKeys == [mount \in Range(ctxMounts) |-> <<-mount.priority, NameAt(mount.name)>>]
CtxOrdered == SortedBy(Range(ctxMounts), MountKeys)

\* _select_read_mounts
CtxReadable(query) ==
  Filtered(CtxOrdered, {m \in CtxMounts :
    /\ query.names # {} => m.name \in query.names
    /\ m.readable
    /\ query.namespace = NoNamespace \/ m.namespace = NoNamespace \/ query.namespace = m.namespace
    /\ query.tags \subseteq m.tags
    /\ query.vector => m.vector})

\* _select_write_mount, as a sequence of no or one mount.
CtxWriteMount(name) ==
  IF name # NoMount THEN IF name \in DOMAIN ctxMounts /\ ctxMounts[name].writable
                         THEN <<ctxMounts[name]>> ELSE << >>
  ELSE FirstOf(1, Filtered(CtxOrdered, {m \in CtxMounts : m.writable}))

\* ContextMaterialCenter.write; where no mount takes it, or its store raises, nothing is
\* written and nothing recorded.
WriteMaterial(material) ==
  /\ CountCtxStep
  /\ LET mount == CtxWriteMount(DefaultMount)
     IN /\ mount # << >>
        /\ ctxHeld' = [ctxHeld EXCEPT ![Head(mount).store] = Append(@, material)]
        /\ ctxCalls' = [ctxCalls EXCEPT !.written = @ + 1]
  /\ UNCHANGED <<ctxMounts, ctxTurn>>

\* The search of a store: its matches by score, then by name; equal ones as they were written.
FindKeys(held) == [i \in DOMAIN held |-> <<-held[i].score, NameAt(held[i].name), i>>]
StoreFinds(held, limit) ==
  FirstOf(limit, SortedBy({i \in DOMAIN held : held[i].score > 0}, FindKeys(held)))

\* One store's answer, with the mount's priority added to each score.
AnswerOf(mount, limit) ==
  LET held == ctxHeld[mount.store]
      order == StoreFinds(held, limit)
  IN [k \in DOMAIN order |->
       [rank |-> held[order[k]].score + mount.priority, index |-> k, store |-> mount.store,
        held |-> order[k], material |-> held[order[k]]]]

\* A search that gives up with the first store that fails.
SearchAborted(turn) == [turn EXCEPT !.left = << >>, !.failed = @ \cup {Head(turn.left)}]

\* A store that fails is passed over.
SearchGoesOn(turn) == [turn EXCEPT !.left = Tail(@), !.failed = @ \cup {Head(turn.left)}]

\* The merged answers by rank, index and name, cut to the limit.
MergeKeys(answers) ==
  [k \in DOMAIN answers |->
     <<-answers[k].rank, answers[k].index, NameAt(answers[k].material.name), k>>]
CtxFound(turn) ==
  LET order == SortedBy(DOMAIN turn.answers, MergeKeys(turn.answers))
  IN FirstOf(turn.query.limit, [k \in DOMAIN order |-> turn.answers[order[k]]])

Answered(turn) ==
  IF turn.left # << >> THEN turn
  ELSE [turn EXCEPT !.at = "found", !.answers = CtxFound(turn)]

\* A turn begins: plan_search picks the stores.
TurnSearches(query, given) ==
  /\ ctxTurn.at \in {"idle", "selected"} /\ CountCtxStep
  /\ LET plan == CtxReadable(query)
     IN ctxTurn' = Answered([at |-> "search", query |-> query, given |-> given,
                             left |-> [i \in DOMAIN plan |-> plan[i].name],
                             plan |-> {m.name : m \in Range(plan)}, failed |-> {},
                             answers |-> << >>, asked |-> << >>,
                             from |-> [s \in CtxStores |-> Len(ctxHeld[s])]])
  /\ UNCHANGED <<ctxMounts, ctxHeld, ctxCalls>>

\* The next store answers: the name's mount of now, which need not be that of the plan.
StoreAnswers ==
  /\ ctxTurn.at = "search"
  /\ LET mount == ctxMounts[Head(ctxTurn.left)]
     IN ctxTurn' = Answered([ctxTurn EXCEPT
          !.answers = @ \o AnswerOf(mount, ctxTurn.query.limit),
          !.asked = Append(@, mount), !.left = Tail(@)])
  /\ ctxCalls' = [ctxCalls EXCEPT !.completed = @ + 1]
  /\ UNCHANGED <<ctxMounts, ctxHeld, ctxSteps>>

\* The next store raises: that is recorded, and the search goes on.
StoreFails ==
  /\ ctxTurn.at = "search"
  /\ ctxTurn' = Answered(SearchGoesOn(ctxTurn))
  /\ ctxCalls' = [ctxCalls EXCEPT !.failed = @ + 1]
  /\ UNCHANGED <<ctxMounts, ctxHeld, ctxSteps>>

-----------------------------------------------------------------------------
(* Selection.                                                               *)

\* What select leaves out at once.
Immediate(material, limits) ==
  \/ material.size = 0
  \/ limits.targets # {} /\ material.target \notin limits.targets
  \/ material.score < limits.score

\* Candidates in the order of the sort: score, priority, then the earlier one.
CandidateKeys(materials) ==
  [i \in DOMAIN materials |-> <<-materials[i].score, -materials[i].priority, i>>]
CandidateOrder(materials, limits) ==
  SortedBy({i \in DOMAIN materials : ~Immediate(materials[i], limits)}, CandidateKeys(materials))

BytesOf(materials, chosen) ==
  Summed([i \in DOMAIN materials |-> IF i \in chosen THEN materials[i].size ELSE 0])

\* The two limits of the loop over the candidates.
FitsIn(materials, limits, chosen, i) ==
  /\ Cardinality(chosen) < limits.count
  /\ BytesOf(materials, chosen) + materials[i].size <= limits.bytes

\* A round of that loop, which goes on behind a candidate that does not fit.
ChosenWith(materials, limits, chosen, i) ==
  IF FitsIn(materials, limits, chosen, i) THEN chosen \cup {i} ELSE chosen

\* DefaultContextMaterialSelector.select: the places of what is selected.
SelectedOf(materials, limits) ==
  LET order == CandidateOrder(materials, limits)
      chosen[n \in 0..Len(order)] ==
        IF n = 0 THEN {} ELSE ChosenWith(materials, limits, chosen[n - 1], order[n])
  IN chosen[Len(order)]

\* The materials of the request, then those of the stores.
SelectContext(limits) ==
  /\ ctxTurn.at = "found"
  /\ LET materials == ctxTurn.given \o [k \in DOMAIN ctxTurn.answers |-> ctxTurn.answers[k].material]
     IN ctxTurn' = [at |-> "selected", materials |-> materials, limits |-> limits,
                    chosen |-> SelectedOf(materials, limits)]
  /\ UNCHANGED <<ctxMounts, ctxHeld, ctxCalls, ctxSteps>>

ContextNext ==
  \/ \E mount \in CtxMounts : RegisterMount(mount)
  \/ \E material \in CtxMaterials : WriteMaterial(material)
  \/ \E query \in CtxQueries, given \in GivenMaterials : TurnSearches(query, given)
  \/ StoreAnswers
  \/ StoreFails
  \/ \E limits \in SelectLimits : SelectContext(limits)

ContextSpec == ContextInit /\ [][ContextNext]_contextVars

-----------------------------------------------------------------------------
(* Properties.                                                              *)

\* A store that fails, or is registered anew during the search, hides no other store's
\* materials: a match that an asked store held when the search began is found, unless the
\* search is full with matches that rank no lower.
FailureIsContained ==
  ctxTurn.at = "found" =>
    /\ ctxTurn.plan = ctxTurn.failed \cup {m.name : m \in Range(ctxTurn.asked)}
    /\ \A k \in DOMAIN ctxTurn.asked :
         LET mount == ctxTurn.asked[k]
         IN \A i \in 1 .. ctxTurn.from[mount.store] :
              LET rank == ctxHeld[mount.store][i].score + mount.priority
              IN \/ ctxHeld[mount.store][i].score = 0
                 \/ \E n \in DOMAIN ctxTurn.answers : /\ ctxTurn.answers[n].store = mount.store
                                                      /\ ctxTurn.answers[n].held = i
                 \/ /\ Len(ctxTurn.answers) = ctxTurn.query.limit
                    /\ \A n \in DOMAIN ctxTurn.answers : ctxTurn.answers[n].rank >= rank

\* What is selected keeps to both limits, and a candidate is left out only because a limit
\* is exhausted by what ranks higher: a smaller one behind one that is too large gets in.
LeftOutIsUnfit ==
  ctxTurn.at = "selected" =>
    LET materials == ctxTurn.materials
        limits == ctxTurn.limits
        order == CandidateOrder(materials, limits)
        place(i) == CHOOSE p \in DOMAIN order : order[p] = i
        above(i) == {j \in ctxTurn.chosen : place(j) < place(i)}
    IN /\ Cardinality(ctxTurn.chosen) <= limits.count
       /\ BytesOf(materials, ctxTurn.chosen) <= limits.bytes
       /\ \A i \in Range(order) \ ctxTurn.chosen :
            \/ Cardinality(above(i)) = limits.count
            \/ BytesOf(materials, above(i)) + materials[i].size > limits.bytes

\* The materials of a turn are the best that fit, whatever store failed: the two properties
\* above.
ContextIsFit == FailureIsContained /\ LeftOutIsUnfit
=============================================================================
