------------------------------ MODULE MCTurns ------------------------------
(***************************************************************************)
(* What surrounds a model call, for TLC: long-term memory, the recalled    *)
(* memories that are injected, the refresh of a turn, its context, its     *)
(* prompt, and the timeline.  Each is a machine of its own; "focus" is the one a behaviour   *)
(* explores, and the others stay in their initial states.                  *)
(***************************************************************************)
EXTENDS MemoryCenter, MemoryInjection, TurnRefresh, ContextMaterials, PromptBudget, Timeline,
        TLC

VARIABLE focus

-----------------------------------------------------------------------------
(* Memory.                                                                  *)

HostItem(content, scope, leaks, score, target) ==
  Item("host", content, {}, FALSE, scope, "", leaks, score, target)
MCHostItems ==
  {HostItem(<<"b">>, "project", TRUE, 2, NoStore),
   HostItem(<<"b", "b">>, "user", FALSE, 3, "a"),
   HostItem(<<"s">>, "user", TRUE, 3, NoStore),
   HostItem(<< >>, "project", FALSE, 0, NoStore),
   HostItem(<<"s">>, "global", FALSE, 1, "a")}

StoreSpec(name, priority, writable, tags) ==
  [name |-> name, priority |-> priority, readable |-> TRUE, writable |-> writable,
   tags |-> tags, modes |-> {"keyword"}]
MCStoreNames == <<"a", "b">>
MCMounts ==
  {[spec |-> StoreSpec("a", 1, TRUE, {}), store |-> "s1"],
   [spec |-> StoreSpec("a", 1, TRUE, {}), store |-> "s2"],
   [spec |-> StoreSpec("b", 2, FALSE, {"x"}), store |-> "s2"]}
MCMemoryQueries ==
  {[names |-> {}, tags |-> {}, mode |-> "hybrid", limit |-> 1, minimum |-> 0],
   [names |-> {"b"}, tags |-> {"x"}, mode |-> "keyword", limit |-> 1, minimum |-> 2]}
MCTextSize == "s" :> 1 @@ "b" :> 2

Scores(sim, c, o, r, e, p, a, t) ==
  [sim |-> sim, c |-> c, o |-> o, r |-> r, e |-> e, p |-> p, a |-> a, t |-> t]
MCProfiles ==
  {Scores(50, 10, 72, 72, 0, 60, 80, 55), Scores(20, 75, 40, 32, 60, 85, 82, 55),
   Scores(90, 71, 30, 20, 60, 90, 90, 55), Scores(10, 0, 30, 65, 50, 10, 10, 10),
   Scores(0, 0, 72, 0, 0, 0, 0, 55)}

-----------------------------------------------------------------------------
(* Context.                                                                 *)

Material(name, score, size, target, priority) ==
  [name |-> name, score |-> score, size |-> size, target |-> target, priority |-> priority]
MCCtxNames == <<"a", "b", "c", "g1", "g2", "g3", "m1", "m2", "m3">>
MCCtxMaterials ==
  {Material("m1", 3, 2, "dynamic", 1), Material("m2", 2, 3, "timeline", 2),
   Material("m3", 0, 1, "dynamic", 0)}
MCGivenMaterials ==
  {<< >>, <<Material("g1", 4, 4, "dynamic", 0), Material("g2", 3, 1, "frozen", 2),
            Material("g3", 9, 0, "dynamic", 9)>>}

CtxMount(name, priority, writable, namespace, tags, vector, store) ==
  [name |-> name, priority |-> priority, readable |-> TRUE, writable |-> writable,
   namespace |-> namespace, tags |-> tags, vector |-> vector, store |-> store]
MCCtxMounts ==
  {CtxMount("a", 1, TRUE, "", {"x"}, TRUE, "s1"), CtxMount("b", 3, FALSE, "n", {}, FALSE, "s2"),
   CtxMount("b", 2, TRUE, "", {"x"}, FALSE, "s1"), CtxMount("c", 0, TRUE, "", {"x"}, TRUE, "s2")}

CtxQuery(names, namespace, tags, vector, limit) ==
  [names |-> names, namespace |-> namespace, tags |-> tags, vector |-> vector, limit |-> limit]
MCCtxQueries ==
  {CtxQuery({}, "", {}, FALSE, 2), CtxQuery({"a", "b"}, "n", {}, FALSE, 1),
   CtxQuery({}, "", {"x"}, TRUE, 2)}
MCSelectLimits ==
  {[count |-> 2, bytes |-> 5, targets |-> {}, score |-> 1],
   [count |-> 1, bytes |-> 9, targets |-> {"dynamic"}, score |-> 0],
   [count |-> 3, bytes |-> 3, targets |-> {}, score |-> 0]}

-----------------------------------------------------------------------------
(* Prompt.                                                                  *)

Unit(bytes, score) == [name |-> "", body |-> bytes, score |-> score]
Contents == {<< >>, <<Unit(9, 1)>>, <<Unit(4, 0), Unit(9, 2)>>}
Short == <<Unit(2, 0), Unit(12, 3)>>
BaseOf(tail, skills, schema) ==
  [role \in Roles |->
     CASE role = "timeline_open" -> tail
       [] role = "semi_dynamic_1" -> skills
       [] role = "semi_dynamic_2" -> schema
       [] role = "dynamic" -> <<Unit(7, 0)>>
       [] role = "frozen" -> <<Unit(5, 0)>>
       [] OTHER -> <<Unit(6, 0)>>]
MCBases == {BaseOf(t, a, b) : t \in Contents \cup {Short}, a \in Contents, b \in Contents \ {<< >>}}

Injected(name, target, priority, body) ==
  [name |-> name, target |-> target, priority |-> priority, body |-> body]
MCInjections ==
  {Injected("i1", "timeline_open", 1, 9), Injected("i2", "timeline_open", 2, 4),
   Injected("i3", "semi_dynamic_2", 3, 6), Injected("i4", "frozen", 9, 2),
   Injected("i5", "dynamic", 2, 0)}
MCBucketRules ==
  "timeline_open" :> [max |-> 14, keep |-> 0, protected |-> FALSE]
    @@ "semi_dynamic_1" :> [max |-> 14, keep |-> 12, protected |-> FALSE]
    @@ "frozen" :> [max |-> 6, keep |-> 0, protected |-> TRUE]

-----------------------------------------------------------------------------
(* Timeline.                                                                *)

MCFirstFacts == {<< >>, <<[bytes |-> 2, time |-> 0, pinned |-> TRUE, deleted |-> FALSE]>>}

-----------------------------------------------------------------------------

MCSymmetry == Permutations(Topics)

MCInit ==
  /\ MemoryInit /\ InjectionInit /\ TurnInit /\ ContextInit /\ PromptInit /\ TimelineInit
  /\ focus \in {"memory", "injection", "turn", "context", "prompt", "timeline"}
  /\ focus # "timeline" => backing = "memory" /\ facts = << >>

MCNext ==
  /\ UNCHANGED focus
  /\ \/ /\ focus = "memory" /\ MemoryNext
        /\ UNCHANGED <<injection, turnVars, contextVars, prompt, timelineVars>>
     \/ /\ focus = "injection" /\ InjectionNext
        /\ UNCHANGED <<memoryVars, turnVars, contextVars, prompt, timelineVars>>
     \/ /\ focus = "turn" /\ TurnNext
        /\ UNCHANGED <<memoryVars, injection, contextVars, prompt, timelineVars>>
     \/ /\ focus = "context" /\ ContextNext
        /\ UNCHANGED <<memoryVars, injection, turnVars, prompt, timelineVars>>
     \/ /\ focus = "prompt" /\ PromptNext
        /\ UNCHANGED <<memoryVars, injection, turnVars, contextVars, timelineVars>>
     \/ /\ focus = "timeline" /\ TimelineNext
        /\ UNCHANGED <<memoryVars, injection, turnVars, contextVars, prompt>>

MCSpec ==
  MCInit /\ [][MCNext]_<<memoryVars, injection, turnVars, contextVars, prompt, timelineVars, focus>>
=============================================================================
