------------------------------ MODULE MCTools ------------------------------
(***************************************************************************)
(* What a run calls and who is told, for TLC: the gate before a call, the  *)
(* tool runtimes with an MCP centre among them, the centre by itself, the  *)
(* sessions that work is handed to, the skills and the event log.  Each is *)
(* a machine of its own; "focus" is the one a behaviour explores, and the others     *)
(* stay in their initial states.                                           *)
(***************************************************************************)
EXTENDS ToolExecution, Delegation, EventStream, Approvals, CoreActions, TLC

VARIABLE focus

-----------------------------------------------------------------------------
(* Tools.                                                                   *)

\* "a" is a name the registry, a server or both may offer; "agent" an agent's.
MCRegistered == {[name |-> "local", aliases |-> {"a"}, enabled |-> TRUE],
                 [name |-> "off", aliases |-> {}, enabled |-> FALSE]}
MCAgents == {[name |-> "agent", aliases |-> {}, enabled |-> TRUE]}
MCRequests == {[name |-> "a", arguments |-> "x"], [name |-> "a", arguments |-> "wrong"],
               [name |-> "agent", arguments |-> "x"]}
MCLists == "s1" :> {"resource"} @@ "s2" :> {}
MCOrder == <<"s1", "s2">>

\* Beside the calls one host refreshes or closes one server.
BesideCalls ==
  /\ \/ RegisterConnector("s1")
     \/ \E fast \in BOOLEAN : \/ Begin("h1", "status", <<"s1">>, fast)
                             \/ Begin("h1", "close", <<"s1">>, fast)
     \/ host["h1"] # Idle /\ HostStep("h1")
  /\ UNCHANGED toolVars

-----------------------------------------------------------------------------
(* Delegation.                                                              *)

PlanStep(id, deps, session) ==
  [id |-> id, deps |-> deps, session |-> session, status |-> "pending"]
MCPlanSteps ==
  {<<PlanStep("1", {}, ""), PlanStep("2", {"1"}, "b")>>,
   <<PlanStep("2", {"1"}, ""), PlanStep("1", {}, "b"),
     [PlanStep("3", {}, "") EXCEPT !.status = "skipped"]>>,
   <<PlanStep("1", {}, ""), PlanStep("4", {}, ""), PlanStep("5", {"1"}, "")>>,
   <<PlanStep("1", {"9"}, "")>>}
AgentTool(name, session, enabled) == [name |-> name, session |-> session, enabled |-> enabled]
MCAgentTools ==
  {AgentTool("ta", "a", TRUE), AgentTool("tb", "b", TRUE), AgentTool("off", "b", FALSE)}
HandoffSpec(session, tags, priority, rank, enabled) ==
  [session |-> session, tags |-> tags, priority |-> priority, rank |-> rank, enabled |-> enabled]
MCOwnSpecs == {HandoffSpec("a", {"x"}, 1, 1, TRUE), HandoffSpec("b", {}, 1, 2, TRUE)}
MCHandoffSpecs ==
  {HandoffSpec("b", {"x"}, 1, 2, TRUE), HandoffSpec("b", {"x"}, 2, 2, FALSE),
   HandoffSpec("b", {"x"}, 2, 2, TRUE)}
MCHandoffRequests == {[target |-> "", tags |-> {"x"}], [target |-> "b", tags |-> {"x"}]}

-----------------------------------------------------------------------------
(* Events.                                                                  *)

Cursor(run, session, limit, types) ==
  [run |-> run, session |-> session, limit |-> limit, types |-> types]
MCCursors ==
  {Cursor("r1", "", 1, {}), Cursor("r2", "a", 2, {}),
   Cursor("r2", "", 1, {"tool_finished", "run_finished"}), Cursor("", "a", 1, {})}
MCSessionOfRun == "r1" :> "a" @@ "r2" :> "a"

-----------------------------------------------------------------------------
(* The gate.                                                                *)

Rule(status, actions, names, tags, servers) ==
  [status |-> status, actions |-> actions, names |-> names, tags |-> tags, servers |-> servers]
GatedCall(kind, name, aliases, tags, srv) ==
  [kind |-> kind, name |-> name, aliases |-> aliases, tags |-> tags, server |-> srv]
MCGatedCalls ==
  {GatedCall("tool", "w", {"write"}, {"fs"}, ""), GatedCall("tool", "m", {}, {}, "srv"),
   GatedCall("action", "finish", {}, {}, "")}
AllowWrite == Rule("allow", {"finish"}, {"write"}, {}, {})
AskFiles == Rule("approval_required", {"finish"}, {}, {"fs"}, {})
AskServer == Rule("approval_required", {}, {"m"}, {}, {"srv"})
DenyWrite == Rule("deny", {}, {"write"}, {}, {})
DenyServer == Rule("deny", {}, {}, {}, {"srv"})
MCRuleLists ==
  {<<<<AllowWrite, AskFiles>>, <<AskServer>>>>, <<<<AskFiles>>, <<AllowWrite, DenyWrite>>>>,
   <<<<AskServer, AllowWrite, AskFiles>>>>, <<<<DenyServer, AllowWrite>>, <<AskFiles>>>>}

-----------------------------------------------------------------------------
(* Skills: a file that fits, one that does not, one with a line too wide.   *)

Match(kind, name) == [kind |-> kind, name |-> name]
MCFound == "k1" :> <<Match("tool", "t1"), Match("skill", "k1")>>
           @@ "t" :> <<Match("skill", "k1"), Match("tool", "t1")>>
MCTexts == {<<1, 1, 1>>, <<4, 2>>, <<9, 1, 1, 1>>, << >>}

-----------------------------------------------------------------------------

MCSymmetry == Permutations(Calls) \cup Permutations(Executions)

MCInit ==
  /\ Init /\ DelegationInit /\ StreamInit /\ ApprovalInit /\ CoreInit
  /\ focus \in {"tools", "servers", "delegation", "events", "gate", "core"}
  /\ focus # "events" => \A c \in Clients : client[c].cursor = CHOOSE k \in Cursors : TRUE
  /\ focus # "gate" => policy = CHOOSE p \in RuleLists : TRUE
  /\ focus # "core" => files = [k \in Skills |-> CHOOSE text \in FileTexts : TRUE]

MCNext ==
  /\ UNCHANGED focus
  /\ \/ /\ focus = "tools" /\ (ToolNext \/ BesideCalls)
        /\ UNCHANGED <<delegationVars, streamVars, approvalVars, coreVars>>
     \/ /\ focus = "servers" /\ McpNext
        /\ UNCHANGED <<toolVars, delegationVars, streamVars, approvalVars, coreVars>>
     \/ /\ focus = "delegation" /\ DelegationNext
        /\ UNCHANGED <<vars, streamVars, approvalVars, coreVars>>
     \/ /\ focus = "events" /\ StreamNext
        /\ UNCHANGED <<vars, delegationVars, approvalVars, coreVars>>
     \/ /\ focus = "gate" /\ ApprovalNext
        /\ UNCHANGED <<vars, delegationVars, streamVars, coreVars>>
     \/ /\ focus = "core" /\ CoreNext
        /\ UNCHANGED <<vars, delegationVars, streamVars, approvalVars>>

MCSpec == MCInit /\ [][MCNext]_<<vars, delegationVars, streamVars, approvalVars, coreVars, focus>>
=============================================================================
