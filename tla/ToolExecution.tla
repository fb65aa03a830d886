---------------------------- MODULE ToolExecution ----------------------------
(***************************************************************************)
(* A tool call of the loop: ReActExecutor._execute_tool_invocation after   *)
(* the gate (src/agent_core/react.py), the replay store, the retries of    *)
(* ToolExecutionCenter and the routing of ToolCenter over its mounts       *)
(* (src/agent_core/tools.py): a ToolRegistry, an MCPCenter whose catalogue *)
(* hosts change meanwhile, and an AgentToolRuntime                         *)
(* (src/agent_core/handoff.py).                                            *)
(*                                                                         *)
(* Calls of several runs share the centre and the replay store.  Whatever  *)
(* a call awaits (stores, events, the tool) lets the others go on, and a   *)
(* deadline, a cancelled task or a crash may cut it off there.             *)
(***************************************************************************)
EXTENDS McpCenter

CONSTANTS
  Calls,        \* the calls
  Requests,     \* what a call may ask for: [name, arguments]
  Invalid,      \* arguments against the tools' schemas
  Registered,   \* specs of the registry: [name, aliases, enabled]
  Agents,       \* specs of the agent tools: [name, aliases, enabled]
  MaxAttempts,  \* ToolRetryPolicy.max_attempts
  RetryOnExceptions

Nothing == "nothing"
Mounts == {"local", "mcp", "agents"}

\* How the runtime answers an attempt.
Outcomes == [kind : {"ok", "failed", "exception", "other"}, retryable : BOOLEAN]

ASSUME ToolAssumption ==
  /\ MaxAttempts \in Nat \ {0}
  /\ RetryOnExceptions \in BOOLEAN
  /\ \A spec \in Registered \cup Agents : spec.name \notin spec.aliases
  /\ IsFiniteSet(Registered) /\ IsFiniteSet(Agents)
  /\ Nothing \notin Calls

VARIABLES
  mounted,    \* the mounts of the centre
  call,       \* each call: where it is and what it asked for
  recorded,   \* attempts in the execution record of each call, 0 without a record
  logged,     \* records of the centre's invocations, per call
  replay,     \* the replay store: the call whose result answers a key
  ran         \* history: how often a tool was reached for a call

toolVars == <<mounted, call, recorded, logged, replay, ran>>
vars == <<mcpVars, toolVars>>

NoRequest == [name |-> Nothing, arguments |-> Nothing]

NotAsked == [pc |-> "idle", request |-> NoRequest, mount |-> Nothing, attempts |-> 0,
             result |-> Nothing, settled |-> FALSE]

ToolInit ==
  /\ mounted = {}
  /\ call = [c \in Calls |-> NotAsked]
  /\ recorded = [c \in Calls |-> 0]
  /\ logged = [c \in Calls |-> 0]
  /\ replay = [r \in Requests |-> Nothing]
  /\ ran = [c \in Calls |-> 0]

-----------------------------------------------------------------------------
(* Routing.                                                                 *)

\* MCPCenter.specs(include_disabled=True).
McpSpecs ==
  {[name |-> n, aliases |-> {}, enabled |-> catalog["tool"][n] \in Enabled] :
     n \in {m \in Names : catalog["tool"][m] # Nobody}}

\* AgentToolRuntime.specs knows no disabled ones.
AgentSpecs == {spec \in Agents : spec.enabled}

Specs(m) ==
  CASE m = "local" -> Registered
    [] m = "mcp" -> McpSpecs
    [] m = "agents" -> AgentSpecs

Answers(spec, name) == name = spec.name \/ name \in spec.aliases

\* The enabled specs with their mounts that answer to a name.
Candidates(name) ==
  {offer \in UNION {{m} \X Specs(m) : m \in mounted} :
     offer[2].enabled /\ Answers(offer[2], name)}

Offered == UNION {UNION {{spec.name} \cup spec.aliases : spec \in Specs(m)} : m \in mounted}

\* _route_table without its complaint.
Tolerant == FALSE
Collision == \E name \in Offered : Cardinality(Candidates(name)) > 1

\* ToolCenter.mount: the mount stays although the table cannot be built.
Mount(m) ==
  /\ m \notin mounted
  /\ mounted' = mounted \cup {m}
  /\ UNCHANGED <<mcpVars, call, recorded, logged, replay, ran>>

\* ToolExecutionCenter asks the specs of the runtime first; the centre's specs come from
\* all mounts, whether or not their names collide.
SchemaRefuses(r) == Candidates(r.name) # {} /\ r.arguments \in Invalid

\* ToolCenter.invoke up to the await of the mounted runtime: the mount, or why there is none.
RouteOf(name) ==
  IF Collision THEN "collision"
  ELSE IF Candidates(name) = {} THEN "unroutable"
  ELSE (CHOOSE candidate \in Candidates(name) : TRUE)[1]

-----------------------------------------------------------------------------
(* The replay store.  Its key is the request: tool name, arguments and the  *)
(* replay scope, and not the run or the call.                               *)

Recalled(c) == replay[call[c].request]

Stored(c) == [replay EXCEPT ![call[c].request] = c]

-----------------------------------------------------------------------------
(* A call.                                                                  *)

Ask(c, r) ==
  /\ call[c].pc = "idle"
  /\ call' = [call EXCEPT ![c] = [NotAsked EXCEPT !.pc = "asked", !.request = r,
                                                  !.settled = replay[r] # Nothing]]
  /\ UNCHANGED <<mcpVars, mounted, recorded, logged, replay, ran>>

\* A replayed result is returned as it was; otherwise the call goes on.
LookUp(c) ==
  /\ call[c].pc = "asked"
  /\ call' = [call EXCEPT ![c] = IF Recalled(c) # Nothing
                                    THEN [@ EXCEPT !.pc = "done", !.result = "replayed"]
                                    ELSE [@ EXCEPT !.pc = "missed"]]
  /\ UNCHANGED <<mcpVars, mounted, recorded, logged, replay, ran>>

\* Every result is stored for replay.
EndedStoresAll(c, attempts, result) ==
  /\ recorded' = [recorded EXCEPT ![c] = attempts]
  /\ call' = [call EXCEPT ![c] = [@ EXCEPT !.pc = "putting", !.attempts = attempts,
                                            !.result = result, !.mount = Nothing]]

\* The execution record is written and the result returned; the loop stores an ok.
Ended(c, attempts, result) ==
  /\ recorded' = [recorded EXCEPT ![c] = attempts]
  /\ call' = [call EXCEPT ![c] = [@ EXCEPT !.pc = IF result = "ok" THEN "putting" ELSE "done",
                                            !.attempts = attempts, !.result = result,
                                            !.mount = Nothing]]

\* An attempt that reaches a runtime is awaited, any other is the last.
Attempt(c, n) ==
  LET route == RouteOf(call[c].request.name)
  IN IF route \in Mounts
     THEN /\ call' = [call EXCEPT ![c] = [@ EXCEPT !.pc = "running", !.mount = route,
                                                    !.attempts = n]]
          /\ ran' = [ran EXCEPT ![c] = @ + 1]
          /\ UNCHANGED recorded
     ELSE Ended(c, n, "failed") /\ UNCHANGED ran

\* Centre records: one per invocation that got as far as a plan and a table.
Logs(c, n) == logged' = [logged EXCEPT ![c] = @ + n]
Unroutable(c) == IF RouteOf(call[c].request.name) = "unroutable" THEN 1 ELSE 0

Refuse(c) ==
  /\ call[c].pc = "missed"
  /\ SchemaRefuses(call[c].request)
  /\ Ended(c, 1, "failed")
  /\ UNCHANGED <<mcpVars, mounted, logged, replay, ran>>

FirstAttempt(c) ==
  /\ call[c].pc = "missed"
  /\ ~SchemaRefuses(call[c].request)
  /\ Attempt(c, 1)
  /\ Logs(c, Unroutable(c))
  /\ UNCHANGED <<mcpVars, mounted, replay>>

\* allows_result_retry and allows_exception_retry.
Retries(c, outcome) ==
  /\ outcome.retryable
  /\ call[c].attempts < MaxAttempts
  /\ outcome.kind = "failed" \/ (outcome.kind = "exception" /\ RetryOnExceptions)

\* AgentToolRuntime catches what the manager raises and never asks for a retry.
MayAnswer(m, outcome) ==
  m = "agents" => outcome.kind \in {"ok", "failed"} /\ ~outcome.retryable

\* The runtime answers.  A retry routes again at once, over the mounts as they are now.
Answer(c, outcome) ==
  /\ call[c].pc = "running"
  /\ MayAnswer(call[c].mount, outcome)
  /\ IF Retries(c, outcome)
     THEN Attempt(c, call[c].attempts + 1) /\ Logs(c, 1 + Unroutable(c))
     ELSE /\ Ended(c, call[c].attempts, IF outcome.kind = "ok" THEN "ok" ELSE "failed")
          /\ Logs(c, 1)
          /\ UNCHANGED ran
  /\ UNCHANGED <<mcpVars, mounted, replay>>

Put(c) ==
  /\ call[c].pc = "putting"
  /\ replay' = Stored(c)
  /\ call' = [call EXCEPT ![c].pc = "done"]
  /\ UNCHANGED <<mcpVars, mounted, recorded, logged, ran>>

\* A deadline, a cancelled task or a crash, wherever the call awaits.
CutOff(c) ==
  /\ call[c].pc \in {"asked", "missed", "running", "putting"}
  /\ call' = [call EXCEPT ![c] = [@ EXCEPT !.pc = "cut", !.mount = Nothing]]
  /\ UNCHANGED <<mcpVars, mounted, recorded, logged, replay, ran>>

Init == McpInit /\ ToolInit

\* A step of a call, or of the host that mounts runtimes.
ToolNext ==
  \/ \E m \in Mounts : Mount(m)
  \/ \E c \in Calls, r \in Requests : Ask(c, r)
  \/ \E c \in Calls : LookUp(c)
  \/ \E c \in Calls : Refuse(c)
  \/ \E c \in Calls : FirstAttempt(c)
  \/ \E c \in Calls, outcome \in Outcomes : Answer(c, outcome)
  \/ \E c \in Calls : Put(c)
  \/ \E c \in Calls : CutOff(c)

Next == ToolNext \/ (McpNext /\ UNCHANGED toolVars)

Spec == Init /\ [][Next]_vars

-----------------------------------------------------------------------------
(* Properties.                                                              *)

\* Every variable keeps its type.
TypeOK ==
  /\ McpTypeOK
  /\ mounted \subseteq Mounts
  /\ call \in [Calls ->
       [pc : {"idle", "asked", "missed", "running", "putting", "done", "cut"},
        request : Requests \cup {NoRequest}, mount : Mounts \cup {Nothing},
        attempts : 0..MaxAttempts, result : {Nothing, "ok", "failed", "replayed"},
        settled : BOOLEAN]]
  /\ recorded \in [Calls -> 0..MaxAttempts]
  /\ logged \in [Calls -> 0..MaxAttempts]
  /\ replay \in [Requests -> Calls \cup {Nothing}]
  /\ ran \in [Calls -> 0..MaxAttempts]

\* An attempt, first or retried, reaches a tool only through the one mount that offers its
\* name at that moment, and an MCP tool only on a server that is enabled and whose last
\* word was a refresh: hosts that refresh or close servers while a call waits for its
\* retry cannot send it elsewhere (ToolCenter.invoke, MCPCenter.invoke).
AttemptsReachOneLiveTool ==
  [][\A c \in Calls : ran'[c] > ran[c] =>
       LET name == call[c].request.name IN
       /\ Cardinality(Candidates(name)) = 1
       /\ call'[c].mount = "mcp" =>
            /\ catalog["tool"][name] \in Enabled
            /\ server[catalog["tool"][name]].status \in {"refreshed", "partial"}]_vars

\* Once an ok result is stored, no call that begins after it runs the tool for the same
\* request again, in this run or another (the replay of _execute_tool_invocation).
StoredIsNotRunAgain ==
  \A c \in Calls : call[c].settled => ran[c] = 0

\* A result the store gives out is one that a call of the same request got from the tool:
\* that call ended ok, with its attempts on record and a last attempt that ran.
ReplayIsGenuine ==
  \A r \in Requests : replay[r] # Nothing =>
    LET c == replay[r] IN
    /\ call[c].request = r /\ call[c].result = "ok"
    /\ recorded[c] = ran[c] /\ ran[c] > 0

\* A call that got its result accounts for every time its tool was reached: in one
\* execution record and in the centre's log.  Only a call cut off may miss one, and then
\* just the attempt that was running (ToolExecutionCenter.invoke).
CallsAreAccounted ==
  \A c \in Calls :
    /\ call[c].pc = "done" => ran[c] <= recorded[c] /\ ran[c] <= logged[c]
    /\ call[c].pc = "cut" => ran[c] <= logged[c] + 1

\* Every ok result was got by an attempt that ran, is given out to calls of that request
\* alone, and ends the running of that tool for it; every attempt is accounted for.
ResultsAreGenuine == StoredIsNotRunAgain /\ ReplayIsGenuine /\ CallsAreAccounted
=============================================================================
