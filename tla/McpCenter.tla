------------------------------ MODULE McpCenter ------------------------------
(***************************************************************************)
(* MCPCenter of src/agent_core/mcp.py: the registry of MCP servers and of  *)
(* the tools, resources and prompts they list.                             *)
(*                                                                         *)
(* Hosts are tasks of one event loop that refresh and close servers.  An   *)
(* operation awaits the connector several times, and what another host     *)
(* does in between is seen, and overwritten, when it goes on.  A step of a *)
(* host is what the code does between two awaits.  (Between two servers of *)
(* one operation there is a step boundary the code does not have; what a   *)
(* server's turn does before its first await touches that server alone.)   *)
(*                                                                         *)
(* Descriptions, schemas and contents are left out: a tool, a resource or  *)
(* a prompt is a name and the server that listed it.                       *)
(***************************************************************************)
EXTENDS Naturals, Sequences, FiniteSets, SequencesExt

CONSTANTS
  Servers,    \* names of the servers
  Names,      \* public names of tools, uris of resources, ids of prompts
  Enabled,    \* the servers whose spec is enabled
  Lists,      \* the kinds a server's connector can list besides tools
  Hosts,      \* tasks that refresh and close
  HostCalls,  \* what they call
  Order       \* the servers sorted by name

Nobody == "nobody"
Assets == {"resource", "prompt"}
Kinds == {"tool"} \cup Assets
Operations == {"status", "inventory", "resources", "prompts", "close"}
Statuses == {"registered", "disabled", "connected", "refreshed", "partial", "failed", "closed"}

ASSUME McpAssumption ==
  /\ Nobody \notin Servers
  /\ IsFiniteSet(Names)
  /\ Enabled \subseteq Servers
  /\ HostCalls \subseteq Operations
  /\ Lists \in [Servers -> SUBSET Assets]
  /\ Order \in Seq(Servers)

VARIABLES
  catalog,    \* for each kind, who listed a name last: _tools, _resources, _prompts
  server,     \* _states: status and counts of each server
  connected,  \* the servers whose transport has a connector
  host        \* what each host is doing

mcpVars == <<catalog, server, connected, host>>

Jobs == Kinds \cup {"close"}

Idle == [op |-> "idle", fast |-> FALSE, jobs |-> << >>, awaits |-> "turn", bad |-> FALSE]

NoCounts == [k \in Kinds |-> 0]

\* register_server, for every server.
McpInit ==
  /\ catalog = [k \in Kinds |-> [n \in Names |-> Nobody]]
  /\ server = [s \in Servers |->
       [status |-> IF s \in Enabled THEN "registered" ELSE "disabled", count |-> NoCounts]]
  /\ connected = {}
  /\ host = [h \in Hosts |-> Idle]

-----------------------------------------------------------------------------
(* The catalogue.                                                           *)

Owned(k, s) == {n \in Names : catalog[k][n] = s}

\* _remove_server_tools, _remove_server_resources, _remove_server_prompts.
Without(k, s) == [n \in Names |-> IF catalog[k][n] = s THEN Nobody ELSE catalog[k][n]]

\* What a listing leaves: the server's old names go, the new ones are its own, whoever
\* else had them.
Relisted(k, s, listed) == [n \in Names |-> IF n \in listed THEN s ELSE Without(k, s)[n]]

CountOf(k, s, c) == Cardinality({n \in Names : c[k][n] = s})

MarkFailed(s) == server' = [server EXCEPT ![s].status = "failed"]

-----------------------------------------------------------------------------
(* A host's operation is the list of turns it still has: <<kind, server>>.  *)

Turns(k, servers) == [i \in DOMAIN servers |-> <<k, servers[i]>>]

AssetTurns(servers) ==
  FlattenSeq([i \in DOMAIN servers |-> <<<<"resource", servers[i]>>, <<"prompt", servers[i]>>>>])

Plan(op, servers) ==
  CASE op = "status" -> Turns("tool", servers)
    [] op = "inventory" -> Turns("tool", servers) \o AssetTurns(servers)
    [] op = "resources" -> Turns("resource", servers)
    [] op = "prompts" -> Turns("prompt", servers)
    [] op = "close" -> Turns("close", servers)

\* One server by name, or all of them.
Begin(h, op, servers, fast) ==
  /\ host[h] = Idle
  /\ host' = [host EXCEPT ![h] = [op |-> op, fast |-> fast, jobs |-> Plan(op, servers),
                                  awaits |-> "turn", bad |-> FALSE]]
  /\ UNCHANGED <<catalog, server, connected>>

Busy(h) == host[h].jobs # << >>
Job(h) == Head(host[h].jobs)[1]
Of(h) == Head(host[h].jobs)[2]

\* The operation returns when no turn is left.
Left(h, jobs, bad) ==
  IF jobs = << >> THEN Idle
  ELSE [host[h] EXCEPT !.jobs = jobs, !.awaits = "turn", !.bad = bad]

TurnOver(h, bad) == host' = [host EXCEPT ![h] = Left(h, Tail(host[h].jobs), bad)]

\* A server without tools gets no further turn in an inventory.
ServerOver(h) ==
  host' = [host EXCEPT ![h] =
             Left(h, SelectSeq(host[h].jobs, LAMBDA job : job[2] # Of(h)), FALSE)]

GivesUp(h) == host' = [host EXCEPT ![h] = Idle]

\* The operation raises, or goes on with the next server.
FailsTools(h) == IF host[h].fast THEN GivesUp(h) ELSE ServerOver(h)

\* In an inventory a failed listing of resources or prompts is noted, and told of when
\* both were tried; anywhere else it is raised.
FailsAssets(h) ==
  IF host[h].op # "inventory" \/ host[h].fast
  THEN GivesUp(h) /\ UNCHANGED server
  ELSE IF Job(h) = "prompt"
  THEN TurnOver(h, FALSE) /\ server' = [server EXCEPT ![Of(h)].status = "partial"]
  ELSE TurnOver(h, TRUE) /\ UNCHANGED server

\* register_connector, for the transport of s.
RegisterConnector(s) ==
  /\ s \notin connected
  /\ connected' = connected \cup {s}
  /\ UNCHANGED <<catalog, server, host>>

AtTurn(h) == Busy(h) /\ host[h].awaits = "turn"

SkipDisabled(h) ==
  /\ AtTurn(h)
  /\ Job(h) # "close" /\ Of(h) \notin Enabled
  /\ server' = IF Job(h) = "tool"
               THEN [server EXCEPT ![Of(h)] = [status |-> "disabled", count |-> NoCounts]]
               ELSE server
  /\ IF Job(h) = "tool" THEN ServerOver(h) ELSE TurnOver(h, host[h].bad)
  /\ UNCHANGED <<catalog, connected>>

NoConnector(h) ==
  /\ AtTurn(h)
  /\ Job(h) # "close" /\ Of(h) \in Enabled \ connected
  /\ IF Job(h) = "tool" THEN MarkFailed(Of(h)) /\ FailsTools(h) ELSE FailsAssets(h)
  /\ UNCHANGED <<catalog, connected>>

\* A connector that cannot list the kind: the server is passed over.  At the end of its
\* prompts an inventory still tells of a failure with its resources.
SkipUnlisted(h) ==
  /\ AtTurn(h)
  /\ Job(h) \in Assets /\ Of(h) \in Enabled \cap connected /\ Job(h) \notin Lists[Of(h)]
  /\ IF Job(h) = "prompt" /\ host[h].bad THEN FailsAssets(h)
     ELSE TurnOver(h, host[h].bad) /\ UNCHANGED server
  /\ UNCHANGED <<catalog, connected>>

\* _connect has returned; a refreshed server stays one, any other counts as connected.
Connect(h) ==
  /\ AtTurn(h)
  /\ Job(h) # "close" /\ Of(h) \in Enabled \cap connected
  /\ Job(h) \in {"tool"} \cup Lists[Of(h)]
  /\ host' = [host EXCEPT ![h].awaits = "list"]
  /\ server' = IF server[Of(h)].status \in {"refreshed", "partial"} THEN server
               ELSE [server EXCEPT ![Of(h)].status = "connected"]
  /\ UNCHANGED <<catalog, connected>>

ListTools(h, listed) ==
  /\ Busy(h) /\ host[h].awaits = "list" /\ Job(h) = "tool"
  /\ catalog' = [catalog EXCEPT !["tool"] = Relisted("tool", Of(h), listed)]
  /\ server' = [server EXCEPT ![Of(h)] =
       [status |-> "refreshed", count |-> [@.count EXCEPT !["tool"] = Cardinality(listed)]]]
  /\ TurnOver(h, FALSE)
  /\ UNCHANGED connected

ListAssets(h, listed) ==
  /\ Busy(h) /\ host[h].awaits = "list" /\ Job(h) \in Assets
  /\ catalog' = [catalog EXCEPT ![Job(h)] = Relisted(Job(h), Of(h), listed)]
  /\ server' = [server EXCEPT ![Of(h)] =
       [status |-> IF Job(h) = "prompt" /\ host[h].bad THEN "partial" ELSE @.status,
        count |-> [k \in Kinds |-> CountOf(k, Of(h), catalog')]]]
  /\ TurnOver(h, host[h].bad /\ Job(h) # "prompt")
  /\ UNCHANGED connected

\* A failed refresh that leaves the server's tools.
KeepTools(s) == catalog
DropTools(s) == [catalog EXCEPT !["tool"] = Without("tool", s)]

\* The connector raises as it connects or lists, or lists another server's tool.
ListingFails(h) ==
  /\ Busy(h)
  /\ Job(h) # "close"
  /\ \/ host[h].awaits = "list"
     \/ AtTurn(h) /\ Of(h) \in Enabled \cap connected /\ Job(h) \in {"tool"} \cup Lists[Of(h)]
  /\ IF Job(h) = "tool"
     THEN catalog' = DropTools(Of(h)) /\ MarkFailed(Of(h)) /\ FailsTools(h)
     ELSE UNCHANGED catalog /\ FailsAssets(h)
  /\ UNCHANGED connected

\* The connector's own close may raise: then nothing of the server is dropped.
Close(h) ==
  /\ AtTurn(h) /\ Job(h) = "close"
  /\ catalog' = [k \in Kinds |-> Without(k, Of(h))]
  /\ server' = [server EXCEPT ![Of(h)] = [status |-> "closed", count |-> NoCounts]]
  /\ TurnOver(h, FALSE)
  /\ UNCHANGED connected

CloseFails(h) ==
  /\ AtTurn(h) /\ Job(h) = "close" /\ Of(h) \in connected
  /\ GivesUp(h)
  /\ UNCHANGED <<catalog, server, connected>>

\* A step of a host.
HostStep(h) ==
  \/ \E op \in HostCalls, fast \in BOOLEAN, servers \in {<<s>> : s \in Servers} \cup {Order} :
       Begin(h, op, servers, fast)
  \/ SkipDisabled(h)
  \/ NoConnector(h)
  \/ SkipUnlisted(h)
  \/ Connect(h)
  \/ \E listed \in SUBSET Names : ListTools(h, listed)
  \/ \E listed \in SUBSET Names : ListAssets(h, listed)
  \/ ListingFails(h)
  \/ Close(h)
  \/ CloseFails(h)

McpNext ==
  \/ \E s \in Servers : RegisterConnector(s)
  \/ \E h \in Hosts : HostStep(h)

McpSpec == McpInit /\ [][McpNext]_mcpVars

-----------------------------------------------------------------------------
(* Properties.                                                              *)

\* Every variable keeps its type.
McpTypeOK ==
  /\ catalog \in [Kinds -> [Names -> Servers \cup {Nobody}]]
  /\ server \in [Servers -> [status : Statuses, count : [Kinds -> Nat]]]
  /\ connected \subseteq Servers
  /\ host \in [Hosts -> [op : Operations \cup {"idle"}, fast : BOOLEAN,
                         jobs : Seq(Jobs \X Servers), awaits : {"turn", "list"}, bad : BOOLEAN]]

\* However refreshes and closes of several hosts interleave, a name in the tool catalogue
\* belongs to an enabled server whose last word was a refresh: one that failed, was closed
\* or is disabled offers no tool (refresh_status, close and _connect between their awaits).
ToolsComeFromLiveServers ==
  \A n \in Names : LET s == catalog["tool"][n] IN
    s # Nobody => s \in Enabled \cap connected /\ server[s].status \in {"refreshed", "partial"}
=============================================================================
