------------------------------ MODULE ToolProofs ------------------------------
(***************************************************************************)
(* What holds of a call for every number of servers, names, hosts, calls,  *)
(* requests, runs and policies: theorems of McpCenter, then of             *)
(* ToolExecution, which routes to it, then of the gate in Approvals; and   *)
(* what holds of the event log and the clients it is read by, of the       *)
(* windows that skills are read through, and of delegated runs, for every  *)
(* plan, number of executions, sessions and agent tools, and capacity.     *)
(***************************************************************************)
EXTENDS ToolExecution, Approvals, EventStream, CoreActions, Delegation, FiniteSetTheorems,
        SequenceTheorems, ListLemmas

-----------------------------------------------------------------------------
(* What the catalogue and the states of the servers are made of.            *)

Typed ==
  /\ catalog \in [Kinds -> [Names -> Servers \cup {Nobody}]]
  /\ server \in [Servers -> [status : Statuses, count : [Kinds -> Nat]]]
  /\ DOMAIN host = Hosts
  /\ connected \subseteq Servers

(* A host that awaits a listing passed _connect for that server, whose      *)
(* connector is never taken away; only then may the server own a tool.      *)
ListsAreConnected ==
  \A h \in Hosts :
    Busy(h) /\ host[h].awaits = "list" => Of(h) \in Enabled \cap connected

McpInv == Typed /\ ListsAreConnected /\ ToolsComeFromLiveServers

LEMMA KindsOf == "tool" \in Kinds /\ Assets \subseteq Kinds /\ "tool" \notin Assets
  BY DEF Kinds, Assets

\* _remove_server_tools and its like leave a catalogue.
LEMMA WithoutType ==
  ASSUME Typed, NEW k \in Kinds, NEW s
  PROVE  Without(k, s) \in [Names -> Servers \cup {Nobody}]
  BY DEF Without, Typed

\* A listing leaves a catalogue, in which the server has what it listed and nobody has
\* gained anything else.
LEMMA RelistedType ==
  ASSUME Typed, NEW k \in Kinds, NEW s \in Servers, NEW listed \in SUBSET Names
  PROVE  /\ Relisted(k, s, listed) \in [Names -> Servers \cup {Nobody}]
         /\ \A n \in Names : Relisted(k, s, listed)[n] \in {s, Nobody, catalog[k][n]}
  BY WithoutType DEF Relisted, Without, Typed

\* Counts are numbers.
LEMMA CountType ==
  ASSUME NEW k, NEW s, NEW c
  PROVE  CountOf(k, s, c) \in Nat
<1>1. IsFiniteSet({n \in Names : c[k][n] = s})  BY McpAssumption, FS_Subset
<1> QED  BY <1>1, FS_CardinalityType DEF CountOf

LEMMA ListedType ==
  ASSUME NEW listed \in SUBSET Names
  PROVE  Cardinality(listed) \in Nat
<1>1. IsFiniteSet(listed)  BY McpAssumption, FS_Subset
<1> QED  BY <1>1, FS_CardinalityType

LEMMA McpInitInv == McpInit => McpInv
<1> SUFFICES ASSUME McpInit PROVE McpInv  OBVIOUS
<1>1. Typed  BY DEF McpInit, Typed, Statuses, NoCounts
<1>2. ListsAreConnected  BY DEF McpInit, ListsAreConnected, Idle, Busy
<1>3. ToolsComeFromLiveServers  BY KindsOf DEF McpInit, ToolsComeFromLiveServers
<1> QED  BY <1>1, <1>2, <1>3 DEF McpInv

-----------------------------------------------------------------------------
(* What ends a turn leaves no host waiting for a listing it is not          *)
(* connected for: it goes to its next turn, or is idle.                     *)

\* host' differs from host for h alone, and h awaits no listing.
Settles(h) == \E next : host' = [host EXCEPT ![h] = next] /\ next.awaits = "turn"

LEMMA EndsSettle ==
  ASSUME NEW h \in Hosts
  PROVE  /\ \A bad : TurnOver(h, bad) => Settles(h)
         /\ ServerOver(h) => Settles(h)
         /\ GivesUp(h) => Settles(h)
         /\ FailsTools(h) => Settles(h)
         /\ FailsAssets(h) => Settles(h)
<1>1. \A jobs, bad : Left(h, jobs, bad).awaits = "turn"  BY DEF Left, Idle
<1>2. \A bad : TurnOver(h, bad) => Settles(h)  BY <1>1 DEF TurnOver, Settles
<1>3. ServerOver(h) => Settles(h)  BY <1>1 DEF ServerOver, Settles
<1>4. GivesUp(h) => Settles(h)
  <2>1. Idle.awaits = "turn"  BY DEF Idle
  <2> QED  BY <2>1 DEF GivesUp, Settles
<1>5. FailsTools(h) => Settles(h)  BY <1>3, <1>4 DEF FailsTools
<1>6. FailsAssets(h) => Settles(h)  BY <1>2, <1>4 DEF FailsAssets
<1> QED  BY <1>2, <1>3, <1>4, <1>5, <1>6

LEMMA SettledLists ==
  ASSUME Typed, ListsAreConnected, NEW h \in Hosts, Settles(h), connected \subseteq connected'
  PROVE  ListsAreConnected' /\ DOMAIN host' = Hosts
<1>1. PICK next : host' = [host EXCEPT ![h] = next] /\ next.awaits = "turn"  BY DEF Settles
<1> QED  BY <1>1 DEF Typed, ListsAreConnected, Busy, Of

-----------------------------------------------------------------------------
(* The steps.                                                               *)

\* What a failed listing of assets does to the states: nothing, or "partial".
LEMMA AssetsFail ==
  ASSUME Typed, NEW h \in Hosts, FailsAssets(h)
  PROVE  /\ server' \in [Servers -> [status : Statuses, count : [Kinds -> Nat]]]
         /\ \A s \in Servers : server'[s].status \in {server[s].status, "partial"}
<1>1. "partial" \in Statuses  BY DEF Statuses
<1> QED  BY <1>1 DEF FailsAssets, Typed

LEMMA McpStep == McpInv /\ [McpNext]_mcpVars => McpInv'
<1> SUFFICES ASSUME Typed, ListsAreConnected, ToolsComeFromLiveServers, [McpNext]_mcpVars
             PROVE  McpInv'
  BY DEF McpInv
<1> USE McpAssumption
<1>t. "tool" \in Kinds  BY KindsOf
<1>s. {"registered", "disabled", "connected", "refreshed", "partial", "failed", "closed"} = Statuses
  BY DEF Statuses
<1>1. ASSUME NEW s \in Servers, RegisterConnector(s) PROVE McpInv'
  <2>1. Typed'  BY <1>1 DEF RegisterConnector, Typed
  <2>2. ListsAreConnected'  BY <1>1 DEF RegisterConnector, ListsAreConnected, Busy, Of
  <2>3. ToolsComeFromLiveServers'  BY <1>1 DEF RegisterConnector, ToolsComeFromLiveServers
  <2> QED  BY <2>1, <2>2, <2>3 DEF McpInv
<1>2. ASSUME NEW h \in Hosts, NEW op, NEW fast, NEW servers, Begin(h, op, servers, fast) PROVE McpInv'
  <2> DEFINE next == [op |-> op, fast |-> fast, jobs |-> Plan(op, servers),
                      awaits |-> "turn", bad |-> FALSE]
  <2>0. next.awaits = "turn" /\ host' = [host EXCEPT ![h] = next]  BY <1>2 DEF Begin
  <2> HIDE DEF next
  <2>1. Settles(h)  BY <2>0 DEF Settles
  <2>2. ListsAreConnected' /\ DOMAIN host' = Hosts  BY <1>2, <2>1, SettledLists DEF Begin
  <2>3. Typed'  BY <1>2, <2>2 DEF Begin, Typed
  <2>4. ToolsComeFromLiveServers'  BY <1>2 DEF Begin, ToolsComeFromLiveServers
  <2> QED  BY <2>2, <2>3, <2>4 DEF McpInv
<1>3. ASSUME NEW h \in Hosts, SkipDisabled(h) PROVE McpInv'
  <2>1. Settles(h)  BY <1>3, EndsSettle DEF SkipDisabled
  <2>2. ListsAreConnected' /\ DOMAIN host' = Hosts  BY <1>3, <2>1, SettledLists DEF SkipDisabled
  <2>3. Typed'  BY <1>3, <1>s, <2>2 DEF SkipDisabled, Typed, NoCounts
  <2>4. \A s \in Servers : s \in Enabled => server'[s] = server[s]
    BY <1>3 DEF SkipDisabled, Typed
  <2>5. ToolsComeFromLiveServers'
    BY <1>3, <1>t, <2>4 DEF SkipDisabled, ToolsComeFromLiveServers, Typed
  <2> QED  BY <2>2, <2>3, <2>5 DEF McpInv
<1>4. ASSUME NEW h \in Hosts, NoConnector(h) PROVE McpInv'
  <2>1. Settles(h)  BY <1>4, EndsSettle DEF NoConnector
  <2>2. ListsAreConnected' /\ DOMAIN host' = Hosts  BY <1>4, <2>1, SettledLists DEF NoConnector
  <2>3. CASE Job(h) = "tool"
    <3>1. Of(h) \notin connected /\ server' = [server EXCEPT ![Of(h)].status = "failed"]
          /\ UNCHANGED <<catalog, connected>>
      BY <1>4, <2>3 DEF NoConnector, MarkFailed
    <3>2. Typed'  BY <3>1, <1>s, <2>2 DEF Typed
    <3>3. ToolsComeFromLiveServers'  BY <3>1 DEF ToolsComeFromLiveServers, Typed
    <3> QED  BY <2>2, <3>2, <3>3 DEF McpInv
  <2>4. CASE Job(h) # "tool"
    <3>1. FailsAssets(h) /\ UNCHANGED <<catalog, connected>>  BY <1>4, <2>4 DEF NoConnector
    <3>2. Typed'  BY <3>1, <2>2, AssetsFail DEF Typed
    <3>3. ToolsComeFromLiveServers'
      BY <3>1, <1>t, AssetsFail DEF ToolsComeFromLiveServers, Typed
    <3> QED  BY <2>2, <3>2, <3>3 DEF McpInv
  <2> QED  BY <2>3, <2>4
<1>5. ASSUME NEW h \in Hosts, SkipUnlisted(h) PROVE McpInv'
  <2>1. Settles(h)  BY <1>5, EndsSettle DEF SkipUnlisted
  <2>2. ListsAreConnected' /\ DOMAIN host' = Hosts  BY <1>5, <2>1, SettledLists DEF SkipUnlisted
  <2>3. /\ server' \in [Servers -> [status : Statuses, count : [Kinds -> Nat]]]
        /\ \A s \in Servers : server'[s].status \in {server[s].status, "partial"}
    BY <1>5, AssetsFail DEF SkipUnlisted, Typed
  <2>4. Typed'  BY <1>5, <2>2, <2>3 DEF SkipUnlisted, Typed
  <2>5. ToolsComeFromLiveServers'
    BY <1>5, <1>t, <2>3 DEF SkipUnlisted, ToolsComeFromLiveServers, Typed
  <2> QED  BY <2>2, <2>4, <2>5 DEF McpInv
<1>6. ASSUME NEW h \in Hosts, Connect(h) PROVE McpInv'
  <2>1. /\ Of(h) \in Enabled \cap connected
        /\ host' = [host EXCEPT ![h].awaits = "list"]
        /\ UNCHANGED <<catalog, connected>>
    BY <1>6 DEF Connect
  <2>2. DOMAIN host' = Hosts  BY <2>1 DEF Typed
  <2>3. ListsAreConnected'
    <3> SUFFICES ASSUME NEW g \in Hosts, Busy(g)', (host[g].awaits = "list")'
                 PROVE  (Of(g) \in Enabled \cap connected)'
      BY DEF ListsAreConnected
    <3>1. CASE g = h
      <4>1. host'[h].jobs = host[h].jobs  BY <2>1 DEF Typed
      <4> QED  BY <3>1, <4>1, <2>1 DEF Of
    <3>2. CASE g # h
      <4>1. host'[g] = host[g]  BY <2>1, <3>2 DEF Typed
      <4> QED  BY <4>1, <2>1 DEF ListsAreConnected, Busy, Of
    <3> QED  BY <3>1, <3>2
  <2>4. Typed'  BY <1>6, <1>s, <2>1, <2>2 DEF Connect, Typed
  <2>5. \A s \in Servers : server[s].status \in {"refreshed", "partial"} => server'[s] = server[s]
    BY <1>6 DEF Connect, Typed
  <2>6. ToolsComeFromLiveServers'
    BY <2>1, <2>5, <1>t DEF ToolsComeFromLiveServers, Typed
  <2> QED  BY <2>3, <2>4, <2>6 DEF McpInv
<1>7. ASSUME NEW h \in Hosts, NEW listed \in SUBSET Names, ListTools(h, listed) PROVE McpInv'
  <2>1. Settles(h)  BY <1>7, EndsSettle DEF ListTools
  <2>2. ListsAreConnected' /\ DOMAIN host' = Hosts  BY <1>7, <2>1, SettledLists DEF ListTools
  <2>3. Of(h) \in Enabled \cap connected  BY <1>7 DEF ListTools, ListsAreConnected
  <2>4. /\ catalog' = [catalog EXCEPT !["tool"] = Relisted("tool", Of(h), listed)]
        /\ server' = [server EXCEPT ![Of(h)] =
             [status |-> "refreshed", count |-> [@.count EXCEPT !["tool"] = Cardinality(listed)]]]
        /\ UNCHANGED connected
    BY <1>7 DEF ListTools
  <2> DEFINE count == [server[Of(h)].count EXCEPT !["tool"] = Cardinality(listed)]
             updated == [status |-> "refreshed", count |-> count]
  <2>a. server[Of(h)] \in [status : Statuses, count : [Kinds -> Nat]]  BY <2>3 DEF Typed
  <2>b. count \in [Kinds -> Nat]  BY <2>a, ListedType
  <2>c. updated \in [status : Statuses, count : [Kinds -> Nat]] /\ updated.status = "refreshed"
    BY <2>b, <1>s
  <2>d. server' = [server EXCEPT ![Of(h)] = updated]  BY <2>3, <2>4, <2>a DEF Typed
  <2> HIDE DEF updated
  <2>e. catalog'["tool"] = Relisted("tool", Of(h), listed)
        /\ catalog' \in [Kinds -> [Names -> Servers \cup {Nobody}]]
    BY <2>3, <2>4, <1>t, RelistedType DEF Typed
  <2>f. server' \in [Servers -> [status : Statuses, count : [Kinds -> Nat]]]
    BY <2>3, <2>c, <2>d DEF Typed
  <2>5. Typed'  BY <2>2, <2>3, <2>4, <2>e, <2>f DEF Typed
  <2>6. /\ \A n \in Names : catalog'["tool"][n] \in {Of(h), Nobody, catalog["tool"][n]}
        /\ \A s \in Servers : s # Of(h) => server'[s] = server[s]
        /\ server'[Of(h)].status = "refreshed"
    <3>1. \A n \in Names : catalog'["tool"][n] \in {Of(h), Nobody, catalog["tool"][n]}
      BY <2>3, <2>e, <1>t, RelistedType
    <3> QED  BY <3>1, <2>3, <2>c, <2>d DEF Typed
  <2>7. ToolsComeFromLiveServers'
    <3> SUFFICES ASSUME NEW n \in Names, catalog'["tool"][n] # Nobody
                 PROVE  LET s == catalog'["tool"][n]
                        IN /\ s \in Enabled \cap connected'
                           /\ server'[s].status \in {"refreshed", "partial"}
      BY DEF ToolsComeFromLiveServers
    <3>1. CASE catalog'["tool"][n] = Of(h)  BY <3>1, <2>3, <2>4, <2>6
    <3>2. CASE catalog'["tool"][n] # Of(h)
      <4>1. catalog'["tool"][n] = catalog["tool"][n]  BY <3>2, <2>6
      <4>2. catalog["tool"][n] \in Servers  BY <4>1, <1>t DEF Typed
      <4> QED  BY <3>2, <4>1, <4>2, <2>4, <2>6 DEF ToolsComeFromLiveServers
    <3> QED  BY <3>1, <3>2
  <2> QED  BY <2>2, <2>5, <2>7 DEF McpInv
<1>8. ASSUME NEW h \in Hosts, NEW listed \in SUBSET Names, ListAssets(h, listed) PROVE McpInv'
  <2>1. Settles(h)  BY <1>8, EndsSettle DEF ListAssets
  <2>2. ListsAreConnected' /\ DOMAIN host' = Hosts  BY <1>8, <2>1, SettledLists DEF ListAssets
  <2>3. Of(h) \in Enabled \cap connected  BY <1>8 DEF ListAssets, ListsAreConnected
  <2>4. /\ Job(h) \in Assets
        /\ catalog' = [catalog EXCEPT ![Job(h)] = Relisted(Job(h), Of(h), listed)]
        /\ server' = [server EXCEPT ![Of(h)] =
             [status |-> IF Job(h) = "prompt" /\ host[h].bad THEN "partial" ELSE @.status,
              count |-> [k \in Kinds |-> CountOf(k, Of(h), catalog')]]]
        /\ UNCHANGED connected
    BY <1>8 DEF ListAssets
  <2>5. Job(h) \in Kinds /\ Job(h) # "tool"  BY <2>4, KindsOf
  <2>6. catalog' \in [Kinds -> [Names -> Servers \cup {Nobody}]]
        /\ catalog'["tool"] = catalog["tool"]
    BY <2>3, <2>4, <2>5, <1>t, RelistedType DEF Typed
  <2>7. [k \in Kinds |-> CountOf(k, Of(h), catalog')] \in [Kinds -> Nat]  BY CountType
  <2>8. /\ server' \in [Servers -> [status : Statuses, count : [Kinds -> Nat]]]
        /\ \A s \in Servers : server'[s].status \in {server[s].status, "partial"}
    <3> DEFINE status == IF Job(h) = "prompt" /\ host[h].bad THEN "partial"
                         ELSE server[Of(h)].status
               count == [k \in Kinds |-> CountOf(k, Of(h), catalog')]
               updated == [status |-> status, count |-> count]
    <3>1. server[Of(h)] \in [status : Statuses, count : [Kinds -> Nat]]  BY <2>3 DEF Typed
    <3>2. status \in Statuses /\ status \in {server[Of(h)].status, "partial"}  BY <3>1, <1>s
    <3>3. server' = [server EXCEPT ![Of(h)] = updated]  BY <2>3, <2>4, <3>1 DEF Typed
    <3>4. updated \in [status : Statuses, count : [Kinds -> Nat]] /\ updated.status = status
      BY <3>2, <2>7
    <3> HIDE DEF updated, status
    <3> QED  BY <2>3, <3>2, <3>3, <3>4 DEF Typed
  <2>9. Typed'  BY <2>2, <2>4, <2>6, <2>8 DEF Typed
  <2>10. ToolsComeFromLiveServers'
    BY <2>4, <2>6, <2>8, <1>t DEF ToolsComeFromLiveServers, Typed
  <2> QED  BY <2>2, <2>9, <2>10 DEF McpInv
<1>9. ASSUME NEW h \in Hosts, ListingFails(h) PROVE McpInv'
  <2>1. Settles(h)  BY <1>9, EndsSettle DEF ListingFails
  <2>2. ListsAreConnected' /\ DOMAIN host' = Hosts  BY <1>9, <2>1, SettledLists DEF ListingFails
  <2>3. CASE Job(h) = "tool"
    <3>1. /\ catalog' = [catalog EXCEPT !["tool"] = Without("tool", Of(h))]
          /\ server' = [server EXCEPT ![Of(h)].status = "failed"]
          /\ UNCHANGED connected
      BY <1>9, <2>3 DEF ListingFails, DropTools, MarkFailed
    <3>2. Typed'  BY <3>1, <2>2, <1>t, <1>s, WithoutType DEF Typed
    <3>3. /\ \A n \in Names :
               \/ catalog'["tool"][n] = Nobody
               \/ catalog'["tool"][n] \in {catalog["tool"][n]} \ {Of(h)}
          /\ \A s \in Servers : s # Of(h) => server'[s] = server[s]
      BY <3>1, <1>t DEF Typed, Without
    <3>4. ToolsComeFromLiveServers'
      BY <3>1, <3>2, <3>3, <1>t DEF ToolsComeFromLiveServers, Typed
    <3> QED  BY <2>2, <3>2, <3>4 DEF McpInv
  <2>4. CASE Job(h) # "tool"
    <3>1. FailsAssets(h) /\ UNCHANGED <<catalog, connected>>  BY <1>9, <2>4 DEF ListingFails
    <3>2. Typed'  BY <3>1, <2>2, AssetsFail DEF Typed
    <3>3. ToolsComeFromLiveServers'
      BY <3>1, <1>t, AssetsFail DEF ToolsComeFromLiveServers, Typed
    <3> QED  BY <2>2, <3>2, <3>3 DEF McpInv
  <2> QED  BY <2>3, <2>4
<1>10. ASSUME NEW h \in Hosts, Close(h) PROVE McpInv'
  <2>1. Settles(h)  BY <1>10, EndsSettle DEF Close
  <2>2. ListsAreConnected' /\ DOMAIN host' = Hosts  BY <1>10, <2>1, SettledLists DEF Close
  <2>3. /\ catalog' = [k \in Kinds |-> Without(k, Of(h))]
        /\ server' = [server EXCEPT ![Of(h)] = [status |-> "closed", count |-> NoCounts]]
        /\ UNCHANGED connected
    BY <1>10 DEF Close
  <2>4. Typed'  BY <2>2, <2>3, <1>s, WithoutType DEF Typed, NoCounts
  <2>c. catalog'["tool"] = Without("tool", Of(h))  BY <2>3, <1>t
  <2>5. /\ \A n \in Names :
             \/ catalog'["tool"][n] = Nobody
             \/ catalog'["tool"][n] = catalog["tool"][n] /\ catalog["tool"][n] # Of(h)
        /\ \A s \in Servers : s # Of(h) => server'[s] = server[s]
    <3>1. ASSUME NEW n \in Names
          PROVE  \/ catalog'["tool"][n] = Nobody
                 \/ catalog'["tool"][n] = catalog["tool"][n] /\ catalog["tool"][n] # Of(h)
      <4>1. CASE catalog["tool"][n] = Of(h)  BY <4>1, <2>c DEF Without
      <4>2. CASE catalog["tool"][n] # Of(h)  BY <4>2, <2>c DEF Without
      <4> QED  BY <4>1, <4>2
    <3>2. \A s \in Servers : s # Of(h) => server'[s] = server[s]  BY <2>3 DEF Typed
    <3> QED  BY <3>1, <3>2
  <2>6. ToolsComeFromLiveServers'
    BY <2>3, <2>5, <1>t DEF ToolsComeFromLiveServers, Typed
  <2> QED  BY <2>2, <2>4, <2>6 DEF McpInv
<1>11. ASSUME NEW h \in Hosts, CloseFails(h) PROVE McpInv'
  <2>1. Settles(h)  BY <1>11, EndsSettle DEF CloseFails
  <2>2. ListsAreConnected' /\ DOMAIN host' = Hosts  BY <1>11, <2>1, SettledLists DEF CloseFails
  <2>3. Typed'  BY <1>11, <2>2 DEF CloseFails, Typed
  <2>4. ToolsComeFromLiveServers'  BY <1>11 DEF CloseFails, ToolsComeFromLiveServers
  <2> QED  BY <2>2, <2>3, <2>4 DEF McpInv
<1>12. CASE UNCHANGED mcpVars
  BY <1>12 DEF mcpVars, McpInv, Typed, ListsAreConnected, ToolsComeFromLiveServers, Busy, Of
<1> QED
  BY <1>1, <1>2, <1>3, <1>4, <1>5, <1>6, <1>7, <1>8, <1>9, <1>10, <1>11, <1>12
  DEF McpNext, HostStep

-----------------------------------------------------------------------------
(* For every set of servers and hosts, and every interleaving of their      *)
(* refreshes and closes: a name of the tool catalogue belongs to an enabled *)
(* and connected server whose last word was a refresh (refresh_status,      *)
(* close and _connect of mcp.py).                                           *)
THEOREM ToolsAreLive == McpSpec => []ToolsComeFromLiveServers
<1>1. McpInit => McpInv  BY McpInitInv
<1>2. McpInv /\ [McpNext]_mcpVars => McpInv'  BY McpStep
<1>3. McpInv => ToolsComeFromLiveServers  BY DEF McpInv
<1> QED  BY <1>1, <1>2, <1>3, PTL DEF McpSpec

-----------------------------------------------------------------------------
(* What the calls, their records and the replay store are made of.          *)

Progress == {"idle", "asked", "missed", "running", "putting", "done", "cut"}

CallRecord ==
  [pc : Progress, request : Requests \cup {NoRequest}, mount : Mounts \cup {Nothing},
   attempts : Nat, result : {Nothing, "ok", "failed", "replayed"}, settled : BOOLEAN]

ToolTyped ==
  /\ call \in [Calls -> CallRecord]
  /\ recorded \in [Calls -> Nat]
  /\ logged \in [Calls -> Nat]
  /\ ran \in [Calls -> Nat]
  /\ replay \in [Requests -> Calls \cup {Nothing}]

(* How far the two records of a call are behind its tool, place by place: a *)
(* running attempt is not logged yet, and one that is to be stored is ok.   *)
Accounted(c) ==
  /\ call[c].pc # "idle" => call[c].request \in Requests
  /\ call[c].pc \in {"idle", "asked", "missed"} => ran[c] = 0
  /\ call[c].pc = "running" =>
       call[c].attempts = ran[c] /\ ran[c] > 0 /\ ran[c] <= logged[c] + 1
  /\ call[c].pc = "putting" =>
       call[c].result = "ok" /\ recorded[c] = ran[c] /\ ran[c] > 0 /\ ran[c] <= logged[c]
  /\ call[c].pc = "done" => ran[c] <= recorded[c] /\ ran[c] <= logged[c]
  /\ call[c].pc = "cut" => ran[c] <= logged[c] + 1

(* A call that began with a stored result will find it.                     *)
SettledIsStored ==
  \A c \in Calls : call[c].settled =>
    /\ call[c].pc \in {"asked", "done", "cut"} /\ ran[c] = 0
    /\ call[c].request \in Requests /\ replay[call[c].request] # Nothing

(* A call whose result is stored is over.                                   *)
StoredIsDone ==
  \A r \in Requests : replay[r] # Nothing =>
    LET c == replay[r] IN
    /\ call[c].pc = "done" /\ call[c].request = r /\ call[c].result = "ok"
    /\ recorded[c] = ran[c] /\ ran[c] > 0

ToolInv ==
  /\ ToolTyped
  /\ \A c \in Calls : Accounted(c)
  /\ SettledIsStored
  /\ StoredIsDone

LEMMA ToolInitInv == ToolInit => ToolInv
<1> SUFFICES ASSUME ToolInit PROVE ToolInv  OBVIOUS
<1>1. ToolTyped  BY DEF ToolInit, ToolTyped, CallRecord, NotAsked, Progress
<1>2. \A c \in Calls : Accounted(c)  BY DEF ToolInit, Accounted, NotAsked
<1>3. SettledIsStored  BY DEF ToolInit, SettledIsStored, NotAsked
<1>4. StoredIsDone  BY DEF ToolInit, StoredIsDone
<1> QED  BY <1>1, <1>2, <1>3, <1>4 DEF ToolInv

-----------------------------------------------------------------------------
(* A step of one call that is not over leaves the others alone, and with    *)
(* them what the replay store relies on.                                    *)

Alone(c) ==
  \A d \in Calls : d # c =>
    call'[d] = call[d] /\ recorded'[d] = recorded[d] /\ logged'[d] = logged[d] /\ ran'[d] = ran[d]

LEMMA OthersStay ==
  ASSUME ToolInv, ToolTyped', NEW c \in Calls, call[c].pc # "done",
         Alone(c), replay' = replay, Accounted(c)',
         call'[c].settled =>
           /\ call'[c].pc \in {"asked", "done", "cut"} /\ ran'[c] = 0
           /\ call'[c].request \in Requests /\ replay[call'[c].request] # Nothing
  PROVE  ToolInv'
<1>1. \A d \in Calls : Accounted(d)'
  <2> SUFFICES ASSUME NEW d \in Calls, d # c PROVE Accounted(d)'  OBVIOUS
  <2> QED  BY DEF ToolInv, Accounted, Alone
<1>2. SettledIsStored'  BY DEF ToolInv, SettledIsStored, Alone
<1>3. StoredIsDone'
  <2> SUFFICES ASSUME NEW r \in Requests, replay[r] # Nothing
               PROVE  LET d == replay[r] IN
                      /\ call'[d].pc = "done" /\ call'[d].request = r /\ call'[d].result = "ok"
                      /\ recorded'[d] = ran'[d] /\ ran'[d] > 0
    BY DEF StoredIsDone
  <2>1. replay[r] \in Calls /\ call[replay[r]].pc = "done"
    BY DEF ToolInv, ToolTyped, StoredIsDone
  <2> QED  BY <2>1 DEF ToolInv, StoredIsDone, Alone
<1> QED  BY <1>1, <1>2, <1>3 DEF ToolInv

-----------------------------------------------------------------------------
(* Each action of a call.                                                   *)

LEMMA AskKeeps ==
  ASSUME ToolInv, NEW c \in Calls, NEW r \in Requests, Ask(c, r) PROVE ToolInv'
<1>1. ToolTyped'  BY DEF Ask, ToolInv, ToolTyped, CallRecord, NotAsked, Progress
<1>2. Alone(c) /\ replay' = replay  BY DEF Ask, Alone, ToolInv, ToolTyped
<1>3. call'[c] = [NotAsked EXCEPT !.pc = "asked", !.request = r, !.settled = replay[r] # Nothing]
  BY DEF Ask, ToolInv, ToolTyped
<1>4. ran'[c] = 0  BY DEF Ask, ToolInv, Accounted
<1>5. Accounted(c)'  BY <1>3, <1>4 DEF Accounted, NotAsked
<1> QED  BY <1>1, <1>2, <1>3, <1>4, <1>5, OthersStay DEF Ask, NotAsked

LEMMA LookUpKeeps ==
  ASSUME ToolInv, NEW c \in Calls, LookUp(c) PROVE ToolInv'
<1>1. ToolTyped'
  <2>1. /\ [call[c] EXCEPT !.pc = "done", !.result = "replayed"] \in CallRecord
        /\ [call[c] EXCEPT !.pc = "missed"] \in CallRecord
    BY DEF ToolInv, ToolTyped, CallRecord, Progress
  <2>2. call' \in [Calls -> CallRecord]  BY <2>1 DEF LookUp, ToolInv, ToolTyped
  <2> QED  BY <2>2 DEF LookUp, ToolInv, ToolTyped
<1>2. Alone(c) /\ replay' = replay  BY DEF LookUp, Alone, ToolInv, ToolTyped
<1>3. Accounted(c)'  BY DEF LookUp, ToolInv, ToolTyped, Accounted
<1>4. call'[c].settled => call[c].settled /\ call'[c].pc = "done" /\ ran'[c] = 0
                          /\ call'[c].request = call[c].request
  BY DEF LookUp, Recalled, ToolInv, ToolTyped, SettledIsStored
<1>5. call[c].settled => call[c].request \in Requests /\ replay[call[c].request] # Nothing
  BY DEF ToolInv, SettledIsStored
<1>6. call[c].pc # "done"  BY DEF LookUp
<1> QED  BY <1>1, <1>2, <1>3, <1>4, <1>5, <1>6, OthersStay

(* What the end of an invocation leaves of its call.                        *)
LEMMA EndedCall ==
  ASSUME ToolInv, NEW c \in Calls, NEW n \in Nat, NEW result \in {"ok", "failed"},
         Ended(c, n, result)
  PROVE  /\ recorded' \in [Calls -> Nat] /\ recorded'[c] = n
         /\ call' \in [Calls -> CallRecord]
         /\ call'[c].pc = (IF result = "ok" THEN "putting" ELSE "done")
         /\ call'[c].result = result /\ call'[c].request = call[c].request
         /\ call'[c].settled = call[c].settled
         /\ \A d \in Calls : d # c => call'[d] = call[d] /\ recorded'[d] = recorded[d]
<1> DEFINE place == IF result = "ok" THEN "putting" ELSE "done"
           ended == [call[c] EXCEPT !.pc = place, !.attempts = n, !.result = result,
                                    !.mount = Nothing]
<1>1. place \in Progress  BY DEF Progress
<1>2. call' = [call EXCEPT ![c] = ended] /\ recorded' = [recorded EXCEPT ![c] = n]
  BY DEF Ended
<1> HIDE DEF place
<1>3. /\ ended \in CallRecord /\ ended.pc = place /\ ended.result = result
      /\ ended.request = call[c].request /\ ended.settled = call[c].settled
  BY <1>1 DEF ToolInv, ToolTyped, CallRecord
<1> HIDE DEF ended
<1> QED  BY <1>2, <1>3 DEF ToolInv, ToolTyped, place

(* An attempt runs the tool once more, or is the last and did not run it.   *)
LEMMA AttemptedCall ==
  ASSUME ToolInv, NEW c \in Calls, NEW n \in Nat, Attempt(c, n)
  PROVE  /\ recorded' \in [Calls -> Nat] /\ ran' \in [Calls -> Nat]
         /\ call' \in [Calls -> CallRecord]
         /\ call'[c].request = call[c].request /\ call'[c].settled = call[c].settled
         /\ \/ /\ RouteOf(call[c].request.name) \in Mounts
               /\ call'[c].pc = "running" /\ call'[c].attempts = n
               /\ call'[c].mount = RouteOf(call[c].request.name)
               /\ ran'[c] = ran[c] + 1
            \/ call'[c].pc = "done" /\ recorded'[c] = n /\ ran'[c] = ran[c]
         /\ \A d \in Calls : d # c =>
              call'[d] = call[d] /\ recorded'[d] = recorded[d] /\ ran'[d] = ran[d]
<1>1. CASE RouteOf(call[c].request.name) \in Mounts
  <2> DEFINE route == RouteOf(call[c].request.name)
             begun == [call[c] EXCEPT !.pc = "running", !.mount = route, !.attempts = n]
  <2>1. /\ call' = [call EXCEPT ![c] = begun] /\ ran' = [ran EXCEPT ![c] = @ + 1]
        /\ recorded' = recorded
    BY <1>1 DEF Attempt
  <2> HIDE DEF route
  <2>2. /\ begun \in CallRecord /\ begun.pc = "running" /\ begun.attempts = n
        /\ begun.mount = route
        /\ begun.request = call[c].request /\ begun.settled = call[c].settled
    BY <1>1 DEF ToolInv, ToolTyped, CallRecord, Progress, route
  <2> HIDE DEF begun
  <2> QED  BY <1>1, <2>1, <2>2 DEF ToolInv, ToolTyped, route
<1>2. CASE RouteOf(call[c].request.name) \notin Mounts
  <2>1. Ended(c, n, "failed") /\ ran' = ran  BY <1>2 DEF Attempt
  <2> QED  BY <2>1, EndedCall DEF ToolInv, ToolTyped
<1> QED  BY <1>1, <1>2

LEMMA LogsType ==
  ASSUME ToolInv, NEW c \in Calls, NEW n \in Nat, Logs(c, n)
  PROVE  /\ logged' \in [Calls -> Nat] /\ logged'[c] = logged[c] + n
         /\ \A d \in Calls : d # c => logged'[d] = logged[d]
  BY DEF Logs, ToolInv, ToolTyped

LEMMA UnroutableType == ASSUME NEW c PROVE Unroutable(c) \in {0, 1}
  BY DEF Unroutable

LEMMA RefuseKeeps ==
  ASSUME ToolInv, NEW c \in Calls, Refuse(c) PROVE ToolInv'
<1>1. Ended(c, 1, "failed") /\ UNCHANGED <<logged, replay, ran>> /\ call[c].pc = "missed"
  BY DEF Refuse
<1>2. ToolTyped'  BY <1>1, EndedCall DEF ToolInv, ToolTyped
<1>3. Alone(c)  BY <1>1, EndedCall DEF Alone
<1>4. ran[c] = 0 /\ ~call[c].settled  BY <1>1 DEF ToolInv, Accounted, SettledIsStored
<1>5. Accounted(c)'
  <2>1. call[c].request \in Requests /\ logged[c] \in Nat
    BY <1>1 DEF ToolInv, Accounted, ToolTyped
  <2> QED  BY <1>1, <1>4, <2>1, EndedCall DEF Accounted
<1>6. ~call'[c].settled  BY <1>1, <1>4, EndedCall
<1> QED  BY <1>1, <1>2, <1>3, <1>5, <1>6, OthersStay

LEMMA FirstAttemptKeeps ==
  ASSUME ToolInv, NEW c \in Calls, FirstAttempt(c) PROVE ToolInv'
<1>1. Attempt(c, 1) /\ Logs(c, Unroutable(c)) /\ replay' = replay /\ call[c].pc = "missed"
  BY DEF FirstAttempt
<1>2. Unroutable(c) \in Nat  BY UnroutableType
<1>3. ToolTyped'  BY <1>1, <1>2, AttemptedCall, LogsType DEF ToolInv, ToolTyped
<1>4. Alone(c)  BY <1>1, <1>2, AttemptedCall, LogsType DEF Alone
<1>5. ran[c] = 0 /\ ~call[c].settled  BY <1>1 DEF ToolInv, Accounted, SettledIsStored
<1>6. Accounted(c)'
  <2>1. call[c].request \in Requests /\ logged[c] \in Nat
    BY <1>1 DEF ToolInv, Accounted, ToolTyped
  <2>2. logged'[c] = logged[c] + Unroutable(c)  BY <1>1, <1>2, LogsType
  <2> QED  BY <1>1, <1>2, <1>5, <2>1, <2>2, AttemptedCall DEF Accounted
<1>7. ~call'[c].settled  BY <1>1, <1>5, AttemptedCall
<1> QED  BY <1>1, <1>3, <1>4, <1>6, <1>7, OthersStay

LEMMA AnswerKeeps ==
  ASSUME ToolInv, NEW c \in Calls, NEW outcome \in Outcomes, Answer(c, outcome) PROVE ToolInv'
<1>1. call[c].pc = "running" /\ replay' = replay  BY DEF Answer
<1>2. /\ call[c].attempts = ran[c] /\ ran[c] > 0 /\ ran[c] <= logged[c] + 1
      /\ call[c].request \in Requests /\ ~call[c].settled
      /\ ran[c] \in Nat /\ logged[c] \in Nat /\ call[c].attempts \in Nat
  BY <1>1 DEF ToolInv, Accounted, SettledIsStored, ToolTyped
<1>3. CASE Retries(c, outcome)
  <2>1. Attempt(c, call[c].attempts + 1) /\ Logs(c, 1 + Unroutable(c))
    BY <1>3 DEF Answer
  <2>2. 1 + Unroutable(c) \in Nat /\ call[c].attempts + 1 \in Nat
    BY <1>2, UnroutableType
  <2>3. ToolTyped'  BY <1>1, <2>1, <2>2, AttemptedCall, LogsType DEF ToolInv, ToolTyped
  <2>4. Alone(c)  BY <2>1, <2>2, AttemptedCall, LogsType DEF Alone
  <2>5. Accounted(c)'
    <3>1. logged'[c] >= logged[c] + 1 /\ logged'[c] \in Nat
      BY <1>2, <2>1, <2>2, UnroutableType, LogsType
    <3> QED  BY <1>1, <1>2, <2>1, <2>2, <3>1, AttemptedCall DEF Accounted
  <2>6. ~call'[c].settled  BY <1>2, <2>1, <2>2, AttemptedCall
  <2> QED  BY <1>1, <2>3, <2>4, <2>5, <2>6, OthersStay
<1>4. CASE ~Retries(c, outcome)
  <2> DEFINE result == IF outcome.kind = "ok" THEN "ok" ELSE "failed"
  <2>1. Ended(c, call[c].attempts, result) /\ Logs(c, 1) /\ ran' = ran
    BY <1>4 DEF Answer
  <2>2. result \in {"ok", "failed"}  OBVIOUS
  <2> HIDE DEF result
  <2>3. ToolTyped'  BY <1>1, <1>2, <2>1, <2>2, EndedCall, LogsType DEF ToolInv, ToolTyped
  <2>4. Alone(c)  BY <1>2, <2>1, <2>2, EndedCall, LogsType DEF Alone
  <2>5. Accounted(c)'
    <3>1. logged'[c] = logged[c] + 1  BY <2>1, LogsType
    <3> QED  BY <1>2, <2>1, <2>2, <3>1, EndedCall DEF Accounted
  <2>6. ~call'[c].settled  BY <1>2, <2>1, <2>2, EndedCall
  <2> QED  BY <1>1, <2>3, <2>4, <2>5, <2>6, OthersStay
<1> QED  BY <1>3, <1>4

LEMMA CutOffKeeps ==
  ASSUME ToolInv, NEW c \in Calls, CutOff(c) PROVE ToolInv'
<1>1. ToolTyped'  BY DEF CutOff, ToolInv, ToolTyped, CallRecord, Progress
<1>2. Alone(c) /\ replay' = replay  BY DEF CutOff, Alone, ToolInv, ToolTyped
<1>3. call'[c].pc = "cut" /\ call'[c].request = call[c].request
      /\ call'[c].settled = call[c].settled
  BY DEF CutOff, ToolInv, ToolTyped
<1>4. Accounted(c)'
  <2>1. ran[c] \in Nat /\ logged[c] \in Nat  BY DEF ToolInv, ToolTyped
  <2>2. Accounted(c)  BY DEF ToolInv
  <2> QED  BY <1>3, <2>1, <2>2 DEF CutOff, Accounted
<1>5. call[c].settled => ran[c] = 0 /\ call[c].request \in Requests
                         /\ replay[call[c].request] # Nothing
  BY DEF ToolInv, SettledIsStored
<1> QED  BY <1>1, <1>2, <1>3, <1>4, <1>5, OthersStay DEF CutOff

(* The one step that changes the store: the call it names is over then.     *)
LEMMA PutKeeps ==
  ASSUME ToolInv, NEW c \in Calls, Put(c) PROVE ToolInv'
<1> DEFINE r == call[c].request
<1>1. /\ call[c].pc = "putting" /\ r \in Requests /\ call[c].result = "ok"
      /\ recorded[c] = ran[c] /\ ran[c] > 0 /\ ran[c] <= logged[c] /\ ran[c] \in Nat
  BY DEF Put, ToolInv, Accounted, ToolTyped
<1>2. /\ call' = [call EXCEPT ![c].pc = "done"] /\ replay' = [replay EXCEPT ![r] = c]
      /\ UNCHANGED <<recorded, logged, ran>>
  BY DEF Put, Stored
<1> HIDE DEF r
<1>3. ToolTyped'  BY <1>1, <1>2 DEF ToolInv, ToolTyped, CallRecord, Progress
<1>4. /\ call'[c].pc = "done" /\ call'[c].result = "ok" /\ call'[c].request = call[c].request
      /\ call'[c].settled = call[c].settled
      /\ \A d \in Calls : d # c => call'[d] = call[d]
  BY <1>1, <1>2 DEF ToolInv, ToolTyped
<1>5. \A d \in Calls : Accounted(d)'
  BY <1>1, <1>2, <1>4 DEF ToolInv, Accounted, r
<1>6. \A q \in Requests : replay'[q] = IF q = r THEN c ELSE replay[q]
  BY <1>1, <1>2 DEF ToolInv, ToolTyped
<1>7. SettledIsStored'
  BY <1>1, <1>2, <1>4, <1>6, ToolAssumption DEF ToolInv, SettledIsStored
<1>8. StoredIsDone'
  <2> SUFFICES ASSUME NEW q \in Requests, replay'[q] # Nothing
               PROVE  LET d == replay'[q] IN
                      /\ call'[d].pc = "done" /\ call'[d].request = q /\ call'[d].result = "ok"
                      /\ recorded'[d] = ran'[d] /\ ran'[d] > 0
    BY DEF StoredIsDone
  <2>1. CASE q = r  BY <2>1, <1>1, <1>2, <1>4, <1>6 DEF r
  <2>2. CASE q # r
    <3>1. replay'[q] = replay[q] /\ replay[q] \in Calls
      BY <2>2, <1>6 DEF ToolInv, ToolTyped
    <3>2. call[replay[q]].pc = "done"  BY <3>1 DEF ToolInv, StoredIsDone
    <3>3. replay[q] # c  BY <3>2, <1>1
    <3> QED  BY <3>1, <3>3, <1>2, <1>4 DEF ToolInv, StoredIsDone
  <2> QED  BY <2>1, <2>2
<1> QED  BY <1>3, <1>5, <1>7, <1>8 DEF ToolInv

LEMMA ToolStep == ToolInv /\ [Next]_vars => ToolInv'
<1> SUFFICES ASSUME ToolInv, [Next]_vars PROVE ToolInv'  OBVIOUS
<1>1. ASSUME NEW m \in Mounts, Mount(m) PROVE ToolInv'
  BY <1>1 DEF Mount, ToolInv, ToolTyped, Accounted, SettledIsStored, StoredIsDone
<1>2. CASE UNCHANGED toolVars
  BY <1>2 DEF toolVars, ToolInv, ToolTyped, Accounted, SettledIsStored, StoredIsDone
<1>3. UNCHANGED vars => UNCHANGED toolVars  BY DEF vars
<1> QED
  BY <1>1, <1>2, <1>3, AskKeeps, LookUpKeeps, RefuseKeeps, FirstAttemptKeeps, AnswerKeeps,
     PutKeeps, CutOffKeeps
  DEF Next, ToolNext

(* Whatever calls overlap, are retried, cut off or repeated, by this run or *)
(* another: an ok result that is stored was got by an attempt for that very *)
(* request, ends the running of the tool for it, and every attempt is       *)
(* accounted for (ToolExecutionCenter.invoke, _execute_tool_invocation).    *)
THEOREM ResultsHold == Spec => []ResultsAreGenuine
<1>1. Init => ToolInv  BY ToolInitInv DEF Init
<1>2. ToolInv /\ [Next]_vars => ToolInv'  BY ToolStep
<1>3. ToolInv => ResultsAreGenuine
  <2> SUFFICES ASSUME ToolInv PROVE ResultsAreGenuine  OBVIOUS
  <2>1. StoredIsNotRunAgain  BY DEF ToolInv, SettledIsStored, StoredIsNotRunAgain
  <2>2. ReplayIsGenuine  BY DEF ToolInv, StoredIsDone, ReplayIsGenuine
  <2>3. CallsAreAccounted  BY DEF ToolInv, Accounted, CallsAreAccounted
  <2> QED  BY <2>1, <2>2, <2>3 DEF ResultsAreGenuine
<1> QED  BY <1>1, <1>2, <1>3, PTL DEF Spec

-----------------------------------------------------------------------------
(* Where an attempt goes.                                                   *)

(* An MCP tool is told from the others by its name.                         *)
LEMMA McpSpecsFinite == IsFiniteSet(McpSpecs)
<1> DEFINE f == [spec \in McpSpecs |-> spec.name]
<1>1. f \in [McpSpecs -> Names]  BY DEF McpSpecs
<1>2. \A a, b \in McpSpecs : a.name = b.name => a = b  BY DEF McpSpecs
<1>3. f \in Injection(McpSpecs, Names)  BY <1>1, <1>2 DEF Injection, IsInjective
<1> QED  BY <1>3, FS_Injection, McpAssumption

LEMMA CandidatesFinite ==
  ASSUME mounted \subseteq Mounts, NEW name
  PROVE  IsFiniteSet(Candidates(name))
<1> DEFINE All == ({"local"} \X Registered) \cup ({"mcp"} \X McpSpecs)
                  \cup ({"agents"} \X AgentSpecs)
<1>1. IsFiniteSet(Registered) /\ IsFiniteSet(AgentSpecs)
  BY ToolAssumption, FS_Subset DEF AgentSpecs
<1>2. \A m : IsFiniteSet({m})  BY FS_Singleton
<1>3. /\ IsFiniteSet({"local"} \X Registered) /\ IsFiniteSet({"mcp"} \X McpSpecs)
      /\ IsFiniteSet({"agents"} \X AgentSpecs)
  BY <1>1, <1>2, McpSpecsFinite, FS_Product
<1>4. IsFiniteSet(All)  BY <1>3, FS_Union
<1>5. Candidates(name) \subseteq All
  BY DEF Candidates, Mounts, Specs
<1> QED  BY <1>4, <1>5, FS_Subset

(* The mount an attempt is sent to is the only one with a candidate.        *)
LEMMA RouteIsUnique ==
  ASSUME mounted \subseteq Mounts, NEW name, RouteOf(name) \in Mounts
  PROVE  /\ Cardinality(Candidates(name)) = 1
         /\ \E candidate \in Candidates(name) : candidate[1] = RouteOf(name)
<1>1. ~Collision /\ Candidates(name) # {}  BY DEF RouteOf, Mounts
<1>2. PICK candidate \in Candidates(name) : candidate[1] = RouteOf(name)
  BY <1>1 DEF RouteOf
<1>3. name \in Offered  BY <1>2 DEF Candidates, Answers, Offered
<1>4. Cardinality(Candidates(name)) \in Nat /\ Cardinality(Candidates(name)) # 0
  BY <1>1, CandidatesFinite, FS_CardinalityType, FS_EmptySet
<1>5. ~(Cardinality(Candidates(name)) > 1)  BY <1>1, <1>3 DEF Collision
<1> QED  BY <1>2, <1>4, <1>5

(* A name of the MCP mount belongs to a server its catalogue can vouch for. *)
LEMMA McpRouteIsLive ==
  ASSUME ToolsComeFromLiveServers, NEW name, NEW candidate \in Candidates(name),
         candidate[1] = "mcp"
  PROVE  /\ catalog["tool"][name] \in Enabled
         /\ server[catalog["tool"][name]].status \in {"refreshed", "partial"}
<1>1. candidate[2] \in McpSpecs /\ candidate[2].enabled /\ Answers(candidate[2], name)
  BY DEF Candidates, Specs
<1>2. /\ name \in Names /\ catalog["tool"][name] # Nobody
      /\ catalog["tool"][name] \in Enabled
  <2>1. PICK n \in Names :
          /\ catalog["tool"][n] # Nobody
          /\ candidate[2] = [name |-> n, aliases |-> {}, enabled |-> catalog["tool"][n] \in Enabled]
    BY <1>1 DEF McpSpecs
  <2>2. candidate[2].name = n /\ candidate[2].aliases = {}  BY <2>1
  <2>3. ASSUME catalog["tool"][n] \notin Enabled PROVE FALSE
    <3>1. (catalog["tool"][n] \in Enabled) = FALSE  BY <2>3
    <3>2. candidate[2] = [name |-> n, aliases |-> {}, enabled |-> FALSE]
      BY <2>1, <3>1, Zenon
    <3>3. candidate[2].enabled = FALSE  BY <3>2
    <3> QED  BY <1>1, <3>3, Zenon
  <2>4. catalog["tool"][n] \in Enabled  BY <2>3
  <2>5. name = n  BY <1>1, <2>2 DEF Answers
  <2> QED  BY <2>1, <2>4, <2>5
<1> QED  BY <1>2 DEF ToolsComeFromLiveServers

(* However hosts refresh, close or mount while calls wait for their retry:  *)
(* an attempt reaches a tool through the one mount that offers its name,    *)
(* and an MCP tool on an enabled server whose last word was a refresh       *)
(* (ToolCenter.invoke, ToolCenter._route_table, MCPCenter.invoke).          *)
THEOREM AttemptsAreRouted == Spec => AttemptsReachOneLiveTool
<1> DEFINE Inv == ToolInv /\ McpInv /\ mounted \subseteq Mounts
<1>1. Init => Inv  BY ToolInitInv, McpInitInv DEF Init, ToolInit
<1>2. Inv /\ [Next]_vars => Inv'
  <2> SUFFICES ASSUME Inv, [Next]_vars PROVE Inv'  OBVIOUS
  <2>1. ToolInv'  BY ToolStep
  <2>2. [McpNext]_mcpVars
    BY DEF Next, ToolNext, Mount, Ask, LookUp, Refuse, FirstAttempt, Answer, Put, CutOff, vars
  <2>3. McpInv'  BY <2>2, McpStep
  <2>4. (mounted \subseteq Mounts)'
    BY DEF Next, ToolNext, Mount, Ask, LookUp, Refuse, FirstAttempt, Answer, Put, CutOff,
           vars, toolVars
  <2> QED  BY <2>1, <2>3, <2>4
<1>3. Inv /\ [Next]_vars =>
        [\A c \in Calls : ran'[c] > ran[c] =>
           LET name == call[c].request.name IN
           /\ Cardinality(Candidates(name)) = 1
           /\ call'[c].mount = "mcp" =>
                /\ catalog["tool"][name] \in Enabled
                /\ server[catalog["tool"][name]].status \in {"refreshed", "partial"}]_vars
  <2> SUFFICES ASSUME Inv, Next, NEW c \in Calls, ran'[c] > ran[c]
               PROVE  LET name == call[c].request.name IN
                      /\ Cardinality(Candidates(name)) = 1
                      /\ call'[c].mount = "mcp" =>
                           /\ catalog["tool"][name] \in Enabled
                           /\ server[catalog["tool"][name]].status \in {"refreshed", "partial"}
    OBVIOUS
  <2> DEFINE name == call[c].request.name
  <2>1. ran \in [Calls -> Nat]  BY DEF ToolInv, ToolTyped
  <2>2. PICK d \in Calls, n \in Nat : Attempt(d, n)
    <3>1. ran' # ran  BY <2>1
    <3>2. ASSUME NEW d \in Calls, NEW outcome \in Outcomes, Answer(d, outcome)
          PROVE  \E n \in Nat : Attempt(d, n)
      <4>1. call[d].attempts + 1 \in Nat  BY DEF ToolInv, ToolTyped, CallRecord
      <4>2. Retries(d, outcome)  BY <3>1, <3>2 DEF Answer
      <4> QED  BY <3>2, <4>1, <4>2 DEF Answer
    <3>3. ASSUME NEW d \in Calls, FirstAttempt(d) PROVE \E n \in Nat : Attempt(d, n)
      BY <3>3 DEF FirstAttempt
    <3> QED
      BY <3>1, <3>2, <3>3
      DEF Next, ToolNext, Mount, Ask, LookUp, Refuse, Put, CutOff, toolVars
  <2>3. d = c  BY <2>1, <2>2, AttemptedCall
  <2>4. RouteOf(name) \in Mounts /\ call'[c].mount = RouteOf(name)
    BY <2>1, <2>2, <2>3, AttemptedCall
  <2> HIDE DEF name
  <2>5. Cardinality(Candidates(name)) = 1  BY <2>4, RouteIsUnique
  <2>6. PICK candidate \in Candidates(name) : candidate[1] = RouteOf(name)
    BY <2>4, RouteIsUnique
  <2>7. call'[c].mount = "mcp" =>
          /\ catalog["tool"][name] \in Enabled
          /\ server[catalog["tool"][name]].status \in {"refreshed", "partial"}
    BY <2>4, <2>6, McpRouteIsLive DEF McpInv
  <2> QED  BY <2>5, <2>7 DEF name
<1> QED  BY <1>1, <1>2, <1>3, PTL DEF Spec, AttemptsReachOneLiveTool

-----------------------------------------------------------------------------
(* The least of some numbers, which approved_for finds first.               *)

LEMMA LeastIsOne ==
  ASSUME NEW S \in SUBSET Nat, S # {}
  PROVE  Min(S) \in S
<1>1. PICK x \in S : \A y \in S : x <= y  BY LeastNumber
<1> QED  BY <1>1 DEF Min

-----------------------------------------------------------------------------
(* What the stores hold.                                                    *)

Subjects == {Subject(gated) : gated \in GatedCalls}
Verdicts == {"allow", "approval_required", "deny"}
Records == [subject : Subjects, run : GatedRuns, status : Decided \cup {"pending"}]
Grants == [record : Nat, subject : Subjects, status : Decided]
Decisions == [run : GatedRuns, subject : Subjects, status : Verdicts]

ApprovalTypeOK ==
  /\ queue \in Seq(Records)
  /\ grants \in [GatedRuns -> SUBSET Grants]
  /\ audit \in Seq(Decisions)
  /\ passed \subseteq [run : GatedRuns, call : GatedCalls, status : Verdicts, by : Nat]

(* A grant is a copy of its record, and a decided record is not decided     *)
(* again: the copy stays true.                                              *)
GrantsHold ==
  \A r \in GatedRuns : \A g \in grants[r] :
    g.record \in DOMAIN queue /\ queue[g.record].subject = g.subject
      /\ queue[g.record].status = g.status

GateInv == ApprovalTypeOK /\ GrantsHold /\ PassedIsApproved

LEMMA VerdictType ==
  ASSUME NEW policies, NEW gated
  PROVE  Composite(policies, gated) \in Verdicts
  BY DEF Composite, Strictest, Verdicts

\* What was recorded stays recorded.
LEMMA AuditGrows ==
  ASSUME NEW s \in Seq(Decisions), NEW d
  PROVE  ToSet(Append(s, d)) = ToSet(s) \cup {d}
<1>1. /\ DOMAIN Append(s, d) = 1 .. Len(s) + 1 /\ DOMAIN s = 1 .. Len(s) /\ Len(s) \in Nat
      /\ \A i \in 1 .. Len(s) : Append(s, d)[i] = s[i]
      /\ Append(s, d)[Len(s) + 1] = d
  OBVIOUS
<1> QED  BY <1>1 DEF ToSet

LEMMA GateInitInv == ApprovalInit => GateInv
  BY DEF ApprovalInit, GateInv, ApprovalTypeOK, GrantsHold, PassedIsApproved

-----------------------------------------------------------------------------
(* Steps that change one record of the queue, or add one, keep what relies  *)
(* on decided records.                                                      *)

\* Decided records are as they were.
KeepsDecided ==
  /\ DOMAIN queue \subseteq DOMAIN queue'
  /\ \A i \in DOMAIN queue : queue[i].status # "pending" => queue'[i] = queue[i]

LEMMA KeptGrants ==
  ASSUME ApprovalTypeOK, GrantsHold, KeepsDecided, UNCHANGED grants
  PROVE  GrantsHold'
<1> SUFFICES ASSUME NEW r \in GatedRuns, NEW g \in grants[r]
             PROVE  /\ g.record \in DOMAIN queue'
                    /\ queue'[g.record].subject = g.subject
                    /\ queue'[g.record].status = g.status
  BY DEF GrantsHold
<1>1. g.status \in Decided  BY DEF ApprovalTypeOK, Grants
<1>2. queue[g.record].status # "pending"  BY <1>1 DEF GrantsHold, Decided
<1> QED  BY <1>2 DEF GrantsHold, KeepsDecided

LEMMA KeptPassed ==
  ASSUME PassedIsApproved, KeepsDecided, UNCHANGED passed, ToSet(audit) \subseteq ToSet(audit')
  PROVE  PassedIsApproved'
<1> SUFFICES ASSUME NEW p \in passed
             PROVE  /\ [run |-> p.run, subject |-> Subject(p.call), status |-> p.status]
                          \in ToSet(audit')
                    /\ \/ p.by = 0 /\ p.status = "allow"
                       \/ /\ p.status = "approval_required"
                          /\ p.by \in DOMAIN queue' /\ queue'[p.by].status = "approved"
                          /\ queue'[p.by].subject = Subject(p.call)
  BY DEF PassedIsApproved
<1> QED  BY DEF PassedIsApproved, KeepsDecided

\* A call that passes the gate passes by a record that approved its subject.
LEMMA GateStep ==
  ASSUME GateInv, NEW r \in GatedRuns, NEW gated \in GatedCalls, Gate(r, gated)
  PROVE  GateInv'
<1> USE DEF GateInv
<1> DEFINE status == Composite(policy, gated)
           decision == [run |-> r, subject |-> Subject(gated), status |-> status]
           used == IF status = "allow" THEN {0}
                   ELSE {g.record : g \in GrantsFor(r, Subject(gated))}
           pass == [run |-> r, call |-> gated, status |-> status, by |-> Min(used)]
<1>1. status \in Verdicts  BY VerdictType
<1>2. /\ audit' = Append(audit, decision)
      /\ UNCHANGED <<policy, grants>>
      /\ \/ /\ Unlocked(r, gated, status)
            /\ passed' = passed \cup {pass}
            /\ UNCHANGED queue
         \/ /\ queue' = Append(queue, Asked(r, gated))
            /\ UNCHANGED passed
         \/ UNCHANGED <<queue, passed>>
  BY DEF Gate, Recorded, Submitted
<1>3. Subject(gated) \in Subjects  BY DEF Subjects
<1>4. decision \in Decisions  BY <1>1, <1>3 DEF Decisions
<1> HIDE DEF decision
<1>5. ToSet(audit') = ToSet(audit) \cup {decision} /\ audit' \in Seq(Decisions)
  BY <1>2, <1>4, AuditGrows DEF ApprovalTypeOK
<1>6. Asked(r, gated) \in Records  BY <1>3 DEF Asked, Records
<1>7. CASE /\ Unlocked(r, gated, status) /\ passed' = passed \cup {pass} /\ UNCHANGED queue
  <2>1. /\ Min(used) \in Nat
        /\ \/ Min(used) = 0 /\ status = "allow"
           \/ /\ status = "approval_required"
              /\ Min(used) \in DOMAIN queue /\ queue[Min(used)].status = "approved"
              /\ queue[Min(used)].subject = Subject(gated)
    <3>1. CASE status = "allow"
      <4>1. used = {0}  BY <3>1
      <4>2. Min(used) \in used  BY <4>1, LeastIsOne
      <4> QED  BY <3>1, <4>1, <4>2
    <3>2. CASE status # "allow"
      <4>1. status = "approval_required" /\ GrantsFor(r, Subject(gated)) # {}
        BY <1>7, <3>2 DEF Unlocked
      <4>2. used = {g.record : g \in GrantsFor(r, Subject(gated))}  BY <3>2
      <4>3. GrantsFor(r, Subject(gated)) \subseteq grants[r] /\ grants[r] \subseteq Grants
        BY DEF GrantsFor, ApprovalTypeOK
      <4>4. used \subseteq Nat /\ used # {}  BY <4>1, <4>2, <4>3 DEF Grants
      <4>5. Min(used) \in used  BY <4>4, LeastIsOne
      <4>6. PICK g \in GrantsFor(r, Subject(gated)) : Min(used) = g.record  BY <4>2, <4>5
      <4>7. g \in grants[r] /\ g.status = "approved" /\ g.subject = Subject(gated)
        BY <4>6 DEF GrantsFor
      <4> HIDE DEF used, status
      <4>8. g.record \in DOMAIN queue /\ queue[g.record].subject = g.subject
              /\ queue[g.record].status = g.status
        BY <4>7 DEF GrantsHold
      <4> QED  BY <4>1, <4>4, <4>5, <4>6, <4>7, <4>8
    <3> QED  BY <3>1, <3>2
  <2> HIDE DEF status, used
  <2>2. pass \in [run : GatedRuns, call : GatedCalls, status : Verdicts, by : Nat]
    BY <1>1, <2>1
  <2>3. ApprovalTypeOK'  BY <1>2, <1>5, <1>7, <2>2 DEF ApprovalTypeOK
  <2>4. GrantsHold'  BY <1>2, <1>7 DEF GrantsHold
  <2>5. PassedIsApproved'
    <3> SUFFICES ASSUME NEW p \in passed \cup {pass}
                 PROVE  /\ [run |-> p.run, subject |-> Subject(p.call), status |-> p.status]
                              \in ToSet(audit')
                        /\ \/ p.by = 0 /\ p.status = "allow"
                           \/ /\ p.status = "approval_required"
                              /\ p.by \in DOMAIN queue /\ queue[p.by].status = "approved"
                              /\ queue[p.by].subject = Subject(p.call)
      BY <1>7 DEF PassedIsApproved
    <3>1. CASE p \in passed  BY <3>1, <1>5 DEF PassedIsApproved
    <3>2. CASE p = pass
      <4>1. p.run = r /\ p.call = gated /\ p.status = status /\ p.by = Min(used)  BY <3>2
      <4>2. [run |-> p.run, subject |-> Subject(p.call), status |-> p.status] \in ToSet(audit')
        BY <4>1, <1>5 DEF decision
      <4> QED  BY <2>1, <4>1, <4>2
    <3> QED  BY <3>1, <3>2
  <2> QED  BY <2>3, <2>4, <2>5
<1>8. CASE queue' = Append(queue, Asked(r, gated)) /\ UNCHANGED passed
  <2>1. KeepsDecided  BY <1>8 DEF KeepsDecided, ApprovalTypeOK
  <2>2. ApprovalTypeOK'  BY <1>2, <1>5, <1>6, <1>8 DEF ApprovalTypeOK
  <2>3. GrantsHold'  BY <1>2, <2>1, KeptGrants
  <2>4. PassedIsApproved'  BY <1>5, <1>8, <2>1, KeptPassed
  <2> QED  BY <2>2, <2>3, <2>4
<1>9. CASE UNCHANGED <<queue, passed>>
  <2>1. KeepsDecided  BY <1>9 DEF KeepsDecided
  <2>2. ApprovalTypeOK'  BY <1>2, <1>5, <1>9 DEF ApprovalTypeOK
  <2>3. GrantsHold'  BY <1>2, <2>1, KeptGrants
  <2>4. PassedIsApproved'  BY <1>5, <1>9, <2>1, KeptPassed
  <2> QED  BY <2>2, <2>3, <2>4
<1> QED  BY <1>2, <1>7, <1>8, <1>9

\* Only a pending record is decided.
LEMMA DecideStep ==
  ASSUME GateInv, NEW i \in 1 .. MaxAsked, NEW status \in Decided, Decide(i, status)
  PROVE  GateInv'
<1> USE DEF GateInv
<1>1. /\ i \in DOMAIN queue /\ queue[i].status = "pending"
      /\ queue' = [queue EXCEPT ![i].status = status]
      /\ UNCHANGED <<policy, grants, passed, audit>>
  BY DEF Decide, Decidable, Resolved
<1>2. queue[i] \in Records  BY <1>1 DEF ApprovalTypeOK
<1>3. [queue[i] EXCEPT !.status = status] \in Records  BY <1>2 DEF Records
<1>4. queue' = [queue EXCEPT ![i] = [queue[i] EXCEPT !.status = status]]  BY <1>1
<1>5. queue' \in Seq(Records) /\ DOMAIN queue' = DOMAIN queue
  BY <1>1, <1>3, <1>4 DEF ApprovalTypeOK
<1>6. KeepsDecided  BY <1>1, <1>4, <1>5 DEF KeepsDecided, ApprovalTypeOK
<1>7. ApprovalTypeOK'  BY <1>1, <1>5 DEF ApprovalTypeOK
<1>8. GrantsHold'  BY <1>1, <1>6, KeptGrants
<1>9. PassedIsApproved'  BY <1>1, <1>6, KeptPassed
<1> QED  BY <1>7, <1>8, <1>9

\* A context is made of records that are decided.
LEMMA ResumeStep ==
  ASSUME GateInv, NEW r \in GatedRuns, NEW statuses, NEW from, NEW given,
         Resume(r, statuses, from, given)
  PROVE  GateInv'
<1> USE DEF GateInv
<1> DEFINE context == ResumeContext(statuses, from, given)
<1>1. /\ grants' = [grants EXCEPT ![r] = context]
      /\ UNCHANGED <<policy, queue, passed, audit>>
  BY DEF Resume
<1>2. ASSUME NEW g \in context
      PROVE  /\ g \in Grants /\ g.record \in DOMAIN queue
             /\ queue[g.record].subject = g.subject /\ queue[g.record].status = g.status
  <2>1. PICK i \in DOMAIN queue : queue[i].status # "pending" /\ g = Grant(i)
    BY <1>2 DEF ResumeContext
  <2>2. queue[i] \in Records /\ i \in Nat  BY DEF ApprovalTypeOK
  <2>3. g.record = i /\ g.subject = queue[i].subject /\ g.status = queue[i].status
    BY <2>1 DEF Grant
  <2>4. queue[i].subject \in Subjects /\ queue[i].status \in Decided  BY <2>1, <2>2 DEF Records
  <2>5. g \in Grants  BY <2>1, <2>2, <2>4 DEF Grant, Grants
  <2> QED  BY <2>1, <2>3, <2>5
<1> HIDE DEF context
<1>3. ApprovalTypeOK'
  <2>1. context \in SUBSET Grants  BY <1>2
  <2> QED  BY <1>1, <2>1 DEF ApprovalTypeOK
<1>4. GrantsHold'
  <2> SUFFICES ASSUME NEW q \in GatedRuns, NEW g \in grants'[q]
               PROVE  /\ g.record \in DOMAIN queue
                      /\ queue[g.record].subject = g.subject /\ queue[g.record].status = g.status
    BY <1>1 DEF GrantsHold
  <2>1. CASE q = r
    <3>1. g \in context  BY <1>1, <2>1 DEF ApprovalTypeOK
    <3> QED  BY <3>1, <1>2
  <2>2. CASE q # r
    <3>1. g \in grants[q]  BY <1>1, <2>2 DEF ApprovalTypeOK
    <3> QED  BY <3>1 DEF GrantsHold
  <2> QED  BY <2>1, <2>2
<1>5. PassedIsApproved'  BY <1>1 DEF PassedIsApproved
<1> QED  BY <1>3, <1>4, <1>5

LEMMA GateNextKeeps == GateInv /\ [ApprovalNext]_approvalVars => GateInv'
<1> SUFFICES ASSUME GateInv, [ApprovalNext]_approvalVars PROVE GateInv'  OBVIOUS
<1>1. ASSUME NEW rules \in RuleLists, ChangePolicy(rules) PROVE GateInv'
  BY <1>1 DEF ChangePolicy, GateInv, ApprovalTypeOK, GrantsHold, PassedIsApproved
<1>2. CASE UNCHANGED approvalVars
  BY <1>2 DEF approvalVars, GateInv, ApprovalTypeOK, GrantsHold, PassedIsApproved
<1> QED  BY <1>1, <1>2, GateStep, DecideStep, ResumeStep DEF ApprovalNext

-----------------------------------------------------------------------------
(* For every policy, every number of runs and every order of asking,        *)
(* deciding and resuming: what passed the gate where approval was wanted    *)
(* was approved by a record about that very thing, the record still says    *)
(* so, and the decision is in the audit (approvals.py, policy.py).          *)
THEOREM PassesAreApproved == ApprovalSpec => []PassedIsApproved
<1>1. ApprovalInit => GateInv  BY GateInitInv
<1>2. GateInv /\ [ApprovalNext]_approvalVars => GateInv'  BY GateNextKeeps
<1>3. GateInv => PassedIsApproved  BY DEF GateInv
<1> QED  BY <1>1, <1>2, <1>3, PTL DEF ApprovalSpec

-----------------------------------------------------------------------------
(* The event stream: what the numbers on the log are.                       *)

LogNumbered ==
  /\ IsList(emitted)
  /\ \A i \in DOMAIN emitted : emitted[i].seq \in 1..Len(emitted)
  /\ \A i \in DOMAIN emitted :
       emitted[i].run # NoTag =>
         /\ emitted[i].run \in StreamRuns
         /\ emitted[i].seq <= Cardinality(OfRun(emitted[i].run))
         /\ \A j \in OfRun(emitted[i].run) : i < j => emitted[i].seq < emitted[j].seq
         /\ emitted[i].type \in TerminalTypes => \A j \in OfRun(emitted[i].run) : j <= i

LEMMA LogFacts ==
  ASSUME LogNumbered
  PROVE  /\ Len(emitted) \in Nat /\ DOMAIN emitted = 1..Len(emitted)
         /\ \A r : OfRun(r) \subseteq DOMAIN emitted /\ IsFiniteSet(OfRun(r))
         /\ \A r : Cardinality(OfRun(r)) \in Nat /\ Cardinality(OfRun(r)) <= Len(emitted)
<1>1. Len(emitted) \in Nat /\ DOMAIN emitted = 1..Len(emitted)
  BY ListOf DEF LogNumbered
<1>2. ASSUME NEW r
      PROVE  /\ OfRun(r) \subseteq DOMAIN emitted /\ IsFiniteSet(OfRun(r))
             /\ Cardinality(OfRun(r)) \in Nat /\ Cardinality(OfRun(r)) <= Len(emitted)
  <2>1. OfRun(r) \subseteq 1..Len(emitted)
    BY <1>1 DEF OfRun
  <2>2. IsFiniteSet(1..Len(emitted)) /\ Cardinality(1..Len(emitted)) = Len(emitted)
    <3>1. PICK n \in Nat : n = Len(emitted)
      BY <1>1
    <3>2. 1 \in Int /\ n \in Int
      BY <3>1
    <3>3. IsFiniteSet(1..n) /\ Cardinality(1..n) = IF 1 > n THEN 0 ELSE n - 1 + 1
      BY <3>2, FS_Interval
    <3>4. Cardinality(1..n) = n
      BY <3>1, <3>3
    <3> QED
      BY <3>1, <3>3, <3>4
  <2> QED
    BY <1>1, <2>1, <2>2, FS_Subset, FS_CardinalityType
<1> QED
  BY <1>1, <1>2

\* One event more.
LEMMA OneEventMore ==
  ASSUME LogNumbered, NEW e, emitted' = Append(emitted, e)
  PROVE  /\ IsList(emitted') /\ Len(emitted') = Len(emitted) + 1
         /\ DOMAIN emitted' = DOMAIN emitted \cup {Len(emitted) + 1}
         /\ Len(emitted) + 1 \notin DOMAIN emitted
         /\ \A i \in DOMAIN emitted : i < Len(emitted) + 1
         /\ \A i \in DOMAIN emitted : emitted'[i] = emitted[i]
         /\ emitted'[Len(emitted) + 1] = e
<1>1. Len(emitted) \in Nat /\ DOMAIN emitted = 1..Len(emitted) /\ IsList(emitted)
  BY LogFacts DEF LogNumbered
<1>2. /\ IsList(Append(emitted, e))
      /\ Len(Append(emitted, e)) = Len(emitted) + 1
      /\ DOMAIN Append(emitted, e) = 1..(Len(emitted) + 1)
      /\ \A i \in DOMAIN emitted : Append(emitted, e)[i] = emitted[i]
      /\ Append(emitted, e)[Len(emitted) + 1] = e
  BY <1>1, ListAppend
<1> QED
  BY <1>1, <1>2

\* An event of a run that has not ended, or of none, keeps the numbers in order.
LEMMA EventKeepsNumbers ==
  ASSUME LogNumbered, NEW e, emitted' = Append(emitted, e),
         \/ /\ e.run \in StreamRuns /\ ~RunEnded(e.run)
            /\ e.seq = Cardinality(OfRun(e.run)) + 1
         \/ e.run = NoTag /\ e.seq = Len(emitted) + 1
  PROVE  LogNumbered'
<1> DEFINE n == Len(emitted) + 1
           After(r) == {i \in DOMAIN emitted' : emitted'[i].run = r}
<1>1. /\ Len(emitted) \in Nat /\ DOMAIN emitted = 1..Len(emitted)
      /\ \A r : OfRun(r) \subseteq DOMAIN emitted /\ IsFiniteSet(OfRun(r))
      /\ \A r : Cardinality(OfRun(r)) \in Nat /\ Cardinality(OfRun(r)) <= Len(emitted)
  BY LogFacts
<1>2. /\ IsList(emitted') /\ Len(emitted') = n
      /\ DOMAIN emitted' = DOMAIN emitted \cup {n}
      /\ n \notin DOMAIN emitted /\ \A i \in DOMAIN emitted : i < n
      /\ \A i \in DOMAIN emitted : emitted'[i] = emitted[i]
      /\ emitted'[n] = e
  BY OneEventMore
<1>3. n \in Nat
  BY <1>1
<1> HIDE DEF n
<1>4. \A r : After(r) = IF e.run = r THEN OfRun(r) \cup {n} ELSE OfRun(r)
  BY <1>2 DEF OfRun
<1> HIDE DEF After
<1>5. Cardinality(After(e.run)) = Cardinality(OfRun(e.run)) + 1
  <2>1. After(e.run) = OfRun(e.run) \cup {n} /\ n \notin OfRun(e.run)
    BY <1>1, <1>2, <1>4
  <2> QED
    BY <1>1, <2>1, FS_AddElement
<1>6. \A r : e.run # r => Cardinality(After(r)) = Cardinality(OfRun(r))
  BY <1>4
<1>7. e.seq \in 1..n
  BY <1>1 DEF n
<1>8. ASSUME NEW i \in DOMAIN emitted'
      PROVE  emitted'[i].seq \in 1..n
  <2>1. CASE i = n
    BY <1>2, <1>7, <2>1
  <2>2. CASE i \in DOMAIN emitted
    <3>1. emitted[i].seq \in 1..Len(emitted) /\ emitted'[i] = emitted[i]
      BY <1>2, <2>2 DEF LogNumbered
    <3> QED
      BY <1>1, <3>1 DEF n
  <2> QED
    BY <1>2, <2>1, <2>2
<1>9. ASSUME NEW i \in DOMAIN emitted', emitted'[i].run # NoTag
      PROVE  LET r == emitted'[i].run IN
             /\ r \in StreamRuns
             /\ emitted'[i].seq <= Cardinality(After(r))
             /\ \A j \in After(r) : i < j => emitted'[i].seq < emitted'[j].seq
             /\ emitted'[i].type \in TerminalTypes => \A j \in After(r) : j <= i
  <2> DEFINE r == emitted'[i].run
  <2>1. CASE i = n
    <3>1. emitted'[i] = e /\ r = e.run /\ e.run # NoTag
      BY <1>2, <1>9, <2>1
    <3>2. e.run \in StreamRuns /\ ~RunEnded(e.run) /\ e.seq = Cardinality(OfRun(e.run)) + 1
      BY <3>1
    <3>3. \A j \in After(r) : j <= n
      BY <1>1, <1>2, <1>3, <1>4, <3>1 DEF n
    <3>4. \A j \in After(r) : j \in Nat
      BY <1>1, <1>3, <1>4
    <3>5. emitted'[i].seq <= Cardinality(After(r))
      <4>1. Cardinality(After(r)) = Cardinality(OfRun(e.run)) + 1
        BY <1>5, <3>1
      <4> QED
        BY <1>1, <3>1, <3>2, <4>1
    <3> HIDE DEF r
    <3>6. ASSUME NEW j \in After(r) PROVE ~(i < j)
      <4>1. j \in Nat /\ j <= n
        BY <3>3, <3>4
      <4> QED
        BY <1>3, <2>1, <4>1
    <3> QED
      BY <2>1, <3>1, <3>2, <3>3, <3>5, <3>6 DEF r
  <2>2. CASE i \in DOMAIN emitted
    <3>1. emitted'[i] = emitted[i] /\ r = emitted[i].run /\ r # NoTag
      BY <1>2, <1>9, <2>2
    <3> HIDE DEF r
    <3>2. /\ r \in StreamRuns /\ emitted[i].seq <= Cardinality(OfRun(r))
          /\ \A j \in OfRun(r) : i < j => emitted[i].seq < emitted[j].seq
          /\ emitted[i].type \in TerminalTypes => \A j \in OfRun(r) : j <= i
      BY <2>2, <3>1 DEF LogNumbered
    <3>3. emitted[i].seq \in Nat /\ i \in OfRun(r)
      <4>1. emitted[i].seq \in 1..Len(emitted)
        BY <2>2 DEF LogNumbered
      <4> QED
        BY <1>1, <2>2, <3>1, <4>1 DEF OfRun
    <3>4. CASE e.run # r
      <4>1. After(r) = OfRun(r)
        BY <1>4, <3>4
      <4>2. \A j \in OfRun(r) : emitted'[j] = emitted[j]
        BY <1>1, <1>2
      <4> QED
        BY <3>1, <3>2, <4>1, <4>2 DEF r
    <3>5. CASE e.run = r
      <4>1. ~RunEnded(r) /\ e.seq = Cardinality(OfRun(r)) + 1
        BY <3>1, <3>5
      <4>2. emitted[i].type \notin TerminalTypes
        BY <3>3, <4>1 DEF RunEnded
      <4>3. After(r) = OfRun(r) \cup {n} /\ Cardinality(After(r)) = Cardinality(OfRun(r)) + 1
        <5>1. After(r) = OfRun(r) \cup {n}
          BY <1>4, <3>5
        <5>2. Cardinality(After(r)) = Cardinality(OfRun(r)) + 1
          BY <1>5, <3>5
        <5> QED
          BY <5>1, <5>2
      <4>4. emitted[i].seq <= Cardinality(After(r))
        BY <1>1, <3>2, <3>3, <4>3
      <4>5. ASSUME NEW j \in After(r), i < j PROVE emitted'[i].seq < emitted'[j].seq
        <5>1. CASE j \in OfRun(r)
          <6>1. emitted'[j] = emitted[j]
            BY <1>1, <1>2, <5>1
          <6> QED
            BY <3>1, <3>2, <4>5, <5>1, <6>1
        <5>2. CASE j = n
          <6>1. emitted'[j].seq = Cardinality(OfRun(r)) + 1
            BY <1>2, <4>1, <5>2
          <6> QED
            BY <1>1, <3>1, <3>2, <3>3, <6>1
        <5> QED
          BY <4>3, <5>1, <5>2
      <4> QED
        BY <3>1, <3>2, <4>2, <4>4, <4>5 DEF r
    <3> QED
      BY <3>4, <3>5
  <2> QED
    BY <1>2, <2>1, <2>2
<1>10. \A i \in DOMAIN emitted' : emitted'[i].seq \in 1..Len(emitted')
  BY <1>2, <1>8
<1>11. \A i \in DOMAIN emitted' :
         emitted'[i].run # NoTag =>
           /\ emitted'[i].run \in StreamRuns
           /\ emitted'[i].seq <= Cardinality(After(emitted'[i].run))
           /\ \A j \in After(emitted'[i].run) : i < j => emitted'[i].seq < emitted'[j].seq
           /\ emitted'[i].type \in TerminalTypes => \A j \in After(emitted'[i].run) : j <= i
  BY <1>9
<1> QED
  BY <1>2, <1>10, <1>11 DEF LogNumbered, OfRun, After

\* The positions of a run's events that match a cursor, and their numbers.
LEMMA MatchingFacts ==
  ASSUME LogNumbered, NEW cursor, cursor.run # NoTag
  PROVE  /\ Matching(cursor) \subseteq OfRun(cursor.run)
         /\ Matching(cursor) \subseteq 1..Len(emitted)
         /\ \A i \in Matching(cursor) : i \in Nat /\ emitted[i].seq \in 1..Len(emitted)
         /\ \A i, j \in Matching(cursor) : i < j <=> emitted[i].seq < emitted[j].seq
         /\ \A i, j \in Matching(cursor) : i <= j <=> emitted[i].seq <= emitted[j].seq
<1>1. /\ Len(emitted) \in Nat /\ DOMAIN emitted = 1..Len(emitted)
      /\ \A i \in DOMAIN emitted : emitted[i].seq \in 1..Len(emitted)
  BY LogFacts DEF LogNumbered
<1>2. \A i \in Matching(cursor) : i \in DOMAIN emitted /\ emitted[i].run = cursor.run
  BY DEF Matching, Matches
<1>3. ASSUME NEW i \in Matching(cursor), NEW j \in Matching(cursor)
      PROVE  i < j => emitted[i].seq < emitted[j].seq
  BY <1>2 DEF LogNumbered, OfRun
<1>4. \A i \in Matching(cursor) : i \in Nat /\ emitted[i].seq \in Nat
  BY <1>1, <1>2
<1>5. ASSUME NEW i \in Matching(cursor), NEW j \in Matching(cursor)
      PROVE  /\ i < j <=> emitted[i].seq < emitted[j].seq
             /\ i <= j <=> emitted[i].seq <= emitted[j].seq
  <2>1. CASE i < j
    BY <1>3, <1>4, <2>1
  <2>2. CASE j < i
    BY <1>3, <1>4, <2>2
  <2>3. CASE i = j
    BY <1>4, <2>3
  <2> QED
    BY <1>4, <2>1, <2>2, <2>3
<1> QED
  BY <1>1, <1>2, <1>4, <1>5 DEF OfRun
-----------------------------------------------------------------------------
(* The sort by number gives the positions of one run's events in the order  *)
(* of the log.                                                              *)

LEMMA InLogAscends ==
  ASSUME LogNumbered, NEW P, P \subseteq 1..Len(emitted)
  PROVE  Ascending(InLog(P), P)
<1>1. PICK n \in Nat : n = Len(emitted) /\ DOMAIN emitted = 1..n
  BY LogFacts
<1>2. Ascending(Filtered([i \in 1..n |-> i], P), (1..n) \cap P)
  BY NumbersAscend, AscendingFiltered
<1>3. (1..n) \cap P = P
  BY <1>1
<1> QED
  BY <1>1, <1>2, <1>3 DEF InLog

\* The positions with one number, those with a number up to one, and positions
\* in the order of their numbers.
Numbered(P, n) == {i \in P : emitted[i].seq = n}
NumberedUpTo(P, n) == {i \in P : emitted[i].seq <= n}
NumbersIncrease(P) ==
  /\ P \subseteq 1..Len(emitted)
  /\ \A i \in P : emitted[i].seq \in 1..Len(emitted)
  /\ \A i, j \in P : i < j <=> emitted[i].seq < emitted[j].seq

\* The recursion of Ordered.
Sorting(f, P) ==
  f = [n \in 0..Len(emitted) |->
         IF n = 0 THEN << >> ELSE f[n - 1] \o InLog(Numbered(P, n))]

LEMMA SortingExists ==
  ASSUME LogNumbered, NEW P, P \subseteq 1..Len(emitted)
  PROVE  \E f : Sorting(f, P)
<1> DEFINE V == Seq(Nat)
           turn(n) == InLog(Numbered(P, n))
<1>1. PICK m \in Nat : m = Len(emitted)
  BY LogFacts
<1>2. \A n : turn(n) \in V
  <2> SUFFICES ASSUME NEW n PROVE turn(n) \in V
    OBVIOUS
  <2>1. Numbered(P, n) \subseteq 1..Len(emitted)
    BY DEF Numbered
  <2>2. Ascending(turn(n), Numbered(P, n))
    BY <2>1, InLogAscends
  <2> QED
    BY <2>2 DEF Ascending
<1> HIDE DEF turn
<1> DEFINE step == [p \in (1..m) \X V |-> p[2] \o turn(p[1])]
<1>3. step \in [(1..m) \X V -> V]
  BY <1>2
<1>4. << >> \in V
  OBVIOUS
<1>5. PICK f \in [0..m -> V] : Iterates(f, m, << >>, step)
  <2> HIDE DEF V, step
  <2> QED
    BY <1>3, <1>4, RecursionExists
<1>6. f[0] = << >> /\ \A n \in 1..m : f[n] = f[n - 1] \o turn(n)
  <2>1. ASSUME NEW n \in 1..m PROVE f[n] = f[n - 1] \o turn(n)
    <3>1. f[n] = step[<<n, f[n - 1]>>]
      BY <1>5 DEF Iterates
    <3>2. f[n - 1] \in V
      OBVIOUS
    <3> QED
      BY <3>1, <3>2
  <2> QED
    BY <1>5, <2>1 DEF Iterates
<1> DEFINE e(n) == IF n = 0 THEN << >> ELSE f[n - 1] \o turn(n)
<1>7. \A n \in 0..m : f[n] = e(n)
  <2> SUFFICES ASSUME NEW n \in 0..m PROVE f[n] = e(n)
    OBVIOUS
  <2>1. CASE n = 0
    BY <1>6, <2>1
  <2>2. CASE n \in 1..m
    <3>1. n # 0
      BY <2>2
    <3> QED
      BY <1>6, <2>2, <3>1
  <2>3. n = 0 \/ n \in 1..m
    BY <1>1
  <2> QED
    BY <2>1, <2>2, <2>3
<1>8. f = [n \in 0..m |-> e(n)]
  <2> HIDE DEF e, V
  <2> QED
    BY <1>7
<1> QED
  BY <1>1, <1>8 DEF Sorting, turn, e

LEMMA SortingValues ==
  ASSUME NEW f, NEW P, Sorting(f, P), Len(emitted) \in Nat
  PROVE  /\ f[0] = << >>
         /\ \A n \in 1..Len(emitted) :
              f[n] = f[n - 1] \o InLog(Numbered(P, n))
<1> DEFINE e(n) == IF n = 0 THEN << >> ELSE f[n - 1] \o InLog(Numbered(P, n))
<1>1. f = [n \in 0..Len(emitted) |-> e(n)]
  BY DEF Sorting
<1> HIDE DEF e
<1>2. \A n \in 0..Len(emitted) : f[n] = e(n)
  BY <1>1
<1>3. f[0] = << >>
  <2>1. f[0] = e(0)
    BY <1>2
  <2> QED
    BY <2>1 DEF e
<1>4. ASSUME NEW n \in 1..Len(emitted)
      PROVE  f[n] = f[n - 1] \o InLog(Numbered(P, n))
  <2>1. n \in 0..Len(emitted) /\ n # 0
    OBVIOUS
  <2> QED
    BY <1>2, <2>1 DEF e
<1> QED
  BY <1>3, <1>4

LEMMA OrderedAscends ==
  ASSUME LogNumbered, NEW P, NumbersIncrease(P)
  PROVE  Ascending(Ordered(P), P)
<1> DEFINE f == CHOOSE h : Sorting(h, P)
<1>1. Len(emitted) \in Nat /\ P \subseteq 1..Len(emitted)
  BY LogFacts DEF NumbersIncrease
<1>2. Sorting(f, P)
  <2>1. \E h : Sorting(h, P)
    BY <1>1, SortingExists
  <2> QED
    BY <2>1, Zenon
<1>3. Ordered(P) = f[Len(emitted)]
  BY Zenon DEF Ordered, Sorting, Numbered
<1> HIDE DEF f
<1>4. f[0] = << >> /\ \A n \in 1..Len(emitted) : f[n] = f[n - 1] \o InLog(Numbered(P, n))
  BY <1>1, <1>2, SortingValues
<1>5. ASSUME NEW n PROVE Ascending(InLog(Numbered(P, n)), Numbered(P, n))
  <2>1. Numbered(P, n) \subseteq 1..Len(emitted)
    BY <1>1 DEF Numbered
  <2> QED
    BY <2>1, InLogAscends
<1>6. \A i \in P : emitted[i].seq \in Nat /\ emitted[i].seq # 0 /\ emitted[i].seq <= Len(emitted)
  BY <1>1 DEF NumbersIncrease
<1> DEFINE Fine == {n \in Nat : n <= Len(emitted) => Ascending(f[n], NumberedUpTo(P, n))}
<1>7. 0 \in Fine
  <2>1. NumberedUpTo(P, 0) = {}
    BY <1>6 DEF NumberedUpTo
  <2>2. Ascending(<< >>, {})
    BY DEF Ascending
  <2> QED
    BY <1>4, <2>1, <2>2
<1>8. ASSUME NEW n \in Nat, n \in Fine PROVE n + 1 \in Fine
  <2> SUFFICES ASSUME n + 1 <= Len(emitted) PROVE Ascending(f[n + 1], NumberedUpTo(P, n + 1))
    OBVIOUS
  <2>1. n + 1 \in 1..Len(emitted) /\ (n + 1) - 1 = n /\ n <= Len(emitted)
    BY <1>1
  <2>2. Ascending(f[n], NumberedUpTo(P, n))
    BY <1>8, <2>1
  <2>3. f[n + 1] = f[n] \o InLog(Numbered(P, n + 1))
    BY <1>4, <2>1
  <2>4. NumberedUpTo(P, n + 1) = NumberedUpTo(P, n) \cup Numbered(P, n + 1)
    BY <1>6 DEF NumberedUpTo, Numbered
  <2>5. ASSUME NEW x \in NumberedUpTo(P, n), NEW y \in Numbered(P, n + 1) PROVE x < y
    <3>1. /\ x \in P /\ y \in P /\ emitted[x].seq \in Nat /\ emitted[y].seq = n + 1
          /\ emitted[x].seq <= n
      BY <1>6 DEF NumberedUpTo, Numbered
    <3>2. emitted[x].seq < emitted[y].seq
      BY <3>1
    <3> QED
      BY <3>1, <3>2 DEF NumbersIncrease
  <2>6. Ascending(f[n] \o InLog(Numbered(P, n + 1)), NumberedUpTo(P, n) \cup Numbered(P, n + 1))
    BY <1>5, <2>2, <2>5, AscendingConcat
  <2> QED
    BY <2>3, <2>4, <2>6
<1>9. NumberedUpTo(P, Len(emitted)) = P
  BY <1>6 DEF NumberedUpTo
<1> HIDE DEF Fine
<1>10. Len(emitted) \in Fine
  BY <1>1, <1>7, <1>8, Induction
<1> QED
  BY <1>1, <1>3, <1>9, <1>10 DEF Fine
-----------------------------------------------------------------------------
(* A batch, and a tail of batches, of a client that follows one run.        *)

\* What the cursor asks for with a number above from and up to until.
Between(cursor, from, until) ==
  {i \in Matching(cursor) : from < emitted[i].seq /\ emitted[i].seq <= until}
\* A client that got that far has all it asked for of a run that is over.
AllGiven(cursor, until) ==
  RunEnded(cursor.run) /\ \A i \in Matching(cursor) : emitted[i].seq <= until
\* A number of the run, or none.
IsPlace(cursor, after) ==
  after \in Nat /\ (after = 0 \/ \E i \in OfRun(cursor.run) : emitted[i].seq = after)

LEMMA BatchFacts ==
  ASSUME LogNumbered, NEW cursor, cursor.run # NoTag, cursor.limit \in Nat \ {0},
         NEW after, IsPlace(cursor, after)
  PROVE  LET batch == Batch(cursor, after) IN
         /\ IsPlace(cursor, batch.next) /\ after <= batch.next
         /\ Ascending(batch.page, Between(cursor, after, batch.next))
         /\ batch.more \in BOOLEAN /\ batch.terminal \in BOOLEAN
         /\ batch.terminal => AllGiven(cursor, batch.next)
<1> DEFINE S == {i \in Matching(cursor) : Beyond(i, after)}
           selected == Ordered(S)
           size == IF Len(selected) < cursor.limit THEN Len(selected) ELSE cursor.limit
           page == SubSeq(selected, 1, size)
           next == IF page = << >> THEN after ELSE emitted[Last(page)].seq
           terminal == \E n \in DOMAIN page : emitted[page[n]].type \in TerminalTypes
<1>1. /\ Matching(cursor) \subseteq OfRun(cursor.run)
      /\ Matching(cursor) \subseteq 1..Len(emitted)
      /\ \A i \in Matching(cursor) : i \in Nat /\ emitted[i].seq \in 1..Len(emitted)
      /\ \A i, j \in Matching(cursor) : i < j <=> emitted[i].seq < emitted[j].seq
      /\ \A i, j \in Matching(cursor) : i <= j <=> emitted[i].seq <= emitted[j].seq
  BY MatchingFacts
<1>2. after \in Nat
  BY DEF IsPlace
<1>3. S \subseteq Matching(cursor) /\ \A i \in Matching(cursor) : i \in S <=> after < emitted[i].seq
  <2>1. \A i \in Matching(cursor) : emitted[i].seq \in Nat
    BY <1>1, LogFacts
  <2> QED
    BY <1>2, <2>1 DEF Beyond
<1> HIDE DEF S
<1>4. NumbersIncrease(S)
  BY <1>1, <1>3 DEF NumbersIncrease
<1>5. Ascending(selected, S)
  BY <1>4, OrderedAscends
<1> HIDE DEF selected
<1>6. Len(selected) \in Nat /\ selected \in Seq(Nat) /\ DOMAIN selected = 1..Len(selected)
  BY <1>5, AscendingFacts DEF Ascending
<1>7. size \in Nat /\ size <= Len(selected) /\ (size = 0 <=> Len(selected) = 0)
  BY <1>6
<1> HIDE DEF size
<1>8. /\ Batch(cursor, after).page = page /\ Batch(cursor, after).next = next
      /\ Batch(cursor, after).terminal <=> terminal
      /\ Batch(cursor, after).terminal \in BOOLEAN
      /\ Batch(cursor, after).more \in BOOLEAN
  <2>1. Batch(cursor, after) = [page |-> page, next |-> next, more |-> HasMore(selected, page, cursor.limit),
                                terminal |-> terminal]
    BY Zenon DEF Batch, S, selected, size
  <2>2. terminal \in BOOLEAN /\ HasMore(selected, page, cursor.limit) \in BOOLEAN
    BY DEF HasMore
  <2> HIDE DEF page, next, terminal
  <2> QED
    BY <2>1, <2>2
<1>9. CASE size = 0
  <2>1. page = << >>
    BY <1>6, <1>7, <1>9
  <2>2. next = after /\ ~terminal
    <3> HIDE DEF page
    <3>1. DOMAIN page = {}
      BY <2>1
    <3> QED
      BY <2>1, <3>1
  <2>3. S = {}
    <3>1. selected = << >>
      BY <1>6, <1>7, <1>9
    <3> QED
      BY <1>5, <3>1, AscendingFacts
  <2>4. Between(cursor, after, after) = {}
    BY <1>3, <2>3 DEF Between
  <2>5. Ascending(<< >>, {})
    BY DEF Ascending
  <2> HIDE DEF page, next, terminal
  <2> QED
    BY <1>2, <1>8, <2>1, <2>2, <2>4, <2>5
<1>10. CASE size # 0
  <2>1. size \in 1..Len(selected)
    BY <1>6, <1>7, <1>10
  <2>2. Ascending(page, {i \in S : i <= selected[size]}) /\ Len(page) = size
    BY <1>5, <2>1, AscendingPrefix
  <2>3. page \in Seq(Nat) /\ page # << >> /\ Last(page) = selected[size]
    <3>1. page \in Seq(Nat) /\ \A i \in 1..size : page[i] = selected[i]
      BY <1>6, <2>1
    <3>2. size \in 1..size
      BY <1>7, <2>1
    <3> HIDE DEF page
    <3>3. page # << >>
      BY <1>10, <2>2, <3>1
    <3> QED
      BY <2>2, <3>1, <3>2, <3>3 DEF Last
  <2>4. PICK last : last = selected[size]
    OBVIOUS
  <2>5. last \in S /\ last \in Matching(cursor) /\ next = emitted[last].seq
    BY <1>3, <1>5, <1>6, <2>1, <2>3, <2>4, AscendingFacts
  <2> HIDE DEF page, next
  <2>6. next \in Nat /\ after < next
    BY <1>1, <1>3, <2>5, LogFacts
  <2>7. {i \in S : i <= last} = Between(cursor, after, next)
    BY <1>1, <1>3, <2>5 DEF Between
  <2>8. Ascending(page, Between(cursor, after, next))
    BY <2>2, <2>4, <2>7
  <2>9. IsPlace(cursor, next)
    BY <1>1, <2>5, <2>6 DEF IsPlace
  <2>10. ASSUME terminal PROVE AllGiven(cursor, next)
    <3>1. PICK n \in DOMAIN page : emitted[page[n]].type \in TerminalTypes
      BY <2>10
    <3>2. PICK t : t = page[n]
      OBVIOUS
    <3>3. t \in Between(cursor, after, next)
      BY <2>8, <3>2, AscendingFacts
    <3>4. t \in Matching(cursor) /\ emitted[t].seq <= next /\ t \in OfRun(cursor.run)
      BY <1>1, <3>3 DEF Between
    <3>5. RunEnded(cursor.run)
      BY <3>1, <3>2, <3>4 DEF RunEnded
    <3>6. \A j \in OfRun(cursor.run) : j <= t
      <4>1. t \in DOMAIN emitted /\ emitted[t].run = cursor.run
        BY <3>4 DEF OfRun
      <4> QED
        BY <3>1, <3>2, <4>1 DEF LogNumbered
    <3>7. ASSUME NEW i \in Matching(cursor) PROVE emitted[i].seq <= next
      <4>1. emitted[i].seq <= emitted[t].seq
        BY <1>1, <3>4, <3>6
      <4>2. emitted[i].seq \in Nat /\ emitted[t].seq \in Nat
        BY <1>1, <3>4, LogFacts
      <4> QED
        BY <2>6, <3>4, <4>1, <4>2
    <3> QED
      BY <3>5, <3>7 DEF AllGiven
  <2> HIDE DEF terminal
  <2> QED
    BY <1>2, <1>8, <2>6, <2>8, <2>9, <2>10
<1> QED
  BY <1>9, <1>10

\* What the batches of a tail say together, from the place it started at.
TailState(cursor, after) ==
  {tail \in [given : Seq(Nat), next : Nat, open : BOOLEAN, terminal : BOOLEAN] :
     /\ IsPlace(cursor, tail.next) /\ after <= tail.next
     /\ Ascending(tail.given, Between(cursor, after, tail.next))
     /\ tail.terminal => AllGiven(cursor, tail.next)}

LEMMA FurtherKeeps ==
  ASSUME LogNumbered, NEW cursor, cursor.run # NoTag, cursor.limit \in Nat \ {0},
         NEW after \in Nat, NEW tail \in TailState(cursor, after), StreamAssumption
  PROVE  Further(cursor, tail) \in TailState(cursor, after)
<1>1. CASE ~tail.open
  BY <1>1 DEF Further
<1>2. CASE tail.open
  <2>1. PICK next : next = tail.next
    OBVIOUS
  <2>2. /\ next \in Nat /\ IsPlace(cursor, next) /\ after <= next
        /\ Ascending(tail.given, Between(cursor, after, next))
        /\ tail.terminal \in BOOLEAN /\ tail.terminal => AllGiven(cursor, next)
    BY <2>1 DEF TailState
  <2>3. PICK batch : batch = Batch(cursor, next)
    OBVIOUS
  <2>4. /\ IsPlace(cursor, batch.next) /\ next <= batch.next
        /\ Ascending(batch.page, Between(cursor, next, batch.next))
        /\ batch.more \in BOOLEAN /\ batch.terminal \in BOOLEAN
        /\ batch.terminal => AllGiven(cursor, batch.next)
    BY <2>2, <2>3, BatchFacts
  <2>5. batch.next \in Nat
    BY <2>4 DEF IsPlace
  <2>6. /\ Matching(cursor) \subseteq 1..Len(emitted)
        /\ \A i \in Matching(cursor) : i \in Nat /\ emitted[i].seq \in Nat
        /\ \A i, j \in Matching(cursor) : i < j <=> emitted[i].seq < emitted[j].seq
    BY MatchingFacts, LogFacts
  <2>7. Between(cursor, after, batch.next)
          = Between(cursor, after, next) \cup Between(cursor, next, batch.next)
    BY <2>2, <2>4, <2>5, <2>6 DEF Between
  <2>8. ASSUME NEW x \in Between(cursor, after, next), NEW y \in Between(cursor, next, batch.next)
        PROVE  x < y
    <3>1. /\ x \in Matching(cursor) /\ y \in Matching(cursor)
          /\ emitted[x].seq <= next /\ next < emitted[y].seq
      BY DEF Between
    <3> QED
      BY <2>2, <2>6, <3>1
  <2>9. Ascending(tail.given \o batch.page, Between(cursor, after, batch.next))
    BY <2>2, <2>4, <2>7, <2>8, AscendingConcat
  <2>10. AllGiven(cursor, next) => AllGiven(cursor, batch.next)
    BY <2>2, <2>4, <2>5, <2>6 DEF AllGiven
  <2>11. Continues(batch) \in BOOLEAN
    BY <2>4 DEF Continues, StreamAssumption
  <2>12. PICK more : more = [given |-> tail.given \o batch.page, next |-> batch.next,
                             open |-> Continues(batch),
                             terminal |-> tail.terminal \/ batch.terminal]
    OBVIOUS
  <2>13. Further(cursor, tail) = more
    BY <1>2, <2>1, <2>3, <2>12 DEF Further
  <2>14. more \in [given : Seq(Nat), next : Nat, open : BOOLEAN, terminal : BOOLEAN]
    <3>1. tail.given \o batch.page \in Seq(Nat)
      BY <2>9 DEF Ascending
    <3> QED
      BY <2>5, <2>11, <2>12, <3>1
  <2>15. more.terminal => AllGiven(cursor, batch.next)
    BY <2>2, <2>4, <2>10, <2>12
  <2>16. more.next = batch.next /\ more.given = tail.given \o batch.page
    BY <2>12
  <2>17. after <= batch.next
    BY <2>2, <2>4, <2>5
  <2> QED
    BY <2>4, <2>9, <2>13, <2>14, <2>15, <2>16, <2>17 DEF TailState
<1> QED
  BY <1>1, <1>2

\* The recursion of Tailed.
FirstTail(after) == [given |-> << >>, next |-> after, open |-> TRUE, terminal |-> FALSE]
Tailing(f, cursor, after) ==
  f = [n \in 0..MaxBatches |-> IF n = 0 THEN FirstTail(after) ELSE Further(cursor, f[n - 1])]

LEMMA TailedFacts ==
  ASSUME LogNumbered, NEW cursor, cursor.run # NoTag, cursor.limit \in Nat \ {0},
         NEW after, IsPlace(cursor, after), StreamAssumption
  PROVE  Tailed(cursor, after) \in TailState(cursor, after)
<1> DEFINE V == TailState(cursor, after)
           further(t) == Further(cursor, t)
           start == FirstTail(after)
<1>1. after \in Nat
  BY DEF IsPlace
<1>2. PICK m \in Nat : m = MaxBatches
  BY DEF StreamAssumption
<1>3. start \in V
  <2>1. Between(cursor, after, after) = {}
    <3>1. \A i \in Matching(cursor) : emitted[i].seq \in Nat
      BY MatchingFacts, LogFacts
    <3> QED
      BY <1>1, <3>1 DEF Between
  <2>2. Ascending(<< >>, {})
    BY DEF Ascending
  <2>3. start \in [given : Seq(Nat), next : Nat, open : BOOLEAN, terminal : BOOLEAN]
    BY <1>1 DEF FirstTail
  <2>4. start.given = << >> /\ start.next = after /\ ~start.terminal
    BY DEF FirstTail
  <2> HIDE DEF start
  <2>5. Ascending(start.given, Between(cursor, after, start.next))
    <3>1. Between(cursor, after, start.next) = {}
      BY <2>1, <2>4
    <3> QED
      BY <2>2, <2>4, <3>1
  <2>6. after <= start.next
    BY <1>1, <2>4
  <2> QED
    BY <2>3, <2>4, <2>5, <2>6 DEF TailState
<1>4. \A t \in V : further(t) \in V
  BY <1>1, FurtherKeeps
<1> HIDE DEF V, further, start
<1> DEFINE step == [p \in (1..m) \X V |-> further(p[2])]
<1>5. step \in [(1..m) \X V -> V]
  BY <1>4
<1>6. PICK f \in [0..m -> V] : Iterates(f, m, start, step)
  <2> HIDE DEF step
  <2> QED
    BY <1>3, <1>5, RecursionExists
<1>7. f[0] = start /\ \A n \in 1..m : f[n] = further(f[n - 1])
  <2>1. ASSUME NEW n \in 1..m PROVE f[n] = further(f[n - 1])
    <3>1. f[n] = step[<<n, f[n - 1]>>]
      BY <1>6 DEF Iterates
    <3>2. f[n - 1] \in V
      OBVIOUS
    <3> QED
      BY <3>1, <3>2
  <2> QED
    BY <1>6, <2>1 DEF Iterates
<1> DEFINE e(h, n) == IF n = 0 THEN start ELSE further(h[n - 1])
<1>8. \A n \in 0..m : f[n] = e(f, n)
  <2> SUFFICES ASSUME NEW n \in 0..m PROVE f[n] = e(f, n)
    OBVIOUS
  <2>1. CASE n = 0
    BY <1>7, <2>1
  <2>2. CASE n \in 1..m
    <3>1. n # 0
      BY <2>2
    <3> QED
      BY <1>7, <2>2, <3>1
  <2>3. n = 0 \/ n \in 1..m
    OBVIOUS
  <2> QED
    BY <2>1, <2>2, <2>3
<1>9. f = [n \in 0..m |-> e(f, n)]
  <2> HIDE DEF e
  <2> QED
    BY <1>8
<1>10. Tailing(f, cursor, after)
  BY <1>2, <1>9 DEF Tailing, further, start, e
<1> DEFINE g == CHOOSE h : Tailing(h, cursor, after)
<1>11. Tailing(g, cursor, after)
  BY <1>10, Zenon
<1>12. Tailed(cursor, after) = g[MaxBatches]
  BY Zenon DEF Tailed, Tailing, FirstTail
<1> HIDE DEF g
<1>13. g = [n \in 0..m |-> e(g, n)]
  BY <1>2, <1>11 DEF Tailing, further, start, e
<1>14. \A n \in 0..m : g[n] = e(g, n)
  <2> HIDE DEF e
  <2> QED
    BY <1>13
<1> DEFINE Fine == {n \in Nat : n <= m => g[n] \in V}
<1>15. 0 \in Fine
  BY <1>3, <1>14
<1>16. ASSUME NEW n \in Nat, n \in Fine PROVE n + 1 \in Fine
  <2> SUFFICES ASSUME n + 1 <= m PROVE g[n + 1] \in V
    OBVIOUS
  <2>1. n + 1 \in 0..m /\ n + 1 # 0 /\ (n + 1) - 1 = n /\ g[n] \in V
    BY <1>16
  <2>2. g[n + 1] = further(g[n])
    BY <1>14, <2>1
  <2> QED
    BY <1>4, <2>1, <2>2
<1> HIDE DEF Fine
<1>17. m \in Fine
  BY <1>15, <1>16, Induction
<1> QED
  BY <1>2, <1>12, <1>17 DEF Fine, V
-----------------------------------------------------------------------------
(* A client that follows one run is at a number of the run, was given what  *)
(* it asked for up to there, and was told the run is over only with all.    *)

Follows(k) ==
  k.cursor.run # NoTag =>
    /\ IsPlace(k.cursor, k.after)
    /\ Ascending(k.given, NumberedUpTo(Matching(k.cursor), k.after))
    /\ k.over => AllGiven(k.cursor, k.after)

StreamInv ==
  /\ LogNumbered
  /\ DOMAIN client = Clients
  /\ \A c \in Clients : client[c].cursor \in Cursors /\ Follows(client[c])

\* The events that a run has not had yet are beyond where its clients are.
LEMMA FollowsMore ==
  ASSUME LogNumbered, NEW e, emitted' = Append(emitted, e),
         \/ /\ e.run \in StreamRuns /\ ~RunEnded(e.run)
            /\ e.seq = Cardinality(OfRun(e.run)) + 1
         \/ e.run = NoTag /\ e.seq = Len(emitted) + 1,
         NEW k, Follows(k)
  PROVE  Follows(k)'
<1> SUFFICES ASSUME k.cursor.run # NoTag PROVE Follows(k)'
  BY DEF Follows
<1> DEFINE n == Len(emitted) + 1
           run == k.cursor.run
           ofRun == {i \in DOMAIN emitted' : emitted'[i].run = run}
           matching == {i \in DOMAIN emitted' : Matches(k.cursor, emitted'[i])}
<1>1. /\ DOMAIN emitted' = DOMAIN emitted \cup {n}
      /\ n \notin DOMAIN emitted
      /\ \A i \in DOMAIN emitted : emitted'[i] = emitted[i]
      /\ emitted'[n] = e
  BY OneEventMore
<1> HIDE DEF n
<1>2. /\ IsPlace(k.cursor, k.after)
      /\ Ascending(k.given, NumberedUpTo(Matching(k.cursor), k.after))
      /\ k.over => AllGiven(k.cursor, k.after)
  BY DEF Follows
<1>3. /\ OfRun(run) \subseteq DOMAIN emitted /\ Cardinality(OfRun(run)) \in Nat
  BY LogFacts
<1>4. k.after \in Nat
  BY <1>2 DEF IsPlace
<1>5. OfRun(run) \subseteq ofRun
  BY <1>1 DEF OfRun
<1>6. k.after = 0 \/ \E i \in ofRun : emitted'[i].seq = k.after
  BY <1>1, <1>2, <1>3, <1>5 DEF IsPlace
<1>7. Matches(k.cursor, e) => e.run = run
  BY DEF Matches
<1>8. ASSUME e.run = run
      PROVE  ~RunEnded(run) /\ e.seq = Cardinality(OfRun(run)) + 1
  BY <1>8
<1>9. ASSUME e.run = run PROVE e.seq \in Nat /\ ~(e.seq <= k.after)
  <2>1. e.seq = Cardinality(OfRun(run)) + 1
    BY <1>8, <1>9
  <2>2. CASE k.after = 0
    BY <1>3, <2>1, <2>2
  <2>3. CASE \E i \in OfRun(run) : emitted[i].seq = k.after
    <3>1. PICK i \in OfRun(run) : emitted[i].seq = k.after
      BY <2>3
    <3>2. k.after <= Cardinality(OfRun(run))
      <4>1. i \in DOMAIN emitted /\ emitted[i].run = run
        BY <3>1 DEF OfRun
      <4> QED
        BY <3>1, <4>1 DEF LogNumbered
    <3> QED
      BY <1>3, <1>4, <2>1, <3>2
  <2> QED
    BY <1>2, <2>2, <2>3 DEF IsPlace
<1>10. matching = Matching(k.cursor) \cup (IF Matches(k.cursor, e) THEN {n} ELSE {})
  BY <1>1 DEF Matching
<1>11. Matching(k.cursor) \subseteq DOMAIN emitted
  BY DEF Matching
<1>12. {i \in matching : emitted'[i].seq <= k.after} = NumberedUpTo(Matching(k.cursor), k.after)
  <2>1. \A i \in Matching(k.cursor) : emitted'[i] = emitted[i]
    BY <1>1, <1>11
  <2>2. Matches(k.cursor, e) => ~(emitted'[n].seq <= k.after)
    BY <1>1, <1>7, <1>9
  <2> HIDE DEF matching
  <2> QED
    BY <1>10, <2>1, <2>2 DEF NumberedUpTo
<1>13. ASSUME k.over
       PROVE  /\ \E i \in ofRun : emitted'[i].type \in TerminalTypes
              /\ \A i \in matching : emitted'[i].seq <= k.after
  <2>1. RunEnded(run) /\ \A i \in Matching(k.cursor) : emitted[i].seq <= k.after
    BY <1>2, <1>13 DEF AllGiven
  <2>2. PICK i \in OfRun(run) : emitted[i].type \in TerminalTypes
    BY <2>1 DEF RunEnded
  <2>3. i \in ofRun /\ emitted'[i].type \in TerminalTypes
    BY <1>1, <1>3, <1>5, <2>2
  <2>4. ~Matches(k.cursor, e)
    BY <1>7, <1>8, <2>1
  <2>5. matching = Matching(k.cursor)
    BY <1>10, <2>4
  <2>6. \A j \in Matching(k.cursor) : emitted'[j] = emitted[j]
    BY <1>1, <1>11
  <2> HIDE DEF matching, ofRun
  <2> QED
    BY <2>1, <2>3, <2>5, <2>6
<1>14. Ascending(k.given, {i \in matching : emitted'[i].seq <= k.after})
  BY <1>2, <1>12
<1>15. /\ IsPlace(k.cursor, k.after)'
       /\ k.over => AllGiven(k.cursor, k.after)'
  BY <1>4, <1>6, <1>13 DEF IsPlace, AllGiven, RunEnded, OfRun, Matching
<1>16. NumberedUpTo(Matching(k.cursor), k.after)' = {i \in matching : emitted'[i].seq <= k.after}
  BY DEF NumberedUpTo, Matching
<1> QED
  BY <1>14, <1>15, <1>16 DEF Follows, Ascending

LEMMA FollowsStays ==
  ASSUME emitted' = emitted, NEW k, Follows(k)
  PROVE  Follows(k)'
BY DEF Follows, IsPlace, OfRun, NumberedUpTo, Matching, AllGiven, RunEnded, Ascending

LEMMA StreamInitInv == ASSUME StreamInit PROVE StreamInv
<1>1. emitted = << >> /\ Len(emitted) = 0 /\ DOMAIN emitted = {}
  BY DEF StreamInit
<1>2. LogNumbered
  BY <1>1 DEF LogNumbered, IsList
<1>3. ASSUME NEW c \in Clients
      PROVE  client[c].cursor \in Cursors /\ Follows(client[c])
  <2>1. PICK k \in Cursors : client[c] = [cursor |-> k, after |-> 0, given |-> << >>, over |-> FALSE]
    BY DEF StreamInit
  <2>2. NumberedUpTo(Matching(k), 0) = {} /\ Ascending(<< >>, {})
    BY <1>1 DEF NumberedUpTo, Matching, Ascending
  <2>3. PICK j : j = client[c]
    OBVIOUS
  <2>4. j.cursor = k /\ j.after = 0 /\ j.given = << >> /\ ~j.over
    BY <2>1, <2>3
  <2>5. IsPlace(k, 0)
    BY DEF IsPlace
  <2>6. Follows(j)
    BY <2>2, <2>4, <2>5 DEF Follows
  <2> QED
    BY <2>3, <2>4, <2>6
<1> QED
  BY <1>2, <1>3 DEF StreamInv, StreamInit

LEMMA StreamStep == ASSUME StreamInv, [StreamNext]_streamVars, StreamAssumption PROVE StreamInv'
<1>1. LogNumbered /\ DOMAIN client = Clients
      /\ \A c \in Clients : client[c].cursor \in Cursors /\ Follows(client[c])
  BY DEF StreamInv
<1>2. ASSUME NEW e, emitted' = Append(emitted, e), UNCHANGED client,
             \/ /\ e.run \in StreamRuns /\ ~RunEnded(e.run)
                /\ e.seq = Cardinality(OfRun(e.run)) + 1
             \/ e.run = NoTag /\ e.seq = Len(emitted) + 1
      PROVE  StreamInv'
  <2>1. LogNumbered'
    BY <1>1, <1>2, EventKeepsNumbers
  <2>2. ASSUME NEW c \in Clients
        PROVE  client'[c].cursor \in Cursors /\ Follows(client[c])'
    <3>1. PICK k : k = client[c]
      OBVIOUS
    <3>2. Follows(k)'
      BY <1>1, <1>2, <3>1, FollowsMore
    <3> QED
      BY <1>1, <1>2, <3>1, <3>2
           DEF Follows, IsPlace, OfRun, NumberedUpTo, Matching, AllGiven, RunEnded
  <2> QED
    BY <1>1, <1>2, <2>1, <2>2 DEF StreamInv
<1>3. ASSUME NEW r \in StreamRuns, NEW type \in EventTypes, Emit(r, type) PROVE StreamInv'
  <2>1. PICK e : e = [run |-> r, session |-> SessionOfRun[r], seq |-> NextSequence(r),
                      type |-> type]
    OBVIOUS
  <2>2. emitted' = Append(emitted, e) /\ UNCHANGED client /\ ~RunEnded(r)
    BY <1>3, <2>1 DEF Emit, Logged
  <2>3. e.run = r /\ e.seq = Cardinality(OfRun(r)) + 1
    BY <2>1 DEF NextSequence
  <2> QED
    BY <1>2, <2>2, <2>3
<1>4. ASSUME HostEmits PROVE StreamInv'
  <2>1. PICK e : e = [run |-> NoTag, session |-> NoTag, seq |-> Len(emitted) + 1,
                      type |-> "tool_finished"]
    OBVIOUS
  <2>2. emitted' = Append(emitted, e) /\ UNCHANGED client
    BY <1>4, <2>1 DEF HostEmits, Logged
  <2>3. e.run = NoTag /\ e.seq = Len(emitted) + 1
    BY <2>1
  <2> QED
    BY <1>2, <2>2, <2>3
<1>5. ASSUME NEW c \in Clients, Poll(c) PROVE StreamInv'
  <2>1. emitted' = emitted
    BY <1>5 DEF Poll
  <2>2. PICK k : k = client[c]
    OBVIOUS
  <2>3. PICK tail : tail = Tailed(k.cursor, k.after)
    OBVIOUS
  <2>4. PICK next : next = [cursor |-> k.cursor, after |-> tail.next, given |-> k.given \o tail.given,
                            over |-> tail.terminal]
    OBVIOUS
  <2>5. client' = [client EXCEPT ![c] = next] /\ ~k.over
    BY <1>5, <2>2, <2>3, <2>4 DEF Poll
  <2>6. k.cursor \in Cursors /\ Follows(k)
    BY <1>1, <2>2
  <2>7. Follows(next)
    <3> SUFFICES ASSUME k.cursor.run # NoTag PROVE Follows(next)
      BY <2>4 DEF Follows
    <3>1. /\ IsPlace(k.cursor, k.after)
          /\ Ascending(k.given, NumberedUpTo(Matching(k.cursor), k.after))
      BY <2>6 DEF Follows
    <3>2. k.after \in Nat
      BY <3>1 DEF IsPlace
    <3>3. k.cursor.limit \in Nat \ {0}
      BY <2>6 DEF StreamAssumption
    <3>4. tail \in TailState(k.cursor, k.after)
      BY <1>1, <2>3, <3>1, <3>3, TailedFacts
    <3>5. /\ tail.next \in Nat /\ IsPlace(k.cursor, tail.next) /\ k.after <= tail.next
          /\ Ascending(tail.given, Between(k.cursor, k.after, tail.next))
          /\ tail.terminal => AllGiven(k.cursor, tail.next)
      BY <3>4 DEF TailState
    <3>6. /\ \A i \in Matching(k.cursor) : i \in Nat /\ emitted[i].seq \in Nat
          /\ \A i, j \in Matching(k.cursor) : i < j <=> emitted[i].seq < emitted[j].seq
      BY <1>1, MatchingFacts, LogFacts
    <3>7. NumberedUpTo(Matching(k.cursor), tail.next)
            = NumberedUpTo(Matching(k.cursor), k.after) \cup Between(k.cursor, k.after, tail.next)
      BY <3>2, <3>5, <3>6 DEF Between, NumberedUpTo
    <3>8. ASSUME NEW x \in NumberedUpTo(Matching(k.cursor), k.after),
                 NEW y \in Between(k.cursor, k.after, tail.next)
          PROVE  x < y
      <4>1. /\ x \in Matching(k.cursor) /\ y \in Matching(k.cursor)
            /\ emitted[x].seq <= k.after /\ k.after < emitted[y].seq
        BY DEF Between, NumberedUpTo
      <4> QED
        BY <3>2, <3>6, <4>1
    <3>9. Ascending(k.given \o tail.given, NumberedUpTo(Matching(k.cursor), tail.next))
      BY <3>1, <3>5, <3>7, <3>8, AscendingConcat
    <3> QED
      BY <2>4, <3>5, <3>9 DEF Follows
  <2>8. ASSUME NEW d \in Clients
        PROVE  client'[d].cursor \in Cursors /\ Follows(client[d])'
    <3>1. PICK j : j = client'[d]
      OBVIOUS
    <3>2. j.cursor \in Cursors /\ Follows(j)
      <4>1. CASE d = c
        <5>1. j = next
          BY <1>1, <2>5, <3>1, <4>1
        <5> QED
          BY <2>4, <2>6, <2>7, <5>1
      <4>2. CASE d # c
        <5>1. j = client[d]
          BY <1>1, <2>5, <3>1, <4>2
        <5> QED
          BY <1>1, <5>1
      <4> QED
        BY <4>1, <4>2
    <3>3. Follows(j)'
      BY <2>1, <3>2, FollowsStays
    <3> QED
      BY <3>1, <3>2, <3>3
           DEF Follows, IsPlace, OfRun, NumberedUpTo, Matching, AllGiven, RunEnded
  <2>9. LogNumbered'
    BY <1>1, <2>1 DEF LogNumbered, OfRun
  <2> QED
    BY <1>1, <2>5, <2>8, <2>9 DEF StreamInv
<1>6. ASSUME UNCHANGED streamVars PROVE StreamInv'
  <2>1. emitted' = emitted /\ client' = client
    BY <1>6 DEF streamVars
  <2>2. ASSUME NEW d \in Clients
        PROVE  client'[d].cursor \in Cursors /\ Follows(client[d])'
    <3>1. PICK j : j = client[d]
      OBVIOUS
    <3>2. Follows(j)'
      BY <1>1, <2>1, <3>1, FollowsStays
    <3> QED
      BY <1>1, <2>1, <3>1, <3>2
           DEF Follows, IsPlace, OfRun, NumberedUpTo, Matching, AllGiven, RunEnded
  <2>3. LogNumbered'
    BY <1>1, <2>1 DEF LogNumbered, OfRun
  <2> QED
    BY <1>1, <2>1, <2>2, <2>3 DEF StreamInv
<1> QED
  BY <1>3, <1>4, <1>5, <1>6 DEF StreamNext

\* A client that follows one run was given, however it polls and however long its pages
\* are, the events of that run it asked for up to its cursor, once and in order, and all
\* of them once it was told that the run is over: EventStreamBatch, EventStreamTail.
THEOREM RunStreamHolds == StreamSpec => []RunStreamIsWhole
<1>1. StreamInit => StreamInv
  BY StreamInitInv
<1>2. StreamInv /\ [StreamNext]_streamVars => StreamInv'
  BY StreamStep, StreamAssumption
<1>3. StreamInv => RunStreamIsWhole
  <2> SUFFICES ASSUME StreamInv, NEW c \in Clients, client[c].cursor.run # NoTag
               PROVE  LET wanted == Matching(client[c].cursor) IN
                      /\ client[c].given = InLog({i \in wanted : emitted[i].seq <= client[c].after})
                      /\ client[c].over => client[c].given = InLog(wanted)
    BY DEF RunStreamIsWhole
  <2>1. PICK k : k = client[c]
    OBVIOUS
  <2>2. PICK wanted : wanted = Matching(k.cursor)
    OBVIOUS
  <2>3. /\ LogNumbered /\ k.cursor.run # NoTag
        /\ Ascending(k.given, NumberedUpTo(wanted, k.after))
        /\ k.over => AllGiven(k.cursor, k.after)
    BY <2>1, <2>2 DEF StreamInv, Follows
  <2>4. wanted \subseteq 1..Len(emitted)
    BY <2>2, <2>3, MatchingFacts
  <2>5. NumberedUpTo(wanted, k.after) \subseteq 1..Len(emitted)
    BY <2>4 DEF NumberedUpTo
  <2>6. k.given = InLog(NumberedUpTo(wanted, k.after))
    BY <2>3, <2>5, InLogAscends, AscendingUnique
  <2>7. k.over => NumberedUpTo(wanted, k.after) = wanted
    BY <2>2, <2>3 DEF AllGiven, NumberedUpTo
  <2>8. NumberedUpTo(wanted, k.after) = {i \in wanted : emitted[i].seq <= k.after}
    BY DEF NumberedUpTo
  <2> QED
    BY <2>1, <2>2, <2>6, <2>7, <2>8
<1> QED
  BY <1>1, <1>2, <1>3, PTL DEF StreamSpec

-----------------------------------------------------------------------------
(* Core actions: what a window shows.                                       *)

LEMMA LargestIs ==
  ASSUME NEW S \in SUBSET Int, NEW m \in S, \A x \in S : x <= m
  PROVE  Max(S) = m
<1>1. Max(S) \in S /\ \A x \in S : Max(S) >= x
  <2>1. \E y \in S : \A x \in S : y >= x
    <3>1. \A x \in S : m >= x
      OBVIOUS
    <3> QED
      BY <3>1
  <2> QED
    BY <2>1, Zenon DEF Max
<1>2. PICK n \in S : n = Max(S)
  BY <1>1
<1>3. n >= m /\ n <= m
  BY <1>1, <1>2
<1> QED
  BY <1>2, <1>3

LEMMA LeastIs ==
  ASSUME NEW S \in SUBSET Int, NEW m \in S, \A x \in S : m <= x
  PROVE  Min(S) = m
<1>1. Min(S) \in S /\ \A x \in S : Min(S) <= x
  BY Zenon DEF Min
<1>2. PICK n \in S : n = Min(S)
  BY <1>1
<1>3. n >= m /\ n <= m
  BY <1>1, <1>2
<1> QED
  BY <1>2, <1>3

\* A set of numbers up to a bound has a largest one.
LEMMA LargestExists ==
  ASSUME NEW S \in SUBSET Nat, S # {}, NEW b \in Nat, \A x \in S : x <= b
  PROVE  Max(S) \in S /\ \A x \in S : x <= Max(S)
<1> DEFINE T == {b - x : x \in S}
<1>1. T \in SUBSET Nat /\ T # {}
  <2>1. ASSUME NEW x \in S PROVE b - x \in Nat
    <3>1. x \in Nat /\ x <= b
      OBVIOUS
    <3> QED
      BY <3>1
  <2>2. \A t \in T : t \in Nat
    BY <2>1
  <2>3. T # {}
    OBVIOUS
  <2> HIDE DEF T
  <2> QED
    BY <2>2, <2>3
<1>2. PICK t \in T : \A y \in T : t <= y
  BY <1>1, LeastNumber
<1>3. PICK m \in S : t = b - m
  BY <1>2
<1>4. ASSUME NEW x \in S PROVE x <= m
  <2>1. t <= b - x
    BY <1>2
  <2>2. x \in Nat /\ m \in Nat
    OBVIOUS
  <2> QED
    BY <1>3, <2>1, <2>2
<1>5. Max(S) = m
  BY <1>4, LargestIs
<1> QED
  BY <1>4, <1>5

LEMMA ClampedFacts ==
  ASSUME NEW content \in Seq(Nat), NEW offset \in Int
  PROVE  /\ Clamped(offset, content) \in Nat /\ 1 <= Clamped(offset, content)
         /\ Clamped(offset, content) <= Len(content) \/ (Len(content) = 0 /\ Clamped(offset, content) = 1)
         /\ 1 <= offset => Clamped(offset, content) <= offset
<1> DEFINE total == Max({1, Len(content)})
           low == Max({1, offset})
<1>1. PICK n \in Nat : n = Len(content)
  OBVIOUS
<1>2. total = IF 1 <= n THEN n ELSE 1
  <2>1. CASE 1 <= n
    <3>1. {1, n} \in SUBSET Int /\ n \in {1, n} /\ \A x \in {1, n} : x <= n
      BY <2>1
    <3> QED
      BY <1>1, <2>1, <3>1, LargestIs
  <2>2. CASE ~(1 <= n)
    <3>1. {1, n} \in SUBSET Int /\ 1 \in {1, n} /\ \A x \in {1, n} : x <= 1
      BY <2>2
    <3> QED
      BY <1>1, <2>2, <3>1, LargestIs
  <2> QED
    BY <2>1, <2>2
<1>3. low = IF 1 <= offset THEN offset ELSE 1
  <2>1. CASE 1 <= offset
    <3>1. {1, offset} \in SUBSET Int /\ offset \in {1, offset} /\ \A x \in {1, offset} : x <= offset
      BY <2>1
    <3> QED
      BY <2>1, <3>1, LargestIs
  <2>2. CASE ~(1 <= offset)
    <3>1. {1, offset} \in SUBSET Int /\ 1 \in {1, offset} /\ \A x \in {1, offset} : x <= 1
      BY <2>2
    <3> QED
      BY <2>2, <3>1, LargestIs
  <2> QED
    BY <2>1, <2>2
<1>4. Clamped(offset, content) = Min({low, total})
  BY DEF Clamped
<1> HIDE DEF low, total
<1>5. low \in Int /\ total \in Int
  BY <1>2, <1>3
<1>6. Min({low, total}) = IF low <= total THEN low ELSE total
  <2>1. CASE low <= total
    <3>1. {low, total} \in SUBSET Int /\ low \in {low, total} /\ \A x \in {low, total} : low <= x
      BY <1>5, <2>1
    <3> QED
      BY <2>1, <3>1, LeastIs
  <2>2. CASE ~(low <= total)
    <3>1. {low, total} \in SUBSET Int /\ total \in {low, total} /\ \A x \in {low, total} : total <= x
      BY <1>5, <2>2
    <3> QED
      BY <2>2, <3>1, LeastIs
  <2> QED
    BY <2>1, <2>2
<1> QED
  BY <1>1, <1>2, <1>3, <1>4, <1>6

\* The bytes of one line.
LEMMA OneLine ==
  ASSUME NEW content \in Seq(Nat), NEW i \in 1..Len(content), NEW each \in Nat
  PROVE  BytesFrom(content, i, i, each) = content[i] + each
<1>1. PICK w \in Nat : w = content[i]
  OBVIOUS
<1>2. SubSeq(content, i, i) = Append(<< >>, w)
  <2>1. SubSeq(content, i, i) \in Seq(Nat) /\ Len(SubSeq(content, i, i)) = 1
        /\ SubSeq(content, i, i)[1] = w
    BY <1>1
  <2>2. PICK s : s = SubSeq(content, i, i)
    OBVIOUS
  <2>3. << >> \in Seq(Nat) /\ Len(<< >>) = 0
    OBVIOUS
  <2>4. s \in Seq(Nat) /\ Len(s) = Len(<< >>) + 1 /\ s[Len(<< >>) + 1] = w
    BY <2>1, <2>2, <2>3
  <2>5. \A j \in 1..Len(<< >>) : s[j] = << >>[j]
    BY <2>3
  <2> QED
    BY <2>2, <2>3, <2>4, <2>5, AppendIs
<1>3. Summed(Append(<< >>, w)) = w
  <2>1. << >> \in Seq(Nat)
    OBVIOUS
  <2>2. Summed(<< >>) = 0 /\ Summed(Append(<< >>, w)) = Summed(<< >>) + w
    BY <2>1, SummedAppend
  <2> QED
    BY <2>2
<1>4. (i + 1 - i) * each = each
  OBVIOUS
<1> QED
  BY <1>1, <1>2, <1>3, <1>4 DEF BytesFrom

\* A window that can be: a file and a line of it, the first one if there is none.
Windows ==
  {window \in [content : Seq(Nat), offset : Nat \ {0}] :
     \/ window.offset <= Len(window.content)
     \/ Len(window.content) = 0 /\ window.offset = 1}

\* The width an agent notes.
FirstWidth(window) ==
  IF window.content = << >> THEN 0 ELSE window.content[window.offset]

LEMMA WindowFacts ==
  ASSUME CoreAssumption, NEW window \in Windows
  PROVE  /\ LinesShown(window) \in Nat
         /\ ~Truncated(window) => Len(window.content) < window.offset + LinesShown(window)
         /\ LinesShown(window) = 0 =>
              \/ Len(window.content) = 0
              \/ FrameBytes + 2 * DotsBytes + PrefixBytes + 1 + FirstWidth(window) > MaxBytes
<1> DEFINE shown == LinesShown(window)
<1>1. PICK content, offset : content = window.content /\ offset = window.offset
  OBVIOUS
<1>2. /\ content \in Seq(Nat) /\ offset \in Nat /\ 1 <= offset /\ Len(content) \in Nat
      /\ offset <= Len(content) \/ (Len(content) = 0 /\ offset = 1)
  BY <1>1 DEF Windows
<1>3. /\ FrameBytes \in Nat /\ PrefixBytes \in Nat /\ MaxBytes \in Nat /\ DotsBytes = 4
  BY DEF CoreAssumption, DotsBytes
<1>4. CASE Plain(window)
  <2>1. shown = Len(content) /\ offset = 1
    BY <1>1, <1>4 DEF LinesShown, Plain
  <2> QED
    BY <1>1, <1>2, <2>1
<1>5. CASE ~Plain(window)
  <2> DEFINE dots == IF offset > 1 THEN 2 * DotsBytes ELSE DotsBytes
             bytes(k) == FrameBytes + dots + BytesFrom(content, offset, offset + k - 1, PrefixBytes + 1)
             K == {0} \cup {k \in 1 .. (Len(content) - offset + 1) : bytes(k) <= MaxBytes}
  <2>1. shown = Max(K)
    BY <1>1, <1>5 DEF LinesShown
  <2>2. K \in SUBSET Nat /\ K # {} /\ \A k \in K : k <= Len(content)
    <3> HIDE DEF bytes
    <3> QED
      BY <1>2
  <2>3. Max(K) \in K /\ \A k \in K : k <= Max(K)
    <3> HIDE DEF K
    <3> QED
      BY <1>2, <2>2, LargestExists
  <2>4. shown \in Nat /\ \A k \in K : k <= shown
    BY <2>1, <2>2, <2>3
  <2>5. ~Truncated(window) => ~(offset + shown - 1 < Len(content))
    BY <1>1, <1>5 DEF Truncated
  <2>6. ASSUME shown = 0, Len(content) # 0
        PROVE  FrameBytes + 2 * DotsBytes + PrefixBytes + 1 + FirstWidth(window) > MaxBytes
    <3>1. offset \in 1..Len(content) /\ 1 \in 1..(Len(content) - offset + 1)
      BY <1>2, <2>6
    <3>2. ~(bytes(1) <= MaxBytes)
      <4>1. 1 \notin K
        BY <2>4, <2>6
      <4> HIDE DEF bytes
      <4> QED
        BY <3>1, <4>1
    <3>3. PICK w \in Nat : w = content[offset]
      BY <1>2, <3>1
    <3>4. BytesFrom(content, offset, offset, PrefixBytes + 1) = w + (PrefixBytes + 1)
      BY <1>2, <1>3, <3>1, <3>3, OneLine
    <3>5. offset + 1 - 1 = offset
      BY <1>2
    <3>6. bytes(1) = FrameBytes + dots + (w + (PrefixBytes + 1))
      BY <3>4, <3>5
    <3>7. FirstWidth(window) = w
      <4>1. content # << >>
        BY <2>6
      <4> QED
        BY <1>1, <3>3, <4>1 DEF FirstWidth
    <3>8. dots \in Nat /\ dots <= 2 * DotsBytes /\ 2 * DotsBytes \in Nat
      BY <1>3
    <3> HIDE DEF dots, bytes
    <3>9. ~(FrameBytes + dots + (w + (PrefixBytes + 1)) <= MaxBytes)
      BY <3>2, <3>6
    <3> QED
      BY <1>3, <3>7, <3>8, <3>9
  <2> HIDE DEF K
  <2>7. ~Truncated(window) => Len(content) < offset + shown
    BY <1>2, <2>4, <2>5
  <2> QED
    BY <1>1, <2>4, <2>6, <2>7
<1> QED
  BY <1>4, <1>5

-----------------------------------------------------------------------------
(* What an agent that reads on has seen reaches to where it reads on.       *)

ReadsOn(r) ==
  r.skill # NoName =>
    /\ r.skill \in Skills /\ r.next \in Nat /\ 1 <= r.next /\ r.of \in Nat
    /\ 1 .. (r.next - 1) \subseteq r.seen
    /\ r.told => r.of < r.next
    /\ r.shown = 0 =>
         \/ r.of = 0
         \/ FrameBytes + 2 * DotsBytes + PrefixBytes + 1 + r.width > MaxBytes

ReadingInv ==
  /\ files \in [Skills -> FileTexts]
  /\ DOMAIN views = Skills /\ \A s \in Skills : views[s] \subseteq Windows
  /\ DOMAIN reader = Readers /\ \A e \in Readers : ReadsOn(reader[e])

LEMMA NotedKeeps ==
  ASSUME ReadingInv, CoreAssumption, NEW e \in Readers, NEW skill \in Skills, NEW seen,
         NEW window \in Windows, 1 .. (window.offset - 1) \subseteq seen,
         Noted(e, skill, seen, window)
  PROVE  DOMAIN reader' = Readers /\ \A f \in Readers : ReadsOn(reader'[f])
<1>1. PICK shown : shown = LinesShown(window)
  OBVIOUS
<1>2. PICK o, n : o = window.offset /\ n = Len(window.content)
  OBVIOUS
<1>3. /\ shown \in Nat /\ o \in Nat /\ 1 <= o /\ n \in Nat
      /\ ~Truncated(window) => n < o + shown
      /\ shown = 0 =>
           n = 0 \/ FrameBytes + 2 * DotsBytes + PrefixBytes + 1 + FirstWidth(window) > MaxBytes
  BY <1>1, <1>2, WindowFacts DEF Windows
<1>4. PICK r : r = [skill |-> skill, next |-> o + shown, seen |-> seen \cup (o .. (o + shown - 1)),
                    told |-> ~Truncated(window), shown |-> shown, of |-> n,
                    width |-> FirstWidth(window)]
  OBVIOUS
<1>5. reader' = [reader EXCEPT ![e] = r]
  BY <1>1, <1>2, <1>4 DEF Noted, FirstWidth
<1>6. ReadsOn(r)
  <2>1. /\ r.skill = skill /\ r.next = o + shown /\ r.of = n /\ r.shown = shown
        /\ r.seen = seen \cup (o .. (o + shown - 1)) /\ r.width = FirstWidth(window)
        /\ r.told => ~Truncated(window)
    BY <1>4
  <2>2. 1 .. ((o + shown) - 1) \subseteq seen \cup (o .. (o + shown - 1))
    BY <1>2, <1>3
  <2>3. o + shown \in Nat /\ 1 <= o + shown
    BY <1>3
  <2> QED
    BY <1>3, <2>1, <2>2, <2>3 DEF ReadsOn
<1>7. DOMAIN reader = Readers /\ \A f \in Readers : ReadsOn(reader[f])
  BY DEF ReadingInv
<1>8. ASSUME NEW f \in Readers PROVE ReadsOn(reader'[f])
  <2>1. CASE f = e
    BY <1>5, <1>6, <1>7, <2>1
  <2>2. CASE f # e
    <3>1. reader'[f] = reader[f]
      BY <1>5, <1>7, <2>2
    <3> QED
      BY <1>7, <3>1
  <2> QED
    BY <2>1, <2>2
<1> QED
  BY <1>5, <1>7, <1>8

\* A window of a skill is replaced by another.
LEMMA WindowReplaced ==
  ASSUME ReadingInv, NEW skill \in Skills, NEW window \in Windows,
         views' = [views EXCEPT ![skill] = {window}]
  PROVE  DOMAIN views' = Skills /\ \A s \in Skills : views'[s] \subseteq Windows
<1>1. DOMAIN views = Skills /\ \A s \in Skills : views[s] \subseteq Windows
  BY DEF ReadingInv
<1>2. ASSUME NEW s \in Skills PROVE views'[s] \subseteq Windows
  BY <1>1
<1> QED
  BY <1>1, <1>2

LEMMA ReadingInit == ASSUME CoreInit PROVE ReadingInv
<1>1. ASSUME NEW e \in Readers PROVE ReadsOn(reader[e])
  BY DEF CoreInit, Unread, ReadsOn
<1> QED
  BY <1>1 DEF CoreInit, ReadingInv

LEMMA ReadingStep ==
  ASSUME ReadingInv, [CoreNext]_coreVars, CoreAssumption
  PROVE  ReadingInv'
<1>1. /\ files \in [Skills -> FileTexts]
      /\ DOMAIN views = Skills /\ \A s \in Skills : views[s] \subseteq Windows
      /\ DOMAIN reader = Readers /\ \A e \in Readers : ReadsOn(reader[e])
  BY DEF ReadingInv
<1>2. ASSUME UNCHANGED <<views, reader>>, files' \in [Skills -> FileTexts] PROVE ReadingInv'
  BY <1>1, <1>2 DEF ReadingInv, ReadsOn
<1>3. ASSUME NEW skill \in Skills, NEW text \in FileTexts, WriteFile(skill, text) PROVE ReadingInv'
  BY <1>1, <1>2, <1>3 DEF WriteFile
<1>4. ASSUME NEW e \in Readers, NEW skill \in Skills, NEW offset \in Offsets,
             LoadResource(e, skill, offset)
      PROVE  ReadingInv'
  <2>1. PICK content : content = files[skill]
    OBVIOUS
  <2>2. content \in Seq(Nat) /\ offset \in Int
    BY <1>1, <2>1 DEF CoreAssumption
  <2>3. PICK window : window = [content |-> content, offset |-> Clamped(offset, content)]
    OBVIOUS
  <2>4. window \in Windows
    <3>1. /\ Clamped(offset, content) \in Nat /\ 1 <= Clamped(offset, content)
          /\ \/ Clamped(offset, content) <= Len(content)
             \/ Len(content) = 0 /\ Clamped(offset, content) = 1
      BY <2>2, ClampedFacts
    <3>2. window.content = content /\ window.offset = Clamped(offset, content)
      BY <2>3
    <3>3. window \in [content : Seq(Nat), offset : Nat \ {0}]
      BY <2>2, <2>3, <3>1
    <3> QED
      BY <3>1, <3>2, <3>3 DEF Windows
  <2>5. /\ views' = [views EXCEPT ![skill] = {window}]
        /\ Noted(e, skill, 1 .. (window.offset - 1), window)
        /\ files' = files
    BY <1>4, <2>1, <2>3 DEF LoadResource
  <2>6. DOMAIN views' = Skills /\ \A s \in Skills : views'[s] \subseteq Windows
    BY <2>4, <2>5, WindowReplaced
  <2>7. DOMAIN reader' = Readers /\ \A f \in Readers : ReadsOn(reader'[f])
    BY <2>4, <2>5, NotedKeeps
  <2> QED
    BY <1>1, <2>5, <2>6, <2>7 DEF ReadingInv, ReadsOn
<1>5. ASSUME NEW e \in Readers, ChangeViewOffset(e) PROVE ReadingInv'
  <2>1. PICK r : r = reader[e]
    OBVIOUS
  <2>2. PICK skill : skill = r.skill
    OBVIOUS
  <2>3. PICK view : view = CHOOSE w \in views[skill] : TRUE
    OBVIOUS
  <2>4. PICK window : window = [view EXCEPT !.offset = Clamped(r.next, view.content)]
    OBVIOUS
  <2>5. /\ skill # NoName /\ views[skill] # {}
        /\ views' = [views EXCEPT ![skill] = {window}]
        /\ Noted(e, skill, r.seen, window)
        /\ files' = files
    BY <1>5, <2>1, <2>2, <2>3, <2>4 DEF ChangeViewOffset
  <2>6. /\ skill \in Skills /\ r.next \in Nat /\ 1 <= r.next
        /\ 1 .. (r.next - 1) \subseteq r.seen
    BY <1>1, <2>1, <2>2, <2>5 DEF ReadsOn
  <2>7. view \in Windows
    <3>1. view \in views[skill]
      BY <2>3, <2>5
    <3> QED
      BY <1>1, <2>6, <3>1
  <2>8. PICK content : content = view.content
    OBVIOUS
  <2>9. content \in Seq(Nat) /\ view \in [content : Seq(Nat), offset : Nat \ {0}]
    BY <2>7, <2>8 DEF Windows
  <2>10. /\ Clamped(r.next, content) \in Nat /\ 1 <= Clamped(r.next, content)
         /\ \/ Clamped(r.next, content) <= Len(content)
            \/ Len(content) = 0 /\ Clamped(r.next, content) = 1
         /\ Clamped(r.next, content) <= r.next
    <3>1. PICK next : next = r.next
      OBVIOUS
    <3>2. next \in Int /\ 1 <= next
      BY <2>6, <3>1
    <3>3. /\ Clamped(next, content) \in Nat /\ 1 <= Clamped(next, content)
          /\ \/ Clamped(next, content) <= Len(content)
             \/ Len(content) = 0 /\ Clamped(next, content) = 1
          /\ 1 <= next => Clamped(next, content) <= next
      BY <2>9, <3>2, ClampedFacts
    <3> QED
      BY <3>1, <3>2, <3>3
  <2>11. window.content = content /\ window.offset = Clamped(r.next, content)
    BY <2>4, <2>8, <2>9
  <2>12. window \in Windows
    <3>1. window \in [content : Seq(Nat), offset : Nat \ {0}]
      BY <2>4, <2>8, <2>9, <2>10
    <3> QED
      BY <2>10, <2>11, <3>1 DEF Windows
  <2>13. 1 .. (window.offset - 1) \subseteq r.seen
    BY <2>6, <2>10, <2>11
  <2>14. DOMAIN views' = Skills /\ \A s \in Skills : views'[s] \subseteq Windows
    BY <2>5, <2>6, <2>12, WindowReplaced
  <2>15. DOMAIN reader' = Readers /\ \A f \in Readers : ReadsOn(reader'[f])
    BY <2>5, <2>6, <2>12, <2>13, NotedKeeps
  <2> QED
    BY <1>1, <2>5, <2>14, <2>15 DEF ReadingInv, ReadsOn
<1>6. ASSUME NEW skill \in Skills, RegisterSkill(skill) \/ UnloadSkill(skill) \/ LoadSkill(skill)
      PROVE  ReadingInv'
  BY <1>1, <1>2, <1>6 DEF RegisterSkill, UnloadSkill, LoadSkill
<1>7. ASSUME NEW e, NEW query, NEW kind, LoadCapability(e, query, kind) PROVE ReadingInv'
  BY <1>1, <1>2, <1>7 DEF LoadCapability
<1>8. ASSUME UNCHANGED coreVars PROVE ReadingInv'
  BY <1>1, <1>2, <1>8 DEF coreVars
<1> QED
  BY <1>3, <1>4, <1>5, <1>6, <1>7, <1>8 DEF CoreNext

\* An agent that always asks for what comes behind the last line it was shown has seen
\* every line once it is told that nothing is left out, and is shown a line until then
\* unless not even one fits: SkillViewWindow.render, for every file, width and limit.
THEOREM ReadersSeeAll == CoreSpec => []ReadersMissNothing
<1>1. CoreInit => ReadingInv
  BY ReadingInit
<1>2. ReadingInv /\ [CoreNext]_coreVars => ReadingInv'
  BY ReadingStep, CoreAssumption
<1>3. ReadingInv => ReadersMissNothing
  <2> SUFFICES ASSUME ReadingInv, NEW e \in Readers, reader[e].skill # NoName
               PROVE  /\ reader[e].told => 1 .. reader[e].of \subseteq reader[e].seen
                      /\ reader[e].shown = 0 =>
                           \/ reader[e].of = 0
                           \/ FrameBytes + 2 * DotsBytes + PrefixBytes + 1 + reader[e].width > MaxBytes
    BY DEF ReadersMissNothing
  <2>1. PICK r : r = reader[e]
    OBVIOUS
  <2>2. /\ r.next \in Nat /\ 1 <= r.next /\ r.of \in Nat
        /\ 1 .. (r.next - 1) \subseteq r.seen
        /\ r.told => r.of < r.next
        /\ r.shown = 0 =>
             r.of = 0 \/ FrameBytes + 2 * DotsBytes + PrefixBytes + 1 + r.width > MaxBytes
    BY <2>1 DEF ReadingInv, ReadsOn
  <2>3. r.told => 1 .. r.of \subseteq r.seen
    BY <2>2
  <2> QED
    BY <2>1, <2>2, <2>3
<1> QED
  BY <1>1, <1>2, <1>3, PTL DEF CoreSpec

-----------------------------------------------------------------------------
(* What the manager's runs, the executions and the stores are made of.      *)

RunFields == {"session", "kind", "who", "active", "status"}
ExecFields == {"at", "plan", "ready", "step", "run", "records", "report"}
DeskFields == {"handoffs", "tools", "answers"}

RunsTyped(rs) ==
  /\ IsList(rs)
  /\ \A r \in DOMAIN rs :
       /\ DOMAIN rs[r] = RunFields
       /\ rs[r].active \in BOOLEAN
       /\ rs[r].kind = "plan" => rs[r].who \in Executions
       /\ rs[r].kind = "tool" => rs[r].who \in 1..(r - 1)

ExecTyped(x) == DOMAIN x = ExecFields /\ IsList(x.ready)

DelegationTyped ==
  /\ RunsTyped(runs)
  /\ DOMAIN execs = Executions
  /\ \A e \in Executions : ExecTyped(execs[e])
  /\ DOMAIN plans = PlanIds
  /\ \A p \in PlanIds : plans[p] = NoPlan \/ IsList(plans[p])
  /\ DOMAIN desk = DeskFields
  /\ IsList(desk.tools) /\ IsList(desk.answers)

(* An execution awaits a run of its own kind, and only while it runs a step.*)
ExecAwaits(x, rs) ==
  /\ x.at = "idle" => x.run = 0
  /\ x.at = "running" => x.run \in DOMAIN rs /\ rs[x.run].kind = "plan"
  /\ x.at # "idle" => x.plan \in PlanIds

(* What an execution has yet to begin is what the plan showed ready.        *)
ReadyIsShown(x, shown) ==
  \A i \in DOMAIN x.ready : \A d \in x.ready[i].deps : <<x.plan, d>> \in shown

(* Answers and records are of runs that are over, as they ended.            *)
AnswersOf(rs) ==
  \A i \in DOMAIN desk.answers : LET c == desk.answers[i].call IN
    c # 0 => c \in DOMAIN rs /\ ~rs[c].active
             /\ (desk.answers[i].status = "completed" <=> rs[c].status = "completed")

RecordsOf(c) == {i \in DOMAIN desk.tools : desk.tools[i].run = c}

RecordsFit ==
  /\ \A i \in DOMAIN desk.tools : desk.tools[i].run \in 0..Len(runs)
  /\ \A c \in DOMAIN runs : runs[c].kind = "tool" =>
       Cardinality(RecordsOf(c)) = IF runs[c].active \/ runs[c].status = "cancelled" THEN 0 ELSE 1

DelegationInv ==
  /\ DelegationTyped
  /\ \A e \in Executions : ExecAwaits(execs[e], runs) /\ ReadyIsShown(execs[e], done)
  /\ DependenciesCompleted
  /\ ActiveIsAwaited
  /\ AnswersOf(runs)
  /\ RecordsFit
-----------------------------------------------------------------------------
(* How the manager's runs change.                                           *)

\* A run that is claimed comes after the others, and is active.
LEMMA StartedRuns ==
  ASSUME NEW rs, RunsTyped(rs), NEW s, NEW kind, NEW who,
         kind = "plan" => who \in Executions, kind = "tool" => who \in 1..Len(rs)
  PROVE  /\ RunsTyped(Started(rs, s, kind, who))
         /\ Len(Started(rs, s, kind, who)) = Len(rs) + 1
         /\ \A r \in DOMAIN rs : Started(rs, s, kind, who)[r] = rs[r]
         /\ Started(rs, s, kind, who)[Len(rs) + 1].kind = kind
         /\ Started(rs, s, kind, who)[Len(rs) + 1].who = who
         /\ Started(rs, s, kind, who)[Len(rs) + 1].active
<1> DEFINE new == [session |-> s, kind |-> kind, who |-> who, active |-> TRUE, status |-> "running"]
           t == Started(rs, s, kind, who)
           n == Len(rs)
<1>1. IsList(rs) /\ n \in Nat /\ DOMAIN rs = 1..n
  BY ListOf DEF RunsTyped
<1>2. DOMAIN new = RunFields /\ new.kind = kind /\ new.who = who /\ new.active = TRUE
  BY DEF RunFields
<1>3. t = Append(rs, new)
  BY DEF Started
<1> HIDE DEF new, t, n
<1>4. /\ IsList(t) /\ Len(t) = n + 1 /\ DOMAIN t = 1..(n + 1)
      /\ \A i \in DOMAIN rs : t[i] = rs[i]
      /\ t[n + 1] = new
  BY <1>1, <1>3, ListAppend DEF n
<1>5. ASSUME NEW r \in DOMAIN t
      PROVE  /\ DOMAIN t[r] = RunFields
             /\ t[r].active \in BOOLEAN
             /\ t[r].kind = "plan" => t[r].who \in Executions
             /\ t[r].kind = "tool" => t[r].who \in 1..(r - 1)
  <2>1. CASE r = n + 1
    <3>1. t[r] = new /\ r - 1 = n
      BY <1>1, <1>4, <2>1
    <3> QED
      BY <1>2, <3>1 DEF n
  <2>2. CASE r \in 1..n
    BY <1>1, <1>4, <2>2 DEF RunsTyped
  <2> QED
    BY <1>1, <1>4, <2>1, <2>2
<1> QED
  BY <1>2, <1>4, <1>5 DEF RunsTyped, t, n

\* Runs that end keep their places, and what they are.
LEMMA OverRuns ==
  ASSUME NEW rs, RunsTyped(rs), NEW gone, NEW status
  PROVE  /\ RunsTyped(Over(rs, gone, status))
         /\ Len(Over(rs, gone, status)) = Len(rs)
         /\ DOMAIN Over(rs, gone, status) = DOMAIN rs
         /\ \A r \in DOMAIN rs :
              /\ Over(rs, gone, status)[r].kind = rs[r].kind
              /\ Over(rs, gone, status)[r].who = rs[r].who
              /\ r \in gone => ~Over(rs, gone, status)[r].active
              /\ r \in gone /\ rs[r].active => Over(rs, gone, status)[r].status = status
              /\ r \notin gone \/ ~rs[r].active => Over(rs, gone, status)[r] = rs[r]
<1> DEFINE t == Over(rs, gone, status)
           ended(r) == [rs[r] EXCEPT !.active = FALSE, !.status = status]
<1>1. Len(rs) \in Nat /\ DOMAIN rs = 1..Len(rs)
  BY ListOf DEF RunsTyped
<1>2. t = [r \in 1..Len(rs) |-> IF r \in gone /\ rs[r].active THEN ended(r) ELSE rs[r]]
  BY <1>1 DEF Over
<1> HIDE DEF t
<1>3. \A r \in DOMAIN rs : t[r] = IF r \in gone /\ rs[r].active THEN ended(r) ELSE rs[r]
  BY <1>1, <1>2
<1>4. \A r \in DOMAIN rs :
        /\ DOMAIN ended(r) = RunFields
        /\ ended(r).kind = rs[r].kind /\ ended(r).who = rs[r].who
        /\ ended(r).active = FALSE /\ ended(r).status = status
  BY DEF RunsTyped, RunFields
<1>5. IsList(t) /\ Len(t) = Len(rs) /\ DOMAIN t = DOMAIN rs
  <2>1. t = [r \in 1..Len(rs) |-> t[r]]
    BY <1>2
  <2> QED
    BY <1>1, <2>1, FunctionIsList
<1> HIDE DEF ended
<1>6. \A r \in DOMAIN rs :
        /\ DOMAIN t[r] = RunFields /\ t[r].kind = rs[r].kind /\ t[r].who = rs[r].who
        /\ t[r].active \in BOOLEAN
        /\ r \in gone /\ rs[r].active => ~t[r].active /\ t[r].status = status
        /\ r \notin gone \/ ~rs[r].active => t[r] = rs[r]
  <2> SUFFICES ASSUME NEW r \in DOMAIN rs
               PROVE  /\ DOMAIN t[r] = RunFields /\ t[r].kind = rs[r].kind /\ t[r].who = rs[r].who
                      /\ t[r].active \in BOOLEAN
                      /\ r \in gone /\ rs[r].active => ~t[r].active /\ t[r].status = status
                      /\ r \notin gone \/ ~rs[r].active => t[r] = rs[r]
    OBVIOUS
  <2>1. CASE r \in gone /\ rs[r].active
    BY <1>3, <1>4, <2>1
  <2>2. CASE ~(r \in gone /\ rs[r].active)
    BY <1>3, <2>2 DEF RunsTyped
  <2> QED
    BY <2>1, <2>2
<1>7. RunsTyped(t)
  BY <1>5, <1>6 DEF RunsTyped
<1>8. \A r \in DOMAIN rs : r \in gone => ~t[r].active
  BY <1>6 DEF RunsTyped
<1> QED
  BY <1>5, <1>6, <1>7, <1>8 DEF t

\* Runs go on from rs to rs2: none is lost or begun again, and what ended stays as it ended.
StillRuns(rs, rs2) ==
  /\ Len(rs) <= Len(rs2)
  /\ \A r \in DOMAIN rs :
       /\ r \in DOMAIN rs2 /\ rs2[r].kind = rs[r].kind /\ rs2[r].who = rs[r].who
       /\ rs2[r].active => rs[r].active
       /\ ~rs[r].active => rs2[r].status = rs[r].status

(* The runs of agent tools that ended on the way were cancelled, and those  *)
(* that began are active: none of them has a record.                        *)
Unrecorded(rs, rs2) ==
  /\ \A r \in DOMAIN rs : rs[r].kind = "tool" /\ rs[r].active /\ ~rs2[r].active => rs2[r].status = "cancelled"
  /\ \A r \in DOMAIN rs2 \ DOMAIN rs : rs2[r].active

LEMMA AnswersStay ==
  ASSUME NEW rs, NEW rs2, AnswersOf(rs), StillRuns(rs, rs2)
  PROVE  AnswersOf(rs2)
<1> SUFFICES ASSUME NEW i \in DOMAIN desk.answers, NEW c, c = desk.answers[i].call, c # 0
             PROVE  /\ c \in DOMAIN rs2 /\ ~rs2[c].active
                    /\ desk.answers[i].status = "completed" <=> rs2[c].status = "completed"
  BY DEF AnswersOf
<1>1. /\ c \in DOMAIN rs /\ ~rs[c].active
      /\ desk.answers[i].status = "completed" <=> rs[c].status = "completed"
  BY DEF AnswersOf
<1> QED
  BY <1>1 DEF StillRuns

LEMMA RecordsStay ==
  ASSUME DelegationTyped, RecordsFit, UNCHANGED desk, StillRuns(runs, runs'), Unrecorded(runs, runs'),
         RunsTyped(runs')
  PROVE  RecordsFit'
<1>1. /\ Len(runs) \in Nat /\ DOMAIN runs = 1..Len(runs)
      /\ Len(runs') \in Nat /\ DOMAIN runs' = 1..Len(runs') /\ Len(runs) <= Len(runs')
  BY ListOf DEF DelegationTyped, RunsTyped, StillRuns
<1>2. \A c : RecordsOf(c)' = RecordsOf(c)
  BY DEF RecordsOf
<1>3. \A i \in DOMAIN desk'.tools : desk'.tools[i].run \in 0..Len(runs')
  BY <1>1 DEF RecordsFit
<1>4. ASSUME NEW c \in DOMAIN runs', runs'[c].kind = "tool"
      PROVE  Cardinality(RecordsOf(c)) = IF runs'[c].active \/ runs'[c].status = "cancelled" THEN 0 ELSE 1
  <2>1. CASE c \in DOMAIN runs
    <3>1. /\ runs[c].kind = "tool"
          /\ runs'[c].active => runs[c].active
          /\ ~runs[c].active => runs'[c].status = runs[c].status
      BY <1>4, <2>1 DEF StillRuns
    <3>2. runs[c].active /\ ~runs'[c].active => runs'[c].status = "cancelled"
      BY <2>1, <3>1 DEF Unrecorded
    <3>3. Cardinality(RecordsOf(c)) = IF runs[c].active \/ runs[c].status = "cancelled" THEN 0 ELSE 1
      BY <2>1, <3>1 DEF RecordsFit
    <3> QED
      BY <3>1, <3>2, <3>3
  <2>2. CASE c \notin DOMAIN runs
    <3>1. runs'[c].active
      BY <2>2 DEF Unrecorded
    <3>2. RecordsOf(c) = {}
      BY <1>1, <2>2 DEF RecordsFit, RecordsOf
    <3> QED
      BY <3>1, <3>2, FS_EmptySet
  <2> QED
    BY <2>1, <2>2
<1> QED
  BY <1>2, <1>3, <1>4 DEF RecordsFit
-----------------------------------------------------------------------------
(* Cancellation goes down the chain of awaits.                              *)

\* What Chain's recursion says of run c: it is r, or waited for by a run within.
Inside(f, r, c) == c = r \/ (runs[c].active /\ runs[c].kind = "tool" /\ f[runs[c].who])

LEMMA InsideExists ==
  ASSUME RunsTyped(runs), NEW r
  PROVE  \E f : f = [c \in DOMAIN runs |-> Inside(f, r, c)]
<1> DEFINE D == 1..Len(runs)
           Upto(m) == \E f \in [1..m -> BOOLEAN] : \A c \in 1..m : f[c] = Inside(f, r, c)
           S == {m \in Nat : m <= Len(runs) => Upto(m)}
<1>1. Len(runs) \in Nat /\ DOMAIN runs = D
  BY ListOf DEF RunsTyped
<1>2. 0 \in S
  <2> DEFINE f == [c \in 1..0 |-> TRUE]
  <2>1. f \in [1..0 -> BOOLEAN]
    OBVIOUS
  <2>2. \A c \in 1..0 : FALSE
    OBVIOUS
  <2> HIDE DEF f
  <2>3. Upto(0)
    BY <2>1, <2>2
  <2> QED
    BY <2>3
<1>3. ASSUME NEW m \in Nat, m \in S
      PROVE  m + 1 \in S
  <2> SUFFICES ASSUME m + 1 <= Len(runs) PROVE Upto(m + 1)
    OBVIOUS
  <2>1. PICK f \in [1..m -> BOOLEAN] : \A c \in 1..m : f[c] = Inside(f, r, c)
    BY <1>1, <1>3
  <2> DEFINE b == Inside(f, r, m + 1)
             g == [c \in 1..(m + 1) |-> IF c = m + 1 THEN b ELSE f[c]]
  <2>2. \A c \in 1..(m + 1) : runs[c].kind = "tool" => runs[c].who \in 1..m /\ runs[c].who < c
    BY <1>1 DEF RunsTyped
  <2>3. \A c \in 1..m : g[c] = f[c]
    OBVIOUS
  <2>4. g[m + 1] = b
    OBVIOUS
  <2>5. b \in BOOLEAN
    BY DEF Inside
  <2>6. g \in [1..(m + 1) -> BOOLEAN]
    BY <2>5
  <2> HIDE DEF g, b
  <2>7. \A c \in 1..(m + 1) : Inside(g, r, c) <=> Inside(f, r, c)
    <3> SUFFICES ASSUME NEW c \in 1..(m + 1) PROVE Inside(g, r, c) <=> Inside(f, r, c)
      OBVIOUS
    <3>1. runs[c].kind = "tool" => g[runs[c].who] = f[runs[c].who]
      BY <2>2, <2>3
    <3> QED
      BY <3>1 DEF Inside
  <2>8. \A c \in 1..(m + 1) : Inside(g, r, c) \in BOOLEAN /\ Inside(f, r, c) \in BOOLEAN
    BY DEF Inside
  <2>9. ASSUME NEW c \in 1..(m + 1)
        PROVE  g[c] = Inside(g, r, c)
    <3>1. CASE c = m + 1
      <4>1. g[c] = Inside(f, r, c)
        BY <2>4, <3>1 DEF b
      <4> QED
        BY <2>7, <2>8, <4>1
    <3>2. CASE c \in 1..m
      <4>1. g[c] = f[c] /\ f[c] = Inside(f, r, c)
        BY <2>1, <2>3, <3>2
      <4> QED
        BY <2>7, <2>8, <4>1
    <3> QED
      BY <3>1, <3>2
  <2> QED
    BY <2>6, <2>9
<1> HIDE DEF S
<1>4. Len(runs) \in S
  BY <1>1, <1>2, <1>3, Induction
<1>5. PICK f \in [D -> BOOLEAN] : \A c \in D : f[c] = Inside(f, r, c)
  BY <1>1, <1>4 DEF S
<1>6. f = [c \in D |-> Inside(f, r, c)]
  BY <1>5
<1> QED
  BY <1>1, <1>6

\* A chain begins with its run, has with a run the agent tool's run it waits for, and no
\* run that was there before.
LEMMA ChainIsClosed ==
  ASSUME RunsTyped(runs), NEW r \in DOMAIN runs
  PROVE  /\ r \in Chain(r) /\ Chain(r) \subseteq DOMAIN runs
         /\ \A c \in DOMAIN runs :
              runs[c].active /\ runs[c].kind = "tool" /\ runs[c].who \in Chain(r) => c \in Chain(r)
         /\ \A c \in Chain(r) : c >= r
<1> DEFINE f == CHOOSE f : f = [c \in DOMAIN runs |-> Inside(f, r, c)]
<1>1. f = [c \in DOMAIN runs |-> Inside(f, r, c)]
  BY InsideExists
<1>2. Chain(r) = {c \in DOMAIN runs : f[c]}
  BY Zenon DEF Chain, Inside
<1> HIDE DEF f
<1>3. \A c \in DOMAIN runs : f[c] <=> Inside(f, r, c)
  BY <1>1
<1>4. \A c \in Chain(r) : c >= r
  <2> DEFINE T == {c \in Chain(r) : ~(c >= r)}
  <2> SUFFICES ASSUME T # {} PROVE FALSE
    OBVIOUS
  <2>1. DOMAIN runs \subseteq Nat
    BY ListOf DEF RunsTyped
  <2>2. T \subseteq Nat
    BY <1>2, <2>1
  <2>3. PICK c \in T : \A d \in T : c <= d
    BY <2>2, LeastNumber
  <2>4. c \in DOMAIN runs /\ Inside(f, r, c) /\ c # r
    BY <1>2, <1>3, <2>1, <2>3
  <2>5. runs[c].kind = "tool" /\ f[runs[c].who]
    BY <2>4 DEF Inside
  <2>6. runs[c].who \in 1..(c - 1) /\ runs[c].who \in DOMAIN runs
    BY <2>4, <2>5, ListOf DEF RunsTyped
  <2>7. runs[c].who \in T
    BY <1>2, <2>1, <2>3, <2>5, <2>6
  <2> QED
    BY <2>1, <2>3, <2>4, <2>6, <2>7
<1> QED
  BY <1>2, <1>3, <1>4 DEF Inside
-----------------------------------------------------------------------------
(* An execution, from one await to the next.                                *)

\* Execution e goes on from x: it is over, or awaits the run of a step whose dependencies
\* are shown.
Moved(e, x, rs, shown) ==
  \E y :
    /\ execs' = [execs EXCEPT ![e] = y]
    /\ ExecTyped(y) /\ y.plan = x.plan /\ y.at \in {"running", "ended", "raised"}
    /\ ReadyIsShown(y, shown)
    /\ y.at = "running" => \A d \in y.step.deps : <<y.plan, d>> \in shown
    /\ \/ runs' = rs /\ y.at # "running"
       \/ /\ y.at = "running" /\ y.run = Len(rs) + 1
          /\ \E session : runs' = Started(rs, session, "plan", e)

PlansTyped == DOMAIN plans = PlanIds /\ \A p \in PlanIds : plans[p] = NoPlan \/ IsList(plans[p])

LEMMA SavedPlans ==
  ASSUME PlansTyped, NEW p, NEW steps, steps = NoPlan \/ IsList(steps), plans' = Saved(p, steps)
  PROVE  PlansTyped'
  BY DEF PlansTyped, Saved

LEMMA UpdatedSteps ==
  ASSUME NEW steps, IsList(steps), NEW id, NEW status
  PROVE  IsList(Updated(steps, id, status))
<1> DEFINE t == Updated(steps, id, status)
<1>1. Len(steps) \in Nat /\ DOMAIN steps = 1..Len(steps)
  BY ListOf
<1>2. t = [i \in 1..Len(steps) |-> IF steps[i].id = id THEN [steps[i] EXCEPT !.status = status] ELSE steps[i]]
  BY <1>1 DEF Updated
<1> HIDE DEF t
<1>3. t = [i \in 1..Len(steps) |-> t[i]]
  BY <1>2
<1> QED
  BY <1>1, <1>3, FunctionIsList DEF t

LEMMA EmptyIsList == IsList(<< >>)
<1>1. << >> \in Seq({})
  OBVIOUS
<1> QED
  BY <1>1, SeqIsList

LEMMA ReportMoves ==
  ASSUME PlansTyped, NEW e, NEW x, DOMAIN x = ExecFields, NEW rs, NEW steps, IsList(steps), NEW status,
         Report(e, x, rs, steps, status), NEW shown
  PROVE  Moved(e, x, rs, shown) /\ PlansTyped'
<1> DEFINE report == [status |-> status, steps |-> steps]
           y == [x EXCEPT !.at = "ended", !.ready = << >>, !.step = NoPlan, !.run = 0, !.report = report]
<1>1. execs' = [execs EXCEPT ![e] = y] /\ plans' = Saved(x.plan, steps) /\ runs' = rs
  BY DEF Report
<1> HIDE DEF report
<1>2. DOMAIN y = ExecFields /\ y.ready = << >> /\ y.plan = x.plan /\ y.at = "ended"
  BY DEF ExecFields
<1> HIDE DEF y
<1>3. ExecTyped(y) /\ ReadyIsShown(y, shown)
  BY <1>2, EmptyIsList DEF ExecTyped, ReadyIsShown
<1> QED
  BY <1>1, <1>2, <1>3, SavedPlans DEF Moved

LEMMA RaisedMoves ==
  ASSUME NEW e, NEW x, ExecTyped(x), NEW rs, Raised(e, x, rs), NEW shown, ReadyIsShown(x, shown)
  PROVE  Moved(e, x, rs, shown)
<1> DEFINE y == [x EXCEPT !.at = "raised", !.step = NoPlan, !.run = 0]
<1>1. execs' = [execs EXCEPT ![e] = y] /\ runs' = rs
  BY DEF Raised
<1>2. DOMAIN y = ExecFields /\ y.ready = x.ready /\ y.plan = x.plan /\ y.at = "raised"
  BY DEF ExecTyped, ExecFields
<1> HIDE DEF y
<1>3. ExecTyped(y) /\ ReadyIsShown(y, shown)
  BY <1>2 DEF ExecTyped, ReadyIsShown
<1> QED
  BY <1>1, <1>2, <1>3 DEF Moved

LEMMA BeginMoves ==
  ASSUME PlansTyped, NEW e, NEW x, ExecTyped(x), x.ready # << >>, NEW rs, NEW steps, IsList(steps),
         BeginStep(e, x, rs, steps), NEW shown, ReadyIsShown(x, shown)
  PROVE  Moved(e, x, rs, shown) /\ PlansTyped'
<1> DEFINE step == Head(x.ready)
           session == SessionFor(step)
           started == Updated(steps, step.id, "running")
           failed == Updated(started, step.id, "failed")
<1>1. IsList(started) /\ IsList(failed)
  BY UpdatedSteps
<1>2. /\ 1 \in DOMAIN x.ready /\ step = x.ready[1]
      /\ IsList(Tail(x.ready))
      /\ \A i \in DOMAIN Tail(x.ready) : i + 1 \in DOMAIN x.ready /\ Tail(x.ready)[i] = x.ready[i + 1]
  BY ListTail DEF ExecTyped
<1>3. CASE plans' = Saved(x.plan, steps) /\ Raised(e, x, rs)
  BY <1>3, RaisedMoves, SavedPlans
<1>4. ASSUME NEW z, z = [x EXCEPT !.records = Append(@, StepRecord(step, session, "failed", 0))],
             Report(e, z, rs, failed, "failed")
      PROVE  Moved(e, x, rs, shown) /\ PlansTyped'
  <2>1. DOMAIN z = ExecFields /\ z.plan = x.plan
    BY <1>4 DEF ExecTyped, ExecFields
  <2> HIDE DEF failed
  <2>2. Moved(e, z, rs, shown) /\ PlansTyped'
    BY <1>1, <1>4, <2>1, ReportMoves
  <2> QED
    BY <2>1, <2>2 DEF Moved
<1>5. ASSUME plans' = Saved(x.plan, started), runs' = Started(rs, session, "plan", e),
             execs' = [execs EXCEPT ![e] =
                         [x EXCEPT !.at = "running", !.ready = Tail(@), !.step = step, !.run = Len(rs) + 1]]
      PROVE  Moved(e, x, rs, shown) /\ PlansTyped'
  <2> DEFINE y == [x EXCEPT !.at = "running", !.ready = Tail(@), !.step = step, !.run = Len(rs) + 1]
  <2>1. execs' = [execs EXCEPT ![e] = y]
    BY <1>5
  <2>2. /\ DOMAIN y = ExecFields /\ y.ready = Tail(x.ready) /\ y.plan = x.plan
        /\ y.at = "running" /\ y.step = x.ready[1] /\ y.run = Len(rs) + 1
    BY <1>2 DEF ExecTyped, ExecFields
  <2> HIDE DEF y
  <2>3. ExecTyped(y) /\ ReadyIsShown(y, shown)
    BY <1>2, <2>2 DEF ExecTyped, ReadyIsShown
  <2>4. \A d \in y.step.deps : <<y.plan, d>> \in shown
    BY <1>2, <2>2 DEF ReadyIsShown
  <2>5. Moved(e, x, rs, shown)
    BY <1>5, <2>1, <2>2, <2>3, <2>4 DEF Moved
  <2>6. PlansTyped'
    BY <1>1, <1>5, SavedPlans
  <2> QED
    BY <2>5, <2>6
<1> QED
  BY <1>3, <1>4, <1>5 DEF BeginStep

\* The steps that a plan shows ready, and which dependencies it has shown.
LEMMA ReadyShows ==
  ASSUME NEW p, NEW steps, IsList(steps), NEW shown, Shown(p, steps) \subseteq shown
  PROVE  /\ IsList(ReadySteps(steps))
         /\ \A i \in DOMAIN ReadySteps(steps) : \A d \in ReadySteps(steps)[i].deps : <<p, d>> \in shown
<1> DEFINE keep == {s \in ToSet(steps) : s.status = "pending" /\ s.deps \subseteq CompletedIds(steps)}
           t == ReadySteps(steps)
<1>1. t = Filtered(steps, keep)
  BY DEF ReadySteps
<1>2. \A s \in keep : s.deps \subseteq CompletedIds(steps)
  OBVIOUS
<1> HIDE DEF keep, t
<1>3. IsList(t) /\ \A i \in DOMAIN t : t[i] \in keep
  BY <1>1, FilteredElements
<1>4. \A d \in CompletedIds(steps) : <<p, d>> \in shown
  BY DEF Shown
<1>5. IsList(t) /\ \A i \in DOMAIN t : \A d \in t[i].deps : <<p, d>> \in shown
  BY <1>2, <1>3, <1>4
<1> QED
  BY <1>5 DEF t

LEMMA ProceedMoves ==
  ASSUME PlansTyped, NEW e, NEW x, ExecTyped(x), NEW rs, NEW steps, IsList(steps),
         Proceed(e, x, rs, steps), NEW shown, ReadyIsShown(x, shown), Shown(x.plan, steps) \subseteq shown
  PROVE  Moved(e, x, rs, shown) /\ PlansTyped'
<1> DEFINE ready == ReadySteps(steps)
           z == [x EXCEPT !.ready = ready]
<1>1. IsList(ready) /\ \A i \in DOMAIN ready : \A d \in ready[i].deps : <<x.plan, d>> \in shown
  BY ReadyShows
<1> HIDE DEF ready
<1>2. DOMAIN z = ExecFields /\ z.ready = ready /\ z.plan = x.plan
  BY DEF ExecTyped, ExecFields
<1>3. \/ x.ready # << >> /\ BeginStep(e, x, rs, steps)
      \/ \E status : Report(e, x, rs, steps, status)
      \/ ready # << >> /\ BeginStep(e, z, rs, steps)
  BY DEF Proceed, ready
<1> HIDE DEF z
<1>4. CASE x.ready # << >> /\ BeginStep(e, x, rs, steps)
  BY <1>4, BeginMoves
<1>5. CASE \E status : Report(e, x, rs, steps, status)
  BY <1>5, ReportMoves DEF ExecTyped
<1>6. CASE ready # << >> /\ BeginStep(e, z, rs, steps)
  <2>1. ExecTyped(z) /\ ReadyIsShown(z, shown) /\ z.ready # << >>
    BY <1>1, <1>2, <1>6 DEF ExecTyped, ReadyIsShown
  <2>2. Moved(e, z, rs, shown) /\ PlansTyped'
    BY <1>6, <2>1, BeginMoves
  <2> QED
    BY <1>2, <2>2 DEF Moved
<1> QED
  BY <1>3, <1>4, <1>5, <1>6
-----------------------------------------------------------------------------
(* What a step keeps, when it changes the runs and one execution or none.   *)

AwaitedIn(rs) ==
  \A r \in DOMAIN rs : rs[r].active =>
    /\ rs[r].kind = "plan" => execs[rs[r].who].run = r
    /\ rs[r].kind = "tool" => rs[rs[r].who].active

LEMMA ExecKept ==
  ASSUME NEW x, NEW rs, NEW rs2, RunsTyped(rs), StillRuns(rs, rs2), ExecAwaits(x, rs)
  PROVE  ExecAwaits(x, rs2)
  BY DEF ExecAwaits, StillRuns

LEMMA ReadyKept ==
  ASSUME NEW x, NEW shown, NEW more, ReadyIsShown(x, shown), shown \subseteq more
  PROVE  ReadyIsShown(x, more)
  BY DEF ReadyIsShown

\* Steps that leave the executions alone.
LEMMA BesideKeeps ==
  ASSUME DelegationInv, UNCHANGED execs, RunsTyped(runs'), StillRuns(runs, runs'), done \subseteq done',
         PlansTyped', AwaitedIn(runs)', AnswersOf(runs)', RecordsFit',
         DOMAIN desk' = DeskFields, IsList(desk'.tools), IsList(desk'.answers)
  PROVE  DelegationInv'
<1>1. DelegationTyped'
  BY DEF DelegationInv, DelegationTyped, PlansTyped
<1>2. ASSUME NEW e \in Executions
      PROVE  ExecAwaits(execs[e], runs') /\ ReadyIsShown(execs[e], done')
  BY ExecKept, ReadyKept DEF DelegationInv, DelegationTyped
<1>3. DependenciesCompleted'
  BY DEF DelegationInv, DependenciesCompleted
<1>4. ActiveIsAwaited'
  BY DEF ActiveIsAwaited, AwaitedIn
<1> QED
  BY <1>1, <1>2, <1>3, <1>4 DEF DelegationInv

\* Steps of one execution, after which it awaits none of the runs there were.
LEMMA ExecutionKeeps ==
  ASSUME DelegationInv, NEW e \in Executions, NEW x, x.plan \in PlanIds,
         NEW rs, RunsTyped(rs), StillRuns(runs, rs), Unrecorded(runs, rs), Len(rs) = Len(runs), AwaitedIn(rs),
         \A r \in DOMAIN rs : rs[r].active /\ rs[r].kind = "plan" => rs[r].who # e,
         done \subseteq done', Moved(e, x, rs, done'), PlansTyped', UNCHANGED desk
  PROVE  DelegationInv'
<1>1. PICK y : /\ execs' = [execs EXCEPT ![e] = y]
               /\ ExecTyped(y) /\ y.plan = x.plan /\ y.at \in {"running", "ended", "raised"}
               /\ ReadyIsShown(y, done')
               /\ y.at = "running" => \A d \in y.step.deps : <<y.plan, d>> \in done'
               /\ \/ runs' = rs /\ y.at # "running"
                  \/ /\ y.at = "running" /\ y.run = Len(rs) + 1
                     /\ \E session : runs' = Started(rs, session, "plan", e)
  BY DEF Moved
<1>2. /\ DOMAIN execs = Executions
      /\ execs'[e] = y
      /\ \A f \in Executions \ {e} : execs'[f] = execs[f]
      /\ DOMAIN execs' = Executions
  BY <1>1 DEF DelegationInv, DelegationTyped
<1>n. Len(rs) \in Nat /\ DOMAIN rs = 1..Len(rs) /\ DOMAIN runs = 1..Len(rs)
  BY ListOf DEF RunsTyped, DelegationInv, DelegationTyped
<1>3. \/ runs' = rs /\ y.at # "running"
      \/ /\ y.at = "running" /\ y.run = Len(rs) + 1
         /\ Len(runs') = Len(rs) + 1 /\ RunsTyped(runs')
         /\ \A r \in DOMAIN rs : runs'[r] = rs[r]
         /\ runs'[Len(rs) + 1].kind = "plan" /\ runs'[Len(rs) + 1].who = e
         /\ runs'[Len(rs) + 1].active
  <2>1. ASSUME NEW session, runs' = Started(rs, session, "plan", e)
        PROVE  /\ Len(runs') = Len(rs) + 1 /\ RunsTyped(runs')
               /\ \A r \in DOMAIN rs : runs'[r] = rs[r]
               /\ runs'[Len(rs) + 1].kind = "plan" /\ runs'[Len(rs) + 1].who = e
               /\ runs'[Len(rs) + 1].active
    <3> PICK t : t = Started(rs, session, "plan", e)
      OBVIOUS
    <3>1. /\ Len(t) = Len(rs) + 1 /\ RunsTyped(t)
          /\ \A r \in DOMAIN rs : t[r] = rs[r]
          /\ t[Len(rs) + 1].kind = "plan" /\ t[Len(rs) + 1].who = e
          /\ t[Len(rs) + 1].active
      BY StartedRuns
    <3> QED
      BY <2>1, <3>1
  <2> QED
    BY <1>1, <2>1
<1>4. RunsTyped(runs')
  BY <1>3
<1>d. Len(runs') \in Nat /\ DOMAIN runs' = 1..Len(runs')
  BY <1>4, ListOf DEF RunsTyped
<1>5. StillRuns(rs, runs') /\ Unrecorded(rs, runs')
  <2>1. CASE runs' = rs
    BY <1>n, <2>1 DEF StillRuns, Unrecorded
  <2>2. CASE runs' # rs
    <3>1. /\ Len(runs') = Len(rs) + 1
          /\ \A r \in DOMAIN rs : runs'[r] = rs[r]
          /\ runs'[Len(rs) + 1].active
      BY <1>3, <2>2
    <3>2. DOMAIN runs' = DOMAIN rs \cup {Len(rs) + 1}
      BY <1>n, <1>d, <3>1
    <3>3. StillRuns(rs, runs')
      BY <1>n, <3>1, <3>2 DEF StillRuns
    <3>4. Unrecorded(rs, runs')
      BY <3>1, <3>2 DEF Unrecorded
    <3> QED
      BY <3>3, <3>4
  <2> QED
    BY <2>1, <2>2
<1>6. StillRuns(runs, runs')
  BY <1>5, <1>n DEF StillRuns
<1>7. Unrecorded(runs, runs')
  <2>1. ASSUME NEW r \in DOMAIN runs, runs[r].kind = "tool", runs[r].active, ~runs'[r].active
        PROVE  runs'[r].status = "cancelled"
    <3>1. r \in DOMAIN rs /\ rs[r].kind = "tool"
      BY <1>n, <2>1 DEF StillRuns
    <3>2. runs'[r] = rs[r]
      BY <1>3, <3>1
    <3> QED
      BY <2>1, <3>2 DEF Unrecorded
  <2>2. \A r \in DOMAIN runs' \ DOMAIN runs : runs'[r].active
    BY <1>n, <1>5 DEF Unrecorded
  <2> QED
    BY <2>1, <2>2 DEF Unrecorded
<1>8. DelegationTyped'
  BY <1>1, <1>2, <1>4 DEF DelegationInv, DelegationTyped, PlansTyped
<1>9. ASSUME NEW f \in Executions
      PROVE  ExecAwaits(execs'[f], runs') /\ ReadyIsShown(execs'[f], done')
  <2>1. CASE f = e
    <3>1. y.at = "running" => y.run \in DOMAIN runs' /\ runs'[y.run].kind = "plan"
      BY <1>3, <1>n, <1>d
    <3>2. execs'[f] = y /\ y.at # "idle" /\ y.plan \in PlanIds
      BY <1>1, <1>2, <2>1
    <3> QED
      BY <1>1, <3>1, <3>2 DEF ExecAwaits
  <2>2. CASE f # e
    BY <1>2, <1>6, <2>2, ExecKept, ReadyKept DEF DelegationInv, DelegationTyped
  <2> QED
    BY <2>1, <2>2
<1>10. DependenciesCompleted'
  BY <1>1, <1>2 DEF DelegationInv, DependenciesCompleted
<1>11. ActiveIsAwaited'
  <2> SUFFICES ASSUME NEW r \in DOMAIN runs', runs'[r].active
               PROVE  /\ runs'[r].kind = "plan" => execs'[runs'[r].who].run = r
                      /\ runs'[r].kind = "tool" => runs'[runs'[r].who].active
    BY DEF ActiveIsAwaited
  <2>1. CASE r \in DOMAIN rs
    <3>1. runs'[r] = rs[r]
      BY <1>3, <2>1
    <3>2. /\ rs[r].kind = "plan" => execs[rs[r].who].run = r /\ rs[r].who # e /\ rs[r].who \in Executions
          /\ rs[r].kind = "tool" => rs[rs[r].who].active /\ rs[r].who \in DOMAIN rs
      BY <1>n, <2>1, <3>1 DEF AwaitedIn, RunsTyped
    <3>3. \A c \in DOMAIN rs : runs'[c] = rs[c]
      BY <1>3
    <3> QED
      BY <1>2, <3>1, <3>2, <3>3
  <2>2. CASE r \notin DOMAIN rs
    <3>1. /\ Len(runs') = Len(rs) + 1
          /\ y.run = Len(rs) + 1
          /\ runs'[Len(rs) + 1].kind = "plan"
          /\ runs'[Len(rs) + 1].who = e
      <4>1. runs' # rs
        BY <2>2
      <4> QED
        BY <1>3, <4>1
    <3>2. r = Len(rs) + 1
      BY <1>n, <1>d, <2>2, <3>1
    <3> QED
      BY <1>2, <3>1, <3>2
  <2> QED
    BY <2>1, <2>2
<1>12. AnswersOf(runs)'
  <2>1. AnswersOf(runs')
    BY <1>6, AnswersStay DEF DelegationInv
  <2> QED
    BY <2>1 DEF AnswersOf
<1>13. RecordsFit'
  BY <1>4, <1>6, <1>7, RecordsStay DEF DelegationInv
<1> QED
  BY <1>8, <1>9, <1>10, <1>11, <1>12, <1>13 DEF DelegationInv

\* Runs end, and with each of them the active runs of agent tools it waits for.
LEMMA EndedRuns ==
  ASSUME DelegationInv, NEW gone \in SUBSET DOMAIN runs, NEW status,
         \A c \in DOMAIN runs :
           runs[c].active /\ runs[c].kind = "tool" /\ runs[c].who \in gone => c \in gone
  PROVE  /\ StillRuns(runs, Over(runs, gone, status))
         /\ AwaitedIn(Over(runs, gone, status))
<1> DEFINE rs == Over(runs, gone, status)
<1>1. /\ RunsTyped(runs) /\ RunsTyped(rs)
      /\ Len(rs) = Len(runs) /\ DOMAIN rs = DOMAIN runs
      /\ \A r \in DOMAIN runs :
           /\ rs[r].kind = runs[r].kind
           /\ rs[r].who = runs[r].who
           /\ r \in gone => ~rs[r].active
           /\ r \notin gone \/ ~runs[r].active => rs[r] = runs[r]
  <2>1. RunsTyped(runs)
    BY DEF DelegationInv, DelegationTyped
  <2> QED
    BY <2>1, OverRuns
<1>2. Len(runs) \in Nat /\ DOMAIN runs = 1..Len(runs)
  BY <1>1, ListOf DEF RunsTyped
<1> HIDE DEF rs
<1>3. StillRuns(runs, rs)
  BY <1>1, <1>2 DEF StillRuns
<1>4. ASSUME NEW r \in DOMAIN rs, rs[r].active
      PROVE  /\ rs[r].kind = "plan" => execs[rs[r].who].run = r
             /\ rs[r].kind = "tool" => rs[rs[r].who].active
  <2>1. r \notin gone /\ rs[r] = runs[r] /\ runs[r].active /\ r \in DOMAIN runs
    BY <1>1, <1>4
  <2>2. /\ runs[r].kind = "plan" => execs[runs[r].who].run = r
        /\ runs[r].kind = "tool" => runs[runs[r].who].active
    BY <2>1 DEF DelegationInv, ActiveIsAwaited
  <2>3. ASSUME runs[r].kind = "tool"
        PROVE  rs[runs[r].who].active
    <3>1. runs[r].who \in DOMAIN runs /\ runs[r].who \notin gone
      BY <1>1, <1>2, <2>1, <2>3 DEF RunsTyped
    <3> QED
      BY <1>1, <2>2, <2>3, <3>1
  <2> QED
    BY <2>1, <2>2, <2>3
<1> QED
  BY <1>3, <1>4 DEF AwaitedIn, rs

\* A run that ends by itself has no run of an agent tool to wait for.
LEMMA AloneEnds ==
  ASSUME NEW r, NEW status, MayEnd(r, status)
  PROVE  \A c \in DOMAIN runs : runs[c].active /\ runs[c].kind = "tool" /\ runs[c].who \in {r} => c \in {r}
  BY DEF MayEnd, InsideTool
-----------------------------------------------------------------------------
(* The steps, one by one.                                                   *)

LEMMA RunsOf ==
  ASSUME DelegationInv
  PROVE  /\ RunsTyped(runs) /\ Len(runs) \in Nat /\ DOMAIN runs = 1..Len(runs)
         /\ PlansTyped /\ AwaitedIn(runs)
<1>1. RunsTyped(runs)
  BY DEF DelegationInv, DelegationTyped
<1> QED
  BY <1>1, ListOf
     DEF RunsTyped, DelegationInv, DelegationTyped, PlansTyped, AwaitedIn, ActiveIsAwaited

LEMMA SameRuns ==
  ASSUME DelegationInv
  PROVE  StillRuns(runs, runs) /\ Unrecorded(runs, runs)
  BY RunsOf DEF StillRuns, Unrecorded

LEMMA ExecuteKeeps ==
  ASSUME DelegationAssumption, DelegationInv, NEW e \in Executions, NEW p \in PlanIds,
         NEW steps \in PlanSteps, Execute(e, p, steps)
  PROVE  DelegationInv'
<1> DEFINE x == [NotBegun EXCEPT !.plan = p]
<1>1. DOMAIN x = ExecFields /\ x.plan = p /\ x.ready = << >>
  BY DEF NotBegun, ExecFields
<1>2. Proceed(e, x, runs, steps) /\ execs[e].at = "idle" /\ done' = Shown(p, steps) /\ desk' = desk
  BY DEF Execute
<1> HIDE DEF x
<1>3. ExecTyped(x) /\ ReadyIsShown(x, done')
  BY <1>1, EmptyIsList DEF ExecTyped, ReadyIsShown
<1>4. IsList(steps)
  BY DEF DelegationAssumption
<1>5. Moved(e, x, runs, done') /\ PlansTyped'
  BY <1>1, <1>2, <1>3, <1>4, RunsOf, ProceedMoves
<1>6. \A r \in DOMAIN runs : runs[r].active /\ runs[r].kind = "plan" => runs[r].who # e
  <2>1. execs[e].run = 0
    BY <1>2 DEF DelegationInv, ExecAwaits
  <2> QED
    BY <2>1, RunsOf DEF AwaitedIn
<1>7. done \subseteq done'
  BY <1>2 DEF Shown
<1> QED
  BY <1>1, <1>2, <1>5, <1>6, <1>7, RunsOf, SameRuns, ExecutionKeeps

\* The run of execution e ends, with a chain of agent tools' runs or alone.
LEMMA ExecutionLeaves ==
  ASSUME DelegationInv, NEW e \in Executions, execs[e].at = "running",
         NEW gone \in SUBSET DOMAIN runs, execs[e].run \in gone,
         \A c \in DOMAIN runs :
           runs[c].active /\ runs[c].kind = "tool" /\ runs[c].who \in gone => c \in gone,
         NEW status, status = "cancelled" \/ \A c \in gone : runs[c].kind # "tool",
         NEW x, x.plan \in PlanIds, done \subseteq done', PlansTyped', UNCHANGED desk,
         Moved(e, x, Over(runs, gone, status), done')
  PROVE  DelegationInv'
<1> PICK rs : rs = Over(runs, gone, status)
  OBVIOUS
<1>1. /\ RunsTyped(rs) /\ Len(rs) = Len(runs) /\ DOMAIN rs = DOMAIN runs
      /\ \A r \in DOMAIN runs :
           /\ rs[r].kind = runs[r].kind
           /\ rs[r].who = runs[r].who
           /\ r \in gone => ~rs[r].active
           /\ r \in gone /\ runs[r].active => rs[r].status = status
           /\ r \notin gone \/ ~runs[r].active => rs[r] = runs[r]
  BY RunsOf, OverRuns
<1>2. StillRuns(runs, rs) /\ AwaitedIn(rs)
  BY EndedRuns
<1>3. Unrecorded(runs, rs)
  BY <1>1 DEF Unrecorded
<1>4. \A r \in DOMAIN rs : rs[r].active /\ rs[r].kind = "plan" => rs[r].who # e
  <2> SUFFICES ASSUME NEW r \in DOMAIN rs, rs[r].active, rs[r].kind = "plan", rs[r].who = e PROVE FALSE
    OBVIOUS
  <2>1. r \notin gone
    BY <1>1
  <2>2. execs[e].run = r
    BY <1>2 DEF AwaitedIn
  <2> QED
    BY <2>1, <2>2
<1> QED
  BY <1>1, <1>2, <1>3, <1>4, ExecutionKeeps

LEMMA StepEndsKeeps ==
  ASSUME DelegationInv, NEW e \in Executions, NEW status \in RunEndings, StepEnds(e, status)
  PROVE  DelegationInv'
<1> DEFINE x == execs[e]
           rs == Over(runs, {x.run}, status)
           final == IF status = "completed" THEN "completed" ELSE "failed"
           stored == Loaded(x.plan)
           record == StepRecord(x.step, runs[x.run].session, final, x.run)
           y == [x EXCEPT !.records = Append(@, record), !.step = NoPlan, !.run = 0]
           steps == Updated(stored, x.step.id, final)
<1>1. /\ x.at = "running" /\ MayEnd(x.run, status) /\ desk' = desk
      /\ \/ Raised(e, y, rs) /\ UNCHANGED <<plans, done>>
         \/ /\ Known(stored, x.step.id) /\ done' = Shown(x.plan, steps)
            /\ \/ Report(e, y, rs, steps, "failed")
               \/ Proceed(e, y, rs, steps)
  BY DEF StepEnds
<1>2. ExecTyped(x) /\ x.run \in DOMAIN runs /\ runs[x.run].kind = "plan" /\ x.plan \in PlanIds
      /\ ReadyIsShown(x, done)
  BY <1>1 DEF DelegationInv, DelegationTyped, ExecAwaits
<1>3. DOMAIN y = ExecFields /\ y.plan = x.plan /\ y.ready = x.ready
  BY <1>2 DEF ExecTyped, ExecFields
<1>4. Known(stored, x.step.id) => IsList(steps)
  <2>1. Known(stored, x.step.id) => IsList(stored)
    BY <1>2, RunsOf DEF Known, Loaded, PlansTyped
  <2> QED
    BY <2>1, UpdatedSteps
<1>5. done \subseteq done'
  BY <1>1 DEF Shown
<1> HIDE DEF y, steps, rs
<1>6. ExecTyped(y) /\ ReadyIsShown(y, done')
  <2>1. ReadyIsShown(x, done')
    BY <1>2, <1>5, ReadyKept
  <2> QED
    BY <1>2, <1>3, <2>1 DEF ExecTyped, ReadyIsShown
<1>7. Moved(e, y, rs, done') /\ PlansTyped'
  <2>1. CASE Raised(e, y, rs) /\ UNCHANGED <<plans, done>>
    BY <1>6, <2>1, RaisedMoves, RunsOf DEF PlansTyped
  <2>2. CASE Known(stored, x.step.id) /\ Report(e, y, rs, steps, "failed")
    BY <1>3, <1>4, <2>2, ReportMoves, RunsOf
  <2>3. CASE Known(stored, x.step.id) /\ done' = Shown(x.plan, steps) /\ Proceed(e, y, rs, steps)
    BY <1>3, <1>4, <1>6, <2>3, ProceedMoves, RunsOf
  <2> QED
    BY <1>1, <2>1, <2>2, <2>3
<1>8. \A c \in DOMAIN runs :
        runs[c].active /\ runs[c].kind = "tool" /\ runs[c].who \in {x.run} => c \in {x.run}
  BY <1>1, AloneEnds
<1> HIDE DEF x
<1>9. {x.run} \in SUBSET DOMAIN runs /\ \A c \in {x.run} : runs[c].kind # "tool"
  BY <1>2
<1> QED
  BY <1>1, <1>2, <1>3, <1>5, <1>7, <1>8, <1>9, ExecutionLeaves DEF rs, x

LEMMA CancelExecutionKeeps ==
  ASSUME DelegationInv, NEW e \in Executions, CancelExecution(e)
  PROVE  DelegationInv'
<1> DEFINE x == execs[e]
           gone == Chain(x.run)
<1>1. /\ x.at = "running" /\ Raised(e, x, Over(runs, gone, "cancelled"))
      /\ UNCHANGED <<plans, done, desk>>
  BY DEF CancelExecution
<1>2. ExecTyped(x) /\ x.run \in DOMAIN runs /\ x.plan \in PlanIds /\ ReadyIsShown(x, done)
  BY <1>1 DEF DelegationInv, DelegationTyped, ExecAwaits
<1>3. /\ x.run \in gone /\ gone \in SUBSET DOMAIN runs
      /\ \A c \in DOMAIN runs :
           runs[c].active /\ runs[c].kind = "tool" /\ runs[c].who \in gone => c \in gone
  BY <1>2, RunsOf, ChainIsClosed
<1>4. Moved(e, x, Over(runs, gone, "cancelled"), done')
  BY <1>1, <1>2, RaisedMoves
<1>5. PlansTyped' /\ done \subseteq done'
  BY <1>1, RunsOf DEF PlansTyped
<1> QED
  BY <1>1, <1>2, <1>3, <1>4, <1>5, ExecutionLeaves
\* What the host does to a plan changes no run and no execution.
LEMMA PlansKeep ==
  ASSUME DelegationInv, PlansTyped', done \subseteq done', UNCHANGED <<execs, runs, desk>>
  PROVE  DelegationInv'
<1>1. RunsTyped(runs') /\ StillRuns(runs, runs') /\ AwaitedIn(runs)'
  BY RunsOf, SameRuns DEF AwaitedIn
<1>2. AnswersOf(runs)'
  BY DEF DelegationInv, AnswersOf
<1>3. RecordsFit'
  BY DEF DelegationInv, RecordsFit, RecordsOf
<1>4. DOMAIN desk' = DeskFields /\ IsList(desk'.tools) /\ IsList(desk'.answers)
  BY DEF DelegationInv, DelegationTyped
<1> QED
  BY <1>1, <1>2, <1>3, <1>4, BesideKeeps

\* A run begins for a handoff or an agent tool.
LEMMA BegunKeeps ==
  ASSUME DelegationInv, UNCHANGED <<execs, plans, done, desk>>, NEW s, NEW kind, kind # "plan", NEW who,
         kind = "tool" => who \in DOMAIN runs /\ runs[who].active,
         runs' = Started(runs, s, kind, who)
  PROVE  DelegationInv'
<1> PICK rs : rs = Started(runs, s, kind, who)
  OBVIOUS
<1>0. RunsTyped(runs) /\ Len(runs) \in Nat /\ DOMAIN runs = 1..Len(runs)
  BY RunsOf
<1>1. /\ RunsTyped(rs) /\ Len(rs) = Len(runs) + 1
      /\ \A r \in DOMAIN runs : rs[r] = runs[r]
      /\ rs[Len(runs) + 1].kind = kind
      /\ rs[Len(runs) + 1].who = who
      /\ rs[Len(runs) + 1].active
  BY <1>0, StartedRuns
<1>2. DOMAIN rs = DOMAIN runs \cup {Len(runs) + 1}
  <2>1. DOMAIN rs = 1..(Len(runs) + 1)
    BY <1>1, ListOf DEF RunsTyped
  <2> QED
    BY <1>0, <2>1
<1>3. StillRuns(runs, rs) /\ Unrecorded(runs, rs)
  BY <1>0, <1>1, <1>2 DEF StillRuns, Unrecorded
<1>4. ASSUME NEW r \in DOMAIN rs, rs[r].active
      PROVE  /\ rs[r].kind = "plan" => execs[rs[r].who].run = r
             /\ rs[r].kind = "tool" => rs[rs[r].who].active
  <2>1. CASE r \in DOMAIN runs
    <3>1. rs[r] = runs[r]
      BY <1>1, <2>1
    <3>2. /\ runs[r].kind = "plan" => execs[runs[r].who].run = r
          /\ runs[r].kind = "tool" => runs[runs[r].who].active /\ runs[r].who \in DOMAIN runs
      BY <1>0, <1>4, <2>1, <3>1 DEF DelegationInv, ActiveIsAwaited, RunsTyped
    <3> QED
      BY <1>1, <3>1, <3>2
  <2>2. CASE r = Len(runs) + 1
    BY <1>1, <2>2
  <2> QED
    BY <1>2, <2>1, <2>2
<1>5. AwaitedIn(runs)'
  BY <1>4 DEF AwaitedIn
<1>6. AnswersOf(runs)'
  <2>1. AnswersOf(rs)
    BY <1>3, AnswersStay DEF DelegationInv
  <2> QED
    BY <2>1 DEF AnswersOf
<1>7. RecordsFit'
  BY <1>1, <1>3, RecordsStay DEF DelegationInv
<1>8. DOMAIN desk' = DeskFields /\ IsList(desk'.tools) /\ IsList(desk'.answers) /\ PlansTyped'
  BY RunsOf DEF DelegationInv, DelegationTyped, PlansTyped
<1> QED
  BY <1>1, <1>3, <1>5, <1>6, <1>7, <1>8, BesideKeeps

LEMMA DeskTyped ==
  ASSUME DelegationInv
  PROVE  /\ DOMAIN desk = DeskFields
         /\ IsList(desk.tools) /\ Len(desk.tools) \in Nat /\ DOMAIN desk.tools = 1..Len(desk.tools)
         /\ IsList(desk.answers) /\ Len(desk.answers) \in Nat /\ DOMAIN desk.answers = 1..Len(desk.answers)
  BY ListOf DEF DelegationInv, DelegationTyped

\* The desk gains a handoff, or the record and the answer of a call that started no run.
LEMMA DeskKeeps ==
  ASSUME DelegationInv, UNCHANGED <<execs, runs, plans, done>>, DOMAIN desk' = DeskFields,
         \/ desk'.tools = desk.tools
         \/ \E x : x.run = 0 /\ desk'.tools = Append(desk.tools, x),
         \/ desk'.answers = desk.answers
         \/ \E x : x.call = 0 /\ desk'.answers = Append(desk.answers, x)
  PROVE  DelegationInv'
<1>0. Len(runs) \in Nat /\ DOMAIN runs = 1..Len(runs)
  BY RunsOf
<1>1. RunsTyped(runs') /\ StillRuns(runs, runs') /\ AwaitedIn(runs)' /\ PlansTyped'
  BY RunsOf, SameRuns DEF AwaitedIn, PlansTyped
<1>2. /\ IsList(desk'.tools)
      /\ \A c : c # 0 => {i \in DOMAIN desk'.tools : desk'.tools[i].run = c} = RecordsOf(c)
      /\ \A i \in DOMAIN desk'.tools : desk'.tools[i].run \in 0..Len(runs)
  <2>1. CASE desk'.tools = desk.tools
    BY <2>1, DeskTyped DEF RecordsOf, DelegationInv, RecordsFit
  <2>2. ASSUME NEW x, x.run = 0, desk'.tools = Append(desk.tools, x)
        PROVE  /\ IsList(desk'.tools)
               /\ \A c : c # 0 => {i \in DOMAIN desk'.tools : desk'.tools[i].run = c} = RecordsOf(c)
               /\ \A i \in DOMAIN desk'.tools : desk'.tools[i].run \in 0..Len(runs)
    <3>1. /\ IsList(desk'.tools)
          /\ DOMAIN desk'.tools = 1..(Len(desk.tools) + 1)
          /\ \A i \in DOMAIN desk.tools : desk'.tools[i] = desk.tools[i]
          /\ desk'.tools[Len(desk.tools) + 1] = x
      BY <2>2, DeskTyped, ListAppend
    <3>2. DOMAIN desk'.tools = DOMAIN desk.tools \cup {Len(desk.tools) + 1}
      BY <3>1, DeskTyped
    <3>3. \A i \in DOMAIN desk.tools : desk.tools[i].run \in 0..Len(runs)
      BY DEF DelegationInv, RecordsFit
    <3> QED
      BY <1>0, <2>2, <3>1, <3>2, <3>3 DEF RecordsOf
  <2> QED
    BY <2>1, <2>2
<1>3. RecordsFit'
  <2>1. ASSUME NEW c \in DOMAIN runs
        PROVE  RecordsOf(c)' = RecordsOf(c)
    <3>1. c # 0
      BY <1>0
    <3>2. {i \in DOMAIN desk'.tools : desk'.tools[i].run = c} = RecordsOf(c)
      BY <1>2, <3>1
    <3>3. RecordsOf(c)' = {i \in DOMAIN desk'.tools : desk'.tools[i].run = c}
      BY DEF RecordsOf
    <3> QED
      BY <3>2, <3>3
  <2> QED
    BY <1>2, <2>1 DEF RecordsFit, DelegationInv
<1>4. AnswersOf(runs)' /\ IsList(desk'.answers)
  <2>1. CASE desk'.answers = desk.answers
    BY <2>1, DeskTyped DEF DelegationInv, AnswersOf
  <2>2. ASSUME NEW x, x.call = 0, desk'.answers = Append(desk.answers, x)
        PROVE  AnswersOf(runs)' /\ IsList(desk'.answers)
    <3>1. /\ IsList(desk'.answers)
          /\ DOMAIN desk'.answers = 1..(Len(desk.answers) + 1)
          /\ \A i \in DOMAIN desk.answers : desk'.answers[i] = desk.answers[i]
          /\ desk'.answers[Len(desk.answers) + 1] = x
      BY <2>2, DeskTyped, ListAppend
    <3>2. DOMAIN desk'.answers = DOMAIN desk.answers \cup {Len(desk.answers) + 1}
      BY <3>1, DeskTyped
    <3> QED
      BY <2>2, <3>1, <3>2 DEF DelegationInv, AnswersOf
  <2> QED
    BY <2>1, <2>2
<1> QED
  BY <1>1, <1>2, <1>3, <1>4, BesideKeeps

LEMMA HandoffKeeps ==
  ASSUME DelegationInv, NEW request, Handoff(request)
  PROVE  DelegationInv'
<1> DEFINE d == Decision(request)
           record == HandoffRecord(request, d, "none", 0)
<1> HIDE DEF record
<1>1. CASE desk' = [desk EXCEPT !.handoffs = Append(@, record)] /\ runs' = runs
  <2>1. UNCHANGED <<execs, runs, plans, done>>
    BY <1>1 DEF Handoff
  <2>2. DOMAIN desk' = DeskFields /\ desk'.tools = desk.tools /\ desk'.answers = desk.answers
    BY <1>1, DeskTyped DEF DeskFields
  <2> QED
    BY <2>1, <2>2, DeskKeeps
<1>2. CASE runs' = Started(runs, d.session, "handoff", [request |-> request, decision |-> d]) /\ desk' = desk
  <2>1. UNCHANGED <<execs, plans, done, desk>>
    BY <1>2 DEF Handoff
  <2> QED
    BY <1>2, <2>1, BegunKeeps
<1>3. CASE UNCHANGED <<runs, desk>>
  <2>1. UNCHANGED <<execs, plans, done>>
    BY <1>3 DEF Handoff
  <2>2. PlansTyped'
    BY <2>1, RunsOf DEF PlansTyped
  <2> QED
    BY <1>3, <2>1, <2>2, PlansKeep
<1> QED
  BY <1>1, <1>2, <1>3 DEF Handoff, record

LEMMA CallAgentKeeps ==
  ASSUME DelegationInv, NEW r \in DOMAIN runs, NEW tool, CallAgent(r, tool)
  PROVE  DelegationInv'
<1> DEFINE answer == [parent |-> r, call |-> 0, status |-> "failed"]
           record == ToolRecord(tool.name, r, "raised", 0)
<1>1. answer.call = 0 /\ record.run = 0
  BY DEF ToolRecord
<1>2. \A answers : Answered(answers, r, 0, "failed") = Append(answers, answer)
  BY DEF Answered
<1>u. UNCHANGED <<execs, plans, done>> /\ runs[r].active
  BY DEF CallAgent
<1>3. \/ desk' = [desk EXCEPT !.answers = Append(@, answer)] /\ runs' = runs
      \/ /\ desk' = [desk EXCEPT !.tools = Append(@, record), !.answers = Append(@, answer)]
         /\ runs' = runs
      \/ runs' = Started(runs, tool.session, "tool", r) /\ desk' = desk
  BY <1>2 DEF CallAgent
<1> HIDE DEF answer, record
<1>4. CASE desk' = [desk EXCEPT !.answers = Append(@, answer)] /\ runs' = runs
  <2>1. DOMAIN desk' = DeskFields /\ desk'.tools = desk.tools /\ desk'.answers = Append(desk.answers, answer)
    BY <1>4, DeskTyped DEF DeskFields
  <2> QED
    BY <1>1, <1>4, <1>u, <2>1, DeskKeeps
<1>5. CASE desk' = [desk EXCEPT !.tools = Append(@, record), !.answers = Append(@, answer)] /\ runs' = runs
  <2>1. /\ DOMAIN desk' = DeskFields
        /\ desk'.tools = Append(desk.tools, record)
        /\ desk'.answers = Append(desk.answers, answer)
    BY <1>5, DeskTyped DEF DeskFields
  <2> QED
    BY <1>1, <1>5, <1>u, <2>1, DeskKeeps
<1>6. CASE runs' = Started(runs, tool.session, "tool", r) /\ desk' = desk
  BY <1>6, <1>u, BegunKeeps
<1> QED
  BY <1>3, <1>4, <1>5, <1>6

\* What a run that ends by itself leaves to show of the stores.
LEMMA OneEnds ==
  ASSUME DelegationInv, NEW r \in DOMAIN runs, runs[r].active, NEW status, MayEnd(r, status),
         runs' = Over(runs, {r}, status)
  PROVE  /\ RunsTyped(runs') /\ DOMAIN runs' = DOMAIN runs /\ Len(runs') = Len(runs)
         /\ StillRuns(runs, runs') /\ AwaitedIn(runs')
         /\ runs'[r].kind = runs[r].kind
         /\ ~runs'[r].active
         /\ runs'[r].status = status
         /\ \A c \in DOMAIN runs : c # r => runs'[c] = runs[c]
<1> PICK rs : rs = Over(runs, {r}, status)
  OBVIOUS
<1>1. StillRuns(runs, rs) /\ AwaitedIn(rs)
  BY AloneEnds, EndedRuns
<1>2. /\ RunsTyped(rs) /\ Len(rs) = Len(runs) /\ DOMAIN rs = DOMAIN runs
      /\ \A c \in DOMAIN runs :
           /\ rs[c].kind = runs[c].kind
           /\ c \in {r} => ~rs[c].active
           /\ c \in {r} /\ runs[c].active => rs[c].status = status
           /\ c \notin {r} \/ ~runs[c].active => rs[c] = runs[c]
  BY RunsOf, OverRuns
<1> QED
  BY <1>1, <1>2

LEMMA HandoffEndsKeeps ==
  ASSUME DelegationInv, NEW r \in DOMAIN runs, NEW status, HandoffEnds(r, status)
  PROVE  DelegationInv'
<1> DEFINE record == HandoffRecord(runs[r].who.request, runs[r].who.decision, status, r)
<1>1. /\ runs[r].active /\ runs[r].kind = "handoff" /\ MayEnd(r, status)
      /\ runs' = Over(runs, {r}, status)
      /\ \/ desk' = desk
         \/ desk' = [desk EXCEPT !.handoffs = Append(@, record)]
      /\ UNCHANGED <<plans, execs, done>>
  BY DEF HandoffEnds
<1> HIDE DEF record
<1>2. DOMAIN desk' = DeskFields /\ desk'.tools = desk.tools /\ desk'.answers = desk.answers
  BY <1>1, DeskTyped DEF DeskFields
<1>3. /\ RunsTyped(runs') /\ DOMAIN runs' = DOMAIN runs /\ Len(runs') = Len(runs)
      /\ StillRuns(runs, runs') /\ AwaitedIn(runs')
      /\ \A c \in DOMAIN runs : c # r => runs'[c] = runs[c]
      /\ runs'[r].kind = "handoff"
  BY <1>1, OneEnds
<1>4. AwaitedIn(runs)' /\ PlansTyped'
  BY <1>1, <1>3, RunsOf DEF AwaitedIn, PlansTyped
<1>5. AnswersOf(runs)'
  <2>1. AnswersOf(runs')
    BY <1>3, AnswersStay DEF DelegationInv
  <2> QED
    BY <1>2, <2>1 DEF AnswersOf
<1>6. RecordsFit'
  <2>1. \A c : RecordsOf(c)' = RecordsOf(c)
    BY <1>2 DEF RecordsOf
  <2>2. \A c \in DOMAIN runs' : runs'[c].kind = "tool" => runs'[c] = runs[c]
    BY <1>3
  <2> QED
    BY <1>2, <1>3, <2>1, <2>2 DEF RecordsFit, DelegationInv
<1> QED
  BY <1>1, <1>2, <1>3, <1>4, <1>5, <1>6, DeskTyped, BesideKeeps

LEMMA AgentEndsKeeps ==
  ASSUME DelegationInv, NEW c \in DOMAIN runs, NEW status \in RunEndings, AgentEnds(c, status)
  PROVE  DelegationInv'
<1> DEFINE record == ToolRecord(runs[c].session, runs[c].who, status, c)
           ended == IF status = "completed" THEN "completed" ELSE "failed"
           answer == [parent |-> runs[c].who, call |-> c, status |-> ended]
           n == Len(desk.tools)
           m == Len(desk.answers)
<1>1. /\ runs[c].active /\ runs[c].kind = "tool" /\ MayEnd(c, status)
      /\ runs' = Over(runs, {c}, status)
      /\ desk' = [desk EXCEPT !.tools = Append(desk.tools, record), !.answers = Append(@, answer)]
      /\ UNCHANGED <<plans, execs, done>>
  BY DEF AgentEnds, RecordedCall, Answered
<1>2. /\ record.run = c /\ answer.call = c /\ answer.status = ended
      /\ ended = "completed" <=> status = "completed"
  BY DEF ToolRecord
<1> HIDE DEF record, answer, ended
<1>3. /\ DOMAIN desk' = DeskFields
      /\ desk'.tools = Append(desk.tools, record)
      /\ desk'.answers = Append(desk.answers, answer)
  BY <1>1, DeskTyped DEF DeskFields
<1>4. /\ IsList(desk'.tools)
      /\ DOMAIN desk'.tools = 1..(n + 1)
      /\ \A i \in DOMAIN desk.tools : desk'.tools[i] = desk.tools[i]
      /\ desk'.tools[n + 1] = record
  BY <1>3, DeskTyped, ListAppend
<1>5. /\ IsList(desk'.answers)
      /\ DOMAIN desk'.answers = 1..(m + 1)
      /\ \A i \in DOMAIN desk.answers : desk'.answers[i] = desk.answers[i]
      /\ desk'.answers[m + 1] = answer
  BY <1>3, DeskTyped, ListAppend
<1>6. /\ n \in Nat /\ m \in Nat
      /\ DOMAIN desk.tools = 1..n
      /\ DOMAIN desk.answers = 1..m
  BY DeskTyped
<1>7. /\ RunsTyped(runs') /\ DOMAIN runs' = DOMAIN runs /\ Len(runs') = Len(runs)
      /\ StillRuns(runs, runs') /\ AwaitedIn(runs')
      /\ runs'[c].kind = "tool"
      /\ ~runs'[c].active
      /\ runs'[c].status = status
      /\ \A d \in DOMAIN runs : d # c => runs'[d] = runs[d]
  BY <1>1, OneEnds
<1>8. AwaitedIn(runs)' /\ PlansTyped'
  BY <1>1, <1>7, RunsOf DEF AwaitedIn, PlansTyped
<1> HIDE DEF n, m
<1>9. AnswersOf(runs)'
  <2>1. AnswersOf(runs')
    BY <1>7, AnswersStay DEF DelegationInv
  <2> SUFFICES ASSUME NEW i \in 1..(m + 1), NEW k, k = desk'.answers[i].call, k # 0
               PROVE  /\ k \in DOMAIN runs' /\ ~runs'[k].active
                      /\ desk'.answers[i].status = "completed" <=> runs'[k].status = "completed"
    BY <1>5 DEF AnswersOf
  <2>2. CASE i \in 1..m
    <3>1. desk'.answers[i] = desk.answers[i] /\ i \in DOMAIN desk.answers
      BY <1>5, <1>6, <2>2
    <3> QED
      BY <2>1, <3>1 DEF AnswersOf
  <2>3. CASE i = m + 1
    <3>1. desk'.answers[i] = answer
      BY <1>5, <2>3
    <3>2. k = c
      BY <1>2, <3>1
    <3> QED
      BY <1>2, <1>7, <3>1, <3>2
  <2> QED
    BY <1>6, <2>2, <2>3
<1>10. RecordsFit'
  <2>1. DOMAIN desk'.tools = DOMAIN desk.tools \cup {n + 1} /\ n + 1 \notin DOMAIN desk.tools
    BY <1>4, <1>6
  <2>2. \A d : RecordsOf(d)' = IF d = c THEN RecordsOf(d) \cup {n + 1} ELSE RecordsOf(d)
    BY <1>2, <1>4, <2>1 DEF RecordsOf
  <2>3. Cardinality(RecordsOf(c)) = 0
    BY <1>1 DEF DelegationInv, RecordsFit
  <2>4. Cardinality(RecordsOf(c) \cup {n + 1}) = 1
    <3>1. IsFiniteSet(RecordsOf(c))
      <4>1. IsFiniteSet(1..n)
        BY <1>6, FS_Interval
      <4>2. RecordsOf(c) \subseteq 1..n
        BY <1>6 DEF RecordsOf
      <4> QED
        BY <4>1, <4>2, FS_Subset
    <3>2. n + 1 \notin RecordsOf(c)
      BY <2>1 DEF RecordsOf
    <3> QED
      BY <2>3, <3>1, <3>2, FS_AddElement
  <2>5. \A i \in DOMAIN desk'.tools : desk'.tools[i].run \in 0..Len(runs')
    <3>1. c \in 0..Len(runs')
      BY <1>7, RunsOf
    <3>2. \A i \in DOMAIN desk.tools : desk.tools[i].run \in 0..Len(runs)
      BY DEF DelegationInv, RecordsFit
    <3> QED
      BY <1>2, <1>4, <1>7, <2>1, <3>1, <3>2
  <2>6. ASSUME NEW d \in DOMAIN runs', runs'[d].kind = "tool"
        PROVE  Cardinality(RecordsOf(d)')
                 = IF runs'[d].active \/ runs'[d].status = "cancelled" THEN 0 ELSE 1
    <3>1. CASE d = c
      <4>1. status # "cancelled"
        BY DEF RunEndings
      <4>2. RecordsOf(d)' = RecordsOf(c) \cup {n + 1}
        BY <2>2, <3>1
      <4> QED
        BY <1>7, <2>4, <3>1, <4>1, <4>2
    <3>2. CASE d # c
      <4>1. runs'[d] = runs[d] /\ d \in DOMAIN runs
        BY <1>7, <3>2
      <4>2. RecordsOf(d)' = RecordsOf(d)
        BY <2>2, <3>2
      <4>3. Cardinality(RecordsOf(d)) = IF runs[d].active \/ runs[d].status = "cancelled" THEN 0 ELSE 1
        BY <2>6, <4>1 DEF DelegationInv, RecordsFit
      <4> QED
        BY <4>1, <4>2, <4>3
    <3> QED
      BY <3>1, <3>2
  <2> QED
    BY <2>5, <2>6 DEF RecordsFit
<1> QED
  BY <1>1, <1>3, <1>4, <1>5, <1>7, <1>8, <1>9, <1>10, BesideKeeps

LEMMA CallTimesOutKeeps ==
  ASSUME DelegationInv, NEW c \in DOMAIN runs, CallTimesOut(c)
  PROVE  DelegationInv'
<1> DEFINE gone == Chain(c)
           w == runs[c].who
<1> PICK rs : rs = Over(runs, gone, "cancelled")
  OBVIOUS
<1>1. /\ runs[c].active /\ runs[c].kind = "tool"
      /\ runs' = [rs EXCEPT ![w] = [rs[w] EXCEPT !.status = "timeout"]]
      /\ UNCHANGED <<plans, execs, desk, done>>
  BY DEF CallTimesOut
<1>2. /\ RunsTyped(runs) /\ Len(runs) \in Nat /\ DOMAIN runs = 1..Len(runs)
      /\ w \in DOMAIN runs /\ w \in 1..(c - 1) /\ runs[w].active
  BY <1>1, RunsOf DEF RunsTyped, AwaitedIn
<1>3. /\ gone \in SUBSET DOMAIN runs /\ w \notin gone
      /\ \A d \in DOMAIN runs :
           runs[d].active /\ runs[d].kind = "tool" /\ runs[d].who \in gone => d \in gone
  BY <1>2, ChainIsClosed
<1>4. StillRuns(runs, rs) /\ AwaitedIn(rs)
  BY <1>3, EndedRuns
<1>5. /\ RunsTyped(rs) /\ Len(rs) = Len(runs) /\ DOMAIN rs = DOMAIN runs
      /\ \A d \in DOMAIN runs :
           /\ rs[d].kind = runs[d].kind
           /\ d \in gone /\ runs[d].active => rs[d].status = "cancelled"
           /\ d \notin gone \/ ~runs[d].active => rs[d] = runs[d]
  BY RunsOf, OverRuns
<1> HIDE DEF w, gone
<1>6. /\ DOMAIN runs' = DOMAIN rs
      /\ \A d \in DOMAIN rs : d # w => runs'[d] = rs[d]
      /\ runs'[w] = [rs[w] EXCEPT !.status = "timeout"]
  BY <1>1, <1>2, <1>5
<1>7. /\ DOMAIN runs'[w] = RunFields
      /\ runs'[w].kind = rs[w].kind /\ runs'[w].who = rs[w].who
      /\ runs'[w].active = rs[w].active
  BY <1>2, <1>5, <1>6 DEF RunsTyped, RunFields
<1>8. IsList(runs') /\ Len(runs') = Len(runs) /\ DOMAIN runs' = DOMAIN runs
  <2>1. rs = [i \in 1..Len(runs) |-> rs[i]]
    BY <1>2, <1>5 DEF RunsTyped, IsList
  <2>2. runs' = [i \in 1..Len(runs) |-> runs'[i]]
    BY <1>1, <2>1
  <2> QED
    BY <1>2, <2>2, FunctionIsList
<1>9. \A d \in DOMAIN runs :
        /\ DOMAIN runs'[d] = RunFields
        /\ runs'[d].kind = rs[d].kind /\ runs'[d].who = rs[d].who
        /\ runs'[d].active = rs[d].active
        /\ rs[d].active \in BOOLEAN
        /\ d # w => runs'[d].status = rs[d].status
  BY <1>5, <1>6, <1>7 DEF RunsTyped
<1>10. RunsTyped(runs')
  BY <1>5, <1>8, <1>9 DEF RunsTyped
<1>11. StillRuns(runs, runs')
  BY <1>2, <1>4, <1>8, <1>9 DEF StillRuns
<1>12. Unrecorded(runs, runs')
  <2> SUFFICES ASSUME NEW d \in DOMAIN runs, runs[d].active, ~runs'[d].active
               PROVE  runs'[d].status = "cancelled"
    BY <1>8 DEF Unrecorded
  <2>1. ~rs[d].active
    BY <1>9
  <2>2. d \in gone /\ rs[d].status = "cancelled"
    BY <1>5, <2>1
  <2> QED
    BY <1>3, <1>9, <2>2 DEF w
<1>13. AwaitedIn(runs)'
  <2>1. AwaitedIn(runs')
    <3> SUFFICES ASSUME NEW d \in DOMAIN runs, runs'[d].active
                 PROVE  /\ runs'[d].kind = "plan" => execs[runs'[d].who].run = d
                        /\ runs'[d].kind = "tool" => runs'[runs'[d].who].active
      BY <1>8 DEF AwaitedIn
    <3>1. rs[d].active /\ runs'[d].kind = rs[d].kind /\ runs'[d].who = rs[d].who
      BY <1>9
    <3>2. /\ rs[d].kind = "plan" => execs[rs[d].who].run = d
          /\ rs[d].kind = "tool" => rs[rs[d].who].active
      BY <1>4, <1>5, <3>1 DEF AwaitedIn
    <3>3. rs[d].kind = "tool" => rs[d].who \in DOMAIN runs
      BY <1>2, <1>5 DEF RunsTyped
    <3> QED
      BY <1>9, <3>1, <3>2, <3>3
  <2> QED
    BY <1>1, <2>1 DEF AwaitedIn
<1>14. AnswersOf(runs)'
  <2>1. AnswersOf(runs')
    BY <1>11, AnswersStay DEF DelegationInv
  <2> QED
    BY <1>1, <2>1 DEF AnswersOf
<1>15. RecordsFit'
  BY <1>1, <1>10, <1>11, <1>12, RecordsStay DEF DelegationInv
<1>16. DOMAIN desk' = DeskFields /\ IsList(desk'.tools) /\ IsList(desk'.answers) /\ PlansTyped'
  BY <1>1, DeskTyped, RunsOf DEF PlansTyped
<1> QED
  BY <1>1, <1>10, <1>11, <1>13, <1>14, <1>15, <1>16, BesideKeeps

-----------------------------------------------------------------------------
(* All steps.                                                               *)

LEMMA DelegationStep ==
  ASSUME DelegationInv, [DelegationNext]_delegationVars
  PROVE  DelegationInv'
<1>1. CASE UNCHANGED delegationVars
  BY <1>1, RunsOf, PlansKeep DEF delegationVars, PlansTyped
<1>2. ASSUME NEW e \in Executions, NEW p \in PlanIds, NEW steps \in PlanSteps, Execute(e, p, steps)
      PROVE  DelegationInv'
  BY <1>2, DelegationAssumption, ExecuteKeeps
<1>3. ASSUME NEW e \in Executions, NEW status \in RunEndings, StepEnds(e, status)
      PROVE  DelegationInv'
  BY <1>3, StepEndsKeeps
<1>4. ASSUME NEW e \in Executions, CancelExecution(e)
      PROVE  DelegationInv'
  BY <1>4, CancelExecutionKeeps
<1>5. ASSUME NEW p \in PlanIds, NEW id, NEW status, HostUpdates(p, id, status)
      PROVE  DelegationInv'
  <2>1. /\ plans' = Saved(p, Updated(plans[p], id, status)) /\ plans[p] # NoPlan
        /\ done' = Shown(p, plans'[p]) /\ UNCHANGED <<execs, runs, desk>>
    BY <1>5 DEF HostUpdates, Known, Loaded
  <2>2. IsList(Updated(plans[p], id, status))
    BY <2>1, RunsOf, UpdatedSteps DEF PlansTyped
  <2>3. PlansTyped' /\ done \subseteq done'
    BY <2>1, <2>2, RunsOf, SavedPlans DEF Shown
  <2> QED
    BY <2>1, <2>3, PlansKeep
<1>6. ASSUME NEW p \in PlanIds, HostDeletes(p)
      PROVE  DelegationInv'
  <2>1. plans' = Saved(p, NoPlan) /\ UNCHANGED <<execs, runs, desk, done>>
    BY <1>6 DEF HostDeletes
  <2>2. PlansTyped'
    BY <2>1, RunsOf, SavedPlans
  <2> QED
    BY <2>1, <2>2, PlansKeep
<1>7. ASSUME NEW request, Handoff(request)
      PROVE  DelegationInv'
  BY <1>7, HandoffKeeps
<1>8. ASSUME NEW x, Advertise(x) \/ Unregister(x)
      PROVE  DelegationInv'
  BY <1>8, RunsOf, PlansKeep DEF Advertise, Unregister, PlansTyped
<1>9. ASSUME NEW r \in DOMAIN runs, NEW status \in RunEndings, HandoffEnds(r, status) \/ AgentEnds(r, status)
      PROVE  DelegationInv'
  BY <1>9, HandoffEndsKeeps, AgentEndsKeeps
<1>10. ASSUME NEW r \in DOMAIN runs, NEW tool, CallAgent(r, tool)
       PROVE  DelegationInv'
  BY <1>10, CallAgentKeeps
<1>11. ASSUME NEW r \in DOMAIN runs, CallTimesOut(r)
       PROVE  DelegationInv'
  BY <1>11, CallTimesOutKeeps
<1> QED
  BY <1>1, <1>2, <1>3, <1>4, <1>5, <1>6, <1>7, <1>8, <1>9, <1>10, <1>11 DEF DelegationNext

LEMMA DelegationInitInv ==
  ASSUME DelegationInit
  PROVE  DelegationInv
<1>1. runs = << >> /\ done = {} /\ \A e \in Executions : execs[e] = NotBegun
  BY DEF DelegationInit
<1>2. RunsTyped(runs) /\ DOMAIN runs = {}
  BY <1>1, EmptyIsList DEF RunsTyped
<1>3. NotBegun.at = "idle" /\ NotBegun.run = 0 /\ NotBegun.ready = << >> /\ DOMAIN NotBegun = ExecFields
  BY DEF NotBegun, ExecFields
<1>4. DOMAIN desk = DeskFields /\ desk.tools = << >> /\ desk.answers = << >>
  BY DEF DelegationInit, DeskFields
<1>5. DelegationTyped
  BY <1>1, <1>2, <1>3, <1>4, EmptyIsList DEF DelegationInit, DelegationTyped, ExecTyped
<1>6. \A e \in Executions : ExecAwaits(execs[e], runs) /\ ReadyIsShown(execs[e], done)
  BY <1>1, <1>3 DEF ExecAwaits, ReadyIsShown
<1>7. DependenciesCompleted
  BY <1>1, <1>3 DEF DependenciesCompleted
<1>8. ActiveIsAwaited /\ AnswersOf(runs) /\ RecordsFit
  BY <1>2, <1>4 DEF ActiveIsAwaited, AnswersOf, RecordsFit
<1> QED
  BY <1>5, <1>6, <1>7, <1>8 DEF DelegationInv

\* Whatever hosts, executions of the same plan, refusals, cancels and deadlines do: a step
\* is begun when its dependencies were shown completed, no run is active that nobody
\* waits for, and the records of agent tools are those of the runs that ended, one each.
THEOREM DelegatedWorkIsAwaited == DelegationSpec => []WorkIsAwaited
<1>1. DelegationInit => DelegationInv
  BY DelegationInitInv
<1>2. DelegationInv /\ [DelegationNext]_delegationVars => DelegationInv'
  BY DelegationStep
<1>3. DelegationInv => WorkIsAwaited
  <2> SUFFICES ASSUME DelegationInv PROVE CallsAreRecorded
    BY DEF WorkIsAwaited, DelegationInv
  <2>1. ASSUME NEW i \in DOMAIN desk.answers, desk.answers[i].call # 0
        PROVE  desk.answers[i].status = "completed" <=> runs[desk.answers[i].call].status = "completed"
    BY <2>1 DEF DelegationInv, AnswersOf
  <2> QED
    BY <2>1 DEF CallsAreRecorded, DelegationInv, RecordsFit, RecordsOf
<1> QED
  BY <1>1, <1>2, <1>3, PTL DEF DelegationSpec
=============================================================================
