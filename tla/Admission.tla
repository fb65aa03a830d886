------------------------------ MODULE Admission ------------------------------
(***************************************************************************)
(* What AgentSessionManager promises of its local capacity (README         *)
(* "AgentManagerConcurrencyPolicy ..."): jobs belong to a group; a job     *)
(* holds a slot at once if there is room, else it waits; a waiting job is  *)
(* admitted only when there is room, or it is withdrawn; a slot is given   *)
(* back once, and a job never comes back.                                  *)
(***************************************************************************)
EXTENDS Naturals, FiniteSets

CONSTANTS Jobs, Groups, GroupLimit, TotalLimit, Unlimited, NoGroup

VARIABLES group, waiting, holding

avars == <<group, waiting, holding>>

Room(g) ==
  /\ Cardinality({j \in holding : group[j] = g}) < GroupLimit
  /\ TotalLimit # Unlimited => Cardinality(holding) < TotalLimit

AInit ==
  /\ group = [j \in Jobs |-> NoGroup]
  /\ waiting = {}
  /\ holding = {}

Enter(j, g) ==
  /\ group[j] = NoGroup /\ Room(g)
  /\ group' = [group EXCEPT ![j] = g]
  /\ holding' = holding \cup {j}
  /\ UNCHANGED waiting

Queue(j, g) ==
  /\ group[j] = NoGroup /\ ~Room(g)
  /\ group' = [group EXCEPT ![j] = g]
  /\ waiting' = waiting \cup {j}
  /\ UNCHANGED holding

Admit(j) ==
  /\ j \in waiting /\ Room(group[j])
  /\ waiting' = waiting \ {j}
  /\ holding' = holding \cup {j}
  /\ UNCHANGED group

Withdraw(j) ==
  /\ j \in waiting
  /\ waiting' = waiting \ {j}
  /\ UNCHANGED <<group, holding>>

Leave(j) ==
  /\ j \in holding
  /\ holding' = holding \ {j}
  /\ UNCHANGED <<group, waiting>>

Reset ==
  /\ waiting' = {} /\ holding' = {}
  /\ UNCHANGED group

ANext ==
  \/ \E j \in Jobs, g \in Groups : Enter(j, g) \/ Queue(j, g)
  \/ \E j \in Jobs : Admit(j) \/ Withdraw(j) \/ Leave(j)
  \/ Reset

ASpec == AInit /\ [][ANext]_avars
=============================================================================
