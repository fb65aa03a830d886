------------------------ MODULE SessionManagerProofs ------------------------
(* Theorems of SessionManager for every number of sessions, runs and slots. *)
EXTENDS SessionManager, FiniteSetTheorems, TLAPS

-----------------------------------------------------------------------------
(* Type correctness.                                                        *)

(* The types are inductive only together with what a task's position says:  *)
(* Begin looks up sessions[sessionOf[r]], NextTurn counts turns up.         *)
IInv == TypeOK /\ TasksOK

LEMMA InitIInv == Init => IInv
<1> SUFFICES ASSUME Init PROVE IInv  OBVIOUS
<1> QED
  BY ConstantsAssumption, NoneAssumption
  DEF Init, IInv, TypeOK, TasksOK, Tokens, Places, Claiming, Running, Executing

LEMMA EnterSessionTypes ==
  ASSUME TypeOK, NEW r \in Runs, NEW n \in Names, sessions[n] # None, EnterSession(r, n)
  PROVE  /\ token' \in [Objects -> Tokens]
         /\ tripped' \in [Tokens -> BOOLEAN]
         /\ holder' \in [Runs -> Objects \cup {None}]
         /\ seen' \in [Runs -> Tokens \cup {None}]
         /\ status' \in [Runs -> Statuses \cup {None}]
         /\ pc' \in [Runs -> Places]
<1>1. sessions[n] \in Objects  BY DEF TypeOK
<1>2. token[sessions[n]] \in Tokens /\ r \in Tokens  BY <1>1 DEF TypeOK, Tokens
<1>3. "running" \in Statuses /\ "preparing" \in Places
  BY DEF Statuses, ActiveStatuses, Places, Claiming, Running
<1> QED
  BY <1>1, <1>2, <1>3 DEF EnterSession, TypeOK

LEMMA StepTypeOK == IInv /\ [Next]_vars => TypeOK'
<1> SUFFICES ASSUME TypeOK, TasksOK, [Next]_vars PROVE TypeOK'  BY DEF IInv
<1> USE ConstantsAssumption, NoneAssumption
<1> USE DEF hostVars, tokenVars, taskVars, history
<1>p. /\ {"new", "waiting", "pending", "preparing", "turn", "provider", "acting",
          "finishing", "recording", "done", "dead", "gone"} \subseteq Places
      /\ {"queued", "running", "cancelling", "cancelled", "failed", "interrupted"}
           \subseteq Statuses
      /\ {"completed", "cancelled", "timeout"} \cup LoopEndings = EndStatuses
      /\ EndStatuses \subseteq Statuses
  BY DEF Places, Claiming, Running, Executing, Statuses, ActiveStatuses, EndStatuses
<1>1. ASSUME NEW n \in Names, NEW o \in Objects, Register(n, o) PROVE TypeOK'
  BY <1>1 DEF Register, TypeOK
<1>2. ASSUME NEW n \in Names, Unregister(n) PROVE TypeOK'
  BY <1>2 DEF Unregister, TypeOK
<1>3. ASSUME NEW n \in Names, NEW r \in Runs, StartNow(n, r) PROVE TypeOK'
  BY <1>3, <1>p DEF StartNow, Claim, TypeOK
<1>4. ASSUME NEW n \in Names, NEW r \in Runs, StartQueued(n, r) PROVE TypeOK'
  BY <1>4, <1>p DEF StartQueued, TypeOK
<1>5. ASSUME NEW n \in Names, NEW r \in Runs, RunNow(n, r) PROVE TypeOK'
  BY <1>5, EnterSessionTypes DEF RunNow, Claim, TypeOK
<1>6. ASSUME NEW r \in Runs, CancelQueued(r) PROVE TypeOK'
  BY <1>6, <1>p DEF CancelQueued, TypeOK
<1>7. ASSUME NEW r \in Runs, CancelActive(r) PROVE TypeOK'
  BY <1>7, <1>p DEF CancelActive, Struck, TypeOK
<1>8. ASSUME NEW r \in Runs, Abandon(r) PROVE TypeOK'
  BY <1>8, <1>p DEF Abandon, DropLocals, TypeOK
<1>9. ASSUME NEW r \in Runs, PollCancelled(r) PROVE TypeOK'
  BY <1>9, <1>p DEF PollCancelled, TypeOK
<1>10. ASSUME NEW r \in Runs, PollAdmits(r) PROVE TypeOK'
  <2>1. sessionOf[r] \in Names  BY <1>10 DEF PollAdmits, MayPoll, TasksOK
  <2> QED
    BY <1>10, <2>1, EnterSessionTypes DEF PollAdmits, Claim, TypeOK
<1>11. ASSUME NEW r \in Runs, PollUnknownSession(r) PROVE TypeOK'
  BY <1>11, <1>p DEF PollUnknownSession, Claim, TypeOK
<1>12. ASSUME NEW r \in Runs, Begin(r) PROVE TypeOK'
  <2>1. sessionOf[r] \in Names  BY <1>12 DEF Begin, TasksOK
  <2> QED
    BY <1>12, <2>1, EnterSessionTypes DEF Begin, TypeOK
<1>13. ASSUME NEW r \in Runs, BuildExecutor(r) PROVE TypeOK'
  <2>1. holder[r] \in Objects  BY <1>13 DEF BuildExecutor, TasksOK
  <2>2. TokenOf(r) \in Tokens
    BY <2>1 DEF TokenOf, TypeOK
  <2> QED
    BY <1>13, <1>p, <2>2 DEF BuildExecutor, TypeOK
<1>14. ASSUME NEW r \in Runs, PreflightBlocks(r) PROVE TypeOK'
  BY <1>14, <1>p DEF PreflightBlocks, Returns, TypeOK
<1>15. ASSUME NEW r \in Runs, StartTurn(r) PROVE TypeOK'
  BY <1>15, <1>p DEF StartTurn, Returns, TypeOK
<1>16. ASSUME NEW r \in Runs, ProviderReturns(r) PROVE TypeOK'
  BY <1>16, <1>p DEF ProviderReturns, Returns, TypeOK
<1>17. ASSUME NEW r \in Runs, NextTurn(r) PROVE TypeOK'
  <2>1. turns[r] \in 0 .. MaxIterations /\ turns[r] < MaxIterations
    BY <1>17 DEF NextTurn, TasksOK, TypeOK
  <2>2. turns[r] + 1 \in 0 .. MaxIterations  BY <2>1
  <2> QED
    BY <1>17, <1>p, <2>2 DEF NextTurn, TypeOK
<1>18. ASSUME NEW r \in Runs, NEW s \in EndStatuses, EndLoop(r, s) PROVE TypeOK'
  BY <1>18, <1>p DEF EndLoop, Returns, TypeOK
<1>19. ASSUME NEW r \in Runs, DeadlinePasses(r) PROVE TypeOK'
  BY <1>19, <1>p DEF DeadlinePasses, Returns, Struck, TypeOK
<1>20. ASSUME NEW r \in Runs, Finish(r) PROVE TypeOK'
  <2>1. result[r] \in EndStatuses  BY <1>20 DEF Finish, TasksOK
  <2> QED
    BY <1>20, <1>p, <2>1 DEF Finish, SaveEnding, DropLocals, TypeOK
<1>21. ASSUME NEW r \in Runs, Fail(r) PROVE TypeOK'
  BY <1>21, <1>p DEF Fail, TypeOK
<1>22. ASSUME NEW r \in Runs, Raise(r) PROVE TypeOK'
  BY <1>22, <1>p DEF Raise, ClaimsAfterRaise, DropLocals, TypeOK
<1>23. CASE Restart
  BY <1>23, <1>p DEF Restart, Restored, TypeOK, Tokens
<1>24. CASE UNCHANGED vars
  BY <1>24 DEF vars, TypeOK
<1> QED
  BY <1>1, <1>2, <1>3, <1>4, <1>5, <1>6, <1>7, <1>8, <1>9, <1>10, <1>11, <1>12, <1>13,
     <1>14, <1>15, <1>16, <1>17, <1>18, <1>19, <1>20, <1>21, <1>22, <1>23, <1>24
  DEF Next, TaskStep

LEMMA StepTasksOK == IInv /\ [Next]_vars => TasksOK'
<1> SUFFICES ASSUME TypeOK, TasksOK, [Next]_vars PROVE TasksOK'  BY DEF IInv
<1> USE ConstantsAssumption, NoneAssumption
<1> USE DEF hostVars, tokenVars, taskVars, history
<1> USE DEF Claiming, Running, Executing
<1>n. None \notin Names \cup Objects \cup Runs
      /\ None \notin {"queued", "running", "cancelling", "cancelled", "failed",
                     "interrupted"} \cup EndStatuses
  BY DEF Statuses, ActiveStatuses, EndStatuses
<1>1. ASSUME NEW n \in Names, NEW o \in Objects, Register(n, o) PROVE TasksOK'
  BY <1>1 DEF Register, TasksOK
<1>2. ASSUME NEW n \in Names, Unregister(n) PROVE TasksOK'
  BY <1>2 DEF Unregister, TasksOK
<1>3. ASSUME NEW n \in Names, NEW r \in Runs, StartNow(n, r) PROVE TasksOK'
  BY <1>3, <1>n DEF StartNow, Claim, TasksOK, TypeOK
<1>4. ASSUME NEW n \in Names, NEW r \in Runs, StartQueued(n, r) PROVE TasksOK'
  BY <1>4, <1>n DEF StartQueued, TasksOK, TypeOK
<1>5. ASSUME NEW n \in Names, NEW r \in Runs, RunNow(n, r) PROVE TasksOK'
  <2>1. sessions[n] \in Objects  BY <1>5 DEF RunNow, TypeOK
  <2> QED
    BY <1>5, <1>n, <2>1 DEF RunNow, EnterSession, Claim, TasksOK, TypeOK
<1>6. ASSUME NEW r \in Runs, CancelQueued(r) PROVE TasksOK'
  BY <1>6, <1>n DEF CancelQueued, TasksOK, TypeOK
<1>7. ASSUME NEW r \in Runs, CancelActive(r) PROVE TasksOK'
  BY <1>7, <1>n DEF CancelActive, CancelRefuses, TasksOK, TypeOK
<1>8. ASSUME NEW r \in Runs, Abandon(r) PROVE TasksOK'
  BY <1>8 DEF Abandon, DropLocals, TasksOK, TypeOK
<1>9. ASSUME NEW r \in Runs, PollCancelled(r) PROVE TasksOK'
  BY <1>9 DEF PollCancelled, TasksOK, TypeOK
<1>10. ASSUME NEW r \in Runs, PollAdmits(r) PROVE TasksOK'
  <2>1. sessionOf[r] \in Names  BY <1>10 DEF PollAdmits, MayPoll, TasksOK
  <2>2. sessions[sessionOf[r]] \in Objects  BY <1>10, <2>1 DEF PollAdmits, TypeOK
  <2> QED
    BY <1>10, <1>n, <2>1, <2>2 DEF PollAdmits, MayPoll, EnterSession, Claim, TasksOK, TypeOK
<1>11. ASSUME NEW r \in Runs, PollUnknownSession(r) PROVE TasksOK'
  BY <1>11 DEF PollUnknownSession, MayPoll, Claim, TasksOK, TypeOK
<1>12. ASSUME NEW r \in Runs, Begin(r) PROVE TasksOK'
  <2>1. sessionOf[r] \in Names  BY <1>12 DEF Begin, TasksOK
  <2>2. sessions[sessionOf[r]] \in Objects  BY <1>12, <2>1 DEF Begin, TypeOK
  <2> QED
    BY <1>12, <1>n, <2>1, <2>2 DEF Begin, EnterSession, TasksOK, TypeOK
<1>13. ASSUME NEW r \in Runs, BuildExecutor(r) PROVE TasksOK'
  <2>1. holder[r] \in Objects  BY <1>13 DEF BuildExecutor, TasksOK
  <2>2. TokenOf(r) \in Tokens  BY <2>1 DEF TokenOf, TypeOK
  <2> QED
    BY <1>13, <2>2 DEF BuildExecutor, TasksOK, TypeOK
<1>14. ASSUME NEW r \in Runs, PreflightBlocks(r) PROVE TasksOK'
  BY <1>14 DEF PreflightBlocks, Returns, TasksOK, TypeOK, EndStatuses
<1>15. ASSUME NEW r \in Runs, StartTurn(r) PROVE TasksOK'
  BY <1>15 DEF StartTurn, LoopOver, Returns, TasksOK, TypeOK, EndStatuses
<1>16. ASSUME NEW r \in Runs, ProviderReturns(r) PROVE TasksOK'
  BY <1>16 DEF ProviderReturns, Returns, TasksOK, TypeOK, EndStatuses
<1>17. ASSUME NEW r \in Runs, NextTurn(r) PROVE TasksOK'
  BY <1>17 DEF NextTurn, TasksOK, TypeOK
<1>18. ASSUME NEW r \in Runs, NEW s \in EndStatuses, EndLoop(r, s) PROVE TasksOK'
  BY <1>18 DEF EndLoop, Returns, TasksOK, TypeOK
<1>19. ASSUME NEW r \in Runs, DeadlinePasses(r) PROVE TasksOK'
  BY <1>19 DEF DeadlinePasses, Returns, TasksOK, TypeOK, EndStatuses
<1>20. ASSUME NEW r \in Runs, Finish(r) PROVE TasksOK'
  BY <1>20, <1>n DEF Finish, SaveEnding, DropLocals, TasksOK, TypeOK
<1>21. ASSUME NEW r \in Runs, Fail(r) PROVE TasksOK'
  BY <1>21, <1>n DEF Fail, TasksOK, TypeOK
<1>22. ASSUME NEW r \in Runs, Raise(r) PROVE TasksOK'
  BY <1>22 DEF Raise, ClaimsAfterRaise, DropLocals, TasksOK, TypeOK
<1>23. CASE Restart
  BY <1>23, <1>n DEF Restart, Restored, ActiveStatuses, TasksOK, TypeOK
<1>24. CASE UNCHANGED vars
  BY <1>24 DEF vars, TasksOK
<1> QED
  BY <1>1, <1>2, <1>3, <1>4, <1>5, <1>6, <1>7, <1>8, <1>9, <1>10, <1>11, <1>12, <1>13,
     <1>14, <1>15, <1>16, <1>17, <1>18, <1>19, <1>20, <1>21, <1>22, <1>23, <1>24
  DEF Next, TaskStep

(* Every variable keeps its type, and every task's position agrees with the *)
(* claims, records and locals, whatever the host calls and the tasks do.    *)
THEOREM InvariantHolds == Spec => []IInv
<1>1. IInv /\ [Next]_vars => IInv'
  BY StepTypeOK, StepTasksOK DEF IInv
<1> QED
  BY InitIInv, <1>1, PTL DEF Spec

(* Every variable keeps its type, for every policy and every number of runs *)
(* and sessions.                                                            *)
THEOREM ManagerTypeCorrect == Spec => []TypeOK
<1>1. IInv => TypeOK
  BY DEF IInv
<1> QED
  BY <1>1, InvariantHolds, PTL

(* What the tasks' positions say of the rest of the state always holds.     *)
THEOREM TasksAgree == Spec => []TasksOK
<1>1. IInv => TasksOK
  BY DEF IInv
<1> QED
  BY <1>1, InvariantHolds, PTL

-----------------------------------------------------------------------------
(* Capacity.                                                                *)

LEMMA ClaimsFinite ==
  ASSUME TypeOK
  PROVE  /\ IsFiniteSet(claims) /\ Cardinality(claims) \in Nat
         /\ \A n \in Names : IsFiniteSet(ClaimsOf(n)) /\ Cardinality(ClaimsOf(n)) \in Nat
<1>1. IsFiniteSet(claims)
  BY ConstantsAssumption, FS_Subset DEF TypeOK
<1>2. \A n \in Names : IsFiniteSet(ClaimsOf(n))
  BY <1>1, FS_Subset DEF ClaimsOf
<1> QED
  BY <1>1, <1>2, FS_CardinalityType

(* A step that claims nothing and moves no claimed run to another session   *)
(* keeps the bound.                                                         *)
LEMMA NoNewClaim ==
  ASSUME TypeOK, TypeOK', CapacityBound, claims' \subseteq claims,
         \A q \in claims : sessionOf'[q] = sessionOf[q]
  PROVE  CapacityBound'
<1>1. Cardinality(claims') <= Cardinality(claims)
  BY ClaimsFinite, FS_Subset
<1>2. ASSUME NEW n \in Names PROVE Cardinality(ClaimsOf(n)') <= MaxPerSession
  <2>1. ClaimsOf(n)' \subseteq ClaimsOf(n)  BY DEF ClaimsOf
  <2>2. IsFiniteSet(ClaimsOf(n)) /\ Cardinality(ClaimsOf(n)) \in Nat  BY ClaimsFinite
  <2>3. Cardinality(ClaimsOf(n)') <= Cardinality(ClaimsOf(n))
    BY <2>1, <2>2, FS_Subset
  <2>4. Cardinality(ClaimsOf(n)') \in Nat
    BY <2>1, <2>2, FS_Subset, FS_CardinalityType
  <2> QED
    BY <2>2, <2>3, <2>4, ConstantsAssumption DEF CapacityBound
<1>3. MaxActiveRuns # NoLimit => Cardinality(claims') <= MaxActiveRuns
  <2>1. Cardinality(claims) \in Nat  BY ClaimsFinite
  <2>2. Cardinality(claims') \in Nat
    BY ClaimsFinite, FS_Subset, FS_CardinalityType
  <2> QED
    BY <1>1, <2>1, <2>2, ConstantsAssumption DEF CapacityBound
<1> QED
  BY <1>2, <1>3 DEF CapacityBound

(* A step that claims for r, of session n, after checking Available(n).     *)
LEMMA CheckedClaim ==
  ASSUME TypeOK, TypeOK', CapacityBound, NEW r \in Runs, NEW n \in Names,
         Available(n), claims' = claims \cup {r}, r \notin claims,
         sessionOf'[r] = n, \A q \in claims : sessionOf'[q] = sessionOf[q]
  PROVE  CapacityBound'
<1>1. ASSUME NEW m \in Names PROVE Cardinality(ClaimsOf(m)') <= MaxPerSession
  <2>0. IsFiniteSet(ClaimsOf(m)) /\ Cardinality(ClaimsOf(m)) \in Nat  BY ClaimsFinite
  <2>1. CASE m = n
    <3>1. ClaimsOf(m)' = ClaimsOf(m) \cup {r} /\ r \notin ClaimsOf(m)
      BY <2>1 DEF ClaimsOf
    <3>2. Cardinality(ClaimsOf(m)') = Cardinality(ClaimsOf(m)) + 1
      BY <2>0, <3>1, FS_AddElement
    <3>3. Cardinality(ClaimsOf(m)) < MaxPerSession
      BY <2>1 DEF Available, SessionAvailable
    <3> QED
      BY <2>0, <3>2, <3>3, ConstantsAssumption
  <2>2. CASE m # n
    <3>1. ClaimsOf(m)' = ClaimsOf(m)  BY <2>2 DEF ClaimsOf
    <3> QED
      BY <3>1 DEF CapacityBound
  <2> QED  BY <2>1, <2>2
<1>2. MaxActiveRuns # NoLimit => Cardinality(claims') <= MaxActiveRuns
  <2>1. Cardinality(claims') = Cardinality(claims) + 1
    BY ClaimsFinite, FS_AddElement
  <2>2. Cardinality(claims) \in Nat  BY ClaimsFinite
  <2>3. MaxActiveRuns # NoLimit => Cardinality(claims) < MaxActiveRuns
    BY DEF Available, ManagerAvailable
  <2> QED
    BY <2>1, <2>2, <2>3, ConstantsAssumption
<1> QED
  BY <1>1, <1>2 DEF CapacityBound

LEMMA InitCapacity == Init => CapacityBound
<1> SUFFICES ASSUME Init PROVE CapacityBound  OBVIOUS
<1>1. claims = {} /\ \A n \in Names : ClaimsOf(n) = {}
  BY DEF Init, ClaimsOf
<1> QED
  BY <1>1, FS_EmptySet, ConstantsAssumption DEF CapacityBound

LEMMA StepCapacity == IInv /\ IInv' /\ CapacityBound /\ [Next]_vars => CapacityBound'
<1> SUFFICES ASSUME TypeOK, TasksOK, TypeOK', CapacityBound, [Next]_vars
             PROVE  CapacityBound'
  BY DEF IInv
<1> USE DEF hostVars, tokenVars, taskVars, history
<1>1. ASSUME NEW n \in Names, NEW r \in Runs, StartNow(n, r) \/ RunNow(n, r)
      PROVE  CapacityBound'
  <2>1. /\ Available(n) /\ claims' = claims \cup {r}
        /\ pc[r] = "new" /\ sessionOf' = [sessionOf EXCEPT ![r] = n]
    BY <1>1 DEF StartNow, RunNow, Claim
  <2>2. r \notin claims
    BY <2>1 DEF TasksOK, Claiming, Running, Executing
  <2>3. sessionOf'[r] = n /\ \A q \in claims : sessionOf'[q] = sessionOf[q]
    BY <2>1, <2>2 DEF TypeOK
  <2> QED
    BY <2>1, <2>2, <2>3, CheckedClaim
<1>2. ASSUME NEW r \in Runs, PollAdmits(r) \/ PollUnknownSession(r)
      PROVE  CapacityBound'
  <2>1. /\ Available(sessionOf[r]) /\ claims' = claims \cup {r}
        /\ pc[r] = "waiting" /\ sessionOf' = sessionOf
    BY <1>2 DEF PollAdmits, PollUnknownSession, MayPoll, Claim
  <2>2. r \notin claims /\ sessionOf[r] \in Names
    BY <2>1 DEF TasksOK, Claiming, Running, Executing
  <2> QED
    BY <2>1, <2>2, CheckedClaim
<1>3. ASSUME NEW n \in Names, NEW r \in Runs, StartQueued(n, r) PROVE CapacityBound'
  <2>1. claims' = claims /\ r \notin claims /\ sessionOf' = [sessionOf EXCEPT ![r] = n]
    BY <1>3 DEF StartQueued, TasksOK, Claiming, Running, Executing
  <2>2. \A q \in claims : sessionOf'[q] = sessionOf[q]  BY <2>1 DEF TypeOK
  <2> QED
    BY <2>1, <2>2, NoNewClaim
<1>4. ASSUME claims' \subseteq claims, sessionOf' = sessionOf PROVE CapacityBound'
  BY <1>4, NoNewClaim
<1>5. ASSUME NEW n \in Names, NEW o \in Objects, Register(n, o) PROVE CapacityBound'
  BY <1>4, <1>5 DEF Register
<1>6. ASSUME NEW n \in Names, Unregister(n) PROVE CapacityBound'
  BY <1>4, <1>6 DEF Unregister
<1>7. ASSUME NEW r \in Runs, CancelQueued(r) \/ CancelActive(r) \/ Abandon(r)
      PROVE  CapacityBound'
  <2>1. claims' \subseteq claims /\ sessionOf' = sessionOf
    BY <1>7 DEF CancelQueued, CancelActive, Abandon
  <2> QED  BY <1>4, <2>1
<1>8. ASSUME NEW r \in Runs,
             \/ PollCancelled(r) \/ Begin(r) \/ BuildExecutor(r) \/ PreflightBlocks(r)
             \/ StartTurn(r) \/ ProviderReturns(r) \/ NextTurn(r)
             \/ \E s \in EndStatuses : EndLoop(r, s)
             \/ DeadlinePasses(r) \/ Finish(r) \/ Fail(r) \/ Raise(r)
      PROVE  CapacityBound'
  <2>1. claims' \subseteq claims /\ sessionOf' = sessionOf
    BY <1>8 DEF PollCancelled, Begin, BuildExecutor, PreflightBlocks, StartTurn,
      ProviderReturns, NextTurn, EndLoop, DeadlinePasses, Finish, SaveEnding, Fail, Raise,
      ClaimsAfterRaise
  <2> QED  BY <1>4, <2>1
<1>9. CASE Restart
  BY <1>4, <1>9 DEF Restart
<1>10. CASE UNCHANGED vars
  BY <1>4, <1>10 DEF vars
<1> QED
  BY <1>1, <1>2, <1>3, <1>5, <1>6, <1>7, <1>8, <1>9, <1>10 DEF Next, TaskStep

(* Start, run and the polling tasks together never hold more slots than the *)
(* concurrency policy has, per session and in all.                          *)
THEOREM CapacityHolds == Spec => []CapacityBound
BY InvariantHolds, InitCapacity, StepCapacity, PTL DEF Spec

(* Every task between its claim and its release is counted.                 *)
THEOREM LiveRunsAreClaimed == Spec => []LiveIsClaimed
<1>1. IInv => LiveIsClaimed
  BY DEF IInv, TasksOK, LiveIsClaimed
<1> QED
  BY <1>1, InvariantHolds, PTL

-----------------------------------------------------------------------------
(* Refinement of Admission.  The claimed runs hold the slots; the waiting   *)
(* jobs are those whose task polls and that have not been cancelled.        *)

LEMMA InitAdmission == Init => Adm!AInit
<1> SUFFICES ASSUME Init PROVE Adm!AInit  OBVIOUS
<1> QED
  BY DEF Init, Adm!AInit

AWaiting == {r \in Runs : pc[r] = "waiting" /\ status[r] = "queued"}

LEMMA AdmCardinality ==
  ASSUME NEW S PROVE Adm!Cardinality(S) = Cardinality(S)
BY Zenon DEF Adm!Cardinality, Cardinality

LEMMA RoomIsAvailable ==
  ASSUME NEW n \in Names PROVE Adm!Room(n) <=> Available(n)
<1>1. {j \in claims : sessionOf[j] = n} = ClaimsOf(n)  BY DEF ClaimsOf
<1>2. Available(n) <=> /\ Cardinality(ClaimsOf(n)) < MaxPerSession
                       /\ MaxActiveRuns # NoLimit => Cardinality(claims) < MaxActiveRuns
  BY DEF Available, SessionAvailable, ManagerAvailable
<1> QED
  BY <1>1, <1>2, AdmCardinality DEF Adm!Room

LEMMA StepAdmission == IInv /\ IInv' /\ [Next]_vars => [Adm!ANext]_Adm!avars
<1> SUFFICES ASSUME TypeOK, TasksOK, TypeOK', TasksOK', [Next]_vars
             PROVE  [Adm!ANext]_Adm!avars
  BY DEF IInv
<1> USE DEF hostVars, tokenVars, taskVars, history
<1>s. ASSUME sessionOf' = sessionOf, claims' = claims, AWaiting' = AWaiting
      PROVE  UNCHANGED Adm!avars
  BY <1>s DEF Adm!avars, AWaiting
<1>1. ASSUME NEW n \in Names, NEW r \in Runs, StartNow(n, r) \/ RunNow(n, r)
      PROVE  Adm!Enter(r, n)
  <2>1. /\ Available(n) /\ claims' = claims \cup {r}
        /\ pc[r] = "new" /\ sessionOf' = [sessionOf EXCEPT ![r] = n]
    BY <1>1 DEF StartNow, RunNow, Claim
  <2>2. sessionOf[r] = None  BY <2>1 DEF TasksOK, TypeOK
  <2>3. AWaiting' = AWaiting
    BY <1>1, <2>1 DEF AWaiting, StartNow, RunNow, EnterSession, TypeOK
  <2> QED
    BY <2>1, <2>2, <2>3, RoomIsAvailable DEF Adm!Enter, AWaiting
<1>2. ASSUME NEW n \in Names, NEW r \in Runs, StartQueued(n, r) PROVE Adm!Queue(r, n)
  <2>1. sessionOf[r] = None  BY <1>2 DEF StartQueued, TasksOK, TypeOK
  <2>2. AWaiting' = AWaiting \cup {r}
    BY <1>2 DEF AWaiting, StartQueued, TypeOK
  <2> QED
    BY <1>2, <2>1, <2>2, RoomIsAvailable DEF StartQueued, Adm!Queue, AWaiting
<1>3. ASSUME NEW r \in Runs, PollAdmits(r) \/ PollUnknownSession(r) PROVE Adm!Admit(r)
  <2>1. /\ Available(sessionOf[r]) /\ claims' = claims \cup {r}
        /\ pc[r] = "waiting" /\ status[r] # "cancelled" /\ sessionOf' = sessionOf
    BY <1>3 DEF PollAdmits, PollUnknownSession, MayPoll, Claim
  <2>2. sessionOf[r] \in Names /\ r \in AWaiting
    BY <2>1 DEF TasksOK, AWaiting
  <2>3. AWaiting' = AWaiting \ {r}
    BY <1>3, <2>1 DEF AWaiting, PollAdmits, PollUnknownSession, EnterSession, TypeOK
  <2> QED
    BY <2>1, <2>2, <2>3, RoomIsAvailable DEF Adm!Admit, AWaiting
<1>4. ASSUME NEW r \in Runs, CancelQueued(r) PROVE Adm!Withdraw(r) \/ UNCHANGED Adm!avars
  <2>1. AWaiting' = AWaiting \ {r}
    BY <1>4 DEF AWaiting, CancelQueued, TypeOK
  <2>2. CASE r \in AWaiting
    BY <1>4, <2>1, <2>2 DEF CancelQueued, Adm!Withdraw, AWaiting
  <2>3. CASE r \notin AWaiting
    BY <1>4, <2>1, <2>3, <1>s DEF CancelQueued
  <2> QED  BY <2>2, <2>3
<1>5. ASSUME NEW r \in Runs, CancelActive(r) PROVE UNCHANGED Adm!avars
  <2>1. AWaiting' = AWaiting
    BY <1>5 DEF AWaiting, CancelActive, TypeOK, TasksOK, Claiming, Running, Executing
  <2> QED  BY <1>5, <2>1, <1>s DEF CancelActive
<1>6. ASSUME NEW r \in Runs, Abandon(r)
      PROVE  Adm!Withdraw(r) \/ Adm!Leave(r) \/ UNCHANGED Adm!avars
  <2>1. AWaiting' = AWaiting \ {r} /\ sessionOf' = sessionOf
    BY <1>6 DEF AWaiting, Abandon, DropLocals, TypeOK
  <2>2. CASE r \in AWaiting
    BY <1>6, <2>1, <2>2 DEF Abandon, Adm!Withdraw, AWaiting
  <2>3. CASE r \notin AWaiting /\ pc[r] \in {"waiting", "pending"}
    BY <1>6, <2>1, <2>3, <1>s DEF Abandon
  <2>4. CASE r \notin AWaiting /\ pc[r] \notin {"waiting", "pending"}
    <3>1. r \in claims  BY <1>6, <2>4 DEF Abandon, TasksOK
    <3> QED
      BY <1>6, <2>1, <2>4, <3>1 DEF Abandon, Adm!Leave, AWaiting
  <2> QED  BY <2>2, <2>3, <2>4
<1>7. ASSUME NEW r \in Runs, Finish(r) \/ Raise(r) PROVE Adm!Leave(r)
  <2>1. /\ r \in claims /\ claims' = claims \ {r} /\ sessionOf' = sessionOf
        /\ pc[r] # "waiting"
    BY <1>7 DEF Finish, SaveEnding, Raise, ClaimsAfterRaise, TasksOK, Claiming, Running
  <2>2. AWaiting' = AWaiting
    BY <1>7, <2>1 DEF AWaiting, Finish, SaveEnding, Raise, TypeOK
  <2> QED
    BY <2>1, <2>2 DEF Adm!Leave, AWaiting
<1>8. ASSUME NEW r \in Runs,
             \/ PollCancelled(r) \/ Begin(r) \/ BuildExecutor(r) \/ PreflightBlocks(r)
             \/ StartTurn(r) \/ ProviderReturns(r) \/ NextTurn(r)
             \/ \E s \in EndStatuses : EndLoop(r, s)
             \/ DeadlinePasses(r) \/ Fail(r)
      PROVE  UNCHANGED Adm!avars
  <2>1. claims' = claims /\ sessionOf' = sessionOf
    BY <1>8 DEF PollCancelled, Begin, BuildExecutor, PreflightBlocks, StartTurn,
      ProviderReturns, NextTurn, EndLoop, DeadlinePasses, Fail
  <2>2. AWaiting' = AWaiting
    <3>1. CASE Begin(r) \/ Fail(r)
      BY <3>1 DEF AWaiting, Begin, EnterSession, Fail, Running, Executing, TypeOK
    <3>2. CASE PollCancelled(r)
      BY <3>2 DEF AWaiting, PollCancelled, TypeOK
    <3>3. CASE ~(Begin(r) \/ Fail(r) \/ PollCancelled(r))
      BY <1>8, <3>3 DEF AWaiting, BuildExecutor, PreflightBlocks, StartTurn,
        ProviderReturns, NextTurn, EndLoop, DeadlinePasses, Returns, Executing, TypeOK
    <3> QED  BY <3>1, <3>2, <3>3
  <2> QED  BY <2>1, <2>2, <1>s
<1>9. ASSUME Restart PROVE Adm!Reset
  <2>1. AWaiting' = {}  BY <1>9 DEF Restart, AWaiting
  <2> QED
    BY <1>9, <2>1 DEF Restart, Adm!Reset, AWaiting
<1>10. CASE UNCHANGED vars
  BY <1>10, <1>s DEF vars, AWaiting
<1>11. ASSUME NEW n \in Names, NEW o \in Objects, Register(n, o) PROVE UNCHANGED Adm!avars
  BY <1>11, <1>s DEF Register, AWaiting
<1>12. ASSUME NEW n \in Names, Unregister(n) PROVE UNCHANGED Adm!avars
  BY <1>12, <1>s DEF Unregister, AWaiting
<1> QED
  BY <1>1, <1>2, <1>3, <1>4, <1>5, <1>6, <1>7, <1>8, <1>9, <1>10, <1>11, <1>12
  DEF Next, TaskStep, Adm!ANext

(* The manager's queue, poll loop, claims, cancellations, failures and      *)
(* restarts implement the admission control of module Admission.            *)
THEOREM ManagerImplementsAdmission == Spec => ImplementsAdmission
BY InvariantHolds, InitAdmission, StepAdmission, PTL
DEF Spec, ImplementsAdmission, Adm!ASpec

-----------------------------------------------------------------------------
(* Endings.  A record that is not over yet is where its task can still      *)
(* write it; a task that failed has said so.                                *)

StatusOK ==
  \A r \in Runs :
     /\ pc[r] = "pending" => status[r] \in {"queued", "cancelling"}
     /\ pc[r] \in Running => status[r] \in {"running", "cancelling"}
     /\ pc[r] = "recording" => status[r] = "failed"

EndInv == StatusOK /\ OutcomeAgrees

(* The steps that write no record and give no outcome.                      *)
Silent(r) ==
  \/ PollCancelled(r) \/ PollUnknownSession(r) \/ BuildExecutor(r) \/ PreflightBlocks(r)
  \/ StartTurn(r) \/ ProviderReturns(r) \/ NextTurn(r) \/ DeadlinePasses(r) \/ Raise(r)
  \/ Abandon(r) \/ \E s \in EndStatuses : EndLoop(r, s)

LEMMA SilentSteps ==
  ASSUME TypeOK, NEW r \in Runs, Silent(r)
  PROVE  /\ status' = status /\ outcome' = outcome
         /\ \A q \in Runs \ {r} : pc'[q] = pc[q]
         /\ pc[r] # "gone"
         /\ pc'[r] \in {"done", "dead"} \/ (pc[r] \in Running /\ pc'[r] \in Running)
  BY DEF Silent, PollCancelled, PollUnknownSession, MayPoll, BuildExecutor, PreflightBlocks,
         StartTurn, ProviderReturns, NextTurn, DeadlinePasses, Raise, Abandon, EndLoop, Returns,
         TypeOK, Running, Executing, Claiming

(* Entering the session writes "running" over a record that is not over.    *)
LEMMA EnteringSteps ==
  ASSUME IInv, StatusOK, NEW r \in Runs,
         \/ \E n \in Names : RunNow(n, r)
         \/ PollAdmits(r) \/ Begin(r)
  PROVE  /\ status' = [status EXCEPT ![r] = "running"] /\ outcome' = outcome
         /\ pc' = [pc EXCEPT ![r] = "preparing"]
         /\ status[r] \in {None, "queued", "cancelling"}
<1>1. CASE \E n \in Names : RunNow(n, r)
  BY <1>1 DEF RunNow, EnterSession, IInv, TasksOK
<1>2. CASE PollAdmits(r)
  BY <1>2 DEF PollAdmits, MayPoll, EnterSession, IInv, TasksOK
<1>3. CASE Begin(r)
  BY <1>3 DEF Begin, EnterSession, StatusOK
<1> QED  BY <1>1, <1>2, <1>3

LEMMA EndStep ==
  ASSUME IInv, EndInv, [Next]_vars
  PROVE  /\ EndInv'
         /\ \A r \in Runs : status[r] \in Settled => status'[r] = status[r]
<1> DEFINE Goal == /\ EndInv'
                   /\ \A r \in Runs : status[r] \in Settled => status'[r] = status[r]
<1> USE NoneAssumption DEF Settled
<1>n. None \notin {"queued", "running", "cancelling", "completed", "cancelled", "timeout", "failed"}
  BY DEF Statuses, ActiveStatuses, EndStatuses
<1>0. ASSUME status' = status, outcome' = outcome, pc' = pc PROVE Goal
  BY <1>0 DEF EndInv, StatusOK, OutcomeAgrees
<1>1. ASSUME NEW n \in Names, NEW o \in Objects, Register(n, o) PROVE Goal
  BY <1>0, <1>1 DEF Register, taskVars
<1>2. ASSUME NEW n \in Names, Unregister(n) PROVE Goal
  BY <1>0, <1>2 DEF Unregister, taskVars
<1>3. ASSUME NEW n \in Names, NEW r \in Runs, StartNow(n, r) \/ StartQueued(n, r) PROVE Goal
  <2>1. /\ status' = [status EXCEPT ![r] = "queued"] /\ outcome' = outcome
        /\ \E place \in {"pending", "waiting"} : pc' = [pc EXCEPT ![r] = place]
        /\ status[r] = None
    BY <1>3 DEF StartNow, StartQueued, IInv, TasksOK
  <2> QED
    BY <2>1, <1>n DEF IInv, TypeOK, EndInv, StatusOK, OutcomeAgrees, Running, Executing
<1>4. ASSUME NEW r \in Runs, (\E n \in Names : RunNow(n, r)) \/ PollAdmits(r) \/ Begin(r)
      PROVE  Goal
  <2>1. /\ status' = [status EXCEPT ![r] = "running"] /\ outcome' = outcome
        /\ pc' = [pc EXCEPT ![r] = "preparing"]
        /\ status[r] \in {None, "queued", "cancelling"}
    BY <1>4, EnteringSteps DEF EndInv
  <2> QED
    BY <2>1, <1>n DEF IInv, TypeOK, EndInv, StatusOK, OutcomeAgrees, Running, Executing
<1>5. ASSUME NEW r \in Runs, CancelQueued(r) PROVE Goal
  <2>1. pc[r] \notin Claiming  BY <1>5 DEF CancelQueued, IInv, TasksOK
  <2> QED
    BY <1>5, <2>1, <1>n DEF CancelQueued, taskVars, IInv, TypeOK, EndInv, StatusOK,
      OutcomeAgrees, Claiming
<1>6. ASSUME NEW r \in Runs, CancelActive(r) PROVE Goal
  BY <1>6, <1>n DEF CancelActive, CancelRefuses, taskVars, IInv, TypeOK, EndInv, StatusOK,
    OutcomeAgrees
<1>7. ASSUME NEW r \in Runs, Silent(r) PROVE Goal
  <2>1. /\ status' = status /\ outcome' = outcome
        /\ \A q \in Runs \ {r} : pc'[q] = pc[q]
        /\ pc[r] # "gone"
        /\ pc'[r] \in {"done", "dead"} \/ (pc[r] \in Running /\ pc'[r] \in Running)
    BY <1>7, SilentSteps DEF IInv
  <2> QED
    BY <2>1 DEF EndInv, StatusOK, OutcomeAgrees, Running, Executing
<1>8. ASSUME NEW r \in Runs, Finish(r) PROVE Goal
  <2>1. /\ pc[r] = "finishing" /\ pc' = [pc EXCEPT ![r] = "done"]
        /\ status' = [status EXCEPT ![r] = result[r]]
        /\ outcome' = [outcome EXCEPT ![r] = result[r]]
    BY <1>8 DEF Finish, SaveEnding
  <2>2. status[r] \in {"running", "cancelling"}  BY <2>1 DEF EndInv, StatusOK, Running
  <2> QED
    BY <2>1, <2>2 DEF IInv, TypeOK, EndInv, StatusOK, OutcomeAgrees, Running, Executing
<1>9. ASSUME NEW r \in Runs, Fail(r) PROVE Goal
  <2>1. /\ pc[r] \in Running /\ pc' = [pc EXCEPT ![r] = "recording"]
        /\ status' = [status EXCEPT ![r] = "failed"] /\ outcome' = outcome
    BY <1>9 DEF Fail
  <2>2. status[r] \in {"running", "cancelling"}  BY <2>1 DEF EndInv, StatusOK
  <2> QED
    BY <2>1, <2>2 DEF IInv, TypeOK, EndInv, StatusOK, OutcomeAgrees, Running, Executing
<1>10. CASE Restart
  <2>1. \A r \in Runs : pc'[r] = "new" \/ pc'[r] = "gone"  BY <1>10 DEF Restart
  <2>2. \A r \in Runs : outcome'[r] = None /\ status'[r] = Restored(status[r])
    BY <1>10 DEF Restart
  <2>3. \A r \in Runs : pc'[r] = "new" => status[r] = None
    BY <1>10 DEF Restart, IInv, TasksOK
  <2> QED
    BY <2>1, <2>2, <2>3, <1>n DEF EndInv, StatusOK, OutcomeAgrees, Restored, ActiveStatuses,
      Running, Executing
<1>11. CASE UNCHANGED vars
  BY <1>0, <1>11 DEF vars
<1> QED
  BY <1>1, <1>2, <1>3, <1>4, <1>5, <1>6, <1>7, <1>8, <1>9, <1>10, <1>11
  DEF Next, TaskStep, Silent

LEMMA InitEndInv == Init => EndInv
<1> SUFFICES ASSUME Init PROVE EndInv  OBVIOUS
<1>n. None \notin {"completed", "cancelled", "timeout", "failed"}
  BY NoneAssumption DEF Statuses, EndStatuses
<1> QED
  BY <1>n DEF Init, EndInv, StatusOK, OutcomeAgrees, Settled, Running, Executing

LEMMA EndsInvariant == Spec => [](IInv /\ EndInv)
<1>1. IInv /\ EndInv /\ [Next]_vars => EndInv'  BY EndStep
<1> QED  BY <1>1, InitEndInv, InvariantHolds, PTL DEF Spec

(* Whatever cancels, deadlines, failures and restarts race: what a waiter   *)
(* is given is what the store says, and a store that says completed or      *)
(* timeout has that to give (_run_once, wait, restore_runs).                *)
THEOREM OutcomesAgree == Spec => []OutcomeAgrees
<1>1. EndInv => OutcomeAgrees  BY DEF EndInv
<1> QED  BY <1>1, EndsInvariant, PTL

(* An ending that cancel() respects is never written over, and a run        *)
(* cancelled while it waited never claims capacity (start, cancel).         *)
THEOREM EndsStand == Spec => EndsAreFinal
<1>1. IInv /\ EndInv /\ [Next]_vars =>
        [\A r \in Runs : status[r] \in Settled => status'[r] = status[r]]_vars
  BY EndStep
<1>2. IInv /\ EndInv /\ [Next]_vars =>
        [\A r \in Runs : status[r] = "cancelled" /\ r \notin claims => r \notin claims']_vars
  <2> SUFFICES ASSUME IInv, Next, NEW r \in Runs, status[r] = "cancelled", r \notin claims
               PROVE  r \notin claims'
    OBVIOUS
  <2>1. pc[r] # "new" /\ pc[r] # "pending"
    BY NoneAssumption DEF IInv, TasksOK, Statuses, EndStatuses, Claiming
  <2> QED
    BY <2>1 DEF Next, TaskStep, Register, Unregister, StartNow, StartQueued, RunNow, Claim,
      CancelQueued, CancelActive, Abandon, PollCancelled, PollAdmits, PollUnknownSession,
      MayPoll, Begin, BuildExecutor, PreflightBlocks, StartTurn, ProviderReturns, NextTurn,
      EndLoop, DeadlinePasses, Finish, SaveEnding, Fail, Raise, ClaimsAfterRaise, Restart
<1> QED
  BY <1>1, <1>2, EndsInvariant, PTL DEF Spec, EndsAreFinal, SettledIsFinal, WithdrawnStaysOut

-----------------------------------------------------------------------------
(* Live records and live claims, for hosts that do not cancel the task that *)
(* waits for a run, nor drop a session while runs of it wait.               *)

LEMMA RunningStep ==
  ASSUME "abandon" \notin HostCalls, IInv, EndInv, RunningIsLive, [Next]_vars
  PROVE  RunningIsLive'
<1> USE NoneAssumption DEF taskVars
<1>0. ASSUME status' = status, pc' = pc PROVE RunningIsLive'
  BY <1>0 DEF RunningIsLive
<1>1. ASSUME NEW n \in Names, NEW o \in Objects, Register(n, o) PROVE RunningIsLive'
  BY <1>0, <1>1 DEF Register
<1>2. ASSUME NEW n \in Names, Unregister(n) PROVE RunningIsLive'
  BY <1>0, <1>2 DEF Unregister
<1>3. ASSUME NEW n \in Names, NEW r \in Runs, StartNow(n, r) \/ StartQueued(n, r)
      PROVE  RunningIsLive'
  BY <1>3 DEF StartNow, StartQueued, IInv, TypeOK, RunningIsLive
<1>4. ASSUME NEW r \in Runs, (\E n \in Names : RunNow(n, r)) \/ PollAdmits(r) \/ Begin(r)
      PROVE  RunningIsLive'
  BY <1>4, EnteringSteps DEF EndInv, IInv, TypeOK, RunningIsLive, Running
<1>5. ASSUME NEW r \in Runs, CancelQueued(r) \/ CancelActive(r) PROVE RunningIsLive'
  BY <1>5 DEF CancelQueued, CancelActive, IInv, TypeOK, RunningIsLive
<1>6. ASSUME NEW r \in Runs, Silent(r) PROVE RunningIsLive'
  <2>1. /\ status' = status /\ \A q \in Runs \ {r} : pc'[q] = pc[q]
        /\ pc'[r] \in {"done", "dead"} \/ (pc[r] \in Running /\ pc'[r] \in Running)
    BY <1>6, SilentSteps DEF IInv
  <2>2. CASE pc[r] \in Running /\ pc'[r] \in Running  BY <2>1, <2>2 DEF RunningIsLive
  <2>3. CASE ~(pc[r] \in Running /\ pc'[r] \in Running)
    <3>1. pc[r] \notin Running
      BY <1>6, <2>1, <2>3 DEF Silent, Abandon, PollCancelled, PollUnknownSession, MayPoll,
        BuildExecutor, PreflightBlocks, StartTurn, ProviderReturns, NextTurn, DeadlinePasses,
        Raise, EndLoop, Returns, IInv, TypeOK, Running, Executing
    <3> QED  BY <2>1, <3>1 DEF RunningIsLive
  <2> QED  BY <2>2, <2>3
<1>7. ASSUME NEW r \in Runs, Finish(r) PROVE RunningIsLive'
  <2>1. result[r] \in EndStatuses /\ "running" \notin EndStatuses
    BY <1>7, ConstantsAssumption DEF Finish, IInv, TasksOK, EndStatuses
  <2> QED  BY <1>7, <2>1 DEF Finish, SaveEnding, IInv, TypeOK, RunningIsLive
<1>8. ASSUME NEW r \in Runs, Fail(r) PROVE RunningIsLive'
  BY <1>8 DEF Fail, IInv, TypeOK, RunningIsLive
<1>9. CASE Restart
  BY <1>9 DEF Restart, Restored, ActiveStatuses, RunningIsLive
<1>10. CASE UNCHANGED vars
  BY <1>0, <1>10 DEF vars
<1> QED
  BY <1>1, <1>2, <1>3, <1>4, <1>5, <1>6, <1>7, <1>8, <1>9, <1>10 DEF Next, TaskStep, Silent

(* Neither a failure nor a crash and restart leaves a record that says      *)
(* running behind (Fail of _run_once, restore_runs).                        *)
THEOREM RunningRunsAreLive ==
  ASSUME "abandon" \notin HostCalls PROVE Spec => []RunningIsLive
<1>1. Init => RunningIsLive
  BY NoneAssumption DEF Init, RunningIsLive, Statuses, ActiveStatuses
<1>2. IInv /\ EndInv /\ RunningIsLive /\ [Next]_vars => RunningIsLive'  BY RunningStep
<1> QED  BY <1>1, <1>2, EndsInvariant, PTL DEF Spec

(* No task has died, and one that is going to look its session up finds it. *)
SessionsStay ==
  \A r \in Runs :
     /\ pc[r] # "dead"
     /\ pc[r] \in {"waiting"} \cup Claiming => sessions[sessionOf[r]] # None

LEMMA SessionsStep ==
  ASSUME "abandon" \notin HostCalls, "unregister" \notin HostCalls,
         IInv, SessionsStay, [Next]_vars
  PROVE  SessionsStay'
<1> USE NoneAssumption DEF hostVars
<1>0. ASSUME sessions' = sessions, sessionOf' = sessionOf,
             \A r \in Runs : /\ pc'[r] # "dead"
                             /\ pc'[r] \in {"waiting"} \cup Claiming => pc[r] \in {"waiting"} \cup Claiming
      PROVE  SessionsStay'
  BY <1>0 DEF SessionsStay
<1>1. ASSUME NEW n \in Names, NEW o \in Objects, Register(n, o) PROVE SessionsStay'
  <2>1. \A r \in Runs : pc[r] \in {"waiting"} \cup Claiming => sessionOf[r] \in Names
    BY DEF IInv, TasksOK, Claiming, Running, Executing
  <2> QED
    BY <1>1, <2>1 DEF Register, taskVars, IInv, TypeOK, SessionsStay
<1>2. ASSUME NEW n \in Names, NEW r \in Runs, StartNow(n, r) \/ StartQueued(n, r) \/ RunNow(n, r)
      PROVE  SessionsStay'
  <2>1. /\ sessions' = sessions /\ sessions[n] # None
        /\ sessionOf' = [sessionOf EXCEPT ![r] = n]
        /\ \E place \in {"pending", "waiting", "preparing"} : pc' = [pc EXCEPT ![r] = place]
    BY <1>2 DEF StartNow, StartQueued, RunNow, EnterSession
  <2> QED  BY <2>1 DEF IInv, TypeOK, SessionsStay
<1>3. ASSUME NEW r \in Runs, TaskStep(r) PROVE SessionsStay'
  <2>1. sessions' = sessions /\ sessionOf' = sessionOf
    BY <1>3 DEF TaskStep, PollCancelled, PollAdmits, PollUnknownSession, Begin, BuildExecutor,
      PreflightBlocks, StartTurn, ProviderReturns, NextTurn, EndLoop, DeadlinePasses, Finish,
      Fail, Raise
  <2>2. ~PollUnknownSession(r)
    BY DEF PollUnknownSession, MayPoll, SessionsStay
  <2>3. \A q \in Runs \ {r} : pc'[q] = pc[q]
    BY <1>3 DEF TaskStep, PollCancelled, PollAdmits, PollUnknownSession, Begin, BuildExecutor,
      PreflightBlocks, StartTurn, ProviderReturns, NextTurn, EndLoop, DeadlinePasses, Finish,
      Fail, Raise, EnterSession, Returns, IInv, TypeOK
  <2>4. pc'[r] # "dead" /\ pc[r] \in {"waiting"} \cup Claiming
    BY <1>3, <2>2 DEF TaskStep, PollCancelled, PollAdmits, MayPoll, Begin, BuildExecutor,
      PreflightBlocks, StartTurn, ProviderReturns, NextTurn, EndLoop, DeadlinePasses, Finish,
      Fail, Raise, EnterSession, Returns, IInv, TypeOK, Claiming, Running, Executing
  <2> QED  BY <1>0, <2>1, <2>3, <2>4 DEF SessionsStay
<1>4. ASSUME NEW r \in Runs, CancelQueued(r) \/ CancelActive(r) PROVE SessionsStay'
  BY <1>4 DEF CancelQueued, CancelActive, taskVars, SessionsStay
<1>5. CASE Restart
  BY <1>5 DEF Restart, SessionsStay, Claiming, Running, Executing
<1>6. CASE UNCHANGED vars
  BY <1>6 DEF vars, SessionsStay
<1> QED
  BY <1>1, <1>2, <1>3, <1>4, <1>5, <1>6 DEF Next, Unregister, Abandon

(* Capacity does not leak: whatever fails, is cancelled, replaced or        *)
(* restarted, a claim belongs to a task that is still going to release it.  *)
THEOREM ClaimsAreLive ==
  ASSUME "abandon" \notin HostCalls, "unregister" \notin HostCalls
  PROVE  Spec => []ClaimIsLive
<1>1. Init => SessionsStay  BY DEF Init, SessionsStay, Claiming, Running, Executing
<1>2. IInv /\ SessionsStay /\ [Next]_vars => SessionsStay'  BY SessionsStep
<1>3. IInv /\ SessionsStay => ClaimIsLive
  BY DEF IInv, TypeOK, TasksOK, SessionsStay, ClaimIsLive
<1> QED  BY <1>1, <1>2, <1>3, InvariantHolds, PTL DEF Spec

-----------------------------------------------------------------------------
(* Tokens.  A task inside a session holds its object, and with it the token *)
(* it looks at: one that it was given, or the one the object has by then.   *)

Inside == Running \cup {"recording"}
Outside == {"new", "waiting", "pending"}

Held(r) == IF seen[r] # None THEN seen[r] ELSE token[holder[r]]

(* An object belongs to one session at a time, for the host and for tasks.  *)
HoldersOK ==
  /\ \A m, n \in Names : sessions[m] = sessions[n] /\ sessions[m] # None => m = n
  /\ \A r \in Runs :
       /\ pc[r] \in Inside => holder[r] \in Objects
       /\ \A q \in Runs : holder[r] = holder[q] /\ holder[r] # None => sessionOf[r] = sessionOf[q]
       /\ \A n \in Names : sessions[n] = holder[r] /\ holder[r] # None => n = sessionOf[r]

(* Objects never share a token, and tasks only within an object.  The token *)
(* a task would make does not exist before the task enters its session.     *)
TokensOK ==
  /\ \A o, p \in Objects : token[o] = token[p] => o = p
  /\ \A r \in Runs :
       /\ \A o \in Objects : seen[r] # None /\ seen[r] = token[o] => o = holder[r]
       /\ \A q \in Runs : seen[r] # None /\ seen[r] = seen[q] => holder[r] = holder[q]
       /\ pc[r] \in Outside => /\ ~tripped[r] /\ \A o \in Objects : token[o] # r
                              /\ \A q \in Runs : seen[q] # r

(* Who looks at a tripped token was meant.                                  *)
StrikesOK ==
  \A r \in Runs :
     /\ pc[r] \in {"preparing"} \cup Executing /\ tripped[Held(r)] => struck[r] \/ asked[r]
     /\ result[r] = "cancelled" => struck[r] \/ asked[r]
     /\ status[r] = "cancelled" => struck[r] \/ asked[r]
     /\ status[r] = "cancelling" => asked[r]

TokenInv == HoldersOK /\ TokensOK /\ StrikesOK

LEMMA HeldToken ==
  ASSUME TypeOK, NEW r \in Runs, holder[r] \in Objects
  PROVE  TokenOf(r) = Held(r) /\ Held(r) \in Tokens
<1>1. holder[r] # None  BY NoneAssumption
<1> QED  BY <1>1 DEF TokenOf, Held, TypeOK

LEMMA OutsideHoldsNothing ==
  ASSUME TasksOK, NEW r \in Runs, pc[r] \notin Inside
  PROVE  holder[r] = None /\ seen[r] = None /\ result[r] = None
  BY DEF TasksOK, Inside

(* A step that moves no task in or out of a session and trips nothing.      *)
LEMMA NothingHeldChanges ==
  ASSUME TokenInv, sessions' = sessions, UNCHANGED <<tokenVars, holder, seen, result>>,
         UNCHANGED history,
         \A r \in Runs :
           /\ pc'[r] \in Inside => pc[r] \in Inside
           /\ pc'[r] \in {"preparing"} \cup Executing => pc[r] \in {"preparing"} \cup Executing
           /\ pc'[r] \in Outside => pc[r] \in Outside
           /\ sessionOf'[r] = sessionOf[r] \/ holder[r] = None
           /\ status'[r] \in {"cancelled", "cancelling"} =>
                status'[r] = status[r] \/ (status'[r] = result[r] /\ status'[r] = "cancelled")
  PROVE  TokenInv'
<1> USE DEF tokenVars, history
<1>1. HoldersOK'  BY DEF TokenInv, HoldersOK
<1>2. TokensOK'  BY DEF TokenInv, TokensOK
<1>3. StrikesOK'  BY DEF TokenInv, StrikesOK, Held
<1> QED  BY <1>1, <1>2, <1>3 DEF TokenInv

LEMMA EnterKeepsTokens ==
  ASSUME IInv, TokenInv, NEW r \in Runs, NEW n \in Names, sessions[n] # None,
         pc[r] \in Outside, EnterSession(r, n), sessions' = sessions, result' = result,
         UNCHANGED history, sessionOf' = [sessionOf EXCEPT ![r] = n]
  PROVE  TokenInv'
<1> DEFINE o == sessions[n]
           held == IF Resets(r, o) THEN r ELSE token[o]
<1> USE NoneAssumption, TokensAssumption DEF history
<1>1. /\ o \in Objects /\ o # None /\ held \in Tokens /\ held # None
      /\ held = r \/ (held = token[o] /\ (tripped[token[o]] => status[r] = "cancelling"))
  BY DEF IInv, TypeOK, Resets, Tokens
<1>2. /\ token' = [token EXCEPT ![o] = held] /\ holder' = [holder EXCEPT ![r] = o]
      /\ seen' = [seen EXCEPT ![r] = IF EventSink THEN held ELSE None]
      /\ status' = [status EXCEPT ![r] = "running"]
      /\ pc' = [pc EXCEPT ![r] = "preparing"]
      /\ tripped' = tripped
  BY DEF EnterSession
<1> HIDE DEF o, held
<1>3. /\ token' \in [Objects -> Tokens] /\ token'[o] = held
      /\ \A p \in Objects \ {o} : token'[p] = token[p]
      /\ holder'[r] = o /\ seen'[r] \in {None, held}
      /\ pc'[r] = "preparing" /\ status'[r] = "running" /\ sessionOf'[r] = n
      /\ \A q \in Runs \ {r} : /\ holder'[q] = holder[q] /\ seen'[q] = seen[q]
                              /\ pc'[q] = pc[q] /\ status'[q] = status[q]
                              /\ sessionOf'[q] = sessionOf[q]
  BY <1>1, <1>2 DEF IInv, TypeOK
<1>4. /\ ~tripped[r] /\ \A p \in Objects : token[p] # r
      /\ \A q \in Runs : seen[q] # r
      /\ holder[r] = None /\ seen[r] = None
  <2>1. pc[r] \notin Inside  BY DEF Outside, Inside, Running, Executing
  <2> QED  BY <2>1, OutsideHoldsNothing DEF TokenInv, TokensOK, IInv
<1>5. HoldersOK'
  <2>1. \A q \in Runs : holder[q] = o => sessionOf[q] = n
    BY <1>1 DEF TokenInv, HoldersOK, o
  <2>2. \A m \in Names : sessions[m] = o => m = n
    BY <1>1 DEF TokenInv, HoldersOK, o
  <2> QED  BY <1>1, <1>3, <2>1, <2>2 DEF TokenInv, HoldersOK, Inside, Running
<1>6. TokensOK'
  <2>1. \A p, q \in Objects : token'[p] = token'[q] => p = q
    BY <1>1, <1>3, <1>4 DEF TokenInv, TokensOK
  <2>2. \A q \in Runs, p \in Objects : seen'[q] # None /\ seen'[q] = token'[p] => p = holder'[q]
    BY <1>1, <1>3, <1>4 DEF TokenInv, TokensOK
  <2>3. \A q \in Runs \ {r} : seen[q] # None /\ seen[q] = held => holder[q] = o
    BY <1>1, <1>4 DEF TokenInv, TokensOK
  <2>4. \A p, q \in Runs : seen'[p] # None /\ seen'[p] = seen'[q] => holder'[p] = holder'[q]
    BY <1>1, <1>3, <2>3 DEF TokenInv, TokensOK
  <2>5. \A q \in Runs : pc'[q] \in Outside =>
          /\ ~tripped'[q] /\ \A p \in Objects : token'[p] # q
          /\ \A p \in Runs : seen'[p] # q
    <3> SUFFICES ASSUME NEW q \in Runs, pc'[q] \in Outside
                 PROVE  /\ ~tripped[q] /\ \A p \in Objects : token'[p] # q
                        /\ \A p \in Runs : seen'[p] # q
      BY <1>2
    <3>1. q # r /\ pc[q] \in Outside  BY <1>3 DEF Outside
    <3>2. /\ ~tripped[q] /\ \A p \in Objects : token[p] # q
          /\ \A p \in Runs : seen[p] # q
      BY <3>1 DEF TokenInv, TokensOK
    <3>3. held # q  BY <1>1, <3>1, <3>2
    <3> QED  BY <1>1, <1>3, <3>2, <3>3
  <2> QED  BY <2>1, <2>2, <2>4, <2>5 DEF TokensOK
<1>7. StrikesOK'
  <2>1. Held(r)' = held  BY <1>1, <1>3 DEF Held
  <2>2. tripped[held] => asked[r]
    BY <1>1, <1>4 DEF TokenInv, StrikesOK
  <2>3. ASSUME NEW q \in Runs \ {r}, pc[q] \in {"preparing"} \cup Executing, tripped[Held(q)']
        PROVE  struck[q] \/ asked[q]
    <3>1. holder[q] \in Objects  BY <2>3 DEF TokenInv, HoldersOK, Inside, Running
    <3>2. Held(q)' = Held(q) \/ Held(q)' = r
      BY <1>1, <1>3, <3>1 DEF Held
    <3> QED  BY <1>4, <2>3, <3>2 DEF TokenInv, StrikesOK
  <2>4. result[r] = None
    <3>1. pc[r] \notin Inside  BY DEF Outside, Inside, Running, Executing
    <3> QED  BY <3>1, OutsideHoldsNothing DEF IInv
  <2> QED
    BY <1>2, <1>3, <2>1, <2>2, <2>3, <2>4 DEF TokenInv, StrikesOK
<1> QED  BY <1>5, <1>6, <1>7 DEF TokenInv

(* Tripping a token of session n means all its claimed runs, and no other   *)
(* run looks at that token.                                                 *)
LEMMA StrikeKeepsTokens ==
  ASSUME IInv, TokenInv, NEW n \in Names, NEW t \in Tokens,
         tripped' = [tripped EXCEPT ![t] = TRUE], struck' = Struck(n),
         \A q \in Runs : pc[q] \in Outside => q # t,
         \A q \in Runs : pc[q] \in Inside /\ Held(q) = t => sessionOf[q] = n,
         UNCHANGED <<sessions, token, holder, seen, sessionOf>>,
         \A q \in Runs :
           /\ asked[q] => asked'[q]
           /\ pc'[q] \in Inside => pc[q] \in Inside
           /\ pc'[q] \in {"preparing"} \cup Executing => pc[q] \in {"preparing"} \cup Executing
           /\ pc'[q] \in Outside => pc[q] \in Outside
           /\ result'[q] = "cancelled" => result[q] = "cancelled"
           /\ status'[q] \in {"cancelled", "cancelling"} => status'[q] = status[q] \/ asked'[q]
  PROVE  TokenInv'
<1>1. HoldersOK'  BY DEF TokenInv, HoldersOK
<1>2. TokensOK'
  <2>1. \A q \in Runs : pc'[q] \in Outside => ~tripped'[q]
    BY DEF TokenInv, TokensOK, IInv, TypeOK, Tokens
  <2> QED  BY <2>1 DEF TokenInv, TokensOK
<1>3. \A q \in Runs : struck[q] => struck'[q]  BY DEF Struck
<1>4. ASSUME NEW q \in Runs, pc'[q] \in {"preparing"} \cup Executing, tripped'[Held(q)']
      PROVE  struck'[q] \/ asked'[q]
  <2>1. Held(q)' = Held(q) /\ pc[q] \in Inside /\ pc[q] \in {"preparing"} \cup Executing
    BY <1>4 DEF Held, Inside, Running
  <2>2. Held(q) \in Tokens
    BY <2>1, HeldToken DEF TokenInv, HoldersOK, IInv
  <2>3. CASE Held(q) = t
    <3>1. q \in ClaimsOf(n)
      BY <2>1, <2>3 DEF ClaimsOf, IInv, TasksOK, Inside, Claiming
    <3> QED  BY <3>1 DEF Struck
  <2>4. CASE Held(q) # t
    <3>1. tripped[Held(q)]  BY <1>4, <2>1, <2>2, <2>4 DEF IInv, TypeOK
    <3> QED  BY <1>3, <2>1, <3>1 DEF TokenInv, StrikesOK
  <2> QED  BY <2>3, <2>4
<1>5. StrikesOK'  BY <1>3, <1>4 DEF TokenInv, StrikesOK
<1> QED  BY <1>1, <1>2, <1>5 DEF TokenInv

(* A task that ends lets go of its session.                                 *)
LEMMA LeavingKeepsTokens ==
  ASSUME IInv, TokenInv, NEW r \in Runs, DropLocals(r), pc' = [pc EXCEPT ![r] = "done"]
                                                        \/ pc' = [pc EXCEPT ![r] = "dead"],
         UNCHANGED <<sessions, sessionOf>>, UNCHANGED tokenVars, UNCHANGED history,
         status' = status \/ (pc[r] = "finishing" /\ status' = [status EXCEPT ![r] = result[r]])
  PROVE  TokenInv'
<1> USE NoneAssumption DEF tokenVars, history
<1>1. /\ holder'[r] = None /\ seen'[r] = None /\ result'[r] = None /\ pc'[r] \in {"done", "dead"}
      /\ \A q \in Runs \ {r} : /\ holder'[q] = holder[q] /\ seen'[q] = seen[q]
                              /\ result'[q] = result[q] /\ pc'[q] = pc[q]
                              /\ status'[q] = status[q]
      /\ status'[r] = status[r] \/ (status'[r] = result[r] /\ result[r] \in EndStatuses)
  BY DEF DropLocals, IInv, TypeOK, TasksOK
<1>2. HoldersOK'  BY <1>1 DEF TokenInv, HoldersOK, Inside, Running, Executing
<1>3. TokensOK'  BY <1>1 DEF TokenInv, TokensOK, Outside
<1>4. StrikesOK'
  <2>1. "cancelling" \notin EndStatuses /\ None # "cancelled"
    BY ConstantsAssumption DEF EndStatuses, Statuses
  <2>2. \A q \in Runs \ {r} : Held(q)' = Held(q)  BY <1>1 DEF Held
  <2> QED  BY <1>1, <2>1, <2>2 DEF TokenInv, StrikesOK, Executing
<1> QED  BY <1>2, <1>3, <1>4 DEF TokenInv

LEMMA TokenStep ==
  ASSUME IInv, TokenInv, [Next]_vars
  PROVE  TokenInv'
<1> USE NoneAssumption DEF hostVars, tokenVars, taskVars, history
<1>n. Inside \cap {"new", "waiting", "pending", "done", "dead", "gone"} = {}
  BY DEF Inside, Running, Executing
<1>1. ASSUME NEW n \in Names, NEW o \in Objects, Register(n, o) PROVE TokenInv'
  <2>1. /\ Idle(o) /\ sessions' = [sessions EXCEPT ![n] = o]
        /\ UNCHANGED <<token, tripped, sessionOf, status, pc, holder, seen, result, asked, struck>>
    BY <1>1 DEF Register
  <2>2. \A r \in Runs : holder[r] # o
    BY <2>1, OutsideHoldsNothing DEF Idle, IInv, Inside, Claiming
  <2>3. HoldersOK'
    BY <2>1, <2>2 DEF TokenInv, HoldersOK, Idle, IInv, TypeOK
  <2>4. TokensOK' /\ StrikesOK'  BY <2>1 DEF TokenInv, TokensOK, StrikesOK, Held
  <2> QED  BY <2>3, <2>4 DEF TokenInv
<1>2. ASSUME NEW n \in Names, Unregister(n) PROVE TokenInv'
  <2>1. /\ sessions' = [sessions EXCEPT ![n] = None]
        /\ UNCHANGED <<token, tripped, sessionOf, status, pc, holder, seen, result, asked, struck>>
    BY <1>2 DEF Unregister
  <2>2. HoldersOK'  BY <2>1 DEF TokenInv, HoldersOK, IInv, TypeOK
  <2>3. TokensOK' /\ StrikesOK'  BY <2>1 DEF TokenInv, TokensOK, StrikesOK, Held
  <2> QED  BY <2>2, <2>3 DEF TokenInv
<1>3. ASSUME NEW n \in Names, NEW r \in Runs, StartNow(n, r) \/ StartQueued(n, r) PROVE TokenInv'
  <2>1. /\ UNCHANGED <<sessions, token, tripped, holder, seen, result, asked, struck>>
        /\ sessionOf' = [sessionOf EXCEPT ![r] = n]
        /\ status' = [status EXCEPT ![r] = "queued"]
        /\ \E place \in {"pending", "waiting"} : pc' = [pc EXCEPT ![r] = place]
        /\ pc[r] = "new"
    BY <1>3 DEF StartNow, StartQueued
  <2>2. holder[r] = None  BY <1>n, <2>1, OutsideHoldsNothing DEF IInv
  <2> QED
    BY <1>n, <2>1, <2>2, NothingHeldChanges DEF IInv, TypeOK, Outside, Executing
<1>4. ASSUME NEW n \in Names, NEW r \in Runs, RunNow(n, r) PROVE TokenInv'
  BY <1>4, EnterKeepsTokens DEF RunNow, Outside
<1>5. ASSUME NEW r \in Runs, PollAdmits(r) \/ Begin(r) PROVE TokenInv'
  <2>1. /\ pc[r] \in {"waiting", "pending"} /\ sessions[sessionOf[r]] # None
        /\ EnterSession(r, sessionOf[r])
        /\ UNCHANGED <<sessions, result, sessionOf, asked, struck>>
    BY <1>5 DEF PollAdmits, MayPoll, Begin
  <2>2. sessionOf[r] \in Names  BY <2>1 DEF IInv, TasksOK
  <2>3. sessionOf' = [sessionOf EXCEPT ![r] = sessionOf[r]]  BY <2>1 DEF IInv, TypeOK
  <2> QED  BY <2>1, <2>2, <2>3, EnterKeepsTokens DEF Outside
<1>6. ASSUME NEW r \in Runs, CancelQueued(r) PROVE TokenInv'
  <2>1. /\ UNCHANGED <<sessions, token, tripped, holder, seen, result, struck, pc, sessionOf>>
        /\ status' = [status EXCEPT ![r] = "cancelled"]
        /\ asked' = [asked EXCEPT ![r] = TRUE]
    BY <1>6 DEF CancelQueued
  <2>2. HoldersOK' /\ TokensOK'  BY <2>1 DEF TokenInv, HoldersOK, TokensOK
  <2>3. StrikesOK'  BY <2>1 DEF TokenInv, StrikesOK, Held, IInv, TypeOK
  <2> QED  BY <2>2, <2>3 DEF TokenInv
<1>7. ASSUME NEW r \in Runs, CancelActive(r) PROVE TokenInv'
  <2> DEFINE n == sessionOf[r]
             o == sessions[n]
  <2>1. /\ UNCHANGED <<sessions, token, holder, seen, result, pc, sessionOf>>
        /\ status' = [status EXCEPT ![r] = "cancelling"]
        /\ asked' = [asked EXCEPT ![r] = TRUE]
        /\ status[r] # None
    BY <1>7 DEF CancelActive
  <2>2. n \in Names  BY <2>1 DEF IInv, TasksOK
  <2>3. \A q \in Runs : /\ asked[q] => asked'[q]
                        /\ status'[q] \in {"cancelled", "cancelling"} =>
                             status'[q] = status[q] \/ asked'[q]
    BY <2>1 DEF IInv, TypeOK
  <2>4. CASE o = None
    <3>1. tripped' = tripped /\ struck' = struck  BY <1>7, <2>4 DEF CancelActive
    <3>2. HoldersOK' /\ TokensOK'  BY <2>1, <3>1 DEF TokenInv, HoldersOK, TokensOK
    <3>3. StrikesOK'
      BY <2>1, <3>1 DEF TokenInv, StrikesOK, Held, IInv, TypeOK
    <3> QED  BY <3>2, <3>3 DEF TokenInv
  <2>5. CASE o # None
    <3>1. tripped' = [tripped EXCEPT ![token[o]] = TRUE] /\ struck' = Struck(n)
      BY <1>7, <2>5 DEF CancelActive
    <3>2. o \in Objects /\ token[o] \in Tokens  BY <2>2, <2>5 DEF IInv, TypeOK
    <3> HIDE DEF n
    <3>3. \A q \in Runs : pc[q] \in Outside => q # token[o]
      BY <3>2 DEF TokenInv, TokensOK
    <3>4. ASSUME NEW q \in Runs, pc[q] \in Inside, Held(q) = token[o] PROVE sessionOf[q] = n
      <4>1. holder[q] \in Objects  BY <3>4 DEF TokenInv, HoldersOK
      <4>2. holder[q] = o  BY <3>2, <3>4, <4>1 DEF TokenInv, TokensOK, Held
      <4> QED  BY <2>2, <2>5, <4>2 DEF TokenInv, HoldersOK
    <3> HIDE DEF o
    <3> QED  BY <2>1, <2>2, <2>3, <3>1, <3>2, <3>3, <3>4, StrikeKeepsTokens
  <2> QED  BY <2>4, <2>5
<1>8. ASSUME NEW r \in Runs, DeadlinePasses(r) PROVE TokenInv'
  <2>1. /\ pc[r] \in Executing /\ UNCHANGED <<sessions, token, holder, seen, status, asked, sessionOf>>
        /\ tripped' = [tripped EXCEPT ![seen[r]] = TRUE] /\ struck' = Struck(sessionOf[r])
        /\ result' = [result EXCEPT ![r] = "timeout"] /\ pc' = [pc EXCEPT ![r] = "finishing"]
    BY <1>8 DEF DeadlinePasses, Returns
  <2>2. /\ seen[r] \in Tokens /\ seen[r] # None /\ sessionOf[r] \in Names
        /\ pc[r] \in Inside /\ holder[r] \in Objects
    <3>1. seen[r] \in Tokens /\ sessionOf[r] \in Names /\ pc[r] \in Inside
      BY <2>1 DEF IInv, TasksOK, Executing, Inside, Running
    <3> QED  BY <3>1 DEF Tokens, TokenInv, HoldersOK
  <2>3. \A q \in Runs : pc[q] \in Outside => q # seen[r]
    BY DEF TokenInv, TokensOK
  <2>4. ASSUME NEW q \in Runs, pc[q] \in Inside, Held(q) = seen[r]
        PROVE  sessionOf[q] = sessionOf[r]
    <3>1. holder[q] \in Objects  BY <2>4 DEF TokenInv, HoldersOK
    <3>2. holder[q] = holder[r]  BY <2>2, <2>4, <3>1 DEF TokenInv, TokensOK, Held
    <3> QED  BY <2>2, <3>1, <3>2 DEF TokenInv, HoldersOK
  <2>5. \A q \in Runs :
          /\ pc'[q] \in Inside => pc[q] \in Inside
          /\ pc'[q] \in {"preparing"} \cup Executing => pc[q] \in {"preparing"} \cup Executing
          /\ pc'[q] \in Outside => pc[q] \in Outside
          /\ result'[q] = "cancelled" => result[q] = "cancelled"
    BY <2>1, <2>2 DEF IInv, TypeOK, Outside, Executing
  <2> QED  BY <2>1, <2>2, <2>3, <2>4, <2>5, StrikeKeepsTokens
<1>9. ASSUME NEW r \in Runs, BuildExecutor(r) PROVE TokenInv'
  <2>1. /\ pc[r] = "preparing" /\ seen' = [seen EXCEPT ![r] = TokenOf(r)]
        /\ pc' = [pc EXCEPT ![r] = "turn"]
        /\ UNCHANGED <<sessions, token, tripped, holder, status, asked, struck, sessionOf, result>>
    BY <1>9 DEF BuildExecutor
  <2>2. holder[r] \in Objects /\ TokenOf(r) = Held(r) /\ Held(r) \in Tokens
    BY <2>1, HeldToken DEF TokenInv, HoldersOK, IInv, Inside, Running
  <2>3. Held(r) # None  BY <2>2 DEF Tokens
  <2>4. /\ seen'[r] = Held(r) /\ pc'[r] = "turn"
        /\ \A q \in Runs \ {r} : seen'[q] = seen[q] /\ pc'[q] = pc[q]
    BY <2>1, <2>2 DEF IInv, TypeOK
  <2>5. HoldersOK'  BY <2>1, <2>2, <2>4 DEF TokenInv, HoldersOK
  <2>6. TokensOK'
    <3>1. \A o \in Objects : Held(r) = token[o] => o = holder[r]
      BY <2>2 DEF TokenInv, TokensOK, Held
    <3>2. \A q \in Runs : seen[q] # None /\ seen[q] = Held(r) => holder[q] = holder[r]
      BY <2>2 DEF TokenInv, TokensOK, Held
    <3>3. \A q \in Runs : pc[q] \in Outside => Held(r) # q
      BY <2>2 DEF TokenInv, TokensOK, Held
    <3>4. "turn" \notin Outside  BY DEF Outside
    <3> QED
      BY <2>1, <2>2, <2>3, <2>4, <3>1, <3>2, <3>3, <3>4 DEF TokenInv, TokensOK
  <2>7. StrikesOK'
    <3>1. \A q \in Runs : Held(q)' = Held(q)  BY <2>1, <2>3, <2>4 DEF Held
    <3> QED  BY <2>1, <2>4, <3>1 DEF TokenInv, StrikesOK
  <2> QED  BY <2>5, <2>6, <2>7 DEF TokenInv
<1>10. ASSUME NEW r \in Runs, StartTurn(r) \/ ProviderReturns(r) PROVE TokenInv'
  <2>1. /\ pc[r] \in Executing
        /\ \E place \in {"provider", "acting", "finishing"} : pc' = [pc EXCEPT ![r] = place]
        /\ UNCHANGED <<sessions, token, tripped, holder, seen, status, asked, struck, sessionOf>>
        /\ \/ result' = result
           \/ result' = [result EXCEPT ![r] = "max_iterations"]
           \/ result' = [result EXCEPT ![r] = "cancelled"] /\ tripped[seen[r]]
    BY <1>10 DEF StartTurn, ProviderReturns, Returns, CancelSeen, Executing
  <2>2. /\ pc[r] \in Inside /\ seen[r] \in Tokens /\ pc[r] \notin Outside
    BY <2>1 DEF Inside, Running, Executing, IInv, TasksOK, Outside
  <2>3. Held(r) = seen[r]  BY <2>2 DEF Held, Tokens
  <2>4. tripped[seen[r]] => struck[r] \/ asked[r]
    BY <2>1, <2>3 DEF TokenInv, StrikesOK
  <2>5. HoldersOK'  BY <2>1, <2>2 DEF TokenInv, HoldersOK, IInv, TypeOK
  <2>6. TokensOK'
    BY <2>1, <2>2 DEF TokenInv, TokensOK, IInv, TypeOK, Outside
  <2>7. StrikesOK'
    BY <2>1, <2>4 DEF TokenInv, StrikesOK, Held, IInv, TypeOK
  <2> QED  BY <2>5, <2>6, <2>7 DEF TokenInv
<1>11. ASSUME NEW r \in Runs, PreflightBlocks(r) \/ NextTurn(r)
                              \/ \E s \in EndStatuses : EndLoop(r, s)
       PROVE  TokenInv'
  <2>1. /\ pc[r] \in {"preparing"} \cup Executing
        /\ \E place \in {"turn", "finishing"} : pc' = [pc EXCEPT ![r] = place]
        /\ pc[r] = "preparing" => pc' = [pc EXCEPT ![r] = "finishing"]
        /\ UNCHANGED <<sessions, token, tripped, holder, seen, status, asked, struck, sessionOf>>
        /\ \E s \in {"denied", "completed", "stalled", "approval_required"} :
             result' = result \/ result' = [result EXCEPT ![r] = s]
    BY <1>11, ConstantsAssumption DEF PreflightBlocks, NextTurn, EndLoop, Returns, Executing
  <2>2. pc[r] \in Inside /\ pc[r] \notin Outside
    BY <2>1 DEF Inside, Running, Executing, Outside
  <2>3. HoldersOK'  BY <2>1, <2>2 DEF TokenInv, HoldersOK, IInv, TypeOK
  <2>4. TokensOK'
    BY <2>1, <2>2 DEF TokenInv, TokensOK, IInv, TypeOK, Outside
  <2>5. StrikesOK'
    BY <2>1 DEF TokenInv, StrikesOK, Held, IInv, TypeOK, Executing
  <2> QED  BY <2>3, <2>4, <2>5 DEF TokenInv
<1>12. ASSUME NEW r \in Runs, PollCancelled(r) \/ PollUnknownSession(r) \/ Fail(r)
       PROVE  TokenInv'
  <2>1. /\ UNCHANGED <<sessions, token, tripped, holder, seen, result, asked, struck, sessionOf>>
        /\ \/ pc' = [pc EXCEPT ![r] = "done"] \/ pc' = [pc EXCEPT ![r] = "dead"]
           \/ pc[r] \in Running /\ pc' = [pc EXCEPT ![r] = "recording"]
        /\ status' = status \/ status' = [status EXCEPT ![r] = "failed"]
    BY <1>12 DEF PollCancelled, PollUnknownSession, Fail
  <2> QED
    BY <1>n, <2>1, NothingHeldChanges DEF IInv, TypeOK, Inside, Running, Executing, Outside
<1>13. ASSUME NEW r \in Runs, Finish(r) PROVE TokenInv'
  BY <1>13, LeavingKeepsTokens DEF Finish, SaveEnding
<1>14. ASSUME NEW r \in Runs, Raise(r) PROVE TokenInv'
  BY <1>14, LeavingKeepsTokens DEF Raise
<1>15. ASSUME NEW r \in Runs, Abandon(r) PROVE TokenInv'
  BY <1>15, LeavingKeepsTokens DEF Abandon
<1>16. CASE Restart
  <2>1. /\ \A n \in Names : sessions'[n] = None
        /\ \A o \in Objects : token'[o] = o
        /\ \A t \in Tokens : ~tripped'[t]
        /\ \A r \in Runs : /\ holder'[r] = None /\ seen'[r] = None /\ result'[r] = None
                           /\ pc'[r] \in {"new", "gone"} /\ status'[r] = Restored(status[r])
        /\ UNCHANGED <<sessionOf, asked, struck>>
    BY <1>16 DEF Restart
  <2>2. HoldersOK'  BY <1>n, <2>1 DEF HoldersOK
  <2>3. TokensOK'  BY <2>1, TokensAssumption DEF TokensOK, Tokens
  <2>4. StrikesOK'
    BY <2>1 DEF TokenInv, StrikesOK, Restored, ActiveStatuses, Executing, Statuses, EndStatuses
  <2> QED  BY <2>2, <2>3, <2>4 DEF TokenInv
<1>17. CASE UNCHANGED vars
  BY <1>17, NothingHeldChanges DEF vars
<1> QED
  BY <1>1, <1>2, <1>3, <1>4, <1>5, <1>6, <1>7, <1>8, <1>9, <1>10, <1>11, <1>12, <1>13,
     <1>14, <1>15, <1>16, <1>17
  DEF Next, TaskStep

LEMMA InitTokens == Init => TokenInv
<1> SUFFICES ASSUME Init PROVE TokenInv  OBVIOUS
<1> USE NoneAssumption, TokensAssumption
<1>1. HoldersOK  BY DEF Init, HoldersOK, Inside, Running, Executing
<1>2. TokensOK  BY DEF Init, TokensOK, Tokens
<1>3. StrikesOK  BY DEF Init, StrikesOK, Executing, Statuses, ActiveStatuses, EndStatuses
<1> QED  BY <1>1, <1>2, <1>3 DEF TokenInv

LEMMA TokensInvariant == Spec => [](IInv /\ TokenInv)
<1>1. IInv /\ TokenInv /\ [Next]_vars => TokenInv'  BY TokenStep
<1> QED  BY <1>1, InitTokens, InvariantHolds, PTL DEF Spec

(* However runs share sessions, sessions are replaced and objects handed    *)
(* on: a run ends cancelled only because it was cancelled, or because a     *)
(* token of its session was tripped while it held its claim; the token an   *)
(* earlier run left tripped never ends a later one (reset_cancel_token).    *)
THEOREM CancelsAreMeant == Spec => []NoStaleCancel
<1>1. TokenInv => NoStaleCancel  BY DEF TokenInv, StrikesOK, NoStaleCancel
<1> QED  BY <1>1, TokensInvariant, PTL

-----------------------------------------------------------------------------
(* One run per session.  Nobody else resets the token of a claimed run, so  *)
(* it looks at the token its session has, the one a cancel trips.           *)

Ahead == {"pending", "preparing"} \cup Executing

OwnToken ==
  \A r \in Runs :
     /\ asked[r] => pc[r] # "new"
     /\ asked[r] /\ pc[r] = "waiting" => status[r] = "cancelled"
     /\ asked[r] /\ pc[r] = "pending" => status[r] = "cancelling"
     /\ pc[r] \in Claiming => sessions[sessionOf[r]] # None
     /\ pc[r] \in Inside => sessions[sessionOf[r]] = holder[r]
     /\ seen[r] # None => seen[r] = token[holder[r]]
     /\ asked[r] /\ pc[r] \in Ahead => tripped[token[sessions[sessionOf[r]]]]

LEMMA OneClaim ==
  ASSUME MaxPerSession = 1, TypeOK, CapacityBound, NEW n \in Names
  PROVE  /\ \A q, r \in ClaimsOf(n) : q = r
         /\ Available(n) => ClaimsOf(n) = {}
<1>1. IsFiniteSet(ClaimsOf(n)) /\ Cardinality(ClaimsOf(n)) \in Nat /\ Cardinality(ClaimsOf(n)) <= 1
  BY ClaimsFinite DEF CapacityBound
<1>2. ASSUME NEW q \in ClaimsOf(n), NEW r \in ClaimsOf(n), q # r PROVE FALSE
  <2>1. IsFiniteSet({q}) /\ Cardinality({q}) = 1  BY FS_Singleton
  <2>2. r \notin {q} /\ {q} \cup {r} \in SUBSET ClaimsOf(n)  BY <1>2
  <2>3. Cardinality({q} \cup {r}) = 2  BY <2>1, <2>2, FS_AddElement
  <2>4. Cardinality({q} \cup {r}) <= Cardinality(ClaimsOf(n))  BY <1>1, <2>2, FS_Subset
  <2> QED  BY <1>1, <2>3, <2>4
<1>3. ASSUME Available(n) PROVE ClaimsOf(n) = {}
  <2>1. Cardinality(ClaimsOf(n)) = 0
    BY <1>1, <1>3 DEF Available, SessionAvailable
  <2> QED  BY <1>1, <2>1, FS_EmptySet
<1> QED  BY <1>2, <1>3

(* A task that enters its session finds no other claimed run there.         *)
LEMMA EnterAlone ==
  ASSUME IInv, HoldersOK, OwnToken, NEW r \in Runs, NEW n \in Names, sessions[n] # None,
         \A q \in ClaimsOf(n) : q = r, pc[r] \in Outside,
         asked[r] => status[r] = "cancelling" /\ tripped[token[sessions[n]]],
         EnterSession(r, n), sessions' = sessions, asked' = asked,
         sessionOf' = [sessionOf EXCEPT ![r] = n]
  PROVE  OwnToken'
<1> DEFINE o == sessions[n]
           held == IF Resets(r, o) THEN r ELSE token[o]
<1> USE NoneAssumption
<1>1. /\ o \in Objects /\ o # None /\ held \in Tokens
      /\ asked[r] => held = token[o] /\ tripped[token[o]]
  BY DEF IInv, TypeOK, Resets, Tokens
<1>2. /\ token' = [token EXCEPT ![o] = held] /\ holder' = [holder EXCEPT ![r] = o]
      /\ seen' = [seen EXCEPT ![r] = IF EventSink THEN held ELSE None]
      /\ status' = [status EXCEPT ![r] = "running"]
      /\ pc' = [pc EXCEPT ![r] = "preparing"]
      /\ tripped' = tripped
  BY DEF EnterSession
<1>3. sessions[n] = o  OBVIOUS
<1> HIDE DEF o, held
<1>4. /\ token'[o] = held /\ \A p \in Objects \ {o} : token'[p] = token[p]
      /\ holder'[r] = o /\ seen'[r] \in {None, held}
      /\ pc'[r] = "preparing" /\ status'[r] = "running" /\ sessionOf'[r] = n
      /\ \A q \in Runs \ {r} : /\ holder'[q] = holder[q] /\ seen'[q] = seen[q]
                              /\ pc'[q] = pc[q] /\ status'[q] = status[q]
                              /\ sessionOf'[q] = sessionOf[q]
  BY <1>1, <1>2 DEF IInv, TypeOK
<1>5. ASSUME NEW q \in Runs \ {r}, pc[q] \in Claiming
      PROVE  sessionOf[q] \in Names /\ sessions[sessionOf[q]] \in Objects \ {o}
  <2>1. q \in claims /\ sessionOf[q] \in Names
    BY <1>5 DEF IInv, TasksOK, Claiming, Running, Executing
  <2>2. sessionOf[q] # n  BY <2>1 DEF ClaimsOf
  <2>3. sessions[sessionOf[q]] # None  BY <1>5 DEF OwnToken
  <2>4. sessions[sessionOf[q]] # o  BY <1>1, <1>3, <2>1, <2>2, <2>3 DEF HoldersOK
  <2> QED  BY <2>1, <2>3, <2>4 DEF IInv, TypeOK
<1>6. ASSUME NEW q \in Runs \ {r}
      PROVE  /\ asked[q] => pc[q] # "new"
             /\ asked[q] /\ pc[q] = "waiting" => status[q] = "cancelled"
             /\ asked[q] /\ pc[q] = "pending" => status[q] = "cancelling"
             /\ pc[q] \in Claiming => sessions[sessionOf[q]] # None
             /\ pc[q] \in Inside => sessions[sessionOf[q]] = holder[q]
             /\ seen[q] # None => seen[q] = token'[holder[q]]
             /\ asked[q] /\ pc[q] \in Ahead => tripped[token'[sessions[sessionOf[q]]]]
  <2>1. seen[q] # None => pc[q] \in Inside /\ pc[q] \in Claiming
    BY OutsideHoldsNothing DEF IInv, Inside, Claiming
  <2>2. pc[q] \in Ahead => pc[q] \in Claiming
    BY DEF Ahead, Claiming, Running
  <2> QED  BY <1>4, <1>5, <2>1, <2>2 DEF OwnToken
<1>7. /\ pc'[r] # "waiting" /\ pc'[r] # "pending" /\ pc'[r] # "new"
      /\ sessions[n] # None /\ sessions[n] = holder'[r]
      /\ seen'[r] # None => seen'[r] = token'[holder'[r]]
      /\ asked[r] => tripped[token'[sessions[n]]]
  BY <1>1, <1>3, <1>4
<1> QED  BY <1>2, <1>4, <1>6, <1>7 DEF OwnToken

(* A step that only moves tasks on, ends them, or trips a token.            *)
LEMMA OwnTokenStays ==
  ASSUME IInv, OwnToken, UNCHANGED <<sessions, token, sessionOf, asked>>,
         \A t \in Tokens : tripped[t] => tripped'[t],
         \A r \in Runs :
           /\ pc'[r] = "new" => pc[r] = "new"
           /\ pc'[r] = "waiting" => pc[r] = "waiting"
           /\ pc'[r] = "pending" => pc[r] = "pending"
           /\ pc[r] \in {"waiting", "pending"} => status'[r] = status[r]
           /\ pc'[r] \in Claiming => pc[r] \in Claiming
           /\ pc'[r] \in Inside => pc[r] \in Inside
           /\ pc'[r] \in Ahead => pc[r] \in Ahead
           /\ pc'[r] \in Inside => holder'[r] = holder[r]
           /\ seen'[r] # None => holder'[r] = holder[r] /\ seen'[r] \in {seen[r], token[holder[r]]}
  PROVE  OwnToken'
<1>1. \A r \in Runs : pc[r] \in Ahead => token[sessions[sessionOf[r]]] \in Tokens
  <2> SUFFICES ASSUME NEW r \in Runs, pc[r] \in Ahead
               PROVE  token[sessions[sessionOf[r]]] \in Tokens
    OBVIOUS
  <2>1. sessions[sessionOf[r]] # None  BY DEF OwnToken, Ahead, Claiming, Running
  <2>2. sessionOf[r] \in Names  BY DEF IInv, TasksOK, Ahead, Executing
  <2> QED  BY <2>1, <2>2 DEF IInv, TypeOK
<1> QED  BY <1>1 DEF OwnToken

LEMMA OwnStep ==
  ASSUME MaxPerSession = 1, "replace" \notin HostCalls,
         IInv, TokenInv, CapacityBound, OwnToken, [Next]_vars
  PROVE  OwnToken'
<1> USE NoneAssumption DEF hostVars, tokenVars, taskVars, history
<1>h. HoldersOK  BY DEF TokenInv
<1>p. /\ Inside \subseteq Claiming /\ Ahead \subseteq Claiming /\ Executing \subseteq Inside
      /\ "preparing" \in Inside \cap Ahead
      /\ Claiming \cap {"new", "waiting", "done", "dead", "gone"} = {}
      /\ Ahead \cap {"finishing", "recording"} = {} /\ "pending" \notin Inside
      /\ Executing \subseteq Ahead /\ Executing \cap {"pending", "preparing"} = {}
  BY DEF Inside, Ahead, Claiming, Running, Executing
<1>c. \A r \in Runs : pc[r] \in Claiming => r \in ClaimsOf(sessionOf[r]) /\ sessionOf[r] \in Names
  BY <1>p DEF IInv, TasksOK, ClaimsOf
<1>1. ASSUME NEW n \in Names, NEW o \in Objects, Register(n, o) PROVE OwnToken'
  <2>1. /\ sessions[n] = None /\ sessions' = [sessions EXCEPT ![n] = o]
        /\ UNCHANGED <<token, tripped, sessionOf, status, pc, holder, seen, asked>>
    BY <1>1 DEF Register
  <2>2. \A r \in Runs : pc[r] \in Claiming => sessions'[sessionOf[r]] = sessions[sessionOf[r]]
    BY <1>c, <2>1 DEF OwnToken, IInv, TypeOK
  <2> QED  BY <1>p, <2>1, <2>2 DEF OwnToken
<1>2. ASSUME NEW n \in Names, Unregister(n) PROVE OwnToken'
  <2>1. /\ ClaimsOf(n) = {} /\ sessions' = [sessions EXCEPT ![n] = None]
        /\ UNCHANGED <<token, tripped, sessionOf, status, pc, holder, seen, asked>>
    BY <1>2 DEF Unregister
  <2>2. \A r \in Runs : pc[r] \in Claiming => sessions'[sessionOf[r]] = sessions[sessionOf[r]]
    BY <1>c, <2>1 DEF IInv, TypeOK
  <2> QED  BY <1>p, <2>1, <2>2 DEF OwnToken
<1>3. ASSUME NEW n \in Names, NEW r \in Runs, StartNow(n, r) \/ StartQueued(n, r)
      PROVE  OwnToken'
  <2>1. /\ UNCHANGED <<sessions, token, tripped, holder, seen, asked>> /\ sessions[n] # None
        /\ pc[r] = "new" /\ sessionOf' = [sessionOf EXCEPT ![r] = n]
        /\ status' = [status EXCEPT ![r] = "queued"]
        /\ \E place \in {"pending", "waiting"} : pc' = [pc EXCEPT ![r] = place]
    BY <1>3 DEF StartNow, StartQueued
  <2>2. ~asked[r] /\ seen[r] = None
    BY <1>p, <2>1, OutsideHoldsNothing DEF OwnToken, IInv, TypeOK
  <2>3. pc'[r] \notin Inside  BY <1>p, <2>1 DEF IInv, TypeOK
  <2> QED  BY <2>1, <2>2, <2>3 DEF OwnToken, IInv, TypeOK
<1>4. ASSUME NEW n \in Names, NEW r \in Runs, RunNow(n, r) PROVE OwnToken'
  <2>1. ClaimsOf(n) = {}  BY <1>4, OneClaim DEF RunNow, IInv
  <2>2. ~asked[r]  BY <1>4 DEF RunNow, OwnToken
  <2> QED  BY <1>4, <1>h, <2>1, <2>2, EnterAlone DEF RunNow, Outside
<1>5. ASSUME NEW r \in Runs, PollAdmits(r) PROVE OwnToken'
  <2>1. /\ pc[r] = "waiting" /\ status[r] # "cancelled" /\ Available(sessionOf[r])
        /\ sessions[sessionOf[r]] # None /\ EnterSession(r, sessionOf[r])
        /\ UNCHANGED <<sessions, sessionOf, asked>>
    BY <1>5 DEF PollAdmits, MayPoll
  <2>2. sessionOf[r] \in Names /\ sessionOf' = [sessionOf EXCEPT ![r] = sessionOf[r]]
    BY <2>1 DEF IInv, TasksOK, TypeOK
  <2>3. ClaimsOf(sessionOf[r]) = {}  BY <2>1, <2>2, OneClaim DEF IInv
  <2>4. ~asked[r]  BY <2>1 DEF OwnToken
  <2> QED  BY <1>h, <2>1, <2>2, <2>3, <2>4, EnterAlone DEF Outside
<1>6. ASSUME NEW r \in Runs, Begin(r) PROVE OwnToken'
  <2>1. /\ pc[r] = "pending" /\ sessions[sessionOf[r]] # None /\ EnterSession(r, sessionOf[r])
        /\ UNCHANGED <<sessions, sessionOf, asked>>
    BY <1>6 DEF Begin
  <2>2. /\ sessionOf[r] \in Names /\ sessionOf' = [sessionOf EXCEPT ![r] = sessionOf[r]]
        /\ r \in ClaimsOf(sessionOf[r])
    BY <1>c, <2>1 DEF IInv, TypeOK, Claiming
  <2>3. \A q \in ClaimsOf(sessionOf[r]) : q = r  BY <2>2, OneClaim DEF IInv
  <2>4. asked[r] => status[r] = "cancelling" /\ tripped[token[sessions[sessionOf[r]]]]
    BY <2>1 DEF OwnToken, Ahead
  <2> QED  BY <1>h, <2>1, <2>2, <2>3, <2>4, EnterAlone DEF Outside
<1>7. ASSUME NEW r \in Runs, CancelQueued(r) PROVE OwnToken'
  <2>1. /\ UNCHANGED <<sessions, token, tripped, holder, seen, pc, sessionOf>>
        /\ status' = [status EXCEPT ![r] = "cancelled"]
        /\ asked' = [asked EXCEPT ![r] = TRUE]
        /\ status[r] = "queued" /\ r \notin claims
    BY <1>7 DEF CancelQueued
  <2>2. status[r] # None  BY <2>1 DEF Statuses, ActiveStatuses
  <2>3. pc[r] \notin Claiming /\ pc[r] # "new"
    BY <2>1, <2>2 DEF IInv, TasksOK
  <2>4. pc[r] # "pending" /\ pc[r] \notin Ahead
    BY <2>3, <1>p DEF Claiming
  <2>5. status'[r] = "cancelled"  BY <2>1 DEF IInv, TypeOK
  <2>6. \A q \in Runs \ {r} : status'[q] = status[q] /\ asked'[q] = asked[q]
    BY <2>1 DEF IInv, TypeOK
  <2> QED  BY <2>1, <2>3, <2>4, <2>5, <2>6 DEF OwnToken
<1>8. ASSUME NEW r \in Runs, CancelActive(r) PROVE OwnToken'
  <2> DEFINE o == sessions[sessionOf[r]]
  <2>1. /\ UNCHANGED <<sessions, token, holder, seen, pc, sessionOf>>
        /\ status' = [status EXCEPT ![r] = "cancelling"]
        /\ asked' = [asked EXCEPT ![r] = TRUE]
        /\ tripped' = IF o = None THEN tripped ELSE [tripped EXCEPT ![token[o]] = TRUE]
        /\ pc[r] # "new" /\ pc[r] # "waiting"
    BY <1>8, <1>p DEF CancelActive, CancelRefuses, IInv, TasksOK
  <2>2. pc[r] \in Ahead => o \in Objects /\ o # None /\ token[o] \in Tokens
    BY <1>c, <1>p DEF OwnToken, IInv, TypeOK
  <2>3. pc[r] \in Ahead => tripped'[token[o]]  BY <2>1, <2>2 DEF IInv, TypeOK
  <2>4. \A t \in Tokens : tripped[t] => tripped'[t]  BY <2>1 DEF IInv, TypeOK
  <2>5. \A q \in Runs : pc[q] \in Ahead => token[sessions[sessionOf[q]]] \in Tokens
    BY <1>c, <1>p DEF OwnToken, IInv, TypeOK
  <2> HIDE DEF o
  <2>6. \A q \in Runs \ {r} : status'[q] = status[q] /\ asked'[q] = asked[q]
    BY <2>1 DEF IInv, TypeOK
  <2>7. status'[r] = "cancelling"  BY <2>1 DEF IInv, TypeOK
  <2> QED  BY <2>1, <2>3, <2>4, <2>5, <2>6, <2>7 DEF OwnToken, o
<1>9. ASSUME NEW r \in Runs, BuildExecutor(r) PROVE OwnToken'
  <2>1. /\ pc[r] = "preparing" /\ seen' = [seen EXCEPT ![r] = TokenOf(r)]
        /\ pc' = [pc EXCEPT ![r] = "turn"]
        /\ UNCHANGED <<sessions, token, tripped, holder, status, asked, sessionOf>>
    BY <1>9 DEF BuildExecutor
  <2>2. TokenOf(r) = token[holder[r]]
    <3>1. holder[r] \in Objects  BY <1>h, <1>p, <2>1 DEF HoldersOK
    <3>2. TokenOf(r) = Held(r)  BY <3>1, HeldToken DEF IInv
    <3> QED  BY <3>2 DEF Held, OwnToken
  <2>3. \A q \in Runs : seen'[q] # None => seen'[q] \in {seen[q], token[holder[q]]}
    BY <2>1, <2>2 DEF IInv, TypeOK
  <2>4. "turn" \in Executing  BY DEF Executing
  <2> QED
    BY <1>p, <2>1, <2>3, <2>4, OwnTokenStays DEF IInv, TypeOK
<1>10. ASSUME NEW r \in Runs, StartTurn(r) \/ ProviderReturns(r) \/ PreflightBlocks(r)
                              \/ NextTurn(r) \/ DeadlinePasses(r) \/ Fail(r)
                              \/ \E s \in EndStatuses : EndLoop(r, s)
       PROVE  OwnToken'
  <2>1. /\ pc[r] \in Running
        /\ \/ /\ pc[r] \in Executing
              /\ \E place \in {"turn", "provider", "acting"} : pc' = [pc EXCEPT ![r] = place]
           \/ pc' = [pc EXCEPT ![r] = "finishing"]
           \/ pc' = [pc EXCEPT ![r] = "recording"]
        /\ UNCHANGED <<sessions, token, holder, seen, asked, sessionOf>>
        /\ tripped' = tripped \/ \E t : tripped' = [tripped EXCEPT ![t] = TRUE]
        /\ status' = status \/ status' = [status EXCEPT ![r] = "failed"]
    BY <1>10 DEF StartTurn, ProviderReturns, PreflightBlocks, NextTurn, DeadlinePasses, Fail,
      EndLoop, Returns, Running, Executing
  <2>2. \A t \in Tokens : tripped[t] => tripped'[t]  BY <2>1 DEF IInv, TypeOK
  <2>3. pc[r] \in Inside /\ pc[r] \in Claiming /\ pc[r] \notin {"waiting", "pending"}
    BY <2>1 DEF Inside, Claiming, Running, Executing
  <2>4. \A q \in Runs : pc'[q] = pc[q] \/ (q = r /\ (pc[r] \in Ahead \/ pc'[r] \notin Ahead)
                                            /\ pc'[r] \notin {"new", "waiting", "pending"})
    BY <1>p, <2>1 DEF IInv, TypeOK
  <2>5. \A q \in Runs : pc[q] \in {"waiting", "pending"} => status'[q] = status[q]
    BY <2>1, <2>3 DEF IInv, TypeOK
  <2> QED  BY <2>1, <2>2, <2>3, <2>4, <2>5, OwnTokenStays
<1>11. ASSUME NEW r \in Runs, PollCancelled(r) \/ PollUnknownSession(r) \/ Finish(r)
                              \/ Raise(r) \/ Abandon(r)
       PROVE  OwnToken'
  <2>1. /\ \E place \in {"done", "dead"} : pc' = [pc EXCEPT ![r] = place]
        /\ UNCHANGED <<sessions, token, tripped, asked, sessionOf>>
        /\ UNCHANGED <<holder, seen>> \/ DropLocals(r)
        /\ \/ status' = status
           \/ pc[r] = "finishing" /\ status' = [status EXCEPT ![r] = result[r]]
    BY <1>11 DEF PollCancelled, PollUnknownSession, Finish, SaveEnding, Raise, Abandon
  <2>2. \A q \in Runs : /\ q # r => holder'[q] = holder[q]
                        /\ seen'[q] # None => holder'[q] = holder[q] /\ seen'[q] = seen[q]
    BY <2>1 DEF DropLocals, IInv, TypeOK
  <2>3. \A q \in Runs : pc'[q] = pc[q] \/ (q = r /\ pc'[r] \in {"done", "dead"})
    BY <2>1 DEF IInv, TypeOK
  <2>4. pc'[r] \in {"done", "dead"}  BY <2>1 DEF IInv, TypeOK
  <2>5. \A q \in Runs : pc[q] \in {"waiting", "pending"} => status'[q] = status[q]
    BY <2>1 DEF IInv, TypeOK
  <2> QED  BY <1>p, <2>1, <2>2, <2>3, <2>4, <2>5, OwnTokenStays
<1>12. CASE Restart
  <2>1. /\ \A r \in Runs : pc'[r] = (IF pc[r] = "new" THEN "new" ELSE "gone") /\ seen'[r] = None
        /\ asked' = asked
    BY <1>12 DEF Restart
  <2> QED  BY <1>p, <2>1 DEF OwnToken
<1>13. CASE UNCHANGED vars
  BY <1>13 DEF vars, OwnToken
<1> QED
  BY <1>1, <1>2, <1>3, <1>4, <1>5, <1>6, <1>7, <1>8, <1>9, <1>10, <1>11, <1>12, <1>13
  DEF Next, TaskStep

(* With one run per session and sessions that are not replaced, an accepted *)
(* cancel stays visible to its run until it ends: no later run resets the   *)
(* token it is going to look at (cancel, reset_cancel_token, _run_once).    *)
THEOREM CancelsStay ==
  ASSUME MaxPerSession = 1, "replace" \notin HostCalls
  PROVE  Spec => []CancelNotLost
<1>1. Init => OwnToken
  BY NoneAssumption DEF Init, OwnToken, Ahead, Inside, Claiming, Running, Executing
<1>2. IInv /\ TokenInv /\ CapacityBound /\ OwnToken /\ [Next]_vars => OwnToken'
  BY OwnStep
<1>3. IInv /\ TokenInv /\ OwnToken => CancelNotLost
  <2> SUFFICES ASSUME IInv, TokenInv, OwnToken, NEW r \in Runs, asked[r],
                      pc[r] \in {"pending", "preparing"} \cup Executing
               PROVE  tripped[TokenOf(r)]
    BY DEF CancelNotLost
  <2>1. tripped[token[sessions[sessionOf[r]]]] /\ sessions[sessionOf[r]] # None
    BY DEF OwnToken, Ahead, Claiming, Running
  <2>2. CASE pc[r] = "pending"
    <3>1. holder[r] = None /\ seen[r] = None
      BY <2>2, OutsideHoldsNothing DEF IInv, Inside, Running, Executing
    <3> QED  BY <2>1, <3>1 DEF TokenOf
  <2>3. CASE pc[r] # "pending"
    <3>1. pc[r] \in Inside  BY <2>3 DEF Inside, Running
    <3>2. holder[r] \in Objects /\ holder[r] = sessions[sessionOf[r]]
      BY <3>1 DEF TokenInv, HoldersOK, OwnToken
    <3>3. TokenOf(r) = Held(r)  BY <3>2, HeldToken DEF IInv
    <3>4. Held(r) = token[holder[r]]  BY DEF Held, OwnToken
    <3> QED  BY <2>1, <3>2, <3>3, <3>4
  <2> QED  BY <2>2, <2>3
<1> QED  BY <1>1, <1>2, <1>3, TokensInvariant, CapacityHolds, PTL DEF Spec
=============================================================================
