----------------------------- MODULE TurnProofs -----------------------------
(* Theorems of the turns of a run: of ReActLoop for every policy, every    *)
(* set of tools and answers and every bound; and of what surrounds a model *)
(* call, of TurnRefresh for every set of topics and every interval, of     *)
(* MemoryCenter for any runs, hosts, stores and texts, and of              *)
(* MemoryInjection for any hits, scores and bounds.                        *)
EXTENDS ReActLoop, MemoryCenter, MemoryInjection, TurnRefresh, SequenceTheorems, ListLemmas

-----------------------------------------------------------------------------
(* Types of the loop, and where it is.                                      *)

Busy == pc \notin {"idle", "closing"}
InTurn == pc \in {"asking", "judging", "calling", "running"}

\* What holds at each point of the loop.
Placed ==
  /\ pc # "idle" => run >= 1
  /\ Busy => status = "running" /\ guard.count < StallLimit
  /\ pc = "closing" => status \in Endings
  /\ InTurn => index < MaxIterations
  /\ pc \in {"calling", "running"} => left # << >>

TInv == TypeOK /\ Placed

LEMMA ReplyType ==
  ASSUME TypeOK
  PROVE  /\ reply.form \in Forms
         /\ reply.names \in Seq(Tools \cup {Finish})
         /\ reply.output \in Outputs
         /\ \A n : Wants(n) => n \in Tools \cup {Finish}
<1> DEFINE R == [form : Forms, names : Seq(Tools \cup {Finish}), output : Outputs]
<1>1. Replies \subseteq R
  BY ReActAssumption DEF Forms
<1>2. NoReply \in R
  <2>1. << >> \in Seq(Tools \cup {Finish})
    OBVIOUS
  <2> QED
    BY <2>1 DEF NoReply, Forms, Outputs
<1>3. reply \in R
  BY <1>1, <1>2 DEF TypeOK, ReplySet
<1>4. /\ reply.form \in Forms
      /\ reply.names \in Seq(Tools \cup {Finish})
      /\ reply.output \in Outputs
  BY <1>3
<1>5. reply.form # "malformed" => reply.names # << >>
  <2>1. \A r \in Replies : r.form # "malformed" => r.names # << >>
    BY ReActAssumption
  <2>2. NoReply.form = "malformed"
    BY DEF NoReply
  <2> QED
    BY <2>1, <2>2 DEF TypeOK, ReplySet
<1>6. \A n : Wants(n) => n \in Tools \cup {Finish}
  BY <1>4, <1>5 DEF Wants
<1> QED
  BY <1>4, <1>6

LEMMA EmptySequence == Len(<< >>) = 0
  OBVIOUS

LEMMA ElementType ==
  ASSUME NEW S, NEW s \in Seq(S), NEW i \in DOMAIN s
  PROVE  s[i] \in S
  OBVIOUS

LEMMA CallsType ==
  ASSUME NEW S, NEW x, NEW s \in Seq(S \cup {x}), x \notin {s[i] : i \in DOMAIN s}
  PROVE  s \in Seq(S)
<1>1. \A i \in 1..Len(s) : s[i] \in S
  OBVIOUS
<1> QED
  BY <1>1

LEMMA InitT ==
  ASSUME Init
  PROVE  TInv
<1>1. \A S : << >> \in Seq(S)
  OBVIOUS
<1>2. Quiet \in [print : {NoPrint} \cup (Tools \X Outcomes), count : 0..StallLimit]
  BY ReActAssumption DEF Quiet
<1>3. NotCut \in [turns : 0..MaxIterations, answers : 0..MaxIterations]
  BY ReActAssumption DEF NotCut
<1>4. 0 \in 0..MaxRuns /\ 0 \in 0..MaxIterations /\ 0 \in 0..MaxRepairs
  BY ReActAssumption
<1>5. TypeOK
  BY <1>1, <1>2, <1>3, <1>4 DEF Init, TypeOK, ReplySet
<1> QED
  BY <1>5 DEF Init, TInv, Placed, Busy, InTurn

LEMMA SubmittedType ==
  ASSUME TInv, pc # "idle", NEW subject \in Subjects
  PROVE  Submitted(subject) \in
           Seq([subject : Subjects, status : {"pending"} \cup Decisions, run : 1..MaxRuns])
<1> DEFINE A == [subject : Subjects, status : {"pending"} \cup Decisions, run : 1..MaxRuns]
           new == [subject |-> subject, status |-> "pending", run |-> run]
<1>1. new \in A
  BY ReActAssumption DEF TInv, TypeOK, Placed
<1>2. approvals \in Seq(A)
  BY DEF TInv, TypeOK
<1> HIDE DEF new, A
<1>3. Append(approvals, new) \in Seq(A)
  BY <1>1, <1>2
<1> QED
  BY <1>2, <1>3 DEF Submitted, new, A

LEMMA AfterCallT ==
  ASSUME TInv, pc \in {"calling", "running"}, NEW x \in Outcomes, AfterCall(Head(left), x),
         approvals' \in Seq([subject : Subjects, status : {"pending"} \cup Decisions, run : 1..MaxRuns])
  PROVE  TInv'
<1> DEFINE t == Head(left)
<1>1. t \in Tools /\ Tail(left) \in Seq(Tools) /\ Len(left) \in Nat /\ Len(left) >= 1
  BY DEF TInv, TypeOK, Placed
<1>2. reply.form \in Forms
  BY ReplyType DEF TInv
<1>3. noted' \in Seq([tool : Tools, outcome : Outcomes, via : Forms])
  BY <1>1, <1>2 DEF AfterCall, Note, TInv, TypeOK
<1>4. /\ Observed(t, x).print \in Tools \X Outcomes
      /\ Observed(t, x).count \in Nat
      /\ Observed(t, x).count <= StallLimit
      /\ Observed(t, x) \in [print : {NoPrint} \cup (Tools \X Outcomes), count : 0..StallLimit]
  BY <1>1, ReActAssumption DEF Observed, TInv, TypeOK, Placed, Busy
<1> HIDE DEF t
<1>5. UNCHANGED <<run, repairs, token, late, grants, result, started, cut, broke>>
  BY DEF AfterCall, past
<1>6. index < MaxIterations /\ index \in Nat /\ MaxIterations \in Nat /\ run >= 1 /\ status = "running"
      /\ guard.count < StallLimit
  BY ReActAssumption DEF TInv, TypeOK, Placed, Busy, InTurn
<1>7. CASE reply.form = "action" /\ Stalled(guard'.count)
  <2>1. guard' = Observed(t, x) /\ left' = << >> /\ status' = "stalled" /\ pc' = "closing" /\ UNCHANGED <<index, reply>>
    BY <1>7 DEF AfterCall, Ends, t
  <2> QED
    BY <1>3, <1>4, <1>5, <1>6, <2>1 DEF TInv, TypeOK, Placed, Busy, InTurn, Endings
<1>8. CASE reply.form = "action" /\ ~Stalled(guard'.count)
  <2>1. guard' = Observed(t, x) /\ left' = << >> /\ index' = index + 1 /\ pc' = "top" /\ reply' = NoReply /\ UNCHANGED status
    BY <1>8 DEF AfterCall, NextTurn, t
  <2>2. guard'.count < StallLimit
    BY <1>4, <1>8, <2>1, ReActAssumption DEF Stalled
  <2> QED
    BY <1>3, <1>4, <1>5, <1>6, <2>1, <2>2 DEF TInv, TypeOK, Placed, Busy, InTurn, ReplySet
<1>9. CASE reply.form # "action" /\ Len(left) = 1
  <2>1. left' = Tail(left) /\ index' = index + 1 /\ pc' = "top" /\ reply' = NoReply /\ UNCHANGED <<guard, status>>
    BY <1>9 DEF AfterCall, NextTurn, t
  <2> QED
    BY <1>1, <1>3, <1>5, <1>6, <2>1 DEF TInv, TypeOK, Placed, Busy, InTurn, ReplySet
<1>10. CASE reply.form # "action" /\ Len(left) # 1
  <2>1. left' = Tail(left) /\ pc' = "calling" /\ UNCHANGED <<guard, status, index, reply>>
    BY <1>10 DEF AfterCall, t
  <2>2. Tail(left) # << >>
    <3>1. left \in Seq(Tools)
      BY DEF TInv, TypeOK
    <3>2. Len(Tail(left)) = Len(left) - 1
      BY <1>1, <3>1
    <3>3. Tail(left) = << >> => Len(Tail(left)) = 0
      BY EmptySequence, Zenon
    <3>4. Len(left) - 1 # 0
      BY <1>1, <1>10
    <3> QED
      BY <3>2, <3>3, <3>4
  <2> QED
    BY <1>1, <1>3, <1>5, <1>6, <2>1, <2>2 DEF TInv, TypeOK, Placed, Busy, InTurn
<1> QED
  BY <1>7, <1>8, <1>9, <1>10

LEMMA StepT ==
  ASSUME TInv, [Next]_vars
  PROVE  TInv'
<1> USE ReActAssumption
<1> USE DEF TInv, TypeOK, Placed, Busy, InTurn, loop, past, Endings, Ends
<1>1. CASE UNCHANGED vars
  BY <1>1 DEF vars
<1>2. CASE Return
  BY <1>2 DEF Return
<1>3. CASE Raise
  BY <1>3 DEF Raise
<1>4. CASE TimeOut
  BY <1>4 DEF TimeOut
<1>5. CASE OutOfTurns
  BY <1>5 DEF OutOfTurns
<1>6. CASE StartTurn
  BY <1>6 DEF StartTurn
<1>7. CASE Cancelled
  BY <1>7 DEF Cancelled
<1>8. ASSUME NEW r \in Replies, Answer(r)
      PROVE  TInv'
  BY <1>8 DEF Answer, ReplySet
<1>9. CASE Unusable
  <2>1. NoReply \in ReplySet
    BY DEF ReplySet
  <2>2. index' = index + 1 /\ pc' = "top" /\ reply' = NoReply /\ pc = "judging"
    BY <1>9 DEF Unusable, NextTurn
  <2>3. UNCHANGED <<run, status, noted, left, repairs, guard, token, late, grants, approvals, result, past>>
    BY <1>9 DEF Unusable
  <2> QED
    BY <2>1, <2>2, <2>3
<1>10. CASE FinishCall
  BY <1>10 DEF FinishCall
<1>11. CASE TakeCalls
  <2>1. reply.names \in Seq(Tools)
    BY <1>11, ReplyType, CallsType DEF TakeCalls
  <2>2. reply \in Replies
    <3>1. NoReply.form = "malformed"
      BY DEF NoReply
    <3> QED
      BY <1>11, <3>1 DEF TakeCalls, ReplySet
  <2>3. reply.names # << >>
    BY <1>11, <2>2 DEF TakeCalls
  <2> QED
    BY <1>11, <2>1, <2>3 DEF TakeCalls
<1>12. ASSUME NEW n \in Tools \cup {Finish}, RefuseAction(n)
       PROVE  TInv'
  <2>1. <<"action", n>> \in Subjects
    BY DEF Subjects
  <2>2. approvals' \in Seq([subject : Subjects, status : {"pending"} \cup Decisions, run : 1..MaxRuns])
    BY <1>12, <2>1, SubmittedType DEF RefuseAction, Wants
  <2>3. Verdict[<<"action", n>>] \in Refusals
    BY <1>12, <2>1 DEF RefuseAction, Passes
  <2> QED
    BY <1>12, <2>2, <2>3 DEF RefuseAction, Wants
<1>13. ASSUME NEW n \in Tools \cup {Finish}, RejectAction(n)
       PROVE  TInv'
  BY <1>13 DEF RejectAction, Wants, NextTurn, ReplySet
<1>14. ASSUME NEW n \in Tools \cup {Finish}, TakeAction(n)
       PROVE  TInv'
  BY <1>14 DEF TakeAction, Wants
<1>15. CASE FinishAction
  BY <1>15 DEF FinishAction, Wants
<1>16. CASE RepairOutput
  BY <1>16 DEF RepairOutput, Wants, NextTurn, ReplySet
<1>17. CASE FailOutput
  BY <1>17 DEF FailOutput, Wants
<1>18. CASE StartTool
  <2>1. reply.form \in Forms
    BY ReplyType
  <2> QED
    BY <1>18, <2>1 DEF StartTool
<1>19. CASE RefuseTool
  <2>1. <<"tool", Head(left)>> \in Subjects
    BY <1>19 DEF RefuseTool, Subjects
  <2>2. Verdict[<<"tool", Head(left)>>] \in Outcomes
    BY <1>19, <2>1 DEF RefuseTool, Passes, Outcomes
  <2> QED
    BY <1>19, <2>1, <2>2, SubmittedType, AfterCallT DEF RefuseTool
<1>20. ASSUME NEW x \in Results, ToolReturns(x)
       PROVE  TInv'
  BY <1>20, AfterCallT DEF ToolReturns, Outcomes
<1>21. ASSUME NEW ids \in SUBSET Decided, NEW asked \in BOOLEAN, Start(ids, asked)
       PROVE  TInv'
  <2>1. {[subject |-> approvals[i].subject, status |-> approvals[i].status] : i \in ids}
          \subseteq [subject : Subjects, status : Decisions]
    <3>1. ASSUME NEW i \in ids
          PROVE  [subject |-> approvals[i].subject, status |-> approvals[i].status]
                   \in [subject : Subjects, status : Decisions]
      <4>1. approvals[i] \in [subject : Subjects, status : {"pending"} \cup Decisions, run : 1..MaxRuns]
        BY ElementType DEF Decided
      <4>2. approvals[i].status # "pending"
        BY DEF Decided
      <4> QED
        BY <4>1, <4>2
    <3> QED
      BY <3>1
  <2>2. \A S : << >> \in Seq(S)
    OBVIOUS
  <2>3. Quiet \in [print : {NoPrint} \cup (Tools \X Outcomes), count : 0..StallLimit] /\ Quiet.count = 0
    BY DEF Quiet
  <2>4. NotCut \in [turns : 0..MaxIterations, answers : 0..MaxIterations]
    BY DEF NotCut
  <2>5. NoReply \in ReplySet
    BY DEF ReplySet
  <2> QED
    <3>1. run + 1 \in 0..MaxRuns /\ 0 \in 0..MaxIterations /\ 0 \in 0..MaxRepairs
      BY <1>21 DEF Start
    <3>2. cut' \in [turns : 0..MaxIterations, answers : 0..MaxIterations]
      BY <1>21, <2>4 DEF Start
    <3>3. grants' \subseteq [subject : Subjects, status : Decisions]
      BY <1>21, <2>1 DEF Start
    <3>4. /\ run' = run + 1 /\ pc' = "top" /\ status' = "running" /\ noted' = << >>
          /\ index' = 0 /\ reply' = NoReply /\ left' = << >> /\ repairs' = 0 /\ guard' = Quiet
          /\ token' \in {"clear", "cancelled"} /\ late' = FALSE /\ approvals' = approvals
          /\ result' = "none" /\ started' = << >> /\ broke' = FALSE
      BY <1>21 DEF Start
    <3>5. TypeOK'
      BY <2>2, <2>3, <2>5, <3>1, <3>2, <3>3, <3>4
    <3> QED
      BY <2>3, <3>4, <3>5
<1>22. CASE Cancel
  BY <1>22 DEF Cancel, Turns, Answers
<1>23. CASE DeadlinePasses
  BY <1>23 DEF DeadlinePasses
<1>24. ASSUME NEW i \in DOMAIN approvals, NEW s \in Decisions, Decide(i, s)
       PROVE  TInv'
  <2> DEFINE A == [subject : Subjects, status : {"pending"} \cup Decisions, run : 1..MaxRuns]
  <2>1. approvals[i] \in A
    BY ElementType
  <2>2. [approvals[i] EXCEPT !.status = s] \in A
    BY <2>1
  <2>3. approvals' = [approvals EXCEPT ![i] = [approvals[i] EXCEPT !.status = s]]
    BY <1>24 DEF Decide
  <2> HIDE DEF A
  <2>4. approvals \in Seq(A)
    BY DEF A
  <2>5. approvals' \in Seq(A)
    BY <2>2, <2>3, <2>4
  <2> QED
    BY <1>24, <2>5 DEF Decide, A
<1> QED
  BY <1>1, <1>2, <1>3, <1>4, <1>5, <1>6, <1>7, <1>8, <1>9, <1>10, <1>11, <1>12, <1>13, <1>14,
     <1>15, <1>16, <1>17, <1>18, <1>19, <1>20, <1>21, <1>22, <1>23, <1>24 DEF Next, Act

LEMMA SpecT == Spec => []TInv
  BY InitT, StepT, PTL DEF Spec

\* Every variable of the loop keeps its type: the loop never leaves its turns, its
\* repairs or the guard's limit, whatever the model answers and whatever raises.
THEOREM LoopTypeCorrect == Spec => []TypeOK
  BY SpecT, PTL DEF TInv

-----------------------------------------------------------------------------
(* The approval store only grows, and what is decided stays.                *)

Grown ==
  /\ DOMAIN approvals \subseteq DOMAIN approvals'
  /\ \A i \in DOMAIN approvals :
       /\ approvals'[i].subject = approvals[i].subject
       /\ approvals'[i].run = approvals[i].run
       /\ approvals[i].status # "pending" => approvals'[i].status = approvals[i].status
  /\ \A i \in DOMAIN approvals' \ DOMAIN approvals : approvals'[i].run = run

LEMMA SubmittedGrows ==
  ASSUME TInv, NEW subject, approvals' = Submitted(subject)
  PROVE  Grown
<1> DEFINE new == [subject |-> subject, status |-> "pending", run |-> run]
           n == Len(approvals)
<1>1. n \in Nat /\ DOMAIN approvals = 1..n
  BY DEF TInv, TypeOK
<1>2. CASE approvals' = Append(approvals, new)
  <2>1. new.run = run
    OBVIOUS
  <2> HIDE DEF new
  <2>2. /\ DOMAIN approvals' = 1..(n + 1)
        /\ approvals'[n + 1] = new
        /\ \A i \in 1..n : approvals'[i] = approvals[i]
    BY <1>2 DEF TInv, TypeOK
  <2> QED
    BY <1>1, <2>1, <2>2 DEF Grown
<1>3. CASE approvals' = approvals
  BY <1>3 DEF Grown
<1> QED
  BY <1>2, <1>3 DEF Submitted

LEMMA StepGrows ==
  ASSUME TInv, [Next]_vars
  PROVE  Grown
<1>1. CASE UNCHANGED approvals
  BY <1>1 DEF Grown
<1>2. ASSUME NEW n, RefuseAction(n)
      PROVE  Grown
  BY <1>2, SubmittedGrows DEF RefuseAction
<1>3. CASE RefuseTool
  BY <1>3, SubmittedGrows DEF RefuseTool
<1>4. ASSUME NEW i \in DOMAIN approvals, NEW s \in Decisions, Decide(i, s)
      PROVE  Grown
  <2>1. approvals' = [approvals EXCEPT ![i] = [approvals[i] EXCEPT !.status = s]]
    BY <1>4 DEF Decide
  <2>2. approvals[i].status = "pending"
    BY <1>4 DEF Decide, MayDecide
  <2>3. approvals[i] \in [subject : Subjects, status : {"pending"} \cup Decisions, run : 1..MaxRuns]
    BY ElementType DEF TInv, TypeOK
  <2>4. /\ [approvals[i] EXCEPT !.status = s].subject = approvals[i].subject
        /\ [approvals[i] EXCEPT !.status = s].run = approvals[i].run
    BY <2>3
  <2>5. DOMAIN approvals' = DOMAIN approvals
    BY <2>1 DEF TInv, TypeOK
  <2> QED
    BY <2>1, <2>2, <2>4, <2>5 DEF Grown, TInv, TypeOK
<1>5. ASSUME NEW r \in Replies, Answer(r)
      PROVE  UNCHANGED approvals
  BY <1>5 DEF Answer
<1>6. ASSUME NEW n, RejectAction(n) \/ TakeAction(n)
      PROVE  UNCHANGED approvals
  BY <1>6 DEF RejectAction, TakeAction
<1>7. ASSUME NEW x, ToolReturns(x)
      PROVE  UNCHANGED approvals
  BY <1>7 DEF ToolReturns
<1>8. ASSUME NEW ids, NEW asked, Start(ids, asked)
      PROVE  UNCHANGED approvals
  BY <1>8 DEF Start
<1>9. CASE \/ Return \/ Raise \/ TimeOut \/ OutOfTurns \/ StartTurn \/ Cancelled
           \/ Unusable \/ FinishCall \/ TakeCalls \/ FinishAction \/ RepairOutput \/ FailOutput
           \/ StartTool \/ Cancel \/ DeadlinePasses \/ UNCHANGED vars
  BY <1>1, <1>9 DEF Return, Raise, TimeOut, OutOfTurns, StartTurn, Cancelled, Unusable, FinishCall,
       TakeCalls, FinishAction, RepairOutput, FailOutput, StartTool, Cancel, DeadlinePasses, vars
<1> QED
  BY <1>1, <1>2, <1>3, <1>4, <1>5, <1>6, <1>7, <1>8, <1>9 DEF Next, Act

-----------------------------------------------------------------------------
(* Calls are gated.                                                         *)

GrantsKept ==
  \A g \in grants : \E i \in DOMAIN approvals :
    approvals[i].subject = g.subject /\ approvals[i].status = g.status /\ approvals[i].run < run

GrantTaken ==
  pc \in {"calling", "running"} /\ reply.form = "action" => Gated(<<"action", Head(left)>>)

GInv ==
  /\ GrantsKept
  /\ \A i \in DOMAIN approvals : approvals[i].run <= run
  /\ GrantTaken
  /\ GatedCalls

LEMMA PassesIsGated ==
  ASSUME GInv, NEW subject, Passes(subject)
  PROVE  Gated(subject)
  BY DEF GInv, GrantsKept, Passes, ApprovedFor, Gated

LEMMA GatedStays ==
  ASSUME TInv, Grown, run' = run, NEW subject, Gated(subject)
  PROVE  Gated(subject)'
  BY DEF Gated, Grown

\* A step within a run keeps what is said of grants and records, and all of GInv if the
\* call taken, the calls started and a completed run are gated after it.
LEMMA KeepG ==
  ASSUME TInv, GInv, Grown, UNCHANGED <<run, grants>>, GrantTaken', GatedCalls'
  PROVE  GInv'
<1>1. GrantsKept'
  <2> SUFFICES ASSUME NEW g \in grants
               PROVE  \E i \in DOMAIN approvals' :
                        /\ approvals'[i].subject = g.subject
                        /\ approvals'[i].status = g.status
                        /\ approvals'[i].run < run
    BY DEF GrantsKept
  <2>1. PICK i \in DOMAIN approvals :
          approvals[i].subject = g.subject /\ approvals[i].status = g.status /\ approvals[i].run < run
    BY DEF GInv, GrantsKept
  <2>2. g.status # "pending"
    BY ReActAssumption DEF TInv, TypeOK
  <2> QED
    BY <2>1, <2>2 DEF Grown
<1>2. \A i \in DOMAIN approvals' : approvals'[i].run <= run
  <2>1. run <= run
    BY DEF TInv, TypeOK
  <2> QED
    BY <2>1 DEF GInv, Grown
<1> QED
  BY <1>1, <1>2 DEF GInv

StartedGated ==
  \A i \in DOMAIN started :
    /\ Gated(<<"tool", started[i].tool>>)
    /\ started[i].via = "action" => Gated(<<"action", started[i].tool>>)

FinishGated == status = "completed" /\ reply.form = "action" => Gated(<<"action", Finish>>)

LEMMA StartedStays ==
  ASSUME TInv, GInv, Grown, UNCHANGED <<run, started>>
  PROVE  StartedGated'
  BY GatedStays DEF GInv, GatedCalls, StartedGated

\* The same for a step that starts no tool, takes no action and completes no run.
LEMMA QuietG ==
  ASSUME TInv, GInv, Grown, UNCHANGED <<run, grants, started>>,
         \/ pc' \notin {"calling", "running"}
         \/ reply'.form # "action"
         \/ pc \in {"calling", "running"} /\ UNCHANGED <<left, reply>>,
         status' # "completed" \/ reply'.form # "action" \/ UNCHANGED <<status, reply>>
  PROVE  GInv'
<1>1. GrantTaken'
  BY GatedStays DEF GInv, GrantTaken
<1>2. StartedGated'
  BY StartedStays
<1>3. FinishGated'
  BY GatedStays DEF GInv, GatedCalls, FinishGated
<1>4. GatedCalls'
  BY <1>2, <1>3 DEF GatedCalls, StartedGated, FinishGated
<1> QED
  BY <1>1, <1>4, KeepG

LEMMA AfterCallG ==
  ASSUME TInv, GInv, Grown, NEW x, pc \in {"calling", "running"}, AfterCall(Head(left), x)
  PROVE  GInv'
<1>1. UNCHANGED <<run, grants, started>>
  BY DEF AfterCall, past
<1>2. status = "running"
  BY DEF TInv, Placed, Busy
<1>3. status' # "completed"
  BY <1>2 DEF AfterCall, Ends, NextTurn
<1>4. pc' \notin {"calling", "running"} \/ reply'.form # "action"
  BY DEF AfterCall, Ends, NextTurn
<1> QED
  BY <1>1, <1>3, <1>4, QuietG

LEMMA StepG ==
  ASSUME TInv, GInv, [Next]_vars
  PROVE  GInv'
<1> USE StepGrows
<1> USE DEF loop, past, Ends
<1>s. Busy => status = "running"
  BY DEF TInv, Placed
<1>n. NoReply.form = "malformed"
  BY DEF NoReply
<1>1. CASE UNCHANGED vars
  BY <1>1, QuietG DEF vars
<1>2. CASE Return \/ Raise
  BY <1>2, QuietG DEF Return, Raise
<1>3. CASE TimeOut \/ OutOfTurns \/ Cancelled
  BY <1>3, QuietG DEF TimeOut, OutOfTurns, Cancelled
<1>4. CASE StartTurn
  BY <1>4, QuietG DEF StartTurn
<1>5. ASSUME NEW r \in Replies, Answer(r)
      PROVE  GInv'
  BY <1>5, <1>s, QuietG DEF Answer, Busy
<1>6. CASE Unusable
  BY <1>6, <1>n, QuietG DEF Unusable, NextTurn
<1>7. CASE FinishCall
  BY <1>7, QuietG DEF FinishCall
<1>8. CASE TakeCalls
  BY <1>8, QuietG DEF TakeCalls
<1>9. ASSUME NEW n \in Tools \cup {Finish}, RefuseAction(n)
      PROVE  GInv'
  <2>1. Verdict[<<"action", n>>] # "completed"
    BY ReActAssumption DEF Subjects, Refusals
  <2> QED
    BY <1>9, <2>1, QuietG DEF RefuseAction
<1>10. ASSUME NEW n \in Tools \cup {Finish}, RejectAction(n)
       PROVE  GInv'
  BY <1>10, <1>n, QuietG DEF RejectAction, NextTurn
<1>11. ASSUME NEW n \in Tools \cup {Finish}, TakeAction(n)
       PROVE  GInv'
  <2>1. Gated(<<"action", n>>)'
    BY <1>11, PassesIsGated, GatedStays DEF TakeAction
  <2>2. Head(<<n>>) = n
    OBVIOUS
  <2>3. GrantTaken'
    BY <1>11, <2>1, <2>2 DEF TakeAction, GrantTaken
  <2>4. StartedGated'
    BY <1>11, StartedStays DEF TakeAction
  <2>5. FinishGated'
    BY <1>11, <1>s DEF TakeAction, FinishGated, Wants, Busy
  <2> QED
    BY <1>11, <2>3, <2>4, <2>5, KeepG DEF TakeAction, GatedCalls, StartedGated, FinishGated
<1>12. CASE FinishAction
  <2>1. Gated(<<"action", Finish>>)'
    BY <1>12, PassesIsGated, GatedStays DEF FinishAction
  <2>2. StartedGated'
    BY <1>12, StartedStays DEF FinishAction
  <2>3. GrantTaken'
    BY <1>12 DEF FinishAction, GrantTaken
  <2> QED
    BY <1>12, <2>1, <2>2, <2>3, KeepG DEF FinishAction, GatedCalls, StartedGated
<1>13. CASE RepairOutput
  BY <1>13, <1>n, QuietG DEF RepairOutput, NextTurn
<1>14. CASE FailOutput
  BY <1>14, <1>s, QuietG DEF FailOutput, Wants, Busy
<1>15. CASE StartTool
  <2> PICK t : t = Head(left)
    OBVIOUS
  <2> PICK via : via = reply.form
    OBVIOUS
  <2> PICK new : new = [tool |-> t, via |-> via, turn |-> index + 1]
    OBVIOUS
  <2> PICK n : n = Len(started)
    OBVIOUS
  <2>1. Gated(<<"tool", t>>)'
    BY <1>15, PassesIsGated, GatedStays DEF StartTool
  <2>2. via = "action" => Gated(<<"action", t>>)'
    BY <1>15, GatedStays DEF StartTool, GInv, GrantTaken
  <2>3. new.tool = t /\ new.via = via
    OBVIOUS
  <2>4. /\ n \in Nat
        /\ DOMAIN started = 1..n
        /\ DOMAIN started' = 1..(n + 1)
        /\ started'[n + 1] = new
        /\ \A i \in 1..n : started'[i] = started[i]
    BY <1>15 DEF StartTool, TInv, TypeOK
  <2>5. StartedGated'
    <3> SUFFICES ASSUME NEW i \in 1..(n + 1)
                 PROVE  (/\ Gated(<<"tool", started[i].tool>>)
                         /\ started[i].via = "action" => Gated(<<"action", started[i].tool>>))'
      BY <2>4 DEF StartedGated
    <3>1. CASE i = n + 1
      BY <2>1, <2>2, <2>3, <2>4, <3>1
    <3>2. CASE i \in 1..n
      <4>1. /\ Gated(<<"tool", started[i].tool>>)
            /\ started[i].via = "action" => Gated(<<"action", started[i].tool>>)
        BY <2>4, <3>2 DEF GInv, GatedCalls
      <4> QED
        BY <1>15, <2>4, <3>2, <4>1, GatedStays DEF StartTool
    <3> QED
      BY <2>4, <3>1, <3>2
  <2>6. GrantTaken'
    BY <1>15, <2>2 DEF StartTool, GrantTaken
  <2>7. FinishGated'
    BY <1>15, <1>s DEF StartTool, FinishGated, Busy
  <2> QED
    BY <1>15, <2>5, <2>6, <2>7, KeepG DEF StartTool, GatedCalls, StartedGated, FinishGated
<1>16. CASE RefuseTool
  BY <1>16, AfterCallG DEF RefuseTool
<1>17. ASSUME NEW x \in Results, ToolReturns(x)
       PROVE  GInv'
  BY <1>17, AfterCallG DEF ToolReturns
<1>18. ASSUME NEW ids \in SUBSET Decided, NEW asked \in BOOLEAN, Start(ids, asked)
       PROVE  GInv'
  <2>1. /\ grants' = {[subject |-> approvals[i].subject, status |-> approvals[i].status] : i \in ids}
        /\ approvals' = approvals /\ run' = run + 1 /\ started' = << >> /\ status' = "running"
        /\ pc' = "top"
    BY <1>18 DEF Start
  <2>2. run \in Nat
    BY ReActAssumption DEF TInv, TypeOK
  <2>3. \A i \in DOMAIN approvals : approvals[i].run \in Nat
    <3>1. ASSUME NEW i \in DOMAIN approvals
          PROVE  approvals[i].run \in Nat
      <4>1. approvals[i] \in [subject : Subjects, status : {"pending"} \cup Decisions, run : 1..MaxRuns]
        BY ElementType DEF TInv, TypeOK
      <4> QED
        BY <4>1, ReActAssumption
    <3> QED
      BY <3>1
  <2>4. \A i \in DOMAIN approvals : approvals[i].run < run'
    BY <2>1, <2>2, <2>3 DEF GInv
  <2>5. GrantsKept'
    BY <2>1, <2>4 DEF GrantsKept, Decided
  <2>6. \A i \in DOMAIN approvals' : approvals'[i].run <= run'
    BY <2>1, <2>2, <2>3 DEF GInv
  <2>7. GrantTaken' /\ FinishGated'
    BY <2>1 DEF GrantTaken, FinishGated
  <2>8. StartedGated'
    BY <2>1 DEF StartedGated
  <2> QED
    BY <2>5, <2>6, <2>7, <2>8 DEF GInv, GatedCalls, StartedGated, FinishGated
<1>19. CASE Cancel \/ DeadlinePasses
  <2>1. pc \in {"calling", "running"} \/ pc' \notin {"calling", "running"}
    BY <1>19 DEF Cancel, DeadlinePasses
  <2> QED
    BY <1>19, <2>1, QuietG DEF Cancel, DeadlinePasses
<1>20. ASSUME NEW i \in DOMAIN approvals, NEW s \in Decisions, Decide(i, s)
       PROVE  GInv'
  <2>1. pc \in {"calling", "running"} \/ pc' \notin {"calling", "running"}
    BY <1>20 DEF Decide
  <2> QED
    BY <1>20, <2>1, QuietG DEF Decide
<1> QED
  BY <1>1, <1>2, <1>3, <1>4, <1>5, <1>6, <1>7, <1>8, <1>9, <1>10, <1>11, <1>12, <1>13, <1>14,
     <1>15, <1>16, <1>17, <1>18, <1>19, <1>20 DEF Next, Act

LEMMA InitG ==
  ASSUME Init
  PROVE  GInv
  BY DEF Init, GInv, GrantsKept, GrantTaken, GatedCalls

\* No tool runs, and no parsed finish completes a run, that the policy did not let pass
\* or an operator had not approved before the run began, for every policy.
THEOREM CallsAreGated == Spec => []GatedCalls
<1>1. Init => TInv /\ GInv
  BY InitT, InitG
<1>2. TInv /\ GInv /\ [Next]_vars => (TInv /\ GInv)'
  BY StepT, StepG
<1>3. GInv => GatedCalls
  BY DEF GInv
<1> QED
  BY <1>1, <1>2, <1>3, PTL DEF Spec

-----------------------------------------------------------------------------
(* A cancel stops the work.                                                 *)

CInv ==
  /\ Busy /\ token = "clear" => cut = NotCut
  /\ Busy => \A i \in DOMAIN started : started[i].turn <= Answers
  /\ pc \in {"judging", "calling", "running"} => index < cut.answers
  /\ CancelStopsWork

LEMMA NotCutAnswers == NotCut.turns = MaxIterations /\ NotCut.answers = MaxIterations
  BY DEF NotCut

LEMMA StartedTurns ==
  ASSUME TypeOK, NEW i \in DOMAIN started
  PROVE  started[i].turn \in Nat
<1>1. started[i] \in [tool : Tools, via : Forms, turn : 1..MaxIterations]
  BY ElementType DEF TypeOK
<1> QED
  BY <1>1, ReActAssumption

LEMMA AfterCallC ==
  ASSUME TInv, CInv, NEW x, pc \in {"calling", "running"}, AfterCall(Head(left), x)
  PROVE  CInv'
<1>1. UNCHANGED <<token, started, cut>>
  BY DEF AfterCall, past
<1>2. status' \in {"running", "stalled"}
  BY DEF AfterCall, Ends, NextTurn, TInv, Placed, Busy
<1>3. \/ index' = index + 1 /\ pc' = "top"
      \/ index' = index /\ pc' \in {"calling", "closing"}
  BY DEF AfterCall, Ends, NextTurn
<1>4. index \in Nat /\ Busy
  BY ReActAssumption DEF TInv, TypeOK, Busy
<1>5. Busy' => Answers' = Answers
  BY <1>3, <1>4 DEF Answers, Busy
<1> QED
  BY <1>1, <1>2, <1>3, <1>4, <1>5 DEF CInv, CancelStopsWork, Busy

LEMMA StepC ==
  ASSUME TInv, CInv, [Next]_vars
  PROVE  CInv'
<1> USE ReActAssumption
<1> USE DEF CInv, CancelStopsWork, Busy, Answers, loop, past, Ends
<1>i. index \in Nat /\ index <= MaxIterations /\ MaxIterations \in Nat
  BY DEF TInv, TypeOK
<1>s. /\ pc \notin {"idle", "closing"} => status = "running"
      /\ InTurn => index < MaxIterations
  BY DEF TInv, Placed
<1>1. CASE UNCHANGED vars
  BY <1>1 DEF vars
<1>2. CASE Return \/ Raise
  BY <1>2, <1>s DEF Return, Raise
<1>3. CASE TimeOut \/ OutOfTurns \/ Cancelled
  BY <1>3 DEF TimeOut, OutOfTurns, Cancelled
<1>4. CASE StartTurn
  BY <1>4, <1>i, <1>s, NotCutAnswers DEF StartTurn
<1>5. ASSUME NEW r \in Replies, Answer(r)
      PROVE  CInv'
  <2>1. cut = NotCut /\ index < MaxIterations
    BY <1>5, <1>s DEF Answer, AnswerStands, InTurn
  <2>2. \A i \in DOMAIN started : started[i].turn <= index + 1
    BY <1>5, <1>i, StartedTurns DEF Answer, TInv
  <2> QED
    BY <1>5, <1>s, <2>1, <2>2, NotCutAnswers DEF Answer
<1>6. CASE Unusable \/ RepairOutput
  BY <1>6, <1>i, <1>s DEF Unusable, RepairOutput, Wants, NextTurn
<1>7. CASE FinishCall \/ FinishAction \/ FailOutput
  BY <1>7, <1>s DEF FinishCall, FinishAction, FailOutput, Wants
<1>8. CASE TakeCalls
  BY <1>8, <1>s DEF TakeCalls
<1>9. ASSUME NEW n \in Tools \cup {Finish}, RefuseAction(n)
      PROVE  CInv'
  <2>1. Verdict[<<"action", n>>] # "completed"
    BY DEF Subjects, Refusals
  <2> QED
    BY <1>9, <2>1 DEF RefuseAction
<1>10. ASSUME NEW n \in Tools \cup {Finish}, RejectAction(n)
       PROVE  CInv'
  BY <1>10, <1>i, <1>s DEF RejectAction, Wants, NextTurn
<1>11. ASSUME NEW n \in Tools \cup {Finish}, TakeAction(n)
       PROVE  CInv'
  BY <1>11, <1>s DEF TakeAction, Wants
<1>12. CASE StartTool
  <2> PICK n : n = Len(started)
    OBVIOUS
  <2> PICK new : new = [tool |-> Head(left), via |-> reply.form, turn |-> index + 1]
    OBVIOUS
  <2>1. new.turn = index + 1
    OBVIOUS
  <2>2. /\ n \in Nat
        /\ DOMAIN started = 1..n
        /\ DOMAIN started' = 1..(n + 1)
        /\ started'[n + 1] = new
        /\ \A i \in 1..n : started'[i] = started[i]
    BY <1>12 DEF StartTool, TInv, TypeOK
  <2>3. \A i \in DOMAIN started' : started'[i].turn <= index + 1
    BY <1>12, <1>i, <2>1, <2>2 DEF StartTool
  <2>4. index + 1 <= cut.answers
    BY <1>12, <1>i DEF StartTool, TInv, TypeOK
  <2>5. \A i \in DOMAIN started' : started'[i].turn <= cut.answers
    BY <1>12, <2>1, <2>2, <2>4 DEF StartTool
  <2> QED
    BY <1>12, <1>s, <2>3, <2>5 DEF StartTool
<1>13. CASE RefuseTool
  BY <1>13, AfterCallC DEF RefuseTool
<1>14. ASSUME NEW x \in Results, ToolReturns(x)
       PROVE  CInv'
  BY <1>14, AfterCallC DEF ToolReturns
<1>15. ASSUME NEW ids \in SUBSET Decided, NEW asked \in BOOLEAN, Start(ids, asked)
       PROVE  CInv'
  BY <1>15 DEF Start
<1>16. CASE Cancel
  <2>1. cut'.turns = Turns /\ cut'.answers = Answers
    BY <1>16 DEF Cancel
  <2>2. UNCHANGED <<pc, status, started, index>> /\ token' = "cancelled" /\ pc \notin {"idle", "closing"}
    BY <1>16 DEF Cancel
  <2> QED
    BY <1>i, <1>s, <2>1, <2>2 DEF Turns
<1>17. CASE DeadlinePasses
  BY <1>17 DEF DeadlinePasses
<1>18. ASSUME NEW i \in DOMAIN approvals, NEW s \in Decisions, Decide(i, s)
       PROVE  CInv'
  BY <1>18 DEF Decide
<1> QED
  BY <1>1, <1>2, <1>3, <1>4, <1>5, <1>6, <1>7, <1>8, <1>9, <1>10, <1>11, <1>12, <1>13, <1>14,
     <1>15, <1>16, <1>17, <1>18 DEF Next, Act

LEMMA InitC ==
  ASSUME Init
  PROVE  CInv
  BY DEF Init, CInv, CancelStopsWork, Busy

\* After a cancel no turn begins, no tool is started for a later answer and no later
\* answer completes the run, wherever in the loop the cancel came.
THEOREM CancelsStopWork == Spec => []CancelStopsWork
<1>1. Init => TInv /\ CInv
  BY InitT, InitC
<1>2. TInv /\ CInv /\ [Next]_vars => (TInv /\ CInv)'
  BY StepT, StepC
<1>3. CInv => CancelStopsWork
  BY DEF CInv
<1> QED
  BY <1>1, <1>2, <1>3, PTL DEF Spec

-----------------------------------------------------------------------------
(* Refusals have records, and parsed finishes are valid.                    *)

LEMMA AskedStays ==
  ASSUME Grown, run' = run, NEW subject, Asked(subject)
  PROVE  Asked(subject)'
  BY DEF Asked, Grown

LEMMA SubmittedAsks ==
  ASSUME TInv, NEW subject, Verdict[subject] = "approval_required",
         approvals' = Submitted(subject), run' = run
  PROVE  Asked(subject)'
<1> PICK new : new = [subject |-> subject, status |-> "pending", run |-> run]
  OBVIOUS
<1>1. new.subject = subject /\ new.run = run
  OBVIOUS
<1>2. approvals' = Append(approvals, new)
  BY DEF Submitted
<1>3. Len(approvals) + 1 \in DOMAIN approvals' /\ approvals'[Len(approvals) + 1] = new
  BY <1>2 DEF TInv, TypeOK
<1> QED
  BY <1>1, <1>3 DEF Asked

NotedAsked ==
  \A i \in DOMAIN noted : noted[i].outcome = "approval_required" => Asked(<<"tool", noted[i].tool>>)
EndAsked == status = "approval_required" => Asked(<<"action", reply.names[1]>>)

\* A step that notes nothing, and neither ends the run as approval_required nor changes
\* the answer of a run that has.
LEMMA QuietR ==
  ASSUME Grown, RefusalsAreAsked, UNCHANGED <<run, noted>>,
         status' # "approval_required" \/ UNCHANGED <<status, reply>>
  PROVE  RefusalsAreAsked'
<1>1. NotedAsked'
  BY AskedStays DEF RefusalsAreAsked, NotedAsked
<1>2. EndAsked'
  BY AskedStays DEF RefusalsAreAsked, EndAsked
<1> QED
  BY <1>1, <1>2 DEF RefusalsAreAsked, NotedAsked, EndAsked

LEMMA AfterCallR ==
  ASSUME TInv, Grown, RefusalsAreAsked, NEW x, pc \in {"calling", "running"},
         AfterCall(Head(left), x),
         x = "approval_required" => \A t : t = Head(left) => Asked(<<"tool", t>>)'
  PROVE  RefusalsAreAsked'
<1> PICK t : t = Head(left)
  OBVIOUS
<1> PICK via : via = reply.form
  OBVIOUS
<1> PICK n : n = Len(noted)
  OBVIOUS
<1> PICK new : new = [tool |-> t, outcome |-> x, via |-> via]
  OBVIOUS
<1>1. new.tool = t /\ new.outcome = x
  OBVIOUS
<1>2. run' = run /\ noted' = Append(noted, new)
  BY DEF AfterCall, Note
<1>3. status' # "approval_required"
  BY DEF AfterCall, Ends, NextTurn, TInv, Placed, Busy
<1>4. /\ n \in Nat
      /\ DOMAIN noted = 1..n
      /\ DOMAIN noted' = 1..(n + 1)
      /\ noted'[n + 1] = new
      /\ \A i \in 1..n : noted'[i] = noted[i]
  BY <1>2 DEF TInv, TypeOK
<1>5. NotedAsked'
  <2> SUFFICES ASSUME NEW i \in 1..(n + 1)
               PROVE  (noted[i].outcome = "approval_required" => Asked(<<"tool", noted[i].tool>>))'
    BY <1>4 DEF NotedAsked
  <2>1. CASE i = n + 1
    BY <1>1, <1>4, <2>1
  <2>2. CASE i \in 1..n
    <3>1. noted[i].outcome = "approval_required" => Asked(<<"tool", noted[i].tool>>)
      BY <1>4, <2>2 DEF RefusalsAreAsked
    <3> QED
      BY <1>2, <1>4, <2>2, <3>1, AskedStays
  <2> QED
    BY <1>4, <2>1, <2>2
<1> QED
  BY <1>3, <1>5 DEF RefusalsAreAsked, NotedAsked

LEMMA StepR ==
  ASSUME TInv, RefusalsAreAsked, [Next]_vars
  PROVE  RefusalsAreAsked'
<1> USE StepGrows
<1> USE DEF loop, past, Ends
<1>s. Busy => status = "running"
  BY DEF TInv, Placed
<1>1. CASE UNCHANGED vars
  BY <1>1, QuietR DEF vars
<1>2. CASE Return \/ Raise \/ TimeOut \/ OutOfTurns \/ Cancelled \/ StartTurn
  BY <1>2, QuietR DEF Return, Raise, TimeOut, OutOfTurns, Cancelled, StartTurn
<1>3. ASSUME NEW r \in Replies, Answer(r)
      PROVE  RefusalsAreAsked'
  BY <1>3, <1>s, QuietR DEF Answer, Busy
<1>4. CASE Unusable \/ RepairOutput
  BY <1>4, <1>s, QuietR DEF Unusable, RepairOutput, Wants, Busy, NextTurn
<1>5. CASE FinishCall \/ FinishAction \/ FailOutput \/ TakeCalls
  BY <1>5, QuietR DEF FinishCall, FinishAction, FailOutput, TakeCalls
<1>6. ASSUME NEW n \in Tools \cup {Finish}, RefuseAction(n)
      PROVE  RefusalsAreAsked'
  <2>1. UNCHANGED <<run, noted, reply>> /\ status' = Verdict[<<"action", n>>] /\ reply.names[1] = n
    BY <1>6 DEF RefuseAction, Wants
  <2>2. EndAsked'
    BY <1>6, <2>1, SubmittedAsks DEF RefuseAction, EndAsked
  <2>3. NotedAsked'
    BY <2>1, AskedStays DEF RefusalsAreAsked, NotedAsked
  <2> QED
    BY <2>2, <2>3 DEF RefusalsAreAsked, NotedAsked, EndAsked
<1>7. ASSUME NEW n \in Tools \cup {Finish}, RejectAction(n)
      PROVE  RefusalsAreAsked'
  BY <1>7, <1>s, QuietR DEF RejectAction, Wants, Busy, NextTurn
<1>8. ASSUME NEW n \in Tools \cup {Finish}, TakeAction(n)
      PROVE  RefusalsAreAsked'
  BY <1>8, QuietR DEF TakeAction
<1>9. CASE StartTool
  BY <1>9, QuietR DEF StartTool
<1>10. CASE RefuseTool
  <2> PICK t : t = Head(left)
    OBVIOUS
  <2>1. AfterCall(Head(left), Verdict[<<"tool", t>>]) /\ pc = "calling" /\ run' = run
    BY <1>10 DEF RefuseTool, AfterCall
  <2>2. Verdict[<<"tool", t>>] = "approval_required" => Asked(<<"tool", t>>)'
    BY <1>10, <2>1, SubmittedAsks DEF RefuseTool
  <2> QED
    BY <2>1, <2>2, AfterCallR
<1>11. ASSUME NEW x \in Results, ToolReturns(x)
       PROVE  RefusalsAreAsked'
  <2>1. x # "approval_required"
    BY ReActAssumption DEF Refusals
  <2> QED
    BY <1>11, <2>1, AfterCallR DEF ToolReturns
<1>12. ASSUME NEW ids \in SUBSET Decided, NEW asked \in BOOLEAN, Start(ids, asked)
       PROVE  RefusalsAreAsked'
  BY <1>12 DEF Start, RefusalsAreAsked
<1>13. CASE Cancel \/ DeadlinePasses
  BY <1>13, QuietR DEF Cancel, DeadlinePasses
<1>14. ASSUME NEW i \in DOMAIN approvals, NEW s \in Decisions, Decide(i, s)
       PROVE  RefusalsAreAsked'
  BY <1>14, QuietR DEF Decide
<1> QED
  BY <1>1, <1>2, <1>3, <1>4, <1>5, <1>6, <1>7, <1>8, <1>9, <1>10, <1>11, <1>12, <1>13, <1>14
     DEF Next, Act

LEMMA InitR ==
  ASSUME Init
  PROVE  RefusalsAreAsked
  BY DEF Init, RefusalsAreAsked

\* What is held back for an approval has its record in the store, for every policy: the
\* run that ends so, and every tool result that says so.
THEOREM RefusalsHaveRecords == Spec => []RefusalsAreAsked
<1>1. Init => TInv /\ RefusalsAreAsked
  BY InitT, InitR
<1>2. TInv /\ RefusalsAreAsked /\ [Next]_vars => (TInv /\ RefusalsAreAsked)'
  BY StepT, StepR
<1> QED
  BY <1>1, <1>2, PTL DEF Spec

LEMMA AfterCallV ==
  ASSUME TInv, ParsedFinishIsValid, NEW x, pc \in {"calling", "running"}, AfterCall(Head(left), x)
  PROVE  ParsedFinishIsValid'
<1>1. status' # "completed" /\ repairs' = repairs /\ index' \in {index, index + 1}
  BY DEF AfterCall, Ends, NextTurn, TInv, Placed, Busy
<1>2. index \in Nat /\ repairs \in Nat
  BY ReActAssumption DEF TInv, TypeOK
<1> QED
  BY <1>1, <1>2 DEF ParsedFinishIsValid

LEMMA StepV ==
  ASSUME TInv, ParsedFinishIsValid, [Next]_vars
  PROVE  ParsedFinishIsValid'
<1> USE DEF ParsedFinishIsValid, loop, past, Ends
<1>i. index \in Nat /\ repairs \in Nat
  BY ReActAssumption DEF TInv, TypeOK
<1>s. Busy => status = "running"
  BY DEF TInv, Placed
<1>1. CASE UNCHANGED vars
  BY <1>1 DEF vars
<1>2. CASE Return \/ Raise \/ TimeOut \/ OutOfTurns \/ Cancelled \/ StartTurn
  BY <1>2 DEF Return, Raise, TimeOut, OutOfTurns, Cancelled, StartTurn
<1>3. ASSUME NEW r \in Replies, Answer(r)
      PROVE  ParsedFinishIsValid'
  BY <1>3, <1>s DEF Answer, Busy
<1>4. CASE Unusable \/ RepairOutput
  <2>1. pc = "judging"
    BY <1>4 DEF Unusable, RepairOutput, Wants
  <2>2. status' = "running" /\ index' = index + 1
    BY <1>4, <2>1, <1>s DEF Unusable, RepairOutput, Busy, NextTurn
  <2>3. repairs' \in {repairs, repairs + 1}
    BY <1>4 DEF Unusable, RepairOutput
  <2>4. repairs' <= index'
    BY <1>i, <2>2, <2>3
  <2> QED
    BY <2>2, <2>4
<1>5. CASE FinishCall \/ FinishAction \/ FailOutput \/ TakeCalls
  BY <1>5, <1>s DEF FinishCall, FinishAction, FailOutput, TakeCalls, Acceptable, Wants, Busy
<1>6. ASSUME NEW n \in Tools \cup {Finish}, RefuseAction(n)
      PROVE  ParsedFinishIsValid'
  <2>1. Verdict[<<"action", n>>] # "completed"
    BY ReActAssumption DEF Subjects, Refusals
  <2> QED
    BY <1>6, <2>1 DEF RefuseAction
<1>7. ASSUME NEW n \in Tools \cup {Finish}, RejectAction(n)
      PROVE  ParsedFinishIsValid'
  BY <1>7, <1>i, <1>s DEF RejectAction, Wants, Busy, NextTurn
<1>8. ASSUME NEW n \in Tools \cup {Finish}, TakeAction(n)
      PROVE  ParsedFinishIsValid'
  BY <1>8 DEF TakeAction
<1>9. CASE StartTool
  BY <1>9 DEF StartTool
<1>10. CASE RefuseTool
  BY <1>10, AfterCallV DEF RefuseTool
<1>11. ASSUME NEW x \in Results, ToolReturns(x)
       PROVE  ParsedFinishIsValid'
  BY <1>11, AfterCallV DEF ToolReturns
<1>12. ASSUME NEW ids \in SUBSET Decided, NEW asked \in BOOLEAN, Start(ids, asked)
       PROVE  ParsedFinishIsValid'
  BY <1>12 DEF Start
<1>13. CASE Cancel \/ DeadlinePasses
  BY <1>13 DEF Cancel, DeadlinePasses
<1>14. ASSUME NEW i \in DOMAIN approvals, NEW s \in Decisions, Decide(i, s)
       PROVE  ParsedFinishIsValid'
  BY <1>14 DEF Decide
<1> QED
  BY <1>1, <1>2, <1>3, <1>4, <1>5, <1>6, <1>7, <1>8, <1>9, <1>10, <1>11, <1>12, <1>13, <1>14
     DEF Next, Act

LEMMA InitV ==
  ASSUME Init
  PROVE  ParsedFinishIsValid
  BY DEF Init, ParsedFinishIsValid

\* A parsed finish completes a run with a contract only with an output to the schema, and
\* repairs never outnumber turns, for every number of repairs and turns.
THEOREM ParsedFinishesAreValid == Spec => []ParsedFinishIsValid
<1>1. Init => TInv /\ ParsedFinishIsValid
  BY InitT, InitV
<1>2. TInv /\ ParsedFinishIsValid /\ [Next]_vars => (TInv /\ ParsedFinishIsValid)'
  BY StepT, StepV
<1> QED
  BY <1>1, <1>2, PTL DEF Spec
-----------------------------------------------------------------------------
(* The journal has the calls.                                               *)

Notes == [tool : Tools, outcome : Outcomes, via : Forms]
Starts == [tool : Tools, via : Forms, turn : 1..MaxIterations]

\* The call that is made now, as the journal will have it if it gives x.
NoteOf(x) == [tool |-> Head(left), outcome |-> x, via |-> reply.form]

LEMMA NoteOfType ==
  ASSUME TInv, pc \in {"calling", "running"}, NEW x \in Outcomes
  PROVE  /\ NoteOf(x) \in Notes
         /\ NoteOf(x).tool = Head(left)
         /\ NoteOf(x).outcome = x
         /\ NoteOf(x).via = reply.form
<1>1. Head(left) \in Tools
  BY DEF TInv, TypeOK, Placed
<1>2. reply.form \in Forms
  BY ReplyType DEF TInv
<1> QED
  BY <1>1, <1>2 DEF NoteOf, Notes

\* Ran and Parsed are lists of notes; a call that gives x adds to each of them or not.
LEMMA NotesType ==
  ASSUME TypeOK
  PROVE  /\ Ran \in Seq(Notes) /\ \A i \in DOMAIN Ran : Ran[i].outcome \in Results
         /\ Parsed \in Seq(Notes) /\ \A i \in DOMAIN Parsed : Parsed[i].via = "action"
<1> DEFINE results == [tool : Tools, outcome : Results, via : Forms]
           actions == [tool : Tools, outcome : Outcomes, via : {"action"}]
<1>1. noted \in Seq(Notes)
  BY DEF TypeOK, Notes
<1> HIDE DEF results, actions
<1>2. Filtered(noted, results) \in Seq(Notes \cap results)
  BY <1>1, FilteredType
<1>3. Filtered(noted, actions) \in Seq(Notes \cap actions)
  BY <1>1, FilteredType
<1>4. \A i \in DOMAIN Filtered(noted, results) : Filtered(noted, results)[i] \in results
  BY <1>2
<1>5. \A i \in DOMAIN Filtered(noted, actions) : Filtered(noted, actions)[i] \in actions
  BY <1>3
<1>6. \A r \in results : r.outcome \in Results
  BY DEF results
<1>7. \A r \in actions : r.via = "action"
  BY DEF actions
<1>8. Ran = Filtered(noted, results) /\ Parsed = Filtered(noted, actions)
  BY DEF Ran, Parsed, results, actions
<1>9. Filtered(noted, results) \in Seq(Notes) /\ Filtered(noted, actions) \in Seq(Notes)
  BY <1>2, <1>3
<1> QED
  BY <1>4, <1>5, <1>6, <1>7, <1>8, <1>9

LEMMA NotesGrow ==
  ASSUME TInv, pc \in {"calling", "running"}, NEW x \in Outcomes, AfterCall(Head(left), x)
  PROVE  /\ Ran' = IF x \in Results THEN Append(Ran, NoteOf(x)) ELSE Ran
         /\ Parsed' = IF reply.form = "action" THEN Append(Parsed, NoteOf(x)) ELSE Parsed
<1> DEFINE results == [tool : Tools, outcome : Results, via : Forms]
           actions == [tool : Tools, outcome : Outcomes, via : {"action"}]
<1>1. noted \in Seq(Notes)
  BY DEF TInv, TypeOK, Notes
<1>2. noted' = Append(noted, NoteOf(x))
  BY DEF AfterCall, Note, NoteOf
<1>3. NoteOf(x) \in Notes
  BY NoteOfType
<1>4. NoteOf(x) \in results <=> x \in Results
  BY NoteOfType DEF Notes
<1>5. NoteOf(x) \in actions <=> reply.form = "action"
  BY NoteOfType DEF Notes
<1> HIDE DEF results, actions
<1>6. Filtered(noted', results)
        = IF x \in Results THEN Append(Filtered(noted, results), NoteOf(x)) ELSE Filtered(noted, results)
  BY <1>1, <1>2, <1>3, <1>4, FilteredAppend
<1>7. Filtered(noted', actions)
        = IF reply.form = "action" THEN Append(Filtered(noted, actions), NoteOf(x))
          ELSE Filtered(noted, actions)
  BY <1>1, <1>2, <1>3, <1>5, FilteredAppend
<1>8. Ran' = Filtered(noted', results) /\ Parsed' = Filtered(noted', actions)
  BY DEF Ran, Parsed, results, actions
<1> QED
  BY <1>6, <1>7, <1>8 DEF Ran, Parsed, results, actions

\* The tools that ran are the tools that were started, one by one; one that is running is
\* the last that was started, and is the call that is made now.
RanInOrder == \A i \in DOMAIN Ran : Ran[i].tool = started[i].tool /\ Ran[i].via = started[i].via
RunningIsLast ==
  pc = "running" =>
    /\ Len(started) = Len(Ran) + 1
    /\ started[Len(started)].tool = Head(left)
    /\ started[Len(started)].via = reply.form

RecInv ==
  /\ Len(started) \in {Len(Ran), Len(Ran) + 1}
  /\ RanInOrder
  /\ RunningIsLast
  /\ Busy /\ pc # "running" => Len(started) = Len(Ran)
  /\ Len(started) # Len(Ran) => pc = "running" \/ status = "timeout" \/ broke

LEMMA LengthsType ==
  ASSUME TypeOK
  PROVE  /\ Len(Ran) \in Nat /\ DOMAIN Ran = 1..Len(Ran)
         /\ Len(started) \in Nat /\ DOMAIN started = 1..Len(started)
         /\ Len(Parsed) \in Nat /\ DOMAIN Parsed = 1..Len(Parsed)
<1>1. started \in Seq(Starts)
  BY DEF TypeOK, Starts
<1> QED
  BY <1>1, NotesType

\* Steps that note nothing and start nothing: of a loop that is in no tool,
LEMMA LoopRec ==
  ASSUME TInv, RecInv, UNCHANGED <<noted, started>>, Busy, pc # "running", pc' # "running"
  PROVE  RecInv'
<1>1. Ran' = Ran
  BY DEF Ran
<1> QED
  BY <1>1, LengthsType DEF RecInv, RanInOrder, RunningIsLast, TInv

\* that end the run,
LEMMA EndRec ==
  ASSUME TInv, RecInv, UNCHANGED <<noted, started>>, ~Busy',
         \/ broke' \/ status' = "timeout"
         \/ pc # "running" /\ UNCHANGED <<status, broke>>
  PROVE  RecInv'
<1>1. Ran' = Ran
  BY DEF Ran
<1> QED
  BY <1>1 DEF RecInv, RanInOrder, RunningIsLast, Busy

\* and that happen beside it.
LEMMA BesideRec ==
  ASSUME TInv, RecInv, UNCHANGED <<noted, started, pc, left, reply, status, broke>>
  PROVE  RecInv'
<1>1. Ran' = Ran
  BY DEF Ran
<1> QED
  BY <1>1 DEF RecInv, RanInOrder, RunningIsLast, Busy

\* What the policy refuses is noted and did not run; what a tool gave back is noted as the
\* result of the last tool that was started.
LEMMA AfterCallRec ==
  ASSUME TInv, RecInv, pc \in {"calling", "running"}, NEW x \in Outcomes, AfterCall(Head(left), x),
         pc = "running" <=> x \in Results
  PROVE  RecInv'
<1> DEFINE r == Ran
           k == Len(started)
           new == NoteOf(x)
<1>1. started' = started /\ pc' # "running"
  BY DEF AfterCall, past, Ends, NextTurn
<1>2. r \in Seq(Notes) /\ k \in Nat /\ Len(r) \in Nat /\ DOMAIN r = 1..Len(r)
  BY LengthsType, NotesType DEF TInv
<1>3. CASE x \in Results
  <2>1. Ran' = Append(r, new)
    BY <1>3, NotesGrow
  <2>2. /\ k = Len(r) + 1
        /\ started[k].tool = new.tool
        /\ started[k].via = new.via
    BY <1>3, NoteOfType DEF RecInv, RunningIsLast
  <2>3. \A i \in 1..Len(r) : r[i].tool = started[i].tool /\ r[i].via = started[i].via
    BY <1>2 DEF RecInv, RanInOrder
  <2> HIDE DEF r, k, new
  <2>4. /\ Len(Ran') = k
        /\ DOMAIN Ran' = 1..k
        /\ Ran'[k] = new
        /\ \A i \in 1..Len(r) : Ran'[i] = r[i]
    BY <1>2, <2>1, <2>2
  <2>5. \A i \in 1..k : Ran'[i].tool = started[i].tool /\ Ran'[i].via = started[i].via
    <3> SUFFICES ASSUME NEW i \in 1..k
                 PROVE  Ran'[i].tool = started[i].tool /\ Ran'[i].via = started[i].via
      OBVIOUS
    <3>1. CASE i = k
      BY <2>2, <2>4, <3>1
    <3>2. CASE i \in 1..Len(r)
      BY <2>3, <2>4, <3>2
    <3> QED
      BY <1>2, <2>2, <3>1, <3>2
  <2> QED
    BY <1>1, <1>2, <2>4, <2>5 DEF RecInv, RanInOrder, RunningIsLast, k
<1>4. CASE x \notin Results
  <2>1. Ran' = r /\ pc = "calling"
    BY <1>4, NotesGrow
  <2> QED
    BY <1>1, <1>2, <2>1 DEF RecInv, RanInOrder, RunningIsLast, Busy
<1> QED
  BY <1>3, <1>4

LEMMA StepRec ==
  ASSUME TInv, RecInv, [Next]_vars
  PROVE  RecInv'
<1> USE DEF loop, past, Ends
<1>1. CASE UNCHANGED vars
  BY <1>1, BesideRec DEF vars
<1>2. CASE Return \/ Raise \/ TimeOut
  BY <1>2, EndRec DEF Return, Raise, TimeOut, Busy
<1>3. CASE OutOfTurns \/ StartTurn \/ Cancelled
  BY <1>3, LoopRec DEF OutOfTurns, StartTurn, Cancelled, Busy
<1>4. ASSUME NEW r \in Replies, Answer(r)
      PROVE  RecInv'
  BY <1>4, LoopRec DEF Answer, Busy
<1>5. CASE Unusable \/ FinishCall \/ TakeCalls \/ FinishAction \/ RepairOutput \/ FailOutput
  BY <1>5, LoopRec
     DEF Unusable, FinishCall, TakeCalls, FinishAction, RepairOutput, FailOutput, NextTurn, Wants, Busy
<1>6. ASSUME NEW n \in Tools \cup {Finish}, RefuseAction(n) \/ RejectAction(n) \/ TakeAction(n)
      PROVE  RecInv'
  BY <1>6, LoopRec DEF RefuseAction, RejectAction, TakeAction, NextTurn, Wants, Busy
<1>7. CASE StartTool
  <2> DEFINE new == [tool |-> Head(left), via |-> reply.form, turn |-> index + 1]
             k == Len(started)
  <2>1. new.tool = Head(left) /\ new.via = reply.form
    OBVIOUS
  <2>2. started' = Append(started, new) /\ pc' = "running" /\ pc = "calling"
        /\ UNCHANGED <<noted, left, reply, status, broke>>
    BY <1>7 DEF StartTool
  <2>3. started \in Seq(Starts)
    BY DEF TInv, TypeOK, Starts
  <2>4. Ran' = Ran
    BY <2>2 DEF Ran
  <2>5. Len(Ran) \in Nat /\ DOMAIN Ran = 1..Len(Ran) /\ k \in Nat /\ k = Len(Ran)
    BY <2>2, LengthsType DEF RecInv, Busy, TInv
  <2> HIDE DEF new, k
  <2>6. /\ Len(started') = k + 1
        /\ started'[k + 1] = new
        /\ \A i \in 1..k : started'[i] = started[i]
    BY <2>2, <2>3 DEF k
  <2> QED
    BY <2>1, <2>2, <2>4, <2>5, <2>6 DEF RecInv, RanInOrder, RunningIsLast, Busy
<1>8. CASE RefuseTool
  <2>1. Verdict[<<"tool", Head(left)>>] \in Refusals
    <3>1. Head(left) \in Tools
      BY <1>8 DEF TInv, TypeOK, Placed, RefuseTool
    <3>2. <<"tool", Head(left)>> \in Subjects
      BY <3>1 DEF Subjects
    <3> QED
      BY <1>8, <3>2, ReActAssumption DEF RefuseTool, Passes
  <2>2. Verdict[<<"tool", Head(left)>>] \in Outcomes \ Results
    BY <2>1, ReActAssumption DEF Outcomes
  <2> QED
    BY <1>8, <2>2, AfterCallRec DEF RefuseTool
<1>9. ASSUME NEW x \in Results, ToolReturns(x)
      PROVE  RecInv'
  BY <1>9, AfterCallRec DEF ToolReturns, Outcomes
<1>10. ASSUME NEW ids \in SUBSET Decided, NEW asked \in BOOLEAN, Start(ids, asked)
       PROVE  RecInv'
  <2>1. noted' = << >> /\ started' = << >> /\ pc' = "top"
    BY <1>10 DEF Start
  <2>2. Ran' = << >>
    BY <2>1, FilteredEmpty DEF Ran
  <2> QED
    BY <2>1, <2>2 DEF RecInv, RanInOrder, RunningIsLast
<1>11. CASE Cancel \/ DeadlinePasses
  BY <1>11, BesideRec DEF Cancel, DeadlinePasses
<1>12. ASSUME NEW i \in DOMAIN approvals, NEW s \in Decisions, Decide(i, s)
       PROVE  RecInv'
  BY <1>12, BesideRec DEF Decide
<1> QED
  BY <1>1, <1>2, <1>3, <1>4, <1>5, <1>6, <1>7, <1>8, <1>9, <1>10, <1>11, <1>12 DEF Next, Act

LEMMA InitRec ==
  ASSUME Init
  PROVE  RecInv
<1>1. Ran = << >>
  BY FilteredEmpty DEF Init, Ran
<1> QED
  BY <1>1 DEF Init, RecInv, RanInOrder, RunningIsLast, Busy

\* The journal has the tools that were started, in their order, but for one at most that
\* still runs or was cut off, for every policy and however calls and refusals alternate.
THEOREM CallsAreRecorded == Spec => []RecordedCalls
<1>1. Init => TInv /\ RecInv
  BY InitT, InitRec
<1>2. TInv /\ RecInv /\ [Next]_vars => (TInv /\ RecInv)'
  BY StepT, StepRec
<1>3. RecInv => RecordedCalls
  BY DEF RecInv, RanInOrder, RecordedCalls
<1> QED
  BY <1>1, <1>2, <1>3, PTL DEF Spec

-----------------------------------------------------------------------------
(* The loop guard sees repetition.                                          *)

\* The last result of a parsed action, and how many of them were the same.
Trailing(p, count) ==
  /\ count <= Len(p)
  /\ p # << >> => count >= 1
  /\ \A k \in (Len(p) - count + 1)..Len(p) : p[k] = p[Len(p)]
  /\ count < Len(p) => p[Len(p) - count] # p[Len(p)]

GuardInv ==
  /\ Trailing(Parsed, guard.count)
  /\ Parsed # << >> => guard.print = <<Parsed[Len(Parsed)].tool, Parsed[Len(Parsed)].outcome>>
  /\ status = "stalled" <=> guard.count >= StallLimit
  /\ \A i \in 1..(Len(Parsed) - 1) : ~Repeated(i)

\* One result more of a parsed action: the guard counts on, or from one.
LEMMA TrailingGrows ==
  ASSUME NEW p \in Seq(Notes), NEW count \in Nat, Trailing(p, count), NEW x \in Notes,
         NEW next, next = IF p # << >> /\ p[Len(p)] = x THEN count + 1 ELSE 1
  PROVE  Trailing(Append(p, x), next)
<1> DEFINE q == Append(p, x)
           n == Len(p)
<1>1. n \in Nat /\ Len(q) = n + 1 /\ q[n + 1] = x /\ \A k \in 1..n : q[k] = p[k]
  OBVIOUS
<1>2. p # << >> <=> n > 0
  OBVIOUS
<1> HIDE DEF q, n
<1>3. CASE n > 0 /\ p[n] = x
  <2>1. next = count + 1 /\ count >= 1 /\ count <= n
    BY <1>2, <1>3 DEF Trailing, n
  <2>2. \A k \in (n - count + 1)..n : p[k] = x
    BY <1>3 DEF Trailing, n
  <2>3. \A k \in (n + 1 - next + 1)..(n + 1) : q[k] = x
    <3> SUFFICES ASSUME NEW k \in (n + 1 - next + 1)..(n + 1) PROVE q[k] = x
      OBVIOUS
    <3>1. k \in (n - count + 1)..n \/ k = n + 1
      BY <1>1, <2>1
    <3>2. k \in (n - count + 1)..n => k \in 1..n
      BY <1>1, <2>1
    <3> QED
      BY <1>1, <2>2, <3>1, <3>2
  <2>4. next < n + 1 => q[n + 1 - next] # x
    <3> SUFFICES ASSUME next < n + 1 PROVE q[n + 1 - next] # x
      OBVIOUS
    <3>1. count < n /\ n + 1 - next = n - count /\ n - count \in 1..n
      BY <1>1, <2>1
    <3>2. p[n - count] # p[n]
      BY <3>1 DEF Trailing, n
    <3> QED
      BY <1>1, <1>3, <3>1, <3>2
  <2>5. next <= n + 1 /\ next >= 1
    BY <1>1, <2>1
  <2> QED
    BY <1>1, <2>3, <2>4, <2>5 DEF Trailing, q
<1>4. CASE ~(n > 0 /\ p[n] = x)
  <2>1. next = 1
    BY <1>2, <1>4 DEF n
  <2>2. next < n + 1 => q[n + 1 - next] # x
    BY <1>1, <1>4, <2>1
  <2>3. \A k \in (n + 1 - next + 1)..(n + 1) : q[k] = x
    BY <1>1, <2>1
  <2>4. next <= n + 1 /\ next >= 1
    BY <1>1, <2>1
  <2> QED
    BY <1>1, <2>2, <2>3, <2>4 DEF Trailing, q
<1> QED
  BY <1>3, <1>4

\* A list whose trailing results were fewer than the limit ends in no repetition.
LEMMA NotRepeatedYet ==
  ASSUME TypeOK, GuardInv, guard.count < StallLimit, Parsed # << >>
  PROVE  ~Repeated(Len(Parsed))
<1> DEFINE n == Len(Parsed)
<1>1. n \in Nat /\ guard.count \in Nat /\ StallLimit \in Nat /\ guard.count <= n
  BY LengthsType, ReActAssumption DEF TypeOK, GuardInv, Trailing
<1> SUFFICES ASSUME Repeated(n) PROVE FALSE
  OBVIOUS
<1>2. n >= StallLimit /\ \A k \in (n - StallLimit + 1)..n : Parsed[k] = Parsed[n]
  BY DEF Repeated
<1> HIDE DEF n
<1>3. guard.count < n /\ n - guard.count \in (n - StallLimit + 1)..n
  BY <1>1, <1>2
<1>4. Parsed[n - guard.count] # Parsed[n]
  BY <1>3 DEF GuardInv, Trailing, n
<1> QED
  BY <1>2, <1>3, <1>4

LEMMA GuardIsRight ==
  ASSUME TypeOK, GuardInv
  PROVE  StallsOnRepetition
<1> DEFINE n == Len(Parsed)
<1>1. n \in Nat /\ DOMAIN Parsed = 1..n /\ guard.count \in Nat /\ StallLimit \in Nat \ {0}
  BY LengthsType, ReActAssumption DEF TypeOK
<1>2. ASSUME status = "stalled"
      PROVE  Repeated(n)
  <2>1. guard.count >= StallLimit
    BY <1>2 DEF GuardInv
  <2>2. guard.count <= n /\ \A k \in (n - guard.count + 1)..n : Parsed[k] = Parsed[n]
    BY DEF GuardInv, Trailing
  <2> HIDE DEF n
  <2>3. n >= StallLimit /\ \A k \in (n - StallLimit + 1)..n : Parsed[k] = Parsed[n]
    BY <1>1, <2>1, <2>2
  <2> QED
    BY <2>3 DEF Repeated
<1>3. ASSUME NEW i \in DOMAIN Parsed, Repeated(i)
      PROVE  i = n /\ status = "stalled"
  <2>1. i = n
    BY <1>1, <1>3 DEF GuardInv
  <2>2. Parsed # << >>
    OBVIOUS
  <2>3. ~(guard.count < StallLimit)
    BY <1>3, <2>1, <2>2, NotRepeatedYet
  <2> QED
    BY <1>1, <2>1, <2>3 DEF GuardInv
<1> QED
  BY <1>2, <1>3 DEF StallsOnRepetition

\* A step that notes nothing and leaves the guard alone.
LEMMA QuietGuard ==
  ASSUME GuardInv, UNCHANGED <<noted, guard>>, status' = "stalled" <=> status = "stalled"
  PROVE  GuardInv'
<1>1. Parsed' = Parsed
  BY DEF Parsed
<1>2. \A i : Repeated(i)' <=> Repeated(i)
  BY <1>1 DEF Repeated
<1> QED
  BY <1>1, <1>2 DEF GuardInv, Trailing

LEMMA AfterCallGuard ==
  ASSUME TInv, GuardInv, pc \in {"calling", "running"}, NEW x \in Outcomes, AfterCall(Head(left), x)
  PROVE  GuardInv'
<1>1. CASE reply.form # "action"
  <2>1. Parsed' = Parsed /\ guard' = guard /\ status' = status
    <3>1. Parsed' = Parsed
      BY <1>1, NotesGrow
    <3>2. guard' = guard
      BY <1>1 DEF AfterCall
    <3>3. status' = status
      BY <1>1 DEF AfterCall
    <3> QED
      BY <3>1, <3>2, <3>3
  <2>2. \A i : Repeated(i)' <=> Repeated(i)
    BY <2>1 DEF Repeated
  <2> QED
    BY <2>1, <2>2 DEF GuardInv, Trailing
<1>2. CASE reply.form = "action"
  <2> DEFINE p == Parsed
             n == Len(p)
             new == NoteOf(x)
  <2>1. p \in Seq(Notes) /\ (\A i \in DOMAIN p : p[i].via = "action") /\ n \in Nat
    BY NotesType, LengthsType DEF TInv
  <2>2. new \in Notes /\ new.via = "action" /\ new.tool = Head(left) /\ new.outcome = x
    BY <1>2, NoteOfType
  <2>3. Parsed' = Append(p, new)
    BY <1>2, NotesGrow
  <2>4. guard' = Observed(Head(left), x)
    BY <1>2 DEF AfterCall
  <2>5. guard'.print = <<new.tool, new.outcome>>
        /\ guard'.count = IF guard.print = <<new.tool, new.outcome>> THEN guard.count + 1 ELSE 1
    BY <2>2, <2>4 DEF Observed
  <2>6. guard.count \in Nat /\ StallLimit \in Nat /\ guard.count < StallLimit /\ status = "running"
    BY ReActAssumption DEF TInv, TypeOK, Placed, Busy
  <2>7. guard'.count = IF p # << >> /\ p[n] = new THEN guard.count + 1 ELSE 1
    <3>1. CASE p = << >>
      <4>1. guard.count = 0
        BY <2>6, <3>1, EmptySequence DEF GuardInv, Trailing
      <4> QED
        BY <2>5, <3>1, <4>1
    <3>2. CASE p # << >>
      <4>1. p[n] \in Notes /\ p[n].via = "action"
        BY <2>1, <3>2
      <4>2. p[n] = new <=> p[n].tool = new.tool /\ p[n].outcome = new.outcome
        BY <2>2, <4>1 DEF Notes
      <4>3. guard.print = <<p[n].tool, p[n].outcome>>
        BY <3>2 DEF GuardInv
      <4> QED
        BY <2>5, <3>2, <4>2, <4>3
    <3> QED
      BY <3>1, <3>2
  <2>8. Trailing(p, guard.count)
    BY DEF GuardInv
  <2> HIDE DEF p, new
  <2>9. Trailing(Append(p, new), guard'.count)
    BY <2>1, <2>2, <2>6, <2>7, <2>8, TrailingGrows
  <2>10. /\ Len(Parsed') = n + 1
         /\ Parsed'[n + 1] = new
         /\ Parsed' # << >>
         /\ \A i \in 1..n : Parsed'[i] = p[i]
    BY <2>1, <2>2, <2>3
  <2>11. status' = "stalled" <=> guard'.count >= StallLimit
    BY <1>2, <2>6 DEF AfterCall, Ends, Stalled
  <2>12. \A i \in 1..n : ~Repeated(i)'
    <3> SUFFICES ASSUME NEW i \in 1..n PROVE ~Repeated(i)'
      OBVIOUS
    <3>1. ~Repeated(i)
      <4>1. CASE i = n
        <5>1. Parsed # << >>
          BY <2>1, EmptySequence DEF p
        <5> QED
          BY <2>6, <4>1, <5>1, NotRepeatedYet DEF TInv, p
      <4>2. CASE i \in 1..(n - 1)
        BY <4>2 DEF GuardInv, p
      <4> QED
        BY <2>1, <4>1, <4>2
    <3>2. ASSUME i >= StallLimit
          PROVE  \A k \in (i - StallLimit + 1)..i : k \in 1..n
      BY <2>1, <2>6, <3>2
    <3> QED
      BY <2>10, <3>1, <3>2 DEF Repeated, p
  <2> QED
    BY <2>1, <2>3, <2>5, <2>9, <2>10, <2>11, <2>12 DEF GuardInv
<1> QED
  BY <1>1, <1>2

LEMMA StepGuard ==
  ASSUME TInv, GuardInv, [Next]_vars
  PROVE  GuardInv'
<1> USE DEF loop, past, Ends
<1>s. Busy => status = "running"
  BY DEF TInv, Placed
<1>1. CASE UNCHANGED vars
  BY <1>1, QuietGuard DEF vars
<1>2. CASE Return \/ Raise \/ FailOutput
  BY <1>2, QuietGuard DEF Return, Raise, FailOutput
<1>3. CASE TimeOut \/ OutOfTurns \/ StartTurn \/ Cancelled
  BY <1>3, <1>s, QuietGuard DEF TimeOut, OutOfTurns, StartTurn, Cancelled, Busy
<1>4. ASSUME NEW r \in Replies, Answer(r)
      PROVE  GuardInv'
  BY <1>4, QuietGuard DEF Answer
<1>5. CASE Unusable \/ FinishCall \/ TakeCalls \/ FinishAction \/ RepairOutput
  BY <1>5, <1>s, QuietGuard
     DEF Unusable, FinishCall, TakeCalls, FinishAction, RepairOutput, NextTurn, Wants, Busy
<1>6. ASSUME NEW n \in Tools \cup {Finish}, RefuseAction(n)
      PROVE  GuardInv'
  <2>1. Verdict[<<"action", n>>] # "stalled"
    BY ReActAssumption DEF Subjects, Refusals
  <2> QED
    BY <1>6, <1>s, <2>1, QuietGuard DEF RefuseAction, Wants, Busy
<1>7. ASSUME NEW n \in Tools \cup {Finish}, RejectAction(n) \/ TakeAction(n)
      PROVE  GuardInv'
  BY <1>7, QuietGuard DEF RejectAction, TakeAction, NextTurn
<1>8. CASE StartTool
  BY <1>8, QuietGuard DEF StartTool
<1>9. CASE RefuseTool
  <2>1. <<"tool", Head(left)>> \in Subjects
    BY <1>9 DEF RefuseTool, Subjects, TInv, TypeOK, Placed
  <2>2. Verdict[<<"tool", Head(left)>>] \in Outcomes
    BY <1>9, <2>1, ReActAssumption DEF RefuseTool, Passes, Outcomes
  <2> QED
    BY <1>9, <2>2, AfterCallGuard DEF RefuseTool
<1>10. ASSUME NEW x \in Results, ToolReturns(x)
       PROVE  GuardInv'
  BY <1>10, AfterCallGuard DEF ToolReturns, Outcomes
<1>11. ASSUME NEW ids \in SUBSET Decided, NEW asked \in BOOLEAN, Start(ids, asked)
       PROVE  GuardInv'
  <2>1. noted' = << >> /\ guard' = Quiet /\ status' = "running"
    BY <1>11 DEF Start
  <2>2. Parsed' = << >>
    BY <2>1, FilteredEmpty DEF Parsed
  <2>3. guard'.count = 0
    BY <2>1 DEF Quiet
  <2> QED
    BY <2>1, <2>2, <2>3, ReActAssumption DEF GuardInv, Trailing
<1>12. CASE Cancel \/ DeadlinePasses
  BY <1>12, QuietGuard DEF Cancel, DeadlinePasses
<1>13. ASSUME NEW i \in DOMAIN approvals, NEW s \in Decisions, Decide(i, s)
       PROVE  GuardInv'
  BY <1>13, QuietGuard DEF Decide
<1> QED
  BY <1>1, <1>2, <1>3, <1>4, <1>5, <1>6, <1>7, <1>8, <1>9, <1>10, <1>11, <1>12, <1>13 DEF Next, Act

LEMMA InitGuard ==
  ASSUME Init
  PROVE  GuardInv
<1>1. Parsed = << >> /\ status = "absent"
  BY FilteredEmpty DEF Init, Parsed
<1>2. guard.count = 0
  BY DEF Init, Quiet
<1> QED
  BY <1>1, <1>2, ReActAssumption DEF GuardInv, Trailing

\* The run stalls at the first repetition of StallLimit results of parsed actions, and at
\* nothing else, for every limit and every mixture of calls, refusals and answers.
THEOREM RepetitionStalls == Spec => []StallsOnRepetition
<1>1. Init => TInv /\ GuardInv
  BY InitT, InitGuard
<1>2. TInv /\ GuardInv /\ [Next]_vars => (TInv /\ GuardInv)'
  BY StepT, StepGuard
<1>3. TInv /\ GuardInv => StallsOnRepetition
  BY GuardIsRight DEF TInv
<1> QED
  BY <1>1, <1>2, <1>3, PTL DEF Spec



-----------------------------------------------------------------------------
(* Types of TurnRefresh.                                                    *)

Queries == Topics \cup {TaskQuery, Nothing}
States == [topics : Topics \cup {Nothing}, changed : BOOLEAN, shift : Shifts,
           trigger : Triggers \cup {""}]
Evaluations == [trigger : Triggers, previous : States, epoch : Nat]
Recalls == [query : Queries, started : Nat, hits : 0 .. 1, done : BOOLEAN]

PerceptionType ==
  [state : States, epoch : Nat, unchanged : Nat, interval : Nat,
   refresh : Topics \cup {Nothing}, observation : Topics \cup {Nothing}, updated : BOOLEAN,
   running : Seq(Evaluations)]

TurnTypeOK ==
  /\ perception \in PerceptionType
  /\ spawned \in Seq(Triggers)
  /\ recall \in [pending : Recalls, last : Recalls, disabled : Nat, asked : Queries]
  /\ turn \in [number : Nat, at : {"tools", "perceiving", "waiting", "model"},
               used : Recalls, query : Queries]

-----------------------------------------------------------------------------
(* The strengthening of DisabledIsForgotten: what a turn could still use is *)
(* newer than the last turn that was told not to recall.                    *)

Newer(r) == r # NoRecall => r.started > recall.disabled

RecallsAreNewer ==
  /\ Newer(recall.pending)
  /\ Newer(recall.last)
  /\ Newer(turn.used)
  /\ recall.disabled <= turn.number
  /\ turn.at = "waiting" => recall.disabled < turn.number
  /\ turn.at # "model" => turn.used = NoRecall

(* The lock lets one evaluation run at a time.                              *)
OneEvaluation == Len(perception.running) <= 1

IInv ==
  /\ TurnTypeOK
  /\ OneEvaluation
  /\ EvaluatesCurrentState
  /\ RefreshReachesNextTurn
  /\ BackoffNeedsSilence
  /\ RecallsAreNewer

LEMMA LessOfTwo ==
  ASSUME NEW a \in Nat, NEW b \in Nat
  PROVE  Min({a, b}) = IF a <= b THEN a ELSE b
  BY DEF Min

LEMMA Constants ==
  /\ MinInterval \in Nat /\ MaxInterval \in Nat /\ MinInterval <= MaxInterval /\ 0 < MinInterval
  BY TurnAssumption DEF TurnAssumption

LEMMA InitIInv == TurnInit => IInv
<1> SUFFICES ASSUME TurnInit PROVE IInv  OBVIOUS
<1> USE Constants
<1>n. NoRecall \in Recalls  BY DEF NoRecall, Recalls, Queries
<1>s. NoState \in States  BY DEF NoState, States, Shifts
<1>1. TurnTypeOK
  <2>1. perception \in PerceptionType  BY <1>s DEF TurnInit, PerceptionType
  <2>2. recall \in [pending : Recalls, last : Recalls, disabled : Nat, asked : Queries]
    BY <1>n DEF TurnInit, Queries
  <2>3. turn \in [number : Nat, at : {"tools", "perceiving", "waiting", "model"},
                  used : Recalls, query : Queries]
    BY <1>n DEF TurnInit, Queries
  <2> QED  BY <2>1, <2>2, <2>3 DEF TurnInit, TurnTypeOK
<1>2. EvaluatesCurrentState
  <2>1. perception.running = << >>  BY DEF TurnInit
  <2> QED  BY <2>1 DEF EvaluatesCurrentState
<1>6. OneEvaluation  BY DEF TurnInit, OneEvaluation
<1>3. RefreshReachesNextTurn  BY DEF TurnInit, RefreshReachesNextTurn
<1>4. BackoffNeedsSilence
  <2>1. perception.interval = MinInterval /\ perception.unchanged = 0  BY DEF TurnInit
  <2> QED  BY <2>1 DEF BackoffNeedsSilence
<1>5. RecallsAreNewer
  <2>1. /\ recall.pending = NoRecall /\ recall.last = NoRecall /\ turn.used = NoRecall
        /\ recall.disabled = 0 /\ turn.number = 0 /\ turn.at = "tools"
    BY DEF TurnInit
  <2> QED  BY <2>1 DEF RecallsAreNewer, Newer
<1> QED  BY <1>1, <1>2, <1>3, <1>4, <1>5, <1>6 DEF IInv

-----------------------------------------------------------------------------
(* Steps of the controller.                                                 *)

\* Everything about an evaluation that is applied: its refresh takes none back, and it
\* backs off only after two in a row without news.
LEMMA AppliedFacts ==
  ASSUME perception \in PerceptionType, BackoffNeedsSilence,
         NEW candidate \in Candidate, NEW trigger \in Triggers
  PROVE  LET applied == Applied(candidate, trigger)
         IN /\ applied \in PerceptionType
            /\ applied.running = perception.running
            /\ applied.refresh =
                 IF ShouldUpdate(candidate, trigger) /\ RefreshesDownstream(candidate, trigger)
                 THEN candidate.topics ELSE perception.refresh
            /\ applied.interval \in MinInterval .. MaxInterval
            /\ applied.unchanged < 2 => applied.interval = MinInterval
            /\ applied.unchanged >= 2 =>
                 applied.interval = Min({MaxInterval, 2 * MinInterval}) \/ applied.unchanged > 2
<1> USE Constants
<1> DEFINE updated == ShouldUpdate(candidate, trigger)
           counted == perception.unchanged + 1
           state == IF updated
                    THEN [topics |-> candidate.topics, changed |-> candidate.changed,
                          shift |-> candidate.shift, trigger |-> trigger]
                    ELSE [perception.state EXCEPT !.trigger = trigger]
           unchanged == IF updated THEN 0 ELSE counted
           interval == IF updated THEN MinInterval ELSE Doubled(counted)
           refresh == IF updated /\ RefreshesDownstream(state, trigger) THEN state.topics
                      ELSE perception.refresh
           applied == Applied(candidate, trigger)
<1>1. /\ perception.state \in States /\ perception.unchanged \in Nat /\ perception.epoch \in Nat
      /\ perception.interval \in Nat /\ perception.refresh \in Topics \cup {Nothing}
  BY DEF PerceptionType
<1>2. applied = [state |-> state, epoch |-> perception.epoch + 1, unchanged |-> unchanged,
                 interval |-> interval, refresh |-> refresh, observation |-> state.topics,
                 updated |-> updated, running |-> perception.running]
  BY DEF Applied
<1>3. state \in States /\ (updated => state.topics = candidate.topics)
  BY <1>1 DEF States, Candidate, Triggers
<1>4. updated => RefreshesDownstream(state, trigger) = RefreshesDownstream(candidate, trigger)
  BY DEF RefreshesDownstream
<1>5. updated \in BOOLEAN  BY DEF ShouldUpdate
<1>6. unchanged \in Nat /\ counted \in Nat  BY <1>1
<1>7. /\ perception.interval \in MinInterval .. MaxInterval
      /\ perception.unchanged < 2 => perception.interval = MinInterval
  BY DEF BackoffNeedsSilence
<1>8. /\ Min({2 * perception.interval, MaxInterval})
           = IF 2 * perception.interval <= MaxInterval THEN 2 * perception.interval ELSE MaxInterval
      /\ Min({MaxInterval, 2 * MinInterval})
           = IF MaxInterval <= 2 * MinInterval THEN MaxInterval ELSE 2 * MinInterval
  <2>1. 2 * perception.interval \in Nat /\ 2 * MinInterval \in Nat  BY <1>1
  <2> QED  BY <2>1, LessOfTwo
<1>9. Doubled(counted) = IF counted >= 2
                         THEN IF 2 * perception.interval <= MaxInterval
                              THEN 2 * perception.interval ELSE MaxInterval
                         ELSE perception.interval
  BY <1>8 DEF Doubled
<1> HIDE DEF state, updated, applied
<1>10. interval \in MinInterval .. MaxInterval  BY <1>1, <1>7, <1>9
<1>11. unchanged < 2 => interval = MinInterval  BY <1>1, <1>7, <1>9
<1>12. unchanged >= 2 => interval = Min({MaxInterval, 2 * MinInterval}) \/ unchanged > 2
  BY <1>1, <1>7, <1>8, <1>9
<1>13. refresh = IF updated /\ RefreshesDownstream(candidate, trigger)
                 THEN candidate.topics ELSE perception.refresh
  BY <1>3, <1>4
<1>14. refresh \in Topics \cup {Nothing} /\ state.topics \in Topics \cup {Nothing}
  BY <1>1, <1>3 DEF States
<1> HIDE DEF unchanged, interval, refresh, counted
<1>15. /\ applied.running = perception.running /\ applied.refresh = refresh
       /\ applied.interval = interval /\ applied.unchanged = unchanged
  BY <1>2 DEF PerceptionType
<1>16. applied \in PerceptionType
  <2>1. interval \in Nat  BY <1>10
  <2>2. perception.running \in Seq(Evaluations)  BY DEF PerceptionType
  <2> QED  BY <1>1, <1>2, <1>3, <1>5, <1>6, <1>14, <2>1, <2>2 DEF PerceptionType
<1> QED  BY <1>10, <1>11, <1>12, <1>13, <1>15, <1>16 DEF updated, applied

LEMMA RemovedOnly ==
  ASSUME NEW s \in Seq(Evaluations), Len(s) <= 1, NEW i \in DOMAIN s
  PROVE  RemoveAt(s, i) = << >>
<1>0. DOMAIN s = 1 .. Len(s) /\ Len(s) \in Nat  OBVIOUS
<1>1. Len(s) = 1 /\ i = 1  BY <1>0
<1> QED  BY <1>1 DEF RemoveAt

LEMMA EvaluationEndsStep ==
  ASSUME IInv, NEW i \in DOMAIN perception.running, NEW candidate \in Candidate,
         EvaluationEnds(i, candidate)
  PROVE  IInv'
<1> USE DEF IInv
<1> DEFINE trigger == perception.running[i].trigger
           applied == Applied(candidate, trigger)
<1>1. perception \in PerceptionType /\ perception.running \in Seq(Evaluations)
  BY DEF TurnTypeOK, PerceptionType
<1>2. perception.running[i] \in Evaluations  BY <1>1
<1>3. trigger \in Triggers  BY <1>2 DEF Evaluations
<1>4. /\ perception' = [applied EXCEPT !.running = RemoveAt(@, i)]
      /\ pivot' = IF ShouldUpdate(candidate, trigger) /\ RefreshesDownstream(candidate, trigger)
                  THEN candidate.topics ELSE pivot
      /\ turn' = [turn EXCEPT !.at = IF @ = "perceiving" THEN "tools" ELSE @]
      /\ UNCHANGED <<spawned, recall, timeline, events>>
  BY DEF EvaluationEnds
<1> HIDE DEF trigger
<1>5. /\ applied \in PerceptionType
      /\ applied.running = perception.running
      /\ applied.refresh =
           IF ShouldUpdate(candidate, trigger) /\ RefreshesDownstream(candidate, trigger)
           THEN candidate.topics ELSE perception.refresh
      /\ applied.interval \in MinInterval .. MaxInterval
      /\ applied.unchanged < 2 => applied.interval = MinInterval
      /\ applied.unchanged >= 2 =>
           applied.interval = Min({MaxInterval, 2 * MinInterval}) \/ applied.unchanged > 2
  BY <1>1, <1>3, AppliedFacts
<1> HIDE DEF applied
<1>6. RemoveAt(applied.running, i) = << >>  BY <1>1, <1>5, RemovedOnly DEF OneEvaluation
<1>7. perception' = [applied EXCEPT !.running = << >>]  BY <1>4, <1>6
<1>8. /\ perception'.running = << >> /\ perception'.refresh = applied.refresh
      /\ perception'.interval = applied.interval /\ perception'.unchanged = applied.unchanged
      /\ perception' \in PerceptionType
  <2>1. << >> \in Seq(Evaluations)  OBVIOUS
  <2>2. perception' \in PerceptionType  BY <1>5, <1>7, <2>1 DEF PerceptionType
  <2> QED  BY <1>5, <1>7, <2>2 DEF PerceptionType
<1>9. /\ turn' \in [number : Nat, at : {"tools", "perceiving", "waiting", "model"},
                    used : Recalls, query : Queries]
      /\ turn'.number = turn.number /\ turn'.used = turn.used
      /\ turn'.at = "waiting" <=> turn.at = "waiting"
      /\ turn'.at = "model" <=> turn.at = "model"
  BY <1>4 DEF TurnTypeOK
<1>10. TurnTypeOK'  BY <1>4, <1>8, <1>9 DEF TurnTypeOK
<1>11. OneEvaluation' /\ EvaluatesCurrentState'
  BY <1>8 DEF OneEvaluation, EvaluatesCurrentState
<1>12. RefreshReachesNextTurn'  BY <1>4, <1>5, <1>8 DEF RefreshReachesNextTurn
<1>13. BackoffNeedsSilence'  BY <1>5, <1>8 DEF BackoffNeedsSilence
<1>14. RecallsAreNewer'  BY <1>4, <1>9 DEF RecallsAreNewer, Newer
<1> QED  BY <1>10, <1>11, <1>12, <1>13, <1>14

\* An event that finds the lock free is evaluated against the state it finds.
LEMMA EvaluatingFacts ==
  ASSUME perception \in PerceptionType, OneEvaluation, EvaluatesCurrentState,
         NEW trigger \in Triggers, perception' = Evaluating(trigger)
  PROVE  /\ perception' \in PerceptionType
         /\ perception'.refresh = perception.refresh
         /\ perception'.interval = perception.interval
         /\ perception'.unchanged = perception.unchanged
         /\ OneEvaluation' /\ EvaluatesCurrentState'
<1> DEFINE evaluation == [trigger |-> trigger, previous |-> perception.state,
                          epoch |-> perception.epoch]
<1>1. perception.state \in States /\ perception.epoch \in Nat
      /\ perception.running \in Seq(Evaluations)
  BY DEF PerceptionType
<1>2. CASE Unlocked
  <2>1. perception.running = << >>  BY <1>2 DEF Unlocked
  <2>2. perception' = [perception EXCEPT !.running = Append(<< >>, evaluation)]
    BY <1>2, <2>1 DEF Evaluating
  <2>3. evaluation \in Evaluations /\ evaluation.previous = perception.state
        /\ evaluation.epoch = perception.epoch
    BY <1>1 DEF Evaluations
  <2> HIDE DEF evaluation
  <2>4. /\ Append(<< >>, evaluation) \in Seq(Evaluations)
        /\ Len(Append(<< >>, evaluation)) = 1
        /\ DOMAIN Append(<< >>, evaluation) = 1 .. 1
        /\ Append(<< >>, evaluation)[1] = evaluation
    BY <2>3
  <2>5. perception' \in PerceptionType  BY <2>2, <2>4 DEF PerceptionType
  <2>6. /\ perception'.running = Append(<< >>, evaluation)
        /\ perception'.state = perception.state /\ perception'.epoch = perception.epoch
        /\ perception'.refresh = perception.refresh
        /\ perception'.interval = perception.interval
        /\ perception'.unchanged = perception.unchanged
    BY <2>2 DEF PerceptionType
  <2>7. OneEvaluation'  BY <2>4, <2>6 DEF OneEvaluation
  <2>8. EvaluatesCurrentState'
    <3> SUFFICES ASSUME NEW i \in DOMAIN perception'.running
                 PROVE  /\ perception'.running[i].previous = perception'.state
                        /\ perception'.running[i].epoch = perception'.epoch
      BY DEF EvaluatesCurrentState
    <3>1. perception'.running[i] = evaluation  BY <2>4, <2>6
    <3> QED  BY <3>1, <2>3, <2>6
  <2> QED  BY <2>5, <2>6, <2>7, <2>8
<1>3. CASE ~Unlocked
  <2>1. perception' = perception  BY <1>3 DEF Evaluating
  <2> QED  BY <2>1 DEF OneEvaluation, EvaluatesCurrentState
<1> QED  BY <1>2, <1>3

\* Consuming the observation, or a refresh with it, touches nothing else.
LEMMA ConsumedFacts ==
  ASSUME perception \in PerceptionType, OneEvaluation, EvaluatesCurrentState,
         NEW refresh \in Topics \cup {Nothing},
         \/ /\ perception' = [perception EXCEPT !.observation = Nothing]
            /\ refresh = perception.refresh
         \/ /\ perception' = [perception EXCEPT !.observation = Nothing, !.refresh = Nothing]
            /\ refresh = Nothing
  PROVE  /\ perception' \in PerceptionType
         /\ perception'.refresh = refresh
         /\ perception'.interval = perception.interval
         /\ perception'.unchanged = perception.unchanged
         /\ OneEvaluation' /\ EvaluatesCurrentState'
<1>1. perception' \in PerceptionType  BY DEF PerceptionType
<1>2. /\ perception'.running = perception.running /\ perception'.state = perception.state
      /\ perception'.epoch = perception.epoch /\ perception'.refresh = refresh
      /\ perception'.interval = perception.interval
      /\ perception'.unchanged = perception.unchanged
  BY DEF PerceptionType
<1> QED  BY <1>1, <1>2 DEF OneEvaluation, EvaluatesCurrentState

\* The part of the invariant a step keeps that leaves the refresh and the back-off.
LEMMA ControllerKept ==
  ASSUME RefreshReachesNextTurn, BackoffNeedsSilence, UNCHANGED pivot,
         perception'.refresh = perception.refresh,
         perception'.interval = perception.interval,
         perception'.unchanged = perception.unchanged
  PROVE  RefreshReachesNextTurn' /\ BackoffNeedsSilence'
  BY DEF RefreshReachesNextTurn, BackoffNeedsSilence

\* A step of the controller moves the loop between its tools and an awaited evaluation.
LEMMA TurnKept ==
  ASSUME RecallsAreNewer, UNCHANGED recall,
         turn \in [number : Nat, at : {"tools", "perceiving", "waiting", "model"},
                   used : Recalls, query : Queries],
         \/ turn' = turn
         \/ turn.at = "tools" /\ turn' = [turn EXCEPT !.at = "perceiving"]
  PROVE  /\ RecallsAreNewer'
         /\ turn' \in [number : Nat, at : {"tools", "perceiving", "waiting", "model"},
                       used : Recalls, query : Queries]
<1>1. CASE turn' = turn  BY <1>1 DEF RecallsAreNewer, Newer
<1>2. CASE turn.at = "tools" /\ turn' = [turn EXCEPT !.at = "perceiving"]
  <2>1. turn'.at = "perceiving" /\ turn'.used = turn.used /\ turn'.number = turn.number
    BY <1>2
  <2> QED  BY <1>2, <2>1 DEF RecallsAreNewer, Newer
<1> QED  BY <1>1, <1>2

LEMMA ToolResultStep ==
  ASSUME IInv, NEW trigger \in Triggers, NEW due \in BOOLEAN, ToolResult(trigger, due)
  PROVE  IInv'
<1> USE DEF IInv
<1>t. /\ perception \in PerceptionType
      /\ turn \in [number : Nat, at : {"tools", "perceiving", "waiting", "model"},
                   used : Recalls, query : Queries]
  BY DEF TurnTypeOK
<1>k. UNCHANGED <<recall, pivot>> /\ turn.at = "tools"  BY DEF ToolResult
<1>1. CASE ~ShouldTrigger(trigger, due)
  <2>1. UNCHANGED <<spawned, turn, perception>>  BY <1>1 DEF ToolResult
  <2> QED
    BY <1>k, <2>1 DEF TurnTypeOK, OneEvaluation, EvaluatesCurrentState, RefreshReachesNextTurn,
                      BackoffNeedsSilence, RecallsAreNewer, Newer
<1>2. CASE ShouldTrigger(trigger, due) /\ Synchronous
  <2>1. /\ perception' = Evaluating(trigger)
        /\ turn' = [turn EXCEPT !.at = IF Unlocked THEN "perceiving" ELSE @]
        /\ UNCHANGED spawned
    BY <1>2 DEF ToolResult
  <2>2. /\ perception' \in PerceptionType
        /\ perception'.refresh = perception.refresh
        /\ perception'.interval = perception.interval
        /\ perception'.unchanged = perception.unchanged
        /\ OneEvaluation' /\ EvaluatesCurrentState'
    BY <1>t, <2>1, EvaluatingFacts
  <2>3. turn' = turn \/ turn' = [turn EXCEPT !.at = "perceiving"]  BY <2>1, <1>t
  <2>4. RecallsAreNewer' /\ turn' \in [number : Nat,
          at : {"tools", "perceiving", "waiting", "model"}, used : Recalls, query : Queries]
    BY <1>t, <1>k, <2>3, TurnKept
  <2>5. RefreshReachesNextTurn' /\ BackoffNeedsSilence'  BY <1>k, <2>2, ControllerKept
  <2>6. TurnTypeOK'  BY <1>k, <2>1, <2>2, <2>4 DEF TurnTypeOK
  <2> QED  BY <2>2, <2>4, <2>5, <2>6
<1>3. CASE ShouldTrigger(trigger, due) /\ ~Synchronous
  <2>1. /\ spawned' = Append(spawned, trigger)
        /\ perception' = [perception EXCEPT !.observation = Nothing]
        /\ turn' = turn
    BY <1>3 DEF ToolResult
  <2>0. perception.refresh \in Topics \cup {Nothing}  BY <1>t DEF PerceptionType
  <2>2. /\ perception' \in PerceptionType
        /\ perception'.refresh = perception.refresh
        /\ perception'.interval = perception.interval
        /\ perception'.unchanged = perception.unchanged
        /\ OneEvaluation' /\ EvaluatesCurrentState'
    BY <1>t, <2>0, <2>1, ConsumedFacts
  <2>3. spawned' \in Seq(Triggers)  BY <2>1 DEF TurnTypeOK
  <2>4. RecallsAreNewer'  BY <1>k, <2>1 DEF RecallsAreNewer, Newer
  <2>5. RefreshReachesNextTurn' /\ BackoffNeedsSilence'  BY <1>k, <2>2, ControllerKept
  <2>6. TurnTypeOK'  BY <1>k, <2>1, <2>2, <2>3 DEF TurnTypeOK
  <2> QED  BY <2>2, <2>4, <2>5, <2>6
<1> QED  BY <1>1, <1>2, <1>3

LEMMA EvaluationBeginsStep ==
  ASSUME IInv, EvaluationBegins
  PROVE  IInv'
<1> USE DEF IInv
<1>1. /\ spawned # << >> /\ spawned' = Tail(spawned)
      /\ perception' = Evaluating(Head(spawned))
      /\ UNCHANGED <<recall, turn, pivot>>
  BY DEF EvaluationBegins
<1>2. Head(spawned) \in Triggers /\ spawned' \in Seq(Triggers)  BY <1>1 DEF TurnTypeOK
<1>3. perception \in PerceptionType  BY DEF TurnTypeOK
<1>4. /\ perception' \in PerceptionType
      /\ perception'.refresh = perception.refresh
      /\ perception'.interval = perception.interval
      /\ perception'.unchanged = perception.unchanged
      /\ OneEvaluation' /\ EvaluatesCurrentState'
  BY <1>1, <1>2, <1>3, EvaluatingFacts
<1>5. RefreshReachesNextTurn' /\ BackoffNeedsSilence'  BY <1>1, <1>4, ControllerKept
<1>6. RecallsAreNewer'  BY <1>1 DEF RecallsAreNewer, Newer
<1>7. TurnTypeOK'  BY <1>1, <1>2, <1>4 DEF TurnTypeOK
<1> QED  BY <1>4, <1>5, <1>6, <1>7

LEMMA EvaluationFailsStep ==
  ASSUME IInv, EvaluationFails
  PROVE  IInv'
<1> USE DEF IInv
<1>1. /\ perception' = [perception EXCEPT !.running = << >>]
      /\ UNCHANGED <<spawned, recall, turn, pivot>>
  BY DEF EvaluationFails
<1>2. perception \in PerceptionType /\ << >> \in Seq(Evaluations)  BY DEF TurnTypeOK
<1>3. perception' \in PerceptionType  BY <1>1, <1>2 DEF PerceptionType
<1>4. /\ perception'.running = << >> /\ perception'.refresh = perception.refresh
      /\ perception'.interval = perception.interval
      /\ perception'.unchanged = perception.unchanged
  BY <1>1, <1>2 DEF PerceptionType
<1>5. OneEvaluation' /\ EvaluatesCurrentState'
  BY <1>4 DEF OneEvaluation, EvaluatesCurrentState
<1>6. RefreshReachesNextTurn' /\ BackoffNeedsSilence'  BY <1>1, <1>4, ControllerKept
<1>7. RecallsAreNewer'  BY <1>1 DEF RecallsAreNewer, Newer
<1>8. TurnTypeOK'  BY <1>1, <1>3 DEF TurnTypeOK
<1> QED  BY <1>5, <1>6, <1>7, <1>8

-----------------------------------------------------------------------------
(* Steps of the turn.                                                       *)

RecallType == [pending : Recalls, last : Recalls, disabled : Nat, asked : Queries]
TurnType == [number : Nat, at : {"tools", "perceiving", "waiting", "model"},
             used : Recalls, query : Queries]

\* A step that leaves the controller alone.
LEMMA OnlyTheTurn ==
  ASSUME IInv, UNCHANGED <<perception, spawned, pivot>>,
         recall' \in RecallType, turn' \in TurnType, RecallsAreNewer'
  PROVE  IInv'
  BY DEF IInv, TurnTypeOK, OneEvaluation, EvaluatesCurrentState, RefreshReachesNextTurn,
         BackoffNeedsSilence, RecallType, TurnType

LEMMA StartedType ==
  ASSUME turn \in TurnType, NEW query \in Queries
  PROVE  /\ Started(query) \in Recalls
         /\ Started(query).started = turn.number + 1
  BY DEF Started, Recalls, TurnType

LEMMA ModelAnswersStep ==
  ASSUME IInv, ModelAnswers
  PROVE  IInv'
<1>1. /\ turn' = [turn EXCEPT !.at = "tools", !.used = NoRecall]
      /\ UNCHANGED <<perception, spawned, recall, pivot>>
  BY DEF ModelAnswers
<1>2. recall \in RecallType /\ turn \in TurnType  BY DEF IInv, TurnTypeOK, RecallType, TurnType
<1>3. NoRecall \in Recalls  BY DEF NoRecall, Recalls, Queries
<1>4. turn' \in TurnType /\ turn'.used = NoRecall /\ turn'.at = "tools"
      /\ turn'.number = turn.number
  BY <1>1, <1>2, <1>3 DEF TurnType
<1>5. RecallsAreNewer'  BY <1>1, <1>4 DEF IInv, RecallsAreNewer, Newer
<1> QED  BY <1>1, <1>2, <1>4, <1>5, OnlyTheTurn

LEMMA RecallEndsStep ==
  ASSUME IInv, NEW hits \in 0 .. 1, RecallEnds(hits)
  PROVE  IInv'
<1>1. /\ recall.pending # NoRecall
      /\ recall' = [recall EXCEPT !.pending.done = TRUE, !.pending.hits = hits]
      /\ UNCHANGED <<perception, spawned, turn, pivot>>
  BY DEF RecallEnds
<1>2. recall \in RecallType /\ turn \in TurnType  BY DEF IInv, TurnTypeOK, RecallType, TurnType
<1>3. recall.pending \in Recalls  BY <1>2 DEF RecallType
<1>4. /\ recall'.pending \in Recalls /\ recall'.pending.started = recall.pending.started
      /\ recall'.last = recall.last /\ recall'.disabled = recall.disabled
      /\ recall' \in RecallType
  BY <1>1, <1>2, <1>3 DEF RecallType, Recalls
<1>5. RecallsAreNewer'  BY <1>1, <1>4 DEF IInv, RecallsAreNewer, Newer
<1> QED  BY <1>1, <1>2, <1>4, <1>5, OnlyTheTurn

LEMMA HarvestedFacts ==
  ASSUME recall \in RecallType
  PROVE  /\ Harvested(recall) \in RecallType
         /\ Harvested(recall).pending = NoRecall
         /\ Harvested(recall).last = recall.pending
         /\ Harvested(recall).disabled = recall.disabled
<1>1. NoRecall \in Recalls  BY DEF NoRecall, Recalls, Queries
<1> QED  BY <1>1 DEF Harvested, RecallType

LEMMA WaitOverStep ==
  ASSUME IInv, NEW keyword \in KeywordAnswers, WaitOver(keyword)
  PROVE  IInv'
<1> DEFINE done == recall.pending.done
           found == IF done THEN recall.pending.hits ELSE 0
           hits == IF keyword = << >> THEN 0 ELSE Head(keyword)
           answer == [Started(turn.query) EXCEPT !.started = turn.number, !.done = TRUE,
                                                 !.hits = hits]
           takesKeyword == keyword # << >> /\ (~done \/ (found = 0 /\ answer.hits > 0))
           used == IF takesKeyword THEN answer ELSE IF done THEN recall.pending ELSE recall.last
<1>1. /\ turn.at = "waiting"
      /\ recall' = IF done THEN Harvested(recall) ELSE recall
      /\ turn' = [turn EXCEPT !.at = "model", !.query = Nothing, !.used = used]
      /\ UNCHANGED <<perception, spawned, pivot>>
  BY DEF WaitOver
<1>2. recall \in RecallType /\ turn \in TurnType  BY DEF IInv, TurnTypeOK, RecallType, TurnType
<1>3. hits \in 0 .. 1
  <2>1. \A x : Head(<<x>>) = x  OBVIOUS
  <2>2. keyword \in {<< >>, <<0>>, <<1>>}  BY DEF KeywordAnswers
  <2>3. CASE keyword = << >>  BY <2>3
  <2>4. CASE keyword = <<0>>  BY <2>1, <2>4
  <2>5. CASE keyword = <<1>>  BY <2>1, <2>5
  <2> QED  BY <2>2, <2>3, <2>4, <2>5
<1> HIDE DEF hits
<1>4. Started(turn.query) \in Recalls  BY <1>2, StartedType DEF TurnType
<1>5. answer \in Recalls /\ answer.started = turn.number
  BY <1>2, <1>3, <1>4 DEF Recalls, TurnType
<1> HIDE DEF answer, takesKeyword
<1>6. used \in Recalls /\ Newer(used)
  <2>1. recall.pending \in Recalls /\ recall.last \in Recalls  BY <1>2 DEF RecallType
  <2>2. Newer(recall.pending) /\ Newer(recall.last) /\ recall.disabled < turn.number
    BY <1>1 DEF IInv, RecallsAreNewer
  <2>3. Newer(answer)  BY <1>5, <2>2, <1>2 DEF Newer, RecallType, TurnType
  <2> QED  BY <1>5, <2>1, <2>2, <2>3
<1> HIDE DEF used, done
<1>7. turn' \in TurnType /\ turn'.at = "model" /\ turn'.used = used /\ turn'.number = turn.number
  <2>1. Nothing \in Queries  BY DEF Queries
  <2> QED  BY <1>1, <1>2, <1>6, <2>1 DEF TurnType
<1>8. recall' \in RecallType /\ recall'.disabled = recall.disabled
      /\ recall'.pending \in {NoRecall, recall.pending}
      /\ recall'.last \in {recall.last, recall.pending}
  BY <1>1, <1>2, HarvestedFacts
<1>9. RecallsAreNewer'
  BY <1>6, <1>7, <1>8 DEF IInv, RecallsAreNewer, Newer
<1> QED  BY <1>1, <1>7, <1>8, <1>9, OnlyTheTurn

LEMMA BeforeModelCallStep ==
  ASSUME IInv, NEW intents, BeforeModelCall(intents)
  PROVE  IInv'
<1> DEFINE query == IF perception.refresh = Nothing THEN TaskQuery ELSE perception.refresh
           next == [turn EXCEPT !.number = @ + 1, !.query = query]
<1>0. /\ perception' = [perception EXCEPT !.observation = Nothing, !.refresh = Nothing]
      /\ pivot' = Nothing /\ spawned' = spawned
      /\ turn.at = "tools"
  BY DEF BeforeModelCall
<1>1. recall \in RecallType /\ turn \in TurnType /\ perception \in PerceptionType
  BY DEF IInv, TurnTypeOK, RecallType, TurnType
<1>2. /\ perception' \in PerceptionType
      /\ perception'.refresh = Nothing
      /\ perception'.interval = perception.interval
      /\ perception'.unchanged = perception.unchanged
      /\ OneEvaluation' /\ EvaluatesCurrentState'
  BY <1>0, <1>1, ConsumedFacts DEF IInv
<1>3. RefreshReachesNextTurn'  BY <1>0, <1>2 DEF RefreshReachesNextTurn
<1>4. BackoffNeedsSilence'  BY <1>2 DEF IInv, BackoffNeedsSilence
<1>5. query \in Queries /\ Nothing \in Queries  BY <1>1 DEF PerceptionType, Queries
<1>n. NoRecall \in Recalls  BY DEF NoRecall, Recalls, Queries
<1> HIDE DEF query
<1>6. next \in TurnType /\ next.number = turn.number + 1 /\ next.used = turn.used
  <2>1. turn.number \in Nat /\ turn.number + 1 \in Nat  BY <1>1 DEF TurnType
  <2>2. next.number = turn.number + 1 /\ next.used = turn.used  BY <1>1 DEF TurnType
  <2>3. next \in TurnType  BY <1>1, <1>5, <2>1 DEF TurnType
  <2> QED  BY <2>2, <2>3
<1> HIDE DEF next
<1>7. turn.used = NoRecall /\ recall.disabled <= turn.number
      /\ Newer(recall.pending) /\ Newer(recall.last)
  BY <1>0 DEF IInv, RecallsAreNewer
<1>8. recall' \in RecallType /\ turn' \in TurnType /\ RecallsAreNewer'
  <2>1. CASE ~IntentEnabled(intents, "memory_recall", TRUE)
    <3>1. recall' = RecallForgotten(recall)
          /\ turn' = [next EXCEPT !.at = "model", !.query = Nothing]
      BY <2>1 DEF BeforeModelCall, next, query
    <3>2. turn' \in TurnType /\ turn'.number = turn.number + 1 /\ turn'.used = NoRecall
          /\ turn'.at = "model"
      BY <1>5, <1>6, <1>7, <3>1 DEF TurnType
    <3>3. recall' \in RecallType /\ recall'.pending = NoRecall /\ recall'.last = NoRecall
          /\ recall'.disabled = turn.number + 1
      <4>1. turn.number + 1 \in Nat  BY <1>1 DEF TurnType
      <4>2. recall' = [recall EXCEPT !.pending = NoRecall, !.last = NoRecall,
                                     !.disabled = turn.number + 1]
        BY <3>1 DEF RecallForgotten
      <4>3. recall' \in RecallType  BY <1>1, <1>n, <4>1, <4>2 DEF RecallType
      <4> QED  BY <1>1, <4>2, <4>3 DEF RecallType
    <3>4. turn'.number \in Nat  BY <3>2 DEF TurnType
    <3> QED  BY <3>2, <3>3, <3>4 DEF RecallsAreNewer, Newer
  <2>2. CASE IntentEnabled(intents, "memory_recall", TRUE) /\ recall.pending.done
    <3>1. recall' = Harvested(recall)
          /\ turn' = [next EXCEPT !.at = "model", !.query = Nothing, !.used = recall.pending]
      BY <2>2 DEF BeforeModelCall, next, query
    <3>2. recall.pending \in Recalls  BY <1>1 DEF RecallType
    <3>3. turn' \in TurnType /\ turn'.number = turn.number + 1 /\ turn'.used = recall.pending
          /\ turn'.at = "model"
      BY <1>5, <1>6, <3>1, <3>2 DEF TurnType
    <3>4. recall' \in RecallType /\ recall'.pending = NoRecall /\ recall'.last = recall.pending
          /\ recall'.disabled = recall.disabled
      BY <1>1, <3>1, HarvestedFacts
    <3>5. recall.disabled \in Nat /\ turn.number \in Nat  BY <1>1 DEF RecallType, TurnType
    <3> QED  BY <1>7, <3>3, <3>4, <3>5 DEF RecallsAreNewer, Newer
  <2>3. CASE IntentEnabled(intents, "memory_recall", TRUE) /\ ~recall.pending.done
    <3>1. /\ recall' = IF recall.pending = NoRecall
                       THEN [recall EXCEPT !.pending = Started(query), !.asked = query]
                       ELSE IF KeywordEnabled THEN [recall EXCEPT !.asked = query] ELSE recall
          /\ turn' = [next EXCEPT !.at = "waiting"]
      BY <2>3 DEF BeforeModelCall, next, query
    <3>2. turn' \in TurnType /\ turn'.number = turn.number + 1 /\ turn'.used = NoRecall
          /\ turn'.at = "waiting"
      BY <1>6, <1>7, <3>1 DEF TurnType
    <3>3. Started(query) \in Recalls /\ Started(query).started = turn.number + 1
      BY <1>1, <1>5, StartedType
    <3>4. recall' \in RecallType /\ recall'.pending \in {Started(query), recall.pending}
          /\ recall'.last = recall.last /\ recall'.disabled = recall.disabled
      BY <1>1, <1>5, <3>1, <3>3 DEF RecallType
    <3>5. recall.disabled \in Nat /\ turn.number \in Nat  BY <1>1 DEF RecallType, TurnType
    <3> QED  BY <1>7, <3>2, <3>3, <3>4, <3>5 DEF RecallsAreNewer, Newer
  <2> QED  BY <2>1, <2>2, <2>3
<1>9. TurnTypeOK'  BY <1>0, <1>2, <1>8 DEF IInv, TurnTypeOK, RecallType, TurnType
<1> QED  BY <1>2, <1>3, <1>4, <1>8, <1>9 DEF IInv

LEMMA Step == IInv /\ [TurnNext]_turnVars => IInv'
<1> SUFFICES ASSUME IInv, [TurnNext]_turnVars PROVE IInv'  OBVIOUS
<1>1. CASE UNCHANGED turnVars
  BY <1>1 DEF turnVars, IInv, TurnTypeOK, OneEvaluation, EvaluatesCurrentState,
              RefreshReachesNextTurn, BackoffNeedsSilence, RecallsAreNewer, Newer
<1>2. CASE TurnNext
  BY <1>2, ToolResultStep, EvaluationBeginsStep, EvaluationEndsStep, EvaluationFailsStep,
     BeforeModelCallStep, RecallEndsStep, WaitOverStep, ModelAnswersStep DEF TurnNext
<1> QED  BY <1>1, <1>2

-----------------------------------------------------------------------------
(* For every set of topics, every interval and every order of tool results, *)
(* evaluations and recalls: an evaluation is applied to the state it was    *)
(* given, a change of intent reaches the next turn, back-off needs silence, *)
(* and a recall that was switched off is forgotten (PerceptionController of *)
(* turn_runtime.py, _fast_memory_recall of runner.py).                      *)
THEOREM RefreshesAreCurrent == TurnSpec => []RefreshIsCurrent
<1>1. TurnInit => IInv  BY InitIInv
<1>2. IInv /\ [TurnNext]_turnVars => IInv'  BY Step
<1>3. IInv => RefreshIsCurrent
  BY DEF IInv, RefreshIsCurrent, RecallsAreNewer, Newer, DisabledIsForgotten
<1> QED  BY <1>1, <1>2, <1>3, PTL DEF TurnSpec

-----------------------------------------------------------------------------
(* Types of MemoryCenter.                                                   *)

MemItems == ItemsBy(Refreshers \cup {Host})
Signals == [text : MemoryTexts, turn : Nat]
Buffers == [signals : Seq(Signals), seen : SUBSET Seq(MemoryTexts), turn : Nat,
            observed : SUBSET Signals, last : TurnStatuses \cup {"none"}]
MemDecisions == [allowed : BOOLEAN, item : MemItems, store : STRING]
Hits == [score : Nat, store : StoreIds, priority : Int, index : Nat, record : Nat]

Triaging == [at : {"triage"}, content : Seq(MemoryTexts), turns : SUBSET Nat]
Writing(authors) == [at : {"authorize", "store"}, item : ItemsBy(authors), mount : StoreMounts]
Searching == [at : {"search", "found"}, query : MemoryQueries, left : Seq(StoreMounts),
              hits : Seq(Hits), plan : SUBSET StoreIds, from : [StoreIds -> Nat]]
Author(c) == IF c \in Refreshers THEN c ELSE Host
Waits(c) ==
  {Idle, Raised} \cup Writing({Author(c)}) \cup IF c \in Refreshers THEN Triaging ELSE Searching

MountsOK ==
  /\ IsFiniteSet(DOMAIN mounts)
  /\ \A name \in DOMAIN mounts : mounts[name] \in StoreMounts /\ mounts[name].spec.name = name

MemTypeOK ==
  /\ MountsOK
  /\ records \in [StoreIds -> Seq(MemItems)]
  /\ buffer \in [Refreshers -> Buffers]
  /\ DOMAIN task = Callers /\ task = [c \in Callers |-> task[c]]
  /\ \A c \in Callers : task[c] \in Waits(c)
  /\ decisions \in Seq(MemDecisions)

-----------------------------------------------------------------------------
(* Governance.                                                              *)

\* What a store may be given once the gate's log tells it.
Passed(log, item) ==
  /\ \E i \in DOMAIN log : log[i].allowed /\ log[i].item = item
  /\ SizeOf(item.content) <= MaxContent
  /\ item.leaks => ~Protected(item)
  /\ item.scope = "global" => item.bucket # NoBucket

GovernedInv ==
  Governed => /\ \A s \in StoreIds : \A i \in DOMAIN records[s] : Passed(decisions, records[s][i])
              /\ \A c \in Callers : task[c].at = "store" => Passed(decisions, task[c].item)

-----------------------------------------------------------------------------
(* The flush buffer.                                                        *)

\* Of a run, the turns and the uncut contents on their way to a store.
TurnsUnderWay(r) ==
  {n \in Nat :
     \/ task[r].at = "triage" /\ n \in task[r].turns
     \/ task[r].at \in {"authorize", "store"} /\ n \in task[r].item.turns}
ContentsUnderWay(r) ==
  {content \in Seq(MemoryTexts) :
     \/ task[r].at = "triage" /\ content = task[r].content
     \/ task[r].at \in {"authorize", "store"} /\ ~task[r].item.cut /\ content = task[r].item.content}
SignalTurns(b) == {b.signals[i].turn : i \in DOMAIN b.signals}

\* What holds of a run r whose buffer is b.
FlushFor(r, b) ==
  /\ \A n \in SignalTurns(b) \cup TurnsUnderWay(r) : n < b.turn
  /\ SignalTurns(b) \cap TurnsUnderWay(r) = {}
  /\ ContentsUnderWay(r) \subseteq b.seen
  /\ \A s \in StoreIds : \A i \in DOMAIN records[s] : records[s][i].by = r =>
       /\ \A n \in records[s][i].turns :
            n < b.turn /\ n \notin SignalTurns(b) /\ n \notin TurnsUnderWay(r)
       /\ ~records[s][i].cut =>
            records[s][i].content \in b.seen /\ records[s][i].content \notin ContentsUnderWay(r)

FlushInv == \A r \in Refreshers : FlushFor(r, buffer[r])

\* A text of a run is on its way to a store, or in one, unless it was cut off.
IsUnderWay(r, text) ==
  \/ task[r].at = "triage" /\ text \in Range(task[r].content)
  \/ /\ task[r].at \in {"authorize", "store"}
     /\ text \in Range(task[r].item.content) \/ task[r].item.cut
IsWritten(r, text) ==
  \E s \in StoreIds : \E i \in DOMAIN records[s] :
    records[s][i].by = r /\ (text \in Range(records[s][i].content) \/ records[s][i].cut)
IsKept(r, text) == task[r].at = "raised" \/ IsUnderWay(r, text) \/ IsWritten(r, text)

\* Texts too small to be remembered are not counted.
Counts(text) == TextSize[text] >= TriageMinimum

KeepsFor(r, b) ==
  /\ b.last \in DoneStatuses => b.signals = << >>
  /\ \A content \in b.seen : \A i \in DOMAIN content : Counts(content[i]) => IsKept(r, content[i])
  /\ \A signal \in b.observed : Counts(signal.text) =>
       IsKept(r, signal.text) \/ \E i \in DOMAIN b.signals : b.signals[i].text = signal.text

KeepsInv == \A r \in Refreshers : KeepsFor(r, buffer[r])

-----------------------------------------------------------------------------
(* Search.                                                                  *)

\* Of stores that hold held: a match of a search that is among its hits, or too bad, or
\* behind as many others as the search may return.
Considered(held, search, s, i) ==
  LET score == held[s][i].score
      hits == search.hits
  IN \/ score = 0 \/ score < search.query.minimum
     \/ \E k \in DOMAIN hits : hits[k].store = s /\ hits[k].record = i
     \/ \E p \in Nat :
          /\ p + search.query.limit <= Len(hits)
          /\ \A q \in 1 .. search.query.limit : hits[p + q].score >= score

\* A search has begun on what the stores hold, and its hits are of that.
HitsOK(held, search) ==
  /\ \A s \in StoreIds : search.from[s] <= Len(held[s])
  /\ \A k \in DOMAIN search.hits :
       LET hit == search.hits[k]
       IN hit.record \in DOMAIN held[hit.store] /\ hit.score = held[hit.store][hit.record].score

\* What stores had that have answered is considered.
PlanOK(held, search) ==
  \A s \in search.plan :
    (\A i \in DOMAIN search.left : search.left[i].store # s) =>
      \A i \in 1 .. search.from[s] : Considered(held, search, s, i)

\* What SearchFindsBest says of a search that is over.
FindsBest(held, search) ==
  \A s \in search.plan : \A i \in 1 .. search.from[s] :
    LET score == held[s][i].score
    IN \/ \E k \in DOMAIN search.hits : search.hits[k].store = s /\ search.hits[k].record = i
       \/ score = 0 \/ score < search.query.minimum
       \/ /\ Len(search.hits) = search.query.limit
          /\ \A k \in DOMAIN search.hits : search.hits[k].score >= score

SearchFor(held, search) ==
  /\ HitsOK(held, search)
  /\ search.at = "search" => search.left # << >> /\ PlanOK(held, search)
  /\ search.at = "found" => FindsBest(held, search)

SearchInv ==
  \A h \in Hosts : task[h].at \in {"search", "found"} => SearchFor(records, task[h])
-----------------------------------------------------------------------------
(* What the operators return.                                               *)

LEMMA MountsInOrder ==
  ASSUME MountsOK
  PROVE  OrderedMounts \in Seq(StoreMounts)
<1> DEFINE S == Range(mounts)
           before == {pair \in S \X S : Before(pair[1], pair[2])}
<1>1. S = {mounts[name] : name \in DOMAIN mounts}
  BY DEF Range
<1>2. IsFiniteSet(S)
  BY <1>1, ImageIsFinite DEF MountsOK
<1>3. \A m \in S : m \in StoreMounts /\ m.spec.priority \in Int
                   /\ m.spec.name \in {StoreNames[i] : i \in DOMAIN StoreNames}
  BY <1>1, MemoryAssumption DEF MountsOK
<1>4. \A m \in S : NamePlace(m.spec.name) \in Int /\ StoreNames[NamePlace(m.spec.name)] = m.spec.name
  <2> TAKE m \in S
  <2>1. \E i \in DOMAIN StoreNames : StoreNames[i] = m.spec.name
    BY <1>3
  <2>2. /\ NamePlace(m.spec.name) \in DOMAIN StoreNames
        /\ StoreNames[NamePlace(m.spec.name)] = m.spec.name
    BY <2>1, Zenon DEF NamePlace
  <2>3. DOMAIN StoreNames \subseteq Int
    BY MemoryAssumption
  <2> QED
    BY <2>2, <2>3
<1>5. \A a, b \in S : a # b => NamePlace(a.spec.name) # NamePlace(b.spec.name)
  BY <1>1, <1>4 DEF MountsOK
<1>6. \A a, b \in S : <<a, b>> \in before <=> Before(a, b)
  OBVIOUS
<1>7. Orders(before, S)
  <2>1. \A x \in S : ~Before(x, x)
    BY <1>3, <1>4 DEF Before
  <2>2. \A x, y, z \in S : Before(x, y) /\ Before(y, z) => Before(x, z)
    BY <1>3, <1>4 DEF Before
  <2>3. \A x, y \in S : x # y => Before(x, y) \/ Before(y, x)
    BY <1>3, <1>4, <1>5 DEF Before
  <2> HIDE DEF S, before
  <2> QED
    BY <1>6, <2>1, <2>2, <2>3 DEF Orders
<1>8. InOrder(S, before) \in Seq(S)
  BY <1>2, <1>7, InOrderIs
<1>9. S \subseteq StoreMounts
  BY <1>3
<1> HIDE DEF S
<1>10. InOrder(S, before) \in Seq(StoreMounts)
  BY <1>8, <1>9
<1> QED
  BY <1>10 DEF OrderedMounts, S

LEMMA WriteMountIs ==
  ASSUME MountsOK, NEW name
  PROVE  WriteMount(name) = << >> \/ \E m \in StoreMounts : WriteMount(name) = <<m>>
<1> DEFINE keep == {m \in StoreMounts : m.spec.writable}
           writable == Filtered(OrderedMounts, keep)
<1>1. CASE name # NoStore
  BY <1>1 DEF WriteMount, MountsOK
<1>2. CASE name = NoStore
  <2>1. writable \in Seq(StoreMounts \cap keep)
    BY MountsInOrder, FilteredType
  <2>2. writable # << >> => Head(writable) \in StoreMounts
    <3> HIDE DEF writable
    <3> QED
      BY <2>1
  <2>3. WriteMount(name) = IF writable = << >> THEN << >> ELSE <<Head(writable)>>
    BY <1>2 DEF WriteMount
  <2> QED
    BY <2>2, <2>3
<1> QED
  BY <1>1, <1>2

LEMMA ReadMountsType ==
  ASSUME MountsOK, NEW query
  PROVE  ReadMounts(query) \in Seq(StoreMounts)
<1> DEFINE keep == {m \in StoreMounts : /\ m.spec.readable
                                        /\ query.names # {} => m.spec.name \in query.names
                                        /\ SupportsRoute(m.spec, query)}
<1>1. Filtered(OrderedMounts, keep) \in Seq(StoreMounts \cap keep)
  BY MountsInOrder, FilteredType
<1>2. ReadMounts(query) = Filtered(OrderedMounts, keep)
  BY DEF ReadMounts
<1>3. \A T \in SUBSET StoreMounts : Seq(T) \subseteq Seq(StoreMounts)
  OBVIOUS
<1> HIDE DEF keep
<1> QED
  BY <1>1, <1>2, <1>3

LEMMA SizeFacts ==
  ASSUME NEW content \in Seq(MemoryTexts)
  PROVE  /\ SizeOf(content) \in Nat
         /\ \A i \in DOMAIN content : TextSize[content[i]] \in Nat /\ TextSize[content[i]] <= SizeOf(content)
<1> DEFINE sizes == [i \in DOMAIN content |-> TextSize[content[i]]]
<1>1. DOMAIN content = 1..Len(content) /\ Len(content) \in Nat /\ \A i \in DOMAIN content : content[i] \in MemoryTexts
  OBVIOUS
<1>2. \A i \in DOMAIN content : TextSize[content[i]] \in Nat
  BY <1>1, MemoryAssumption
<1>3. sizes \in Seq(Nat) /\ DOMAIN sizes = DOMAIN content
  BY <1>1, <1>2
<1>4. \A i \in DOMAIN content : sizes[i] = TextSize[content[i]]
  OBVIOUS
<1>5. SizeOf(content) = Summed(sizes)
  BY DEF SizeOf
<1> HIDE DEF sizes
<1>6. Summed(sizes) \in Nat
  BY <1>3, SummedAppend
<1>7. \A i \in DOMAIN sizes : sizes[i] <= Summed(sizes)
  BY <1>3, SummedElement
<1> QED
  BY <1>2, <1>3, <1>4, <1>5, <1>6, <1>7

LEMMA EmptySize == SizeOf(<< >>) = 0
<1> DEFINE none == << >>
<1>1. [i \in DOMAIN none |-> TextSize[none[i]]] = << >>
  OBVIOUS
<1>2. SizeOf(<< >>) = Summed(<< >>)
  BY <1>1 DEF SizeOf
<1>3. << >> \in Seq(Nat) /\ 0 \in Nat
  OBVIOUS
<1> QED
  BY <1>2, <1>3, SummedAppend

LEMMA CutFacts ==
  ASSUME NEW content \in Seq(MemoryTexts), NEW most \in Nat
  PROVE  /\ CutTo(content, most) \in Seq(MemoryTexts)
         /\ SizeOf(CutTo(content, most)) <= most
         /\ SizeOf(content) <= most => CutTo(content, most) = content
<1> DEFINE fits == {n \in 0 .. Len(content) : SizeOf(SubSeq(content, 1, n)) <= most}
           m == Max(fits)
<1>1. Len(content) \in Nat /\ SubSeq(content, 1, Len(content)) = content /\ SubSeq(content, 1, 0) = << >>
  OBVIOUS
<1>2. 0 \in fits
  <2>1. 0 \in 0 .. Len(content)
    BY <1>1
  <2>2. SizeOf(SubSeq(content, 1, 0)) = 0
    BY <1>1, EmptySize, Zenon
  <2>3. 0 <= most
    OBVIOUS
  <2> QED
    BY <2>1, <2>2, <2>3
<1>3. fits \in SUBSET (0 .. Len(content)) /\ fits # {}
  BY <1>2
<1> HIDE DEF fits
<1>4. \E n \in fits : \A k \in fits : n >= k
  BY <1>1, <1>3, GreatestNumber
<1>5. m \in fits /\ \A k \in fits : m >= k
  BY <1>4, Zenon DEF Max
<1>6. CutTo(content, most) = SubSeq(content, 1, m)
  BY DEF CutTo, fits
<1> HIDE DEF m
<1>7. m \in 0 .. Len(content) /\ SizeOf(SubSeq(content, 1, m)) <= most
  BY <1>5 DEF fits
<1>8. SubSeq(content, 1, m) \in Seq(MemoryTexts)
  BY <1>1, <1>7
<1>9. ASSUME SizeOf(content) <= most PROVE m = Len(content)
  <2> DEFINE n == Len(content)
  <2>0. SubSeq(content, 1, n) = content /\ n \in 0 .. n
    BY <1>1
  <2>1. n \in 0 .. n /\ SizeOf(SubSeq(content, 1, n)) <= most
    BY <1>9, <2>0, Zenon
  <2>2. n \in fits
    BY <2>1 DEF fits
  <2>3. m \in 0 .. n /\ m >= n /\ n \in Nat
    BY <1>1, <1>5, <1>7, <2>2
  <2> HIDE DEF n
  <2>4. m = n
    BY <2>3
  <2> QED
    BY <2>4 DEF n
<1> QED
  BY <1>1, <1>6, <1>7, <1>8, <1>9

LEMMA RewrittenFacts ==
  ASSUME NEW authors, NEW item \in ItemsBy(authors)
  PROVE  /\ Rewritten(item) \in ItemsBy(authors)
         /\ SizeOf(Rewritten(item).content) <= MaxContent
         /\ Rewritten(item).by = item.by /\ Rewritten(item).turns = item.turns
         /\ Rewritten(item).leaks <=> item.leaks
         /\ Rewritten(item).scope = item.scope /\ Rewritten(item).bucket = item.bucket
         /\ Rewritten(item) = item \/ Rewritten(item).cut
<1>1. item.content \in Seq(MemoryTexts) /\ MaxContent \in Nat
  BY MemoryAssumption DEF ItemsBy
<1>2. SizeOf(item.content) \in Nat
  BY <1>1, SizeFacts
<1>3. CASE SizeOf(item.content) <= MaxContent
  BY <1>3 DEF Rewritten
<1>4. CASE ~(SizeOf(item.content) <= MaxContent)
  <2> DEFINE short == CutTo(item.content, MaxContent)
  <2>1. short \in Seq(MemoryTexts) /\ SizeOf(short) <= MaxContent
    BY <1>1, CutFacts
  <2>2. Rewritten(item) = [item EXCEPT !.content = short, !.cut = TRUE]
    BY <1>4 DEF Rewritten
  <2> HIDE DEF short
  <2> QED
    BY <2>1, <2>2 DEF ItemsBy
<1> QED
  BY <1>3, <1>4
-----------------------------------------------------------------------------
(* Types are kept.                                                          *)

\* What a caller awaits tells what it holds.
LEMMA WaitsAt ==
  ASSUME NEW c, NEW t \in Waits(c)
  PROVE  /\ t.at = "idle" => t = Idle
         /\ t.at = "raised" => t = Raised
         /\ t.at = "triage" => c \in Refreshers /\ t \in Triaging
         /\ t.at \in {"authorize", "store"} => t \in Writing({Author(c)})
         /\ t.at \in {"search", "found"} => c \notin Refreshers /\ t \in Searching
  BY DEF Waits, Writing, Triaging, Searching, Idle, Raised

LEMMA AuthorsItems ==
  ASSUME NEW c \in Callers, NEW item \in ItemsBy({Author(c)})
  PROVE  /\ item \in MemItems /\ item.by = Author(c) /\ item.content \in Seq(MemoryTexts)
         /\ item.turns \in SUBSET Nat /\ item.score \in Nat
         /\ \A r \in Refreshers : item.by = r => r = c
  BY MemoryAssumption DEF ItemsBy, MemItems, Author, Callers

\* Of the callers, only c does something.
Only(c) ==
  /\ DOMAIN task' = Callers /\ task' = [d \in Callers |-> task'[d]]
  /\ \A d \in Callers \ {c} : task'[d] = task[d]

LEMMA TaskSet ==
  ASSUME DOMAIN task = Callers, NEW c \in Callers, NEW next,
         task' = [task EXCEPT ![c] = next]
  PROVE  Only(c) /\ task'[c] = next
  BY DEF Only

\* Types go on when one caller's task is set to something of its type.
LEMMA TaskTyped ==
  ASSUME MemTypeOK, NEW c \in Callers, Only(c), task'[c] \in Waits(c),
         MountsOK', records' \in [StoreIds -> Seq(MemItems)], buffer' \in [Refreshers -> Buffers],
         decisions' \in Seq(MemDecisions)
  PROVE  MemTypeOK'
<1>1. \A d \in Callers : task'[d] \in Waits(d)
  BY DEF MemTypeOK, Only
<1> QED
  BY <1>1 DEF MemTypeOK, Only

\* MountsOK is about mounts alone.
LEMMA MountsKept ==
  ASSUME MountsOK, mounts' = mounts
  PROVE  MountsOK'
  BY DEF MountsOK

LEMMA BegunWrite ==
  ASSUME MemTypeOK, NEW c \in Callers, NEW item \in ItemsBy({Author(c)}), BeginWrite(c, item)
  PROVE  /\ Only(c) /\ task'[c] \in Waits(c)
         /\ \/ task'[c] = Raised
            \/ /\ task'[c] \in Writing({Author(c)})
               /\ task'[c].at = IF Governed THEN "authorize" ELSE "store"
               /\ task'[c].item.content = item.content /\ task'[c].item.turns = item.turns
               /\ task'[c].item.cut = item.cut
<1> DEFINE mount == WriteMount(IF item.target # NoStore THEN item.target ELSE DefaultStore)
           clean == [item EXCEPT !.target = NoStore]
           at == IF Governed THEN "authorize" ELSE "store"
           next == IF mount = << >> THEN Raised
                   ELSE [at |-> at, item |-> clean, mount |-> Head(mount)]
<1>1. task' = [task EXCEPT ![c] = next]
  BY DEF BeginWrite
<1>2. mount = << >> \/ \E m \in StoreMounts : mount = <<m>>
  BY WriteMountIs DEF MemTypeOK
<1>3. /\ clean \in ItemsBy({Author(c)}) /\ clean.content = item.content
      /\ clean.turns = item.turns /\ clean.cut = item.cut
  BY DEF ItemsBy
<1>4. at \in {"authorize", "store"}
  OBVIOUS
<1>5. Only(c) /\ task'[c] = next
  <2> HIDE DEF next
  <2> QED
    BY <1>1, TaskSet DEF MemTypeOK
<1> HIDE DEF mount, clean, at
<1>6. CASE mount = << >>
  <2>1. next = Raised /\ Raised \in Waits(c)
    BY <1>6 DEF Waits
  <2> QED
    BY <1>5, <2>1
<1>7. ASSUME NEW m \in StoreMounts, mount = <<m>> PROVE
        /\ next \in Writing({Author(c)}) /\ next \in Waits(c)
        /\ next.at = at /\ next.item = clean
  <2>1. mount # << >> /\ Head(mount) = m
    BY <1>7
  <2>2. next = [at |-> at, item |-> clean, mount |-> m]
    BY <2>1
  <2>3. next \in Writing({Author(c)})
    BY <1>3, <1>4, <2>2 DEF Writing
  <2> QED
    BY <2>2, <2>3 DEF Waits
<1> HIDE DEF next
<1>8. CASE \E m \in StoreMounts : mount = <<m>>
  <2>1. next \in Writing({Author(c)}) /\ next \in Waits(c) /\ next.at = at /\ next.item = clean
    BY <1>7, <1>8
  <2>2. task'[c].item = clean
    BY <1>5, <2>1
  <2>3. task'[c].item.cut = item.cut
    BY <1>3, <2>2
  <2> QED
    BY <1>3, <1>5, <2>1, <2>2, <2>3 DEF at
<1> QED
  BY <1>2, <1>6, <1>8

LEMMA RegisterTypes ==
  ASSUME MemTypeOK, NEW mount \in StoreMounts, RegisterStore(mount)
  PROVE  MemTypeOK'
<1> DEFINE n == mount.spec.name
<1>1. mounts' = [name \in DOMAIN mounts \cup {n} |-> IF name = n THEN mount ELSE mounts[name]]
  BY DEF RegisterStore
<1>2. DOMAIN mounts' = DOMAIN mounts \cup {n}
  BY <1>1
<1>3. IsFiniteSet(DOMAIN mounts')
  <2>1. IsFiniteSet(DOMAIN mounts)
    BY DEF MemTypeOK, MountsOK
  <2>2. IsFiniteSet(DOMAIN mounts \cup {n})
    BY <2>1, FS_AddElement
  <2> QED
    BY <1>2, <2>2
<1>4. \A name \in DOMAIN mounts' : mounts'[name] \in StoreMounts /\ mounts'[name].spec.name = name
  BY <1>1, <1>2 DEF MemTypeOK, MountsOK
<1>5. MountsOK'
  BY <1>3, <1>4 DEF MountsOK
<1> QED
  BY <1>5 DEF MemTypeOK, RegisterStore

LEMMA AuthorizedTypes ==
  ASSUME MemTypeOK, NEW c \in Callers, Authorized(c)
  PROVE  /\ MemTypeOK' /\ Only(c)
         /\ task[c] \in Writing({Author(c)})
         /\ LET item == task[c].item
            IN /\ decisions' = Append(decisions,
                    [allowed |-> ~Denied(item),
                     item |-> IF Denied(item) THEN item ELSE Rewritten(item),
                     store |-> task[c].mount.spec.name])
               /\ \/ Denied(item) /\ task'[c] = Raised
                  \/ /\ ~Denied(item) /\ task'[c] \in Writing({Author(c)})
                     /\ task'[c].at = "store" /\ task'[c].item = Rewritten(item)
<1> DEFINE t == task[c]
           item == t.item
           passed == Rewritten(item)
           next == IF Denied(item) THEN Raised ELSE [t EXCEPT !.at = "store", !.item = passed]
           decision == [allowed |-> ~Denied(item), item |-> IF Denied(item) THEN item ELSE passed,
                        store |-> t.mount.spec.name]
<1>1. t \in Writing({Author(c)})
  BY WaitsAt DEF Authorized, MemTypeOK
<1>2. item \in ItemsBy({Author(c)}) /\ t.mount \in StoreMounts
  BY <1>1 DEF Writing
<1>3. passed \in ItemsBy({Author(c)})
  BY <1>2, RewrittenFacts
<1>4. item \in MemItems /\ passed \in MemItems
  BY <1>2, <1>3, AuthorsItems
<1>5. t.mount.spec.name \in STRING
  <2>1. t.mount.spec.name \in {StoreNames[i] : i \in DOMAIN StoreNames}
    BY <1>2, MemoryAssumption
  <2>2. \A i \in DOMAIN StoreNames : StoreNames[i] \in STRING
    BY MemoryAssumption
  <2> QED
    BY <2>1, <2>2
<1>6. task' = [task EXCEPT ![c] = next] /\ decisions' = Append(decisions, decision)
      /\ UNCHANGED <<mounts, records, buffer>>
  BY DEF Authorized
<1>7. Only(c) /\ task'[c] = next
  <2> HIDE DEF next
  <2> QED
    BY <1>6, TaskSet DEF MemTypeOK
<1>8. \/ Denied(item) /\ next = Raised
      \/ ~Denied(item) /\ next \in Writing({Author(c)}) /\ next.at = "store" /\ next.item = passed
  <2> HIDE DEF passed, t
  <2> QED
    BY <1>1, <1>3 DEF Writing
<1>9. decision \in MemDecisions
  <2>1. (~Denied(item)) \in BOOLEAN /\ (IF Denied(item) THEN item ELSE passed) \in MemItems
    BY <1>4
  <2> QED
    BY <2>1, <1>5 DEF MemDecisions
<1> HIDE DEF passed, decision, next
<1>10. next \in Waits(c)
  BY <1>8 DEF Waits
<1>11. decisions' \in Seq(MemDecisions)
  BY <1>6, <1>9 DEF MemTypeOK
<1>12. MountsOK'
  BY <1>6, MountsKept DEF MemTypeOK
<1>13. MemTypeOK'
  BY <1>6, <1>7, <1>10, <1>11, <1>12, TaskTyped DEF MemTypeOK
<1> QED
  BY <1>1, <1>6, <1>7, <1>8, <1>13 DEF passed, decision
-----------------------------------------------------------------------------
(* What a search makes of its stores.                                       *)

LEMMA RankedFacts ==
  ASSUME NEW held \in Seq(MemItems)
  PROVE  /\ Ranked(held) \in Seq({i \in DOMAIN held : held[i].score > 0})
         /\ \A i \in DOMAIN held : held[i].score > 0 => \E j \in DOMAIN Ranked(held) : Ranked(held)[j] = i
         /\ \A i, j \in DOMAIN Ranked(held) :
              i < j => held[Ranked(held)[i]].score >= held[Ranked(held)[j]].score
<1> DEFINE S == {i \in DOMAIN held : held[i].score > 0}
           before == {pair \in S \X S : Better(held, pair[1], pair[2])}
<1>1. \A i \in DOMAIN held : i \in Int /\ held[i].score \in Nat
  <2>1. DOMAIN held \subseteq Int /\ \A i \in DOMAIN held : held[i] \in MemItems
    OBVIOUS
  <2> QED
    BY <2>1 DEF MemItems, ItemsBy
<1>2. IsFiniteSet(S)
  <2>1. DOMAIN held = 1..Len(held) /\ 1 \in Int /\ Len(held) \in Int
    OBVIOUS
  <2>2. IsFiniteSet(1..Len(held))
    BY <2>1, FS_Interval
  <2>3. S \subseteq 1..Len(held)
    BY <2>1
  <2> QED
    BY <2>2, <2>3, FS_Subset
<1>3. \A i, j \in S : <<i, j>> \in before <=> Better(held, i, j)
  OBVIOUS
<1>4. Orders(before, S)
  <2>1. \A i \in S : ~Better(held, i, i)
    BY <1>1 DEF Better
  <2>2. \A i, j, k \in S : Better(held, i, j) /\ Better(held, j, k) => Better(held, i, k)
    BY <1>1 DEF Better
  <2>3. \A i, j \in S : i # j => Better(held, i, j) \/ Better(held, j, i)
    BY <1>1 DEF Better
  <2> HIDE DEF S, before
  <2> QED
    BY <1>3, <2>1, <2>2, <2>3 DEF Orders
<1>5. Ranked(held) = InOrder(S, before)
  BY DEF Ranked
<1> DEFINE R == Ranked(held)
<1>6. /\ R \in Seq(S) /\ {R[i] : i \in DOMAIN R} = S
      /\ \A i, j \in DOMAIN R : i < j => <<R[i], R[j]>> \in before
  <2> HIDE DEF S, before
  <2> QED
    BY <1>2, <1>4, <1>5, InOrderIs
<1>7. \A i \in DOMAIN R : R[i] \in S
  <2> HIDE DEF R, S, before
  <2> QED
    BY <1>6
<1>8. \A i, j \in DOMAIN R : i < j => held[R[i]].score >= held[R[j]].score
  <2> TAKE i, j \in DOMAIN R
  <2> HAVE i < j
  <2>1. Better(held, R[i], R[j]) /\ R[i] \in S /\ R[j] \in S
    BY <1>3, <1>6, <1>7
  <2>2. held[R[i]].score \in Nat /\ held[R[j]].score \in Nat
    BY <1>1, <2>1
  <2> QED
    BY <2>1, <2>2 DEF Better
<1>9. \A i \in S : \E j \in DOMAIN R : R[j] = i
  <2> HIDE DEF R, S, before
  <2> QED
    BY <1>6
<1> QED
  BY <1>6, <1>8, <1>9

\* What a store that holds held answers: what it leaves out is no match, or too bad, or
\* behind as many as the search may return.
AnswersFor(answer, held, mount, query) ==
  /\ \A k \in DOMAIN answer :
       /\ answer[k].store = mount.store
       /\ answer[k].record \in DOMAIN held /\ answer[k].score = held[answer[k].record].score
  /\ \A i \in DOMAIN held :
       \/ held[i].score = 0 \/ held[i].score < query.minimum
       \/ \E k \in DOMAIN answer : answer[k].record = i
       \/ Len(answer) = query.limit /\ \A k \in DOMAIN answer : answer[k].score >= held[i].score

\* A store's answer has each match but those that are too bad or behind a full answer.
LEMMA HitsFacts ==
  ASSUME MemTypeOK, NEW mount \in StoreMounts, NEW query \in MemoryQueries,
         NEW held, held = records[mount.store],
         NEW answer, answer = HitsOf(mount, query)
  PROVE  answer \in Seq(Hits) /\ AnswersFor(answer, held, mount, query)
<1> DEFINE S == {i \in DOMAIN held : held[i].score > 0}
           R == Ranked(held)
           order == FirstOf(query.limit, R)
           hits == [i \in DOMAIN order |->
                     [score |-> held[order[i]].score, store |-> mount.store,
                      priority |-> mount.spec.priority, index |-> i, record |-> order[i]]]
           keep == {hit \in Range(hits) : hit.score >= query.minimum}
<1>1. answer = Filtered(hits, keep)
  BY DEF HitsOf
<1>2. /\ mount.store \in StoreIds /\ mount.spec.priority \in Int
      /\ query.limit \in Nat /\ query.minimum \in Nat
  BY MemoryAssumption
<1>3. held \in Seq(MemItems)
  BY <1>2 DEF MemTypeOK
<1>4. \A i \in DOMAIN held : i \in Nat /\ held[i].score \in Nat
  <2>1. DOMAIN held \subseteq Nat /\ \A i \in DOMAIN held : held[i] \in MemItems
    BY <1>3
  <2> QED
    BY <2>1 DEF MemItems, ItemsBy
<1>5. /\ R \in Seq(S)
      /\ \A i \in S : \E j \in DOMAIN R : R[j] = i
      /\ \A i, j \in DOMAIN R : i < j => held[R[i]].score >= held[R[j]].score
  BY <1>3, RankedFacts
<1> HIDE DEF R
<1>6. /\ order \in Seq(S)
      /\ Len(order) = IF Len(R) < query.limit THEN Len(R) ELSE query.limit
      /\ \A i \in DOMAIN order : i \in DOMAIN R /\ order[i] = R[i]
  <2> HIDE DEF S
  <2>1. R \in Seq(S) /\ query.limit \in Nat
    BY <1>2, <1>5
  <2> QED
    BY <2>1, FirstOfIs
<1> HIDE DEF order
<1>7. /\ Len(order) \in Nat /\ DOMAIN order = 1..Len(order) /\ \A i \in DOMAIN order : order[i] \in S
      /\ Len(R) \in Nat /\ DOMAIN R = 1..Len(R) /\ \A i \in DOMAIN R : R[i] \in S
  <2> HIDE DEF S
  <2> QED
    BY <1>5, <1>6
<1>8. /\ DOMAIN hits = DOMAIN order
      /\ \A i \in DOMAIN order :
           /\ hits[i] \in Hits
           /\ hits[i].score = held[order[i]].score /\ hits[i].store = mount.store
           /\ hits[i].record = order[i] /\ hits[i].record \in DOMAIN held
  BY <1>2, <1>4, <1>7 DEF Hits
<1> HIDE DEF hits
<1>9. hits \in Seq(Hits) /\ Len(hits) = Len(order) /\ IsList(hits)
  <2>1. hits = [i \in 1..Len(order) |-> hits[i]]
    BY <1>7, <1>8 DEF hits
  <2>2. hits \in [1..Len(order) -> Hits]
    BY <1>7, <1>8, <2>1
  <2>3. hits \in Seq(Hits)
    BY <1>7, <2>2
  <2> QED
    BY <1>7, <1>8, <2>3, SeqIsList
<1>10. Range(hits) = {hits[i] : i \in DOMAIN hits}
  BY DEF Range
<1>11. answer \in Seq(Hits \cap keep)
  BY <1>1, <1>9, FilteredType
<1>12. {answer[i] : i \in DOMAIN answer} = {hits[i] : i \in DOMAIN hits} \cap keep
  <2> HIDE DEF keep
  <2> QED
    BY <1>1, <1>9, FilteredMembers
<1>13. \A k \in DOMAIN answer : \E i \in DOMAIN order : answer[k] = hits[i]
  <2> HIDE DEF keep
  <2> QED
    BY <1>8, <1>12
<1>14. \A i \in DOMAIN order : hits[i].score >= query.minimum => \E k \in DOMAIN answer : answer[k] = hits[i]
  <2> TAKE i \in DOMAIN order
  <2> HAVE hits[i].score >= query.minimum
  <2>1. hits[i] \in {hits[j] : j \in DOMAIN hits} \cap keep
    BY <1>8, <1>10
  <2> HIDE DEF keep
  <2> QED
    BY <1>12, <2>1
<1>15. answer \in Seq(Hits)
  <2> HIDE DEF keep
  <2>1. \A T \in SUBSET Hits : Seq(T) \subseteq Seq(Hits)
    OBVIOUS
  <2> QED
    BY <1>11, <2>1
<1>16. ASSUME NEW i \in DOMAIN held, held[i].score # 0, ~(held[i].score < query.minimum),
              ~(\E k \in DOMAIN answer : answer[k].record = i)
       PROVE  Len(answer) = query.limit /\ \A k \in DOMAIN answer : answer[k].score >= held[i].score
  <2>1. i \in S
    BY <1>4, <1>16
  <2>2. PICK j \in DOMAIN R : R[j] = i
    BY <1>5, <2>1
  <2>3. ~(j \in DOMAIN order)
    <3> SUFFICES ASSUME j \in DOMAIN order PROVE FALSE
      OBVIOUS
    <3>1. hits[j].record = i /\ hits[j].score = held[i].score
      BY <1>6, <1>8, <2>2
    <3>2. hits[j].score >= query.minimum
      BY <1>2, <1>4, <1>16, <3>1
    <3> QED
      BY <1>14, <1>16, <3>1, <3>2
  <2>4. Len(order) = query.limit /\ \A m \in DOMAIN order : m < j
    BY <1>2, <1>6, <1>7, <2>3
  <2>5. \A m \in DOMAIN order : hits[m].score >= held[i].score
    <3> TAKE m \in DOMAIN order
    <3>1. m < j /\ m \in DOMAIN R /\ order[m] = R[m] /\ hits[m].score = held[order[m]].score
      BY <1>6, <1>8, <2>4
    <3>2. held[R[m]].score >= held[R[j]].score
      BY <1>5, <3>1
    <3> QED
      BY <2>2, <3>1, <3>2
  <2>6. \A m \in DOMAIN order : hits[m].score \in Nat
    BY <1>4, <1>7, <1>8
  <2>7. \A m \in DOMAIN order : hits[m] \in keep
    <3> TAKE m \in DOMAIN order
    <3>1. hits[m].score >= query.minimum
      BY <1>2, <1>4, <1>16, <2>5, <2>6
    <3> QED
      BY <1>8, <1>10, <3>1
  <2> HIDE DEF keep
  <2>8. {hits[m] : m \in DOMAIN hits} \subseteq keep
    BY <1>8, <2>7
  <2>9. hits \in Seq({hits[m] : m \in DOMAIN hits})
    BY <1>9 DEF IsList
  <2>10. answer = hits
    BY <1>1, <2>8, <2>9, FilteredAll
  <2> QED
    BY <1>8, <1>9, <2>4, <2>5, <2>10
<1>17. \A k \in DOMAIN answer :
         /\ answer[k].store = mount.store
         /\ answer[k].record \in DOMAIN held /\ answer[k].score = held[answer[k].record].score
  BY <1>8, <1>13
<1> QED
  BY <1>15, <1>16, <1>17 DEF AnswersFor

\* What puts one place of a list of hits before another.
PlacesBefore(hits) ==
  {pair \in (1 .. Len(hits)) \X (1 .. Len(hits)) : Ahead(hits, pair[1], pair[2])}

LEMMA PlacesPairs ==
  ASSUME NEW hits, NEW i \in 1 .. Len(hits), NEW j \in 1 .. Len(hits)
  PROVE  <<i, j>> \in PlacesBefore(hits) <=> Ahead(hits, i, j)
  BY DEF PlacesBefore

LEMMA MergedIs ==
  ASSUME NEW hits
  PROVE  Merged(hits) = [k \in DOMAIN InOrder(1 .. Len(hits), PlacesBefore(hits)) |->
                          hits[InOrder(1 .. Len(hits), PlacesBefore(hits))[k]]]
  BY DEF Merged, PlacesBefore

LEMMA PlacesInOrder ==
  ASSUME NEW hits \in Seq(Hits)
  PROVE  Orders(PlacesBefore(hits), 1 .. Len(hits)) /\ IsFiniteSet(1 .. Len(hits))
<1> DEFINE D == 1 .. Len(hits)
           s(i) == hits[i].score
           p(i) == hits[i].priority
           x(i) == hits[i].index
           R(i, j) == \/ \/ s(i) > s(j)
                         \/ s(i) = s(j) /\ p(i) > p(j)
                         \/ s(i) = s(j) /\ p(i) = p(j) /\ x(i) < x(j)
                      \/ s(i) = s(j) /\ p(i) = p(j) /\ x(i) = x(j) /\ i < j
<1>1. D = 1..Len(hits) /\ Len(hits) \in Nat
  OBVIOUS
<1>2. \A i \in D : hits[i] \in Hits
  OBVIOUS
<1>3. \A i \in D : i \in Int /\ s(i) \in Int /\ p(i) \in Int /\ x(i) \in Int
  BY <1>1, <1>2 DEF Hits
<1>5. \A i, j \in D : Ahead(hits, i, j) <=> R(i, j)
  <2> HIDE DEF D
  <2> QED
    BY <1>3 DEF Ahead, HitBefore
<1>6. \A i, j \in D : <<i, j>> \in PlacesBefore(hits) <=> Ahead(hits, i, j)
  BY PlacesPairs
<1> HIDE DEF D, s, p, x
<1>7. \A i \in D : ~R(i, i)
  BY <1>3
<1>8. \A i, j, k \in D : R(i, j) /\ R(j, k) => R(i, k)
  BY <1>3
<1>9. \A i, j \in D : i # j => R(i, j) \/ R(j, i)
  BY <1>3
<1> HIDE DEF R
<1>10. Orders(PlacesBefore(hits), D)
  <2>1. \A i, j \in D : <<i, j>> \in PlacesBefore(hits) <=> R(i, j)
    BY <1>5, <1>6, Zenon
  <2> QED
    BY <2>1, <1>7, <1>8, <1>9 DEF Orders
<1>11. IsFiniteSet(D)
  <2>1. 1 \in Int /\ Len(hits) \in Int
    BY <1>1
  <2> QED
    BY <1>1, <2>1, FS_Interval
<1> QED
  BY <1>10, <1>11 DEF D

\* Merging hits keeps them all, the best first; of places as many as are asked for, none
\* has less than what that many hits reach.
\* A list m of the hits, by falling scores: where so many in a row of the hits reach x, so
\* many at the head of m do.
SortedFrom(m, hits) ==
  /\ \A k \in DOMAIN m : \E j \in DOMAIN hits : m[k] = hits[j]
  /\ \A j \in DOMAIN hits : \E k \in DOMAIN m : m[k] = hits[j]
  /\ \A i, j \in DOMAIN m : i < j => m[i].score >= m[j].score
  /\ \A p, most, x \in Nat :
       (p + most <= Len(hits) /\ \A q \in 1..most : hits[p + q].score >= x) =>
         \A k \in DOMAIN m : k <= most => m[k].score >= x

LEMMA MergedFacts ==
  ASSUME NEW hits \in Seq(Hits), NEW m, m = Merged(hits)
  PROVE  m \in Seq(Hits) /\ Len(m) = Len(hits) /\ SortedFrom(m, hits)
<1> DEFINE D == 1 .. Len(hits)
           before == PlacesBefore(hits)
           order == InOrder(D, before)
<1>1. m = [k \in DOMAIN order |-> hits[order[k]]]
  BY MergedIs
<1>2. D = 1..Len(hits) /\ Len(hits) \in Nat /\ \A i \in D : hits[i] \in Hits /\ hits[i].score \in Nat
  <2>1. D = 1..Len(hits) /\ Len(hits) \in Nat /\ \A i \in D : hits[i] \in Hits
    OBVIOUS
  <2> QED
    BY <2>1 DEF Hits
<1>3. /\ order \in Seq(D) /\ Len(order) = Cardinality(D)
      /\ {order[i] : i \in DOMAIN order} = D
      /\ \A i, j \in DOMAIN order : i < j => <<order[i], order[j]>> \in before
  <2>1. Orders(before, D) /\ IsFiniteSet(D)
    BY PlacesInOrder
  <2> HIDE DEF D, before
  <2> QED
    BY <2>1, InOrderIs
<1>4. Cardinality(D) = Len(hits)
  <2>1. 1 \in Int /\ Len(hits) \in Int
    BY <1>2
  <2>2. Cardinality(1..Len(hits)) = IF 1 > Len(hits) THEN 0 ELSE Len(hits) - 1 + 1
    BY <2>1, FS_Interval
  <2> QED
    BY <1>2, <2>2
<1> HIDE DEF order, before, D
<1>5. /\ DOMAIN order = 1..Len(hits) /\ \A k \in DOMAIN order : order[k] \in D
  BY <1>2, <1>3, <1>4
<1>6. \A j \in D : \E k \in DOMAIN order : order[k] = j
  BY <1>3
<1>7. DOMAIN m = 1..Len(hits) /\ \A k \in DOMAIN m : m[k] = hits[order[k]] /\ m[k] \in Hits
  BY <1>1, <1>2, <1>5
<1>8. m \in Seq(Hits) /\ Len(m) = Len(hits)
  <2>1. m \in [1..Len(hits) -> Hits]
    BY <1>1, <1>5, <1>7
  <2> QED
    BY <1>2, <2>1
<1>9. \A i, j \in DOMAIN m : i < j => <<order[i], order[j]>> \in before
  BY <1>3, <1>5, <1>7
<1>10. \A a, b \in D : <<a, b>> \in before => hits[a].score >= hits[b].score
  <2> TAKE a, b \in D
  <2> HAVE <<a, b>> \in before
  <2>1. HitBefore(hits[a], hits[b]) \/ ~HitBefore(hits[b], hits[a])
    <3>1. Ahead(hits, a, b)
      BY DEF before, PlacesBefore
    <3> QED
      BY <3>1 DEF Ahead
  <2>2. hits[a].score \in Nat /\ hits[b].score \in Nat
    BY <1>2
  <2> QED
    BY <2>1, <2>2 DEF HitBefore
<1>11. \A i, j \in DOMAIN m : i < j => m[i].score >= m[j].score
  BY <1>5, <1>7, <1>9, <1>10
<1>12. ASSUME NEW p \in Nat, NEW most \in Nat, NEW x \in Nat, p + most <= Len(hits),
              \A q \in 1..most : hits[p + q].score >= x,
              NEW k \in DOMAIN m, k <= most, ~(m[k].score >= x)
       PROVE  FALSE
  <2> DEFINE block == (p + 1)..(p + most)
             g == [j \in 1..(k - 1) |-> order[j]]
             T == {g[j] : j \in 1..(k - 1)}
  <2>1. k \in Nat /\ k >= 1 /\ k \in 1..Len(hits) /\ 1..(k - 1) \subseteq 1..Len(hits)
    BY <1>2, <1>7
  <2>2. \A b \in block : b \in D /\ hits[b].score >= x
    <3> TAKE b \in block
    <3>1. b - p \in 1..most /\ b = p + (b - p) /\ b \in 1..Len(hits)
      BY <1>2, <1>12
    <3> QED
      BY <1>2, <1>12, <3>1
  <2>3. \A b \in block : b \in T
    <3> TAKE b \in block
    <3>1. PICK j \in DOMAIN order : order[j] = b
      BY <1>6, <2>2
    <3>2. m[j] = hits[b] /\ hits[b].score \in Nat /\ m[k].score \in Nat /\ j \in DOMAIN m /\ j \in Nat
      BY <1>2, <1>5, <1>7, <2>2, <3>1
    <3>3. m[j].score > m[k].score
      BY <1>12, <2>2, <3>2
    <3>4. j < k
      BY <1>11, <1>12, <2>1, <3>2, <3>3
    <3>5. j \in 1..(k - 1)
      BY <1>5, <2>1, <3>1, <3>2, <3>4
    <3> QED
      BY <3>1, <3>5
  <2>4. g \in Surjection(1..(k - 1), T)
    BY DEF Surjection
  <2>5. IsFiniteSet(1..(k - 1)) /\ Cardinality(1..(k - 1)) = k - 1
    <3>1. 1 \in Int /\ k - 1 \in Int /\ k >= 1
      BY <2>1
    <3>2. /\ IsFiniteSet(1..(k - 1))
          /\ Cardinality(1..(k - 1)) = IF 1 > k - 1 THEN 0 ELSE (k - 1) - 1 + 1
      BY <3>1, FS_Interval
    <3> QED
      BY <2>1, <3>2
  <2>6. Cardinality(block) = most
    <3>1. p + 1 \in Int /\ p + most \in Int
      OBVIOUS
    <3>2. Cardinality(block) = IF p + 1 > p + most THEN 0 ELSE (p + most) - (p + 1) + 1
      BY <3>1, FS_Interval
    <3> QED
      BY <3>2
  <2> HIDE DEF g, T, block
  <2>7. IsFiniteSet(T) /\ Cardinality(T) <= k - 1
    BY <2>4, <2>5, FS_Surjection
  <2>8. block \subseteq T
    BY <2>3
  <2>9. Cardinality(block) <= Cardinality(T)
    BY <2>7, <2>8, FS_Subset
  <2>10. Cardinality(T) \in Nat
    BY <2>7, FS_CardinalityType
  <2> QED
    BY <1>12, <2>1, <2>6, <2>7, <2>9, <2>10
<1>13. \A k \in DOMAIN m : \E j \in DOMAIN hits : m[k] = hits[j]
  BY <1>5, <1>7 DEF D
<1>14. \A j \in DOMAIN hits : \E k \in DOMAIN m : m[k] = hits[j]
  <2>1. DOMAIN hits = D
    BY <1>2
  <2> SUFFICES ASSUME NEW j \in D PROVE \E k \in DOMAIN m : m[k] = hits[j]
    BY <2>1, Zenon
  <2>2. PICK k \in DOMAIN order : order[k] = j
    BY <1>6
  <2> QED
    BY <1>5, <1>7, <2>2
<1>15. \A p, most, x \in Nat :
         (p + most <= Len(hits) /\ \A q \in 1..most : hits[p + q].score >= x) =>
           \A k \in DOMAIN m : k <= most => m[k].score >= x
  BY <1>12, Zenon
<1> QED
  BY <1>8, <1>11, <1>13, <1>14, <1>15 DEF SortedFrom
-----------------------------------------------------------------------------
(* Types are kept by searches.                                              *)

LEMMA FinishedIs ==
  ASSUME NEW search \in Searching
  PROVE  /\ Finished(search) \in Searching
         /\ Finished(search).query = search.query /\ Finished(search).left = search.left
         /\ Finished(search).plan = search.plan /\ Finished(search).from = search.from
         /\ search.left # << >> => Finished(search) = search
         /\ search.left = << >> =>
              /\ Finished(search).at = "found"
              /\ Finished(search).hits = FirstOf(search.query.limit, Merged(search.hits))
<1> DEFINE short == FirstOf(search.query.limit, Merged(search.hits))
<1>1. search.hits \in Seq(Hits) /\ search.query.limit \in Nat
  BY MemoryAssumption DEF Searching
<1>2. short \in Seq(Hits)
  <2>1. Merged(search.hits) \in Seq(Hits)
    BY <1>1, MergedFacts
  <2> QED
    BY <1>1, <2>1, FirstOfIs
<1>3. CASE search.left # << >>
  BY <1>3 DEF Finished
<1>4. CASE search.left = << >>
  <2>1. Finished(search) = [search EXCEPT !.at = "found", !.hits = short]
    BY <1>4 DEF Finished
  <2> HIDE DEF short
  <2>2. /\ Finished(search) \in Searching
        /\ Finished(search).query = search.query /\ Finished(search).left = search.left
        /\ Finished(search).plan = search.plan /\ Finished(search).from = search.from
        /\ Finished(search).at = "found" /\ Finished(search).hits = short
    BY <1>2, <2>1 DEF Searching
  <2> QED
    BY <1>4, <2>2 DEF short
<1> QED
  BY <1>3, <1>4

\* A host's task becomes a search, and all types stay.
LEMMA SearchTyped ==
  ASSUME MemTypeOK, NEW h \in Hosts, NEW next, next = Raised \/ next \in Searching,
         task' = [task EXCEPT ![h] = next], UNCHANGED <<mounts, records, buffer, decisions>>
  PROVE  MemTypeOK' /\ Only(h) /\ task'[h] = next
<1>1. h \in Callers /\ h \notin Refreshers
  BY MemoryAssumption DEF Callers
<1>2. next \in Waits(h)
  BY <1>1 DEF Waits
<1>3. Only(h) /\ task'[h] = next
  BY <1>1, TaskSet DEF MemTypeOK
<1>4. MountsOK'
  BY MountsKept DEF MemTypeOK
<1>5. MemTypeOK'
  BY <1>1, <1>2, <1>3, <1>4, TaskTyped DEF MemTypeOK
<1> QED
  BY <1>3, <1>5

LEMMA SearchBegun ==
  ASSUME MemTypeOK, NEW h \in Hosts, NEW query \in MemoryQueries, HostSearches(h, query)
  PROVE  /\ MemTypeOK' /\ Only(h)
         /\ \/ task'[h] = Raised
            \/ \E search \in Searching :
                 /\ task'[h] = Finished(search)
                 /\ search.at = "search" /\ search.hits = << >>
                 /\ \A s \in search.plan : \E i \in DOMAIN search.left : search.left[i].store = s
                 /\ \A s \in StoreIds : search.from[s] = Len(records[s])
<1> DEFINE remaining == ReadMounts(query)
           plan == {m.store : m \in Range(remaining)}
           from == [s \in StoreIds |-> Len(records[s])]
           search == [at |-> "search", query |-> query, left |-> remaining, hits |-> << >>,
                      plan |-> plan, from |-> from]
           next == IF NamesMissing(query) THEN Raised ELSE Finished(search)
<1>1. remaining \in Seq(StoreMounts)
  BY ReadMountsType DEF MemTypeOK
<1>2. \A m \in Range(remaining) : m \in StoreMounts /\ \E i \in DOMAIN remaining : remaining[i] = m
  <2> HIDE DEF remaining
  <2>1. \A i \in DOMAIN remaining : remaining[i] \in StoreMounts
    BY <1>1
  <2> QED
    BY <2>1 DEF Range
<1>3. plan \in SUBSET StoreIds
  BY <1>2, MemoryAssumption
<1>4. \A s \in plan : \E i \in DOMAIN remaining : remaining[i].store = s
  BY <1>2
<1>5. from \in [StoreIds -> Nat] /\ \A s \in StoreIds : from[s] = Len(records[s])
  BY DEF MemTypeOK
<1>6. << >> \in Seq(Hits)
  OBVIOUS
<1>7. task' = [task EXCEPT ![h] = next] /\ UNCHANGED <<mounts, records, buffer, decisions>>
  BY DEF HostSearches
<1> HIDE DEF remaining, plan, from
<1>8. search \in Searching
  BY <1>1, <1>3, <1>5, <1>6 DEF Searching
<1>9. search.at = "search" /\ search.hits = << >> /\ search.plan = plan /\ search.left = remaining
      /\ search.from = from
  OBVIOUS
<1> HIDE DEF search
<1>10. next = Raised \/ next = Finished(search)
  OBVIOUS
<1>11. Finished(search) \in Searching
  BY <1>8, FinishedIs
<1> HIDE DEF next
<1>12. MemTypeOK' /\ Only(h) /\ task'[h] = next
  BY <1>7, <1>10, <1>11, SearchTyped
<1> QED
  BY <1>4, <1>5, <1>8, <1>9, <1>10, <1>12

LEMMA SearchContinues ==
  ASSUME MemTypeOK, NEW h \in Hosts, SearchStep(h), task[h].left # << >>
  PROVE  /\ MemTypeOK' /\ Only(h)
         /\ task[h] \in Searching
         /\ \E search \in Searching :
              /\ task'[h] = Finished(search)
              /\ search.at = "search" /\ search.query = task[h].query
              /\ search.left = Tail(task[h].left)
              /\ search.hits = task[h].hits \o HitsOf(Head(task[h].left), task[h].query)
              /\ search.plan = task[h].plan /\ search.from = task[h].from
<1> DEFINE old == task[h]
           answer == HitsOf(Head(old.left), old.query)
           hits == old.hits \o answer
           remaining == Tail(old.left)
           search == [old EXCEPT !.hits = hits, !.left = remaining]
<1>1. old \in Searching /\ old.at = "search"
  BY WaitsAt DEF SearchStep, MemTypeOK, Callers
<1>2. /\ old.left \in Seq(StoreMounts) /\ old.left # << >> /\ old.hits \in Seq(Hits)
      /\ old.query \in MemoryQueries
  BY <1>1 DEF Searching
<1>3. Head(old.left) \in StoreMounts /\ remaining \in Seq(StoreMounts)
  BY <1>2
<1>4. answer \in Seq(Hits)
  BY <1>2, <1>3, HitsFacts
<1>5. hits \in Seq(Hits)
  <2> HIDE DEF answer
  <2> QED
    BY <1>2, <1>4
<1>6. task' = [task EXCEPT ![h] = Finished(search)] /\ UNCHANGED <<mounts, records, buffer, decisions>>
  BY DEF SearchStep
<1> HIDE DEF remaining, hits, old
<1>7. search \in Searching
  BY <1>1, <1>3, <1>5 DEF Searching
<1>8. /\ search.at = "search" /\ search.query = old.query /\ search.left = remaining
      /\ search.hits = hits /\ search.plan = old.plan /\ search.from = old.from
  BY <1>1 DEF Searching
<1> HIDE DEF search
<1>9. Finished(search) \in Searching
  BY <1>7, FinishedIs
<1>10. MemTypeOK' /\ Only(h) /\ task'[h] = Finished(search)
  BY <1>6, <1>9, SearchTyped
<1> QED
  BY <1>1, <1>7, <1>8, <1>10 DEF old, remaining, hits, answer
-----------------------------------------------------------------------------
(* What a turn does to its run's buffer, with types.                        *)

ContentOf(b) == [i \in DOMAIN b.signals |-> b.signals[i].text]

\* The buffer b of run r when a turn has been counted, before it may be flushed.
BufferGrown(r, b) ==
  /\ b.turn = buffer[r].turn + 1 /\ b.seen = buffer[r].seen
  /\ \/ b.signals = buffer[r].signals /\ b.observed = buffer[r].observed
     \/ \E signal \in Signals :
          /\ signal.turn = buffer[r].turn
          /\ b.signals = Append(buffer[r].signals, signal)
          /\ b.observed = buffer[r].observed \cup {signal}

\* A flush of b, which asks the triage unless there is nothing new in it.
Emptied(r, b) ==
  /\ buffer'[r].signals = << >> /\ buffer'[r].turn = b.turn
  /\ buffer'[r].observed = b.observed /\ buffer'[r].last = b.last
Dropped(r, b) ==
  /\ Emptied(r, b)
  /\ b.signals = << >> \/ ContentOf(b) \in b.seen
  /\ buffer'[r].seen = b.seen /\ task'[r] = task[r]
Sent(r, b) ==
  /\ Emptied(r, b)
  /\ ContentOf(b) \notin b.seen /\ buffer'[r].seen = b.seen \cup {ContentOf(b)}
  /\ task'[r] \in Triaging /\ task'[r].content = ContentOf(b) /\ task'[r].turns = SignalTurns(b)

TurnEffect(r) ==
  /\ MemTypeOK' /\ Only(r)
  /\ \A q \in Refreshers \ {r} : buffer'[q] = buffer[q]
  /\ records' = records /\ decisions' = decisions
  /\ task[r].at = "idle"
  /\ \E b \in Buffers :
       /\ BufferGrown(r, b)
       /\ \/ buffer'[r] = b /\ task'[r] = task[r] /\ b.last \notin DoneStatuses
          \/ Dropped(r, b)
          \/ Sent(r, b)

LEMMA BufferFacts ==
  ASSUME NEW b \in Buffers
  PROVE  /\ ContentOf(b) \in Seq(MemoryTexts) /\ DOMAIN ContentOf(b) = DOMAIN b.signals
         /\ \A i \in DOMAIN b.signals : ContentOf(b)[i] = b.signals[i].text /\ b.signals[i] \in Signals
         /\ SignalTurns(b) \in SUBSET Nat
<1>1. b.signals \in Seq(Signals)
  BY DEF Buffers
<1>2. /\ DOMAIN b.signals = 1..Len(b.signals) /\ Len(b.signals) \in Nat
      /\ \A i \in DOMAIN b.signals : b.signals[i] \in Signals
  BY <1>1
<1>3. \A i \in DOMAIN b.signals : b.signals[i].text \in MemoryTexts /\ b.signals[i].turn \in Nat
  BY <1>2 DEF Signals
<1>4. ContentOf(b) \in [1..Len(b.signals) -> MemoryTexts]
  BY <1>2, <1>3 DEF ContentOf
<1>5. ContentOf(b) \in Seq(MemoryTexts)
  BY <1>2, <1>4
<1> QED
  BY <1>2, <1>3, <1>5 DEF ContentOf, SignalTurns

LEMMA Flushed ==
  ASSUME MemTypeOK, NEW r \in Refreshers, NEW b \in Buffers, Flush(r, b),
         UNCHANGED <<mounts, records, decisions>>
  PROVE  /\ MemTypeOK' /\ Only(r) /\ \A q \in Refreshers \ {r} : buffer'[q] = buffer[q]
         /\ Dropped(r, b) \/ Sent(r, b)
<1> DEFINE content == ContentOf(b)
           turns == SignalTurns(b)
           empty == [b EXCEPT !.signals = << >>]
           ask == [at |-> "triage", content |-> content, turns |-> turns]
<1>1. content \in Seq(MemoryTexts) /\ turns \in SUBSET Nat
  BY BufferFacts
<1>2. r \in Callers
  BY DEF Callers
<1>3. MountsOK'
  BY MountsKept DEF MemTypeOK
<1>4. << >> \in Seq(Signals)
  OBVIOUS
<1>5. CASE b.signals = << >> \/ content \in b.seen
  <2>1. buffer' = [buffer EXCEPT ![r] = empty] /\ task' = task
    BY <1>5 DEF Flush, ContentOf
  <2>2. /\ empty \in Buffers /\ empty.signals = << >> /\ empty.turn = b.turn /\ empty.seen = b.seen
        /\ empty.observed = b.observed /\ empty.last = b.last
    BY <1>4 DEF Buffers
  <2> HIDE DEF empty, content
  <2>3. /\ buffer' \in [Refreshers -> Buffers] /\ buffer'[r] = empty
        /\ \A q \in Refreshers \ {r} : buffer'[q] = buffer[q]
    BY <2>1, <2>2 DEF MemTypeOK
  <2>4. MemTypeOK' /\ Only(r)
    BY <1>2, <1>3, <2>1, <2>3 DEF MemTypeOK, Only, Waits
  <2>5. Dropped(r, b)
    BY <1>5, <2>1, <2>2, <2>3 DEF Dropped, Emptied, content
  <2> QED
    BY <2>3, <2>4, <2>5
<1>6. CASE ~(b.signals = << >> \/ content \in b.seen)
  <2> DEFINE taken == [b EXCEPT !.signals = << >>, !.seen = b.seen \cup {content}]
  <2>1. buffer' = [buffer EXCEPT ![r] = taken] /\ task' = [task EXCEPT ![r] = ask]
    BY <1>6 DEF Flush, Taken, ContentOf, SignalTurns
  <2> HIDE DEF content, turns
  <2>2. /\ taken \in Buffers /\ taken.signals = << >> /\ taken.turn = b.turn
        /\ taken.seen = b.seen \cup {content}
        /\ taken.observed = b.observed /\ taken.last = b.last
    BY <1>1, <1>4 DEF Buffers
  <2>3. ask \in Triaging /\ ask.content = content /\ ask.turns = turns
    BY <1>1 DEF Triaging
  <2> HIDE DEF taken, ask
  <2>4. /\ buffer' \in [Refreshers -> Buffers] /\ buffer'[r] = taken
        /\ \A q \in Refreshers \ {r} : buffer'[q] = buffer[q]
    BY <2>1, <2>2 DEF MemTypeOK
  <2>5. Only(r) /\ task'[r] = ask
    BY <1>2, <2>1, TaskSet DEF MemTypeOK
  <2>6. ask \in Waits(r)
    BY <2>3 DEF Waits
  <2>7. MemTypeOK'
    BY <1>2, <1>3, <2>4, <2>5, <2>6, TaskTyped DEF MemTypeOK
  <2>8. Sent(r, b)
    BY <1>6, <2>2, <2>3, <2>4, <2>5 DEF Sent, Emptied, content, turns
  <2> QED
    BY <2>4, <2>5, <2>7, <2>8
<1> QED
  BY <1>5, <1>6

LEMMA NotFlushed ==
  ASSUME MemTypeOK, NEW r \in Refreshers, NEW b \in Buffers,
         buffer' = [buffer EXCEPT ![r] = b], UNCHANGED <<task, mounts, records, decisions>>
  PROVE  /\ MemTypeOK' /\ Only(r) /\ \A q \in Refreshers \ {r} : buffer'[q] = buffer[q]
         /\ buffer'[r] = b /\ task'[r] = task[r]
<1>1. MountsOK'
  BY MountsKept DEF MemTypeOK
<1>2. /\ buffer' \in [Refreshers -> Buffers] /\ buffer'[r] = b
      /\ \A q \in Refreshers \ {r} : buffer'[q] = buffer[q]
  BY DEF MemTypeOK
<1> QED
  BY <1>1, <1>2 DEF MemTypeOK, Only, Waits

LEMMA TurnChangedEffect ==
  ASSUME MemTypeOK, NEW r \in Refreshers, NEW text \in MemoryTexts, NEW ended \in TurnStatuses,
         NEW aged \in BOOLEAN, TurnChanged(r, text, ended, aged)
  PROVE  TurnEffect(r)
<1> DEFINE old == buffer[r]
           signal == [text |-> text, turn |-> old.turn]
           next == old.turn + 1
           observed == old.observed \cup {signal}
           signals == Append(old.signals, signal)
           b == [old EXCEPT !.turn = next, !.last = ended, !.observed = observed,
                            !.signals = signals]
<1>1. old \in Buffers
  BY DEF MemTypeOK
<1>2. /\ old.turn \in Nat /\ old.signals \in Seq(Signals) /\ old.observed \in SUBSET Signals
  BY <1>1 DEF Buffers
<1>3. signal \in Signals /\ signal.turn = old.turn
  BY <1>2 DEF Signals
<1>4. /\ task[r].at = "idle" /\ UNCHANGED <<mounts, records, decisions>>
      /\ IF MustFlush(b, ended) \/ aged THEN Flush(r, b)
         ELSE buffer' = [buffer EXCEPT ![r] = b] /\ UNCHANGED task
  BY DEF TurnChanged
<1> HIDE DEF signal, old
<1>5. /\ signals \in Seq(Signals) /\ observed \in SUBSET Signals /\ next \in Nat
      /\ ended \in TurnStatuses \cup {"none"}
  BY <1>2, <1>3
<1> HIDE DEF next, observed, signals
<1>6. /\ b \in Buffers /\ b.turn = next /\ b.seen = old.seen /\ b.last = ended
      /\ b.signals = signals /\ b.observed = observed
  BY <1>1, <1>5 DEF Buffers
<1> HIDE DEF b
<1>7. BufferGrown(r, b)
  BY <1>3, <1>6 DEF BufferGrown, old, next, observed, signals
<1>8. CASE MustFlush(b, ended) \/ aged
  <2>1. Flush(r, b)
    BY <1>4, <1>8
  <2> QED
    BY <1>4, <1>6, <1>7, <2>1, Flushed DEF TurnEffect
<1>9. CASE ~(MustFlush(b, ended) \/ aged)
  <2>1. buffer' = [buffer EXCEPT ![r] = b] /\ UNCHANGED task
    BY <1>4, <1>9
  <2>2. b.last \notin DoneStatuses
    BY <1>6, <1>9 DEF MustFlush
  <2> QED
    BY <1>4, <1>6, <1>7, <2>1, <2>2, NotFlushed DEF TurnEffect
<1> QED
  BY <1>8, <1>9

LEMMA TurnUnchangedEffect ==
  ASSUME MemTypeOK, NEW r \in Refreshers, NEW ended \in TurnStatuses, TurnUnchanged(r, ended)
  PROVE  TurnEffect(r)
<1> DEFINE old == buffer[r]
           next == old.turn + 1
           b == [old EXCEPT !.turn = next, !.last = ended]
<1>1. old \in Buffers
  BY DEF MemTypeOK
<1>2. old.turn \in Nat
  BY <1>1 DEF Buffers
<1>3. /\ task[r].at = "idle" /\ UNCHANGED <<mounts, records, decisions>>
      /\ IF ended \in DoneStatuses THEN Flush(r, b)
         ELSE buffer' = [buffer EXCEPT ![r] = b] /\ UNCHANGED task
  BY DEF TurnUnchanged
<1>0. next \in Nat /\ ended \in TurnStatuses \cup {"none"}
  BY <1>2
<1> HIDE DEF old, next
<1>4. /\ b \in Buffers /\ b.turn = next /\ b.seen = old.seen /\ b.last = ended
      /\ b.signals = old.signals /\ b.observed = old.observed
  BY <1>0, <1>1 DEF Buffers
<1> HIDE DEF b
<1>5. BufferGrown(r, b)
  BY <1>4 DEF BufferGrown, old, next
<1>6. CASE ended \in DoneStatuses
  <2>1. Flush(r, b)
    BY <1>3, <1>6
  <2> QED
    BY <1>3, <1>4, <1>5, <2>1, Flushed DEF TurnEffect
<1>7. CASE ended \notin DoneStatuses
  <2>1. buffer' = [buffer EXCEPT ![r] = b] /\ UNCHANGED task
    BY <1>3, <1>7
  <2> QED
    BY <1>3, <1>4, <1>5, <1>7, <2>1, NotFlushed DEF TurnEffect
<1> QED
  BY <1>6, <1>7
-----------------------------------------------------------------------------
(* The other steps, with types.                                             *)

LEMMA StoredEffect ==
  ASSUME MemTypeOK, NEW c \in Callers, Stored(c)
  PROVE  /\ MemTypeOK' /\ Only(c) /\ task'[c] = Idle
         /\ task[c].at = "store" /\ task[c] \in Writing({Author(c)})
         /\ task[c].mount.store \in StoreIds
         /\ records'[task[c].mount.store] = Append(records[task[c].mount.store], task[c].item)
         /\ \A s \in StoreIds \ {task[c].mount.store} : records'[s] = records[s]
         /\ buffer' = buffer /\ decisions' = decisions
<1> DEFINE s == task[c].mount.store
           item == task[c].item
<1>1. /\ task[c].at = "store" /\ records' = [records EXCEPT ![s] = Append(records[s], item)]
      /\ task' = [task EXCEPT ![c] = Idle] /\ UNCHANGED <<mounts, buffer, decisions>>
  BY DEF Stored
<1>2. task[c] \in Writing({Author(c)})
  BY <1>1, WaitsAt DEF MemTypeOK
<1>3. s \in StoreIds /\ item \in ItemsBy({Author(c)})
  BY <1>2, MemoryAssumption DEF Writing
<1>4. item \in MemItems
  BY <1>3, AuthorsItems
<1> HIDE DEF s, item
<1>5. /\ records' \in [StoreIds -> Seq(MemItems)] /\ records'[s] = Append(records[s], item)
      /\ \A t \in StoreIds \ {s} : records'[t] = records[t]
  BY <1>1, <1>3, <1>4 DEF MemTypeOK
<1>6. Only(c) /\ task'[c] = Idle
  BY <1>1, TaskSet DEF MemTypeOK
<1>7. Idle \in Waits(c) /\ MountsOK'
  BY <1>1, MountsKept DEF Waits, MemTypeOK
<1>8. MemTypeOK'
  BY <1>1, <1>5, <1>6, <1>7, TaskTyped DEF MemTypeOK
<1> QED
  BY <1>1, <1>2, <1>3, <1>5, <1>6, <1>8 DEF s, item

LEMMA RaisedEffect ==
  ASSUME MemTypeOK, NEW c \in Callers, PortRaises(c)
  PROVE  /\ MemTypeOK' /\ Only(c) /\ task'[c] = Raised
         /\ records' = records /\ buffer' = buffer /\ decisions' = decisions
<1>1. task' = [task EXCEPT ![c] = Raised] /\ UNCHANGED <<mounts, records, buffer, decisions>>
  BY DEF PortRaises
<1>2. Only(c) /\ task'[c] = Raised
  BY <1>1, TaskSet DEF MemTypeOK
<1>3. Raised \in Waits(c) /\ MountsOK'
  BY <1>1, MountsKept DEF Waits, MemTypeOK
<1>4. MemTypeOK'
  BY <1>1, <1>2, <1>3, TaskTyped DEF MemTypeOK
<1> QED
  BY <1>1, <1>2, <1>4

LEMMA HostWritesEffect ==
  ASSUME MemTypeOK, NEW h \in Hosts, NEW item \in HostItems, HostWrites(h, item)
  PROVE  /\ MemTypeOK' /\ Only(h)
         /\ records' = records /\ buffer' = buffer /\ decisions' = decisions
         /\ task'[h].at = "store" => ~Governed
         /\ task'[h].at \notin {"search", "found", "triage"}
<1>1. h \in Callers /\ h \notin Refreshers
  BY MemoryAssumption DEF Callers
<1>2. item \in ItemsBy({Author(h)})
  BY <1>1, MemoryAssumption DEF Author
<1>3. BeginWrite(h, item) /\ UNCHANGED <<mounts, records, buffer, decisions>>
  BY DEF HostWrites
<1>4. /\ Only(h) /\ task'[h] \in Waits(h)
      /\ \/ task'[h] = Raised
         \/ task'[h].at = IF Governed THEN "authorize" ELSE "store"
  BY <1>1, <1>2, <1>3, BegunWrite
<1>5. MountsOK'
  BY <1>3, MountsKept DEF MemTypeOK
<1>6. MemTypeOK'
  BY <1>1, <1>3, <1>4, <1>5, TaskTyped DEF MemTypeOK
<1> QED
  BY <1>3, <1>4, <1>6 DEF Raised

LEMMA TriagedEffect ==
  ASSUME MemTypeOK, NEW r \in Refreshers, Triaged(r), NEW old, old = task[r]
  PROVE  /\ MemTypeOK' /\ Only(r) /\ old \in Triaging
         /\ records' = records /\ buffer' = buffer /\ decisions' = decisions
         /\ \/ task'[r] = Idle /\ SizeOf(old.content) < TriageMinimum
            \/ task'[r] = Raised
            \/ /\ task'[r] \in Writing({r})
               /\ task'[r].at = IF Governed THEN "authorize" ELSE "store"
               /\ task'[r].item.turns = old.turns
               /\ task'[r].item.cut \/ task'[r].item.content = old.content
<1> DEFINE content == old.content
           short == CutTo(content, TriageMaximum)
           isCut == SizeOf(content) > TriageMaximum
           item == Item(r, short, old.turns, isCut, "project", NoBucket, FALSE, 1, NoStore)
<1>1. old.at = "triage" /\ UNCHANGED <<mounts, records, buffer, decisions>>
      /\ IF SizeOf(content) < TriageMinimum THEN task' = [task EXCEPT ![r] = Idle]
         ELSE BeginWrite(r, item)
  BY DEF Triaged
<1>2. r \in Callers /\ Author(r) = r
  BY DEF Callers, Author
<1>3. old \in Triaging
  BY <1>1, <1>2, WaitsAt DEF MemTypeOK
<1>4. content \in Seq(MemoryTexts) /\ old.turns \in SUBSET Nat /\ TriageMaximum \in Nat
  BY <1>3, MemoryAssumption DEF Triaging
<1>5. /\ short \in Seq(MemoryTexts) /\ SizeOf(content) \in Nat
      /\ SizeOf(content) <= TriageMaximum => short = content
  BY <1>4, CutFacts, SizeFacts
<1>6. isCut \in BOOLEAN /\ (isCut \/ short = content)
  <2>1. isCut \in BOOLEAN
    OBVIOUS
  <2>2. ASSUME ~(SizeOf(content) > TriageMaximum) PROVE short = content
    <3>1. SizeOf(content) <= TriageMaximum
      BY <1>4, <1>5, <2>2
    <3> QED
      BY <1>5, <3>1
  <2> QED
    BY <2>1, <2>2
<1>7. MountsOK'
  BY <1>1, MountsKept DEF MemTypeOK
<1>8. CASE SizeOf(content) < TriageMinimum
  <2>1. task' = [task EXCEPT ![r] = Idle]
    BY <1>1, <1>8
  <2>2. Only(r) /\ task'[r] = Idle
    BY <1>2, <2>1, TaskSet DEF MemTypeOK
  <2>3. Idle \in Waits(r)
    BY DEF Waits
  <2>4. MemTypeOK'
    BY <1>1, <1>2, <1>7, <2>2, <2>3, TaskTyped DEF MemTypeOK
  <2> QED
    BY <1>1, <1>3, <1>8, <2>2, <2>4
<1>9. CASE ~(SizeOf(content) < TriageMinimum)
  <2>1. BeginWrite(r, item)
    BY <1>1, <1>9
  <2> HIDE DEF short, isCut, content
  <2>2. /\ item \in ItemsBy({r}) /\ item.content = short /\ item.turns = old.turns
        /\ item.cut = isCut
    <3>1. /\ short \in Seq(MemoryTexts) /\ old.turns \in SUBSET Nat /\ isCut \in BOOLEAN
          /\ "project" \in Scopes /\ NoBucket \in STRING \cup {NoBucket} /\ FALSE \in BOOLEAN
          /\ 1 \in Nat /\ NoStore \in STRING \cup {NoStore}
      BY <1>4, <1>5, <1>6 DEF Scopes
    <3> QED
      BY <3>1 DEF Item, ItemsBy
  <2> HIDE DEF item
  <2>3. /\ Only(r) /\ task'[r] \in Waits(r)
        /\ \/ task'[r] = Raised
           \/ /\ task'[r] \in Writing({r})
              /\ task'[r].at = IF Governed THEN "authorize" ELSE "store"
              /\ task'[r].item.content = item.content /\ task'[r].item.turns = item.turns
              /\ task'[r].item.cut = item.cut
    BY <1>2, <2>1, <2>2, BegunWrite
  <2>4. MemTypeOK'
    BY <1>1, <1>2, <1>7, <2>3, TaskTyped DEF MemTypeOK
  <2>5. task'[r] = Raised \/ (task'[r].item.cut = isCut /\ task'[r].item.content = short
                               /\ task'[r].item.turns = old.turns)
    BY <2>2, <2>3
  <2>6. task'[r] = Raised \/ task'[r].item.cut \/ task'[r].item.content = content
    BY <1>6, <2>5
  <2> QED
    BY <1>1, <1>3, <2>3, <2>4, <2>5, <2>6 DEF content
<1> QED
  BY <1>8, <1>9

LEMMA MemInitTypes == MemoryInit => MemTypeOK
<1> SUFFICES ASSUME MemoryInit PROVE MemTypeOK
  OBVIOUS
<1>1. MountsOK
  <2>1. mounts = << >> /\ DOMAIN mounts = {}
    BY DEF MemoryInit
  <2>2. IsFiniteSet(DOMAIN mounts)
    BY <2>1, FS_EmptySet
  <2> QED
    BY <2>1, <2>2 DEF MountsOK
<1>2. records \in [StoreIds -> Seq(MemItems)]
  <2>1. << >> \in Seq(MemItems)
    OBVIOUS
  <2> QED
    BY <2>1 DEF MemoryInit
<1>3. buffer \in [Refreshers -> Buffers]
  <2>1. << >> \in Seq(Signals) /\ 0 \in Nat
    OBVIOUS
  <2>2. [signals |-> << >>, seen |-> {}, turn |-> 0, observed |-> {}, last |-> "none"] \in Buffers
    BY <2>1 DEF Buffers
  <2> QED
    BY <2>2 DEF MemoryInit
<1>4. /\ DOMAIN task = Callers /\ task = [c \in Callers |-> task[c]]
      /\ \A c \in Callers : task[c] \in Waits(c)
  BY DEF MemoryInit, Waits
<1>5. decisions \in Seq(MemDecisions)
  BY DEF MemoryInit
<1> QED
  BY <1>1, <1>2, <1>3, <1>4, <1>5 DEF MemTypeOK

\* Steps that end without a change.
LEMMA MemStutterTypes ==
  ASSUME MemTypeOK, UNCHANGED memoryVars
  PROVE  MemTypeOK'
<1>1. UNCHANGED <<mounts, records, buffer, task, decisions>>
  BY DEF memoryVars
<1>2. MountsOK'
  BY <1>1, MountsKept DEF MemTypeOK
<1> QED
  BY <1>1, <1>2 DEF MemTypeOK, Waits
-----------------------------------------------------------------------------
(* What is governed.                                                        *)

\* What a store holds stays there, and what c writes comes behind it.
Grows(c) ==
  /\ \A s \in StoreIds :
       /\ Len(records[s]) <= Len(records'[s])
       /\ \A i \in DOMAIN records[s] : i \in DOMAIN records'[s] /\ records'[s][i] = records[s][i]
  /\ \A s \in StoreIds : \A i \in DOMAIN records'[s] :
       \/ i \in DOMAIN records[s] /\ records'[s][i] = records[s][i]
       \/ task[c].at = "store" /\ records'[s][i] = task[c].item

LEMMA SameGrows ==
  ASSUME MemTypeOK, NEW c, records' = records
  PROVE  Grows(c)
<1>1. \A s \in StoreIds : Len(records[s]) \in Nat
  BY DEF MemTypeOK
<1> QED
  BY <1>1 DEF Grows

LEMMA StoredGrows ==
  ASSUME MemTypeOK, NEW c \in Callers, Stored(c)
  PROVE  /\ Grows(c)
         /\ \E s \in StoreIds :
              /\ Len(records[s]) + 1 \in DOMAIN records'[s]
              /\ records'[s][Len(records[s]) + 1] = task[c].item
              /\ \A t \in StoreIds : \A i \in DOMAIN records'[t] :
                   i \in DOMAIN records[t] \/ (t = s /\ i = Len(records[s]) + 1)
<1>1. PICK item : item = task[c].item
  OBVIOUS
<1>2. PICK t : t = task[c].mount.store
  OBVIOUS
<1>3. /\ task[c].at = "store" /\ item \in ItemsBy({Author(c)}) /\ t \in StoreIds
      /\ records'[t] = Append(records[t], item)
      /\ \A s \in StoreIds \ {t} : records'[s] = records[s]
  BY <1>1, <1>2, StoredEffect DEF Writing
<1>4. item \in MemItems /\ \A s \in StoreIds : records[s] \in Seq(MemItems)
  BY <1>3, AuthorsItems DEF MemTypeOK
<1>5. /\ Len(records'[t]) = Len(records[t]) + 1 /\ records'[t][Len(records[t]) + 1] = item
      /\ DOMAIN records[t] = 1 .. Len(records[t]) /\ DOMAIN records'[t] = 1 .. (Len(records[t]) + 1)
      /\ \A i \in DOMAIN records[t] : records'[t][i] = records[t][i]
      /\ \A s \in StoreIds : Len(records[s]) \in Nat
  BY <1>3, <1>4
<1>6. Grows(c)
  <2>1. ASSUME NEW s \in StoreIds
        PROVE  /\ Len(records[s]) <= Len(records'[s])
               /\ \A i \in DOMAIN records[s] : i \in DOMAIN records'[s] /\ records'[s][i] = records[s][i]
               /\ \A i \in DOMAIN records'[s] :
                    \/ i \in DOMAIN records[s] /\ records'[s][i] = records[s][i]
                    \/ records'[s][i] = item
    <3>1. CASE s = t
      BY <1>5, <3>1
    <3>2. CASE s # t
      BY <1>3, <1>5, <3>2
    <3> QED
      BY <3>1, <3>2
  <2> QED
    BY <1>1, <1>3, <2>1 DEF Grows
<1>7. \A s \in StoreIds : \A i \in DOMAIN records'[s] :
        i \in DOMAIN records[s] \/ (s = t /\ i = Len(records[t]) + 1)
  BY <1>3, <1>5
<1>8. Len(records[t]) + 1 \in DOMAIN records'[t]
  BY <1>5
<1> QED
  BY <1>1, <1>3, <1>5, <1>6, <1>7, <1>8

\* A step of c keeps it when it loses no decision and brings c only to what has passed.
LEMMA GovernedStep ==
  ASSUME GovernedInv, NEW c \in Callers, Only(c), Grows(c),
         \A item : Passed(decisions, item) => Passed(decisions', item),
         (Governed /\ task'[c].at = "store") => Passed(decisions', task'[c].item)
  PROVE  GovernedInv'
<1>1. ASSUME Governed, NEW s \in StoreIds, NEW i \in DOMAIN records'[s]
      PROVE  Passed(decisions', records'[s][i])
  <2>1. Passed(decisions, records'[s][i])
    BY <1>1 DEF GovernedInv, Grows
  <2> QED
    BY <2>1
<1>2. ASSUME Governed, NEW d \in Callers, task'[d].at = "store"
      PROVE  Passed(decisions', task'[d].item)
  <2>1. CASE d = c
    BY <1>2, <2>1
  <2>2. CASE d # c
    <3>1. task'[d] = task[d]
      BY <2>2 DEF Only
    <3>2. Passed(decisions, task[d].item)
      BY <1>2, <3>1 DEF GovernedInv
    <3> QED
      BY <3>1, <3>2
  <2> QED
    BY <2>1, <2>2
<1> QED
  BY <1>1, <1>2 DEF GovernedInv

\* A caller that does not come to a store as governed changes nothing.
LEMMA GovernedKept ==
  ASSUME MemTypeOK, GovernedInv, NEW c \in Callers, Only(c), records' = records,
         decisions' = decisions, task'[c].at = "store" => ~Governed
  PROVE  GovernedInv'
  BY SameGrows, GovernedStep

LEMMA GovernedStored ==
  ASSUME MemTypeOK, GovernedInv, NEW c \in Callers, Stored(c)
  PROVE  GovernedInv'
<1>1. Only(c) /\ task'[c] = Idle /\ decisions' = decisions /\ Grows(c)
  BY StoredEffect, StoredGrows
<1>2. task'[c].at # "store"
  BY <1>1 DEF Idle
<1> QED
  BY <1>1, <1>2, GovernedStep

LEMMA GovernedAuthorized ==
  ASSUME MemTypeOK, GovernedInv, NEW c \in Callers, Authorized(c)
  PROVE  GovernedInv'
<1>0. PICK item : item = task[c].item
  OBVIOUS
<1> DEFINE passed == Rewritten(item)
           decision == [allowed |-> ~Denied(item), item |-> IF Denied(item) THEN item ELSE passed,
                        store |-> task[c].mount.spec.name]
<1>1. /\ MemTypeOK' /\ Only(c) /\ item \in ItemsBy({Author(c)})
      /\ decisions' = Append(decisions, decision)
      /\ \/ Denied(item) /\ task'[c] = Raised
         \/ ~Denied(item) /\ task'[c].at = "store" /\ task'[c].item = passed
  BY <1>0, AuthorizedTypes DEF Writing
<1>2. Grows(c)
  BY SameGrows DEF Authorized
<1>3. /\ SizeOf(passed.content) <= MaxContent
      /\ passed.leaks <=> item.leaks
      /\ passed.scope = item.scope /\ passed.bucket = item.bucket
  BY <1>1, RewrittenFacts
<1>4. decision.allowed <=> ~Denied(item)
  OBVIOUS
<1>5. decision.item = IF Denied(item) THEN item ELSE passed
  OBVIOUS
<1> HIDE DEF passed, decision
<1>6. decisions \in Seq(MemDecisions) /\ decisions' \in Seq(MemDecisions)
  BY <1>1 DEF MemTypeOK
<1>7. /\ Len(decisions) + 1 \in DOMAIN decisions' /\ decisions'[Len(decisions) + 1] = decision
      /\ \A i \in DOMAIN decisions : i \in DOMAIN decisions' /\ decisions'[i] = decisions[i]
  BY <1>1, <1>6
<1>8. \A x : Passed(decisions, x) => Passed(decisions', x)
  BY <1>7 DEF Passed
<1>9. ASSUME ~Denied(item) PROVE Passed(decisions', passed)
  <2>1. \E i \in DOMAIN decisions' : decisions'[i].allowed /\ decisions'[i].item = passed
    <3>1. decision.allowed /\ decision.item = passed
      BY <1>4, <1>5, <1>9
    <3> QED
      BY <1>7, <3>1
  <2>2. passed.leaks => ~Protected(passed)
    BY <1>3, <1>9 DEF Denied, Protected
  <2>3. passed.scope = "global" => passed.bucket # NoBucket
    BY <1>3, <1>9 DEF Denied
  <2> QED
    BY <1>3, <2>1, <2>2, <2>3 DEF Passed
<1>10. task'[c].at = "store" => Passed(decisions', task'[c].item)
  BY <1>1, <1>9 DEF Raised
<1> QED
  BY <1>1, <1>2, <1>8, <1>10, GovernedStep
-----------------------------------------------------------------------------
(* What a run flushes.                                                      *)

\* What is on its way is told by the task of the run.
LEMMA UnderWayIs ==
  ASSUME NEW r
  PROVE  /\ task[r].at \in {"idle", "raised"} => TurnsUnderWay(r) = {} /\ ContentsUnderWay(r) = {}
         /\ task[r] \in Triaging => /\ TurnsUnderWay(r) = task[r].turns
                                    /\ ContentsUnderWay(r) = {task[r].content}
         /\ \A authors : task[r] \in Writing(authors) =>
              /\ TurnsUnderWay(r) = task[r].item.turns
              /\ \A content : content \in ContentsUnderWay(r) <=>
                                ~task[r].item.cut /\ content = task[r].item.content
<1>1. ASSUME task[r].at \in {"idle", "raised"}
      PROVE  TurnsUnderWay(r) = {} /\ ContentsUnderWay(r) = {}
  BY <1>1 DEF TurnsUnderWay, ContentsUnderWay
<1>2. ASSUME task[r] \in Triaging
      PROVE  TurnsUnderWay(r) = task[r].turns /\ ContentsUnderWay(r) = {task[r].content}
  <2>1. task[r].at = "triage" /\ task[r].turns \in SUBSET Nat /\ task[r].content \in Seq(MemoryTexts)
    BY <1>2 DEF Triaging
  <2> QED
    BY <2>1 DEF TurnsUnderWay, ContentsUnderWay
<1>3. ASSUME NEW authors, task[r] \in Writing(authors)
      PROVE  /\ TurnsUnderWay(r) = task[r].item.turns
             /\ \A content : content \in ContentsUnderWay(r) <=>
                               ~task[r].item.cut /\ content = task[r].item.content
  <2>1. task[r].at \in {"authorize", "store"} /\ task[r].item \in ItemsBy(authors)
    BY <1>3 DEF Writing
  <2>2. task[r].item.turns \in SUBSET Nat /\ task[r].item.content \in Seq(MemoryTexts)
    BY <2>1 DEF ItemsBy
  <2> QED
    BY <2>1, <2>2 DEF TurnsUnderWay, ContentsUnderWay
<1> QED
  BY <1>1, <1>2, <1>3

\* A run whose buffer stays, and that writes nothing, has no more on its way than before.
LEMMA FlushShrinks ==
  ASSUME NEW r \in Refreshers, FlushFor(r, buffer[r]), buffer'[r] = buffer[r],
         \A s \in StoreIds : \A i \in DOMAIN records'[s] : records'[s][i].by = r =>
           i \in DOMAIN records[s] /\ records'[s][i] = records[s][i],
         TurnsUnderWay(r)' \subseteq TurnsUnderWay(r),
         ContentsUnderWay(r)' \subseteq ContentsUnderWay(r)
  PROVE  FlushFor(r, buffer[r])'
<1>1. SignalTurns(buffer[r])' = SignalTurns(buffer[r])
  BY DEF SignalTurns
<1>2. \A n \in SignalTurns(buffer[r])' \cup TurnsUnderWay(r)' : n < buffer'[r].turn
  BY <1>1 DEF FlushFor
<1>3. /\ SignalTurns(buffer[r])' \cap TurnsUnderWay(r)' = {}
      /\ ContentsUnderWay(r)' \subseteq buffer'[r].seen
  BY <1>1 DEF FlushFor
<1>4. ASSUME NEW s \in StoreIds, NEW i \in DOMAIN records'[s], records'[s][i].by = r
      PROVE  /\ \A n \in records'[s][i].turns :
                  n < buffer'[r].turn /\ n \notin SignalTurns(buffer[r])' /\ n \notin TurnsUnderWay(r)'
             /\ ~records'[s][i].cut =>
                  /\ records'[s][i].content \in buffer'[r].seen
                  /\ records'[s][i].content \notin ContentsUnderWay(r)'
  BY <1>1, <1>4 DEF FlushFor
<1> QED
  BY <1>2, <1>3, <1>4 DEF FlushFor

\* A step of c changes no other run.
LEMMA FlushOthers ==
  ASSUME MemTypeOK, FlushInv, NEW c \in Callers, Only(c), Grows(c),
         NEW r \in Refreshers, r # c, buffer'[r] = buffer[r]
  PROVE  FlushFor(r, buffer[r])'
<1>1. r \in Callers /\ task'[r] = task[r]
  BY DEF Only, Callers
<1>2. ASSUME NEW s \in StoreIds, NEW i \in DOMAIN records'[s], records'[s][i].by = r
      PROVE  i \in DOMAIN records[s] /\ records'[s][i] = records[s][i]
  <2>1. SUFFICES ASSUME task[c].at = "store", records'[s][i] = task[c].item PROVE FALSE
    BY <1>2 DEF Grows
  <2>2. task[c] \in Writing({Author(c)})
    BY <2>1, WaitsAt DEF MemTypeOK
  <2>3. task[c].item \in ItemsBy({Author(c)})
    BY <2>2 DEF Writing
  <2> QED
    BY <1>2, <2>1, <2>3, AuthorsItems
<1>3. TurnsUnderWay(r)' = TurnsUnderWay(r) /\ ContentsUnderWay(r)' = ContentsUnderWay(r)
  BY <1>1 DEF TurnsUnderWay, ContentsUnderWay
<1> QED
  BY <1>2, <1>3, FlushShrinks DEF FlushInv

\* A step of c that writes nothing and brings nothing more on its way.
LEMMA FlushKept ==
  ASSUME MemTypeOK, FlushInv, NEW c \in Callers, Only(c), records' = records, buffer' = buffer,
         c \in Refreshers => /\ TurnsUnderWay(c)' \subseteq TurnsUnderWay(c)
                             /\ ContentsUnderWay(c)' \subseteq ContentsUnderWay(c)
  PROVE  FlushInv'
<1> SUFFICES ASSUME NEW r \in Refreshers PROVE FlushFor(r, buffer[r])'
  BY DEF FlushInv
<1>1. CASE r = c
  BY <1>1, FlushShrinks DEF FlushInv
<1>2. CASE r # c
  BY <1>2, SameGrows, FlushOthers
<1> QED
  BY <1>1, <1>2
LEMMA FlushGrown ==
  ASSUME MemTypeOK, FlushInv, NEW r \in Refreshers, task[r].at = "idle", NEW b \in Buffers, BufferGrown(r, b)
  PROVE  FlushFor(r, b)
<1>0. PICK old : old = buffer[r]
  OBVIOUS
<1>1. old \in Buffers /\ FlushFor(r, old)
  BY <1>0 DEF MemTypeOK, FlushInv
<1>2. old.turn \in Nat /\ old.signals \in Seq(Signals)
  BY <1>1 DEF Buffers
<1>3. TurnsUnderWay(r) = {} /\ ContentsUnderWay(r) = {}
  BY UnderWayIs
<1>4. \A n \in SignalTurns(b) : n \in SignalTurns(old) \/ n = old.turn
  <2>1. CASE b.signals = old.signals
    BY <2>1 DEF SignalTurns
  <2>2. ASSUME NEW signal \in Signals, signal.turn = old.turn, b.signals = Append(old.signals, signal)
        PROVE  \A n \in SignalTurns(b) : n \in SignalTurns(old) \/ n = old.turn
    <3>1. \A i \in DOMAIN b.signals : b.signals[i] = signal \/ (i \in DOMAIN old.signals /\ b.signals[i] = old.signals[i])
      BY <1>2, <2>2
    <3> QED
      BY <2>2, <3>1 DEF SignalTurns
  <2> QED
    BY <1>0, <2>1, <2>2 DEF BufferGrown
<1>5. b.turn = old.turn + 1 /\ b.seen = old.seen
  BY <1>0 DEF BufferGrown
<1>6. SignalTurns(old) \in SUBSET Nat /\ \A n \in SignalTurns(old) : n < old.turn
  BY <1>1, BufferFacts DEF FlushFor
<1>7. \A n \in SignalTurns(b) : n < b.turn
  BY <1>2, <1>4, <1>5, <1>6
<1>8. ASSUME NEW s \in StoreIds, NEW i \in DOMAIN records[s], records[s][i].by = r
      PROVE  /\ \A n \in records[s][i].turns : n < b.turn /\ n \notin SignalTurns(b)
             /\ ~records[s][i].cut => records[s][i].content \in b.seen
  <2>1. /\ \A n \in records[s][i].turns : n < old.turn /\ n \notin SignalTurns(old)
        /\ ~records[s][i].cut => records[s][i].content \in old.seen
    BY <1>1, <1>8 DEF FlushFor
  <2>2. records[s][i] \in MemItems
    BY <1>8 DEF MemTypeOK
  <2>3. records[s][i].turns \subseteq Nat
    BY <2>2 DEF MemItems, ItemsBy
  <2> QED
    BY <1>2, <1>4, <1>5, <2>1, <2>3
<1> QED
  BY <1>3, <1>7, <1>8 DEF FlushFor

LEMMA FlushTurn ==
  ASSUME MemTypeOK, FlushInv, NEW r \in Refreshers, TurnEffect(r)
  PROVE  FlushInv'
<1>1. PICK b \in Buffers :
        /\ BufferGrown(r, b)
        /\ \/ buffer'[r] = b /\ task'[r] = task[r]
           \/ Dropped(r, b)
           \/ Sent(r, b)
  BY DEF TurnEffect
<1>2. /\ Only(r) /\ task[r].at = "idle" /\ records' = records
      /\ \A q \in Refreshers \ {r} : buffer'[q] = buffer[q]
  BY DEF TurnEffect
<1>3. FlushFor(r, b)
  BY <1>1, <1>2, FlushGrown
<1>4. TurnsUnderWay(r) = {} /\ ContentsUnderWay(r) = {}
  BY <1>2, UnderWayIs
<1>5. FlushFor(r, buffer[r])'
  <2>0. PICK new : new = buffer'[r]
    OBVIOUS
  <2>1. CASE new = b /\ task'[r] = task[r]
    <3>1. TurnsUnderWay(r)' = {} /\ ContentsUnderWay(r)' = {}
      BY <1>4, <2>1 DEF TurnsUnderWay, ContentsUnderWay
    <3> QED
      BY <1>2, <1>3, <2>0, <2>1, <3>1 DEF FlushFor
  <2>2. CASE Dropped(r, b)
    <3>1. TurnsUnderWay(r)' = {} /\ ContentsUnderWay(r)' = {}
      BY <1>4, <2>2 DEF TurnsUnderWay, ContentsUnderWay, Dropped
    <3>2. new.signals = << >> /\ new.turn = b.turn /\ new.seen = b.seen
      BY <2>0, <2>2 DEF Dropped, Emptied
    <3>3. SignalTurns(new) = {}
      BY <3>2 DEF SignalTurns
    <3> QED
      BY <1>2, <1>3, <2>0, <3>1, <3>2, <3>3 DEF FlushFor
  <2>3. CASE Sent(r, b)
    <3>1. /\ TurnsUnderWay(r)' = SignalTurns(b) /\ ContentsUnderWay(r)' = {ContentOf(b)}
      <4>1. /\ task'[r] \in Triaging /\ task'[r].content = ContentOf(b)
            /\ task'[r].turns = SignalTurns(b)
        BY <2>3 DEF Sent
      <4>2. task'[r].at = "triage" /\ SignalTurns(b) \in SUBSET Nat /\ ContentOf(b) \in Seq(MemoryTexts)
        BY <4>1 DEF Triaging
      <4> QED
        BY <4>1, <4>2 DEF TurnsUnderWay, ContentsUnderWay
    <3>2. /\ new.signals = << >> /\ new.turn = b.turn
          /\ new.seen = b.seen \cup {ContentOf(b)} /\ ContentOf(b) \notin b.seen
      BY <2>0, <2>3 DEF Sent, Emptied
    <3>3. SignalTurns(new) = {}
      BY <3>2 DEF SignalTurns
    <3> QED
      BY <1>2, <1>3, <2>0, <3>1, <3>2, <3>3 DEF FlushFor
  <2> QED
    BY <1>1, <2>0, <2>1, <2>2, <2>3
<1> SUFFICES ASSUME NEW q \in Refreshers, q # r PROVE FlushFor(q, buffer[q])'
  BY <1>5 DEF FlushInv
<1>6. r \in Callers
  BY DEF Callers
<1> QED
  BY <1>2, <1>6, SameGrows, FlushOthers

\* What a run's write adds was on its way until then.
LEMMA FlushStored ==
  ASSUME MemTypeOK, FlushInv, FlushedOnce, NEW c \in Callers, Stored(c)
  PROVE  FlushInv' /\ FlushedOnce'
<1>0. PICK item : item = task[c].item
  OBVIOUS
<1>1. /\ Only(c) /\ Grows(c) /\ task'[c] = Idle /\ task[c].at = "store" /\ buffer' = buffer
      /\ task[c] \in Writing({Author(c)}) /\ item \in ItemsBy({Author(c)})
  BY <1>0, StoredEffect, StoredGrows DEF Writing
<1>2. PICK t \in StoreIds :
        /\ records'[t][Len(records[t]) + 1] = item
        /\ \A s \in StoreIds : \A i \in DOMAIN records'[s] :
             i \in DOMAIN records[s] \/ (s = t /\ i = Len(records[t]) + 1)
  BY <1>0, StoredGrows
<1>3. item.by = Author(c) /\ \A r \in Refreshers : item.by = r => r = c
  BY <1>1, AuthorsItems
<1>4. \A s \in StoreIds : \A i \in DOMAIN records[s] : i \in DOMAIN records'[s] /\ records'[s][i] = records[s][i]
  BY <1>1 DEF Grows
<1>5. c \in Refreshers =>
        /\ TurnsUnderWay(c) = item.turns
        /\ \A content : content \in ContentsUnderWay(c) <=> ~item.cut /\ content = item.content
        /\ TurnsUnderWay(c)' = {} /\ ContentsUnderWay(c)' = {}
  <2>1. TurnsUnderWay(c)' = {} /\ ContentsUnderWay(c)' = {}
    BY <1>1 DEF TurnsUnderWay, ContentsUnderWay, Idle
  <2> QED
    BY <1>0, <1>1, <2>1, UnderWayIs
<1>6. ASSUME NEW r \in Refreshers PROVE FlushFor(r, buffer[r])'
  <2>1. CASE r # c
    BY <1>1, <2>1, FlushOthers
  <2>2. CASE r = c
    <3>1. PICK b : b = buffer[r] /\ b = buffer'[r]
      BY <1>1
    <3>2. FlushFor(r, b) /\ TurnsUnderWay(r)' = {} /\ ContentsUnderWay(r)' = {}
      BY <1>5, <2>2, <3>1 DEF FlushInv
    <3>3. ASSUME NEW s \in StoreIds, NEW i \in DOMAIN records'[s], records'[s][i].by = r
          PROVE  /\ \A n \in records'[s][i].turns : n < b.turn /\ n \notin SignalTurns(b)
                 /\ ~records'[s][i].cut => records'[s][i].content \in b.seen
      <4>1. CASE i \in DOMAIN records[s]
        BY <1>4, <3>2, <3>3, <4>1 DEF FlushFor
      <4>2. CASE s = t /\ i = Len(records[t]) + 1
        <5>1. records'[s][i] = item
          BY <1>2, <4>2
        <5> QED
          BY <1>5, <2>2, <3>2, <5>1 DEF FlushFor
      <4> QED
        BY <1>2, <4>1, <4>2
    <3> QED
      BY <3>1, <3>2, <3>3 DEF FlushFor
  <2> QED
    BY <2>1, <2>2
<1>7. ASSUME NEW s \in StoreIds, NEW i \in DOMAIN records[s], item.by \in Refreshers, records[s][i].by = item.by
      PROVE  /\ item.turns \cap records[s][i].turns = {}
             /\ (~item.cut /\ ~records[s][i].cut) => item.content # records[s][i].content
  <2>1. c \in Refreshers /\ item.by = c
    BY <1>3, <1>7
  <2>2. FlushFor(c, buffer[c])
    BY <2>1 DEF FlushInv
  <2> QED
    BY <1>5, <1>7, <2>1, <2>2 DEF FlushFor
<1>8. FlushedOnce'
  <2> SUFFICES ASSUME NEW s \in StoreIds, NEW u \in StoreIds,
                      NEW i \in DOMAIN records'[s], NEW j \in DOMAIN records'[u],
                      records'[s][i].by \in Refreshers, records'[u][j].by = records'[s][i].by,
                      <<s, i>> # <<u, j>>
               PROVE  /\ records'[s][i].turns \cap records'[u][j].turns = {}
                      /\ (~records'[s][i].cut /\ ~records'[u][j].cut) =>
                           records'[s][i].content # records'[u][j].content
    BY DEF FlushedOnce
  <2>1. CASE i \in DOMAIN records[s] /\ j \in DOMAIN records[u]
    <3>1. records'[s][i] = records[s][i] /\ records'[u][j] = records[u][j]
      BY <1>4, <2>1
    <3> QED
      BY <2>1, <3>1 DEF FlushedOnce
  <2>2. CASE i \in DOMAIN records[s] /\ u = t /\ j = Len(records[t]) + 1
    <3>1. records'[s][i] = records[s][i] /\ records'[u][j] = item
      BY <1>2, <1>4, <2>2
    <3> QED
      BY <1>7, <2>2, <3>1
  <2>3. CASE s = t /\ i = Len(records[t]) + 1 /\ j \in DOMAIN records[u]
    <3>1. records'[s][i] = item /\ records'[u][j] = records[u][j]
      BY <1>2, <1>4, <2>3
    <3> QED
      BY <1>7, <2>3, <3>1
  <2> QED
    BY <1>2, <2>1, <2>2, <2>3
<1> QED
  BY <1>6, <1>8 DEF FlushInv
\* Steps of the other kinds bring nothing more on a run's way.
LEMMA FlushAuthorized ==
  ASSUME MemTypeOK, FlushInv, NEW c \in Callers, Authorized(c)
  PROVE  FlushInv'
<1>0. PICK item : item = task[c].item
  OBVIOUS
<1>1. /\ Only(c) /\ task[c] \in Writing({Author(c)}) /\ item \in ItemsBy({Author(c)})
      /\ \/ task'[c] = Raised
         \/ /\ task'[c] \in Writing({Author(c)}) /\ task'[c].item = Rewritten(item)
  BY <1>0, AuthorizedTypes DEF Writing
<1>2. records' = records /\ buffer' = buffer
  BY DEF Authorized
<1>3. /\ Rewritten(item).turns = item.turns
      /\ Rewritten(item) = item \/ Rewritten(item).cut
  BY <1>1, RewrittenFacts
<1>4. /\ TurnsUnderWay(c) = item.turns
      /\ \A content : content \in ContentsUnderWay(c) <=> ~item.cut /\ content = item.content
  BY <1>0, <1>1, UnderWayIs
<1>5. CASE task'[c] = Raised
  <2>1. TurnsUnderWay(c)' = {} /\ ContentsUnderWay(c)' = {}
    BY <1>5 DEF TurnsUnderWay, ContentsUnderWay, Raised
  <2> QED
    BY <1>1, <1>2, <2>1, FlushKept
<1>6. CASE task'[c] \in Writing({Author(c)}) /\ task'[c].item = Rewritten(item)
  <2>1. /\ \A n \in TurnsUnderWay(c)' : n \in item.turns
        /\ \A content \in ContentsUnderWay(c)' : ~item.cut /\ content = item.content
    BY <1>3, <1>6 DEF TurnsUnderWay, ContentsUnderWay, Writing
  <2> QED
    BY <1>1, <1>2, <1>4, <2>1, FlushKept
<1> QED
  BY <1>1, <1>5, <1>6

LEMMA FlushTriaged ==
  ASSUME MemTypeOK, FlushInv, NEW r \in Refreshers, Triaged(r)
  PROVE  FlushInv'
<1>0. PICK old : old = task[r]
  OBVIOUS
<1>1. /\ Only(r) /\ old \in Triaging /\ records' = records /\ buffer' = buffer
      /\ \/ task'[r].at \in {"idle", "raised"}
         \/ /\ task'[r] \in Writing({r}) /\ task'[r].item.turns = old.turns
            /\ task'[r].item.cut \/ task'[r].item.content = old.content
  BY <1>0, TriagedEffect DEF Idle, Raised
<1>2. TurnsUnderWay(r) = old.turns /\ ContentsUnderWay(r) = {old.content}
  BY <1>0, <1>1, UnderWayIs
<1>3. r \in Callers
  BY DEF Callers
<1>4. /\ \A n \in TurnsUnderWay(r)' : n \in old.turns
      /\ \A content \in ContentsUnderWay(r)' : content = old.content
  BY <1>1 DEF TurnsUnderWay, ContentsUnderWay, Writing
<1> QED
  BY <1>1, <1>2, <1>3, <1>4, FlushKept

LEMMA FlushRaised ==
  ASSUME MemTypeOK, FlushInv, NEW c \in Callers, PortRaises(c)
  PROVE  FlushInv'
<1>1. Only(c) /\ task'[c] = Raised /\ records' = records /\ buffer' = buffer
  BY RaisedEffect
<1>2. TurnsUnderWay(c)' = {} /\ ContentsUnderWay(c)' = {}
  BY <1>1 DEF TurnsUnderWay, ContentsUnderWay, Raised
<1> QED
  BY <1>1, <1>2, FlushKept

\* What hosts do concerns no run.
LEMMA FlushHost ==
  ASSUME MemTypeOK, FlushInv, NEW h \in Hosts, Only(h), records' = records, buffer' = buffer
  PROVE  FlushInv'
<1>1. h \in Callers /\ h \notin Refreshers
  BY MemoryAssumption DEF Callers
<1> QED
  BY <1>1, FlushKept

LEMMA OnceKept ==
  ASSUME FlushedOnce, records' = records
  PROVE  FlushedOnce'
  BY DEF FlushedOnce
-----------------------------------------------------------------------------
(* What a run keeps.                                                        *)

\* What is written stays written.
LEMMA WrittenStays ==
  ASSUME NEW c, Grows(c), NEW r, NEW text, IsWritten(r, text)
  PROVE  IsWritten(r, text)'
<1>1. PICK s \in StoreIds : \E i \in DOMAIN records[s] :
        records[s][i].by = r /\ (text \in Range(records[s][i].content) \/ records[s][i].cut)
  BY DEF IsWritten
<1>2. PICK i \in DOMAIN records[s] :
        records[s][i].by = r /\ (text \in Range(records[s][i].content) \/ records[s][i].cut)
  BY <1>1
<1>3. i \in DOMAIN records'[s] /\ records'[s][i] = records[s][i]
  BY <1>2 DEF Grows
<1> QED
  BY <1>2, <1>3 DEF IsWritten

\* A run whose buffer stays keeps on when it loses no text that counts.
LEMMA KeepsOn ==
  ASSUME NEW r \in Refreshers, KeepsFor(r, buffer[r]), buffer'[r] = buffer[r],
         \A text : Counts(text) /\ IsKept(r, text) => IsKept(r, text)'
  PROVE  KeepsFor(r, buffer[r])'
  BY DEF KeepsFor

LEMMA KeepsStep ==
  ASSUME KeepsInv, NEW c \in Callers, Only(c), Grows(c), buffer' = buffer,
         c \in Refreshers => \A text : Counts(text) /\ IsKept(c, text) => IsKept(c, text)'
  PROVE  KeepsInv'
<1> SUFFICES ASSUME NEW r \in Refreshers PROVE KeepsFor(r, buffer[r])'
  BY DEF KeepsInv
<1>1. CASE r = c
  BY <1>1, KeepsOn DEF KeepsInv
<1>2. CASE r # c
  <2>1. task'[r] = task[r]
    BY <1>2 DEF Only, Callers
  <2>2. ASSUME NEW text, IsKept(r, text) PROVE IsKept(r, text)'
    <3>1. CASE IsWritten(r, text)
      <4>1. IsWritten(r, text)'
        BY <3>1, WrittenStays
      <4> QED
        BY <4>1 DEF IsKept
    <3>2. CASE ~IsWritten(r, text)
      BY <2>1, <2>2, <3>2 DEF IsKept, IsUnderWay
    <3> QED
      BY <3>1, <3>2
  <2> QED
    BY <2>2, KeepsOn DEF KeepsInv
<1> QED
  BY <1>1, <1>2
\* A caller that has raised keeps all, for it will never be idle again.
LEMMA KeepsRaised ==
  ASSUME MemTypeOK, KeepsInv, NEW c \in Callers, Only(c), task'[c] = Raised,
         records' = records, buffer' = buffer
  PROVE  KeepsInv'
<1>1. \A text : IsKept(c, text)'
  BY DEF IsKept, Raised
<1> QED
  BY <1>1, SameGrows, KeepsStep

LEMMA KeepsHost ==
  ASSUME MemTypeOK, KeepsInv, NEW h \in Hosts, Only(h), records' = records, buffer' = buffer
  PROVE  KeepsInv'
<1>1. h \in Callers /\ h \notin Refreshers
  BY MemoryAssumption DEF Callers
<1> QED
  BY <1>1, SameGrows, KeepsStep

LEMMA KeepsAuthorized ==
  ASSUME MemTypeOK, KeepsInv, NEW c \in Callers, Authorized(c)
  PROVE  KeepsInv'
<1>0. PICK item : item = task[c].item
  OBVIOUS
<1>1. /\ Only(c) /\ task[c] \in Writing({Author(c)}) /\ item \in ItemsBy({Author(c)})
      /\ \/ task'[c] = Raised
         \/ /\ task'[c] \in Writing({Author(c)}) /\ task'[c].item = Rewritten(item)
  BY <1>0, AuthorizedTypes DEF Writing
<1>2. records' = records /\ buffer' = buffer
  BY DEF Authorized
<1>3. CASE task'[c] = Raised
  BY <1>1, <1>2, <1>3, KeepsRaised
<1>4. CASE task'[c] \in Writing({Author(c)}) /\ task'[c].item = Rewritten(item)
  <2>1. ASSUME NEW text, IsKept(c, text) PROVE IsKept(c, text)'
    <3>1. CASE IsWritten(c, text)
      <4>1. IsWritten(c, text)'
        BY <1>2, <3>1 DEF IsWritten
      <4> QED
        BY <4>1 DEF IsKept
    <3>2. CASE ~IsWritten(c, text)
      <4>1. task[c].at \in {"authorize", "store"} /\ task'[c].at \in {"authorize", "store"}
        BY <1>1, <1>4 DEF Writing
      <4>2. text \in Range(item.content) \/ item.cut
        BY <1>0, <2>1, <3>2, <4>1 DEF IsKept, IsUnderWay
      <4>3. Rewritten(item) = item \/ Rewritten(item).cut
        BY <1>1, RewrittenFacts
      <4>4. text \in Range(Rewritten(item).content) \/ Rewritten(item).cut
        BY <4>2, <4>3
      <4> QED
        BY <1>4, <4>1, <4>4 DEF IsKept, IsUnderWay
    <3> QED
      BY <3>1, <3>2
  <2> QED
    BY <1>1, <1>2, <2>1, SameGrows, KeepsStep
<1> QED
  BY <1>1, <1>3, <1>4

\* What the triage finds too small holds no text that counts.
LEMMA KeepsTriaged ==
  ASSUME MemTypeOK, KeepsInv, NEW r \in Refreshers, Triaged(r)
  PROVE  KeepsInv'
<1>0. PICK old : old = task[r]
  OBVIOUS
<1>1. /\ Only(r) /\ old \in Triaging /\ records' = records /\ buffer' = buffer
      /\ \/ task'[r] = Idle /\ SizeOf(old.content) < TriageMinimum
         \/ task'[r] = Raised
         \/ /\ task'[r] \in Writing({r})
            /\ task'[r].item.cut \/ task'[r].item.content = old.content
  BY <1>0, TriagedEffect
<1>2. r \in Callers
  BY DEF Callers
<1>3. CASE task'[r] = Raised
  BY <1>1, <1>2, <1>3, KeepsRaised
<1>4. ASSUME NEW text, Counts(text), IsKept(r, text), task'[r] # Raised PROVE IsKept(r, text)'
  <2>1. CASE IsWritten(r, text)
    <3>1. IsWritten(r, text)'
      BY <1>1, <2>1 DEF IsWritten
    <3> QED
      BY <3>1 DEF IsKept
  <2>2. CASE ~IsWritten(r, text)
    <3>1. old.at = "triage" /\ old.content \in Seq(MemoryTexts)
      BY <1>1 DEF Triaging
    <3>2. PICK i \in DOMAIN old.content : old.content[i] = text
      BY <1>0, <1>4, <2>2, <3>1 DEF IsKept, IsUnderWay, Range
    <3>3. SizeOf(old.content) \in Nat /\ TextSize[text] \in Nat /\ TextSize[text] <= SizeOf(old.content)
      BY <3>1, <3>2, SizeFacts
    <3>4. TriageMinimum \in Nat
      BY MemoryAssumption
    <3>5. ~(SizeOf(old.content) < TriageMinimum)
      BY <1>4, <3>3, <3>4 DEF Counts
    <3>6. /\ task'[r].at \in {"authorize", "store"}
          /\ task'[r].item.cut \/ task'[r].item.content = old.content
      BY <1>1, <1>4, <3>5 DEF Writing
    <3>7. text \in Range(old.content)
      BY <3>2 DEF Range
    <3> QED
      BY <3>6, <3>7 DEF IsKept, IsUnderWay
  <2> QED
    BY <2>1, <2>2
<1>5. CASE task'[r] # Raised
  BY <1>1, <1>2, <1>4, <1>5, SameGrows, KeepsStep
<1> QED
  BY <1>3, <1>5

LEMMA KeepsStored ==
  ASSUME MemTypeOK, KeepsInv, NEW c \in Callers, Stored(c)
  PROVE  KeepsInv'
<1>0. PICK item : item = task[c].item
  OBVIOUS
<1>1. /\ Only(c) /\ Grows(c) /\ task[c].at = "store" /\ buffer' = buffer
      /\ item \in ItemsBy({Author(c)})
  BY <1>0, StoredEffect, StoredGrows DEF Writing
<1>2. PICK t \in StoreIds : \E i \in DOMAIN records'[t] : records'[t][i] = item
  BY <1>0, StoredGrows
<1>3. ASSUME c \in Refreshers, NEW text, IsKept(c, text) PROVE IsKept(c, text)'
  <2>1. CASE IsWritten(c, text)
    <3>1. IsWritten(c, text)'
      BY <1>1, <2>1, WrittenStays
    <3> QED
      BY <3>1 DEF IsKept
  <2>2. CASE ~IsWritten(c, text)
    <3>1. text \in Range(item.content) \/ item.cut
      BY <1>0, <1>1, <1>3, <2>2 DEF IsKept, IsUnderWay
    <3>2. item.by = c
      BY <1>1, <1>3, AuthorsItems DEF Author
    <3>3. IsWritten(c, text)'
      BY <1>2, <3>1, <3>2 DEF IsWritten
    <3> QED
      BY <3>3 DEF IsKept
  <2> QED
    BY <2>1, <2>2
<1> QED
  BY <1>1, <1>3, KeepsStep

LEMMA KeepsTurn ==
  ASSUME MemTypeOK, KeepsInv, NEW r \in Refreshers, TurnEffect(r)
  PROVE  KeepsInv'
<1>1. PICK b \in Buffers :
        /\ BufferGrown(r, b)
        /\ \/ buffer'[r] = b /\ task'[r] = task[r] /\ b.last \notin DoneStatuses
           \/ Dropped(r, b)
           \/ Sent(r, b)
  BY DEF TurnEffect
<1>2. /\ Only(r) /\ task[r].at = "idle" /\ records' = records
      /\ \A q \in Refreshers \ {r} : buffer'[q] = buffer[q]
  BY DEF TurnEffect
<1>3. PICK old : old = buffer[r]
  OBVIOUS
<1>4. old \in Buffers /\ KeepsFor(r, old)
  BY <1>3 DEF MemTypeOK, KeepsInv
<1>5. \A text : IsKept(r, text) => IsWritten(r, text)
  BY <1>2 DEF IsKept, IsUnderWay
<1>6. \A text : IsWritten(r, text) => IsKept(r, text)'
  BY <1>2 DEF IsKept, IsWritten
<1>7. \A content \in b.seen : \A i \in DOMAIN content : Counts(content[i]) => IsWritten(r, content[i])
  BY <1>1, <1>3, <1>4, <1>5 DEF KeepsFor, BufferGrown
<1>8. \A signal \in b.observed : Counts(signal.text) =>
        IsWritten(r, signal.text) \/ \E i \in DOMAIN b.signals : b.signals[i].text = signal.text
  <2>0. \A signal \in old.observed : Counts(signal.text) =>
          IsWritten(r, signal.text) \/ \E i \in DOMAIN old.signals : old.signals[i].text = signal.text
    BY <1>4, <1>5 DEF KeepsFor
  <2>1. CASE b.signals = old.signals /\ b.observed = old.observed
    BY <2>0, <2>1
  <2>2. ASSUME NEW signal \in Signals, b.signals = Append(old.signals, signal),
               b.observed = old.observed \cup {signal}
        PROVE  \A x \in b.observed : Counts(x.text) =>
                 IsWritten(r, x.text) \/ \E i \in DOMAIN b.signals : b.signals[i].text = x.text
    <3>1. old.signals \in Seq(Signals)
      BY <1>4 DEF Buffers
    <3>2. /\ \A i \in DOMAIN old.signals : i \in DOMAIN b.signals /\ b.signals[i] = old.signals[i]
          /\ Len(old.signals) + 1 \in DOMAIN b.signals /\ b.signals[Len(old.signals) + 1] = signal
      BY <2>2, <3>1
    <3> QED
      BY <2>0, <2>2, <3>2
  <2> QED
    BY <1>1, <1>3, <2>1, <2>2 DEF BufferGrown
<1>9. PICK new : new = buffer'[r]
  OBVIOUS
<1>10. KeepsFor(r, buffer[r])'
  <2>1. CASE new = b /\ b.last \notin DoneStatuses
    BY <1>6, <1>7, <1>8, <1>9, <2>1 DEF KeepsFor
  <2>2. CASE Dropped(r, b)
    <3>1. /\ new.signals = << >> /\ new.observed = b.observed /\ new.seen = b.seen
          /\ b.signals = << >> \/ ContentOf(b) \in b.seen
      BY <1>9, <2>2 DEF Dropped, Emptied
    <3>2. ASSUME NEW signal \in b.observed, Counts(signal.text) PROVE IsWritten(r, signal.text)
      <4>1. CASE b.signals = << >>
        BY <1>8, <3>2, <4>1
      <4>2. CASE ContentOf(b) \in b.seen
        <5>1. SUFFICES ASSUME NEW i \in DOMAIN b.signals, b.signals[i].text = signal.text
                       PROVE  IsWritten(r, signal.text)
          BY <1>8, <3>2
        <5>2. i \in DOMAIN ContentOf(b) /\ ContentOf(b)[i] = signal.text
          BY <5>1, BufferFacts
        <5> QED
          BY <1>7, <3>2, <4>2, <5>2
      <4> QED
        BY <3>1, <4>1, <4>2
    <3> QED
      BY <1>6, <1>7, <1>9, <3>1, <3>2 DEF KeepsFor
  <2>3. CASE Sent(r, b)
    <3>1. /\ new.signals = << >> /\ new.observed = b.observed
          /\ new.seen = b.seen \cup {ContentOf(b)}
          /\ task'[r].at = "triage" /\ task'[r].content = ContentOf(b)
      BY <1>9, <2>3 DEF Sent, Emptied, Triaging
    <3>2. \A i \in DOMAIN ContentOf(b) : IsKept(r, ContentOf(b)[i])'
      BY <3>1 DEF IsKept, IsUnderWay, Range
    <3>3. ASSUME NEW signal \in b.observed, Counts(signal.text) PROVE IsKept(r, signal.text)'
      <4>1. SUFFICES ASSUME NEW i \in DOMAIN b.signals, b.signals[i].text = signal.text
                     PROVE  IsKept(r, signal.text)'
        BY <1>6, <1>8, <3>3
      <4>2. i \in DOMAIN ContentOf(b) /\ ContentOf(b)[i] = signal.text
        BY <4>1, BufferFacts
      <4> QED
        BY <3>2, <4>2
    <3> QED
      BY <1>6, <1>7, <1>9, <3>1, <3>2, <3>3 DEF KeepsFor
  <2> QED
    BY <1>1, <1>9, <2>1, <2>2, <2>3
<1> SUFFICES ASSUME NEW q \in Refreshers, q # r PROVE KeepsFor(q, buffer[q])'
  BY <1>10 DEF KeepsInv
<1>11. task'[q] = task[q] /\ buffer'[q] = buffer[q]
  BY <1>2 DEF Only, Callers
<1>12. \A text : IsKept(q, text) => IsKept(q, text)'
  BY <1>2, <1>11 DEF IsKept, IsUnderWay, IsWritten
<1> QED
  BY <1>11, <1>12, KeepsOn DEF KeepsInv

\* A run that is over and idle has nothing but what is written.
LEMMA NothingIsForgotten ==
  ASSUME MemTypeOK, KeepsInv
  PROVE  NothingForgotten
<1> SUFFICES ASSUME NEW r \in Refreshers, task[r].at = "idle", buffer[r].last \in DoneStatuses,
                    NEW signal \in buffer[r].observed, TextSize[signal.text] >= TriageMinimum
             PROVE  \E item \in Written :
                      item.by = r /\ (signal.text \in Range(item.content) \/ item.cut)
  BY DEF NothingForgotten
<1>1. buffer[r].signals = << >>
  BY DEF KeepsInv, KeepsFor
<1>2. IsKept(r, signal.text)
  BY <1>1 DEF KeepsInv, KeepsFor, Counts
<1>3. IsWritten(r, signal.text)
  BY <1>2 DEF IsKept, IsUnderWay
<1>4. PICK s \in StoreIds : \E i \in DOMAIN records[s] :
        /\ records[s][i].by = r
        /\ signal.text \in Range(records[s][i].content) \/ records[s][i].cut
  BY <1>3 DEF IsWritten
<1>5. \A i \in DOMAIN records[s] : records[s][i] \in Written
  BY DEF Written, Range
<1> QED
  BY <1>4, <1>5
-----------------------------------------------------------------------------
(* What a search finds.                                                     *)

\* What holds of a search goes on to hold when stores get more.
LEMMA SearchOfMore ==
  ASSUME NEW held \in [StoreIds -> Seq(MemItems)], NEW more \in [StoreIds -> Seq(MemItems)],
         \A s \in StoreIds : Len(held[s]) <= Len(more[s]),
         \A s \in StoreIds : \A i \in DOMAIN held[s] : i \in DOMAIN more[s] /\ more[s][i] = held[s][i],
         NEW search \in Searching, HitsOK(held, search)
  PROVE  /\ HitsOK(more, search)
         /\ PlanOK(held, search) => PlanOK(more, search)
         /\ FindsBest(held, search) => FindsBest(more, search)
<1>1. /\ search.plan \subseteq StoreIds /\ search.hits \in Seq(Hits)
      /\ \A s \in StoreIds : search.from[s] \in Nat
  BY DEF Searching
<1>2. \A s \in StoreIds : Len(held[s]) \in Nat /\ DOMAIN held[s] = 1 .. Len(held[s]) /\ Len(more[s]) \in Nat
  OBVIOUS
<1>3. \A s \in StoreIds : \A i \in 1 .. search.from[s] : more[s][i] = held[s][i]
  BY <1>1, <1>2 DEF HitsOK
<1>4. \A k \in DOMAIN search.hits : search.hits[k].store \in StoreIds
  <2>1. \A k \in DOMAIN search.hits : search.hits[k] \in Hits
    BY <1>1
  <2> QED
    BY <2>1 DEF Hits
<1>5. HitsOK(more, search)
  BY <1>1, <1>2, <1>4 DEF HitsOK
<1>6. ASSUME PlanOK(held, search) PROVE PlanOK(more, search)
  <2>1. ASSUME NEW s \in StoreIds, NEW i \in 1 .. search.from[s], Considered(held, search, s, i)
        PROVE  Considered(more, search, s, i)
    <3>1. more[s][i] = held[s][i]
      BY <1>3
    <3> QED
      BY <2>1, <3>1 DEF Considered
  <2> QED
    BY <1>1, <1>6, <2>1 DEF PlanOK
<1>7. ASSUME FindsBest(held, search) PROVE FindsBest(more, search)
  BY <1>1, <1>3, <1>7 DEF FindsBest
<1> QED
  BY <1>5, <1>6, <1>7

\* A search of which every store has answered finds the best.
LEMMA FinishedHolds ==
  ASSUME NEW held \in [StoreIds -> Seq(MemItems)], NEW search \in Searching,
         HitsOK(held, search), PlanOK(held, search), search.at = "search",
         NEW next, next = Finished(search)
  PROVE  SearchFor(held, next)
<1>1. CASE search.left # << >>
  <2>1. next = search
    BY <1>1, FinishedIs
  <2> QED
    BY <1>1, <2>1 DEF SearchFor
<1>2. CASE search.left = << >>
  <2>1. PICK m : m = Merged(search.hits)
    OBVIOUS
  <2>2. PICK hits : hits = search.hits
    OBVIOUS
  <2>3. PICK limit : limit = search.query.limit
    OBVIOUS
  <2>4. hits \in Seq(Hits) /\ limit \in Nat /\ search.plan \subseteq StoreIds
        /\ \A s \in StoreIds : search.from[s] \in Nat
    BY <2>2, <2>3, MemoryAssumption DEF Searching
  <2>5. /\ m \in Seq(Hits) /\ Len(m) = Len(hits)
        /\ \A k \in DOMAIN m : \E j \in DOMAIN hits : m[k] = hits[j]
        /\ \A j \in DOMAIN hits : \E k \in DOMAIN m : m[k] = hits[j]
        /\ \A i, j \in DOMAIN m : i < j => m[i].score >= m[j].score
        /\ \A p, most, x \in Nat :
             (p + most <= Len(hits) /\ \A q \in 1..most : hits[p + q].score >= x) =>
               \A k \in DOMAIN m : k <= most => m[k].score >= x
    <3>1. hits \in Seq(Hits) /\ m = Merged(hits)
      BY <2>1, <2>2, <2>4
    <3>2. m \in Seq(Hits) /\ Len(m) = Len(hits) /\ SortedFrom(m, hits)
      BY <3>1, MergedFacts
    <3> QED
      BY <3>2, Zenon DEF SortedFrom
  <2>6. PICK found : found = next.hits
    OBVIOUS
  <2>7. /\ next.at = "found" /\ found = FirstOf(limit, m)
        /\ next.query = search.query /\ next.plan = search.plan /\ next.from = search.from
    BY <1>2, <2>1, <2>2, <2>3, <2>6, FinishedIs
  <2>8. /\ found \in Seq(Hits) /\ Len(found) = IF Len(m) < limit THEN Len(m) ELSE limit
        /\ \A i \in DOMAIN found : i \in DOMAIN m /\ found[i] = m[i]
    BY <2>4, <2>5, <2>7, FirstOfIs
  <2>9. DOMAIN found = 1 .. Len(found) /\ DOMAIN m = 1 .. Len(m) /\ Len(m) \in Nat
    BY <2>5, <2>8
  <2>10. HitsOK(held, next)
    <3>1. \A k \in DOMAIN found : \E j \in DOMAIN hits : found[k] = hits[j]
      BY <2>5, <2>8
    <3> QED
      BY <2>2, <2>6, <2>7, <3>1 DEF HitsOK
  <2>11. ASSUME NEW s \in search.plan, NEW i \in 1 .. search.from[s],
                ~(\E k \in DOMAIN found : found[k].store = s /\ found[k].record = i),
                NEW score, score = held[s][i].score, score # 0, ~(score < search.query.minimum)
         PROVE  Len(found) = limit /\ \A k \in DOMAIN found : found[k].score >= score
    <3>0. score \in Nat
      <4>1. s \in StoreIds /\ Len(held[s]) \in Nat /\ i \in 1 .. Len(held[s])
        BY <2>4, <2>11 DEF HitsOK
      <4>2. held[s][i] \in MemItems
        BY <4>1
      <4> QED
        BY <2>11, <4>2 DEF MemItems, ItemsBy
    <3>1. Considered(held, search, s, i)
      BY <1>2, <2>11 DEF PlanOK
    <3>2. CASE \E j \in DOMAIN hits : hits[j].store = s /\ hits[j].record = i
      <4>1. PICK j \in DOMAIN hits : hits[j].store = s /\ hits[j].record = i
        BY <3>2
      <4>2. hits[j].score = score
        BY <2>2, <2>11, <4>1 DEF HitsOK
      <4>3. PICK k \in DOMAIN m : m[k] = hits[j]
        BY <2>5
      <4>4. k \notin DOMAIN found
        BY <2>8, <2>11, <4>1, <4>3
      <4>5. k > limit /\ Len(found) = limit
        <5>1. PICK n \in Nat : n = Len(m)
          BY <2>9
        <5>2. Len(found) = IF n < limit THEN n ELSE limit
          BY <2>8, <5>1
        <5>3. k \in 1 .. n /\ k \notin 1 .. Len(found)
          BY <2>9, <4>4, <5>1
        <5> QED
          BY <2>4, <5>2, <5>3
      <4>6. \A x \in DOMAIN found : m[x].score >= score
        <5> SUFFICES ASSUME NEW x \in DOMAIN found PROVE m[x].score >= score
          OBVIOUS
        <5>1. x \in DOMAIN m /\ x \in 1 .. limit /\ k \in Nat
          BY <2>8, <2>9, <4>5
        <5>2. x < k
          BY <2>4, <4>5, <5>1
        <5>3. m[x].score >= m[k].score
          BY <2>5, <5>1, <5>2
        <5> QED
          BY <4>2, <4>3, <5>3
      <4> QED
        BY <2>8, <4>5, <4>6
    <3>3. CASE \E p \in Nat : /\ p + limit <= Len(hits)
                              /\ \A q \in 1 .. limit : hits[p + q].score >= score
      <4>1. \A k \in DOMAIN m : k <= limit => m[k].score >= score
        BY <2>4, <2>5, <3>0, <3>3
      <4>2. Len(m) >= limit
        BY <2>4, <2>5, <3>3
      <4>3. PICK n \in Nat : n = Len(m)
        BY <2>9
      <4>4. Len(found) = limit
        BY <2>4, <2>8, <4>2, <4>3
      <4>5. \A k \in DOMAIN found : k \in DOMAIN m /\ k <= limit
        BY <2>4, <2>8, <2>9, <4>4
      <4> QED
        BY <2>8, <4>1, <4>4, <4>5
    <3> QED
      BY <2>2, <2>3, <2>11, <3>1, <3>2, <3>3 DEF Considered
  <2>12. FindsBest(held, next)
    BY <2>3, <2>6, <2>7, <2>11 DEF FindsBest
  <2> QED
    BY <2>7, <2>10, <2>12 DEF SearchFor
<1> QED
  BY <1>1, <1>2
\* A step of c changes no other search, and its own as it says.
LEMMA SearchesStep ==
  ASSUME MemTypeOK, MemTypeOK', SearchInv, NEW c \in Callers, Only(c), Grows(c),
         task'[c].at \in {"search", "found"} => SearchFor(records', task'[c])
  PROVE  SearchInv'
<1> SUFFICES ASSUME NEW h \in Hosts, h # c, task'[h].at \in {"search", "found"}
             PROVE  SearchFor(records', task'[h])
  BY DEF SearchInv
<1>1. h \in Callers
  BY DEF Callers
<1>2. PICK search : search = task[h] /\ search = task'[h]
  BY <1>1 DEF Only
<1>3. search \in Searching /\ SearchFor(records, search)
  <2>1. search \in Waits(h)
    BY <1>1, <1>2 DEF MemTypeOK
  <2> QED
    BY <1>2, <2>1, WaitsAt DEF SearchInv
<1>4. records \in [StoreIds -> Seq(MemItems)] /\ records' \in [StoreIds -> Seq(MemItems)]
  BY DEF MemTypeOK
<1>5. /\ HitsOK(records', search)
      /\ PlanOK(records, search) => PlanOK(records', search)
      /\ FindsBest(records, search) => FindsBest(records', search)
  BY <1>3, <1>4, SearchOfMore DEF SearchFor, Grows
<1> QED
  BY <1>2, <1>3, <1>5 DEF SearchFor

LEMMA SearchBegins ==
  ASSUME MemTypeOK, SearchInv, NEW h \in Hosts, NEW query \in MemoryQueries, HostSearches(h, query)
  PROVE  SearchInv'
<1>1. h \in Callers
  BY DEF Callers
<1>2. records' = records
  BY DEF HostSearches
<1>3. /\ MemTypeOK' /\ Only(h)
      /\ \/ task'[h] = Raised
         \/ \E search \in Searching :
              /\ task'[h] = Finished(search)
              /\ search.at = "search" /\ search.hits = << >>
              /\ \A s \in search.plan : \E i \in DOMAIN search.left : search.left[i].store = s
              /\ \A s \in StoreIds : search.from[s] = Len(records[s])
  BY SearchBegun
<1>4. records \in [StoreIds -> Seq(MemItems)]
  BY DEF MemTypeOK
<1>5. ASSUME NEW search \in Searching, task'[h] = Finished(search),
             search.at = "search", search.hits = << >>,
             \A s \in search.plan : \E i \in DOMAIN search.left : search.left[i].store = s,
             \A s \in StoreIds : search.from[s] = Len(records[s])
      PROVE  SearchFor(records, task'[h])
  <2>1. HitsOK(records, search)
    <3>1. \A s \in StoreIds : Len(records[s]) \in Nat
      BY <1>4
    <3> QED
      BY <1>5, <3>1 DEF HitsOK
  <2>2. PlanOK(records, search)
    BY <1>5 DEF PlanOK
  <2>3. PICK next : next = Finished(search)
    OBVIOUS
  <2>4. SearchFor(records, next)
    BY <1>4, <1>5, <2>1, <2>2, <2>3, FinishedHolds
  <2> QED
    BY <1>5, <2>3, <2>4
<1>6. task'[h].at \in {"search", "found"} => SearchFor(records, task'[h])
  BY <1>3, <1>5 DEF Raised
<1> QED
  BY <1>1, <1>2, <1>3, <1>6, SameGrows, SearchesStep

LEMMA SearchAnswered ==
  ASSUME MemTypeOK, SearchInv, NEW h \in Hosts, SearchStep(h)
  PROVE  MemTypeOK' /\ Only(h) /\ SearchInv'
<1>1. h \in Callers
  BY DEF Callers
<1>2. PICK old : old = task[h]
  OBVIOUS
<1>3. old.at = "search" /\ records' = records
  BY <1>2 DEF SearchStep
<1>4. SearchFor(records, old)
  BY <1>2, <1>3 DEF SearchInv
<1>5. old.left # << >> /\ HitsOK(records, old) /\ PlanOK(records, old)
  BY <1>3, <1>4 DEF SearchFor
<1>6. /\ MemTypeOK' /\ Only(h) /\ old \in Searching
      /\ \E search \in Searching :
           /\ task'[h] = Finished(search)
           /\ search.at = "search" /\ search.query = old.query
           /\ search.left = Tail(old.left)
           /\ search.hits = old.hits \o HitsOf(Head(old.left), old.query)
           /\ search.plan = old.plan /\ search.from = old.from
  BY <1>2, <1>5, SearchContinues
<1>7. PICK search \in Searching :
        /\ task'[h] = Finished(search)
        /\ search.at = "search" /\ search.query = old.query
        /\ search.left = Tail(old.left)
        /\ search.hits = old.hits \o HitsOf(Head(old.left), old.query)
        /\ search.plan = old.plan /\ search.from = old.from
  BY <1>6
<1>8. PICK mount : mount = Head(old.left)
  OBVIOUS
<1>9. PICK answer : answer = HitsOf(mount, old.query)
  OBVIOUS
<1>10. PICK query : query = old.query
  OBVIOUS
<1>11. /\ old.left \in Seq(StoreMounts) /\ query \in MemoryQueries /\ old.hits \in Seq(Hits)
       /\ old.plan \subseteq StoreIds /\ \A s \in StoreIds : old.from[s] \in Nat
  BY <1>6, <1>10 DEF Searching
<1>12. /\ mount \in StoreMounts
       /\ \A i \in DOMAIN old.left : old.left[i] = mount \/ \E j \in DOMAIN Tail(old.left) : Tail(old.left)[j] = old.left[i]
  <2>1. mount \in StoreMounts /\ mount = old.left[1]
    BY <1>5, <1>8, <1>11
  <2>2. ASSUME NEW i \in DOMAIN old.left, i # 1
        PROVE  \E j \in DOMAIN Tail(old.left) : Tail(old.left)[j] = old.left[i]
    <3>1. i - 1 \in DOMAIN Tail(old.left) /\ Tail(old.left)[i - 1] = old.left[i]
      BY <1>5, <1>11, <2>2
    <3> QED
      BY <3>1
  <2> QED
    BY <2>1, <2>2
<1>13. PICK held : held = records[mount.store]
  OBVIOUS
<1>14. /\ answer \in Seq(Hits)
       /\ \A k \in DOMAIN answer :
            /\ answer[k].store = mount.store
            /\ answer[k].record \in DOMAIN held /\ answer[k].score = held[answer[k].record].score
       /\ \A i \in DOMAIN held :
            \/ held[i].score = 0 \/ held[i].score < query.minimum
            \/ \E k \in DOMAIN answer : answer[k].record = i
            \/ Len(answer) = query.limit /\ \A k \in DOMAIN answer : answer[k].score >= held[i].score
  <2>1. /\ mount \in StoreMounts /\ query \in MemoryQueries /\ held = records[mount.store]
        /\ answer = HitsOf(mount, query)
    BY <1>9, <1>10, <1>11, <1>12, <1>13
  <2>2. answer \in Seq(Hits) /\ AnswersFor(answer, held, mount, query)
    BY <2>1, HitsFacts
  <2> QED
    BY <2>2, Zenon DEF AnswersFor
<1>15. PICK hits : hits = search.hits
  OBVIOUS
<1>16. /\ hits \in Seq(Hits) /\ Len(hits) = Len(old.hits) + Len(answer)
       /\ \A k \in DOMAIN old.hits : k \in DOMAIN hits /\ hits[k] = old.hits[k]
       /\ \A k \in DOMAIN answer : Len(old.hits) + k \in DOMAIN hits /\ hits[Len(old.hits) + k] = answer[k]
       /\ \A k \in DOMAIN hits : k \in DOMAIN old.hits \/ (k - Len(old.hits) \in DOMAIN answer /\ hits[k] = answer[k - Len(old.hits)])
  <2>1. hits = old.hits \o answer
    BY <1>7, <1>8, <1>9, <1>15
  <2> QED
    BY <1>11, <1>14, <2>1
<1>17. HitsOK(records, search)
  <2>1. \A s \in StoreIds : search.from[s] <= Len(records[s])
    BY <1>5, <1>7 DEF HitsOK
  <2>2. ASSUME NEW k \in DOMAIN hits
        PROVE  /\ hits[k].record \in DOMAIN records[hits[k].store]
               /\ hits[k].score = records[hits[k].store][hits[k].record].score
    <3>1. CASE k \in DOMAIN old.hits
      BY <1>5, <1>16, <3>1 DEF HitsOK
    <3>2. CASE k - Len(old.hits) \in DOMAIN answer /\ hits[k] = answer[k - Len(old.hits)]
      BY <1>13, <1>14, <3>2
    <3> QED
      BY <1>16, <3>1, <3>2
  <2> QED
    BY <1>15, <2>1, <2>2 DEF HitsOK
<1>18. PlanOK(records, search)
  <2> SUFFICES ASSUME NEW s \in search.plan, \A i \in DOMAIN search.left : search.left[i].store # s,
                      NEW i \in 1 .. search.from[s]
               PROVE  Considered(records, search, s, i)
    BY DEF PlanOK
  <2>1. s \in StoreIds /\ s \in old.plan /\ i \in 1 .. old.from[s] /\ search.query = query
    BY <1>7, <1>10, <1>11
  <2>2. CASE s = mount.store
    <3>1. i \in DOMAIN held
      <4>1. records[s] \in Seq(MemItems) /\ old.from[s] <= Len(records[s]) /\ old.from[s] \in Nat
        BY <1>5, <1>11, <2>1 DEF HitsOK, MemTypeOK
      <4> QED
        BY <1>13, <2>1, <2>2, <4>1
    <3>2. CASE held[i].score = 0 \/ held[i].score < query.minimum
      BY <1>13, <2>1, <2>2, <3>2 DEF Considered
    <3>3. CASE \E k \in DOMAIN answer : answer[k].record = i
      <4>1. \E k \in DOMAIN hits : hits[k].store = s /\ hits[k].record = i
        BY <1>14, <1>16, <2>2, <3>3
      <4> QED
        BY <1>15, <4>1 DEF Considered
    <3>4. CASE Len(answer) = query.limit /\ \A k \in DOMAIN answer : answer[k].score >= held[i].score
      <4>1. PICK p \in Nat : p = Len(old.hits)
        BY <1>11
      <4>2. query.limit \in Nat /\ DOMAIN answer = 1 .. Len(answer)
        BY <1>11, <1>14, MemoryAssumption
      <4>3. p + query.limit <= Len(hits)
        BY <1>16, <3>4, <4>1, <4>2
      <4>4. ASSUME NEW q \in 1 .. query.limit PROVE hits[p + q].score >= held[i].score
        <5>1. q \in DOMAIN answer
          BY <3>4, <4>2
        <5>2. hits[p + q] = answer[q]
          BY <1>16, <4>1, <5>1
        <5> QED
          BY <3>4, <5>1, <5>2
      <4> QED
        BY <1>13, <1>15, <2>1, <2>2, <4>1, <4>3, <4>4 DEF Considered
    <3> QED
      BY <1>14, <3>1, <3>2, <3>3, <3>4
  <2>3. CASE s # mount.store
    <3>1. \A j \in DOMAIN old.left : old.left[j].store # s
      BY <1>7, <1>12, <2>3
    <3>2. Considered(records, old, s, i)
      BY <1>5, <2>1, <3>1 DEF PlanOK
    <3>3. PICK score : score = records[s][i].score
      OBVIOUS
    <3>4. CASE score = 0 \/ score < query.minimum
      BY <2>1, <3>3, <3>4 DEF Considered
    <3>5. CASE \E k \in DOMAIN old.hits : old.hits[k].store = s /\ old.hits[k].record = i
      <4>1. \E k \in DOMAIN hits : hits[k].store = s /\ hits[k].record = i
        BY <1>16, <3>5
      <4> QED
        BY <1>15, <4>1 DEF Considered
    <3>6. CASE \E p \in Nat : /\ p + query.limit <= Len(old.hits)
                              /\ \A q \in 1 .. query.limit : old.hits[p + q].score >= score
      <4>1. PICK p \in Nat : /\ p + query.limit <= Len(old.hits)
                             /\ \A q \in 1 .. query.limit : old.hits[p + q].score >= score
        BY <3>6
      <4>2. /\ query.limit \in Nat /\ DOMAIN old.hits = 1 .. Len(old.hits) /\ Len(old.hits) \in Nat
            /\ Len(answer) \in Nat
        BY <1>11, <1>14, MemoryAssumption
      <4>3. p + query.limit <= Len(hits)
        BY <1>16, <4>1, <4>2
      <4>4. \A q \in 1 .. query.limit : hits[p + q].score >= score
        <5> TAKE q \in 1 .. query.limit
        <5>1. p + q \in DOMAIN old.hits
          BY <4>1, <4>2
        <5> QED
          BY <1>16, <4>1, <5>1
      <4> QED
        BY <1>15, <2>1, <3>3, <4>3, <4>4 DEF Considered
    <3> QED
      BY <1>10, <3>2, <3>3, <3>4, <3>5, <3>6 DEF Considered
  <2> QED
    BY <2>2, <2>3
<1>19. PICK next : next = Finished(search)
  OBVIOUS
<1>20. records \in [StoreIds -> Seq(MemItems)]
  BY DEF MemTypeOK
<1>21. SearchFor(records, next)
  BY <1>7, <1>17, <1>18, <1>19, <1>20, FinishedHolds
<1>22. SearchInv'
  BY <1>1, <1>3, <1>6, <1>7, <1>19, <1>21, SameGrows, SearchesStep
<1> QED
  BY <1>6, <1>22
-----------------------------------------------------------------------------
(* The theorem.                                                             *)

\* What holds in every state, type by type and concern by concern.
MemInv ==
  MemTypeOK /\ GovernedInv /\ FlushInv /\ FlushedOnce /\ KeepsInv /\ SearchInv

LEMMA MemInitInv == MemoryInit => MemInv
<1> SUFFICES ASSUME MemoryInit PROVE MemInv
  OBVIOUS
<1>1. MemTypeOK
  BY MemInitTypes
<1>2. /\ \A s \in StoreIds : records[s] = << >> /\ DOMAIN records[s] = {}
      /\ \A c \in Callers : task[c].at = "idle"
  BY DEF MemoryInit, Idle
<1>3. \A r \in Refreshers :
        /\ buffer[r].signals = << >> /\ buffer[r].seen = {} /\ buffer[r].observed = {}
        /\ buffer[r].last = "none" /\ task[r].at = "idle"
  BY <1>2 DEF MemoryInit, Callers
<1>4. GovernedInv /\ FlushedOnce
  BY <1>2 DEF GovernedInv, FlushedOnce
<1>5. FlushInv
  <2> SUFFICES ASSUME NEW r \in Refreshers PROVE FlushFor(r, buffer[r])
    BY DEF FlushInv
  <2>1. TurnsUnderWay(r) = {} /\ ContentsUnderWay(r) = {}
    BY <1>3, UnderWayIs
  <2>2. SignalTurns(buffer[r]) = {}
    BY <1>3 DEF SignalTurns
  <2> QED
    BY <1>2, <2>1, <2>2 DEF FlushFor
<1>6. KeepsInv
  BY <1>3 DEF KeepsInv, KeepsFor
<1>7. SearchInv
  BY <1>2 DEF SearchInv, Callers
<1> QED
  BY <1>1, <1>4, <1>5, <1>6, <1>7 DEF MemInv

\* A mount, or nothing, changes what is bound to names alone.
LEMMA MemSame ==
  ASSUME MemInv, MemTypeOK', UNCHANGED <<records, buffer, task, decisions>>
  PROVE  MemInv'
<1>1. GovernedInv' /\ FlushedOnce'
  BY DEF MemInv, GovernedInv, FlushedOnce
<1>2. FlushInv'
  <2>1. \A r : TurnsUnderWay(r)' = TurnsUnderWay(r) /\ ContentsUnderWay(r)' = ContentsUnderWay(r)
    BY DEF TurnsUnderWay, ContentsUnderWay
  <2> QED
    BY <2>1, FlushShrinks DEF MemInv, FlushInv
<1>3. KeepsInv'
  <2>1. \A r, text : IsKept(r, text) => IsKept(r, text)'
    BY DEF IsKept, IsUnderWay, IsWritten
  <2> QED
    BY <2>1, KeepsOn DEF MemInv, KeepsInv
<1>4. SearchInv'
  BY DEF MemInv, SearchInv
<1> QED
  BY <1>1, <1>2, <1>3, <1>4 DEF MemInv

LEMMA MemStep ==
  ASSUME MemInv, MemoryNext
  PROVE  MemInv'
<1> USE DEF MemInv
<1>1. ASSUME NEW mount \in StoreMounts, RegisterStore(mount) PROVE MemInv'
  <2>1. MemTypeOK' /\ UNCHANGED <<records, buffer, task, decisions>>
    BY <1>1, RegisterTypes DEF RegisterStore
  <2> QED
    BY <2>1, MemSame
<1>2. ASSUME NEW c \in Callers, Authorized(c) PROVE MemInv'
  <2>1. /\ MemTypeOK' /\ Only(c) /\ records' = records
        /\ task'[c].at \notin {"search", "found"}
    <3>1. /\ MemTypeOK' /\ Only(c)
          /\ task'[c] = Raised \/ task'[c] \in Writing({Author(c)})
      BY <1>2, AuthorizedTypes
    <3> QED
      BY <1>2, <3>1 DEF Authorized, Writing, Raised
  <2>2. GovernedInv' /\ FlushInv' /\ KeepsInv'
    BY <1>2, GovernedAuthorized, FlushAuthorized, KeepsAuthorized
  <2>3. FlushedOnce' /\ SearchInv'
    BY <1>2, <2>1, OnceKept, SameGrows, SearchesStep
  <2> QED
    BY <2>1, <2>2, <2>3
<1>3. ASSUME NEW c \in Callers, Stored(c) PROVE MemInv'
  <2>1. MemTypeOK' /\ Only(c) /\ Grows(c) /\ task'[c].at \notin {"search", "found"}
    <3>1. MemTypeOK' /\ Only(c) /\ task'[c] = Idle
      BY <1>3, StoredEffect
    <3>2. Grows(c)
      BY <1>3, StoredGrows
    <3> QED
      BY <3>1, <3>2 DEF Idle
  <2>2. GovernedInv' /\ FlushInv' /\ FlushedOnce' /\ KeepsInv'
    BY <1>3, GovernedStored, FlushStored, KeepsStored
  <2>3. SearchInv'
    BY <1>3, <2>1, SearchesStep
  <2> QED
    BY <2>1, <2>2, <2>3
<1>4. ASSUME NEW c \in Callers, PortRaises(c) PROVE MemInv'
  <2>1. /\ MemTypeOK' /\ Only(c) /\ task'[c] = Raised
        /\ records' = records /\ buffer' = buffer /\ decisions' = decisions
    BY <1>4, RaisedEffect
  <2>2. task'[c].at \notin {"store", "search", "found"}
    BY <2>1 DEF Raised
  <2>3. GovernedInv' /\ FlushInv' /\ FlushedOnce' /\ KeepsInv'
    BY <1>4, <2>1, <2>2, GovernedKept, FlushRaised, OnceKept, KeepsRaised
  <2>4. SearchInv'
    BY <1>4, <2>1, <2>2, SameGrows, SearchesStep
  <2> QED
    BY <2>1, <2>3, <2>4
<1>5. ASSUME NEW h \in Hosts, NEW item \in HostItems, HostWrites(h, item) PROVE MemInv'
  <2>0. h \in Callers
    BY <1>5 DEF Callers
  <2>1. /\ MemTypeOK' /\ Only(h)
        /\ records' = records /\ buffer' = buffer /\ decisions' = decisions
        /\ task'[h].at = "store" => ~Governed
        /\ task'[h].at \notin {"search", "found"}
    BY <1>5, HostWritesEffect
  <2>2. GovernedInv' /\ FlushInv' /\ FlushedOnce' /\ KeepsInv'
    BY <1>5, <2>0, <2>1, GovernedKept, FlushHost, OnceKept, KeepsHost
  <2>3. SearchInv'
    BY <2>0, <2>1, SameGrows, SearchesStep
  <2> QED
    BY <2>1, <2>2, <2>3
<1>6. ASSUME NEW h \in Hosts, MemTypeOK', Only(h), task'[h].at # "store", SearchInv',
             UNCHANGED <<mounts, records, buffer, decisions>>
      PROVE  MemInv'
  <2>0. h \in Callers
    BY <1>6 DEF Callers
  <2>1. GovernedInv' /\ FlushInv' /\ FlushedOnce' /\ KeepsInv'
    BY <1>6, <2>0, GovernedKept, FlushHost, OnceKept, KeepsHost
  <2> QED
    BY <1>6, <2>1
<1>7. ASSUME NEW h \in Hosts, NEW query \in MemoryQueries, HostSearches(h, query) PROVE MemInv'
  <2>1. /\ MemTypeOK' /\ Only(h)
        /\ task'[h] = Raised \/ \E search \in Searching : task'[h] = Finished(search)
    BY <1>7, SearchBegun
  <2>2. task'[h].at # "store"
    BY <2>1, FinishedIs DEF Raised, Searching
  <2>3. UNCHANGED <<mounts, records, buffer, decisions>> /\ SearchInv'
    BY <1>7, SearchBegins DEF HostSearches
  <2> QED
    BY <1>6, <2>1, <2>2, <2>3
<1>8. ASSUME NEW h \in Hosts, SearchStep(h) PROVE MemInv'
  <2>1. MemTypeOK' /\ Only(h) /\ SearchInv'
    BY <1>8, SearchAnswered
  <2>2. task[h].left # << >>
    BY <1>8 DEF SearchInv, SearchFor, SearchStep
  <2>3. \E search \in Searching : task'[h] = Finished(search)
    BY <1>8, <2>2, SearchContinues
  <2>4. task'[h].at # "store"
    BY <2>3, FinishedIs DEF Searching
  <2> QED
    BY <1>6, <1>8, <2>1, <2>4 DEF SearchStep
<1>9. ASSUME NEW r \in Refreshers, TurnEffect(r) PROVE MemInv'
  <2>0. r \in Callers
    BY <1>9 DEF Callers
  <2>1. /\ MemTypeOK' /\ Only(r) /\ records' = records /\ decisions' = decisions
        /\ task'[r] = task[r] \/ task'[r] \in Triaging
        /\ task[r].at = "idle"
    BY <1>9 DEF TurnEffect, Dropped, Sent
  <2>2. task'[r].at \notin {"store", "search", "found"}
    BY <2>1 DEF Triaging
  <2>3. GovernedInv' /\ FlushInv' /\ FlushedOnce' /\ KeepsInv'
    BY <1>9, <2>0, <2>1, <2>2, GovernedKept, FlushTurn, OnceKept, KeepsTurn
  <2>4. SearchInv'
    BY <2>0, <2>1, <2>2, SameGrows, SearchesStep
  <2> QED
    BY <2>1, <2>3, <2>4
<1>10. ASSUME NEW r \in Refreshers, Triaged(r) PROVE MemInv'
  <2>0. r \in Callers
    BY <1>10 DEF Callers
  <2>1. PICK old : old = task[r]
    OBVIOUS
  <2>2. /\ MemTypeOK' /\ Only(r)
        /\ records' = records /\ decisions' = decisions
        /\ \/ task'[r].at \in {"idle", "raised"}
           \/ /\ task'[r] \in Writing({r})
              /\ task'[r].at = IF Governed THEN "authorize" ELSE "store"
    BY <1>10, <2>1, TriagedEffect DEF Idle, Raised
  <2>3. task'[r].at \notin {"search", "found"} /\ (task'[r].at = "store" => ~Governed)
    BY <2>2
  <2>4. GovernedInv' /\ FlushInv' /\ FlushedOnce' /\ KeepsInv'
    BY <1>10, <2>0, <2>2, <2>3, GovernedKept, FlushTriaged, OnceKept, KeepsTriaged
  <2>5. SearchInv'
    BY <2>0, <2>2, <2>3, SameGrows, SearchesStep
  <2> QED
    BY <2>2, <2>4, <2>5
<1> QED
  BY <1>1, <1>2, <1>3, <1>4, <1>5, <1>7, <1>8, <1>9, <1>10, TurnChangedEffect, TurnUnchangedEffect
    DEF MemoryNext

LEMMA MemInvIsSound == MemInv => MemoryIsSound
<1> SUFFICES ASSUME MemInv PROVE MemoryIsSound
  OBVIOUS
<1>1. WrittenIsGoverned
  <2> SUFFICES ASSUME Governed, NEW item \in Written PROVE Passed(decisions, item)
    BY DEF WrittenIsGoverned, Passed
  <2>1. PICK s \in StoreIds : item \in Range(records[s])
    BY DEF Written
  <2>2. PICK i \in DOMAIN records[s] : records[s][i] = item
    BY <2>1 DEF Range
  <2> QED
    BY <2>2 DEF MemInv, GovernedInv
<1>2. FlushedOnce /\ NothingForgotten
  BY NothingIsForgotten DEF MemInv
<1>3. SearchFindsBest
  <2> SUFFICES ASSUME NEW h \in Hosts, task[h].at = "found" PROVE FindsBest(records, task[h])
    BY Zenon DEF SearchFindsBest, FindsBest
  <2> QED
    BY DEF MemInv, SearchInv, SearchFor
<1> QED
  BY <1>1, <1>2, <1>3 DEF MemoryIsSound

\* What the memory centre owes its callers (memory.py MemoryCenter, MemoryFlushBuffer and
\* its gate), for any number of runs and hosts, any stores and any sequence of mounts:
\* stores hold what the gate passed, no turn is written twice and no text that counts is
\* lost, and a search returns the best of what its stores held when it began.
THEOREM MemoryHolds == MemorySpec => []MemoryIsSound
<1>1. MemoryInit => MemInv
  BY MemInitInv
<1>2. MemInv /\ [MemoryNext]_memoryVars => MemInv'
  <2>1. ASSUME MemInv, UNCHANGED memoryVars PROVE MemInv'
    <3>1. MemTypeOK' /\ UNCHANGED <<records, buffer, task, decisions>>
      BY <2>1, MemStutterTypes DEF MemInv, memoryVars
    <3> QED
      BY <2>1, <3>1, MemSame
  <2> QED
    BY <2>1, MemStep
<1>3. MemInv => MemoryIsSound
  BY MemInvIsSound
<1> QED
  BY <1>1, <1>2, <1>3, PTL DEF MemorySpec

-----------------------------------------------------------------------------
(* Candidates of MemoryInjection.                                           *)

Cands == [hit : Profiles, utility : Nat, index : Nat, route : Routes]

\* Every intent has an order of all routes.
LEMMA RoutesAre ==
  ASSUME NEW intent \in Intents, NEW order, order = RouteOrder(intent)
  PROVE  /\ order \in Seq(Routes) /\ Len(order) = 6 /\ DOMAIN order = 1..6
         /\ \A i \in 1..6 : order[i] \in Routes
         /\ \A i, j \in 1..6 : i # j => order[i] # order[j]
         /\ \A route \in Routes : \E i \in 1..6 : order[i] = route
<1> DEFINE Whole(o) == /\ o \in Seq(Routes) /\ Len(o) = 6 /\ DOMAIN o = 1..6
                       /\ \A i \in 1..6 : o[i] \in Routes
                       /\ \A i, j \in 1..6 : i # j => o[i] # o[j]
                       /\ \A route \in Routes : \E i \in 1..6 : o[i] = route
<1>1. Whole(<<"action_tips", "must_aware", "reliability_warning", "context",
              "connection_links", "emotional_context">>)
  BY DEF Routes
<1>2. Whole(<<"reliability_warning", "must_aware", "context", "action_tips",
              "connection_links", "emotional_context">>)
  BY DEF Routes
<1>3. Whole(<<"emotional_context", "must_aware", "context", "reliability_warning",
              "action_tips", "connection_links">>)
  BY DEF Routes
<1>4. Whole(<<"connection_links", "context", "must_aware", "action_tips",
              "reliability_warning", "emotional_context">>)
  BY DEF Routes
<1>5. Whole(<<"must_aware", "action_tips", "reliability_warning", "context",
              "connection_links", "emotional_context">>)
  BY DEF Routes
<1> HIDE DEF Whole
<1>6. Whole(order)
  <2>1. intent \in {"generic", "fact_check", "advice", "emotional", "brainstorm"}
    BY DEF Intents
  <2> QED
    BY <1>1, <1>2, <1>3, <1>4, <1>5, <2>1 DEF RouteOrder
<1> QED
  BY <1>6 DEF Whole

\* A hit goes where it fits, or is context.
LEMMA RouteIs ==
  ASSUME NEW hit, NEW intent \in Intents
  PROVE  /\ RouteOf(hit, intent) \in Routes
         /\ RouteOf(hit, intent) = "context" \/ Fits(hit, RouteOf(hit, intent), intent)
<1> DEFINE keep == {route \in Routes : Fits(hit, route, intent)}
<1>1. PICK order : order = RouteOrder(intent)
  OBVIOUS
<1>2. PICK fitting : fitting = Filtered(order, keep)
  OBVIOUS
<1>3. order \in Seq(Routes)
  BY <1>1, RoutesAre
<1>4. \A route \in keep : route \in Routes /\ Fits(hit, route, intent)
  OBVIOUS
<1>5. RouteOf(hit, intent) = IF fitting = << >> THEN "context" ELSE Head(fitting)
  BY <1>1, <1>2 DEF RouteOf
<1> HIDE DEF keep
<1>6. fitting \in Seq(Routes \cap keep)
  BY <1>2, <1>3, FilteredType
<1>7. CASE fitting = << >>
  BY <1>5, <1>7 DEF Routes
<1>8. CASE fitting # << >>
  <2>1. Head(fitting) \in Routes \cap keep
    BY <1>6, <1>8
  <2> QED
    BY <1>4, <1>5, <1>8, <2>1
<1> QED
  BY <1>7, <1>8

\* A hit that hardly matches is context, but for an emotional turn.
LEMMA IrrelevantRoutes ==
  ASSUME NEW hit \in Profiles, NEW intent \in Intents, hit.r < 30
  PROVE  \/ RouteOf(hit, intent) = "context"
         \/ RouteOf(hit, intent) = "emotional_context" /\ intent = "emotional"
<1>1. PICK route : route = RouteOf(hit, intent)
  OBVIOUS
<1>2. route \in Routes /\ (route = "context" \/ Fits(hit, route, intent))
  BY <1>1, RouteIs
<1>3. hit.r \in Nat
  <2>1. hit \in [Range(Scored) -> Nat]
    BY InjectionAssumption
  <2>2. "r" \in Range(Scored)
    <3>1. Scored[4] = "r" /\ 4 \in DOMAIN Scored
      BY DEF Scored
    <3> QED
      BY <3>1 DEF Range
  <2> QED
    BY <2>1, <2>2
<1>4. ~(hit.r >= 35) /\ ~(hit.r >= 70) /\ ~(hit.r >= 62) /\ ~(hit.r >= 45) /\ ~(hit.r >= 30)
  BY <1>3
<1>5. route \in {"must_aware", "action_tips", "reliability_warning", "connection_links"}
        => ~Fits(hit, route, intent)
  BY <1>4, Zenon DEF Fits
<1>6. route = "emotional_context" /\ Fits(hit, route, intent) => intent = "emotional"
  BY <1>4 DEF Fits
<1> QED
  BY <1>1, <1>2, <1>5, <1>6 DEF Routes

LEMMA UtilityIs ==
  ASSUME NEW hit \in Profiles, NEW intent \in Intents
  PROVE  Utility(hit, intent) \in Nat
<1>1. DOMAIN Scored = 1..8 /\ \A k \in 1..8 : Scored[k] \in Range(Scored)
  BY DEF Scored, Range
<1>2. \A k \in 1..8 : hit[Scored[k]] \in Nat
  BY <1>1, InjectionAssumption
<1>3. \A key : WeightOf(key, intent) \in Nat
  <2> TAKE key
  <2> DEFINE w == Weights(intent)
  <2>1. \A k \in DOMAIN w : w[k] \in Nat
    BY DEF Weights, Intents
  <2> HIDE DEF w
  <2>2. WeightOf(key, intent) = IF key \in DOMAIN w THEN w[key] ELSE 0
    BY DEF WeightOf, w
  <2> QED
    BY <2>1, <2>2
<1> DEFINE part(k) == WeightOf(Scored[k], intent) * hit[Scored[k]]
<1>4. \A k \in 1..8 : part(k) \in Nat
  <2> TAKE k \in 1..8
  <2>1. PICK a \in Nat, b \in Nat : a = WeightOf(Scored[k], intent) /\ b = hit[Scored[k]]
    BY <1>2, <1>3
  <2>2. a * b \in Nat
    OBVIOUS
  <2> QED
    BY <2>1, <2>2
<1> HIDE DEF part
<1> DEFINE parts == [k \in DOMAIN Scored |-> part(k)]
<1>5. parts \in Seq(Nat)
  <2>1. parts \in [1..8 -> Nat]
    BY <1>1, <1>4
  <2> QED
    BY <2>1
<1>6. Utility(hit, intent) = IF Summed(parts) \div 100 > 100 THEN 100 ELSE Summed(parts) \div 100
  BY DEF Utility, part
<1> HIDE DEF parts
<1>7. Summed(parts) \in Nat
  <2>1. 0 \in Nat
    OBVIOUS
  <2> QED
    BY <1>5, <2>1, SummedAppend
<1>8. Summed(parts) \div 100 \in Nat
  BY <1>7
<1> QED
  BY <1>6, <1>8

\* The candidates: the hits with their routes, the most useful first.
CandidateList(c, intent) ==
  /\ c \in Seq(Cands) /\ Len(c) \in Nat /\ DOMAIN c = 1..Len(c)
  /\ \A i \in DOMAIN c : c[i] \in Cands /\ c[i].route = RouteOf(c[i].hit, intent)
  /\ \A i, j \in DOMAIN c : i < j => c[i].utility >= c[j].utility
  /\ \A i, j \in DOMAIN c : i # j => c[i] # c[j]

LEMMA CandidatesList ==
  ASSUME NEW hits \in Seq(Profiles), NEW intent \in Intents, NEW c, c = Candidates(hits, intent)
  PROVE  CandidateList(c, intent)
<1>1. PICK all : all = CandidatesByHit(hits, intent)
  OBVIOUS
<1>2. PICK n \in Nat : n = Len(hits)
  OBVIOUS
<1> DEFINE utility(i) == Utility(hits[i], intent)
           route(i) == RouteOf(hits[i], intent)
<1>3. DOMAIN hits = 1..n /\ \A i \in 1..n : hits[i] \in Profiles
  BY <1>2
<1>4. \A i \in 1..n : utility(i) \in Nat /\ route(i) \in Routes
  BY <1>3, UtilityIs, RouteIs
<1>5. all = [i \in 1..n |-> [hit |-> hits[i], utility |-> utility(i), index |-> i, route |-> route(i)]]
  BY <1>1, <1>3 DEF CandidatesByHit
<1>6. \A h, i : route(i) = RouteOf(hits[i], intent)
  OBVIOUS
<1> HIDE DEF utility, route
<1>7. /\ DOMAIN all = 1..n
      /\ \A i \in 1..n : /\ all[i] \in Cands /\ all[i].index = i
                         /\ all[i].route = RouteOf(all[i].hit, intent)
  BY <1>3, <1>4, <1>5, <1>6 DEF Cands
<1> DEFINE key == UtilityKeys(all)
           S == DOMAIN all
           R == SortedBy(S, key)
<1>8. \A i \in S : key[i] = <<-all[i].utility, i>>
  BY DEF UtilityKeys
<1>9. c = [k \in DOMAIN R |-> all[R[k]]]
  BY <1>1 DEF Candidates
<1>10. S = 1..n
  BY <1>7
<1>11. \A i \in S : i \in Int /\ all[i].utility \in Int
  BY <1>7, <1>10 DEF Cands
<1> HIDE DEF S, key
<1>12. KeysOf(S, key, 2)
  <2>1. ASSUME NEW i \in S
        PROVE  DOMAIN key[i] = 1..2 /\ \A p \in 1..2 : key[i][p] \in Int
    <3>1. -all[i].utility \in Int /\ i \in Int
      BY <1>11
    <3> QED
      BY <1>8, <3>1
  <2>2. ASSUME NEW i \in S, NEW j \in S, i # j
        PROVE  \E p \in 1..2 : key[i][p] # key[j][p]
    <3>1. key[i][2] # key[j][2]
      BY <1>8, <2>2
    <3> QED
      BY <3>1
  <2> QED
    BY <2>1, <2>2 DEF KeysOf
<1>13. IsFiniteSet(S) /\ Cardinality(S) = n
  <2>1. 1 \in Int /\ n \in Int
    BY <1>2
  <2>2. IsFiniteSet(1..n) /\ Cardinality(1..n) = IF 1 > n THEN 0 ELSE n - 1 + 1
    BY <2>1, FS_Interval
  <2> QED
    BY <1>2, <1>10, <2>2
<1>14. ListsBy(R, S, key)
  BY <1>12, <1>13, SortedByIs
<1> HIDE DEF R
<1>15. /\ R \in Seq(S) /\ Len(R) = n
       /\ \A i, j \in DOMAIN R : i < j => key[R[i]][1] <= key[R[j]][1]
       /\ \A i, j \in DOMAIN R : i # j => R[i] # R[j]
  BY <1>13, <1>14, Zenon DEF ListsBy
<1>16. DOMAIN R = 1..n /\ \A k \in 1..n : R[k] \in 1..n
  BY <1>10, <1>15
<1>17. /\ DOMAIN c = 1..n
       /\ \A k \in 1..n : /\ c[k] = all[R[k]] /\ c[k] \in Cands /\ c[k].index = R[k]
                          /\ c[k].route = RouteOf(c[k].hit, intent)
  BY <1>7, <1>9, <1>16
<1>18. c \in Seq(Cands) /\ Len(c) = n
  <2>1. c \in [1..n -> Cands]
    BY <1>9, <1>16, <1>17
  <2> QED
    BY <1>2, <2>1
<1>19. \A i, j \in 1..n : i < j => c[i].utility >= c[j].utility
  <2> TAKE i, j \in 1..n
  <2> HAVE i < j
  <2>1. key[R[i]][1] = -all[R[i]].utility /\ key[R[j]][1] = -all[R[j]].utility
    BY <1>8, <1>10, <1>16
  <2>2. PICK a \in Int, b \in Int : a = all[R[i]].utility /\ b = all[R[j]].utility
    BY <1>10, <1>11, <1>16
  <2>3. key[R[i]][1] <= key[R[j]][1]
    BY <1>15, <1>16
  <2>4. -a <= -b
    BY <2>1, <2>2, <2>3
  <2>5. a >= b
    BY <2>4
  <2> QED
    BY <1>17, <2>2, <2>5
<1>20. \A i, j \in 1..n : i # j => c[i] # c[j]
  <2> TAKE i, j \in 1..n
  <2> HAVE i # j
  <2>1. R[i] # R[j]
    BY <1>15, <1>16
  <2>2. c[i].index # c[j].index
    BY <1>17, <2>1
  <2> QED
    BY <2>2
<1> QED
  BY <1>2, <1>17, <1>18, <1>19, <1>20 DEF CandidateList

-----------------------------------------------------------------------------
(* What the routes take.                                                    *)

\* What one route takes: the best that are useful, as many as there is room for.
TakenHolds(t, c, route, room) ==
  /\ t \in Seq(Cands) /\ Len(t) \in Nat /\ DOMAIN t = 1..Len(t) /\ Len(t) <= room
  /\ \A i, j \in DOMAIN t : i # j => t[i] # t[j]
  /\ \A i \in DOMAIN t : t[i] \in Range(c) /\ t[i].route = route /\ t[i].utility >= MinUtility
  /\ \A x \in Range(c) :
       x.route = route =>
         \/ x.utility < MinUtility
         \/ \E i \in DOMAIN t : t[i] = x
         \/ /\ Len(t) \in {MaxPerRoute, room}
            /\ \A i \in DOMAIN t : t[i].utility >= x.utility

LEMMA TakenIs ==
  ASSUME NEW intent, NEW c, CandidateList(c, intent), NEW route, NEW room \in Nat,
         NEW t, t = TakenOf(c, route, room)
  PROVE  TakenHolds(t, c, route, room)
<1> DEFINE keep == Useful(c, route)
           m == IF MaxPerRoute < room THEN MaxPerRoute ELSE room
<1>1. /\ c \in Seq(Cands) /\ Len(c) \in Nat /\ DOMAIN c = 1..Len(c)
      /\ \A i \in DOMAIN c : c[i] \in Cands
      /\ \A i, j \in DOMAIN c : i < j => c[i].utility >= c[j].utility
      /\ \A i, j \in DOMAIN c : i # j => c[i] # c[j]
  BY DEF CandidateList
<1>2. \A x : x \in Range(c) <=> \E i \in DOMAIN c : c[i] = x
  BY DEF Range
<1>3. \A x : x \in keep <=> x \in Range(c) /\ x.route = route /\ x.utility >= MinUtility
  BY DEF Useful
<1>4. MaxPerRoute \in Nat /\ MinUtility \in Nat
  BY InjectionAssumption
<1>5. PICK s : s = Filtered(c, keep)
  OBVIOUS
<1>6. PICK u : u = FirstOf(MaxPerRoute, s)
  OBVIOUS
<1>7. t = FirstOf(room, u)
  BY <1>5, <1>6 DEF TakenOf
<1> HIDE DEF keep
<1>8. s \in Seq(Cands \cap keep)
  BY <1>1, <1>5, FilteredType
<1>9. /\ Len(s) \in Nat /\ DOMAIN s = 1..Len(s)
      /\ \A i \in DOMAIN s : s[i] \in Cands /\ s[i] \in keep
  BY <1>8
<1>10. /\ {s[i] : i \in DOMAIN s} = {c[i] : i \in DOMAIN c} \cap keep
       /\ \A i, j \in DOMAIN s : i # j => s[i] # s[j]
  <2> DEFINE Once(q) == \A i, j \in DOMAIN q : i # j => q[i] # q[j]
  <2>1. Once(c)
    BY <1>1
  <2>2. {s[i] : i \in DOMAIN s} = {c[i] : i \in DOMAIN c} \cap keep
    BY <1>1, <1>5, FilteredMembers
  <2>3. Once(c) => Once(s)
    BY <1>1, <1>5, FilteredMembers
  <2>4. Once(s)
    BY <2>1, <2>3
  <2> QED
    BY <2>2, <2>4
<1>11. KeepsOrder(s, c, Len(c))
  BY <1>1, <1>5, FilteredOrder
<1>12. \A i, j \in DOMAIN s : i < j => s[i].utility >= s[j].utility
  BY <1>1, <1>11 DEF KeepsOrder
<1>13. \A x \in keep : \E j \in DOMAIN s : s[j] = x
  <2>1. \A x \in keep : x \in {c[i] : i \in DOMAIN c}
    BY <1>2, <1>3
  <2> QED
    BY <1>10, <2>1
<1>14. s \in Seq(Cands)
  <2>1. s \in [1..Len(s) -> Cands]
    BY <1>8, <1>9
  <2> QED
    BY <1>9, <2>1
<1>15. /\ u \in Seq(Cands) /\ Len(u) = IF Len(s) < MaxPerRoute THEN Len(s) ELSE MaxPerRoute
       /\ \A i \in DOMAIN u : i \in DOMAIN s /\ u[i] = s[i]
  BY <1>4, <1>6, <1>14, FirstOfIs
<1>16. /\ t \in Seq(Cands) /\ Len(t) = IF Len(u) < room THEN Len(u) ELSE room
       /\ \A i \in DOMAIN t : i \in DOMAIN u /\ t[i] = u[i]
  BY <1>7, <1>15, FirstOfIs
<1>17. Len(t) \in Nat /\ DOMAIN t = 1..Len(t) /\ Len(u) \in Nat /\ DOMAIN u = 1..Len(u)
  BY <1>15, <1>16
<1>18. \A i \in DOMAIN t : i \in DOMAIN s /\ t[i] = s[i]
  BY <1>15, <1>16
<1>19. Len(t) <= room
  BY <1>16, <1>17
<1>20. ASSUME NEW x \in Range(c), x.route = route, ~(x.utility < MinUtility),
              ~(\E i \in DOMAIN t : t[i] = x)
       PROVE  /\ Len(t) \in {MaxPerRoute, room}
              /\ \A i \in DOMAIN t : t[i].utility >= x.utility
  <2>1. x \in keep
    <3>1. x \in Cands
      BY <1>1, <1>2
    <3>2. x.utility \in Nat
      BY <3>1 DEF Cands
    <3>3. x.utility >= MinUtility
      BY <1>4, <1>20, <3>2
    <3> QED
      BY <1>3, <1>20, <3>3
  <2>2. PICK j \in DOMAIN s : s[j] = x
    BY <1>13, <2>1
  <2>3. j \notin DOMAIN t
    BY <1>18, <1>20, <2>2
  <2>4. PICK a \in Nat, b \in Nat, d \in Nat : a = Len(s) /\ b = Len(t) /\ d = Len(u)
    BY <1>9, <1>17
  <2>5. j \in 1..a /\ j \notin 1..b
    BY <1>9, <1>17, <2>3, <2>4
  <2>6. /\ d = (IF a < MaxPerRoute THEN a ELSE MaxPerRoute)
        /\ b = (IF d < room THEN d ELSE room)
    BY <1>15, <1>16, <2>4
  <2>7. b \in {MaxPerRoute, room} /\ \A i \in 1..b : i < j
    BY <1>4, <2>5, <2>6
  <2>8. ASSUME NEW i \in DOMAIN t PROVE t[i].utility >= x.utility
    <3>1. i < j /\ i \in DOMAIN s /\ t[i] = s[i]
      BY <1>17, <1>18, <2>4, <2>7
    <3> QED
      BY <1>12, <2>2, <3>1
  <2> QED
    BY <2>4, <2>7, <2>8
<1>21. \A i \in DOMAIN t : t[i] \in Range(c) /\ t[i].route = route /\ t[i].utility >= MinUtility
  BY <1>3, <1>9, <1>18
<1>22. \A i, j \in DOMAIN t : i # j => t[i] # t[j]
  BY <1>10, <1>18
<1> QED
  BY <1>16, <1>17, <1>19, <1>20, <1>21, <1>22 DEF TakenHolds

\* What is chosen after the n-th route.
RouteRounds(f, c, order) ==
  f = [n \in 0..Len(order) |->
         IF n = 0 THEN << >> ELSE WithRoute(c, order[n], f[n - 1])]

RouteRoundsOf(f, c, order) ==
  /\ \A n \in 0..6 : f[n] \in Seq(Cands) /\ Len(f[n]) \in Nat /\ Len(f[n]) <= MaxTotal
  /\ f[0] = << >>
  /\ \A n \in 1..6 : f[n] = f[n - 1] \o TakenOf(c, order[n], MaxTotal - Len(f[n - 1]))

LEMMA RouteRoundsExist ==
  ASSUME NEW intent \in Intents, NEW c, CandidateList(c, intent),
         NEW order, order = RouteOrder(intent)
  PROVE  \E f : RouteRounds(f, c, order) /\ RouteRoundsOf(f, c, order)
<1> DEFINE V == {v \in Seq(Cands) : Len(v) <= MaxTotal}
           taken(v, i) == TakenOf(c, order[i], MaxTotal - Len(v))
           step == [p \in (1..6) \X V |-> p[2] \o taken(p[2], p[1])]
<1>1. Len(order) = 6
  BY RoutesAre
<1>2. MaxTotal \in Nat
  BY InjectionAssumption
<1>3. ASSUME NEW i \in 1..6, NEW v \in V PROVE v \o taken(v, i) \in V
  <2>1. PICK t : t = taken(v, i)
    OBVIOUS
  <2>2. PICK room : room = MaxTotal - Len(v)
    OBVIOUS
  <2>3. v \in Seq(Cands) /\ Len(v) \in Nat /\ Len(v) <= MaxTotal
    OBVIOUS
  <2>4. room \in Nat
    BY <1>2, <2>2, <2>3
  <2>5. TakenHolds(t, c, order[i], room)
    BY <2>1, <2>2, <2>4, TakenIs
  <2>6. t \in Seq(Cands) /\ Len(t) \in Nat /\ Len(t) <= room
    BY <2>5, Zenon DEF TakenHolds
  <2>7. v \o t \in Seq(Cands) /\ Len(v \o t) = Len(v) + Len(t)
    BY <2>3, <2>6
  <2>8. Len(v) + Len(t) <= MaxTotal
    BY <1>2, <2>2, <2>3, <2>6
  <2> QED
    BY <2>1, <2>7, <2>8
<1> HIDE DEF taken
<1>4. step \in [(1..6) \X V -> V]
  <2> HIDE DEF V
  <2> QED
    BY <1>3
<1>5. << >> \in V
  BY <1>2
<1>6. PICK f \in [0..6 -> V] : Iterates(f, 6, << >>, step)
  <2> HIDE DEF V, step
  <2>1. 6 \in Nat
    OBVIOUS
  <2> QED
    BY <1>4, <1>5, <2>1, RecursionExists
<1>7. f[0] = << >> /\ \A i \in 1..6 : f[i] = f[i - 1] \o taken(f[i - 1], i)
  <2>1. f[0] = << >>
    BY <1>6 DEF Iterates
  <2>2. ASSUME NEW i \in 1..6 PROVE f[i] = f[i - 1] \o taken(f[i - 1], i)
    <3>1. i - 1 \in 0..6
      OBVIOUS
    <3>2. f[i] = step[<<i, f[i - 1]>>] /\ f[i - 1] \in V
      <4> HIDE DEF step, V
      <4> QED
        BY <1>6, <3>1 DEF Iterates
    <3> HIDE DEF V
    <3> QED
      BY <3>2
  <2> QED
    BY <2>1, <2>2
<1>8. \A n \in 0..6 : f[n] \in Seq(Cands) /\ Len(f[n]) \in Nat /\ Len(f[n]) <= MaxTotal
  <2> TAKE n \in 0..6
  <2>1. f[n] \in V
    <3> HIDE DEF V
    <3> QED
      BY <1>6
  <2>2. f[n] \in Seq(Cands) /\ Len(f[n]) <= MaxTotal
    BY <2>1
  <2> QED
    BY <2>2
<1> DEFINE e(i) == IF i = 0 THEN << >> ELSE f[i - 1] \o taken(f[i - 1], i)
<1> HIDE DEF V, step
<1>9. \A i \in 0..6 : f[i] = e(i)
  <2> TAKE i \in 0..6
  <2>1. CASE i = 0
    BY <1>7, <2>1
  <2>2. CASE i \in 1..6
    <3>1. i # 0
      BY <2>2
    <3> QED
      BY <1>7, <2>2, <3>1, Zenon
  <2> QED
    BY <2>1, <2>2
<1> HIDE DEF e
<1>10. f = [i \in 0..6 |-> e(i)]
  BY <1>6, <1>9
<1>11. RouteRounds(f, c, order)
  BY <1>1, <1>10, Zenon DEF RouteRounds, WithRoute, e, taken
<1>12. RouteRoundsOf(f, c, order)
  BY <1>7, <1>8 DEF RouteRoundsOf, taken
<1> QED
  BY <1>11, <1>12

LEMMA ChosenIs ==
  ASSUME NEW intent \in Intents, NEW c, CandidateList(c, intent),
         NEW order, order = RouteOrder(intent)
  PROVE  \E f : RouteRoundsOf(f, c, order) /\ Chosen(c, intent) = f[6]
<1>1. Len(order) = 6 /\ 6 \in Nat
  BY RoutesAre
<1> DEFINE g == CHOOSE h : RouteRounds(h, c, order)
<1>2. PICK f : RouteRounds(f, c, order) /\ RouteRoundsOf(f, c, order)
  BY RouteRoundsExist
<1>3. RouteRounds(g, c, order)
  BY <1>2, Zenon
<1>4. Chosen(c, intent) = g[Len(order)]
  BY Zenon DEF Chosen, RouteRounds
<1> HIDE DEF g
<1> DEFINE taken(v, i) == TakenOf(c, order[i], MaxTotal - Len(v))
<1>5. ASSUME NEW h, RouteRounds(h, c, order)
      PROVE  h[0] = << >> /\ \A i \in 1..6 : h[i] = h[i - 1] \o taken(h[i - 1], i)
  <2> DEFINE e(i) == IF i = 0 THEN << >> ELSE h[i - 1] \o taken(h[i - 1], i)
  <2>1. h = [i \in 0..6 |-> e(i)]
    BY <1>1, <1>5, Zenon DEF RouteRounds, WithRoute
  <2> HIDE DEF e
  <2>2. \A i \in 0..6 : h[i] = e(i)
    BY <2>1
  <2>3. h[0] = << >>
    BY <2>2 DEF e
  <2>4. ASSUME NEW i \in 1..6 PROVE h[i] = h[i - 1] \o taken(h[i - 1], i)
    <3>1. i \in 0..6 /\ i # 0
      OBVIOUS
    <3> QED
      BY <2>2, <3>1, Zenon DEF e
  <2> QED
    BY <2>3, <2>4
<1> HIDE DEF taken
<1>6. f[0] = << >> /\ \A i \in 1..6 : f[i] = f[i - 1] \o taken(f[i - 1], i)
  BY <1>2, <1>5
<1>7. g[0] = << >> /\ \A i \in 1..6 : g[i] = g[i - 1] \o taken(g[i - 1], i)
  BY <1>3, <1>5
<1> DEFINE Same == {n \in Nat : n <= 6 => f[n] = g[n]}
<1>8. 0 \in Same
  BY <1>6, <1>7
<1>9. ASSUME NEW n \in Nat, n \in Same PROVE n + 1 \in Same
  <2> SUFFICES ASSUME n + 1 <= 6 PROVE f[n + 1] = g[n + 1]
    OBVIOUS
  <2>1. n + 1 \in 1..6 /\ (n + 1) - 1 = n /\ f[n] = g[n]
    BY <1>9
  <2> QED
    BY <1>6, <1>7, <2>1
<1> HIDE DEF Same
<1>10. 6 \in Same
  BY <1>1, <1>8, <1>9, Induction
<1>11. f[6] = g[6]
  BY <1>10 DEF Same
<1> QED
  BY <1>1, <1>2, <1>4, <1>11

-----------------------------------------------------------------------------
(* What is left out.                                                        *)

\* The route of x is full in f, of candidates that are no less useful.
RouteFull(f, x) ==
  /\ \E p \in Nat : /\ p + MaxPerRoute <= Len(f)
                    /\ \A i \in DOMAIN f :
                         f[i].route = x.route <=> i \in (p + 1)..(p + MaxPerRoute)
  /\ \A i \in DOMAIN f : f[i].route = x.route => f[i].utility >= x.utility

\* All is full, of this route's no less useful and of what comes from routes before the m-th.
AllFull(f, order, m, x) ==
  /\ Len(f) = MaxTotal
  /\ \A i \in DOMAIN f : \/ \E k \in 1..6 : k < m /\ f[i].route = order[k]
                         \/ f[i].route = x.route /\ f[i].utility >= x.utility

\* Why x of the m-th route may be missing from f.
Excused(f, order, m, x) ==
  \/ x.utility < MinUtility
  \/ \E i \in DOMAIN f : f[i] = x
  \/ RouteFull(f, x)
  \/ AllFull(f, order, m, x)

\* What holds of the chosen after the n-th route.
RoundHolds(f, n, c, order) ==
  /\ f \in Seq(Cands) /\ Len(f) \in Nat /\ DOMAIN f = 1..Len(f) /\ Len(f) <= MaxTotal
  /\ \A i, j \in DOMAIN f : i # j => f[i] # f[j]
  /\ \A i \in DOMAIN f : /\ f[i] \in Range(c) /\ f[i].utility >= MinUtility
                         /\ \E m \in 1..6 : m <= n /\ f[i].route = order[m]
  /\ \A m \in 1..6, x \in Range(c) :
       m <= n /\ x.route = order[m] => Excused(f, order, m, x)

LEMMA RoundStep ==
  ASSUME NEW intent \in Intents, NEW c, CandidateList(c, intent),
         NEW order, order = RouteOrder(intent),
         NEW n \in 1..6, NEW f, RoundHolds(f, n - 1, c, order),
         NEW g, g = f \o TakenOf(c, order[n], MaxTotal - Len(f))
  PROVE  RoundHolds(g, n, c, order)
<1>1. MaxTotal \in Nat /\ MaxPerRoute \in Nat /\ MinUtility \in Nat
  BY InjectionAssumption
<1>2. PICK own : own = order[n]
  OBVIOUS
<1>3. PICK L \in Nat : L = Len(f)
  BY DEF RoundHolds
<1>4. /\ f \in Seq(Cands) /\ DOMAIN f = 1..L /\ L <= MaxTotal
      /\ \A i, j \in DOMAIN f : i # j => f[i] # f[j]
      /\ \A i \in DOMAIN f : /\ f[i] \in Range(c) /\ f[i].utility >= MinUtility
                             /\ \E m \in 1..6 : m <= n - 1 /\ f[i].route = order[m]
      /\ \A m \in 1..6, x \in Range(c) :
           m <= n - 1 /\ x.route = order[m] => Excused(f, order, m, x)
  BY <1>3, Zenon DEF RoundHolds
<1>5. PICK room \in Nat : room = MaxTotal - L
  BY <1>1, <1>4
<1>6. PICK t : t = TakenOf(c, own, room)
  OBVIOUS
<1>7. TakenHolds(t, c, own, room)
  BY <1>6, TakenIs
<1>8. PICK T \in Nat : T = Len(t)
  BY <1>7 DEF TakenHolds
<1>9. /\ t \in Seq(Cands) /\ DOMAIN t = 1..T /\ T <= room
      /\ \A i, j \in DOMAIN t : i # j => t[i] # t[j]
      /\ \A i \in DOMAIN t : t[i] \in Range(c) /\ t[i].route = own /\ t[i].utility >= MinUtility
      /\ \A x \in Range(c) :
           x.route = own =>
             \/ x.utility < MinUtility
             \/ \E i \in DOMAIN t : t[i] = x
             \/ /\ T \in {MaxPerRoute, room}
                /\ \A i \in DOMAIN t : t[i].utility >= x.utility
  BY <1>7, <1>8, Zenon DEF TakenHolds
<1>10. g = f \o t
  BY <1>2, <1>3, <1>5, <1>6
<1>11. /\ g \in Seq(Cands) /\ Len(g) = L + T /\ DOMAIN g = 1..(L + T)
       /\ \A i \in 1..L : g[i] = f[i]
       /\ \A i \in 1..T : g[L + i] = t[i]
  <2>1. f \in Seq(Cands) /\ t \in Seq(Cands) /\ L = Len(f) /\ T = Len(t)
    BY <1>3, <1>4, <1>8, <1>9
  <2>2. g \in Seq(Cands) /\ Len(g) = L + T /\ DOMAIN g = 1..(L + T)
    <3>1. g \in Seq(Cands) /\ Len(g) = L + T
      BY <1>10, <2>1, ConcatProperties
    <3> QED
      BY <3>1
  <2>3. \A i \in 1..(L + T) : g[i] = IF i <= L THEN f[i] ELSE t[i - L]
    BY <1>10, <2>1, ConcatProperties
  <2>4. ASSUME NEW i \in 1..L PROVE g[i] = f[i]
    <3>1. i \in 1..(L + T) /\ i <= L
      OBVIOUS
    <3> QED
      BY <2>3, <3>1
  <2>5. ASSUME NEW i \in 1..T PROVE g[L + i] = t[i]
    <3>1. PICK j \in 1..(L + T) : j = L + i
      OBVIOUS
    <3>2. ~(j <= L) /\ j - L = i
      BY <3>1
    <3> QED
      BY <2>3, <3>1, <3>2
  <2> QED
    BY <2>2, <2>4, <2>5
<1>12. \A i \in DOMAIN g : \/ i \in DOMAIN f /\ g[i] = f[i]
                           \/ \E k \in DOMAIN t : i = L + k /\ g[i] = t[k]
  <2> TAKE i \in DOMAIN g
  <2>1. CASE i <= L
    BY <1>4, <1>11, <2>1
  <2>2. CASE i > L
    <3>1. PICK k \in 1..T : k = i - L
      BY <1>11, <2>2
    <3>2. i = L + k /\ k \in DOMAIN t
      BY <1>9, <1>11, <3>1
    <3>3. g[L + k] = t[k]
      BY <1>11
    <3> QED
      BY <3>2, <3>3
  <2>3. i <= L \/ i > L
    BY <1>11
  <2> QED
    BY <2>1, <2>2, <2>3
<1>13. \A m \in 1..6 : m <= n - 1 => order[m] # own
  <2>1. \A i, j \in 1..6 : i # j => order[i] # order[j]
    BY RoutesAre
  <2> QED
    BY <1>2, <2>1
<1>14. \A i \in DOMAIN f : f[i].route # own
  BY <1>4, <1>13
<1>15. Len(g) \in Nat /\ Len(g) <= MaxTotal
  BY <1>1, <1>4, <1>5, <1>9, <1>11
<1>16. ASSUME NEW i \in DOMAIN g, NEW j \in DOMAIN g, i # j PROVE g[i] # g[j]
  <2>1. CASE i \in DOMAIN f /\ g[i] = f[i] /\ j \in DOMAIN f /\ g[j] = f[j]
    BY <1>4, <1>16, <2>1
  <2>2. CASE i \in DOMAIN f /\ g[i] = f[i] /\ \E k \in DOMAIN t : j = L + k /\ g[j] = t[k]
    <3>1. g[i].route # own /\ g[j].route = own
      BY <1>9, <1>14, <2>2
    <3> QED
      BY <3>1
  <2>3. CASE j \in DOMAIN f /\ g[j] = f[j] /\ \E k \in DOMAIN t : i = L + k /\ g[i] = t[k]
    <3>1. g[j].route # own /\ g[i].route = own
      BY <1>9, <1>14, <2>3
    <3> QED
      BY <3>1
  <2>4. ASSUME NEW k \in DOMAIN t, i = L + k, g[i] = t[k],
               NEW q \in DOMAIN t, j = L + q, g[j] = t[q]
        PROVE  g[i] # g[j]
    BY <1>9, <1>16, <2>4
  <2> QED
    BY <1>12, <2>1, <2>2, <2>3, <2>4
<1>17. ASSUME NEW i \in DOMAIN g
       PROVE  /\ g[i] \in Range(c) /\ g[i].utility >= MinUtility
              /\ \E m \in 1..6 : m <= n /\ g[i].route = order[m]
  <2>1. CASE i \in DOMAIN f /\ g[i] = f[i]
    <3>1. PICK m \in 1..6 : m <= n - 1 /\ f[i].route = order[m]
      BY <1>4, <2>1
    <3>2. m <= n
      BY <3>1
    <3> QED
      BY <1>4, <2>1, <3>1, <3>2
  <2>2. CASE \E k \in DOMAIN t : i = L + k /\ g[i] = t[k]
    <3>1. n <= n
      OBVIOUS
    <3> QED
      BY <1>2, <1>9, <2>2, <3>1
  <2> QED
    BY <1>12, <2>1, <2>2
<1>18. ASSUME NEW m \in 1..6, NEW x \in Range(c), m <= n - 1, x.route = order[m]
       PROVE  Excused(g, order, m, x)
  <2>1. Excused(f, order, m, x)
    BY <1>4, <1>18
  <2>2. x.route # own
    BY <1>13, <1>18
  <2>3. CASE x.utility < MinUtility
    BY <2>3 DEF Excused
  <2>4. CASE \E i \in DOMAIN f : f[i] = x
    <3>1. \E i \in DOMAIN g : g[i] = x
      BY <1>4, <1>11, <2>4
    <3> QED
      BY <3>1 DEF Excused
  <2>5. CASE RouteFull(f, x)
    <3>1. PICK p \in Nat :
            /\ p + MaxPerRoute <= L
            /\ \A i \in DOMAIN f : f[i].route = x.route <=> i \in (p + 1)..(p + MaxPerRoute)
      BY <1>3, <2>5 DEF RouteFull
    <3>2. \A i \in DOMAIN f : f[i].route = x.route => f[i].utility >= x.utility
      BY <2>5 DEF RouteFull
    <3>3. p + MaxPerRoute <= Len(g)
      BY <1>1, <1>11, <3>1
    <3>4. ASSUME NEW i \in DOMAIN g
          PROVE  /\ g[i].route = x.route <=> i \in (p + 1)..(p + MaxPerRoute)
                 /\ g[i].route = x.route => g[i].utility >= x.utility
      <4>1. CASE i \in DOMAIN f /\ g[i] = f[i]
        BY <3>1, <3>2, <4>1
      <4>2. ASSUME NEW k \in DOMAIN t, i = L + k, g[i] = t[k]
            PROVE  g[i].route # x.route /\ i \notin (p + 1)..(p + MaxPerRoute)
        <5>1. g[i].route # x.route
          BY <1>9, <2>2, <4>2
        <5>2. k \in 1..T
          BY <1>9
        <5>3. i \notin (p + 1)..(p + MaxPerRoute)
          BY <1>1, <3>1, <4>2, <5>2
        <5> QED
          BY <5>1, <5>3
      <4> QED
        BY <1>12, <4>1, <4>2
    <3>5. RouteFull(g, x)
      BY <3>3, <3>4 DEF RouteFull
    <3> QED
      BY <3>5 DEF Excused
  <2>6. CASE AllFull(f, order, m, x)
    <3>1. T = 0 /\ Len(g) = Len(f) /\ DOMAIN g = DOMAIN f
      BY <1>1, <1>3, <1>4, <1>5, <1>9, <1>11, <2>6 DEF AllFull
    <3>2. \A i \in DOMAIN g : g[i] = f[i]
      BY <1>4, <1>11, <3>1
    <3>3. AllFull(g, order, m, x)
      BY <2>6, <3>1, <3>2 DEF AllFull
    <3> QED
      BY <3>3 DEF Excused
  <2> QED
    BY <2>1, <2>3, <2>4, <2>5, <2>6 DEF Excused
<1>19. ASSUME NEW x \in Range(c), x.route = own
       PROVE  Excused(g, order, n, x)
  <2>1. CASE x.utility < MinUtility
    BY <2>1 DEF Excused
  <2>2. CASE \E i \in DOMAIN t : t[i] = x
    <3>1. PICK i \in 1..T : t[i] = x
      BY <1>9, <2>2
    <3>2. PICK j \in 1..(L + T) : j = L + i
      BY <3>1
    <3>3. j \in DOMAIN g /\ g[j] = x
      BY <1>11, <3>1, <3>2
    <3> QED
      BY <3>3 DEF Excused
  <2>3. CASE T = MaxPerRoute /\ \A i \in DOMAIN t : t[i].utility >= x.utility
    <3>1. L + MaxPerRoute <= Len(g)
      BY <1>1, <1>11, <2>3
    <3>2. ASSUME NEW i \in DOMAIN g
          PROVE  /\ g[i].route = x.route <=> i \in (L + 1)..(L + MaxPerRoute)
                 /\ g[i].route = x.route => g[i].utility >= x.utility
      <4>1. CASE i \in DOMAIN f /\ g[i] = f[i]
        <5>1. g[i].route # x.route
          BY <1>14, <1>19, <4>1
        <5>2. i \notin (L + 1)..(L + MaxPerRoute)
          BY <1>4, <4>1
        <5> QED
          BY <5>1, <5>2
      <4>2. ASSUME NEW k \in DOMAIN t, i = L + k, g[i] = t[k]
            PROVE  /\ g[i].route = x.route /\ i \in (L + 1)..(L + MaxPerRoute)
                   /\ g[i].utility >= x.utility
        <5>1. g[i].route = x.route /\ g[i].utility >= x.utility
          BY <1>9, <1>19, <2>3, <4>2
        <5>2. k \in 1..T
          BY <1>9
        <5>3. i \in (L + 1)..(L + MaxPerRoute)
          BY <1>1, <2>3, <4>2, <5>2
        <5> QED
          BY <5>1, <5>3
      <4> QED
        BY <1>12, <4>1, <4>2
    <3>3. RouteFull(g, x)
      BY <3>1, <3>2 DEF RouteFull
    <3> QED
      BY <3>3 DEF Excused
  <2>4. CASE T = room /\ \A i \in DOMAIN t : t[i].utility >= x.utility
    <3>1. Len(g) = MaxTotal
      BY <1>1, <1>5, <1>11, <2>4
    <3>2. ASSUME NEW i \in DOMAIN g
          PROVE  \/ \E k \in 1..6 : k < n /\ g[i].route = order[k]
                 \/ g[i].route = x.route /\ g[i].utility >= x.utility
      <4>1. CASE i \in DOMAIN f /\ g[i] = f[i]
        <5>1. PICK k \in 1..6 : k <= n - 1 /\ f[i].route = order[k]
          BY <1>4, <4>1
        <5>2. k < n
          BY <5>1
        <5> QED
          BY <4>1, <5>1, <5>2
      <4>2. CASE \E k \in DOMAIN t : i = L + k /\ g[i] = t[k]
        BY <1>9, <1>19, <2>4, <4>2
      <4> QED
        BY <1>12, <4>1, <4>2
    <3>3. AllFull(g, order, n, x)
      BY <3>1, <3>2 DEF AllFull
    <3> QED
      BY <3>3 DEF Excused
  <2> QED
    BY <1>9, <1>19, <2>1, <2>2, <2>3, <2>4
<1>20. ASSUME NEW m \in 1..6, NEW x \in Range(c), m <= n, x.route = order[m]
       PROVE  Excused(g, order, m, x)
  <2>1. CASE m <= n - 1
    BY <1>18, <1>20, <2>1
  <2>2. CASE m = n
    BY <1>2, <1>19, <1>20, <2>2
  <2>3. m <= n - 1 \/ m = n
    BY <1>20
  <2> QED
    BY <2>1, <2>2, <2>3
<1>21. DOMAIN g = 1..Len(g)
  BY <1>11
<1> QED
  BY <1>11, <1>15, <1>16, <1>17, <1>20, <1>21, Zenon DEF RoundHolds

\* What is chosen of the candidates.
LEMMA ChosenHolds ==
  ASSUME NEW intent \in Intents, NEW c, CandidateList(c, intent),
         NEW order, order = RouteOrder(intent)
  PROVE  RoundHolds(Chosen(c, intent), 6, c, order)
<1>1. PICK f : RouteRoundsOf(f, c, order) /\ Chosen(c, intent) = f[6]
  BY ChosenIs
<1>2. /\ f[0] = << >>
      /\ \A n \in 1..6 : f[n] = f[n - 1] \o TakenOf(c, order[n], MaxTotal - Len(f[n - 1]))
  BY <1>1, Zenon DEF RouteRoundsOf
<1> DEFINE Fine == {n \in Nat : n <= 6 => RoundHolds(f[n], n, c, order)}
<1>3. 0 \in Fine
  <2>1. 0 <= MaxTotal
    BY InjectionAssumption
  <2>2. RoundHolds(<< >>, 0, c, order)
    BY <2>1 DEF RoundHolds
  <2> QED
    BY <1>2, <2>2
<1>4. ASSUME NEW n \in Nat, n \in Fine PROVE n + 1 \in Fine
  <2> SUFFICES ASSUME n + 1 <= 6 PROVE RoundHolds(f[n + 1], n + 1, c, order)
    OBVIOUS
  <2>1. PICK m \in 1..6 : m = n + 1
    OBVIOUS
  <2>2. m - 1 = n /\ RoundHolds(f[m - 1], m - 1, c, order)
    BY <1>4, <2>1
  <2>3. f[m] = f[m - 1] \o TakenOf(c, order[m], MaxTotal - Len(f[m - 1]))
    BY <1>2
  <2>4. RoundHolds(f[m], m, c, order)
    BY <2>2, <2>3, RoundStep
  <2> QED
    BY <2>1, <2>4
<1> HIDE DEF Fine
<1>5. 6 \in Fine
  <2>1. 6 \in Nat
    OBVIOUS
  <2> QED
    BY <1>3, <1>4, <2>1, Induction
<1> QED
  BY <1>1, <1>5 DEF Fine

-----------------------------------------------------------------------------
(* The injection.                                                           *)

\* What is shown was chosen of the candidates of the recalled.
Injected ==
  /\ injection.intent \in Intents /\ injection.hits \in Seq(Profiles)
  /\ injection.selected = Chosen(Candidates(injection.hits, injection.intent), injection.intent)

InjectionHolds == injection = NoInjection \/ Injected

LEMMA InjectionHoldsStep ==
  ASSUME InjectionHolds, [InjectionNext]_injection
  PROVE  InjectionHolds'
<1>1. CASE UNCHANGED injection
  BY <1>1 DEF InjectionHolds, Injected
<1>2. ASSUME NEW hit \in Profiles, NEW intent \in Intents, Recall(hit, intent)
      PROVE  Injected'
  <2>1. injection.hits \in Seq(Profiles)
    <3>1. CASE injection = NoInjection
      BY <3>1 DEF NoInjection
    <3> QED
      BY <3>1 DEF InjectionHolds, Injected
  <2>2. PICK hits : hits = Append(injection.hits, hit)
    OBVIOUS
  <2>3. hits \in Seq(Profiles)
    BY <1>2, <2>1, <2>2
  <2>4. PICK shown : shown = Chosen(Candidates(hits, intent), intent)
    OBVIOUS
  <2>5. injection' = [intent |-> intent, hits |-> hits, selected |-> shown]
    BY <1>2, <2>2, <2>4 DEF Recall
  <2>6. injection'.intent = intent /\ injection'.hits = hits /\ injection'.selected = shown
    BY <2>5
  <2> QED
    BY <2>3, <2>4, <2>6 DEF Injected
<1> QED
  BY <1>1, <1>2 DEF InjectionNext, InjectionHolds

\* Nothing is recalled at first.
LEMMA NothingRecalled ==
  ASSUME injection = NoInjection
  PROVE  RecallIsUseful
<1>1. PICK c : c = Candidates(<< >>, "generic")
  OBVIOUS
<1>2. << >> \in Seq(Profiles) /\ "generic" \in Intents
  BY DEF Intents
<1>3. CandidateList(c, "generic")
  BY <1>1, <1>2, CandidatesList
<1>4. Range(c) = {}
  <2>1. PICK all : all = CandidatesByHit(<< >>, "generic")
    OBVIOUS
  <2>2. DOMAIN all = {}
    BY <2>1 DEF CandidatesByHit
  <2>3. PICK order : order = SortedBy(DOMAIN all, UtilityKeys(all))
    OBVIOUS
  <2>4. c = [k \in DOMAIN order |-> all[order[k]]]
    BY <1>1, <2>1, <2>3 DEF Candidates
  <2>5. DOMAIN order = {}
    <3>1. IsFiniteSet({}) /\ Cardinality({}) = 0
      BY FS_EmptySet
    <3>2. DOMAIN order = 1..Cardinality(DOMAIN all)
      BY <2>3 DEF SortedBy, InOrder
    <3> QED
      BY <2>2, <3>1, <3>2
  <2> QED
    BY <2>4, <2>5 DEF Range
<1>5. injection.intent = "generic" /\ injection.hits = << >> /\ injection.selected = << >>
  BY DEF NoInjection
<1>6. LeftOutForAReason
  BY <1>1, <1>4, <1>5 DEF LeftOutForAReason
<1>7. IrrelevantIsContext
  BY <1>5 DEF IrrelevantIsContext
<1> QED
  BY <1>6, <1>7 DEF RecallIsUseful

LEMMA NoneLeftOut ==
  ASSUME Injected
  PROVE  LeftOutForAReason
<1>1. PICK intent \in Intents : intent = injection.intent
  BY DEF Injected
<1>2. PICK order : order = RouteOrder(intent)
  OBVIOUS
<1>3. PICK c : c = Candidates(injection.hits, intent)
  OBVIOUS
<1>4. PICK v : v = injection.selected
  OBVIOUS
<1>5. CandidateList(c, intent)
  BY <1>1, <1>3, CandidatesList DEF Injected
<1>6. RoundHolds(v, 6, c, order)
  BY <1>1, <1>2, <1>3, <1>4, <1>5, ChosenHolds DEF Injected
<1>7. /\ order \in Seq(Routes)
      /\ \A i, j \in 1..6 : i # j => order[i] # order[j]
      /\ \A route \in Routes : \E i \in 1..6 : order[i] = route
  BY <1>2, RoutesAre
<1>8. /\ v \in Seq(Cands) /\ Len(v) \in Nat /\ DOMAIN v = 1..Len(v)
      /\ \A i, j \in DOMAIN v : i # j => v[i] # v[j]
      /\ \A m \in 1..6, x \in Range(c) :
           m <= 6 /\ x.route = order[m] => Excused(v, order, m, x)
  BY <1>6, Zenon DEF RoundHolds
<1>9. MaxTotal \in Nat /\ MaxPerRoute \in Nat
  BY InjectionAssumption
<1> DEFINE rank(route) == CHOOSE i \in 1..6 : order[i] = route
<1>10. \A k \in 1..6 : rank(order[k]) = k
  BY <1>7
<1> HIDE DEF rank
<1>11. \A a, b \in Int : /\ a \in Nat /\ b \in Nat /\ a <= b + 1 =>
                              IsFiniteSet(a..b) /\ Cardinality(a..b) = b - a + 1
  BY FS_Interval
<1> DEFINE selected == Range(v)
<1>12. \A d : d \in selected <=> \E i \in DOMAIN v : v[i] = d
  BY DEF Range
<1>13. ASSUME NEW x \in Range(c), x \notin selected
       PROVE  \/ x.utility < MinUtility
              \/ /\ Cardinality({d \in selected : d.route = x.route}) = MaxPerRoute
                 /\ \A d \in selected : d.route = x.route => d.utility >= x.utility
              \/ /\ Cardinality(selected) = MaxTotal
                 /\ \A d \in selected : \/ rank(d.route) < rank(x.route)
                                        \/ d.route = x.route /\ d.utility >= x.utility
  <2> HIDE DEF selected
  <2>1. x.route \in Routes
    BY <1>5, <1>13 DEF CandidateList, Range, Cands
  <2>2. PICK m \in 1..6 : order[m] = x.route
    BY <1>7, <2>1
  <2>3. m <= 6
    OBVIOUS
  <2>4. Excused(v, order, m, x)
    BY <1>8, <1>13, <2>2, <2>3
  <2>5. ~(\E i \in DOMAIN v : v[i] = x)
    BY <1>12, <1>13
  <2>6. CASE RouteFull(v, x)
    <3>1. PICK p \in Nat :
            /\ p + MaxPerRoute <= Len(v)
            /\ \A i \in DOMAIN v : v[i].route = x.route <=> i \in (p + 1)..(p + MaxPerRoute)
      BY <2>6 DEF RouteFull
    <3> DEFINE A == (p + 1)..(p + MaxPerRoute)
    <3>2. IsFiniteSet(A) /\ Cardinality(A) = MaxPerRoute
      <4>1. /\ p + 1 \in Int /\ p + MaxPerRoute \in Int /\ p + 1 \in Nat
            /\ p + MaxPerRoute \in Nat /\ p + 1 <= (p + MaxPerRoute) + 1
            /\ (p + MaxPerRoute) - (p + 1) + 1 = MaxPerRoute
        BY <1>9
      <4> QED
        BY <1>11, <4>1
    <3>3. \A i \in A : i \in DOMAIN v
      BY <1>8, <1>9, <3>1
    <3> HIDE DEF A
    <3>4. Cardinality({v[i] : i \in A}) = MaxPerRoute
      <4>1. \A i, j \in A : i # j => v[i] # v[j]
        BY <1>8, <3>3
      <4> QED
        BY <3>2, <4>1, DistinctImage
    <3>5. {v[i] : i \in A} = {d \in selected : d.route = x.route}
      <4>1. \A i \in DOMAIN v : v[i].route = x.route <=> i \in A
        BY <3>1 DEF A
      <4> QED
        BY <1>12, <3>3, <4>1
    <3>6. \A d \in selected : d.route = x.route => d.utility >= x.utility
      BY <1>12, <2>6 DEF RouteFull
    <3> QED
      BY <3>4, <3>5, <3>6
  <2>7. CASE AllFull(v, order, m, x)
    <3>1. Cardinality(selected) = MaxTotal
      <4>1. PICK n \in Nat : n = Len(v)
        BY <1>8
      <4>2. IsFiniteSet(1..n) /\ Cardinality(1..n) = n
        <5>1. 1 \in Int /\ n \in Int /\ 1 \in Nat /\ 1 <= n + 1 /\ n - 1 + 1 = n
          OBVIOUS
        <5> QED
          BY <1>11, <5>1
      <4>3. \A i, j \in 1..n : i # j => v[i] # v[j]
        BY <1>8, <4>1
      <4>4. Cardinality({v[i] : i \in 1..n}) = n
        BY <4>2, <4>3, DistinctImage
      <4>5. selected = {v[i] : i \in 1..n}
        BY <1>8, <1>12, <4>1
      <4> QED
        BY <2>7, <4>1, <4>4, <4>5 DEF AllFull
    <3>2. ASSUME NEW d \in selected
          PROVE  \/ rank(d.route) < rank(x.route)
                 \/ d.route = x.route /\ d.utility >= x.utility
      <4>1. PICK i \in DOMAIN v : v[i] = d
        BY <1>12
      <4>2. CASE \E k \in 1..6 : k < m /\ v[i].route = order[k]
        <5>1. PICK k \in 1..6 : k < m /\ v[i].route = order[k]
          BY <4>2
        <5>2. rank(d.route) = k /\ rank(x.route) = m
          BY <1>10, <2>2, <4>1, <5>1
        <5> QED
          BY <5>1, <5>2
      <4> QED
        BY <2>7, <4>1, <4>2 DEF AllFull
    <3> QED
      BY <3>1, <3>2
  <2> QED
    BY <2>4, <2>5, <2>6, <2>7 DEF Excused
<1>14. \A x \in Range(c) \ selected :
              \/ x.utility < MinUtility
              \/ /\ Cardinality({d \in selected : d.route = x.route}) = MaxPerRoute
                 /\ \A d \in selected : d.route = x.route => d.utility >= x.utility
              \/ /\ Cardinality(selected) = MaxTotal
                 /\ \A d \in selected : \/ rank(d.route) < rank(x.route)
                                        \/ d.route = x.route /\ d.utility >= x.utility
  <2> HIDE DEF selected
  <2> QED
    BY <1>13
<1> QED
  BY <1>1, <1>2, <1>3, <1>4, <1>14, Zenon DEF LeftOutForAReason, rank

LEMMA IrrelevantStays ==
  ASSUME Injected
  PROVE  IrrelevantIsContext
<1>1. PICK intent \in Intents : intent = injection.intent
  BY DEF Injected
<1>2. PICK order : order = RouteOrder(intent)
  OBVIOUS
<1>3. PICK c : c = Candidates(injection.hits, intent)
  OBVIOUS
<1>4. PICK v : v = injection.selected
  OBVIOUS
<1>5. CandidateList(c, intent)
  BY <1>1, <1>3, CandidatesList DEF Injected
<1>6. RoundHolds(v, 6, c, order)
  BY <1>1, <1>2, <1>3, <1>4, <1>5, ChosenHolds DEF Injected
<1>7. \A i \in DOMAIN v : v[i] \in Range(c) /\ v[i].utility >= MinUtility
  BY <1>6, Zenon DEF RoundHolds
<1>8. ASSUME NEW i \in DOMAIN v, v[i].hit.r < 30
      PROVE  \/ v[i].route = "context"
             \/ v[i].route = "emotional_context" /\ intent = "emotional"
  <2>1. PICK x : x = v[i]
    OBVIOUS
  <2>2. x \in Cands /\ x.route = RouteOf(x.hit, intent)
    BY <1>5, <1>7, <2>1 DEF CandidateList, Range
  <2>3. x.hit \in Profiles /\ x.hit.r < 30
    BY <1>8, <2>1, <2>2 DEF Cands
  <2> QED
    BY <2>1, <2>2, <2>3, IrrelevantRoutes
<1> QED
  BY <1>1, <1>4, <1>7, <1>8 DEF IrrelevantIsContext

\* What a turn is shown of the recalled memories: none is left out without a reason, and what
\* hardly matches stays context (build_memory_injection in memory.py).
THEOREM RecallsAreUseful == InjectionSpec => []RecallIsUseful
<1>1. InjectionInit => InjectionHolds
  BY DEF InjectionInit, InjectionHolds
<1>2. InjectionHolds /\ [InjectionNext]_injection => InjectionHolds'
  BY InjectionHoldsStep
<1>3. InjectionHolds => RecallIsUseful
  BY NothingRecalled, NoneLeftOut, IrrelevantStays DEF InjectionHolds, RecallIsUseful
<1> QED
  BY <1>1, <1>2, <1>3, PTL DEF InjectionSpec
=============================================================================
