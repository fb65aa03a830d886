----------------------------- MODULE Approvals -----------------------------
(***************************************************************************)
(* The gate before an action or a tool call, and the people behind it: the *)
(* rules of src/agent_core/policy.py, the approval queue of approvals.py,  *)
(* and the resume context that lets a run pass where one was asked for.    *)
(*                                                                         *)
(* Names, tags and servers are what fnmatch and the case rules make of     *)
(* them: a rule lists the ones it matches.  A store orders its records by  *)
(* creation, so a record is named by its place.  Nothing suspends inside a *)
(* store, and one process uses it.                                         *)
(***************************************************************************)
EXTENDS Naturals, Sequences, FiniteSets, SequencesExt, FiniteSetsExt

CONSTANTS
  GatedRuns,      \* runs that pass the gate; a resumed run is a new one
  GatedCalls,          \* calls: kind, name, aliases, tags, server
  RuleLists,      \* the policies a host builds, each a sequence of RuleBasedPolicies
  MaxAsked, MaxGates, \* bounds of the model: approval records, decisions of the policy
  NoRun

ApprovalAssumption == MaxAsked \in Nat /\ MaxGates \in Nat /\ NoRun \notin GatedRuns
ASSUME ApprovalAssumption

Decided == {"approved", "rejected", "cancelled"}

VARIABLES
  policy,   \* the sequence of policies in force: a RuleBasedPolicy is a sequence of rules
  queue,    \* the approval records: subject, run, status
  grants,   \* per run, the resume context it was given: record, subject, status
  passed,   \* history: the calls that went through the gate, and the record that let them
  audit     \* the policy decision store: run, subject, status, in sequence order

approvalVars == <<policy, queue, grants, passed, audit>>

ApprovalInit ==
  /\ policy \in RuleLists
  /\ queue = << >>
  /\ grants = [r \in GatedRuns |-> {}]
  /\ passed = {}
  /\ audit = << >>

-----------------------------------------------------------------------------
(* Policy.                                                                  *)

\* PolicyRule.check_tool and check_action: a rule without a predicate of the call's kind
\* does not apply; an empty predicate does not restrict.
HasToolPredicate(rule) == rule.names # {} \/ rule.tags # {} \/ rule.servers # {}
Applies(rule, call) ==
  \/ call.kind = "action" /\ call.name \in rule.actions
  \/ /\ call.kind = "tool" /\ HasToolPredicate(rule)
     /\ rule.names # {} => rule.names \cap ({call.name} \cup call.aliases) # {}
     /\ rule.tags # {} => rule.tags \cap call.tags # {}
     /\ rule.servers # {} => call.server \in rule.servers

\* RuleBasedPolicy._first_decision, and the loop of CompositePolicy: the first denial, else
\* the first demand for approval.
Strictest(statuses) ==
  IF "deny" \in ToSet(statuses) THEN "deny"
  ELSE IF "approval_required" \in ToSet(statuses) THEN "approval_required" ELSE "allow"

RuleBased(rules, call) ==
  LET applying == SelectSeq(rules, LAMBDA x : Applies(x, call))
  IN Strictest([i \in DOMAIN applying |-> applying[i].status])
Composite(policies, call) ==
  Strictest([i \in DOMAIN policies |-> RuleBased(policies[i], call)])

Subject(call) == <<call.kind, call.name>>

-----------------------------------------------------------------------------
(* The gate of ReActExecutor.                                               *)

\* ApprovalResumeContext.approved_for: by subject alone.
GrantsFor(r, subject) == {g \in grants[r] : g.status = "approved" /\ g.subject = subject}

\* A grant unlocks the gate, whatever was decided.
UnlockedAnyway(r, call, status) ==
  status = "allow" \/ GrantsFor(r, Subject(call)) # {}
Unlocked(r, call, status) ==
  status = "allow" \/ (status = "approval_required" /\ GrantsFor(r, Subject(call)) # {})

\* What an approval store, and a decision store, does with a new record.
Submitted(record) == Append(queue, record)
Recorded(decision) == Append(audit, decision)

Asked(r, call) == [subject |-> Subject(call), run |-> r, status |-> "pending"]

\* Every decision is recorded; a call that is not let through asks only if a rule asks for it.
Gate(r, call) ==
  LET status == Composite(policy, call)
      used == IF status = "allow" THEN {0} ELSE {g.record : g \in GrantsFor(r, Subject(call))}
  IN /\ Len(audit) < MaxGates
     /\ audit' = Recorded([run |-> r, subject |-> Subject(call), status |-> status])
     /\ \/ /\ Unlocked(r, call, status)
           /\ passed' = passed \cup
                {[run |-> r, call |-> call, status |-> status, by |-> Min(used)]}
           /\ UNCHANGED queue
        \/ /\ ~Unlocked(r, call, status) /\ status = "approval_required" /\ Len(queue) < MaxAsked
           /\ queue' = Submitted(Asked(r, call))
           /\ UNCHANGED passed
        \/ /\ ~Unlocked(r, call, status) /\ status = "deny"
           /\ UNCHANGED <<queue, passed>>
     /\ UNCHANGED <<policy, grants>>

-----------------------------------------------------------------------------
(* The queue and the people.                                                *)

\* A record can be decided again.
DecidableAgain(i) == i \in DOMAIN queue
Decidable(i) == i \in DOMAIN queue /\ queue[i].status = "pending"
Resolved(i, status) == [queue EXCEPT ![i].status = status]

\* ApprovalCenter.decide, which raises for an unknown or a resolved record.
Decide(i, status) ==
  /\ Decidable(i)
  /\ queue' = Resolved(i, status)
  /\ UNCHANGED <<policy, grants, passed, audit>>

Grant(i) == [record |-> i, subject |-> queue[i].subject, status |-> queue[i].status]

\* ApprovalCenter.resume_context with its filters: statuses, run, and given records.
ResumeContext(statuses, from, given) ==
  {Grant(i) : i \in {j \in DOMAIN queue :
     /\ queue[j].status \in statuses /\ queue[j].status # "pending"
     /\ from # NoRun => queue[j].run = from
     /\ given # {} => j \in given}}

\* A run that has not passed or asked yet is started with a context.
Resume(r, statuses, from, given) ==
  /\ grants[r] = {} /\ (\A i \in DOMAIN audit : audit[i].run # r)
  /\ grants' = [grants EXCEPT ![r] = ResumeContext(statuses, from, given)]
  /\ grants' # grants
  /\ UNCHANGED <<policy, queue, passed, audit>>

\* The host gives the next runs another policy.
ChangePolicy(rules) ==
  /\ rules # policy /\ audit # << >>
  /\ policy' = rules
  /\ UNCHANGED <<queue, grants, passed, audit>>

ApprovalNext ==
  \/ \E r \in GatedRuns :
       \/ \E call \in GatedCalls : Gate(r, call)
       \/ \E statuses \in {{"approved"}, Decided}, from \in GatedRuns \cup {NoRun},
             given \in {{}, {1}} : Resume(r, statuses, from, given)
  \/ \E i \in 1 .. MaxAsked, status \in Decided : Decide(i, status)
  \/ \E rules \in RuleLists : ChangePolicy(rules)

ApprovalSpec == ApprovalInit /\ [][ApprovalNext]_approvalVars

-----------------------------------------------------------------------------
(* Properties.                                                              *)

\* A call that passed where approval was wanted was approved by a record of the store, about
\* the very thing it calls, and that record still says so: no decision a run has relied on
\* is revised, nothing that is denied passes on a grant, and the audit shows the gate.
PassedIsApproved ==
  \A p \in passed :
    /\ [run |-> p.run, subject |-> Subject(p.call), status |-> p.status] \in ToSet(audit)
    /\ \/ p.by = 0 /\ p.status = "allow"
       \/ /\ p.status = "approval_required"
          /\ p.by \in DOMAIN queue /\ queue[p.by].status = "approved"
          /\ queue[p.by].subject = Subject(p.call)
=============================================================================
