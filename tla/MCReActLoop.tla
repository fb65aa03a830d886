---------------------------- MODULE MCReActLoop ----------------------------
(* Small instances of the ReAct loop for TLC.                              *)
EXTENDS ReActLoop

\* "write" needs an approval as an action and as a tool, "erase" is refused as a tool,
\* everything else is allowed.
MCVerdict ==
  [s \in Subjects |->
     IF s \in {<<"action", "write">>, <<"tool", "write">>} THEN "approval_required"
     ELSE IF s = <<"tool", "erase">> THEN "denied" ELSE "allow"]

Text(n, out) == [form |-> "action", names |-> <<n>>, output |-> out]
Calls(names, out) == [form |-> "calls", names |-> names, output |-> out]

MCReplies ==
  {[form |-> "malformed", names |-> << >>, output |-> ""]}
  \cup {Text(t, "") : t \in {"read", "write"}}
  \cup {Text(Finish, out) : out \in {"bad", "good"}}
  \cup {Calls(<<"write", "erase">>, "")}
  \cup {Calls(<<"read", Finish>>, out) : out \in {"", "good"}}

\* The answers of a model that knows no tools.
MCFinishes == {Text(Finish, out) : out \in Outputs} \cup {Calls(<<Finish>>, out) : out \in Outputs}
=============================================================================
