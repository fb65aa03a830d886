------------------------------ MODULE RunLedger ------------------------------
(***************************************************************************)
(* What the persistent run journal promises its callers: a ledger with one *)
(* entry per run.  An entry is begun once, gets pages while it is running  *)
(* and is closed once.  What a reader sees runs ahead of what is safe by   *)
(* the steps that have not been saved; losing the process takes the ledger *)
(* back to what was safe, and to nothing else.                             *)
(***************************************************************************)
EXTENDS Naturals

CONSTANT Runs

VARIABLES
  seen,  \* the entries a reader sees
  safe   \* the entries a restart would show

lvars == <<seen, safe>>

Blank == [status |-> "absent", pages |-> 0]

LInit ==
  /\ seen = [r \in Runs |-> Blank]
  /\ safe = [r \in Runs |-> Blank]

\* The change that has just been made is saved, or is not.
Saved == safe' = seen' \/ UNCHANGED safe

Begin(r) ==
  /\ seen[r].status = "absent"
  /\ seen' = [seen EXCEPT ![r].status = "running"]
  /\ Saved

Page(r) ==
  /\ seen[r].status = "running"
  /\ seen' = [seen EXCEPT ![r].pages = @ + 1]
  /\ Saved

Close(r) ==
  /\ seen[r].status = "running"
  /\ seen' = [seen EXCEPT ![r].status = "over"]
  /\ Saved

\* A change that is no part of an entry is saved, and the entries with it.
Secure ==
  /\ safe' = seen
  /\ UNCHANGED seen

\* The process dies.
Lose ==
  /\ seen' = safe
  /\ UNCHANGED safe

LNext == Secure \/ Lose \/ \E r \in Runs : Begin(r) \/ Page(r) \/ Close(r)

LSpec == LInit /\ [][LNext]_lvars
=============================================================================
