--------------------------- MODULE MCAgentJournal ---------------------------
(* Small instances of the journal, its resume operators and its replay for *)
(* TLC.                                                                    *)
EXTENDS AgentJournalResume, AgentJournalReplay, TLC

IdSymmetry == Permutations(Runs) \cup Permutations(Turns) \cup Permutations(Checkpoints)
=============================================================================
