--------------------------- MODULE MCExecutorJournal ---------------------------
(* Small instances of ExecutorJournal for TLC. *)
EXTENDS ExecutorJournal, TLC

R(finish, tokens) == [finish |-> finish, tokens |-> tokens]

Calls   == {R("tool_call", 1), R("tool_call", 2), R("stop", 1), R("refusal", 1), R("length", 1)}
Answers == {R("stop", 1)}
Others == {[question |-> "other", evidence |-> {}, by |-> "past", gen |-> 1, vector |-> TRUE]}
AllSimilar == Question \X Question

Symmetry == Permutations(Worker) \cup Permutations(Run)
=============================================================================
