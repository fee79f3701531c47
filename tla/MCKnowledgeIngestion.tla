------------------------- MODULE MCKnowledgeIngestion -------------------------
(***************************************************************************)
(* A small instance of KnowledgeIngestion: a source, a newer version of    *)
(* it, and its first version once more under another idempotency key.      *)
(***************************************************************************)
EXTENDS KnowledgeIngestion

CONSTANT handbook

OneKey == [j \in Job |-> handbook]
NewerBetween == [j \in Job |-> IF j = 2 THEN 2 ELSE 1]
=============================================================================
