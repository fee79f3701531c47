--------------------------- MODULE MCEvaluationJudge ---------------------------
(* A small instance of EvaluationJudge for TLC. *)
EXTENDS EvaluationJudge, TLC

CONSTANTS w1, w2, w3, old, new

\* Two workers of one configuration, and one that was deployed with another.
Profiles == w1 :> old @@ w2 :> old @@ w3 :> new
=============================================================================
