----------------------------- MODULE JudgeContract -----------------------------
(***************************************************************************)
(* What an evaluation judge job promises (ADR 0022), with no worker and no *)
(* lease in sight: cases are scored once and in order, all under the       *)
(* configuration pinned at the first claim; every lost piece of work is a  *)
(* strike; the job succeeds with its last score and with nothing else, and *)
(* fails with its last strike at the latest.  A finished job stays as it   *)
(* is.                                                                     *)
(*                                                                         *)
(* Jobs are independent, so a step is a step, or none, of each of them.    *)
(***************************************************************************)
EXTENDS Naturals

CONSTANTS
  Job,               \* eval_judge_runs
  NumCases,          \* case_count
  Config,            \* provider, model and prompt version, taken together
  NoConfig,          \* NULL
  MaxJudgeAttempts   \* MAX_JUDGE_ATTEMPTS

Case == 1..NumCases

VARIABLES
  state,   \* "absent", "open" (queued or running), "succeeded" or "failed"
  strikes, \* attempt_count
  pin,     \* judge_provider, judge_model and prompt_version
  score    \* eval_judge_case_scores: the configuration behind each score

vars == <<state, strikes, pin, score>>

Init ==
  /\ state = [j \in Job |-> "absent"]
  /\ strikes = [j \in Job |-> 0]
  /\ pin = [j \in Job |-> NoConfig]
  /\ score = [j \in Job |-> [c \in Case |-> NoConfig]]

Same(j) ==
  /\ state'[j] = state[j]
  /\ strikes'[j] = strikes[j]
  /\ pin'[j] = pin[j]
  /\ score'[j] = score[j]

Queue(j) ==
  /\ state[j] = "absent" /\ state'[j] = "open"
  /\ strikes'[j] = strikes[j] /\ pin'[j] = pin[j] /\ score'[j] = score[j]

Pin(j) ==
  /\ state[j] = "open" /\ pin[j] = NoConfig
  /\ pin'[j] \in Config
  /\ state'[j] = state[j] /\ strikes'[j] = strikes[j] /\ score'[j] = score[j]

\* The next case is scored; with the last one the job succeeds.
Score(j) ==
  /\ state[j] = "open" /\ pin[j] # NoConfig
  /\ \E c \in Case :
       /\ \A d \in Case : score[j][d] = NoConfig <=> d >= c
       /\ score'[j] = [score[j] EXCEPT ![c] = pin[j]]
       /\ state'[j] = IF c = NumCases THEN "succeeded" ELSE "open"
  /\ strikes'[j] = strikes[j] /\ pin'[j] = pin[j]

\* A claim ended without a score.
Strike(j) ==
  /\ state[j] = "open" /\ pin[j] # NoConfig
  /\ strikes'[j] = strikes[j] + 1
  /\ state'[j] \in {"open", "failed"}
  /\ strikes'[j] >= MaxJudgeAttempts => state'[j] = "failed"
  /\ pin'[j] = pin[j] /\ score'[j] = score[j]

Next == \A j \in Job : Same(j) \/ Queue(j) \/ Pin(j) \/ Score(j) \/ Strike(j)

Spec == Init /\ [][Next]_vars
=============================================================================
