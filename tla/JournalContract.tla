---------------------------- MODULE JournalContract ----------------------------
(***************************************************************************)
(* What the executor's journal promises, with no worker, attempt or crash  *)
(* in sight: for every run an exactly-once log of model responses.         *)
(*                                                                         *)
(*   - a run's evidence is fixed once, before its first response, and      *)
(*     every response of its log answers that evidence;                    *)
(*   - the log grows by one response at a time, only while the run is open *)
(*     and the last response asked for tools, and never beyond the limits  *)
(*     of steps and tokens;                                                *)
(*   - a response is paid for exactly if it was generated for this log;    *)
(*   - any other is the reuse of a whole answer that another run got from  *)
(*     the same evidence for the same or a similar question, without tools.*)
(*                                                                         *)
(* ExecutorJournal implements this specification.                          *)
(***************************************************************************)
EXTENDS Naturals, FiniteSets, FiniteSetsExt

CONSTANTS
  Run,
  Evidence,      \* what a retrieval may return
  NoEvidence,    \* no retrieval is recorded yet
  Question,
  Similar,       \* pairs of questions the semantic cache takes for the same
  Response,      \* what a provider may answer, [finish, tokens]
  OtherAnswers,  \* answers of runs outside Run, [question, evidence, by, gen, vector]
  MaxSteps,      \* ExecutionProfile.max_steps
  MaxTokens      \* ExecutionProfile.max_total_tokens

VARIABLES
  question,      \* of each run
  rows,          \* the logs of all runs
  evidence,      \* of each run, or NoEvidence
  paid,          \* the steps that were paid for
  closed         \* runs that are finished

vars == <<question, rows, evidence, paid, closed>>

Log(r) == { x \in rows : x.run = r }
Tokens(log) == MapThenSumSet(LAMBDA x : x.tokens, log)
Next0(r) == Cardinality(Log(r))     \* the number of the next step

Growing(r) ==
  /\ r \notin closed
  /\ evidence[r] # NoEvidence
  /\ \A x \in Log(r) : x.finish = "tool_call"
  /\ Tokens(Log(r)) < MaxTokens
  /\ Next0(r) < MaxSteps

Init ==
  /\ question \in [Run -> Question]
  /\ rows = {}
  /\ evidence = [r \in Run |-> NoEvidence]
  /\ paid = {}
  /\ closed = {}

Ground(r, e) ==
  /\ r \notin closed
  /\ evidence[r] = NoEvidence
  /\ evidence' = [evidence EXCEPT ![r] = e]
  /\ UNCHANGED <<question, rows, paid, closed>>

Generate(r, x) ==
  /\ Growing(r)
  /\ x.run = r /\ x.step = Next0(r) /\ x.evidence = evidence[r]
  /\ x.by = r /\ ~x.cached
  /\ [finish |-> x.finish, tokens |-> x.tokens] \in Response
  /\ rows' = rows \cup {x}
  /\ paid' = paid \cup {<<r, x.step>>}
  /\ UNCHANGED <<question, evidence, closed>>

Reusable(y) == y.step = 0 /\ y.finish = "stop" /\ ~y.tooled /\ ~y.cached

Answers ==
  { [question |-> question[y.run], evidence |-> y.evidence, by |-> y.by, gen |-> y.gen] :
      y \in { z \in rows : Reusable(z) } }
  \cup
  { [question |-> s.question, evidence |-> s.evidence, by |-> s.by, gen |-> s.gen] :
      s \in OtherAnswers }

Reuse(r, x) ==
  /\ Growing(r)
  /\ x.run = r /\ x.step = 0 /\ Next0(r) = 0 /\ x.evidence = evidence[r]
  /\ x.cached /\ x.tokens = 0 /\ x.finish = "stop"
  /\ \E y \in Answers :
       /\ y.by = x.by /\ y.gen = x.gen /\ y.evidence = x.evidence
       /\ <<question[r], y.question>> \in Similar
  /\ rows' = rows \cup {x}
  /\ UNCHANGED <<question, evidence, paid, closed>>

Close(r) ==
  /\ closed' = closed \cup {r}
  /\ UNCHANGED <<question, rows, evidence, paid>>

Next ==
  \E r \in Run :
    \/ Close(r)
    \/ \E e \in Evidence : Ground(r, e)
    \/ \E x \in rows' \ rows : Generate(r, x) \/ Reuse(r, x)

Spec == Init /\ [][Next]_vars
=============================================================================
