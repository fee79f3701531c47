---------------------------- MODULE ExecutorJournal ----------------------------
(***************************************************************************)
(* The durable executor and its journal (executor.py, executor_store.py,   *)
(* migrations 006, 010, 019, 020): the numbered model responses of a run,  *)
(* the snapshot of its retrieved evidence, the answer cache of its agent,  *)
(* and the charges that are written with them.                             *)
(*                                                                         *)
(* The run is the one of RunContract, which RunLifecycle implements; a     *)
(* worker passes the fence while it executes the latest attempt of a       *)
(* running run nobody wants cancelled.  What else can end an execution, a  *)
(* lost lease or membership, an exhausted budget, a provider error, is the *)
(* choice of Finish and Abandon at any stage.  The model has a retriever,  *)
(* prices and the exact cache; the semantic one may fail, as may all.      *)
(* All runs are of one agent and one model profile.                        *)
(***************************************************************************)
EXTENDS Naturals, FiniteSets, FiniteSetsExt

CONSTANTS
  Run,
  Worker,
  Chunk,         \* chunks of the workspace's knowledge
  NoSnapshot,    \* a set of no chunks: no row in agent_run_retrievals
  Question,      \* normalised questions
  Similar,       \* pairs of questions at or above the similarity threshold
  Response,      \* what a provider may answer, [finish, tokens]
  OtherRun,      \* runs of the agent whose execution is not followed here
  OtherAnswers,  \* answers these may store in the cache
  Tooling,       \* whether administrators have tools enabled: what it may be
  MaxSteps,      \* ExecutionProfile.max_steps
  MaxTokens,     \* ExecutionProfile.max_total_tokens
  MaxAttempts    \* bound: attempts a run may start

Evidence == SUBSET Chunk
Finishes == {"stop", "refusal", "tool_call", "length"}

ASSUME SnapshotAssumption == NoSnapshot \notin Evidence
ASSUME QuestionAssumption ==
  /\ Similar \subseteq Question \X Question
  /\ \A q \in Question : <<q, q>> \in Similar
ASSUME ResponseAssumption == Response \subseteq [finish : Finishes, tokens : Nat]
ASSUME OtherAssumption ==
  OtherAnswers \subseteq [question : Question, evidence : Evidence, by : OtherRun, gen : Nat,
                          vector : BOOLEAN]
ASSUME ToolingAssumption == Tooling \subseteq BOOLEAN
ASSUME LimitAssumption ==
  MaxSteps \in Nat \ {0} /\ MaxTokens \in Nat \ {0} /\ MaxAttempts \in Nat

VARIABLES
  status, attempt, cancelReq, task,   \* the run, as in RunContract
  question,   \* agent_runs.input_text
  visible,    \* chunks that are current and readable by the requesters
  tooling,    \* some tool is enabled and allowed
  steps,      \* agent_model_steps
  snapshot,   \* agent_run_retrievals and its chunks, or NoSnapshot
  context,    \* runs with a row in agent_run_retrieval_context
  ledger,     \* source keys in workspace_spend_records, [run, unit, step]
  cache,      \* workspace_answer_cache
  exec,       \* what a worker's executor remembers
  calls       \* history: responses a provider gave, [run, step, gen]

runVars == <<status, attempt, cancelReq>>
world   == <<question, visible, tooling>>
journal == <<steps, snapshot, context>>
vars == <<runVars, task, world, journal, ledger, cache, exec, calls>>

Contract == INSTANCE RunContract
Terminal == Contract!Terminal
NoTask   == Contract!NoTask

Row   == [run : Run, step : Nat, finish : Finishes, tokens : Nat, evidence : Evidence,
          tooled : BOOLEAN, cached : BOOLEAN, by : Run \cup OtherRun, gen : Nat]
Saved == [question : Question, evidence : Evidence, by : Run \cup OtherRun, gen : Nat,
          vector : BOOLEAN]
Key   == [run : Run, unit : {"retrieval", "embedding", "step"}, step : Nat]
Stage == {"idle", "begin", "retrieve", "query", "snapshot", "loop", "exact", "similar",
          "route", "authorized", "save", "answered", "tools", "done"}
Answer == [finish : Finishes, tokens : Nat]
Memory == [stage : Stage, step : Nat, tooled : BOOLEAN, evidence : Evidence, total : Nat,
           answer : Answer, vector : BOOLEAN]

NoAnswer == [finish |-> "length", tokens |-> 0]
Idle == [stage |-> "idle", step |-> 0, tooled |-> FALSE, evidence |-> {}, total |-> 0,
         answer |-> NoAnswer, vector |-> FALSE]

Init ==
  /\ Contract!Init
  /\ question \in [Run -> Question]
  /\ visible \in Evidence
  /\ tooling \in Tooling
  /\ steps = {}
  /\ snapshot = [r \in Run |-> NoSnapshot]
  /\ context = {}
  /\ ledger = {}
  /\ cache = {}
  /\ exec = [w \in Worker |-> Idle]
  /\ calls = {}

-----------------------------------------------------------------------------
RunOf(w) == task[w].run
At(w, stage) == exec[w].stage = stage

\* Mutant of Fence: any attempt of a running run passes it.
FenceAnyAttempt(w) ==
  /\ task[w] # NoTask
  /\ status[RunOf(w)] = "running"
  /\ ~cancelReq[RunOf(w)]

\* executable_run
Fence(w) ==
  /\ task[w] # NoTask
  /\ status[RunOf(w)] = "running"
  /\ attempt[RunOf(w)] = task[w].attempt
  /\ ~cancelReq[RunOf(w)]

Stored(w) == { x \in steps : x.run = RunOf(w) /\ x.step = exec[w].step }

Goto(w, stage) == exec' = [exec EXCEPT ![w].stage = stage]

\* Mutant of Cleanup: only a success removes the evidence.
CleanupSucceeded == context' = { r \in context : status'[r] # "succeeded" }

\* The trigger agent_run_retrieval_context_terminal_cleanup
Cleanup == context' = { r \in context : status'[r] \notin Terminal }

-----------------------------------------------------------------------------
\* The run

Submit(r) ==
  /\ Contract!Submit(r)
  /\ UNCHANGED <<world, journal, ledger, cache, exec, calls>>

Claim(w, r) ==
  /\ attempt[r] < MaxAttempts
  /\ Contract!Start(w, r)
  /\ exec' = [exec EXCEPT ![w] = [Idle EXCEPT !.stage = "begin"]]
  /\ UNCHANGED <<world, journal, ledger, cache, calls>>

\* recover_stale, or an approval granted
Requeue(r) ==
  /\ Contract!Requeue(r)
  /\ UNCHANGED <<world, journal, ledger, cache, exec, calls>>

RequestCancel(r) ==
  /\ Contract!RequestCancel(r)
  /\ UNCHANGED <<world, journal, ledger, cache, exec, calls>>

Cancel(r) ==
  /\ Contract!Cancel(r)
  /\ Cleanup
  /\ UNCHANGED <<world, steps, snapshot, ledger, cache, exec, calls>>

\* The process dies, or its completion finds the run taken from it.
Abandon(w) ==
  /\ Contract!Abandon(w)
  /\ exec' = [exec EXCEPT ![w] = Idle]
  /\ UNCHANGED <<world, journal, ledger, cache, calls>>

\* Any stage may raise a terminal or a retryable error; only a final answer
\* succeeds, and only a tool call parks the run.
Finish(w, outcome) ==
  /\ outcome = "succeeded" => At(w, "done")
  /\ outcome = "waiting_for_approval" => At(w, "tools")
  /\ outcome \in {"queued", "waiting_for_approval"} => task[w].attempt < MaxAttempts
  /\ \E r \in Run : Contract!Decide(w, r, outcome)
  /\ Cleanup
  /\ exec' = [exec EXCEPT ![w] = Idle]
  /\ UNCHANGED <<world, steps, snapshot, ledger, cache, calls>>

-----------------------------------------------------------------------------
\* _execute, before the loop

\* store.check and list_tools
Begin(w) ==
  /\ At(w, "begin")
  /\ Fence(w)
  /\ exec' = [exec EXCEPT ![w].stage = "retrieve", ![w].tooled = tooling]
  /\ UNCHANGED <<runVars, task, world, journal, ledger, cache, calls>>

\* load_retrieval: an earlier attempt took the snapshot; all of it must still
\* be current and readable.
LoadRetrieval(w) ==
  LET r == RunOf(w) IN
  /\ At(w, "retrieve")
  /\ Fence(w)
  /\ r \in context
  /\ snapshot[r] # NoSnapshot /\ snapshot[r] \subseteq visible
  /\ exec' = [exec EXCEPT ![w].stage = "loop", ![w].evidence = snapshot[r]]
  /\ UNCHANGED <<runVars, task, world, journal, ledger, cache, calls>>

NoRetrieval(w) ==
  /\ At(w, "retrieve")
  /\ Fence(w)
  /\ snapshot[RunOf(w)] = NoSnapshot
  /\ Goto(w, "query")
  /\ UNCHANGED <<runVars, task, world, journal, ledger, cache, calls>>

\* retriever.retrieve: the embedded query is charged, without a fence, and
\* the search returns the best readable chunks.
Retrieve(w, e) ==
  /\ At(w, "query")
  /\ e \subseteq visible
  /\ ledger' = ledger \cup {[run |-> RunOf(w), unit |-> "retrieval", step |-> 0]}
  /\ exec' = [exec EXCEPT ![w].stage = "snapshot", ![w].evidence = e]
  /\ UNCHANGED <<runVars, task, world, journal, cache, calls>>

\* save_retrieval: ON CONFLICT DO NOTHING, and the row must then be the same.
SaveRetrieval(w) ==
  LET r == RunOf(w) IN
  /\ At(w, "snapshot")
  /\ Fence(w)
  /\ exec[w].evidence \subseteq visible
  /\ snapshot[r] \in {NoSnapshot, exec[w].evidence}
  /\ snapshot' = [snapshot EXCEPT ![r] = exec[w].evidence]
  /\ context' = context \cup {r}
  /\ Goto(w, "loop")
  /\ UNCHANGED <<runVars, task, world, steps, ledger, cache, calls>>

-----------------------------------------------------------------------------
\* One step of the loop

Looping(w) == At(w, "loop") /\ exec[w].step < MaxSteps /\ Fence(w)

\* load: the response an earlier attempt stored
Replay(w) ==
  /\ Looping(w)
  /\ \E x \in Stored(w) :
       exec' = [exec EXCEPT ![w].stage = "answered",
                            ![w].answer = [finish |-> x.finish, tokens |-> x.tokens]]
  /\ UNCHANGED <<runVars, task, world, journal, ledger, cache, calls>>

\* The first step of a run without tools asks the answer cache first.
NotStored(w) ==
  /\ Looping(w)
  /\ Stored(w) = {}
  /\ Goto(w, IF exec[w].step = 0 /\ ~exec[w].tooled THEN "exact" ELSE "route")
  /\ UNCHANGED <<runVars, task, world, journal, ledger, cache, calls>>

\* The cached answer s becomes this run's step, with no tokens and no charge.
Restore(w, s) ==
  /\ steps' = steps \cup
       {[run |-> RunOf(w), step |-> exec[w].step, finish |-> "stop", tokens |-> 0,
         evidence |-> s.evidence, tooled |-> exec[w].tooled, cached |-> TRUE,
         by |-> s.by, gen |-> s.gen]}
  /\ exec' = [exec EXCEPT ![w].stage = "answered",
                          ![w].answer = [finish |-> "stop", tokens |-> 0]]
  /\ UNCHANGED <<runVars, task, world, snapshot, context, ledger, cache, calls>>

\* _answer_cache_key, restore_answer_cache
Exact(w) ==
  { s \in cache : s.question = question[RunOf(w)] /\ s.evidence = exec[w].evidence }

RestoreExact(w) ==
  /\ At(w, "exact")
  /\ Fence(w)
  /\ \E s \in Exact(w) : Restore(w, s)

\* A miss.  The question is embedded if the semantic cache is configured; a
\* provider error there is ignored.
NoExact(w) ==
  /\ At(w, "exact")
  /\ Fence(w)
  /\ Exact(w) = {}
  /\ \/ /\ Goto(w, "route")
        /\ UNCHANGED ledger
     \/ /\ exec' = [exec EXCEPT ![w].stage = "similar", ![w].vector = TRUE]
        /\ ledger' = ledger \cup {[run |-> RunOf(w), unit |-> "embedding", step |-> 0]}
  /\ UNCHANGED <<runVars, task, world, journal, cache, calls>>

\* Mutant of Close: the semantic search is not scoped to the evidence.
CloseUnscoped(w) ==
  { s \in cache : s.vector /\ <<question[RunOf(w)], s.question>> \in Similar }

\* _answer_cache_scope_key, restore_semantic_answer_cache
Close(w) ==
  { s \in cache : s.vector /\ <<question[RunOf(w)], s.question>> \in Similar
                  /\ s.evidence = exec[w].evidence }

RestoreSimilar(w) ==
  /\ At(w, "similar")
  /\ Fence(w)
  /\ \E s \in Close(w) : Restore(w, s)

NoSimilar(w) ==
  /\ At(w, "similar")
  /\ Fence(w)
  /\ Close(w) = {}
  /\ Goto(w, "route")
  /\ UNCHANGED <<runVars, task, world, journal, ledger, cache, calls>>

\* authorize_spend, when the budget allows the call
Authorize(w) ==
  /\ At(w, "route")
  /\ Fence(w)
  /\ Goto(w, "authorized")
  /\ UNCHANGED <<runVars, task, world, journal, ledger, cache, calls>>

\* _generate, when it returns
Generate(w, response) ==
  /\ At(w, "authorized")
  /\ calls' = calls \cup {[run |-> RunOf(w), step |-> exec[w].step, gen |-> task[w].attempt]}
  /\ exec' = [exec EXCEPT ![w].stage = "save", ![w].answer = response]
  /\ UNCHANGED <<runVars, task, world, journal, ledger, cache>>

\* The answer is kept for other runs: the row of the key is replaced.
Cacheable(w) == exec[w].step = 0 /\ ~exec[w].tooled /\ exec[w].answer.finish = "stop"

Cached(w) ==
  (cache \ Exact(w)) \cup
    {[question |-> question[RunOf(w)], evidence |-> exec[w].evidence,
      by |-> RunOf(w), gen |-> task[w].attempt, vector |-> exec[w].vector]}

\* Mutant of Save: a response that asks for tools is not journalled yet.
SaveFinal(w) ==
  LET r == RunOf(w)
      m == exec[w]
      row == [run |-> r, step |-> m.step, finish |-> m.answer.finish,
              tokens |-> m.answer.tokens, evidence |-> m.evidence, tooled |-> m.tooled,
              cached |-> FALSE, by |-> r, gen |-> task[w].attempt]
  IN
  /\ At(w, "save")
  /\ Fence(w)
  /\ steps' = IF m.answer.finish = "tool_call" THEN steps ELSE steps \cup {row}
  /\ ledger' = ledger \cup {[run |-> r, unit |-> "step", step |-> m.step]}
  /\ cache' = IF Cacheable(w) THEN Cached(w) ELSE cache
  /\ Goto(w, "answered")
  /\ UNCHANGED <<runVars, task, world, snapshot, context, calls>>

\* save: the step, its charge and the cache in one transaction.  The insert
\* has no ON CONFLICT: NoConflict says why it needs none.
Save(w) ==
  LET r == RunOf(w)
      m == exec[w]
  IN
  /\ At(w, "save")
  /\ Fence(w)
  /\ steps' = steps \cup
       {[run |-> r, step |-> m.step, finish |-> m.answer.finish, tokens |-> m.answer.tokens,
         evidence |-> m.evidence, tooled |-> m.tooled, cached |-> FALSE,
         by |-> r, gen |-> task[w].attempt]}
  /\ ledger' = ledger \cup {[run |-> r, unit |-> "step", step |-> m.step]}
  /\ cache' = IF Cacheable(w) THEN Cached(w) ELSE cache
  /\ Goto(w, "answered")
  /\ UNCHANGED <<runVars, task, world, snapshot, context, calls>>

\* Mutant of Process: tools are called although the tokens are used up.
ProcessAtLimit(w) ==
  LET total == exec[w].total + exec[w].answer.tokens
      Continue(stage) == exec' = [exec EXCEPT ![w].stage = stage, ![w].total = total]
  IN
  /\ At(w, "answered")
  /\ total <= MaxTokens
  /\ \/ exec[w].answer.finish \in {"stop", "refusal"} /\ Continue("done")
     \/ exec[w].answer.finish = "tool_call" /\ Continue("tools")
  /\ UNCHANGED <<runVars, task, world, journal, ledger, cache, calls>>

\* Mutant of Process: only the last response is counted.
ProcessLastOnly(w) ==
  LET total == exec[w].answer.tokens
      Continue(stage) == exec' = [exec EXCEPT ![w].stage = stage, ![w].total = total]
  IN
  /\ At(w, "answered")
  /\ total <= MaxTokens
  /\ \/ exec[w].answer.finish \in {"stop", "refusal"} /\ Continue("done")
     \/ exec[w].answer.finish = "tool_call" /\ total < MaxTokens /\ Continue("tools")
  /\ UNCHANGED <<runVars, task, world, journal, ledger, cache, calls>>

\* After load, restore or save: count the tokens and look at the finish
\* reason.  Everything but a final answer and a call of tools raises.
Process(w) ==
  LET total == exec[w].total + exec[w].answer.tokens
      Continue(stage) == exec' = [exec EXCEPT ![w].stage = stage, ![w].total = total]
  IN
  /\ At(w, "answered")
  /\ total <= MaxTokens
  /\ \/ exec[w].answer.finish \in {"stop", "refusal"} /\ Continue("done")
     \/ exec[w].answer.finish = "tool_call" /\ total < MaxTokens /\ Continue("tools")
  /\ UNCHANGED <<runVars, task, world, journal, ledger, cache, calls>>

\* All tool calls of the response have results (ToolGovernance).
UseTools(w) ==
  /\ At(w, "tools")
  /\ exec[w].tooled
  /\ Fence(w)
  /\ exec' = [exec EXCEPT ![w].stage = "loop", ![w].step = @ + 1]
  /\ UNCHANGED <<runVars, task, world, journal, ledger, cache, calls>>

-----------------------------------------------------------------------------
\* The world around

\* A source is added, replaced or deleted, or its ACL changes.
Reindex(v) ==
  /\ visible' = v
  /\ UNCHANGED <<runVars, task, question, tooling, journal, ledger, cache, exec, calls>>

SetTooling(t) ==
  /\ tooling' = t
  /\ UNCHANGED <<runVars, task, question, visible, journal, ledger, cache, exec, calls>>

\* save, of another run of the agent: the row of the key is replaced.
OtherSaves(s) ==
  /\ cache' = { t \in cache : t.question # s.question \/ t.evidence # s.evidence } \cup {s}
  /\ UNCHANGED <<runVars, task, world, journal, ledger, exec, calls>>

\* expires_at passes
CacheExpires(s) ==
  /\ cache' = cache \ {s}
  /\ UNCHANGED <<runVars, task, world, journal, ledger, exec, calls>>

-----------------------------------------------------------------------------
RunStep ==
  \/ \E r \in Run : Submit(r) \/ Requeue(r) \/ RequestCancel(r) \/ Cancel(r)
  \/ \E w \in Worker, r \in Run : Claim(w, r)
  \/ \E w \in Worker : Abandon(w)
  \/ \E w \in Worker, outcome \in Terminal \cup {"queued", "waiting_for_approval"} :
       Finish(w, outcome)

RetrievalStep(w) ==
  \/ Begin(w)
  \/ LoadRetrieval(w)
  \/ NoRetrieval(w)
  \/ \E e \in Evidence : Retrieve(w, e)
  \/ SaveRetrieval(w)

LoopStep(w) ==
  \/ Replay(w)
  \/ NotStored(w)
  \/ RestoreExact(w)
  \/ NoExact(w)
  \/ RestoreSimilar(w)
  \/ NoSimilar(w)
  \/ Authorize(w)
  \/ \E response \in Response : Generate(w, response)
  \/ Save(w)
  \/ Process(w)
  \/ UseTools(w)

WorldStep ==
  \/ \E v \in Evidence : Reindex(v)
  \/ \E t \in Tooling : SetTooling(t)
  \/ \E s \in OtherAnswers : OtherSaves(s)
  \/ \E s \in cache : CacheExpires(s)

Next ==
  \/ RunStep
  \/ \E w \in Worker : RetrievalStep(w) \/ LoopStep(w)
  \/ WorldStep

Spec == Init /\ [][Next]_vars

-----------------------------------------------------------------------------
\* Every variable has its type.
TypeOK ==
  /\ Contract!TypeOK
  /\ question \in [Run -> Question]
  /\ visible \in Evidence
  /\ tooling \in Tooling
  /\ steps \subseteq Row
  /\ snapshot \in [Run -> Evidence \cup {NoSnapshot}]
  /\ context \subseteq Run
  /\ ledger \subseteq Key
  /\ cache \subseteq Saved
  /\ exec \in [Worker -> Memory]
  /\ calls \subseteq [run : Run, step : Nat, gen : Nat]

\* The inserts of save, restore_answer_cache and restore_semantic_answer_cache
\* have no ON CONFLICT, and save_retrieval finds no other snapshot: whoever
\* passes the fence there is the first, although another attempt may have
\* got as far between its load and its insert.  Otherwise a paid response
\* would be lost in a unique violation.
NoConflict ==
  \A w \in Worker :
    Fence(w) =>
      /\ exec[w].stage \in {"exact", "similar", "route", "authorized", "save"}
           => Stored(w) = {}
      /\ exec[w].stage \in {"query", "snapshot"} => snapshot[RunOf(w)] = NoSnapshot

\* A crash, a take-over or a retry costs at most one paid response: of all
\* responses given to one attempt of a run, at most one is not in the
\* journal, however the attempt ended (ADR 0009: only a response that was
\* lost before commit is billed again).
Journalled(c) ==
  \E x \in steps : x.run = c.run /\ x.step = c.step /\ x.gen = c.gen /\ x.by = c.run

OneLostCallPerAttempt ==
  \A c, d \in calls :
    c.run = d.run /\ c.gen = d.gen /\ ~Journalled(c) /\ ~Journalled(d) => c = d

\* What the executor that passes the fence has in memory is what the journal
\* and the snapshot say, in whichever attempt each part was written: the
\* evidence, the tokens used, the response whose tools it calls.
Before(w) == { x \in steps : x.run = RunOf(w) /\ x.step < exec[w].step }

InLoop == {"loop", "exact", "similar", "route", "authorized", "save", "answered", "tools", "done"}
Counted == {"tools", "done"}

MemoryMatchesJournal ==
  \A w \in Worker :
    Fence(w) /\ exec[w].stage \in InLoop =>
      /\ exec[w].evidence = snapshot[RunOf(w)]
      /\ exec[w].total = MapThenSumSet(LAMBDA x : x.tokens,
           IF exec[w].stage \in Counted THEN Before(w) \cup Stored(w) ELSE Before(w))
      /\ exec[w].stage \in Counted \cup {"answered"} =>
           \E x \in Stored(w) : exec[w].answer = [finish |-> x.finish, tokens |-> x.tokens]

\* The raw evidence is kept exactly while a retry may need it: no open run
\* with a snapshot lacks it, and no finished run has it (ADR 0021).
ContextWhileOpen ==
  \A r \in Run :
    r \in context <=> snapshot[r] # NoSnapshot /\ status[r] \notin Terminal

-----------------------------------------------------------------------------
\* The executor implements the exactly-once log of JournalContract.
Log == INSTANCE JournalContract WITH
  rows       <- steps,
  evidence   <- snapshot,
  NoEvidence <- NoSnapshot,
  paid       <- { <<k.run, k.step>> : k \in { l \in ledger : l.unit = "step" } },
  closed     <- { r \in Run : status[r] \in Terminal }

ImplementsLog == Log!Spec
=============================================================================
