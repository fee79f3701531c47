------------------------- MODULE ExecutorJournalProofs -------------------------
(***************************************************************************)
(* Proofs about ExecutorJournal, for any runs, workers, knowledge, answers *)
(* and limits.                                                             *)
(*                                                                         *)
(* The argument rests on AttemptsDistinct: no two workers execute one      *)
(* attempt of a run, so at most one passes the fence (OneFenced), and who  *)
(* passes it after a step passed it before or has just claimed the run     *)
(* (FenceKept).  Whoever adds to the journal of a run is therefore the one *)
(* worker whose view of it the invariants speak of.                        *)
(*                                                                         *)
(* MemoryInv says what that worker remembers of the rows it loaded: they   *)
(* are numbered without a gap, it has counted their tokens, and its step   *)
(* is the first that is not stored.  From this the executor implements the *)
(* exactly-once log of JournalContract.  What the folds of the contract    *)
(* return is proved first, by a smallest counterexample.                   *)
(***************************************************************************)
EXTENDS ExecutorJournal, FiniteSetTheorems, TLAPS

\* A worker has a task exactly while it is not idle.
Busy == \A w \in Worker : task[w] = NoTask <=> exec[w].stage = "idle"

TypeInv == TypeOK /\ Busy

\* Nobody executes an attempt that was not started, or that another executes.
AttemptsDistinct ==
  /\ \A w \in Worker : task[w] # NoTask => task[w].attempt <= attempt[RunOf(w)]
  /\ \A v, w \in Worker : task[v] # NoTask /\ task[v] = task[w] => v = w

LEMMA TaskType ==
  ASSUME TypeInv, NEW w \in Worker, task[w] # NoTask
  PROVE  task[w] \in Contract!Task /\ RunOf(w) \in Run /\ task[w].attempt \in Nat
BY DEF TypeInv, TypeOK, Contract!TypeOK, Contract!Task, RunOf, NoTask

-----------------------------------------------------------------------------
\* Types

LEMMA TypeInit == Init => TypeInv
<1> SUFFICES ASSUME Init PROVE TypeInv
  OBVIOUS
<1>1. Idle \in Memory
  BY DEF Idle, Memory, Stage, Answer, NoAnswer, Finishes, Evidence
<1>2. Contract!TypeOK
  BY DEF Init, Contract!Init, Contract!TypeOK, Contract!RunStatus
<1>3. TypeOK
  BY <1>1, <1>2 DEF Init, TypeOK
<1>4. Busy
  BY DEF Init, Contract!Init, Busy, Idle, NoTask
<1> QED BY <1>3, <1>4 DEF TypeInv

\* What the steps of the run itself leave of the types.
LEMMA TypeRun == TypeInv /\ RunStep => TypeInv'
<1> SUFFICES ASSUME TypeInv, RunStep PROVE TypeInv'
  OBVIOUS
<1> USE DEF TypeInv, world, journal
<1>0. Idle \in Memory /\ [Idle EXCEPT !.stage = "begin"] \in Memory
      /\ [Idle EXCEPT !.stage = "begin"].stage # "idle" /\ Idle.stage = "idle"
  BY DEF Idle, Memory, Stage, Answer, NoAnswer, Finishes, Evidence
<1>1. ASSUME NEW r \in Run, Submit(r) \/ Requeue(r) \/ RequestCancel(r) PROVE TypeInv'
  <2>1. Contract!TypeOK'
    BY <1>1 DEF Submit, Requeue, RequestCancel, Contract!Submit, Contract!Requeue,
       Contract!RequestCancel, Contract!TypeOK, Contract!RunStatus, TypeOK
  <2>2. UNCHANGED <<world, journal, ledger, cache, exec, calls, task>>
    BY <1>1 DEF Submit, Requeue, RequestCancel, Contract!Submit, Contract!Requeue,
       Contract!RequestCancel
  <2> QED BY <2>1, <2>2 DEF TypeOK, Busy
<1>2. ASSUME NEW r \in Run, Cancel(r) PROVE TypeInv'
  <2>1. Contract!TypeOK'
    BY <1>2 DEF Cancel, Contract!Cancel, Contract!TypeOK, Contract!RunStatus, Contract!Terminal,
       TypeOK
  <2>2. UNCHANGED <<world, steps, snapshot, ledger, cache, exec, calls, task>>
        /\ context' \subseteq context
    BY <1>2 DEF Cancel, Contract!Cancel, Cleanup
  <2> QED BY <2>1, <2>2 DEF TypeOK, Busy
<1>3. ASSUME NEW w \in Worker, NEW r \in Run, Claim(w, r) PROVE TypeInv'
  <2>1. task' = [task EXCEPT ![w] = [run |-> r, attempt |-> attempt[r] + 1]]
        /\ attempt[r] \in Nat
    BY <1>3 DEF Claim, Contract!Start, TypeOK, Contract!TypeOK
  <2>2. Contract!TypeOK'
    BY <1>3, <2>1 DEF Claim, Contract!Start, Contract!TypeOK, Contract!RunStatus, TypeOK,
       Contract!Task
  <2>3. [run |-> r, attempt |-> attempt[r] + 1] # NoTask
    BY <2>1 DEF NoTask, Contract!NoTask
  <2>4. TypeOK'
    BY <1>0, <1>3, <2>2 DEF Claim, TypeOK
  <2>5. Busy'
    BY <1>0, <1>3, <2>1, <2>3 DEF Claim, Busy, TypeOK, Contract!TypeOK
  <2> QED BY <2>4, <2>5
<1>4. ASSUME NEW w \in Worker, Abandon(w) PROVE TypeInv'
  <2>1. Contract!TypeOK'
    BY <1>4 DEF Abandon, Contract!Abandon, Contract!TypeOK, TypeOK
  <2>2. TypeOK'
    BY <1>0, <1>4, <2>1 DEF Abandon, TypeOK
  <2>3. Busy'
    BY <1>0, <1>4 DEF Abandon, Contract!Abandon, Busy, TypeOK, Contract!TypeOK, NoTask
  <2> QED BY <2>2, <2>3
<1>5. ASSUME NEW w \in Worker,
             NEW outcome \in Terminal \cup {"queued", "waiting_for_approval"},
             Finish(w, outcome)
      PROVE  TypeInv'
  <2>1. PICK r \in Run : Contract!Decide(w, r, outcome)
    BY <1>5 DEF Finish
  <2>2. Contract!TypeOK'
    BY <2>1 DEF Contract!Decide, Contract!TypeOK, Contract!RunStatus, TypeOK, Terminal
  <2>3. TypeOK'
    BY <1>0, <1>5, <2>2 DEF Finish, Cleanup, TypeOK
  <2>4. Busy'
    BY <1>0, <1>5, <2>1 DEF Finish, Contract!Decide, Busy, TypeOK, Contract!TypeOK, NoTask
  <2> QED BY <2>3, <2>4
<1> QED BY <1>1, <1>2, <1>3, <1>4, <1>5 DEF RunStep

\* A step of an executor changes its own memory only, and leaves runs and
\* tasks alone.
Working(w) ==
  /\ UNCHANGED <<runVars, task, world>>
  /\ exec[w].stage # "idle" /\ exec'[w].stage # "idle"
  /\ exec' = [exec EXCEPT ![w] = exec'[w]]
  /\ exec'[w] \in Memory

\* The tables keep their types.
Tables ==
  /\ steps \subseteq Row
  /\ snapshot \in [Run -> Evidence \cup {NoSnapshot}]
  /\ context \subseteq Run
  /\ ledger \subseteq Key
  /\ cache \subseteq Saved
  /\ calls \subseteq [run : Run, step : Nat, gen : Nat]

LEMMA WorkingTypes ==
  ASSUME TypeInv, NEW w \in Worker, Working(w), Tables'
  PROVE  TypeInv'
<1>1. TypeOK'
  BY DEF TypeInv, TypeOK, Working, Tables, world, runVars, Contract!TypeOK
<1>2. Busy'
  BY DEF TypeInv, TypeOK, Busy, Working
<1> QED BY <1>1, <1>2 DEF TypeInv

\* The steps up to the loop.
LEMMA TypeRetrieval ==
  ASSUME TypeInv, NEW w \in Worker, RetrievalStep(w)
  PROVE  Working(w) /\ Tables'
<1> USE DEF Working, Tables, TypeOK, TypeInv, world, journal, At, Goto, Memory, Stage
<1>0. At(w, "idle") \/ task[w] # NoTask
  BY DEF Busy
<1>1. CASE Begin(w)
  BY <1>1, ToolingAssumption DEF Begin
<1>2. CASE LoadRetrieval(w)
  <2>1. snapshot[RunOf(w)] \in Evidence
    BY <1>2, TaskType DEF LoadRetrieval, Fence
  <2> QED BY <1>2, <2>1 DEF LoadRetrieval
<1>3. CASE NoRetrieval(w)
  BY <1>3 DEF NoRetrieval
<1>4. ASSUME NEW e \in Evidence, Retrieve(w, e) PROVE Working(w) /\ Tables'
  <2>1. RunOf(w) \in Run
    BY <1>0, <1>4, TaskType DEF Retrieve
  <2>2. [run |-> RunOf(w), unit |-> "retrieval", step |-> 0] \in Key
    BY <2>1 DEF Key
  <2>3. Tables'
    BY <1>4, <2>2 DEF Retrieve
  <2>4. Working(w)
    BY <1>4 DEF Retrieve
  <2> QED BY <2>3, <2>4
<1>5. CASE SaveRetrieval(w)
  <2>1. RunOf(w) \in Run
    BY <1>5, TaskType DEF SaveRetrieval, Fence
  <2> QED BY <1>5, <2>1 DEF SaveRetrieval
<1> QED BY <1>1, <1>2, <1>3, <1>4, <1>5 DEF RetrievalStep

\* A restored answer is a step.
LEMMA TypeRestore ==
  ASSUME TypeInv, NEW w \in Worker, NEW s \in cache, Restore(w, s), Fence(w),
         exec[w].stage # "idle"
  PROVE  Working(w) /\ Tables'
<1> USE DEF TypeInv, TypeOK
<1>1. RunOf(w) \in Run /\ exec[w] \in Memory /\ s \in Saved
  BY TaskType DEF Fence
<1>2. [run |-> RunOf(w), step |-> exec[w].step, finish |-> "stop", tokens |-> 0,
       evidence |-> s.evidence, tooled |-> exec[w].tooled, cached |-> TRUE,
       by |-> s.by, gen |-> s.gen] \in Row
  BY <1>1 DEF Row, Memory, Saved, Finishes
<1>3. Tables'
  BY <1>2 DEF Tables, Restore
<1>4. [finish |-> "stop", tokens |-> 0] \in Answer
  BY DEF Answer, Finishes
<1>5. Working(w)
  BY <1>1, <1>4 DEF Working, Restore, world, Memory, Stage
<1> QED BY <1>3, <1>5

\* A saved response is a step.
LEMMA TypeSave ==
  ASSUME TypeInv, NEW w \in Worker, Save(w)
  PROVE  Working(w) /\ Tables'
<1> USE DEF TypeInv, TypeOK
<1>1. RunOf(w) \in Run /\ exec[w] \in Memory /\ task[w].attempt \in Nat
  BY TaskType DEF Save, Fence
<1>2. [run |-> RunOf(w), step |-> exec[w].step, finish |-> exec[w].answer.finish,
       tokens |-> exec[w].answer.tokens, evidence |-> exec[w].evidence,
       tooled |-> exec[w].tooled, cached |-> FALSE, by |-> RunOf(w),
       gen |-> task[w].attempt] \in Row
  BY <1>1 DEF Row, Memory, Answer
<1>3. [run |-> RunOf(w), unit |-> "step", step |-> exec[w].step] \in Key
  BY <1>1 DEF Key, Memory
<1>4. Cached(w) \subseteq Saved
  BY <1>1 DEF Cached, Saved, Memory
<1>5. Tables'
  BY <1>2, <1>3, <1>4 DEF Tables, Save
<1>6. Working(w)
  BY <1>1 DEF Working, Save, world, Goto, At, Memory, Stage
<1> QED BY <1>5, <1>6

\* The steps of the loop.
LEMMA TypeLoop ==
  ASSUME TypeInv, NEW w \in Worker, LoopStep(w)
  PROVE  Working(w) /\ Tables'
<1> USE DEF Working, Tables, TypeOK, TypeInv, world, journal, At, Goto, Memory, Stage
<1>0. At(w, "idle") \/ (RunOf(w) \in Run /\ task[w].attempt \in Nat)
  BY TaskType DEF Busy
<1>1. CASE Replay(w)
  <2>1. PICK x \in Stored(w) :
          exec' = [exec EXCEPT ![w].stage = "answered",
                               ![w].answer = [finish |-> x.finish, tokens |-> x.tokens]]
    BY <1>1 DEF Replay
  <2>2. [finish |-> x.finish, tokens |-> x.tokens] \in Answer
    BY DEF Stored, Row, Answer
  <2> QED BY <1>1, <2>1, <2>2 DEF Replay, Looping
<1>2. CASE NotStored(w)
  BY <1>2 DEF NotStored, Looping
<1>3. CASE RestoreExact(w)
  BY <1>3, TypeRestore DEF RestoreExact, Exact
<1>4. CASE NoExact(w)
  <2>1. [run |-> RunOf(w), unit |-> "embedding", step |-> 0] \in Key
    BY <1>0, <1>4 DEF NoExact, Key
  <2> QED BY <1>4, <2>1 DEF NoExact
<1>5. CASE RestoreSimilar(w)
  BY <1>5, TypeRestore DEF RestoreSimilar, Close
<1>6. CASE NoSimilar(w) \/ Authorize(w)
  BY <1>6 DEF NoSimilar, Authorize
<1>7. ASSUME NEW response \in Response, Generate(w, response) PROVE Working(w) /\ Tables'
  <2>1. response \in Answer
    BY ResponseAssumption DEF Answer
  <2>2. [run |-> RunOf(w), step |-> exec[w].step, gen |-> task[w].attempt]
          \in [run : Run, step : Nat, gen : Nat]
    BY <1>0, <1>7 DEF Generate
  <2> QED BY <1>7, <2>1, <2>2 DEF Generate
<1>8. CASE Save(w)
  BY <1>8, TypeSave
<1>9. CASE Process(w)
  <2>1. exec[w].total + exec[w].answer.tokens \in Nat
    BY DEF Answer
  <2> QED BY <1>9, <2>1 DEF Process
<1>10. CASE UseTools(w)
  BY <1>10 DEF UseTools
<1> QED BY <1>1, <1>2, <1>3, <1>4, <1>5, <1>6, <1>7, <1>8, <1>9, <1>10 DEF LoopStep

LEMMA TypeWorld == TypeInv /\ WorldStep => TypeInv'
<1> SUFFICES ASSUME TypeInv, WorldStep PROVE TypeInv'
  OBVIOUS
<1>1. CASE \E s \in OtherAnswers : OtherSaves(s)
  <2>1. PICK s \in OtherAnswers : OtherSaves(s)
    BY <1>1
  <2>2. s \in Saved
    BY OtherAssumption DEF Saved
  <2>3. cache' \subseteq Saved
    BY <2>1, <2>2 DEF OtherSaves, TypeInv, TypeOK
  <2> QED BY <2>1, <2>3 DEF OtherSaves, TypeInv, TypeOK, Busy, runVars, journal, world,
      Contract!TypeOK
<1>2. CASE ~ \E s \in OtherAnswers : OtherSaves(s)
  BY <1>2 DEF TypeInv, TypeOK, Busy, WorldStep, Reindex, SetTooling, CacheExpires, runVars, journal,
     world, Contract!TypeOK
<1> QED BY <1>1, <1>2

LEMMA TypeStep == TypeInv /\ [Next]_vars => TypeInv'
<1> SUFFICES ASSUME TypeInv, [Next]_vars PROVE TypeInv'
  OBVIOUS
<1>1. CASE UNCHANGED vars
  BY <1>1 DEF vars, runVars, world, journal, TypeInv, TypeOK, Busy, Contract!TypeOK
<1> QED BY <1>1, TypeRun, TypeRetrieval, TypeLoop, TypeWorld, WorkingTypes DEF Next

\* Every variable has its type in every state (executor.py, executor_store.py).
THEOREM TypeSafe == Spec => []TypeOK
<1>1. TypeInv => TypeOK
  BY DEF TypeInv
<1> QED BY <1>1, TypeInit, TypeStep, PTL DEF Spec

-----------------------------------------------------------------------------
\* Attempts and the fence

\* A worker gives its task up.
Drops(w) ==
  /\ task' = [task EXCEPT ![w] = NoTask]
  /\ exec' = [exec EXCEPT ![w] = Idle]
  /\ attempt' = attempt

\* How a step changes tasks and attempts.
LEMMA TaskMoves ==
  ASSUME TypeInv, [Next]_vars
  PROVE  \/ UNCHANGED <<task, attempt>>
         \/ \E w \in Worker, r \in Run : Claim(w, r)
         \/ \E w \in Worker : Drops(w)
<1>1. CASE UNCHANGED vars
  BY <1>1 DEF vars, runVars
<1>2. CASE RunStep
  BY <1>2 DEF RunStep, Submit, Requeue, RequestCancel, Cancel, Abandon, Finish, Drops, NoTask,
     Contract!Submit, Contract!Requeue, Contract!RequestCancel, Contract!Cancel,
     Contract!Abandon, Contract!Decide
<1>3. CASE \E w \in Worker : RetrievalStep(w) \/ LoopStep(w)
  BY <1>3, TypeRetrieval, TypeLoop DEF Working, runVars
<1>4. CASE WorldStep
  BY <1>4 DEF WorldStep, Reindex, SetTooling, OtherSaves, CacheExpires, runVars
<1> QED BY <1>1, <1>2, <1>3, <1>4 DEF Next

LEMMA AttemptsStep == TypeInv /\ AttemptsDistinct /\ [Next]_vars => AttemptsDistinct'
<1> SUFFICES ASSUME TypeInv, AttemptsDistinct, [Next]_vars PROVE AttemptsDistinct'
  OBVIOUS
<1> USE DEF AttemptsDistinct, RunOf
<1>1. CASE UNCHANGED <<task, attempt>>
  BY <1>1
<1>2. ASSUME NEW w \in Worker, NEW r \in Run, Claim(w, r) PROVE AttemptsDistinct'
  <2>1. /\ attempt[r] \in Nat
        /\ task' = [task EXCEPT ![w] = [run |-> r, attempt |-> attempt[r] + 1]]
        /\ attempt' = [attempt EXCEPT ![r] = @ + 1]
        /\ task \in [Worker -> Contract!Task \cup {NoTask}]
        /\ attempt \in [Run -> Nat]
    BY <1>2 DEF Claim, Contract!Start, TypeInv, TypeOK, Contract!TypeOK, NoTask
  <2>2. ASSUME NEW v \in Worker \ {w}, task[v] # NoTask
        PROVE  task[v] # task'[w] /\ task[v].attempt <= attempt'[task[v].run]
    <3>1. task[v].run \in Run /\ task[v].attempt \in Nat
          /\ task[v].attempt <= attempt[task[v].run]
      BY <2>2, TaskType
    <3>2. attempt'[task[v].run] \in {attempt[task[v].run], attempt[task[v].run] + 1}
      BY <2>1, <3>1
    <3>3. CASE task[v].run = r
      BY <2>1, <3>1, <3>2, <3>3
    <3>4. CASE task[v].run # r
      BY <2>1, <3>1, <3>2, <3>4
    <3> QED BY <3>3, <3>4
  <2>3. task'[w].attempt <= attempt'[task'[w].run]
    BY <2>1
  <2>4. \A v \in Worker \ {w} : task'[v] = task[v]
    BY <2>1
  <2> QED BY <2>2, <2>3, <2>4
<1>3. ASSUME NEW w \in Worker, Drops(w) PROVE AttemptsDistinct'
  BY <1>3 DEF Drops, TypeInv, TypeOK, Contract!TypeOK, NoTask
<1> QED BY <1>1, <1>2, <1>3, TaskMoves

\* At most one worker passes the fence of a run.
LEMMA OneFenced ==
  ASSUME TypeInv, AttemptsDistinct, NEW v \in Worker, NEW w \in Worker,
         Fence(v), Fence(w), RunOf(v) = RunOf(w)
  PROVE  v = w
<1>1. task[v].run = task[w].run /\ task[v].attempt = task[w].attempt
  BY DEF Fence, RunOf
<1>2. task[v] \in Contract!Task /\ task[w] \in Contract!Task
  BY TaskType DEF Fence
<1>3. task[v] = task[w]
  BY <1>1, <1>2 DEF Contract!Task
<1> QED BY <1>3 DEF AttemptsDistinct, Fence

\* Whoever passes the fence after a step has just claimed the run, or passed
\* it before and kept its task.
LEMMA FenceKept ==
  ASSUME TypeInv, AttemptsDistinct, [Next]_vars, NEW w \in Worker, Fence(w)'
  PROVE  \/ \E r \in Run : Claim(w, r)
         \/ Fence(w) /\ task'[w] = task[w] /\ RunOf(w)' = RunOf(w)
<1> SUFFICES ASSUME ~\E r \in Run : Claim(w, r)
             PROVE  Fence(w) /\ task'[w] = task[w]
  BY DEF RunOf
<1>1. task'[w] = task[w] /\ task[w] # NoTask
  <2>1. task \in [Worker -> Contract!Task \cup {NoTask}]
    BY DEF TypeInv, TypeOK, Contract!TypeOK, NoTask
  <2>2. task'[w] # NoTask
    BY DEF Fence, NoTask
  <2>3. ASSUME NEW v \in Worker, NEW r \in Run, Claim(v, r) PROVE task'[w] = task[w]
    BY <2>1, <2>3 DEF Claim, Contract!Start
  <2>4. ASSUME NEW v \in Worker, Drops(v) PROVE task'[w] = task[w]
    BY <2>1, <2>2, <2>4 DEF Drops
  <2> QED BY <2>2, <2>3, <2>4, TaskMoves
<1> DEFINE r == RunOf(w)
<1>2. /\ r \in Run /\ task[w].attempt \in Nat /\ task[w].attempt <= attempt[r]
      /\ status'[r] = "running" /\ attempt'[r] = task[w].attempt /\ ~cancelReq'[r]
  BY <1>1, TaskType DEF Fence, RunOf, AttemptsDistinct
<1> USE DEF TypeInv, TypeOK, Contract!TypeOK
<1> HIDE DEF r
<1>3. CASE UNCHANGED runVars
  BY <1>1, <1>2, <1>3 DEF runVars, Fence, r
<1>4. CASE RunStep
  <2>1. attempt'[r] = attempt[r]
    <3>1. ASSUME NEW v \in Worker, NEW q \in Run, Claim(v, q) PROVE attempt'[r] = attempt[r]
      <4>1. attempt' = [attempt EXCEPT ![q] = @ + 1] /\ attempt[r] \in Nat
        BY <1>2, <3>1 DEF Claim, Contract!Start
      <4> QED BY <1>2, <4>1
    <3> QED BY <3>1, TaskMoves DEF Drops
  <2>2. status[r] = "running" /\ ~cancelReq[r]
    <3>1. ASSUME NEW q \in Run, Submit(q) \/ Requeue(q) \/ RequestCancel(q) \/ Cancel(q)
          PROVE  status[r] = "running" /\ ~cancelReq[r]
      BY <1>2, <3>1 DEF Submit, Requeue, RequestCancel, Cancel, Contract!Submit,
         Contract!Requeue, Contract!RequestCancel, Contract!Cancel
    <3>2. ASSUME NEW v \in Worker, NEW q \in Run, Claim(v, q)
          PROVE  status[r] = "running" /\ ~cancelReq[r]
      <4>1. /\ attempt' = [attempt EXCEPT ![q] = @ + 1] /\ attempt[r] \in Nat
            /\ status' = [status EXCEPT ![q] = "running"] /\ cancelReq' = cancelReq
        BY <1>2, <3>2 DEF Claim, Contract!Start
      <4> QED BY <1>2, <2>1, <4>1
    <3>3. ASSUME NEW v \in Worker, Abandon(v) PROVE status[r] = "running" /\ ~cancelReq[r]
      BY <1>2, <3>3 DEF Abandon, Contract!Abandon
    <3>4. ASSUME NEW v \in Worker,
                 NEW outcome \in Terminal \cup {"queued", "waiting_for_approval"},
                 Finish(v, outcome)
          PROVE  status[r] = "running" /\ ~cancelReq[r]
      <4>1. PICK q \in Run : /\ status' = [status EXCEPT ![q] = outcome]
                             /\ cancelReq' = cancelReq
        BY <3>4 DEF Finish, Contract!Decide
      <4>2. outcome # "running"
        BY DEF Terminal, Contract!Terminal
      <4> QED BY <1>2, <4>1, <4>2
    <3> QED BY <1>4, <3>1, <3>2, <3>3, <3>4 DEF RunStep
  <2> QED BY <1>1, <1>2, <2>1, <2>2 DEF Fence, r
<1>5. UNCHANGED runVars \/ RunStep
  BY TypeRetrieval, TypeLoop DEF Next, vars, Working, WorldStep, Reindex, SetTooling,
     OtherSaves, CacheExpires
<1> QED BY <1>1, <1>3, <1>4, <1>5

-----------------------------------------------------------------------------
\* How a step changes the journal and the memory of a worker

\* The stages between load and insert, of the steps and of the snapshot.
Unstored == {"exact", "similar", "route", "authorized", "save"}
Unsnapped == {"query", "snapshot"}

\* A worker that passes the fence stores its step.
Stores(w) ==
  /\ Fence(w)
  /\ exec[w].stage \in Unstored /\ exec'[w].stage = "answered"
  /\ exec'[w].step = exec[w].step /\ exec'[w].total = exec[w].total
  /\ exec'[w].evidence = exec[w].evidence
  /\ UNCHANGED <<calls, snapshot>>
  /\ \E x : /\ steps' = steps \cup {x}
            /\ x.run = RunOf(w) /\ x.step = exec[w].step
            /\ exec'[w].answer = [finish |-> x.finish, tokens |-> x.tokens]
            /\ exec[w].stage = "save" => x.by = x.run /\ x.gen = task[w].attempt

LEMMA RestoreStores ==
  ASSUME TypeInv, NEW w \in Worker, NEW s \in cache, Fence(w), Restore(w, s),
         exec[w].stage \in {"exact", "similar"}
  PROVE  Stores(w)
<1> DEFINE x == [run |-> RunOf(w), step |-> exec[w].step, finish |-> "stop", tokens |-> 0,
                 evidence |-> s.evidence, tooled |-> exec[w].tooled, cached |-> TRUE,
                 by |-> s.by, gen |-> s.gen]
<1>1. /\ steps' = steps \cup {x} /\ x.run = RunOf(w) /\ x.step = exec[w].step
      /\ x.finish = "stop" /\ x.tokens = 0
  BY DEF Restore
<1>2. /\ exec'[w].stage = "answered" /\ UNCHANGED <<calls, snapshot>>
      /\ exec'[w].step = exec[w].step /\ exec'[w].total = exec[w].total
      /\ exec'[w].evidence = exec[w].evidence
      /\ exec'[w].answer = [finish |-> "stop", tokens |-> 0]
  BY DEF Restore, TypeInv, TypeOK, Memory
<1> HIDE DEF x
<1> QED BY <1>1, <1>2 DEF Stores, Unstored

LEMMA SaveStores ==
  ASSUME TypeInv, NEW w \in Worker, Save(w)
  PROVE  Stores(w)
<1> DEFINE x == [run |-> RunOf(w), step |-> exec[w].step, finish |-> exec[w].answer.finish,
                 tokens |-> exec[w].answer.tokens, evidence |-> exec[w].evidence,
                 tooled |-> exec[w].tooled, cached |-> FALSE, by |-> RunOf(w),
                 gen |-> task[w].attempt]
<1>1. /\ steps' = steps \cup {x} /\ x.run = RunOf(w) /\ x.step = exec[w].step
      /\ x.by = x.run /\ x.gen = task[w].attempt
      /\ x.finish = exec[w].answer.finish /\ x.tokens = exec[w].answer.tokens
  BY DEF Save
<1>2. /\ Fence(w) /\ exec[w].stage = "save" /\ UNCHANGED <<calls, snapshot>>
      /\ exec'[w].stage = "answered"
      /\ exec'[w].step = exec[w].step /\ exec'[w].total = exec[w].total
      /\ exec'[w].evidence = exec[w].evidence /\ exec'[w].answer = exec[w].answer
  BY DEF Save, At, Goto, TypeInv, TypeOK, Memory
<1>3. exec[w].answer = [finish |-> exec[w].answer.finish, tokens |-> exec[w].answer.tokens]
  BY DEF TypeInv, TypeOK, Memory, Answer
<1> HIDE DEF x
<1> QED BY <1>1, <1>2, <1>3 DEF Stores, Unstored

\* What a worker's own step makes of its stage, its step and the tables.
LEMMA OwnStep ==
  ASSUME TypeInv, NEW w \in Worker, RetrievalStep(w) \/ LoopStep(w)
  PROVE  /\ Stores(w) \/ UNCHANGED steps
         /\ SaveRetrieval(w) \/ UNCHANGED snapshot
         /\ (\E response \in Response : Generate(w, response)) \/ UNCHANGED calls
         /\ exec'[w].stage \in Unstored =>
              /\ UNCHANGED steps
              /\ exec'[w].step = exec[w].step
              /\ exec[w].stage \in Unstored \/ Stored(w) = {}
         /\ exec'[w].stage \in Unsnapped =>
              /\ UNCHANGED snapshot
              /\ exec[w].stage \in Unsnapped \/ snapshot[RunOf(w)] = NoSnapshot
         /\ exec[w].stage = "save" => Stores(w)
<1> USE DEF TypeInv, TypeOK, Memory, At, Goto, journal, Unstored, Unsnapped
<1>1. CASE RetrievalStep(w)
  BY <1>1 DEF RetrievalStep, Begin, LoadRetrieval, NoRetrieval, Retrieve, SaveRetrieval
<1>2. CASE RestoreExact(w) \/ RestoreSimilar(w)
  <2>1. PICK s \in cache : Restore(w, s)
    BY <1>2 DEF RestoreExact, RestoreSimilar, Exact, Close
  <2>2. Fence(w) /\ exec[w].stage \in {"exact", "similar"}
    BY <1>2 DEF RestoreExact, RestoreSimilar
  <2>3. Stores(w)
    BY <2>1, <2>2, RestoreStores
  <2> QED BY <2>1, <2>2, <2>3 DEF Restore, Stores
<1>3. CASE Save(w)
  BY <1>3, SaveStores DEF Save
<1>4. CASE Replay(w) \/ Process(w) \/ UseTools(w)
  BY <1>4 DEF Replay, Process, UseTools, Looping
<1>5. CASE NotStored(w) \/ NoExact(w) \/ NoSimilar(w) \/ Authorize(w)
  BY <1>5 DEF NotStored, NoExact, NoSimilar, Authorize, Looping
<1>6. ASSUME NEW response \in Response, Generate(w, response)
      PROVE  /\ UNCHANGED <<steps, snapshot>>
             /\ exec[w].stage = "authorized" /\ exec'[w].stage = "save"
             /\ exec'[w].step = exec[w].step
  BY <1>6 DEF Generate
<1> QED BY <1>1, <1>2, <1>3, <1>4, <1>5, <1>6 DEF LoopStep

\* Any other step leaves the tables alone, and a worker's memory unless it
\* claims a run or drops its task.
LEMMA OtherSteps ==
  ASSUME TypeInv, [Next]_vars, ~\E w \in Worker : RetrievalStep(w) \/ LoopStep(w)
  PROVE  /\ UNCHANGED <<steps, snapshot, calls>>
         /\ \A w \in Worker : \/ exec'[w] = exec[w]
                            \/ /\ exec'[w].stage \in {"idle", "begin"}
                               /\ exec'[w].step = 0 /\ exec'[w].total = 0
                               /\ task[w] = NoTask \/ task'[w] = NoTask
<1> USE DEF journal, world
<1>1. CASE UNCHANGED vars
  BY <1>1 DEF vars
<1>2. CASE WorldStep
  BY <1>2 DEF WorldStep, Reindex, SetTooling, OtherSaves, CacheExpires
<1>3. CASE RunStep
  BY <1>3 DEF RunStep, Submit, Requeue, RequestCancel, Cancel, Claim, Abandon, Finish, Idle,
     TypeInv, TypeOK, NoTask, Contract!TypeOK, Contract!Start, Contract!Abandon,
     Contract!Decide
<1> QED BY <1>1, <1>2, <1>3 DEF Next

-----------------------------------------------------------------------------
\* No insert meets a row

JournalInv == TypeInv /\ AttemptsDistinct /\ NoConflict

LEMMA JournalInit == Init => JournalInv
<1> SUFFICES ASSUME Init PROVE JournalInv
  OBVIOUS
<1>1. \A w \in Worker : task[w] = NoTask
  BY DEF Init, Contract!Init, NoTask
<1>2. AttemptsDistinct /\ NoConflict
  BY <1>1 DEF AttemptsDistinct, NoConflict, Fence
<1> QED BY <1>2, TypeInit DEF JournalInv

\* A step of another worker that passes its own fence leaves the rows and the
\* snapshot of this worker's run alone.
LEMMA OthersStore ==
  ASSUME TypeInv, AttemptsDistinct, NEW v \in Worker, NEW w \in Worker, v # w, Fence(w),
         RetrievalStep(v) \/ LoopStep(v)
  PROVE  /\ exec'[w] = exec[w]
         /\ RunOf(w)' = RunOf(w) => Stored(w)' = Stored(w) /\ Before(w)' = Before(w)
         /\ snapshot'[RunOf(w)] = snapshot[RunOf(w)]
<1>1. exec'[w] = exec[w]
  BY TypeRetrieval, TypeLoop DEF Working, TypeInv, TypeOK
<1>2. Fence(v) => RunOf(v) # RunOf(w)
  BY OneFenced
<1>3. RunOf(w)' = RunOf(w) => Stored(w)' = Stored(w) /\ Before(w)' = Before(w)
  <2>1. CASE Stores(v)
    BY <1>1, <1>2, <2>1 DEF Stores, Stored, Before
  <2>2. CASE UNCHANGED steps
    BY <1>1, <2>2 DEF Stored, Before
  <2> QED BY <2>1, <2>2, OwnStep
<1>4. snapshot'[RunOf(w)] = snapshot[RunOf(w)]
  <2>1. CASE SaveRetrieval(v)
    BY <1>2, <2>1, TaskType DEF SaveRetrieval, Fence, TypeInv, TypeOK
  <2> QED BY <2>1, OwnStep
<1> QED BY <1>1, <1>3, <1>4

LEMMA NoConflictStep == JournalInv /\ [Next]_vars => NoConflict'
<1> SUFFICES ASSUME JournalInv, [Next]_vars, NEW w \in Worker, Fence(w)'
             PROVE  /\ exec'[w].stage \in Unstored => Stored(w)' = {}
                    /\ exec'[w].stage \in Unsnapped => snapshot'[RunOf(w)'] = NoSnapshot
  BY DEF NoConflict, Unstored, Unsnapped
<1> USE DEF JournalInv
<1>1. CASE \E r \in Run : Claim(w, r)
  BY <1>1 DEF Claim, Idle, TypeInv, TypeOK, Unstored, Unsnapped
<1>2. CASE Fence(w) /\ task'[w] = task[w] /\ RunOf(w)' = RunOf(w)
  <2>1. /\ exec[w].stage \in Unstored => Stored(w) = {}
        /\ exec[w].stage \in Unsnapped => snapshot[RunOf(w)] = NoSnapshot
    BY <1>2 DEF NoConflict, Unstored, Unsnapped
  <2>2. CASE RetrievalStep(w) \/ LoopStep(w)
    <3>1. exec'[w].stage \in Unstored => Stored(w)' = {}
      BY <1>2, <2>1, <2>2, OwnStep DEF Stored
    <3>2. exec'[w].stage \in Unsnapped => snapshot'[RunOf(w)'] = NoSnapshot
      BY <1>2, <2>1, <2>2, OwnStep
    <3> QED BY <3>1, <3>2
  <2>3. ASSUME NEW v \in Worker \ {w}, RetrievalStep(v) \/ LoopStep(v)
        PROVE  /\ exec'[w].stage \in Unstored => Stored(w)' = {}
               /\ exec'[w].stage \in Unsnapped => snapshot'[RunOf(w)'] = NoSnapshot
    BY <1>2, <2>1, <2>3, OthersStore
  <2>4. CASE ~\E v \in Worker : RetrievalStep(v) \/ LoopStep(v)
    <3>1. CASE exec'[w] = exec[w]
      BY <1>2, <2>1, <2>4, <3>1, OtherSteps DEF Stored
    <3>2. CASE exec'[w].stage \in {"idle", "begin"}
      BY <3>2 DEF Unstored, Unsnapped
    <3> QED BY <2>4, <3>1, <3>2, OtherSteps
  <2> QED BY <2>2, <2>3, <2>4
<1> QED BY <1>1, <1>2, FenceKept

LEMMA JournalStep == JournalInv /\ [Next]_vars => JournalInv'
BY TypeStep, AttemptsStep, NoConflictStep DEF JournalInv

\* Between load and insert nobody else fills the row: the inserts of save and
\* of the two restores (executor_store.py) never meet one.
THEOREM InsertsMeetNoRow == Spec => []NoConflict
<1>1. JournalInv => NoConflict
  BY DEF JournalInv
<1> QED BY <1>1, JournalInit, JournalStep, PTL DEF Spec

-----------------------------------------------------------------------------
\* One lost response per attempt

\* A response that is not in the journal belongs to an attempt that is over,
\* or is the one its worker is about to save.
LiveCalls ==
  /\ \A c \in calls : c.gen <= attempt[c.run]
  /\ \A c \in calls, w \in Worker :
       task[w] # NoTask /\ task[w] = [run |-> c.run, attempt |-> c.gen] =>
         Journalled(c) \/ (exec[w].stage = "save" /\ exec[w].step = c.step)

LostInv == JournalInv /\ LiveCalls /\ OneLostCallPerAttempt

LEMMA JournalledKept ==
  ASSUME TypeInv, [Next]_vars, NEW c, Journalled(c)
  PROVE  Journalled(c)'
<1>1. steps \subseteq steps'
  <2>1. CASE \E w \in Worker : RetrievalStep(w) \/ LoopStep(w)
    BY <2>1, OwnStep DEF Stores
  <2>2. CASE ~\E w \in Worker : RetrievalStep(w) \/ LoopStep(w)
    BY <2>2, OtherSteps
  <2> QED BY <2>1, <2>2
<1> QED BY <1>1 DEF Journalled

LEMMA AttemptsRise ==
  ASSUME TypeInv, [Next]_vars, NEW r \in Run
  PROVE  attempt[r] <= attempt'[r] /\ attempt[r] \in Nat
<1> USE DEF TypeInv, TypeOK, Contract!TypeOK
<1>1. ASSUME NEW w \in Worker, NEW q \in Run, Claim(w, q)
      PROVE  attempt[r] <= attempt'[r]
  BY <1>1 DEF Claim, Contract!Start
<1> QED BY <1>1, TaskMoves DEF Drops

\* The call a worker adds is the first of its attempt that is not journalled.
LEMMA NewCall ==
  ASSUME LostInv, [Next]_vars, NEW w \in Worker, NEW response \in Response,
         Generate(w, response)
  PROVE  LostInv'
<1> DEFINE d == [run |-> RunOf(w), step |-> exec[w].step, gen |-> task[w].attempt]
<1> USE DEF LostInv, JournalInv
<1>1. task[w] \in Contract!Task /\ task[w] = [run |-> d.run, attempt |-> d.gen]
      /\ d.gen <= attempt[d.run] /\ task[w] # NoTask
  <2>1. task[w] # NoTask
    BY DEF Generate, At, TypeInv, Busy
  <2> QED BY <2>1, TaskType DEF Contract!Task, RunOf, AttemptsDistinct
<1>2. /\ calls' = calls \cup {d}
      /\ UNCHANGED <<steps, task, attempt>>
      /\ exec[w].stage = "authorized"
      /\ exec'[w].stage = "save" /\ exec'[w].step = d.step
      /\ \A v \in Worker \ {w} : exec'[v] = exec[v]
  BY DEF Generate, At, journal, runVars, TypeInv, TypeOK, Memory
<1> HIDE DEF d
<1>3. \A c : Journalled(c)' <=> Journalled(c)
  BY <1>2 DEF Journalled
<1>4. ASSUME NEW c \in calls, c.run = d.run, c.gen = d.gen PROVE Journalled(c)
  BY <1>1, <1>2, <1>4 DEF LiveCalls
<1>5. LiveCalls'
  <2>1. ASSUME NEW c \in calls', NEW v \in Worker, task'[v] # NoTask,
               task'[v] = [run |-> c.run, attempt |-> c.gen]
        PROVE  Journalled(c)' \/ (exec'[v].stage = "save" /\ exec'[v].step = c.step)
    <3>1. CASE c = d
      <4>1. v = w
        BY <1>1, <1>2, <2>1, <3>1 DEF AttemptsDistinct, NoTask, Contract!NoTask, Generate,
           At, TypeInv, Busy
      <4> QED BY <1>2, <3>1, <4>1
    <3>2. CASE c \in calls /\ v = w
      <4>1. c.run = d.run /\ c.gen = d.gen
        BY <1>1, <1>2, <2>1, <3>2
      <4> QED BY <1>3, <1>4, <3>2, <4>1
    <3>3. CASE c \in calls /\ v # w
      BY <1>2, <1>3, <2>1, <3>3 DEF LiveCalls
    <3> QED BY <1>2, <3>1, <3>2, <3>3
  <2> QED BY <1>1, <1>2, <2>1 DEF LiveCalls
<1>6. OneLostCallPerAttempt'
  BY <1>2, <1>3, <1>4 DEF OneLostCallPerAttempt
<1>7. JournalInv'
  BY JournalStep
<1> QED BY <1>5, <1>6, <1>7

LEMMA LostStep == LostInv /\ [Next]_vars => LostInv'
<1> SUFFICES ASSUME LostInv, [Next]_vars,
                    ~\E w \in Worker, response \in Response : Generate(w, response)
             PROVE  LostInv'
  BY NewCall
<1> USE DEF LostInv, JournalInv
<1>1. calls' = calls
  BY OwnStep, OtherSteps
<1>2. \A c \in calls : c.run \in Run /\ c.gen \in Nat /\ c.step \in Nat
  BY DEF TypeInv, TypeOK
<1>3. ASSUME NEW c \in calls PROVE c.gen <= attempt'[c.run]
  <2>1. c.run \in Run /\ c.gen \in Nat /\ c.gen <= attempt[c.run]
    BY <1>2 DEF LiveCalls
  <2>2. attempt[c.run] <= attempt'[c.run] /\ attempt[c.run] \in Nat
    BY <2>1, AttemptsRise
  <2>3. attempt'[c.run] \in Nat
    BY <2>1, TypeStep DEF TypeInv, TypeOK, Contract!TypeOK
  <2> QED BY <2>1, <2>2, <2>3
<1>4. ASSUME NEW c \in calls, NEW w \in Worker, task'[w] # NoTask,
             task'[w] = [run |-> c.run, attempt |-> c.gen], ~Journalled(c)'
      PROVE  exec'[w].stage = "save" /\ exec'[w].step = c.step
  <2>1. ~Journalled(c)
    BY <1>4, JournalledKept
  <2>2. task'[w] = task[w]
    <3>1. ASSUME NEW v \in Worker, NEW r \in Run, Claim(v, r) PROVE task'[w] = task[w]
      <4>1. /\ task' = [task EXCEPT ![v] = [run |-> r, attempt |-> attempt[r] + 1]]
            /\ attempt[r] \in Nat
            /\ task \in [Worker -> Contract!Task \cup {NoTask}]
        BY <3>1 DEF Claim, Contract!Start, TypeInv, TypeOK, Contract!TypeOK, NoTask
      <4>2. CASE v = w
        <5>1. c.run = r /\ c.gen = attempt[r] + 1
          BY <1>4, <4>1, <4>2
        <5>2. c.gen <= attempt[c.run]
          BY DEF LiveCalls
        <5> QED BY <4>1, <5>1, <5>2
      <4> QED BY <4>1, <4>2
    <3>2. ASSUME NEW v \in Worker, Drops(v) PROVE task'[w] = task[w]
      BY <1>4, <3>2 DEF Drops, TypeInv, TypeOK, Contract!TypeOK, NoTask
    <3> QED BY <3>1, <3>2, TaskMoves
  <2>3. exec[w].stage = "save" /\ exec[w].step = c.step
    BY <1>4, <2>1, <2>2 DEF LiveCalls
  <2>4. CASE RetrievalStep(w) \/ LoopStep(w)
    <3>1. Stores(w)
      BY <2>3, <2>4, OwnStep
    <3>2. RunOf(w) = c.run /\ task[w].attempt = c.gen
      BY <1>4, <2>2 DEF RunOf
    <3>3. Journalled(c)'
      BY <2>3, <3>1, <3>2 DEF Stores, Journalled
    <3> QED BY <1>4, <3>3
  <2>5. ASSUME NEW v \in Worker \ {w}, RetrievalStep(v) \/ LoopStep(v)
        PROVE  exec'[w] = exec[w]
    BY <2>5, TypeRetrieval, TypeLoop DEF Working, TypeInv, TypeOK
  <2>6. ASSUME ~\E v \in Worker : RetrievalStep(v) \/ LoopStep(v)
        PROVE  exec'[w] = exec[w]
    <3>1. task[w] # NoTask /\ task'[w] # NoTask
      BY <1>4, <2>2
    <3> QED BY <2>6, <3>1, OtherSteps
  <2> QED BY <2>3, <2>4, <2>5, <2>6
<1>5. LiveCalls'
  BY <1>1, <1>3, <1>4 DEF LiveCalls
<1>6. OneLostCallPerAttempt'
  BY <1>1, JournalledKept DEF OneLostCallPerAttempt
<1>7. JournalInv'
  BY JournalStep
<1> QED BY <1>5, <1>6, <1>7

\* A crash, a take-over or a retry costs at most one paid response: _generate
\* is behind authorize_spend, and save or the end of the attempt follows it.
THEOREM OneLostCall == Spec => []OneLostCallPerAttempt
<1>1. Init => LostInv
  BY JournalInit DEF Init, LostInv, LiveCalls, OneLostCallPerAttempt
<1>2. LostInv => OneLostCallPerAttempt
  BY DEF LostInv
<1> QED BY <1>1, <1>2, LostStep, PTL DEF Spec

-----------------------------------------------------------------------------
\* The evidence of open runs

LEMMA ContextInit == Init => ContextWhileOpen
BY DEF Init, ContextWhileOpen

\* A step of the run moves its status and lets the trigger clean up.
LEMMA ContextRun ==
  ASSUME TypeInv, ContextWhileOpen, RunStep
  PROVE  ContextWhileOpen'
<1> USE DEF TypeInv, TypeOK, Contract!TypeOK, ContextWhileOpen, Terminal, Contract!Terminal,
            journal
<1>1. ASSUME NEW r \in Run, Submit(r) PROVE ContextWhileOpen'
  BY <1>1 DEF Submit, Contract!Submit
<1>2. ASSUME NEW r \in Run, Requeue(r) PROVE ContextWhileOpen'
  BY <1>2 DEF Requeue, Contract!Requeue
<1>3. ASSUME NEW r \in Run, RequestCancel(r) PROVE ContextWhileOpen'
  BY <1>3 DEF RequestCancel, Contract!RequestCancel
<1>4. ASSUME NEW r \in Run, Cancel(r) PROVE ContextWhileOpen'
  BY <1>4 DEF Cancel, Contract!Cancel, Cleanup
<1>5. ASSUME NEW w \in Worker, NEW r \in Run, Claim(w, r) PROVE ContextWhileOpen'
  BY <1>5 DEF Claim, Contract!Start
<1>6. ASSUME NEW w \in Worker, Abandon(w) PROVE ContextWhileOpen'
  BY <1>6 DEF Abandon, Contract!Abandon
<1>7. ASSUME NEW w \in Worker, NEW outcome, Finish(w, outcome) PROVE ContextWhileOpen'
  BY <1>7 DEF Finish, Contract!Decide, Contract!Latest, Cleanup
<1> QED BY <1>1, <1>2, <1>3, <1>4, <1>5, <1>6, <1>7 DEF RunStep

LEMMA ContextStep == TypeInv /\ ContextWhileOpen /\ [Next]_vars => ContextWhileOpen'
<1> SUFFICES ASSUME TypeInv, ContextWhileOpen, [Next]_vars PROVE ContextWhileOpen'
  OBVIOUS
<1>1. CASE UNCHANGED <<status, snapshot, context>>
  BY <1>1 DEF ContextWhileOpen
<1>2. ASSUME NEW w \in Worker, SaveRetrieval(w) PROVE ContextWhileOpen'
  <2>1. /\ RunOf(w) \in Run /\ status[RunOf(w)] \notin Terminal
        /\ exec[w].evidence # NoSnapshot
    BY <1>2, TaskType, SnapshotAssumption DEF SaveRetrieval, Fence, Terminal,
       Contract!Terminal, TypeInv, TypeOK, Memory
  <2>2. status' = status
    BY <1>2 DEF SaveRetrieval, runVars
  <2> QED BY <1>2, <2>1, <2>2 DEF SaveRetrieval, ContextWhileOpen, TypeInv, TypeOK
<1>3. CASE RunStep
  BY <1>3, ContextRun
<1>4. ASSUME NEW w \in Worker, RetrievalStep(w) \/ LoopStep(w), ~SaveRetrieval(w)
      PROVE  UNCHANGED <<status, snapshot, context>>
  BY <1>4 DEF RetrievalStep, LoopStep, Begin, LoadRetrieval, NoRetrieval, Retrieve, Replay,
     NotStored, RestoreExact, NoExact, RestoreSimilar, Restore, NoSimilar, Authorize, Generate,
     Save, Process, UseTools, journal, runVars
<1>5. WorldStep \/ UNCHANGED vars => UNCHANGED <<status, snapshot, context>>
  BY DEF WorldStep, Reindex, SetTooling, OtherSaves, CacheExpires, vars, journal, runVars
<1> QED BY <1>1, <1>2, <1>3, <1>4, <1>5 DEF Next

\* The raw evidence exists exactly while a retry may need it: save_retrieval
\* writes it behind the fence only, and the trigger of migration 010 removes
\* it in the statement that ends the run.
THEOREM EvidenceWhileOpen == Spec => []ContextWhileOpen
<1>1. TypeInv /\ ContextWhileOpen /\ [Next]_vars => (TypeInv /\ ContextWhileOpen)'
  BY TypeStep, ContextStep
<1> QED BY <1>1, TypeInit, ContextInit, PTL DEF Spec

-----------------------------------------------------------------------------
\* Sums over finite sets
(***************************************************************************)
(* The tokens of a log are a fold, hence a recursive function on the       *)
(* subsets of the journal.  SmallestSubset serves as the induction         *)
(* principle: a property that fails somewhere below a finite set fails at  *)
(* a smallest subset.                                                      *)
(***************************************************************************)

TokensOf(log) == MapThenSumSet(LAMBDA x : x.tokens, log)

\* g gives the sum of the weights of every subset of T, whichever element is
\* taken first.
IsSum(g, T, w) ==
  /\ g \in [SUBSET T -> Nat]
  /\ g[{}] = 0
  /\ \A A \in SUBSET T : \A x \in A : g[A] = w[x] + g[A \ {x}]

\* A nonempty family of subsets of a finite set has a minimal member.
LEMMA SmallestSubset ==
  ASSUME NEW S, IsFiniteSet(S), NEW B \in SUBSET (SUBSET S), B # {}
  PROVE  \E T \in B : \A U \in SUBSET T : U # T => U \notin B
<1> DEFINE R == StrictSubsetOrdering(S)
           F == FiniteSubsetsOf(S)
<1>1. IsWellFoundedOn(R, F) BY FS_StrictSubsetOrderingWellFounded
<1>2. F = SUBSET S BY FS_FiniteSubsetsOfFinite
<1> HIDE DEF R, F
<1>3. \E T \in B : \A U \in B : <<U, T>> \notin R
  BY <1>1, <1>2, WFMin
<1>4. ASSUME NEW T \in SUBSET S, NEW U \in SUBSET T, U # T PROVE <<U, T>> \in R
  BY <1>4 DEF R, StrictSubsetOrdering
<1> QED BY <1>3, <1>4

\* The weights of a finite set have a sum.
LEMMA SumExists ==
  ASSUME NEW S, IsFiniteSet(S), NEW w \in [S -> Nat]
  PROVE  \E g : IsSum(g, S, w)
<1> DEFINE Bad == { T \in SUBSET S : ~ \E g : IsSum(g, T, w) }
<1>1. SUFFICES ASSUME Bad # {} PROVE FALSE
  OBVIOUS
<1>2. PICK T \in Bad : \A U \in SUBSET T : U # T => U \notin Bad
  <2> HIDE DEF Bad
  <2>1. Bad \in SUBSET (SUBSET S) BY DEF Bad
  <2> QED BY <1>1, <2>1, SmallestSubset
<1>3. IsSum([A \in SUBSET {} |-> 0], {}, w)
  BY DEF IsSum
<1>4. PICK x \in T : TRUE
  BY <1>2, <1>3
<1>5. PICK g : IsSum(g, T \ {x}, w)
  BY <1>2, <1>4
<1> DEFINE h == [A \in SUBSET T |-> IF x \in A THEN w[x] + g[A \ {x}] ELSE g[A]]
<1>6. w[x] \in Nat /\ \A y \in T : w[y] \in Nat
  BY <1>2, <1>4
<1>7. \A A \in SUBSET T : A \ {x} \in SUBSET (T \ {x}) /\ (x \notin A => A \ {x} = A)
  OBVIOUS
<1>8. h \in [SUBSET T -> Nat]
  BY <1>5, <1>6, <1>7 DEF IsSum
<1>9. h[{}] = 0
  BY <1>5 DEF IsSum
<1>10. ASSUME NEW A \in SUBSET T, NEW y \in A PROVE h[A] = w[y] + h[A \ {y}]
  <2>1. CASE y = x
    BY <2>1, <1>7
  <2>2. CASE y # x /\ x \notin A
    <3>1. A \in SUBSET (T \ {x}) /\ A \ {y} \in SUBSET T /\ x \notin A \ {y}
      BY <2>2
    <3>2. g[A] = w[y] + g[A \ {y}]
      BY <3>1, <1>5 DEF IsSum
    <3> QED BY <2>2, <3>1, <3>2
  <2>3. CASE y # x /\ x \in A
    <3>1. /\ A \ {x} \in SUBSET (T \ {x}) /\ y \in A \ {x}
          /\ A \ {y} \in SUBSET T /\ x \in A \ {y}
          /\ (A \ {x}) \ {y} = (A \ {y}) \ {x}
          /\ (A \ {x}) \ {y} \in SUBSET (T \ {x})
      BY <2>3
    <3>2. g[A \ {x}] = w[y] + g[(A \ {x}) \ {y}] /\ g[(A \ {x}) \ {y}] \in Nat
      BY <3>1, <1>5 DEF IsSum
    <3>3. h[A] = w[x] + g[A \ {x}] /\ h[A \ {y}] = w[x] + g[(A \ {y}) \ {x}]
      BY <2>3, <3>1
    <3>4. h[A \ {y}] = w[x] + g[(A \ {x}) \ {y}]
      BY <3>1, <3>3
    <3>5. w[x] \in Nat /\ w[y] \in Nat
      BY <1>6
    <3> HIDE DEF h
    <3> QED BY <3>2, <3>3, <3>4, <3>5
  <2> QED BY <2>1, <2>2, <2>3
<1>11. IsSum(h, T, w)
  <2> HIDE DEF h
  <2> QED BY <1>8, <1>9, <1>10 DEF IsSum
<1> QED BY <1>2, <1>11


\* The recursive function by which the fold is defined.
SumStep(it, s) ==
  IF s = {} THEN 0
  ELSE LET x == CHOOSE y \in s : TRUE IN x.tokens + it[s \ {x}]
SumFcn(S) == CHOOSE it : it = [s \in SUBSET S |-> SumStep(it, s)]

LEMMA TokensIter ==
  ASSUME NEW S
  PROVE  TokensOf(S) = SumFcn(S)[S] /\ Log!Tokens(S) = SumFcn(S)[S]
<1>1. TokensOf(S) = SumFcn(S)[S]
  BY DEF TokensOf, MapThenSumSet, MapThenFoldSet, SumFcn, SumStep
<1>2. Log!Tokens(S) = SumFcn(S)[S]
  BY DEF Log!Tokens, Log!MapThenSumSet, Log!MapThenFoldSet, SumFcn, SumStep
<1> QED BY <1>1, <1>2

\* Whatever element the fold chooses first, it computes the sum.
LEMMA TokensAreSum ==
  ASSUME NEW S, IsFiniteSet(S), NEW w, \A e \in S : e.tokens = w[e] /\ w[e] \in Nat, 
         NEW g, IsSum(g, S, w)
  PROVE  TokensOf(S) = g[S]
<1>1. g = [s \in SUBSET S |-> SumStep(g, s)]
  <2>1. g = [s \in SUBSET S |-> g[s]]
    BY DEF IsSum
  <2>2. ASSUME NEW s \in SUBSET S PROVE g[s] = SumStep(g, s)
    <3>1. CASE s = {}
      BY <3>1 DEF IsSum, SumStep
    <3>2. CASE s # {}
      <4> DEFINE x == CHOOSE y \in s : TRUE
      <4>1. x \in s BY <3>2
      <4> HIDE DEF x
      <4>2. g[s] = w[x] + g[s \ {x}]
        BY <4>1 DEF IsSum
      <4>3. x.tokens = w[x] BY <4>1
      <4> QED BY <3>2, <4>2, <4>3 DEF SumStep, x
    <3> QED BY <3>1, <3>2
  <2> QED BY <2>1, <2>2
<1>2. SumFcn(S) = [s \in SUBSET S |-> SumStep(SumFcn(S), s)]
  BY <1>1 DEF SumFcn
<1> DEFINE f == SumFcn(S)
<1> HIDE DEF f
<1>3. f = [s \in SUBSET S |-> SumStep(f, s)]
  BY <1>2 DEF f
<1> DEFINE Bad == { s \in SUBSET S : f[s] # g[s] }
<1>4. Bad = {}
  <2> SUFFICES ASSUME Bad # {} PROVE FALSE
    OBVIOUS
  <2>1. PICK T \in Bad : \A U \in SUBSET T : U # T => U \notin Bad
    <3>1. Bad \in SUBSET (SUBSET S) OBVIOUS
    <3> HIDE DEF Bad
    <3> QED BY <3>1, SmallestSubset
  <2>2. T \in SUBSET S /\ f[T] # g[T] /\ f[T] = SumStep(f, T) /\ g[T] = SumStep(g, T)
    BY <2>1, <1>1, <1>3
  <2>3. T # {}
    BY <2>2 DEF SumStep
  <2> DEFINE x == CHOOSE y \in T : TRUE
  <2>4. x \in T BY <2>3
  <2>5. f[T] = x.tokens + f[T \ {x}] /\ g[T] = x.tokens + g[T \ {x}]
    BY <2>2, <2>3 DEF SumStep
  <2> HIDE DEF x, Bad
  <2>6. T \ {x} \in SUBSET S /\ T \ {x} \notin Bad
    BY <2>1, <2>2, <2>4
  <2>7. f[T \ {x}] = g[T \ {x}]
    BY <2>6 DEF Bad
  <2> QED BY <2>2, <2>5, <2>7
<1> QED BY <1>4, TokensIter DEF f

\* A sum of a set is a sum of its subsets.
LEMMA SumRestricted ==
  ASSUME NEW S, NEW w, NEW g, IsSum(g, S, w), NEW T \in SUBSET S
  PROVE  IsSum([A \in SUBSET T |-> g[A]], T, w)
BY DEF IsSum

\* What a log has used: nothing at first, and more with every response.
LEMMA TokensFacts ==
  ASSUME NEW S, IsFiniteSet(S), \A e \in S : e.tokens \in Nat
  PROVE  /\ TokensOf({}) = 0
         /\ \A T \in SUBSET S : TokensOf(T) \in Nat
         /\ \A T \in SUBSET S : \A x \in T : TokensOf(T) = x.tokens + TokensOf(T \ {x})
<1> DEFINE w == [e \in S |-> e.tokens]
<1>1. w \in [S -> Nat] /\ \A e \in S : w[e] = e.tokens
  OBVIOUS
<1> HIDE DEF w
<1>2. PICK g : IsSum(g, S, w)
  BY <1>1, SumExists
<1>3. ASSUME NEW T \in SUBSET S PROVE TokensOf(T) = g[T]
  <2> DEFINE h == [A \in SUBSET T |-> g[A]]
  <2>1. IsSum(h, T, w)
    BY <1>2, SumRestricted
  <2>2. IsFiniteSet(T)
    BY FS_Subset
  <2>3. h[T] = g[T]
    OBVIOUS
  <2> HIDE DEF h
  <2>4. \A e \in T : e.tokens = w[e] /\ w[e] \in Nat
    BY <1>1
  <2>5. TokensOf(T) = h[T]
    BY <2>1, <2>2, <2>4, TokensAreSum
  <2> QED BY <2>3, <2>5
<1>4. {} \in SUBSET S /\ \A T \in SUBSET S : \A x \in T : T \ {x} \in SUBSET S /\ x \in S
  OBVIOUS
<1> QED BY <1>1, <1>2, <1>3, <1>4 DEF IsSum

-----------------------------------------------------------------------------
\* What a worker remembers

\* The steps of a run are numbered from zero without a gap or a repetition.
Numbered ==
  /\ IsFiniteSet(steps)
  /\ \A x, y \in steps : x.run = y.run /\ x.step = y.step => x = y
  /\ \A x \in steps : \A k \in 0 .. (x.step - 1) :
       \E y \in steps : y.run = x.run /\ y.step = k

Early == {"idle", "begin", "retrieve", "query", "snapshot"}
Going == {"loop", "answered", "tools"} \cup Unstored

\* What holds of a worker's memory whether or not it passes the fence.
Sober(w) ==
  /\ exec[w].stage \in Early => exec[w].step = 0 /\ exec[w].total = 0
  /\ exec[w].stage \in {"exact", "similar"} => exec[w].step = 0
  /\ exec[w].stage \in Unstored => exec[w].step < MaxSteps
  /\ exec[w].stage \in Going => exec[w].total < MaxTokens
  /\ exec[w].stage = "tools" => exec[w].answer.finish = "tool_call"
  /\ exec[w].stage = "save" => exec[w].answer \in Response

\* The responses whose tokens a worker has counted.
Past(w) == IF exec[w].stage \in Counted THEN Before(w) \cup Stored(w) ELSE Before(w)

\* What a worker that passes the fence sees is the whole of its run's journal.
View(w) ==
  /\ exec[w].evidence = snapshot[RunOf(w)]
  /\ exec[w].total = TokensOf(Past(w))
  /\ exec[w].stage \in Counted \cup {"answered"} =>
       \E x \in Stored(w) : exec[w].answer = [finish |-> x.finish, tokens |-> x.tokens]
  /\ Cardinality(Before(w)) = exec[w].step
  /\ \A k \in 0 .. (exec[w].step - 1) : \E x \in Before(w) : x.step = k
  /\ \A x \in Before(w) : x.finish = "tool_call"

Seen(w) == Fence(w) /\ exec[w].stage \in InLoop

MemoryInv ==
  JournalInv /\ Numbered /\ \A w \in Worker : Sober(w) /\ (Seen(w) => View(w))

\* Every cached answer was given to a journalled question, or to another run.
CacheKnown ==
  \A s \in cache : \E y \in Log!Answers :
    y.question = s.question /\ y.evidence = s.evidence /\ y.by = s.by /\ y.gen = s.gen

LEMMA SoberOwn ==
  ASSUME TypeInv, NEW w \in Worker, Sober(w), RetrievalStep(w) \/ LoopStep(w)
  PROVE  Sober(w)'
<1> USE DEF TypeInv, TypeOK, Memory, At, Goto, Sober, Early, Going, Unstored
<1>1. CASE RetrievalStep(w)
  BY <1>1, LimitAssumption
     DEF RetrievalStep, Begin, LoadRetrieval, NoRetrieval, Retrieve, SaveRetrieval
<1>2. CASE Replay(w)
  BY <1>2 DEF Replay, Looping
<1>3. CASE NotStored(w)
  BY <1>3 DEF NotStored, Looping
<1>4. CASE RestoreExact(w) \/ RestoreSimilar(w)
  BY <1>4 DEF RestoreExact, RestoreSimilar, Restore
<1>5. CASE NoExact(w) \/ NoSimilar(w) \/ Authorize(w)
  BY <1>5 DEF NoExact, NoSimilar, Authorize
<1>6. ASSUME NEW response \in Response, Generate(w, response) PROVE Sober(w)'
  BY <1>6 DEF Generate
<1>7. CASE Save(w)
  BY <1>7 DEF Save
<1>8. CASE Process(w)
  BY <1>8 DEF Process
<1>9. CASE UseTools(w)
  BY <1>9 DEF UseTools
<1> QED BY <1>1, <1>2, <1>3, <1>4, <1>5, <1>6, <1>7, <1>8, <1>9 DEF LoopStep

LEMMA SoberStep ==
  ASSUME TypeInv, [Next]_vars, NEW w \in Worker, Sober(w)
  PROVE  Sober(w)'
<1>1. CASE RetrievalStep(w) \/ LoopStep(w)
  BY <1>1, SoberOwn
<1>2. CASE exec'[w] = exec[w]
  BY <1>2 DEF Sober
<1>3. ASSUME NEW v \in Worker \ {w}, RetrievalStep(v) \/ LoopStep(v)
      PROVE  exec'[w] = exec[w]
  BY <1>3, TypeRetrieval, TypeLoop DEF Working, TypeInv, TypeOK
<1>4. CASE exec'[w].stage \in {"idle", "begin"} /\ exec'[w].step = 0 /\ exec'[w].total = 0
  BY <1>4 DEF Sober, Early, Going, Unstored
<1> QED BY <1>1, <1>2, <1>3, <1>4, OtherSteps

\* Whoever stores a step has the whole journal of the run before it.
LEMMA NumberedStep ==
  ASSUME MemoryInv, [Next]_vars
  PROVE  Numbered'
<1> USE DEF MemoryInv, JournalInv
<1>1. CASE UNCHANGED steps
  BY <1>1 DEF Numbered
<1>2. ASSUME NEW w \in Worker, Stores(w) PROVE Numbered'
  <2>1. Stored(w) = {}
    BY <1>2 DEF Stores, Unstored, NoConflict
  <2>2. \A k \in 0 .. (exec[w].step - 1) : \E y \in Before(w) : y.step = k
    BY <1>2 DEF Stores, Unstored, Seen, InLoop, View
  <2>3. PICK x : steps' = steps \cup {x} /\ x.run = RunOf(w) /\ x.step = exec[w].step
    BY <1>2 DEF Stores
  <2>4. IsFiniteSet(steps')
    BY <2>3, FS_AddElement DEF Numbered
  <2>5. \A y \in steps : ~(y.run = x.run /\ y.step = x.step)
    BY <2>1, <2>3 DEF Stored
  <2>6. \A k \in 0 .. (x.step - 1) : \E y \in steps : y.run = x.run /\ y.step = k
    BY <2>2, <2>3 DEF Before
  <2>7. \A y \in steps : \A k \in 0 .. (y.step - 1) :
          \E z \in steps' : z.run = y.run /\ z.step = k
    BY <2>3 DEF Numbered
  <2>8. \A y, z \in steps' : y.run = z.run /\ y.step = z.step => y = z
    BY <2>3, <2>5 DEF Numbered
  <2>9. \A y \in steps' : \A k \in 0 .. (y.step - 1) :
          \E z \in steps' : z.run = y.run /\ z.step = k
    BY <2>3, <2>6, <2>7
  <2> QED BY <2>4, <2>8, <2>9 DEF Numbered
<1> QED BY <1>1, <1>2, OwnStep, OtherSteps

\* The responses before a step are finitely many and have tokens.
LEMMA LogTypes ==
  ASSUME TypeInv, Numbered, NEW T \in SUBSET steps
  PROVE  IsFiniteSet(T) /\ \A x \in T : x.tokens \in Nat /\ x.step \in Nat
BY FS_Subset DEF TypeInv, TypeOK, Numbered, Row

\* The step a worker has stored is the only one of its number.
LEMMA StoredOne ==
  ASSUME TypeInv, Numbered, NEW w \in Worker, NEW x \in Stored(w)
  PROVE  /\ Before(w) \cup Stored(w) = Before(w) \cup {x} /\ x \notin Before(w)
         /\ TokensOf(Before(w) \cup Stored(w)) = x.tokens + TokensOf(Before(w))
         /\ Cardinality(Before(w) \cup Stored(w)) = Cardinality(Before(w)) + 1
<1>1. Stored(w) = {x}
  BY DEF Stored, Numbered
<1>2. Before(w) \cup {x} \in SUBSET steps
  BY DEF Before, Stored
<1>3. x \notin Before(w) /\ (Before(w) \cup {x}) \ {x} = Before(w)
  <2>1. x.step = exec[w].step /\ exec[w].step \in Nat
    BY DEF Stored, TypeInv, TypeOK, Memory
  <2> QED BY <2>1 DEF Before
<1>4. TokensOf(Before(w) \cup {x}) = x.tokens + TokensOf(Before(w))
  <2> DEFINE S == Before(w) \cup {x}
  <2>1. IsFiniteSet(S) /\ (\A y \in S : y.tokens \in Nat) /\ x \in S /\ S \ {x} = Before(w)
    BY <1>2, <1>3, LogTypes
  <2> HIDE DEF S
  <2>2. TokensOf(S) = x.tokens + TokensOf(S \ {x})
    BY <2>1, TokensFacts
  <2> QED BY <2>1, <2>2 DEF S
<1>5. IsFiniteSet(Before(w))
  BY LogTypes DEF Before
<1>6. Cardinality(Before(w) \cup {x}) = Cardinality(Before(w)) + 1
  BY <1>3, <1>5, FS_AddElement
<1> QED BY <1>1, <1>3, <1>4, <1>6

\* A worker that begins the loop has used nothing of an empty journal.
LEMMA ViewEntered ==
  ASSUME TypeInv', NEW w \in Worker, exec'[w].step = 0, exec'[w].total = 0,
         exec'[w].stage = "loop", exec'[w].evidence = snapshot'[RunOf(w)']
  PROVE  View(w)'
<1>1. Before(w)' = {}
  BY DEF Before, TypeInv, TypeOK, Row
<1>2. TokensOf({}) = 0 /\ Cardinality({}) = 0
  BY FS_EmptySet, TokensFacts
<1>3. Past(w)' = {}
  BY <1>1 DEF Past, Counted
<1> QED BY <1>1, <1>2, <1>3 DEF View, Counted

\* A step between load and insert, or one that finds an earlier answer.
LEMMA ViewCarried ==
  ASSUME NEW w \in Worker, View(w), UNCHANGED <<steps, snapshot>>, RunOf(w)' = RunOf(w),
         exec'[w].step = exec[w].step, exec'[w].total = exec[w].total,
         exec'[w].evidence = exec[w].evidence,
         exec[w].stage \notin Counted, exec'[w].stage \notin Counted,
         exec'[w].stage = "answered" =>
           \E x \in Stored(w) : exec'[w].answer = [finish |-> x.finish, tokens |-> x.tokens]
  PROVE  View(w)'
<1>1. Before(w)' = Before(w) /\ Stored(w)' = Stored(w)
  BY DEF Before, Stored
<1>2. Past(w)' = Past(w)
  BY <1>1 DEF Past
<1> QED BY <1>1, <1>2 DEF View

LEMMA ViewStored ==
  ASSUME TypeInv, TypeInv', NEW w \in Worker, View(w), Stores(w), RunOf(w)' = RunOf(w)
  PROVE  View(w)'
<1>1. PICK x : /\ steps' = steps \cup {x} /\ x.run = RunOf(w) /\ x.step = exec[w].step
               /\ exec'[w].answer = [finish |-> x.finish, tokens |-> x.tokens]
  BY DEF Stores
<1>2. /\ exec'[w].step = exec[w].step /\ exec'[w].total = exec[w].total
      /\ exec'[w].evidence = exec[w].evidence /\ snapshot' = snapshot
      /\ exec[w].stage \notin Counted /\ exec'[w].stage = "answered"
  BY DEF Stores, Unstored, Counted
<1>3. exec[w].step \in Nat
  BY DEF TypeInv, TypeOK, Memory
<1>4. Before(w)' = Before(w)
  BY <1>1, <1>2, <1>3 DEF Before
<1>5. Past(w)' = Past(w)
  BY <1>2, <1>4 DEF Past, Counted
<1>6. x \in Stored(w)'
  BY <1>1, <1>2 DEF Stored
<1> QED BY <1>1, <1>2, <1>4, <1>5, <1>6 DEF View

LEMMA ViewProcessed ==
  ASSUME TypeInv, Numbered, NEW w \in Worker, View(w), Process(w), RunOf(w)' = RunOf(w)
  PROVE  View(w)'
<1>1. /\ steps' = steps /\ snapshot' = snapshot
      /\ exec[w].stage = "answered" /\ exec'[w].stage \in Counted
      /\ exec'[w].total = exec[w].total + exec[w].answer.tokens
      /\ exec'[w].step = exec[w].step /\ exec'[w].evidence = exec[w].evidence
      /\ exec'[w].answer = exec[w].answer
  BY DEF Process, At, journal, Counted, TypeInv, TypeOK, Memory
<1>2. Before(w)' = Before(w) /\ Stored(w)' = Stored(w)
  BY <1>1 DEF Before, Stored
<1>3. PICK x \in Stored(w) : exec[w].answer = [finish |-> x.finish, tokens |-> x.tokens]
  BY <1>1 DEF View
<1>4. exec[w].total = TokensOf(Before(w)) /\ exec[w].answer.tokens = x.tokens
  BY <1>1, <1>3 DEF View, Past, Counted
<1>5. TokensOf(Before(w)) \in Nat /\ x.tokens \in Nat
  BY <1>3, <1>4 DEF TypeInv, TypeOK, Memory, Answer
<1>6. exec'[w].total = TokensOf(Past(w)')
  BY <1>1, <1>2, <1>4, <1>5, StoredOne DEF Past
<1> QED BY <1>1, <1>2, <1>3, <1>6 DEF View

LEMMA ViewNext ==
  ASSUME TypeInv, Numbered, NEW w \in Worker, View(w), Sober(w), UseTools(w),
         RunOf(w)' = RunOf(w)
  PROVE  View(w)'
<1>1. /\ steps' = steps /\ snapshot' = snapshot
      /\ exec[w].stage = "tools" /\ exec'[w].stage = "loop"
      /\ exec'[w].step = exec[w].step + 1 /\ exec'[w].total = exec[w].total
      /\ exec'[w].evidence = exec[w].evidence
  BY DEF UseTools, At, journal, TypeInv, TypeOK, Memory
<1>2. exec[w].step \in Nat /\ \A x \in steps : x.step \in Nat
  BY DEF TypeInv, TypeOK, Memory, Row
<1>3. Before(w)' = Before(w) \cup Stored(w)
  BY <1>1, <1>2 DEF Before, Stored
<1>4. PICK x \in Stored(w) : exec[w].answer = [finish |-> x.finish, tokens |-> x.tokens]
  BY <1>1 DEF View, Counted
<1>5. x.finish = "tool_call" /\ x.step = exec[w].step
  BY <1>1, <1>4 DEF Sober, Stored
<1>6. Past(w)' = Before(w)' /\ Past(w) = Before(w) \cup Stored(w)
  BY <1>1 DEF Past, Counted
<1>7. Before(w)' = Before(w) \cup {x} /\ Cardinality(Before(w)') = exec'[w].step
  BY <1>1, <1>3, <1>4, StoredOne DEF View
<1>8. \A k \in 0 .. (exec'[w].step - 1) : \E y \in Before(w)' : y.step = k
  BY <1>1, <1>2, <1>5, <1>7 DEF View
<1>9. \A y \in Before(w)' : y.finish = "tool_call"
  BY <1>5, <1>7 DEF View
<1> QED BY <1>1, <1>3, <1>6, <1>7, <1>8, <1>9 DEF View, Counted

LEMMA ViewOwn ==
  ASSUME MemoryInv, TypeInv', NEW w \in Worker, RetrievalStep(w) \/ LoopStep(w),
         Fence(w), RunOf(w)' = RunOf(w), exec'[w].stage \in InLoop
  PROVE  View(w)'
<1> USE DEF MemoryInv, JournalInv
<1>0. RunOf(w) \in Run /\ exec[w] \in Memory
  BY TaskType DEF Fence, TypeInv, TypeOK
<1>1. CASE LoadRetrieval(w) \/ SaveRetrieval(w)
  <2>1. /\ exec'[w].step = 0 /\ exec'[w].total = 0 /\ exec'[w].stage = "loop"
        /\ exec'[w].evidence = snapshot'[RunOf(w)]
    BY <1>0, <1>1 DEF LoadRetrieval, SaveRetrieval, Sober, Early, At, Goto, journal, TypeInv,
       TypeOK, Memory
  <2> QED BY <2>1, ViewEntered
<1>2. CASE RetrievalStep(w) /\ ~(LoadRetrieval(w) \/ SaveRetrieval(w))
  <2>1. exec'[w].stage \notin InLoop
    BY <1>0, <1>2 DEF RetrievalStep, Begin, NoRetrieval, Retrieve, Goto, TypeInv, TypeOK,
       Memory, InLoop
  <2> QED BY <2>1
<1>3. CASE LoopStep(w)
  <2>1. View(w)
    BY <1>3 DEF Seen, InLoop, LoopStep, Replay, NotStored, Looping, RestoreExact, NoExact,
       RestoreSimilar, NoSimilar, Authorize, Generate, Save, Process, UseTools, At
  <2>2. CASE Replay(w)
    <3>1. PICK x \in Stored(w) :
            exec' = [exec EXCEPT ![w].stage = "answered",
                                 ![w].answer = [finish |-> x.finish, tokens |-> x.tokens]]
      BY <2>2 DEF Replay
    <3>2. /\ UNCHANGED <<steps, snapshot>> /\ exec[w].stage = "loop"
          /\ exec'[w].stage = "answered"
          /\ exec'[w].answer = [finish |-> x.finish, tokens |-> x.tokens]
          /\ exec'[w].step = exec[w].step /\ exec'[w].total = exec[w].total
          /\ exec'[w].evidence = exec[w].evidence
      BY <1>0, <2>2, <3>1 DEF Replay, Looping, At, journal, TypeInv, TypeOK, Memory
    <3> QED BY <2>1, <3>2, ViewCarried DEF Counted
  <2>3. CASE NotStored(w) \/ NoExact(w) \/ NoSimilar(w) \/ Authorize(w)
    <3>1. /\ UNCHANGED <<steps, snapshot>> /\ exec[w].stage \notin Counted
          /\ exec'[w].stage \notin Counted \cup {"answered"}
          /\ exec'[w].step = exec[w].step /\ exec'[w].total = exec[w].total
          /\ exec'[w].evidence = exec[w].evidence
      BY <1>0, <2>3 DEF NotStored, NoExact, NoSimilar, Authorize, Looping, At, Goto, journal,
         TypeInv, TypeOK, Memory, Counted
    <3> QED BY <2>1, <3>1, ViewCarried
  <2>4. ASSUME NEW response \in Response, Generate(w, response) PROVE View(w)'
    <3>1. /\ UNCHANGED <<steps, snapshot>> /\ exec[w].stage \notin Counted
          /\ exec'[w].stage \notin Counted \cup {"answered"}
          /\ exec'[w].step = exec[w].step /\ exec'[w].total = exec[w].total
          /\ exec'[w].evidence = exec[w].evidence
      BY <1>0, <2>4 DEF Generate, At, journal, TypeInv, TypeOK, Memory, Counted
    <3> QED BY <2>1, <3>1, ViewCarried
  <2>5. CASE RestoreExact(w) \/ RestoreSimilar(w)
    <3>1. PICK s \in cache : Restore(w, s)
      BY <2>5 DEF RestoreExact, RestoreSimilar, Exact, Close
    <3>2. Stores(w)
      BY <2>5, <3>1, RestoreStores DEF RestoreExact, RestoreSimilar, At
    <3> QED BY <2>1, <3>2, ViewStored
  <2>6. CASE Save(w)
    BY <2>1, <2>6, SaveStores, ViewStored
  <2>7. CASE Process(w)
    BY <2>1, <2>7, ViewProcessed
  <2>8. CASE UseTools(w)
    BY <2>1, <2>8, ViewNext
  <2> QED BY <1>3, <2>2, <2>3, <2>4, <2>5, <2>6, <2>7, <2>8 DEF LoopStep
<1> QED BY <1>1, <1>2, <1>3

LEMMA ViewStep ==
  ASSUME MemoryInv, [Next]_vars, NEW w \in Worker, Seen(w)'
  PROVE  View(w)'
<1> USE DEF MemoryInv, JournalInv
<1>0. TypeInv'
  BY TypeStep
<1>1. CASE \E r \in Run : Claim(w, r)
  BY <1>1 DEF Claim, Idle, TypeInv, TypeOK, Seen, InLoop
<1>2. CASE Fence(w) /\ task'[w] = task[w] /\ RunOf(w)' = RunOf(w)
  <2>1. CASE RetrievalStep(w) \/ LoopStep(w)
    BY <1>0, <1>2, <2>1, ViewOwn DEF Seen
  <2>2. ASSUME exec'[w] = exec[w], Stored(w)' = Stored(w), Before(w)' = Before(w),
               snapshot'[RunOf(w)] = snapshot[RunOf(w)]
        PROVE  View(w)'
    <3>1. View(w) /\ Past(w)' = Past(w)
      BY <1>2, <2>2 DEF Seen, Past
    <3> QED BY <1>2, <2>2, <3>1 DEF View
  <2>3. ASSUME NEW v \in Worker \ {w}, RetrievalStep(v) \/ LoopStep(v)
        PROVE  View(w)'
    BY <1>2, <2>2, <2>3, OthersStore
  <2>4. CASE ~\E v \in Worker : RetrievalStep(v) \/ LoopStep(v)
    <3>1. exec'[w] = exec[w] /\ UNCHANGED <<steps, snapshot>>
      BY <2>4, OtherSteps DEF Seen, InLoop
    <3>2. Stored(w)' = Stored(w) /\ Before(w)' = Before(w)
      BY <1>2, <3>1 DEF Stored, Before
    <3> QED BY <2>2, <3>1, <3>2
  <2> QED BY <2>1, <2>3, <2>4
<1> QED BY <1>1, <1>2, FenceKept DEF Seen

LEMMA MemoryInit == Init => MemoryInv
<1> SUFFICES ASSUME Init PROVE MemoryInv
  OBVIOUS
<1>1. JournalInv
  BY JournalInit
<1>2. Numbered
  BY FS_EmptySet DEF Init, Numbered
<1>3. \A w \in Worker : exec[w] = Idle
  BY DEF Init
<1>4. \A w \in Worker : Sober(w) /\ ~Seen(w)
  BY <1>3 DEF Idle, Sober, Seen, Early, Going, Unstored, InLoop
<1> QED BY <1>1, <1>2, <1>4 DEF MemoryInv

LEMMA MemoryStep == MemoryInv /\ [Next]_vars => MemoryInv'
<1> SUFFICES ASSUME MemoryInv, [Next]_vars PROVE MemoryInv'
  OBVIOUS
<1>1. JournalInv' /\ Numbered'
  BY JournalStep, NumberedStep DEF MemoryInv
<1>2. ASSUME NEW w \in Worker PROVE Sober(w)' /\ (Seen(w)' => View(w)')
  BY <1>2, SoberStep, ViewStep DEF MemoryInv, JournalInv
<1> QED BY <1>1, <1>2 DEF MemoryInv

\* Whatever attempt wrote which part, the executor that passes the fence
\* (executable_run) has in memory what the journal and the snapshot say: the
\* evidence, the tokens used so far, the response whose tools it calls.
THEOREM MemoryIsJournal == Spec => []MemoryMatchesJournal
<1>1. MemoryInv => MemoryMatchesJournal
  <2> SUFFICES ASSUME MemoryInv, NEW w \in Worker, Fence(w), exec[w].stage \in InLoop
               PROVE  View(w)
    BY DEF MemoryMatchesJournal, View, TokensOf, Past
  <2> QED BY DEF MemoryInv, Seen
<1> QED BY <1>1, MemoryInit, MemoryStep, PTL DEF Spec

-----------------------------------------------------------------------------
\* The journal as the contract's log

\* The contract counts with the same operator.
LEMMA LogCardinality ==
  ASSUME NEW S
  PROVE  Log!Cardinality(S) = Cardinality(S)
BY DEF Log!Cardinality, Cardinality

\* With no row of its step stored, a worker's past is the whole log of its run.
LEMMA WholeLog ==
  ASSUME MemoryInv, NEW w \in Worker, Fence(w), exec[w].stage \in Unstored
  PROVE  Log!Log(RunOf(w)) = Before(w) /\ Stored(w) = {}
<1> USE DEF MemoryInv, JournalInv
<1>1. Stored(w) = {}
  BY DEF NoConflict, Unstored
<1>2. ASSUME NEW x \in steps, x.run = RunOf(w), ~(x.step < exec[w].step) PROVE FALSE
  <2>1. x.step \in Nat /\ exec[w].step \in Nat
    BY DEF TypeInv, TypeOK, Row, Memory
  <2>2. x.step # exec[w].step
    BY <1>1, <1>2 DEF Stored
  <2>3. exec[w].step \in 0 .. (x.step - 1)
    BY <1>2, <2>1, <2>2
  <2>4. \E y \in steps : y.run = RunOf(w) /\ y.step = exec[w].step
    BY <1>2, <2>3 DEF Numbered
  <2> QED BY <1>1, <2>4 DEF Stored
<1> QED BY <1>1, <1>2 DEF Before, Log!Log

\* A worker between load and insert may let the log grow by the step it is at.
LEMMA Grows ==
  ASSUME MemoryInv, NEW w \in Worker, Fence(w), exec[w].stage \in Unstored
  PROVE  /\ Log!Growing(RunOf(w)) /\ Log!Next0(RunOf(w)) = exec[w].step
         /\ exec[w].evidence = snapshot[RunOf(w)]
<1> USE DEF MemoryInv, JournalInv
<1> DEFINE r == RunOf(w)
<1>1. View(w) /\ Sober(w) /\ exec[w] \in Memory /\ r \in Run
  BY TaskType DEF Seen, InLoop, Unstored, TypeInv, TypeOK, Fence
<1>2. Log!Log(r) = Before(w)
  BY WholeLog
<1>3. Log!Next0(r) = exec[w].step /\ exec[w].step < MaxSteps
  <2>1. Cardinality(Before(w)) = exec[w].step
    BY <1>1 DEF View
  <2>2. exec[w].step < MaxSteps
    BY <1>1 DEF Sober, Unstored
  <2>3. Log!Next0(r) = Cardinality(Before(w))
    BY <1>2, LogCardinality DEF Log!Next0
  <2> QED BY <2>1, <2>2, <2>3
<1>4. Log!Tokens(Log!Log(r)) < MaxTokens
  <2>1. exec[w].total = TokensOf(Before(w))
    BY <1>1 DEF View, Past, Counted, Unstored
  <2>2. Log!Tokens(Before(w)) = TokensOf(Before(w))
    BY TokensIter
  <2>3. exec[w].total < MaxTokens
    BY <1>1 DEF Sober, Going
  <2> QED BY <1>2, <2>1, <2>2, <2>3
<1>5. snapshot[r] # NoSnapshot
  BY <1>1, SnapshotAssumption DEF View, Memory
<1>6. \A x \in Log!Log(r) : x.finish = "tool_call"
  BY <1>1, <1>2 DEF View
<1>7. r \notin { q \in Run : status[q] \in Terminal }
  BY DEF Fence, Terminal, Contract!Terminal
<1>8. Log!Growing(r)
  BY <1>3, <1>4, <1>5, <1>6, <1>7 DEF Log!Growing
<1> QED BY <1>1, <1>3, <1>8 DEF View

\* Answers are never taken back.
LEMMA AnswersKept ==
  ASSUME steps \subseteq steps', UNCHANGED question
  PROVE  Log!Answers \subseteq Log!Answers'
BY DEF Log!Answers, Log!Reusable

\* No step changes a question or loses a row.
LEMMA Kept ==
  ASSUME TypeInv, [Next]_vars
  PROVE  UNCHANGED question /\ steps \subseteq steps'
<1>1. UNCHANGED question
  <2>1. CASE RunStep
    BY <2>1 DEF RunStep, Submit, Requeue, RequestCancel, Cancel, Claim, Abandon, Finish, world
  <2>2. CASE WorldStep
    BY <2>2 DEF WorldStep, Reindex, SetTooling, OtherSaves, CacheExpires, world
  <2>3. CASE \E w \in Worker : RetrievalStep(w) \/ LoopStep(w)
    BY <2>3, TypeRetrieval, TypeLoop DEF Working, world
  <2> QED BY <2>1, <2>2, <2>3 DEF Next, vars, world
<1>2. steps \subseteq steps'
  BY OwnStep, OtherSteps DEF Stores
<1> QED BY <1>1, <1>2

\* What a response puts into the cache answers the question of its run.
LEMMA CachedKnown ==
  ASSUME MemoryInv, NEW w \in Worker, Save(w), Cacheable(w), NEW s \in Cached(w), s \notin cache
  PROVE  \E y \in Log!Answers' :
           y.question = s.question /\ y.evidence = s.evidence /\ y.by = s.by /\ y.gen = s.gen
<1> DEFINE x == [run |-> RunOf(w), step |-> exec[w].step, finish |-> exec[w].answer.finish,
                 tokens |-> exec[w].answer.tokens, evidence |-> exec[w].evidence,
                 tooled |-> exec[w].tooled, cached |-> FALSE, by |-> RunOf(w),
                 gen |-> task[w].attempt]
           y == [question |-> question[RunOf(w)], evidence |-> exec[w].evidence,
                 by |-> RunOf(w), gen |-> task[w].attempt]
<1>1. s = [question |-> question[RunOf(w)], evidence |-> exec[w].evidence,
           by |-> RunOf(w), gen |-> task[w].attempt, vector |-> exec[w].vector]
  BY DEF Cached
<1>2. x \in steps' /\ question' = question
  BY DEF Save, world
<1>3. Log!Reusable(x)
  BY DEF Log!Reusable, Cacheable
<1>4. /\ x.run = RunOf(w) /\ x.evidence = exec[w].evidence /\ x.by = RunOf(w)
      /\ x.gen = task[w].attempt
  OBVIOUS
<1> HIDE DEF x
<1>5. [question |-> question[x.run], evidence |-> x.evidence, by |-> x.by, gen |-> x.gen]
        \in Log!Answers'
  BY <1>2, <1>3 DEF Log!Answers, Log!Reusable
<1>6. y \in Log!Answers'
  BY <1>4, <1>5
<1> QED BY <1>1, <1>6

LEMMA CacheStep ==
  ASSUME MemoryInv, CacheKnown, [Next]_vars
  PROVE  CacheKnown'
<1> USE DEF MemoryInv, JournalInv
<1>1. Log!Answers \subseteq Log!Answers'
  BY Kept, AnswersKept
<1>2. ASSUME cache' \subseteq cache PROVE CacheKnown'
  BY <1>1, <1>2 DEF CacheKnown
<1>3. ASSUME NEW s \in OtherAnswers, OtherSaves(s) PROVE CacheKnown'
  <2>1. [question |-> s.question, evidence |-> s.evidence, by |-> s.by, gen |-> s.gen]
          \in Log!Answers'
    BY DEF Log!Answers
  <2>2. cache' \subseteq cache \cup {s}
    BY <1>3 DEF OtherSaves
  <2>3. \E y \in Log!Answers' : /\ y.question = s.question /\ y.evidence = s.evidence
                                /\ y.by = s.by /\ y.gen = s.gen
    BY <2>1
  <2> QED BY <1>1, <2>2, <2>3 DEF CacheKnown
<1>4. ASSUME NEW w \in Worker, Save(w), Cacheable(w) PROVE CacheKnown'
  <2>1. cache' = Cached(w)
    BY <1>4 DEF Save
  <2> QED BY <1>1, <1>4, <2>1, CachedKnown DEF CacheKnown
<1>5. CASE UNCHANGED cache
  BY <1>2, <1>5
<1>6. CASE RunStep \/ UNCHANGED vars
  BY <1>5, <1>6 DEF RunStep, Submit, Requeue, RequestCancel, Cancel, Claim, Abandon, Finish, vars
<1>7. ASSUME NEW w \in Worker, RetrievalStep(w) PROVE CacheKnown'
  BY <1>5, <1>7 DEF RetrievalStep, Begin, LoadRetrieval, NoRetrieval, Retrieve, SaveRetrieval
<1>8. ASSUME NEW w \in Worker, LoopStep(w), ~(Save(w) /\ Cacheable(w)) PROVE CacheKnown'
  BY <1>5, <1>8 DEF LoopStep, Replay, NotStored, RestoreExact, NoExact, RestoreSimilar, Restore,
     NoSimilar, Authorize, Generate, Save, Process, UseTools
<1>9. ASSUME WorldStep, ~\E s \in OtherAnswers : OtherSaves(s) PROVE CacheKnown'
  <2>1. cache' \subseteq cache
    BY <1>9 DEF WorldStep, Reindex, SetTooling, CacheExpires
  <2> QED BY <1>2, <2>1
<1> QED BY <1>3, <1>4, <1>6, <1>7, <1>8, <1>9 DEF Next

\* Which runs are finished, and which steps are paid for.
Shut == { r \in Run : status[r] \in Terminal }
Paid == { <<k.run, k.step>> : k \in { l \in ledger : l.unit = "step" } }

\* A step that changes nothing the contract can see.
LEMMA Stutters ==
  ASSUME UNCHANGED <<question, steps, snapshot>>, Paid' = Paid, Shut' = Shut
  PROVE  [Log!Next]_(Log!vars)
BY DEF Log!vars, Paid, Shut

\* A finished run stays finished; a step of the run finishes at most one.
LEMMA Closes ==
  ASSUME TypeInv, RunStep
  PROVE  Shut' = Shut \/ \E r \in Run : Shut' = Shut \cup {r}
<1> USE DEF TypeInv, TypeOK, Contract!TypeOK, Shut, Terminal, Contract!Terminal
<1>1. ASSUME NEW r \in Run, Submit(r) \/ Requeue(r) \/ RequestCancel(r) PROVE Shut' = Shut
  BY <1>1 DEF Submit, Requeue, RequestCancel, Contract!Submit, Contract!Requeue,
     Contract!RequestCancel
<1>2. ASSUME NEW r \in Run, Cancel(r) PROVE Shut' = Shut \cup {r}
  BY <1>2 DEF Cancel, Contract!Cancel
<1>3. ASSUME NEW w \in Worker, NEW r \in Run, Claim(w, r) PROVE Shut' = Shut
  BY <1>3 DEF Claim, Contract!Start
<1>4. ASSUME NEW w \in Worker, Abandon(w) PROVE Shut' = Shut
  BY <1>4 DEF Abandon, Contract!Abandon
<1>5. ASSUME NEW w \in Worker, NEW outcome, Finish(w, outcome)
      PROVE  Shut' = Shut \/ \E r \in Run : Shut' = Shut \cup {r}
  <2>1. PICK r \in Run : status[r] = "running" /\ status' = [status EXCEPT ![r] = outcome]
    BY <1>5 DEF Finish, Contract!Decide, Contract!Latest
  <2>2. CASE outcome \in Terminal
    <3>1. Shut' = Shut \cup {r}
      BY <2>1, <2>2
    <3> QED BY <3>1
  <2>3. CASE outcome \notin Terminal
    BY <2>1, <2>3
  <2> QED BY <2>2, <2>3
<1> QED BY <1>1, <1>2, <1>3, <1>4, <1>5 DEF RunStep

LEMMA RunRefines ==
  ASSUME TypeInv, RunStep
  PROVE  [Log!Next]_(Log!vars)
<1>1. UNCHANGED <<question, steps, snapshot, ledger>>
  BY DEF RunStep, Submit, Requeue, RequestCancel, Cancel, Claim, Abandon, Finish, world, journal
<1>2. Paid' = Paid
  BY <1>1 DEF Paid
<1>3. ASSUME NEW r \in Run, Shut' = Shut \cup {r} PROVE Log!Next
  <2>1. Log!Close(r)
    BY <1>1, <1>2, <1>3 DEF Log!Close, Shut, Paid
  <2> QED BY <2>1 DEF Log!Next
<1> QED BY <1>1, <1>2, <1>3, Closes, Stutters

LEMMA WorldRefines ==
  ASSUME WorldStep \/ UNCHANGED vars
  PROVE  [Log!Next]_(Log!vars)
<1>1. UNCHANGED <<question, steps, snapshot, ledger, status>>
  BY DEF WorldStep, Reindex, SetTooling, OtherSaves, CacheExpires, vars, world, journal, runVars
<1>2. Paid' = Paid /\ Shut' = Shut
  BY <1>1 DEF Paid, Shut
<1> QED BY <1>1, <1>2, Stutters

\* The evidence is fixed by the first snapshot, behind the fence.
LEMMA RetrievalRefines ==
  ASSUME MemoryInv, NEW w \in Worker, RetrievalStep(w)
  PROVE  [Log!Next]_(Log!vars)
<1> USE DEF MemoryInv, JournalInv
<1>1. UNCHANGED <<question, steps, status>> /\ Shut' = Shut
  BY DEF RetrievalStep, Begin, LoadRetrieval, NoRetrieval, Retrieve, SaveRetrieval, world,
     journal, runVars, Shut
<1>2. Paid' = Paid
  BY DEF RetrievalStep, Begin, LoadRetrieval, NoRetrieval, Retrieve, SaveRetrieval, Paid
<1>3. CASE SaveRetrieval(w)
  <2> DEFINE r == RunOf(w)
  <2>1. r \in Run /\ exec[w].evidence \in Evidence
    BY <1>3, TaskType DEF SaveRetrieval, Fence, TypeInv, TypeOK, Memory
  <2>2. snapshot[r] = NoSnapshot /\ r \notin Shut
    BY <1>3 DEF SaveRetrieval, At, NoConflict, Fence, Shut, Terminal, Contract!Terminal
  <2>3. snapshot' = [snapshot EXCEPT ![r] = exec[w].evidence]
    BY <1>3 DEF SaveRetrieval
  <2>4. Log!Ground(r, exec[w].evidence)
    BY <1>1, <1>2, <2>2, <2>3 DEF Log!Ground, Shut, Paid
  <2> QED BY <2>1, <2>4 DEF Log!Next
<1>4. CASE ~SaveRetrieval(w)
  <2>1. UNCHANGED snapshot
    BY <1>4, OwnStep
  <2> QED BY <1>1, <1>2, <2>1, Stutters
<1> QED BY <1>3, <1>4

\* A saved response is generated for the log and paid for.
LEMMA SaveRefines ==
  ASSUME MemoryInv, NEW w \in Worker, Save(w)
  PROVE  Log!Next
<1> USE DEF MemoryInv, JournalInv
<1> DEFINE r == RunOf(w)
           x == [run |-> RunOf(w), step |-> exec[w].step, finish |-> exec[w].answer.finish,
                 tokens |-> exec[w].answer.tokens, evidence |-> exec[w].evidence,
                 tooled |-> exec[w].tooled, cached |-> FALSE, by |-> RunOf(w),
                 gen |-> task[w].attempt]
           k == [run |-> RunOf(w), unit |-> "step", step |-> exec[w].step]
<1>1. /\ steps' = steps \cup {x} /\ ledger' = ledger \cup {k}
      /\ UNCHANGED <<question, snapshot, status>>
  BY DEF Save, world, runVars
<1>2. Fence(w) /\ exec[w].stage = "save" /\ r \in Run
  BY TaskType DEF Save, At, Fence
<1>3. Log!Growing(r) /\ Log!Next0(r) = exec[w].step /\ exec[w].evidence = snapshot[r]
  BY <1>2, Grows DEF Unstored
<1>4. x \notin steps
  BY <1>2, WholeLog DEF Unstored, Stored
<1>5. Paid' = Paid \cup {<<r, exec[w].step>>}
  <2>1. k.unit = "step" /\ k.run = r /\ k.step = exec[w].step
    OBVIOUS
  <2> HIDE DEF k, r
  <2>2. { l \in ledger' : l.unit = "step" } = { l \in ledger : l.unit = "step" } \cup {k}
    BY <1>1, <2>1
  <2> QED BY <2>1, <2>2 DEF Paid
<1>6. [finish |-> x.finish, tokens |-> x.tokens] \in Response
  <2>1. exec[w].answer \in Response
    BY <1>2 DEF Sober
  <2>2. exec[w].answer = [finish |-> exec[w].answer.finish, tokens |-> exec[w].answer.tokens]
    BY DEF TypeInv, TypeOK, Memory, Answer
  <2> QED BY <2>1, <2>2
<1>7. /\ x.run = r /\ x.step = exec[w].step /\ x.evidence = exec[w].evidence /\ x.by = r
      /\ ~x.cached
  OBVIOUS
<1>8. Shut' = Shut
  BY <1>1 DEF Shut
<1> HIDE DEF x, r
<1>9. PICK z \in steps' \ steps : z = x
  BY <1>1, <1>4
<1>10. Log!Generate(r, z)
  BY <1>1, <1>3, <1>5, <1>6, <1>7, <1>8, <1>9 DEF Log!Generate, Paid, Shut
<1> QED BY <1>2, <1>9, <1>10 DEF Log!Next

\* A cached answer is reused for the same evidence and a similar question.
LEMMA RestoreRefines ==
  ASSUME MemoryInv, CacheKnown, NEW w \in Worker, RestoreExact(w) \/ RestoreSimilar(w)
  PROVE  Log!Next
<1> USE DEF MemoryInv, JournalInv
<1>1. PICK s \in cache : /\ Restore(w, s) /\ s.evidence = exec[w].evidence
                         /\ <<question[RunOf(w)], s.question>> \in Similar
  <2>1. RunOf(w) \in Run /\ question[RunOf(w)] \in Question
    BY TaskType DEF RestoreExact, RestoreSimilar, Fence, TypeInv, TypeOK
  <2> QED BY <2>1, QuestionAssumption DEF RestoreExact, RestoreSimilar, Exact, Close
<1> DEFINE r == RunOf(w)
           x == [run |-> RunOf(w), step |-> exec[w].step, finish |-> "stop", tokens |-> 0,
                 evidence |-> s.evidence, tooled |-> exec[w].tooled, cached |-> TRUE,
                 by |-> s.by, gen |-> s.gen]
<1>2. steps' = steps \cup {x} /\ UNCHANGED <<question, snapshot, status, ledger>>
  BY <1>1 DEF Restore, world, runVars
<1>3. Fence(w) /\ exec[w].stage \in {"exact", "similar"} /\ r \in Run
  BY TaskType DEF RestoreExact, RestoreSimilar, At, Fence
<1>4. /\ Log!Growing(r) /\ Log!Next0(r) = exec[w].step /\ exec[w].evidence = snapshot[r]
      /\ exec[w].step = 0
  BY <1>3, Grows DEF Unstored, Sober
<1>5. x \notin steps
  BY <1>3, WholeLog DEF Unstored, Stored
<1>6. PICK y \in Log!Answers :
        y.question = s.question /\ y.evidence = s.evidence /\ y.by = s.by /\ y.gen = s.gen
  BY <1>1 DEF CacheKnown
<1>7. Paid' = Paid /\ Shut' = Shut
  BY <1>2 DEF Paid, Shut
<1>8. /\ x.run = r /\ x.step = exec[w].step /\ x.evidence = s.evidence /\ x.by = s.by
      /\ x.gen = s.gen /\ x.cached /\ x.tokens = 0 /\ x.finish = "stop"
  OBVIOUS
<1> HIDE DEF x, r
<1>9. \E z \in Log!Answers :
        /\ z.by = x.by /\ z.gen = x.gen /\ z.evidence = x.evidence
        /\ <<question[r], z.question>> \in Similar
  BY <1>1, <1>6, <1>8 DEF r
<1>10. Log!Reuse(r, x)
  BY <1>1, <1>2, <1>4, <1>7, <1>8, <1>9 DEF Log!Reuse, Paid, Shut
<1>11. x \in steps' \ steps
  BY <1>2, <1>5
<1> QED BY <1>3, <1>10, <1>11 DEF Log!Next

LEMMA LoopRefines ==
  ASSUME MemoryInv, CacheKnown, NEW w \in Worker, LoopStep(w)
  PROVE  [Log!Next]_(Log!vars)
<1>1. CASE Save(w)
  BY <1>1, SaveRefines
<1>2. CASE RestoreExact(w) \/ RestoreSimilar(w)
  BY <1>2, RestoreRefines
<1>3. CASE ~Save(w) /\ ~RestoreExact(w) /\ ~RestoreSimilar(w)
  <2>1. UNCHANGED <<question, steps, snapshot, status>>
    BY <1>3 DEF LoopStep, Replay, NotStored, NoExact, NoSimilar, Authorize, Generate, Process,
       UseTools, world, journal, runVars
  <2>2. Paid' = Paid
    BY <1>3 DEF LoopStep, Replay, NotStored, NoExact, NoSimilar, Authorize, Generate, Process,
       UseTools, Paid
  <2>3. Shut' = Shut
    BY <2>1 DEF Shut
  <2> QED BY <2>1, <2>2, <2>3, Stutters
<1> QED BY <1>1, <1>2, <1>3

\* Whatever the attempts, crashes and take-overs, executor.py and
\* executor_store.py write an exactly-once log: fixed evidence, steps in order
\* within the limits, each paid for once or reused from the same evidence.
THEOREM ImplementsTheLog == Spec => ImplementsLog
<1>1. Init => Log!Init /\ CacheKnown
  BY DEF Init, Contract!Init, Log!Init, CacheKnown, Terminal, Contract!Terminal
<1>2. MemoryInv /\ CacheKnown /\ [Next]_vars => CacheKnown'
  BY CacheStep
<1>3. MemoryInv /\ CacheKnown /\ [Next]_vars => [Log!Next]_(Log!vars)
  BY RunRefines, RetrievalRefines, LoopRefines, WorldRefines DEF Next, MemoryInv, JournalInv
<1> QED
  BY <1>1, <1>2, <1>3, MemoryInit, MemoryStep, PTL DEF Spec, ImplementsLog, Log!Spec
=============================================================================
