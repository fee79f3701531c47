---------------------------- MODULE EvaluationJudge ----------------------------
(***************************************************************************)
(* Evaluation judge jobs (evaluation_judge_repository.py, migration 011)   *)
(* and the workers that score them (evaluation_judge_worker.py).           *)
(*                                                                         *)
(* A worker claims a job under a lease, scores one case of it outside any  *)
(* transaction and saves the score; the job then goes back to the queue,   *)
(* or succeeds with its last case.  A heartbeat renews the lease, so it    *)
(* runs out only under a worker that died or stalls.                       *)
(*                                                                         *)
(* now() is the start of a transaction, which may then wait for a lock:    *)
(* a "lapsed" lease is still live to a transaction that began earlier and  *)
(* expired to one that begins now; an "expired" one is so to everybody.    *)
(* available_at is abstracted away: a job that backs off may be claimed at *)
(* any later time.  Every worker may serve the workspaces of all jobs.     *)
(* The charge of a case is a statement of the transaction that saves its   *)
(* score; SpendLedger has what it does to the budget.                      *)
(***************************************************************************)
EXTENDS Naturals, FiniteSets

CONSTANTS
  Job,              \* eval_judge_runs
  Compared,         \* the jobs whose evaluation run has a baseline
  NumCases,         \* case_count
  Worker,           \* worker processes, by worker_id
  Config,           \* judge provider, model and prompt version, taken together
  Profile,          \* EvaluationJudgeConfig of each worker
  NoJob, Nobody, NoConfig,
  MaxJudgeAttempts  \* MAX_JUDGE_ATTEMPTS

ASSUME BoundsAssumption ==
  NumCases \in Nat \ {0} /\ MaxJudgeAttempts \in Nat \ {0}
ASSUME ProfileAssumption == Profile \in [Worker -> Config] /\ Compared \subseteq Job
ASSUME NullAssumption ==
  NoJob \notin Job /\ Nobody \notin Worker /\ NoConfig \notin Config

Case == 1..NumCases

VARIABLES
  status,   \* status, or "absent" before the job is created
  attempts, \* attempt_count
  pin,      \* judge_provider, judge_model and prompt_version
  owner,    \* lease_owner
  lease,    \* lease_expires_at: "none", "live", "lapsed" or "expired"
  score,    \* eval_judge_case_scores: the configuration behind each score
  job,      \* the job in a worker's process_once
  case,     \* the case it scores
  stage,    \* how far it got
  claims    \* history: claims of a job

rowVars == <<status, attempts, owner, lease>>
workVars == <<job, case, stage>>
vars == <<rowVars, pin, score, workVars, claims>>

\* process_once waits for the next step of this name, or for the _fail of an
\* exception that may be retried or is final.
Stage == {"idle", "next", "candidate", "baseline", "save", "finish",
          "retryable", "final"}

Init ==
  /\ status = [j \in Job |-> "absent"]
  /\ attempts = [j \in Job |-> 0]
  /\ pin = [j \in Job |-> NoConfig]
  /\ owner = [j \in Job |-> Nobody]
  /\ lease = [j \in Job |-> "none"]
  /\ score = [j \in Job |-> [c \in Case |-> NoConfig]]
  /\ job = [w \in Worker |-> NoJob]
  /\ case = [w \in Worker |-> 1]
  /\ stage = [w \in Worker |-> "idle"]
  /\ claims = [j \in Job |-> 0]

-----------------------------------------------------------------------------
SeenLive(j) == lease[j] \in {"live", "lapsed"}
SeenExpired(j) == lease[j] \in {"lapsed", "expired"}

Unscored(j) == {c \in Case : score[j][c] = NoConfig}
Scored(j) == {c \in Case : score[j][c] # NoConfig}

\* Mutant of Holds: the worker that took the job over is overlooked.
HoldsAnyOwner(w) ==
  /\ status[job[w]] = "running"
  /\ SeenLive(job[w])

\* _owned returns the row.
Holds(w) ==
  /\ status[job[w]] = "running"
  /\ owner[job[w]] = w
  /\ SeenLive(job[w])

\* _owned returns None.
Lost(w) ==
  \/ status[job[w]] # "running"
  \/ owner[job[w]] # w
  \/ SeenExpired(job[w])

\* The process_once of w is over.
Idle(w) ==
  /\ job' = [job EXCEPT ![w] = NoJob]
  /\ case' = [case EXCEPT ![w] = 1]
  /\ stage' = [stage EXCEPT ![w] = "idle"]

GoTo(w, s) ==
  /\ stage' = [stage EXCEPT ![w] = s]
  /\ UNCHANGED <<rowVars, pin, score, job, case, claims>>

\* The lease of j is released and its status becomes to.
Release(j, to) ==
  /\ status' = [status EXCEPT ![j] = to]
  /\ owner' = [owner EXCEPT ![j] = Nobody]
  /\ lease' = [lease EXCEPT ![j] = "none"]

-----------------------------------------------------------------------------
\* EvaluationJudgeRepository.create; a repeated key returns the first job.
Create(j) ==
  /\ status[j] = "absent"
  /\ status' = [status EXCEPT ![j] = "queued"]
  /\ UNCHANGED <<attempts, owner, lease, pin, score, workVars, claims>>

\* The sets of jobs of w's configuration whose leases w may see expired.
ExpiredSets(w) ==
  {E \in SUBSET {j \in Job : status[j] = "running" /\ SeenExpired(j)
                             /\ pin[j] = Profile[w]} :
     \A j \in Job : lease[j] = "expired" /\ pin[j] = Profile[w] => j \in E}

\* Every job of E gets a strike.
Struck(E) == [j \in Job |-> IF j \in E THEN attempts[j] + 1 ELSE attempts[j]]

\* Mutant of AfterExpiry: the strike under way is not counted.
AfterExpiryLate(E) ==
  [j \in Job |-> IF j \notin E THEN status[j]
                 ELSE IF attempts[j] >= MaxJudgeAttempts THEN "failed"
                 ELSE "queued"]

\* The status of every job after the strikes of E.
AfterExpiry(E) ==
  [j \in Job |-> IF j \notin E THEN status[j]
                 ELSE IF attempts[j] + 1 >= MaxJudgeAttempts THEN "failed"
                 ELSE "queued"]

\* Mutant of Claimable: a pinned job is claimed under any configuration.
ClaimableAny(w, E) == {j \in Job : AfterExpiry(E)[j] = "queued"}

\* Mutant of Claimable: a job that was pinned is not resumed.
ClaimableUnpinned(w, E) ==
  {j \in Job : AfterExpiry(E)[j] = "queued" /\ pin[j] = NoConfig}

Claimable(w, E) ==
  {j \in Job : AfterExpiry(E)[j] = "queued" /\ pin[j] \in {NoConfig, Profile[w]}}

\* The transaction of _claim that finds no job that is due.
ExpireOnly(w) ==
  /\ stage[w] = "idle"
  /\ \E E \in ExpiredSets(w) \ {{}} :
       /\ status' = AfterExpiry(E)
       /\ attempts' = Struck(E)
       /\ owner' = [j \in Job |-> IF j \in E THEN Nobody ELSE owner[j]]
       /\ lease' = [j \in Job |-> IF j \in E THEN "none" ELSE lease[j]]
  /\ UNCHANGED <<pin, score, workVars, claims>>

\* The transaction of _claim that takes a job, after the same expiry.
Claim(w) ==
  /\ stage[w] = "idle"
  /\ \E E \in ExpiredSets(w) : \E k \in Claimable(w, E) :
       /\ status' = [AfterExpiry(E) EXCEPT ![k] = "running"]
       /\ attempts' = Struck(E)
       /\ owner' = [j \in Job |-> IF j = k THEN w
                                  ELSE IF j \in E THEN Nobody ELSE owner[j]]
       /\ lease' = [j \in Job |-> IF j = k THEN "live"
                                  ELSE IF j \in E THEN "none" ELSE lease[j]]
       /\ pin' = [pin EXCEPT ![k] = IF @ = NoConfig THEN Profile[w] ELSE @]
       /\ job' = [job EXCEPT ![w] = k]
       /\ stage' = [stage EXCEPT ![w] = "next"]
       /\ claims' = [claims EXCEPT ![k] = @ + 1]
  /\ UNCHANGED <<score, case>>

\* _next_case does not look at the lease.
NextCase(w) ==
  /\ stage[w] = "next"
  /\ \E c \in Unscored(job[w]) :
       /\ \A d \in Unscored(job[w]) : c <= d
       /\ case' = [case EXCEPT ![w] = c]
  /\ stage' = [stage EXCEPT ![w] = "candidate"]
  /\ UNCHANGED <<rowVars, pin, score, job, claims>>

\* A worker that stalled finds that others have scored every case.
NoCaseLeft(w) ==
  /\ stage[w] = "next"
  /\ Unscored(job[w]) = {}
  /\ GoTo(w, "finish")

ScoreCandidate(w) ==
  /\ stage[w] = "candidate"
  /\ GoTo(w, IF job[w] \in Compared THEN "baseline" ELSE "save")

ScoreBaseline(w) ==
  /\ stage[w] = "baseline"
  /\ GoTo(w, "save")

\* An exception: final are a revoked permission, an unavailable source, an
\* exhausted budget, an input too large, an invalid response, a missing price
\* and some provider errors; other provider errors and exceptions, those of the
\* database included, may be retried.  The end of a job knows only the latter.
Break(w) ==
  /\ stage[w] \in {"next", "candidate", "baseline", "save", "finish"}
  /\ \E s \in {"retryable", "final"} :
       /\ stage[w] = "finish" => s = "retryable"
       /\ GoTo(w, s)

\* _save_case by the holder of the lease.  _finish_if_complete is the same
\* update without a new score; ClaimsAccounted shows why no holder reaches it.
SaveCase(w) ==
  /\ stage[w] \in {"save", "finish"}
  /\ Holds(w)
  /\ LET j == job[w]
         saved == IF stage[w] = "finish" \/ score[j][case[w]] # NoConfig
                    THEN score[j]
                    ELSE [score[j] EXCEPT ![case[w]] = Profile[w]]
     IN  /\ score' = [score EXCEPT ![j] = saved]
         /\ Release(j, IF \A c \in Case : saved[c] # NoConfig
                         THEN "succeeded" ELSE "queued")
  /\ Idle(w)
  /\ UNCHANGED <<attempts, pin, claims>>

Fail(w) ==
  /\ stage[w] \in {"retryable", "final"}
  /\ Holds(w)
  /\ attempts' = [attempts EXCEPT ![job[w]] = @ + 1]
  /\ Release(job[w], IF stage[w] = "retryable" /\ attempts'[job[w]] < MaxJudgeAttempts
                       THEN "queued" ELSE "failed")
  /\ Idle(w)
  /\ UNCHANGED <<pin, score, claims>>

\* Score or failure of a worker that no longer holds the job: dropped.
Dropped(w) ==
  /\ stage[w] \in {"save", "finish", "retryable", "final"}
  /\ Lost(w)
  /\ Idle(w)
  /\ UNCHANGED <<rowVars, pin, score, claims>>

\* The process dies and restarts, is cancelled, or cannot reach the database
\* to record a failure (process_once raises, and run loops on).
Crash(w) ==
  /\ stage[w] # "idle"
  /\ Idle(w)
  /\ UNCHANGED <<rowVars, pin, score, claims>>

\* _heartbeat
Renew(w) ==
  /\ stage[w] # "idle"
  /\ Holds(w)
  /\ lease[job[w]] = "lapsed"
  /\ lease' = [lease EXCEPT ![job[w]] = "live"]
  /\ UNCHANGED <<status, attempts, owner, pin, score, workVars, claims>>

\* The clock passes lease_expires_at, and then the start of every transaction
\* that began before.
Lapse(j) ==
  /\ \/ lease[j] = "live" /\ lease' = [lease EXCEPT ![j] = "lapsed"]
     \/ lease[j] = "lapsed" /\ lease' = [lease EXCEPT ![j] = "expired"]
  /\ UNCHANGED <<status, attempts, owner, pin, score, workVars, claims>>

Process(w) ==
  \/ NextCase(w) \/ NoCaseLeft(w) \/ ScoreCandidate(w) \/ ScoreBaseline(w)
  \/ Break(w) \/ SaveCase(w) \/ Fail(w) \/ Dropped(w)

Next ==
  \/ \E j \in Job : Create(j) \/ Lapse(j)
  \/ \E w \in Worker : ExpireOnly(w) \/ Claim(w) \/ Process(w) \/ Crash(w) \/ Renew(w)

Spec == Init /\ [][Next]_vars

\* A live worker keeps looping (WorkerRuntime.run) and time passes.  Requests,
\* heartbeats and deaths owe nothing.
Fairness ==
  /\ \A w \in Worker : WF_vars(ExpireOnly(w) \/ Claim(w)) /\ WF_vars(Process(w))
  /\ \A j \in Job : WF_vars(Lapse(j))

FairSpec == Spec /\ Fairness

-----------------------------------------------------------------------------
\* Properties

\* Types; the attempts of a job never exceed MAX_JUDGE_ATTEMPTS.
TypeOK ==
  /\ status \in [Job -> {"absent", "queued", "running", "succeeded", "failed"}]
  /\ attempts \in [Job -> 0..MaxJudgeAttempts]
  /\ pin \in [Job -> Config \cup {NoConfig}]
  /\ owner \in [Job -> Worker \cup {Nobody}]
  /\ lease \in [Job -> {"none", "live", "lapsed", "expired"}]
  /\ score \in [Job -> [Case -> Config \cup {NoConfig}]]
  /\ job \in [Worker -> Job \cup {NoJob}]
  /\ case \in [Worker -> Case]
  /\ stage \in [Worker -> Stage]
  /\ claims \in [Job -> Nat]

(* Every claim is accounted for by exactly one new score or one strike, or  *)
(* is the one under way, although the worker it ends by may be another than *)
(* the one that made it (_claim, _save_case, _fail, _owned).  Hence a job   *)
(* is claimed at most case_count + MAX_JUDGE_ATTEMPTS times, and each claim *)
(* pays at most for two provider calls.                                     *)
ClaimsAccounted ==
  \A j \in Job :
    claims[j] = Cardinality(Scored(j)) + attempts[j]
                + (IF status[j] = "running" THEN 1 ELSE 0)

(* All scores of a job are of the configuration pinned at its first claim,  *)
(* and only workers of that configuration work on it, also after take-overs *)
(* between workers that were configured differently (_claim; ADR 0022: "A   *)
(* job pinned under one judge configuration is never silently resumed under *)
(* another").                                                               *)
OneConfig ==
  /\ \A j \in Job : \A c \in Scored(j) : score[j][c] = pin[j]
  /\ \A w \in Worker : job[w] # NoJob => pin[job[w]] = Profile[w]

Contract == INSTANCE JudgeContract WITH
  state <- [j \in Job |-> IF status[j] \in {"queued", "running"} THEN "open" ELSE status[j]],
  strikes <- attempts

(* Leases, take-overs, late saves and bulk expiry implement the contract:   *)
(* cases are scored once and in order, a job ends with its last score or    *)
(* its last strike, and then stays as it is (_save_case, _fail, _claim).    *)
ImplementsContract == Contract!Spec

(* A job ends, whatever its workers suffer: each loss is a strike, and the  *)
(* workers of its configuration keep polling (_claim, _fail).  Requests are *)
(* finitely many here and an ended job stays ended, so: again and again no  *)
(* job is open.                                                             *)
JobsEnd == []<>(\A j \in Job : status[j] \in {"absent", "succeeded", "failed"})
=============================================================================
