-------------------------- MODULE KnowledgeIngestion --------------------------
(***************************************************************************)
(* Knowledge ingestion (knowledge_worker.py, knowledge.py, index_source    *)
(* and delete_source of rag_repository.py, rag_pipeline.py, migrations 005 *)
(* and 007): durable jobs, workers that claim them under a lease, embed    *)
(* their text and write the source in one fenced transaction, and requests *)
(* that delete a source key meanwhile.                                     *)
(*                                                                         *)
(* A job is its idempotency key: what it asks for is fixed by the first    *)
(* request, a repetition changes nothing.  Jobs are numbered in the order  *)
(* in which they are stored.  The content of a source is the job that      *)
(* wrote it.  The transaction that writes a source and the one that        *)
(* deletes a key are several steps, and hold the rows of the jobs they     *)
(* have locked from one to the next.  These locks are the only ones here:  *)
(* the workspaces row that scoped locks for index_source, delete_source    *)
(* and every request is left out, so writers and deletions may overlap     *)
(* more than in the code, and what holds rests on the rows of jobs alone.  *)
(***************************************************************************)
EXTENDS Naturals

CONSTANTS
  NumJobs, Key, Version,
  KeyOf, VersionOf,         \* what each job asks for
  Worker,
  NoJob, NoWorker,
  MAX_INGESTION_ATTEMPTS,
  MaxFaults                 \* bound: crashes, stalls and failed deletions

Job == 1 .. NumJobs

ASSUME IngestionAssumption ==
  /\ NumJobs \in Nat
  /\ KeyOf \in [Job -> Key] /\ VersionOf \in [Job -> Version]
  /\ NoJob \notin Job /\ NoWorker \notin Worker
  /\ MAX_INGESTION_ATTEMPTS \in Nat \ {0} /\ MaxFaults \in Nat

VARIABLES
  status, attempts, owner, live,   \* of each job; live: its lease has not expired
  sources,                         \* rag_sources, with their chunks
  charged,                         \* source ids with a row of the spend ledger
  stage, work,                     \* of each worker: where it is, with which job
  again,                           \* of each worker: its failure may be retried
  deleting, locked,                \* of each key: the step of its deletion, its locks
  faults

jobVars      == <<status, attempts, owner, live>>
sourceVars   == <<sources, charged>>
workerVars   == <<stage, work, again>>
deletionVars == <<deleting, locked>>
vars == <<jobVars, sourceVars, workerVars, deletionVars, faults>>

\* id: a uuid made with the row, the job that made it; by: whose content it has
Source == [id : Job, by : Job, key : Key, version : Version, is_current : BOOLEAN]
Stages == {"idle", "embedding", "writing", "failing"}

Init ==
  /\ status = [j \in Job |-> "absent"]
  /\ attempts = [j \in Job |-> 0]
  /\ owner = [j \in Job |-> NoWorker]
  /\ live = [j \in Job |-> FALSE]
  /\ sources = {} /\ charged = {}
  /\ stage = [w \in Worker |-> "idle"]
  /\ work = [w \in Worker |-> NoJob]
  /\ again = [w \in Worker |-> FALSE]
  /\ deleting = [k \in Key |-> "no"]
  /\ locked = [k \in Key |-> {}]
  /\ faults = 0

Fault == faults < MaxFaults /\ faults' = faults + 1

\* Nobody's transaction holds the row of the job.
Free(j) ==
  /\ \A k \in Key : j \notin locked[k]
  /\ \A w \in Worker : ~(stage[w] = "writing" /\ work[w] = j)

Pending(k) == { j \in Job : KeyOf[j] = k /\ status[j] \in {"queued", "running"} }

-----------------------------------------------------------------------------
\* enqueue_ingestion
Enqueue(j) ==
  /\ status[j] = "absent"
  /\ \A i \in Job : i < j => status[i] # "absent"
  /\ status' = [status EXCEPT ![j] = "queued"]
  /\ UNCHANGED <<attempts, owner, live, sourceVars, workerVars, deletionVars, faults>>

-----------------------------------------------------------------------------
\* Worker

Goto(w, s) == stage' = [stage EXCEPT ![w] = s]

\* Mutant of Claimable: a job that runs is never taken over.
ClaimableQueued(j) == Free(j) /\ status[j] = "queued"

Claimable(j) ==
  /\ Free(j)
  /\ status[j] = "queued" \/ (status[j] = "running" /\ ~live[j])

\* _claim: an expired lease costs its attempt and the job gets another.
Claim(w, j) ==
  /\ stage[w] = "idle"
  /\ Claimable(j)
  /\ status' = [status EXCEPT ![j] = "running"]
  /\ attempts' = [attempts EXCEPT ![j] = @ + 1]
  /\ owner' = [owner EXCEPT ![j] = w]
  /\ live' = [live EXCEPT ![j] = TRUE]
  /\ work' = [work EXCEPT ![w] = j]
  /\ Goto(w, "embedding")
  /\ UNCHANGED <<again, sourceVars, deletionVars, faults>>

\* authorize_manage, authorize_spend, _embed_texts: permission, budget, paid
\* calls.  When they succeed only the worker knows, until its Fence.
EmbedFails(w) ==
  /\ stage[w] = "embedding"
  /\ Goto(w, "failing")
  /\ \E r \in BOOLEAN : again' = [again EXCEPT ![w] = r]
  /\ UNCHANGED <<work, jobVars, sourceVars, deletionVars, faults>>

\* What the fence and _owned look for
Owns(w) ==
  LET j == work[w] IN status[j] = "running" /\ owner[j] = w /\ live[j]

\* Its own transaction may hold the row, another's not.
Reaches(w) == Free(work[w])

Lose(w) == Goto(w, "failing") /\ again' = [again EXCEPT ![w] = TRUE]

\* index_source up to its fence, which locks the job
Fence(w) ==
  /\ stage[w] = "embedding"
  /\ Reaches(w)
  /\ \/ Owns(w) /\ Goto(w, "writing") /\ UNCHANGED again
     \/ ~Owns(w) /\ Lose(w)
     \/ Goto(w, "failing") /\ again' = [again EXCEPT ![w] = FALSE]   \* no permission any more
  /\ UNCHANGED <<work, jobVars, sourceVars, deletionVars, faults>>

Existing(j) == { s \in sources : s.key = KeyOf[j] /\ s.version = VersionOf[j] }

\* The row job j leaves: a source of this version keeps its id.
Written(j) ==
  [id |-> IF Existing(j) = {} THEN j ELSE (CHOOSE s \in Existing(j) : TRUE).id,
   by |-> j, key |-> KeyOf[j], version |-> VersionOf[j], is_current |-> TRUE]

Retired(j) ==
  { IF s.key = KeyOf[j] THEN [s EXCEPT !.is_current = FALSE] ELSE s : s \in sources \ Existing(j) }

\* Mutant of Indexed: what was current stays so.
IndexedBeside(j) == (sources \ Existing(j)) \cup {Written(j)}

\* The sources once that of job j is written
Indexed(j) == Retired(j) \cup {Written(j)}

\* record_spend is keyed by the source id, once per id.
Charge(j) == charged \cup {Written(j).id}

\* Mutant of Commit: the job is completed by _succeed, in a transaction of its own.
CommitSourceOnly(w) ==
  LET j == work[w] IN
  /\ stage[w] = "writing"
  /\ live[j]
  /\ sources' = Indexed(j)
  /\ charged' = Charge(j)
  /\ Goto(w, "idle")
  /\ work' = [work EXCEPT ![w] = NoJob]
  /\ UNCHANGED <<again, jobVars, deletionVars, faults>>

\* The rest of index_source.  The lease must still be live when the job is
\* completed; _succeed then finds nothing left to do.
Commit(w) ==
  LET j == work[w] IN
  /\ stage[w] = "writing"
  /\ live[j]
  /\ sources' = Indexed(j)
  /\ charged' = Charge(j)
  /\ status' = [status EXCEPT ![j] = "succeeded"]
  /\ owner' = [owner EXCEPT ![j] = NoWorker]
  /\ live' = [live EXCEPT ![j] = FALSE]
  /\ Goto(w, "idle")
  /\ work' = [work EXCEPT ![w] = NoJob]
  /\ UNCHANGED <<again, attempts, deletionVars, faults>>

\* The lease has expired, or a unique index refuses the source because another
\* job of the key has committed meanwhile: everything is rolled back.
RollBack(w) ==
  /\ stage[w] = "writing"
  /\ Lose(w)
  /\ UNCHANGED <<work, jobVars, sourceVars, deletionVars, faults>>

Retries(w) == again[w] /\ attempts[work[w]] < MAX_INGESTION_ATTEMPTS

\* _fail: a job that is no longer owned is left alone.
RecordFailure(w) ==
  LET j == work[w] IN
  /\ stage[w] = "failing"
  /\ Reaches(w)
  /\ IF Owns(w)
       THEN /\ status' = [status EXCEPT ![j] = IF Retries(w) THEN "queued" ELSE "failed"]
            /\ owner' = [owner EXCEPT ![j] = NoWorker]
            /\ live' = [live EXCEPT ![j] = FALSE]
       ELSE UNCHANGED <<status, owner, live>>
  /\ Goto(w, "idle")
  /\ work' = [work EXCEPT ![w] = NoJob]
  /\ again' = [again EXCEPT ![w] = FALSE]
  /\ UNCHANGED <<attempts, sourceVars, deletionVars, faults>>

\* The process dies, or its connection does where nothing handles that; an
\* open transaction is rolled back.
Crash(w) ==
  /\ Fault
  /\ stage[w] # "idle"
  /\ Goto(w, "idle")
  /\ work' = [work EXCEPT ![w] = NoJob]
  /\ again' = [again EXCEPT ![w] = FALSE]
  /\ UNCHANGED <<jobVars, sourceVars, deletionVars>>

\* Nobody renews the lease of a lost worker (_heartbeat).
Orphaned(j) == status[j] = "running" /\ \A w \in Worker : ~(owner[j] = w /\ work[w] = j)

LeaseExpires(j) ==
  /\ Orphaned(j) /\ live[j]
  /\ live' = [live EXCEPT ![j] = FALSE]
  /\ UNCHANGED <<status, attempts, owner, sourceVars, workerVars, deletionVars, faults>>

\* The heartbeat of a worker stalls, or waits for the row that the worker's
\* own transaction holds, for longer than the lease.
Stall(j) ==
  /\ Fault
  /\ status[j] = "running" /\ ~Orphaned(j) /\ live[j]
  /\ live' = [live EXCEPT ![j] = FALSE]
  /\ UNCHANGED <<status, attempts, owner, sourceVars, workerVars, deletionVars>>

-----------------------------------------------------------------------------
\* delete_source: its three statements

\* Lock the pending jobs; a job that runs refuses the deletion.
DeleteCheck(k) ==
  /\ deleting[k] = "no"
  /\ \A j \in Pending(k) : Free(j) /\ ~live[j]
  /\ deleting' = [deleting EXCEPT ![k] = "checked"]
  /\ locked' = [locked EXCEPT ![k] = Pending(k)]
  /\ UNCHANGED <<jobVars, sourceVars, workerVars, faults>>

\* What the UPDATE matches: a job that came after the check too, whatever its lease
Cancelled(k) == Pending(k)

DeleteCancel(k) ==
  /\ deleting[k] = "checked"
  /\ \A j \in Cancelled(k) \ locked[k] : Free(j)
  /\ deleting' = [deleting EXCEPT ![k] = "cancelling"]
  /\ locked' = [locked EXCEPT ![k] = Cancelled(k)]
  /\ UNCHANGED <<jobVars, sourceVars, workerVars, faults>>

\* The sources go, and the transaction commits.
DeleteCommit(k) ==
  /\ deleting[k] = "cancelling"
  /\ status' = [j \in Job |-> IF j \in locked[k] THEN "cancelled" ELSE status[j]]
  /\ owner' = [j \in Job |-> IF j \in locked[k] THEN NoWorker ELSE owner[j]]
  /\ live' = [j \in Job |-> live[j] /\ j \notin locked[k]]
  /\ sources' = { s \in sources : s.key # k }
  /\ deleting' = [deleting EXCEPT ![k] = "no"]
  /\ locked' = [locked EXCEPT ![k] = {}]
  /\ UNCHANGED <<attempts, charged, workerVars, faults>>

DeleteFails(k) ==
  /\ Fault
  /\ deleting[k] # "no"
  /\ deleting' = [deleting EXCEPT ![k] = "no"]
  /\ locked' = [locked EXCEPT ![k] = {}]
  /\ UNCHANGED <<jobVars, sourceVars, workerVars>>

-----------------------------------------------------------------------------
Work(w) ==
  \/ \E j \in Job : Claim(w, j)
  \/ EmbedFails(w) \/ Fence(w) \/ Commit(w) \/ RollBack(w) \/ RecordFailure(w)

Deletion(k) == DeleteCancel(k) \/ DeleteCommit(k)

Next ==
  \/ \E j \in Job : Enqueue(j) \/ LeaseExpires(j) \/ Stall(j)
  \/ \E w \in Worker : Work(w) \/ Crash(w)
  \/ \E k \in Key : DeleteCheck(k) \/ Deletion(k) \/ DeleteFails(k)

Spec == Init /\ [][Next]_vars

\* WorkerRuntime polls for jobs and process_once returns (adapter and statement
\* timeouts); a lease that nobody renews expires; a transaction that deletes
\* ends.  The heartbeat itself needs no fairness: a lease stays live unless it
\* stalls.
Fairness ==
  /\ \A w \in Worker : WF_vars(Work(w))
  /\ WF_vars(\E j \in Job : LeaseExpires(j))
  /\ \A k \in Key : WF_vars(Deletion(k))

FairSpec == Spec /\ Fairness

-----------------------------------------------------------------------------
TypeOK ==
  /\ status \in [Job -> {"absent", "queued", "running", "succeeded", "failed", "cancelled"}]
  /\ attempts \in [Job -> Nat]
  /\ owner \in [Job -> Worker \cup {NoWorker}]
  /\ live \in [Job -> BOOLEAN]
  /\ sources \in SUBSET Source /\ charged \in SUBSET Job
  /\ stage \in [Worker -> Stages]
  /\ work \in [Worker -> Job \cup {NoJob}]
  /\ again \in [Worker -> BOOLEAN]
  /\ deleting \in [Key -> {"no", "checked", "cancelling"}]
  /\ locked \in [Key -> SUBSET Job]
  /\ faults \in 0 .. MaxFaults

\* Whatever jobs, takeovers and deletions overlapped, the stored sources are
\* the work of jobs that succeeded, each paid for under its id, one of a key
\* and version, and exactly one of a key is current, so long as it has any
\* (ADR 0008, ADR 0016).
SourcesConsistent ==
  /\ \A s \in sources :
       /\ status[s.by] = "succeeded" /\ s.id \in charged
       /\ s.key = KeyOf[s.by] /\ s.version = VersionOf[s.by]
       /\ \E t \in sources : t.key = s.key /\ t.is_current
  /\ \A s, t \in sources :
       \/ s.key = t.key /\ s.version = t.version
       \/ s.key = t.key /\ s.is_current /\ t.is_current
       \/ s.id = t.id
       => s = t

\* A failure that can be retried is, until three attempts (ADR 0016: "stop
\* after three attempts"): only attempts that a crash or a stall cost come on
\* top of them.
AttemptsBounded ==
  \A j \in Job : attempts[j] <= MAX_INGESTION_ATTEMPTS + faults

\* However workers crash, stall and take each other's jobs over, every job that
\* was queued ends: published, failed or cancelled.
JobsEnd == <>[](\A j \in Job : status[j] \notin {"queued", "running"})

\* Ingestion keeps the promises of KnowledgeContract.
Outcome(j) ==
  CASE status[j] = "absent" -> "absent"
    [] status[j] \in {"queued", "running"} -> "open"
    [] status[j] = "succeeded" -> "published"
    [] OTHER -> "dropped"

Current(k) == { s \in sources : s.key = k /\ s.is_current }

Shown(k) == IF Current(k) = {} THEN NoJob ELSE (CHOOSE s \in Current(k) : TRUE).by

Contract == INSTANCE KnowledgeContract WITH
  outcome <- [j \in Job |-> Outcome(j)],
  shown <- [k \in Key |-> Shown(k)],
  doomed <- locked

ImplementsContract == Contract!Spec
=============================================================================
