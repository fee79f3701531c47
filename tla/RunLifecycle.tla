----------------------------- MODULE RunLifecycle -----------------------------
(***************************************************************************)
(* Agent runs, the transactional outbox that publishes their jobs, the     *)
(* Redis stream that delivers them at least once, and the worker processes *)
(* that claim, execute, finish and recover them (run_state.py, outbox.py,  *)
(* worker.py and the run half of agent_repository.py and                   *)
(* tool_repository.py).                                                    *)
(*                                                                         *)
(* PostgreSQL is one shared state; every transaction locks the run row it  *)
(* decides about, so a transaction is one step.  Everything a process does *)
(* between two transactions, or between a transaction and a Redis command, *)
(* interleaves with all other processes.                                   *)
(*                                                                         *)
(* What an approval is (its row, its call, its expiry) is the business of  *)
(* ToolGovernance; here it only parks, resumes or cancels a run.           *)
(***************************************************************************)
EXTENDS Naturals, FiniteSets

CONSTANTS
  Run,                \* runs; a run is named by its requester's idempotency key
  NoRun,
  Worker,             \* worker processes; a restarted process is a new worker
  NoWorker,           \* lease_owner IS NULL
  MaxJobs,            \* bound: outbox rows ever inserted
  MaxRunAttempts,     \* run_state.MAX_RUN_ATTEMPTS
  MaxPublishAttempts, \* outbox.MAX_ATTEMPTS
  MaxParks,           \* bound: attempts after which approvals park no more runs
  MaxFaults           \* bound: crashes, losses, errors and stalls

ASSUME BoundsAssumption ==
  /\ MaxJobs \in Nat
  /\ MaxRunAttempts \in Nat \ {0}
  /\ MaxPublishAttempts \in Nat \ {0}
  /\ MaxParks \in Nat
  /\ MaxFaults \in Nat

ASSUME NoWorkerAssumption == NoWorker \notin Worker
ASSUME NoRunAssumption == NoRun \notin Run

VARIABLES
  \* agent_runs
  status, attempt, cancelReq, owner, lease,
  \* job_outbox: the run of a row, its publication state, failed publications
  jobRun, outbox, failures,
  \* worker_job_receipts: status and worker of the receipt of a job
  receipt, receiptWorker,
  \* Redis: copies of a job ever added, entries not delivered, entries pending
  copies, stream, pending,
  \* worker processes: where each is, its message and the attempt it claimed
  pc, held, claimed,
  \* faults so far; how often each run went back to the queue (history)
  faults, requeues

runVars    == <<status, attempt, cancelReq, owner, lease, requeues>>
outboxVars == <<jobRun, outbox, failures>>
queueVars  == <<copies, stream, pending>>
rcptVars   == <<receipt, receiptWorker>>
workerVars == <<pc, held, claimed>>
vars == <<runVars, outboxVars, queueVars, rcptVars, workerVars, faults>>

Job       == 1..MaxJobs
Terminal  == {"succeeded", "failed", "cancelled"}
RunStatus == {"absent", "queued", "running", "waiting_for_approval"} \cup Terminal
RowStatus == {"absent", "unpublished", "published", "dead_lettered"}
Receipts  == {"none", "processing", "succeeded", "failed", "cancelled", "superseded"}
Lease     == {"none", "live", "lapsed", "expired"}
Message   == [job : Job, copy : Nat]
NoMessage == [job |-> 0, copy |-> 0]
PCs       == {"idle", "claiming", "executing", "acking", "dead"}

\* Every run and job table is empty, the stream is empty, all workers wait.
Init ==
  /\ status = [r \in Run |-> "absent"]
  /\ attempt = [r \in Run |-> 0]
  /\ cancelReq = [r \in Run |-> FALSE]
  /\ owner = [r \in Run |-> NoWorker]
  /\ lease = [r \in Run |-> "none"]
  /\ requeues = [r \in Run |-> 0]
  /\ jobRun = [j \in Job |-> NoRun]
  /\ outbox = [j \in Job |-> "absent"]
  /\ failures = [j \in Job |-> 0]
  /\ receipt = [j \in Job |-> "none"]
  /\ receiptWorker = [j \in Job |-> NoWorker]
  /\ copies = [j \in Job |-> 0]
  /\ stream = {}
  /\ pending = {}
  /\ pc = [w \in Worker |-> "idle"]
  /\ held = [w \in Worker |-> NoMessage]
  /\ claimed = [w \in Worker |-> 0]
  /\ faults = 0

TypeOK ==
  /\ status \in [Run -> RunStatus]
  /\ attempt \in [Run -> Nat]
  /\ cancelReq \in [Run -> BOOLEAN]
  /\ owner \in [Run -> Worker \cup {NoWorker}]
  /\ lease \in [Run -> Lease]
  /\ requeues \in [Run -> Nat]
  /\ jobRun \in [Job -> Run \cup {NoRun}]
  /\ outbox \in [Job -> RowStatus]
  /\ failures \in [Job -> Nat]
  /\ receipt \in [Job -> Receipts]
  /\ receiptWorker \in [Job -> Worker \cup {NoWorker}]
  /\ copies \in [Job -> Nat]
  /\ stream \in SUBSET Message
  /\ pending \in SUBSET Message
  /\ pc \in [Worker -> PCs]
  /\ held \in [Worker -> Message \cup {NoMessage}]
  /\ claimed \in [Worker -> Nat]
  /\ faults \in 0..MaxFaults

-----------------------------------------------------------------------------
\* What transactions read

\* now() is the start of the transaction, and a transaction may wait for row
\* locks up to lock_timeout.  A lease that ran out a moment ago ("lapsed") is
\* therefore still live to a transaction that began before, and expired to one
\* that began after; no transaction ever sees a live lease as expired.
SeenLive(r)    == lease[r] \in {"live", "lapsed"}
SeenExpired(r) == lease[r] \in {"lapsed", "expired"}

\* The job in a worker's hands, and its run.
JobOf(w) == held[w].job
RunOf(w) == jobRun[JobOf(w)]

\* The next unused outbox id (a uuid in the code).
Fresh(j) == outbox[j] = "absent" /\ \A k \in Job : k < j => outbox[k] # "absent"

\* A row the publisher still has to publish.
Unpublished(r) == {j \in Job : jobRun[j] = r /\ outbox[j] = "unpublished"}

\* Messages about a run that a worker can still receive.
Deliverable(r) == {m \in stream \cup pending : jobRun[m.job] = r}

\* Mutant of Owns: the completion looks at the receipt and at no worker.
OwnsAnyWorker(w) ==
  /\ status[RunOf(w)] = "running"
  /\ receipt[JobOf(w)] = "processing"

\* The worker is executing what the run row and the receipt say it executes:
\* the fence of every completion (_owned_processing), apart from the leases.
\* claim and renew_lease give the run and the receipt the same expiry.
Owns(w) ==
  /\ status[RunOf(w)] = "running"
  /\ owner[RunOf(w)] = w
  /\ receipt[JobOf(w)] = "processing"
  /\ receiptWorker[JobOf(w)] = w

\* Mutant of Fenced: the attempt of the context is not compared.
FencedAnyAttempt(w) ==
  /\ pc[w] = "executing"
  /\ status[RunOf(w)] = "running"
  /\ lease[RunOf(w)] = "live"
  /\ ~cancelReq[RunOf(w)]
  /\ receipt[JobOf(w)] = "processing"
  /\ receiptWorker[JobOf(w)] = owner[RunOf(w)]

\* The fence of the executor and of the tool gateway (executable_run): it
\* compares the attempt and the receipt with the execution context, and uses
\* clock_timestamp(), so a lapsed lease does not pass.
Fenced(w) ==
  /\ pc[w] = "executing"
  /\ status[RunOf(w)] = "running"
  /\ lease[RunOf(w)] = "live"
  /\ ~cancelReq[RunOf(w)]
  /\ attempt[RunOf(w)] = claimed[w]
  /\ receipt[JobOf(w)] = "processing"
  /\ receiptWorker[JobOf(w)] = owner[RunOf(w)]

\* A worker is executing the run and keeps its lease alive.
Attended(r) == \E w \in Worker : pc[w] = "executing" /\ RunOf(w) = r /\ owner[r] = w

\* What transactions write

Fault == faults < MaxFaults /\ faults' = faults + 1

\* INSERT INTO job_outbox
Enqueue(r, j) ==
  /\ Fresh(j)
  /\ jobRun' = [jobRun EXCEPT ![j] = r]
  /\ outbox' = [outbox EXCEPT ![j] = "unpublished"]
  /\ UNCHANGED failures

\* XADD of one more copy of a job
Send(j) ==
  /\ copies' = [copies EXCEPT ![j] = @ + 1]
  /\ stream' = stream \cup {[job |-> j, copy |-> copies[j] + 1]}
  /\ UNCHANGED pending

\* The run leaves the running state (or stays out of it) with no lease.
Release(r, to) ==
  /\ status' = [status EXCEPT ![r] = to]
  /\ owner' = [owner EXCEPT ![r] = NoWorker]
  /\ lease' = [lease EXCEPT ![r] = "none"]

Requeue(r) ==
  /\ Release(r, "queued")
  /\ requeues' = [requeues EXCEPT ![r] = @ + 1]

\* All processing receipts of the run are superseded.
Superseded(r) ==
  [j \in Job |-> IF jobRun[j] = r /\ receipt[j] = "processing"
                   THEN "superseded" ELSE receipt[j]]

\* _terminal_receipt
Resolve(w, as) ==
  /\ receipt' = [receipt EXCEPT ![JobOf(w)] = as]
  /\ receiptWorker' = [receiptWorker EXCEPT ![JobOf(w)] = w]

Goto(w, to) == pc' = [pc EXCEPT ![w] = to] /\ UNCHANGED <<held, claimed>>

-----------------------------------------------------------------------------
\* Users (agent_repository.py, and the run half of approval decisions)

\* create_run: a second request with the same idempotency key finds the run
\* and changes nothing.
CreateRun(r, j) ==
  /\ status[r] = "absent"
  /\ Enqueue(r, j)
  /\ status' = [status EXCEPT ![r] = "queued"]
  /\ UNCHANGED <<attempt, cancelReq, owner, lease, requeues,
                 queueVars, rcptVars, workerVars, faults>>

\* cancel_run on a running run only records the request.
RequestCancel(r) ==
  /\ status[r] = "running"
  /\ ~cancelReq[r]
  /\ cancelReq' = [cancelReq EXCEPT ![r] = TRUE]
  /\ UNCHANGED <<status, attempt, owner, lease, requeues,
                 outboxVars, queueVars, rcptVars, workerVars, faults>>

\* cancel_run on a queued or waiting run cancels it at once.
CancelNow(r) ==
  /\ status[r] \in {"queued", "waiting_for_approval"}
  /\ Release(r, "cancelled")
  /\ cancelReq' = [cancelReq EXCEPT ![r] = TRUE]
  /\ UNCHANGED <<attempt, requeues,
                 outboxVars, queueVars, rcptVars, workerVars, faults>>

\* Mutant of ApprovalGranted: the run is queued, its job is forgotten.
ApprovalGrantedNoJob(r, j) ==
  /\ status[r] = "waiting_for_approval"
  /\ Requeue(r)
  /\ UNCHANGED <<outboxVars, attempt, cancelReq, queueVars, rcptVars, workerVars, faults>>

\* decide_approval, approved: the run is queued again with a new job.
ApprovalGranted(r, j) ==
  /\ status[r] = "waiting_for_approval"
  /\ Enqueue(r, j)
  /\ Requeue(r)
  /\ UNCHANGED <<attempt, cancelReq, queueVars, rcptVars, workerVars, faults>>

\* An approval of the run is rejected, expires or is invalidated.  It may hit
\* a running run, whose worker and receipt are left as they are.
ApprovalRefused(r) ==
  /\ status[r] \in {"running", "waiting_for_approval"}
  /\ Release(r, "cancelled")
  /\ UNCHANGED <<attempt, cancelReq, requeues,
                 outboxVars, queueVars, rcptVars, workerVars, faults>>

-----------------------------------------------------------------------------
\* The worker's loop before it reads a message (recover_stale, publish_batch).
\* A batch commits its rows together; the rows are independent of each other,
\* so each is a step here.

\* Mutant of RecoverExpired: the receipts of the lost attempt stay open.
RecoverExpiredKeepsReceipts(w, r, j) ==
  /\ pc[w] = "idle"
  /\ status[r] = "running"
  /\ SeenExpired(r)
  /\ Enqueue(r, j)
  /\ Requeue(r)
  /\ UNCHANGED <<attempt, cancelReq, queueVars, rcptVars, workerVars, faults>>

RecoverExpired(w, r, j) ==
  /\ pc[w] = "idle"
  /\ status[r] = "running"
  /\ SeenExpired(r)
  /\ Enqueue(r, j)
  /\ Requeue(r)
  /\ receipt' = Superseded(r)
  /\ UNCHANGED <<attempt, cancelReq, queueVars, receiptWorker, workerVars, faults>>

\* Mutant of RequeueOrphan: a published row counts as on its way.
RequeueOrphanNeverPublished(w, r, j) ==
  /\ pc[w] = "idle"
  /\ status[r] = "queued"
  /\ \A k \in Job : jobRun[k] = r => outbox[k] = "dead_lettered"
  /\ Enqueue(r, j)
  /\ UNCHANGED <<runVars, queueVars, rcptVars, workerVars, faults>>

\* A run queued for longer than orphan_seconds that has no row left to publish
\* gets a new job.  When its message is only late, the requeue is a fault: the
\* queue was slower than the safety window.
RequeueOrphan(w, r, j) ==
  /\ pc[w] = "idle"
  /\ status[r] = "queued"
  /\ Unpublished(r) = {}
  /\ IF Deliverable(r) = {} THEN UNCHANGED faults ELSE Fault
  /\ Enqueue(r, j)
  /\ UNCHANGED <<runVars, queueVars, rcptVars, workerVars>>

Publish(w, j) ==
  /\ pc[w] = "idle"
  /\ outbox[j] = "unpublished"
  /\ Send(j)
  /\ outbox' = [outbox EXCEPT ![j] = "published"]
  /\ UNCHANGED <<jobRun, failures, runVars, rcptVars, workerVars, faults>>

\* XADD fails, or succeeds and its answer is lost.  The row is retried later,
\* and given up after MaxPublishAttempts.
PublishFails(w, j, delivered) ==
  /\ pc[w] = "idle"
  /\ outbox[j] = "unpublished"
  /\ Fault
  /\ IF delivered THEN Send(j) ELSE UNCHANGED queueVars
  /\ failures' = [failures EXCEPT ![j] = @ + 1]
  /\ outbox' = [outbox EXCEPT ![j] =
                  IF failures[j] + 1 >= MaxPublishAttempts
                    THEN "dead_lettered" ELSE "unpublished"]
  /\ UNCHANGED <<jobRun, runVars, rcptVars, workerVars>>

\* XADD succeeds and the transaction that would mark the row does not commit.
PublishUncommitted(w, j) ==
  /\ pc[w] = "idle"
  /\ outbox[j] = "unpublished"
  /\ Fault
  /\ Send(j)
  /\ UNCHANGED <<outboxVars, runVars, rcptVars, workerVars>>

-----------------------------------------------------------------------------
\* Delivery (_read_message, _ack)

\* XREADGROUP of a new entry
Deliver(w, m) ==
  /\ pc[w] = "idle"
  /\ m \in stream
  /\ stream' = stream \ {m}
  /\ pending' = pending \cup {m}
  /\ pc' = [pc EXCEPT ![w] = "claiming"]
  /\ held' = [held EXCEPT ![w] = m]
  /\ UNCHANGED <<claimed, copies, runVars, outboxVars, rcptVars, faults>>

\* XCLAIM of an entry idle for lease_seconds.  The heartbeat renews the leases
\* in PostgreSQL and not the idle time in Redis, so an entry whose worker is
\* well and executing is taken too.
Reclaim(w, m) ==
  /\ pc[w] = "idle"
  /\ m \in pending
  /\ pc' = [pc EXCEPT ![w] = "claiming"]
  /\ held' = [held EXCEPT ![w] = m]
  /\ UNCHANGED <<claimed, queueVars, runVars, outboxVars, rcptVars, faults>>

\* XACK and XDEL by entry id, whoever holds the entry
Ack(w) ==
  /\ pc[w] = "acking"
  /\ pending' = pending \ {held[w]}
  /\ stream' = stream \ {held[w]}
  /\ pc' = [pc EXCEPT ![w] = "idle"]
  /\ held' = [held EXCEPT ![w] = NoMessage]
  /\ claimed' = [claimed EXCEPT ![w] = 0]
  /\ UNCHANGED <<copies, runVars, outboxVars, rcptVars, faults>>

-----------------------------------------------------------------------------
\* claim: one transaction that locks the outbox row, the receipt and the run.
\* Its cases, in the order the code tests them.

\* The row was given up, or this job was resolved before.
ClaimResolved(w) ==
  /\ pc[w] = "claiming"
  /\ \/ outbox[JobOf(w)] = "dead_lettered"
     \/ receipt[JobOf(w)] \notin {"none", "processing"}
  /\ Goto(w, "acking")
  /\ UNCHANGED <<runVars, outboxVars, queueVars, rcptVars, faults>>

\* Mutant of Claimable: a resolved receipt does not end the claim.
ClaimableResolved(w) ==
  /\ pc[w] = "claiming"
  /\ outbox[JobOf(w)] # "dead_lettered"

\* The job can still be resolved.
Claimable(w) ==
  /\ pc[w] = "claiming"
  /\ outbox[JobOf(w)] # "dead_lettered"
  /\ receipt[JobOf(w)] \in {"none", "processing"}

ClaimTerminal(w) ==
  /\ Claimable(w)
  /\ status[RunOf(w)] \in Terminal
  /\ Resolve(w, status[RunOf(w)])
  /\ Goto(w, "acking")
  /\ UNCHANGED <<runVars, outboxVars, queueVars, faults>>

ClaimWaiting(w) ==
  /\ Claimable(w)
  /\ status[RunOf(w)] = "waiting_for_approval"
  /\ Resolve(w, "superseded")
  /\ Goto(w, "acking")
  /\ UNCHANGED <<runVars, outboxVars, queueVars, faults>>

\* Another worker is executing this very job.
ClaimInProgress(w) ==
  /\ Claimable(w)
  /\ receipt[JobOf(w)] = "processing"
  /\ status[RunOf(w)] = "running"
  /\ SeenLive(RunOf(w))
  /\ Goto(w, "acking")
  /\ UNCHANGED <<runVars, outboxVars, queueVars, rcptVars, faults>>

\* Another worker is executing the run for another job.
ClaimBusy(w) ==
  /\ Claimable(w)
  /\ receipt[JobOf(w)] = "none"
  /\ status[RunOf(w)] = "running"
  /\ SeenLive(RunOf(w))
  /\ Resolve(w, "superseded")
  /\ Goto(w, "acking")
  /\ UNCHANGED <<runVars, outboxVars, queueVars, faults>>

\* Mutant of Startable: a delivered job resumes a run that waits.
StartableWaiting(w) ==
  /\ Claimable(w)
  /\ \/ status[RunOf(w)] \in {"queued", "waiting_for_approval"}
     \/ status[RunOf(w)] = "running" /\ SeenExpired(RunOf(w))

\* The run is queued, or its worker lost the lease and it is taken over: its
\* receipts are superseded and it is queued again before it is started.
Startable(w) ==
  /\ Claimable(w)
  /\ \/ status[RunOf(w)] = "queued"
     \/ status[RunOf(w)] = "running" /\ SeenExpired(RunOf(w))

RequeuedBefore(r) ==
  requeues' = [requeues EXCEPT ![r] = IF status[r] = "running" THEN @ + 1 ELSE @]

ReceiptsBefore(r) == IF status[r] = "running" THEN Superseded(r) ELSE receipt

ClaimCancelled(w) ==
  /\ Startable(w)
  /\ cancelReq[RunOf(w)]
  /\ Release(RunOf(w), "cancelled")
  /\ RequeuedBefore(RunOf(w))
  /\ receipt' = [ReceiptsBefore(RunOf(w)) EXCEPT ![JobOf(w)] = "cancelled"]
  /\ receiptWorker' = [receiptWorker EXCEPT ![JobOf(w)] = w]
  /\ Goto(w, "acking")
  /\ UNCHANGED <<attempt, cancelReq, outboxVars, queueVars, faults>>

\* Mutant of ClaimStarts: taking a lost run over is not a new attempt.
ClaimStartsSameAttempt(w) ==
  LET r == RunOf(w)
      n == IF status[r] = "running" THEN attempt[r] ELSE attempt[r] + 1
  IN
  /\ Startable(w)
  /\ ~cancelReq[r]
  /\ status' = [status EXCEPT ![r] = "running"]
  /\ attempt' = [attempt EXCEPT ![r] = n]
  /\ owner' = [owner EXCEPT ![r] = w]
  /\ lease' = [lease EXCEPT ![r] = "live"]
  /\ RequeuedBefore(r)
  /\ receipt' = [ReceiptsBefore(r) EXCEPT ![JobOf(w)] = "processing"]
  /\ receiptWorker' = [receiptWorker EXCEPT ![JobOf(w)] = w]
  /\ pc' = [pc EXCEPT ![w] = "executing"]
  /\ claimed' = [claimed EXCEPT ![w] = n]
  /\ UNCHANGED <<held, cancelReq, outboxVars, queueVars, faults>>

ClaimStarts(w) ==
  LET r == RunOf(w) IN
  /\ Startable(w)
  /\ ~cancelReq[r]
  /\ status' = [status EXCEPT ![r] = "running"]
  /\ attempt' = [attempt EXCEPT ![r] = @ + 1]
  /\ owner' = [owner EXCEPT ![r] = w]
  /\ lease' = [lease EXCEPT ![r] = "live"]
  /\ RequeuedBefore(r)
  /\ receipt' = [ReceiptsBefore(r) EXCEPT ![JobOf(w)] = "processing"]
  /\ receiptWorker' = [receiptWorker EXCEPT ![JobOf(w)] = w]
  /\ pc' = [pc EXCEPT ![w] = "executing"]
  /\ claimed' = [claimed EXCEPT ![w] = attempt[r] + 1]
  /\ UNCHANGED <<held, cancelReq, outboxVars, queueVars, faults>>

-----------------------------------------------------------------------------
\* The executor returned or raised (process_once): one completing transaction.

\* _owned_processing found the run, the receipt and both leases in order.
Completing(w) == pc[w] = "executing" /\ Owns(w) /\ SeenLive(RunOf(w))

\* Every completion of a run whose cancellation was requested cancels it.
CompleteCancelled(w) ==
  /\ Completing(w)
  /\ cancelReq[RunOf(w)]
  /\ Release(RunOf(w), "cancelled")
  /\ Resolve(w, "cancelled")
  /\ Goto(w, "acking")
  /\ UNCHANGED <<attempt, cancelReq, requeues, outboxVars, queueVars, faults>>

CompleteSuccess(w) ==
  /\ Completing(w)
  /\ ~cancelReq[RunOf(w)]
  /\ Release(RunOf(w), "succeeded")
  /\ receipt' = [receipt EXCEPT ![JobOf(w)] = "succeeded"]
  /\ Goto(w, "acking")
  /\ UNCHANGED <<attempt, cancelReq, requeues, receiptWorker,
                 outboxVars, queueVars, faults>>

\* complete_failure of a retryable error: a new job after a delay
CompleteRetry(w, j) ==
  /\ Completing(w)
  /\ ~cancelReq[RunOf(w)]
  /\ attempt[RunOf(w)] < MaxRunAttempts
  /\ Enqueue(RunOf(w), j)
  /\ Requeue(RunOf(w))
  /\ receipt' = [receipt EXCEPT ![JobOf(w)] = "failed"]
  /\ Goto(w, "acking")
  /\ UNCHANGED <<attempt, cancelReq, receiptWorker, queueVars, faults>>

\* complete_failure of a terminal error, or of the last attempt
CompleteFailure(w) ==
  /\ Completing(w)
  /\ ~cancelReq[RunOf(w)]
  /\ Release(RunOf(w), "failed")
  /\ receipt' = [receipt EXCEPT ![JobOf(w)] = "failed"]
  /\ Goto(w, "acking")
  /\ UNCHANGED <<attempt, cancelReq, requeues, receiptWorker,
                 outboxVars, queueVars, faults>>

\* Mutant of WaitForApproval: a requested cancellation is not looked at.
WaitForApprovalUncancelled(w) ==
  /\ Completing(w)
  /\ attempt[RunOf(w)] < MaxParks
  /\ Release(RunOf(w), "waiting_for_approval")
  /\ receipt' = [receipt EXCEPT ![JobOf(w)] = "superseded"]
  /\ Goto(w, "acking")
  /\ UNCHANGED <<attempt, cancelReq, requeues, receiptWorker,
                 outboxVars, queueVars, faults>>

\* wait_for_approval with its approval still pending
WaitForApproval(w) ==
  /\ Completing(w)
  /\ ~cancelReq[RunOf(w)]
  /\ attempt[RunOf(w)] < MaxParks
  /\ Release(RunOf(w), "waiting_for_approval")
  /\ receipt' = [receipt EXCEPT ![JobOf(w)] = "superseded"]
  /\ Goto(w, "acking")
  /\ UNCHANGED <<attempt, cancelReq, requeues, receiptWorker,
                 outboxVars, queueVars, faults>>

\* The worker lost the run, or the approval it asks for is no longer pending:
\* nothing is written and the message is not acknowledged.
NotHandled(w) ==
  /\ pc' = [pc EXCEPT ![w] = "idle"]
  /\ held' = [held EXCEPT ![w] = NoMessage]
  /\ claimed' = [claimed EXCEPT ![w] = 0]
  /\ UNCHANGED <<runVars, outboxVars, queueVars, rcptVars, faults>>

CompletionLost(w) ==
  /\ pc[w] = "executing"
  /\ ~Owns(w) \/ SeenExpired(RunOf(w))
  /\ NotHandled(w)

WaitRefused(w) ==
  /\ Completing(w)
  /\ ~cancelReq[RunOf(w)]
  /\ attempt[RunOf(w)] < MaxParks
  /\ NotHandled(w)

-----------------------------------------------------------------------------
\* Leases, heartbeats and faults

\* renew_lease of a live lease leaves it live.  This one began before the
\* lease ran out and commits after.
RenewLease(w) ==
  /\ pc[w] = "executing"
  /\ Owns(w)
  /\ lease[RunOf(w)] = "lapsed"
  /\ lease' = [lease EXCEPT ![RunOf(w)] = "live"]
  /\ UNCHANGED <<status, attempt, cancelReq, owner, requeues,
                 outboxVars, queueVars, rcptVars, workerVars, faults>>

LapseOf(r) ==
  /\ lease[r] = "live"
  /\ lease' = [lease EXCEPT ![r] = "lapsed"]
  /\ UNCHANGED <<status, attempt, cancelReq, owner, requeues,
                 outboxVars, queueVars, rcptVars, workerVars>>

\* Nobody renews the lease any more.
LeaseLapses(r) == ~Attended(r) /\ LapseOf(r) /\ UNCHANGED faults

\* The heartbeat of a live executor raised, or its process stalled too long.
HeartbeatFails(r) == Attended(r) /\ LapseOf(r) /\ Fault

\* Every transaction that saw the lease live has ended.
LeaseExpires(r) ==
  /\ lease[r] = "lapsed"
  /\ lease' = [lease EXCEPT ![r] = "expired"]
  /\ UNCHANGED <<status, attempt, cancelReq, owner, requeues,
                 outboxVars, queueVars, rcptVars, workerVars, faults>>

\* A worker process dies or is shut down in the middle of anything; the
\* deployment keeps at least one other worker running.
Crash(w) ==
  /\ pc[w] # "dead"
  /\ \E v \in Worker \ {w} : pc[v] # "dead"
  /\ Fault
  /\ pc' = [pc EXCEPT ![w] = "dead"]
  /\ held' = [held EXCEPT ![w] = NoMessage]
  /\ claimed' = [claimed EXCEPT ![w] = 0]
  /\ UNCHANGED <<runVars, outboxVars, queueVars, rcptVars>>

\* A claim, a completion or an acknowledgement raises (a timeout, a lost
\* connection): WorkerRuntime.run backs off and goes on with its loop, while the
\* lease it may hold is live and the message is pending.
StepRaises(w) ==
  /\ pc[w] \in {"claiming", "executing", "acking"}
  /\ Fault
  /\ pc' = [pc EXCEPT ![w] = "idle"]
  /\ held' = [held EXCEPT ![w] = NoMessage]
  /\ claimed' = [claimed EXCEPT ![w] = 0]
  /\ UNCHANGED <<runVars, outboxVars, queueVars, rcptVars>>

\* Redis restarts with an empty stream.
RedisLoss ==
  /\ stream \cup pending # {}
  /\ Fault
  /\ stream' = {}
  /\ pending' = {}
  /\ UNCHANGED <<copies, runVars, outboxVars, rcptVars, workerVars>>

-----------------------------------------------------------------------------
UserStep ==
  \/ \E r \in Run : RequestCancel(r) \/ CancelNow(r) \/ ApprovalRefused(r)
  \/ \E r \in Run, j \in Job : CreateRun(r, j) \/ ApprovalGranted(r, j)

RecoveryStep(w) ==
  \/ \E r \in Run, j \in Job : RecoverExpired(w, r, j) \/ RequeueOrphan(w, r, j)
  \/ \E j \in Job : Publish(w, j)

DeliveryStep(w) ==
  \/ \E m \in stream : Deliver(w, m)
  \/ \E m \in pending : Reclaim(w, m)
  \/ Ack(w)

ClaimStep(w) ==
  \/ ClaimResolved(w)
  \/ ClaimTerminal(w)
  \/ ClaimWaiting(w)
  \/ ClaimInProgress(w)
  \/ ClaimBusy(w)
  \/ ClaimCancelled(w)
  \/ ClaimStarts(w)

CompletionStep(w) ==
  \/ CompleteCancelled(w)
  \/ CompleteSuccess(w)
  \/ \E j \in Job : CompleteRetry(w, j)
  \/ CompleteFailure(w)
  \/ WaitForApproval(w)
  \/ CompletionLost(w)
  \/ WaitRefused(w)

WorkerStep(w) ==
  RecoveryStep(w) \/ DeliveryStep(w) \/ ClaimStep(w) \/ CompletionStep(w)

ClockStep(r) == LeaseLapses(r) \/ LeaseExpires(r)

FaultStep ==
  \/ \E w \in Worker : RenewLease(w) \/ Crash(w) \/ StepRaises(w)
  \/ \E w \in Worker, j \in Job :
       PublishUncommitted(w, j) \/ \E d \in BOOLEAN : PublishFails(w, j, d)
  \/ \E r \in Run : HeartbeatFails(r)
  \/ RedisLoss

Next ==
  \/ UserStep
  \/ \E w \in Worker : WorkerStep(w)
  \/ \E r \in Run : ClockStep(r)
  \/ FaultStep

Spec == Init /\ [][Next]_vars

\* A live worker keeps looping (WorkerRuntime.run) and time passes; users,
\* approvers and faults owe nothing.
Fairness ==
  /\ \A w \in Worker : WF_vars(WorkerStep(w))
  /\ \A r \in Run : WF_vars(ClockStep(r))

FairSpec == Spec /\ Fairness

-----------------------------------------------------------------------------
\* Properties

(* A running run is held by exactly one receipt: the processing receipt of  *)
(* the job its lease owner claimed; a queued or waiting run is held by no   *)
(* receipt (claim, complete_*, recover_stale and decide_approval keep the   *)
(* two tables in step although each writes them in a different order).      *)
OwnerHoldsReceipt ==
  \A r \in Run :
    LET holding == {j \in Job : jobRun[j] = r /\ receipt[j] = "processing"} IN
    /\ status[r] = "running" =>
         \E j \in holding : holding = {j} /\ receiptWorker[j] = owner[r]
    /\ status[r] \in {"absent", "queued", "waiting_for_approval"} => holding = {}

(* No two workers pass the execution fence of one run, although the fence   *)
(* compares attempts and receipts and never the worker itself.              *)
OneExecutor ==
  \A v, w \in Worker :
    Fenced(v) /\ Fenced(w) /\ RunOf(v) = RunOf(w) => v = w

(* "Duplicate deliveries are harmless": a run is started once for its       *)
(* creation and once for every time it went back to the queue, whatever     *)
(* copies of its jobs, orphan jobs and reclaimed entries arrive.            *)
NoSpuriousAttempt ==
  \A r \in Run : attempt[r] <= 1 + requeues[r] - (IF status[r] = "queued" THEN 1 ELSE 0)

(* A queued run always has a job that no worker has consumed yet: whatever  *)
(* is acknowledged, the run is at worst orphaned, never lost.               *)
QueuedRunHasJob ==
  \A r \in Run : status[r] = "queued" =>
    \E j \in Job : jobRun[j] = r /\ receipt[j] = "none"

(* A receipt that was resolved is never reopened or rewritten, so a job     *)
(* delivered again after it was resolved cannot start or finish anything.   *)
ReceiptsFinal ==
  [][\A j \in Job : receipt[j] \notin {"none", "processing"} =>
       receipt'[j] = receipt[j] /\ receiptWorker'[j] = receiptWorker[j]]_vars

(* A run someone asked for is eventually finished or parked behind an       *)
(* approval, through crashes, lost streams, dead-lettered rows and stalls.  *)
RunsSettle ==
  \A r \in Run :
    status[r] \in {"queued", "running"} ~>
      status[r] \in Terminal \cup {"waiting_for_approval"}

(* A requested cancellation is eventually carried out.                      *)
CancelsHappen == \A r \in Run : cancelReq[r] ~> status[r] \in Terminal

\* The task of a worker, as the contract sees it
task ==
  [w \in Worker |->
     IF pc[w] = "executing"
       THEN [run |-> RunOf(w), attempt |-> claimed[w]]
       ELSE [run |-> "none", attempt |-> 0]]

Contract == INSTANCE RunContract

(* The queue, the leases, the receipts and the outbox implement the         *)
(* contract of the run state machine.                                       *)
ImplementsContract == Contract!Spec
=============================================================================
