-------------------------- MODULE RunLifecycleProofs --------------------------
(***************************************************************************)
(* Proofs about RunLifecycle for any runs, any workers and any bounds.     *)
(*                                                                         *)
(* The argument is one inductive invariant in four parts, each proved from *)
(* the parts before it:                                                    *)
(*   TypeOK and JobsKnown    every job in Redis or in a worker's hands is  *)
(*                           a row of the outbox, and so has a run;        *)
(*   AttemptsDistinct        no two executing workers hold one attempt;    *)
(*   OwnerHoldsReceipt       the run row and the receipts agree.           *)
(***************************************************************************)
EXTENDS RunLifecycle, TLAPS

Busy == {"claiming", "executing", "acking"}

\* Nothing refers to a job before its row is inserted.
JobsKnown ==
  /\ \A j \in Job : outbox[j] # "absent" => jobRun[j] \in Run
  /\ \A j \in Job : outbox[j] = "absent" => jobRun[j] = NoRun /\ receipt[j] = "none"
  /\ \A m \in stream \cup pending : outbox[m.job] # "absent"
  /\ \A w \in Worker : pc[w] \in Busy => held[w] \in Message /\ outbox[JobOf(w)] # "absent"

TypeInv == TypeOK /\ JobsKnown

\* A worker that is not idle holds a job, and the job has a run.
LEMMA HeldJob ==
  ASSUME TypeInv, NEW w \in Worker, pc[w] \in Busy
  PROVE  JobOf(w) \in Job /\ RunOf(w) \in Run
BY DEF TypeInv, TypeOK, JobsKnown, JobOf, RunOf, Message

\* A job that is sent is a message about a row that was inserted.
LEMMA SendKnown ==
  ASSUME TypeInv, NEW j \in Job, Send(j), outbox[j] # "absent"
  PROVE  /\ copies' \in [Job -> Nat]
         /\ stream' \in SUBSET Message /\ pending' \in SUBSET Message
         /\ \A m \in stream' \cup pending' : outbox[m.job] # "absent"
BY DEF TypeInv, TypeOK, JobsKnown, Send, Message

\* Faults are counted up to their bound.
LEMMA FaultCount == TypeInv /\ Fault => faults' \in 0..MaxFaults
BY BoundsAssumption DEF TypeInv, TypeOK, Fault

\* The initial state is well typed, and refers to no job.
LEMMA TypeInit == Init => TypeInv
<1> SUFFICES ASSUME Init PROVE TypeInv
  OBVIOUS
<1>1. TypeOK
  BY BoundsAssumption
     DEF Init, TypeOK, RunStatus, Lease, RowStatus, Receipts, PCs
<1>2. JobsKnown
  BY DEF Init, JobsKnown, Busy
<1> QED BY <1>1, <1>2 DEF TypeInv

-----------------------------------------------------------------------------
\* Every action preserves TypeInv; one step per action.

\* The users' transactions keep TypeInv.
LEMMA TypeUser == TypeInv /\ UserStep => TypeInv'
<1> SUFFICES ASSUME TypeInv, UserStep PROVE TypeInv'
  OBVIOUS
<1> USE DEF TypeInv, TypeOK, JobsKnown, RunStatus, Terminal, Lease, RowStatus, Receipts, PCs,
            JobOf, runVars, outboxVars, queueVars, rcptVars, workerVars,
            Release, Requeue, Enqueue, Fresh
<1>1. ASSUME NEW r \in Run, RequestCancel(r) PROVE TypeInv'
  BY <1>1 DEF RequestCancel
<1>2. ASSUME NEW r \in Run, CancelNow(r) PROVE TypeInv'
  BY <1>2 DEF CancelNow
<1>3. ASSUME NEW r \in Run, ApprovalRefused(r) PROVE TypeInv'
  BY <1>3 DEF ApprovalRefused
<1>4. ASSUME NEW r \in Run, NEW j \in Job, CreateRun(r, j) PROVE TypeInv'
  BY <1>4 DEF CreateRun
<1>5. ASSUME NEW r \in Run, NEW j \in Job, ApprovalGranted(r, j) PROVE TypeInv'
  BY <1>5 DEF ApprovalGranted
<1> QED BY <1>1, <1>2, <1>3, <1>4, <1>5 DEF UserStep

\* So do recovery and publication.
LEMMA TypeRecovery ==
  ASSUME TypeInv, NEW w \in Worker, RecoveryStep(w)
  PROVE  TypeInv'
<1> USE DEF TypeInv, TypeOK, JobsKnown, RunStatus, Terminal, Lease, RowStatus, Receipts, PCs,
            JobOf, runVars, outboxVars, queueVars, rcptVars, workerVars,
            Release, Requeue, Enqueue, Fresh, Superseded
<1>1. ASSUME NEW r \in Run, NEW j \in Job, RecoverExpired(w, r, j) PROVE TypeInv'
  BY <1>1 DEF RecoverExpired
<1>2. ASSUME NEW r \in Run, NEW j \in Job, RequeueOrphan(w, r, j) PROVE TypeInv'
  BY <1>2, FaultCount DEF RequeueOrphan
<1>3. ASSUME NEW j \in Job, Publish(w, j) PROVE TypeInv'
  BY <1>3, SendKnown DEF Publish
<1> QED BY <1>1, <1>2, <1>3 DEF RecoveryStep

\* So do the commands to Redis.
LEMMA TypeDelivery ==
  ASSUME TypeInv, NEW w \in Worker, DeliveryStep(w)
  PROVE  TypeInv'
<1> USE DEF TypeInv, TypeOK, JobsKnown, RunStatus, Terminal, Lease, RowStatus, Receipts, PCs,
            JobOf, runVars, outboxVars, queueVars, rcptVars, workerVars,
            Message, Busy
<1>1. ASSUME NEW m \in stream, Deliver(w, m) PROVE TypeInv'
  BY <1>1 DEF Deliver
<1>2. ASSUME NEW m \in pending, Reclaim(w, m) PROVE TypeInv'
  BY <1>2 DEF Reclaim
<1>3. ASSUME Ack(w) PROVE TypeInv'
  BY <1>3 DEF Ack
<1> QED BY <1>1, <1>2, <1>3 DEF DeliveryStep

\* So does every case of claim.
LEMMA TypeClaim ==
  ASSUME TypeInv, NEW w \in Worker, ClaimStep(w)
  PROVE  TypeInv'
<1> USE DEF TypeInv, TypeOK, JobsKnown, RunStatus, Terminal, Lease, RowStatus, Receipts, PCs,
            JobOf, runVars, outboxVars, queueVars, rcptVars, workerVars,
            Busy
<1>1. ASSUME ClaimResolved(w) PROVE TypeInv'
  BY <1>1, HeldJob DEF ClaimResolved, Goto
<1>2. ASSUME ClaimTerminal(w) PROVE TypeInv'
  BY <1>2, HeldJob DEF ClaimTerminal, Claimable, Resolve, Goto
<1>3. ASSUME ClaimWaiting(w) PROVE TypeInv'
  BY <1>3, HeldJob DEF ClaimWaiting, Claimable, Resolve, Goto
<1>4. ASSUME ClaimInProgress(w) PROVE TypeInv'
  BY <1>4, HeldJob DEF ClaimInProgress, Claimable, Resolve, Goto
<1>5. ASSUME ClaimBusy(w) PROVE TypeInv'
  BY <1>5, HeldJob DEF ClaimBusy, Claimable, Resolve, Goto
<1>6. ASSUME ClaimCancelled(w) PROVE TypeInv'
  BY <1>6, HeldJob DEF ClaimCancelled, Startable, Claimable, Goto, RequeuedBefore, ReceiptsBefore, Superseded, Release
<1>7. ASSUME ClaimStarts(w) PROVE TypeInv'
  BY <1>7, HeldJob DEF ClaimStarts, Startable, Claimable, Goto, RequeuedBefore, ReceiptsBefore, Superseded, Release
<1> QED BY <1>1, <1>2, <1>3, <1>4, <1>5, <1>6, <1>7 DEF ClaimStep

\* So does every completion.
LEMMA TypeCompletion ==
  ASSUME TypeInv, NEW w \in Worker, CompletionStep(w)
  PROVE  TypeInv'
<1> USE DEF TypeInv, TypeOK, JobsKnown, RunStatus, Terminal, Lease, RowStatus, Receipts, PCs,
            JobOf, runVars, outboxVars, queueVars, rcptVars, workerVars,
            Busy
<1>1. ASSUME CompleteCancelled(w) PROVE TypeInv'
  BY <1>1, HeldJob DEF CompleteCancelled, Completing, Resolve, Release, Requeue, Enqueue, Fresh, Goto
<1>2. ASSUME CompleteSuccess(w) PROVE TypeInv'
  BY <1>2, HeldJob DEF CompleteSuccess, Completing, Resolve, Release, Requeue, Enqueue, Fresh, Goto
<1>3. ASSUME NEW j \in Job, CompleteRetry(w, j) PROVE TypeInv'
  BY <1>3, HeldJob DEF CompleteRetry, Completing, Resolve, Release, Requeue, Enqueue, Fresh, Goto
<1>4. ASSUME CompleteFailure(w) PROVE TypeInv'
  BY <1>4, HeldJob DEF CompleteFailure, Completing, Resolve, Release, Requeue, Enqueue, Fresh, Goto
<1>5. ASSUME WaitForApproval(w) PROVE TypeInv'
  BY <1>5, HeldJob DEF WaitForApproval, Completing, Resolve, Release, Requeue, Enqueue, Fresh, Goto
<1>6. ASSUME CompletionLost(w) PROVE TypeInv'
  BY <1>6, HeldJob DEF CompletionLost, NotHandled
<1>7. ASSUME WaitRefused(w) PROVE TypeInv'
  BY <1>7, HeldJob DEF WaitRefused, Completing, NotHandled
<1> QED BY <1>1, <1>2, <1>3, <1>4, <1>5, <1>6, <1>7 DEF CompletionStep

\* So does the passing of time.
LEMMA TypeClock ==
  ASSUME TypeInv, NEW r \in Run, ClockStep(r)
  PROVE  TypeInv'
<1> USE DEF TypeInv, TypeOK, JobsKnown, RunStatus, Terminal, Lease, RowStatus, Receipts, PCs,
            JobOf, runVars, outboxVars, queueVars, rcptVars, workerVars,
            LapseOf, Busy
<1>1. ASSUME LeaseLapses(r) PROVE TypeInv'
  BY <1>1 DEF LeaseLapses
<1>2. ASSUME LeaseExpires(r) PROVE TypeInv'
  BY <1>2 DEF LeaseExpires
<1> QED BY <1>1, <1>2 DEF ClockStep

\* So do the faults.
LEMMA TypeFault ==
  ASSUME TypeInv, FaultStep
  PROVE  TypeInv'
<1> USE DEF TypeInv, TypeOK, JobsKnown, RunStatus, Terminal, Lease, RowStatus, Receipts, PCs,
            JobOf, runVars, outboxVars, queueVars, rcptVars, workerVars,
            LapseOf
<1>1. ASSUME NEW w \in Worker, RenewLease(w) PROVE TypeInv'
  BY <1>1 DEF RenewLease
<1>2. ASSUME NEW w \in Worker, Crash(w) \/ StepRaises(w) PROVE TypeInv'
  BY <1>2, FaultCount DEF Crash, StepRaises, Busy
<1>3. ASSUME NEW w \in Worker, NEW j \in Job, PublishUncommitted(w, j) PROVE TypeInv'
  BY <1>3, FaultCount, SendKnown DEF PublishUncommitted
<1>4. ASSUME NEW w \in Worker, NEW j \in Job, NEW d \in BOOLEAN, PublishFails(w, j, d) PROVE TypeInv'
  BY <1>4, FaultCount, SendKnown DEF PublishFails
<1>5. ASSUME NEW r \in Run, HeartbeatFails(r) PROVE TypeInv'
  BY <1>5, FaultCount DEF HeartbeatFails
<1>6. ASSUME RedisLoss PROVE TypeInv'
  BY <1>6, FaultCount DEF RedisLoss
<1> QED BY <1>1, <1>2, <1>3, <1>4, <1>5, <1>6 DEF FaultStep

\* Every state is well typed (TypeOK), and every message a worker or Redis
\* holds is about a row of the outbox (worker.py claims what it is handed).
THEOREM TypeCorrect == Spec => []TypeInv
<1>1. TypeInv /\ [Next]_vars => TypeInv'
  <2> SUFFICES ASSUME TypeInv, [Next]_vars PROVE TypeInv'
    OBVIOUS
  <2>1. CASE UserStep
    BY <2>1, TypeUser
  <2>2. ASSUME NEW w \in Worker, WorkerStep(w) PROVE TypeInv'
    BY <2>2, TypeRecovery, TypeDelivery, TypeClaim, TypeCompletion DEF WorkerStep
  <2>3. ASSUME NEW r \in Run, ClockStep(r) PROVE TypeInv'
    BY <2>3, TypeClock
  <2>4. CASE FaultStep
    BY <2>4, TypeFault
  <2>5. CASE UNCHANGED vars
    BY <2>5 DEF vars, runVars, outboxVars, queueVars, rcptVars, workerVars,
                TypeInv, TypeOK, JobsKnown, JobOf
  <2> QED BY <2>1, <2>2, <2>3, <2>4, <2>5 DEF Next
<1> QED BY TypeInit, <1>1, PTL DEF Spec

\* Every state is well typed: no handler writes a status that its table's
\* CHECK constraint refuses.
THEOREM TypeSafe == Spec => []TypeOK
BY TypeCorrect, PTL DEF TypeInv

-----------------------------------------------------------------------------
\* What most steps leave alone

\* The steps that move a run or resolve a receipt
MovingStep ==
  \/ \E r \in Run : CancelNow(r) \/ ApprovalRefused(r)
  \/ \E r \in Run, j \in Job : CreateRun(r, j) \/ ApprovalGranted(r, j)
  \/ \E w \in Worker, r \in Run, j \in Job : RecoverExpired(w, r, j)
  \/ \E w \in Worker :
       \/ ClaimTerminal(w)
       \/ ClaimWaiting(w)
       \/ ClaimBusy(w)
       \/ ClaimCancelled(w)
       \/ ClaimStarts(w)
       \/ CompleteCancelled(w)
       \/ CompleteSuccess(w)
       \/ CompleteFailure(w)
       \/ WaitForApproval(w)
  \/ \E w \in Worker, j \in Job : CompleteRetry(w, j)

\* A row of the outbox never changes its run, and rows are never deleted.
JobsKeepRun ==
  \A j \in Job : outbox[j] # "absent" => outbox'[j] # "absent" /\ jobRun'[j] = jobRun[j]

\* The run rows and the receipts, leases and requests to cancel apart
rowVars == <<status, attempt, owner, requeues, receipt, receiptWorker>>

\* Every other step of Next leaves the run rows and the receipts alone.
LEMMA Moving ==
  ASSUME TypeInv, [Next]_vars
  PROVE  MovingStep \/ UNCHANGED rowVars
<1> USE DEF MovingStep, rowVars, runVars, outboxVars, queueVars, rcptVars, workerVars
<1>1. CASE UserStep
  BY <1>1 DEF UserStep, RequestCancel
<1>2. ASSUME NEW w \in Worker, RecoveryStep(w) PROVE MovingStep \/ UNCHANGED rowVars
  BY <1>2 DEF RecoveryStep, RequeueOrphan, Publish
<1>3. ASSUME NEW w \in Worker, DeliveryStep(w) PROVE MovingStep \/ UNCHANGED rowVars
  BY <1>3 DEF DeliveryStep, Deliver, Reclaim, Ack
<1>4. ASSUME NEW w \in Worker, ClaimStep(w) PROVE MovingStep \/ UNCHANGED rowVars
  BY <1>4 DEF ClaimStep, ClaimResolved, ClaimInProgress
<1>5. ASSUME NEW w \in Worker, CompletionStep(w) PROVE MovingStep \/ UNCHANGED rowVars
  BY <1>5 DEF CompletionStep, CompletionLost, WaitRefused, NotHandled
<1>6. ASSUME NEW r \in Run, ClockStep(r) PROVE MovingStep \/ UNCHANGED rowVars
  BY <1>6 DEF ClockStep, LeaseLapses, LeaseExpires, LapseOf
<1>7. CASE FaultStep
  BY <1>7 DEF FaultStep, RenewLease, Crash, StepRaises, PublishUncommitted, PublishFails,
              HeartbeatFails, LapseOf, RedisLoss
<1>8. CASE UNCHANGED vars
  BY <1>8 DEF vars
<1> QED BY <1>1, <1>2, <1>3, <1>4, <1>5, <1>6, <1>7, <1>8 DEF Next, WorkerStep

\* Only an inserted row gets a run.
LEMMA EnqueueKeepsRun ==
  ASSUME TypeInv, NEW r \in Run, NEW j \in Job, Enqueue(r, j)
  PROVE  JobsKeepRun
BY DEF TypeInv, TypeOK, Enqueue, Fresh, JobsKeepRun

\* No step of Next gives a row another run.
LEMMA KeepRun ==
  ASSUME TypeInv, [Next]_vars
  PROVE  JobsKeepRun
<1> USE DEF JobsKeepRun, runVars, outboxVars, queueVars, rcptVars, workerVars
<1>1. CASE UserStep
  BY <1>1, EnqueueKeepsRun
     DEF UserStep, RequestCancel, CancelNow, ApprovalRefused, CreateRun, ApprovalGranted
<1>2. ASSUME NEW w \in Worker, RecoveryStep(w) PROVE JobsKeepRun
  BY <1>2, EnqueueKeepsRun DEF RecoveryStep, RecoverExpired, RequeueOrphan, Publish, TypeInv, TypeOK
<1>3. ASSUME NEW w \in Worker, DeliveryStep(w) PROVE JobsKeepRun
  BY <1>3 DEF DeliveryStep, Deliver, Reclaim, Ack
<1>4. ASSUME NEW w \in Worker, ClaimStep(w) PROVE JobsKeepRun
  BY <1>4 DEF ClaimStep, ClaimResolved, ClaimTerminal, ClaimWaiting, ClaimInProgress,
              ClaimBusy, ClaimCancelled, ClaimStarts
<1>5. ASSUME NEW w \in Worker, CompletionStep(w) PROVE JobsKeepRun
  <2>1. ASSUME NEW j \in Job, CompleteRetry(w, j) PROVE JobsKeepRun
    BY <2>1, EnqueueKeepsRun, HeldJob DEF CompleteRetry, Completing, Busy
  <2> QED
    BY <1>5, <2>1 DEF CompletionStep, CompleteCancelled, CompleteSuccess, CompleteFailure,
                      WaitForApproval, CompletionLost, WaitRefused, NotHandled
<1>6. ASSUME NEW r \in Run, ClockStep(r) PROVE JobsKeepRun
  BY <1>6 DEF ClockStep, LeaseLapses, LeaseExpires, LapseOf
<1>7. CASE FaultStep
  BY <1>7 DEF FaultStep, RenewLease, Crash, StepRaises, PublishUncommitted, PublishFails,
              HeartbeatFails, LapseOf, RedisLoss, TypeInv, TypeOK
<1>8. CASE UNCHANGED vars
  BY <1>8 DEF vars
<1> QED BY <1>1, <1>2, <1>3, <1>4, <1>5, <1>6, <1>7, <1>8 DEF Next, WorkerStep

-----------------------------------------------------------------------------
\* The run row and its receipts

\* OwnerHoldsReceipt, job by job
Holds(r, j) == jobRun[j] = r /\ receipt[j] = "processing"

Held(r) ==
  /\ status[r] = "running" =>
       \E j \in Job : /\ Holds(r, j) /\ receiptWorker[j] = owner[r]
                      /\ \A k \in Job : Holds(r, k) => k = j
  /\ status[r] \in {"absent", "queued", "waiting_for_approval"} =>
       \A j \in Job : ~Holds(r, j)

HeldInv == \A r \in Run : Held(r)

\* The two forms say the same.
LEMMA HeldSame == HeldInv <=> OwnerHoldsReceipt
BY DEF HeldInv, Held, Holds, OwnerHoldsReceipt

\* A step keeps Held for the runs whose row and receipts it does not touch.
LEMMA HeldFrame ==
  ASSUME TypeInv, [Next]_vars, NEW r \in Run, Held(r),
         status'[r] = status[r], owner'[r] = owner[r],
         \A j \in Job : jobRun[j] = r /\ (receipt'[j] = "processing" \/ receipt[j] = "processing") =>
                          receipt'[j] = receipt[j] /\ receiptWorker'[j] = receiptWorker[j],
         \A j \in Job : outbox[j] = "absent" => receipt'[j] # "processing"
  PROVE  Held(r)'
<1>1. \A j \in Job : Holds(r, j)' <=> Holds(r, j)
  BY KeepRun DEF JobsKeepRun, Holds, TypeInv, TypeOK, JobsKnown
<1>2. \A j \in Job : Holds(r, j) => receiptWorker'[j] = receiptWorker[j]
  BY DEF Holds
<1> QED BY <1>1, <1>2 DEF Held, Holds

\* A step that leaves no processing receipt of a run that does not run.
LEMMA HeldNone ==
  ASSUME TypeInv, [Next]_vars, NEW r \in Run, status'[r] # "running",
         \A j \in Job : jobRun[j] = r => receipt'[j] # "processing",
         \A j \in Job : outbox[j] = "absent" => receipt'[j] # "processing"
  PROVE  Held(r)'
BY KeepRun DEF JobsKeepRun, Held, Holds, TypeInv, TypeOK, JobsKnown

\* A step that touches the rows of one run only needs a look at that run.
LEMMA HeldOthers ==
  ASSUME TypeInv, [Next]_vars, HeldInv, NEW r \in Run,
         \A q \in Run \ {r} : status'[q] = status[q] /\ owner'[q] = owner[q],
         \A j \in Job : jobRun[j] # r =>
           receipt'[j] = receipt[j] /\ receiptWorker'[j] = receiptWorker[j],
         Held(r)'
  PROVE  HeldInv'
<1> SUFFICES ASSUME NEW q \in Run, q # r PROVE Held(q)'
  BY DEF HeldInv
<1>1. \A j \in Job : outbox[j] = "absent" => receipt'[j] # "processing"
  BY NoRunAssumption DEF TypeInv, JobsKnown
<1> QED BY <1>1, HeldFrame DEF HeldInv

\* Moves by a user: the run does not run afterwards, its receipts stay.
LEMMA HeldUser ==
  ASSUME TypeInv, HeldInv, [Next]_vars, NEW r \in Run,
         \/ CancelNow(r) \/ ApprovalRefused(r)
         \/ \E j \in Job : CreateRun(r, j) \/ ApprovalGranted(r, j)
  PROVE  HeldInv'
<1> USE DEF TypeInv, TypeOK, Release, Requeue, rcptVars
<1>1. CASE ApprovalRefused(r)
  BY <1>1, HeldOthers DEF ApprovalRefused, Held
<1>2. CASE CancelNow(r) \/ \E j \in Job : CreateRun(r, j) \/ ApprovalGranted(r, j)
  <2>1. \A k \in Job : ~Holds(r, k)
    BY <1>2 DEF CancelNow, CreateRun, ApprovalGranted, HeldInv, Held
  <2>2. Held(r)'
    BY <1>2, <2>1, HeldNone DEF CancelNow, CreateRun, ApprovalGranted, Holds, JobsKnown
  <2> QED
    BY <1>2, <2>2, HeldOthers DEF CancelNow, CreateRun, ApprovalGranted
<1> QED BY <1>1, <1>2

\* recover_stale supersedes every processing receipt of the run.
LEMMA HeldRecover ==
  ASSUME TypeInv, HeldInv, [Next]_vars,
         NEW w \in Worker, NEW r \in Run, NEW j \in Job, RecoverExpired(w, r, j)
  PROVE  HeldInv'
<1> USE DEF TypeInv, TypeOK, Release, Requeue, rcptVars, RecoverExpired, Superseded
<1>1. Held(r)'
  BY HeldNone DEF JobsKnown
<1> QED BY <1>1, HeldOthers

\* The cases of claim that start nothing resolve one receipt: that of a
\* terminal or waiting run, or one that was not held.
LEMMA HeldClaim ==
  ASSUME TypeInv, HeldInv, [Next]_vars, NEW w \in Worker,
         ClaimTerminal(w) \/ ClaimWaiting(w) \/ ClaimBusy(w) \/ ClaimCancelled(w)
  PROVE  HeldInv'
<1> USE DEF TypeInv, TypeOK
<1>1. pc[w] \in Busy
  BY DEF ClaimTerminal, ClaimWaiting, ClaimBusy, ClaimCancelled, Startable, Claimable, Busy
<1> PICK r \in Run : r = RunOf(w)
  BY <1>1, HeldJob
<1>2. JobOf(w) \in Job /\ jobRun[JobOf(w)] = r /\ outbox[JobOf(w)] # "absent"
  BY <1>1, HeldJob DEF RunOf, JobsKnown
<1>3. CASE ClaimTerminal(w)
  BY <1>2, <1>3, HeldOthers
     DEF ClaimTerminal, Claimable, Resolve, runVars, Terminal, Held
<1>4. CASE ClaimWaiting(w)
  <2>1. Held(r)'
    BY <1>2, <1>4, HeldNone
       DEF ClaimWaiting, Claimable, Resolve, runVars, JobsKnown, HeldInv, Held, Holds
  <2> QED BY <1>2, <1>4, <2>1, HeldOthers DEF ClaimWaiting, Resolve, runVars
<1>5. CASE ClaimBusy(w)
  <2>1. Held(r)'
    BY <1>2, <1>5, HeldFrame
       DEF ClaimBusy, Claimable, Resolve, runVars, JobsKnown, HeldInv
  <2> QED BY <1>2, <1>5, <2>1, HeldOthers DEF ClaimBusy, Resolve, runVars
<1>6. CASE ClaimCancelled(w)
  <2>1. Held(r)'
    BY <1>2, <1>6 DEF ClaimCancelled, Release, Held
  <2> QED
    BY <1>2, <1>6, <2>1, HeldOthers DEF ClaimCancelled, Release, ReceiptsBefore, Superseded
<1> QED BY <1>3, <1>4, <1>5, <1>6

\* The started run is held by the receipt of the job that started it: there
\* was no other while it was queued, and all others are superseded when it is
\* taken over.
LEMMA HeldStart ==
  ASSUME TypeInv, HeldInv, [Next]_vars, NEW w \in Worker, ClaimStarts(w)
  PROVE  HeldInv'
<1> USE DEF TypeInv, TypeOK
<1> PICK r \in Run : r = RunOf(w)
  BY HeldJob DEF ClaimStarts, Startable, Claimable, Busy
<1>1. JobOf(w) \in Job /\ jobRun[JobOf(w)] = r /\ outbox[JobOf(w)] # "absent"
  BY HeldJob DEF RunOf, JobsKnown, ClaimStarts, Startable, Claimable, Busy
<1>2. \A k \in Job \ {JobOf(w)} : jobRun[k] = r => receipt'[k] # "processing"
  BY <1>1 DEF ClaimStarts, Startable, ReceiptsBefore, Superseded, HeldInv, Held, Holds
<1>3. receipt'[JobOf(w)] = "processing" /\ receiptWorker'[JobOf(w)] = owner'[r]
  BY <1>1 DEF ClaimStarts, ReceiptsBefore, Superseded
<1>4. UNCHANGED jobRun /\ status'[r] = "running"
  BY <1>1 DEF ClaimStarts, outboxVars
<1>5. Held(r)'
  BY <1>1, <1>2, <1>3, <1>4 DEF Held, Holds
<1> QED BY <1>1, <1>5, HeldOthers DEF ClaimStarts, ReceiptsBefore, Superseded

\* A completion resolves the one receipt that holds the run.
LEMMA HeldComplete ==
  ASSUME TypeInv, HeldInv, [Next]_vars, NEW w \in Worker,
         \/ CompleteCancelled(w) \/ CompleteSuccess(w) \/ CompleteFailure(w)
         \/ WaitForApproval(w) \/ \E j \in Job : CompleteRetry(w, j)
  PROVE  HeldInv'
<1> USE DEF TypeInv, TypeOK
<1>1. Completing(w)
  BY DEF CompleteCancelled, CompleteSuccess, CompleteFailure, WaitForApproval, CompleteRetry
<1> PICK r \in Run : r = RunOf(w)
  BY <1>1, HeldJob DEF Completing, Busy
<1>2. JobOf(w) \in Job /\ jobRun[JobOf(w)] = r /\ outbox[JobOf(w)] # "absent"
  BY <1>1, HeldJob DEF RunOf, JobsKnown, Completing, Busy
<1>3. \A k \in Job \ {JobOf(w)} : jobRun[k] = r => receipt[k] # "processing"
  BY <1>1, <1>2 DEF Completing, Owns, HeldInv, Held, Holds
<1>4. /\ \A q \in Run \ {r} : status'[q] = status[q] /\ owner'[q] = owner[q]
      /\ \A k \in Job \ {JobOf(w)} :
           receipt'[k] = receipt[k] /\ receiptWorker'[k] = receiptWorker[k]
      /\ receipt'[JobOf(w)] # "processing"
      /\ status'[r] # "running"
  BY <1>1, <1>2
     DEF CompleteCancelled, CompleteSuccess, CompleteFailure, WaitForApproval, CompleteRetry,
         Resolve, Release, Requeue
<1>5. Held(r)'
  BY <1>2, <1>3, <1>4, HeldNone DEF JobsKnown
<1> QED BY <1>2, <1>4, <1>5, HeldOthers

\* A running run is held by one receipt, that of its lease owner, and a queued
\* or waiting run by none (run_state.py, the four writers of receipts).
THEOREM OwnerHolds == Spec => []OwnerHoldsReceipt
<1>1. Init => HeldInv
  BY DEF Init, HeldInv, Held, Holds
<1>2. TypeInv /\ HeldInv /\ [Next]_vars => HeldInv'
  <2> SUFFICES ASSUME TypeInv, HeldInv, [Next]_vars PROVE HeldInv'
    OBVIOUS
  <2>1. CASE UNCHANGED rowVars
    <3>1. \A j \in Job : outbox[j] = "absent" => receipt'[j] # "processing"
      BY <2>1 DEF rowVars, TypeInv, JobsKnown
    <3>2. ASSUME NEW r \in Run PROVE Held(r)'
      BY <2>1, <3>1, HeldFrame DEF rowVars, HeldInv
    <3> QED BY <3>2 DEF HeldInv
  <2>2. CASE MovingStep
    BY <2>2, HeldUser, HeldRecover, HeldClaim, HeldStart, HeldComplete DEF MovingStep
  <2> QED BY <2>1, <2>2, Moving
<1>3. HeldInv => OwnerHoldsReceipt
  BY HeldSame
<1> QED BY <1>1, <1>2, <1>3, TypeCorrect, PTL DEF Spec

-----------------------------------------------------------------------------
\* Attempts

\* Executing workers hold attempts of the past or the present of their run,
\* and no two of them the same one.
AttemptsDistinct ==
  /\ \A w \in Worker : pc[w] = "executing" => claimed[w] \in 1..attempt[RunOf(w)]
  /\ \A v, w \in Worker :
       /\ pc[v] = "executing" /\ pc[w] = "executing"
       /\ RunOf(v) = RunOf(w) /\ claimed[v] = claimed[w]
       => v = w

\* The workers that are executing after a step were executing before it, or
\* the step is their claim.
LEMMA Executing ==
  ASSUME TypeInv, [Next]_vars, NEW w \in Worker, pc'[w] = "executing"
  PROVE  \/ ClaimStarts(w)
         \/ pc[w] = "executing" /\ claimed'[w] = claimed[w] /\ held'[w] = held[w]
<1> USE DEF TypeInv, TypeOK, Goto, workerVars
<1>1. CASE UserStep
  BY <1>1 DEF UserStep, RequestCancel, CancelNow, ApprovalRefused, CreateRun, ApprovalGranted
<1>2. ASSUME NEW v \in Worker, RecoveryStep(v)
      PROVE  pc[w] = "executing" /\ claimed'[w] = claimed[w] /\ held'[w] = held[w]
  BY <1>2 DEF RecoveryStep, RecoverExpired, RequeueOrphan, Publish
<1>3. ASSUME NEW v \in Worker, DeliveryStep(v)
      PROVE  pc[w] = "executing" /\ claimed'[w] = claimed[w] /\ held'[w] = held[w]
  BY <1>3 DEF DeliveryStep, Deliver, Reclaim, Ack
<1>4. ASSUME NEW v \in Worker, ClaimStep(v)
      PROVE  \/ ClaimStarts(w)
             \/ pc[w] = "executing" /\ claimed'[w] = claimed[w] /\ held'[w] = held[w]
  <2>1. CASE ClaimStarts(v)
    BY <2>1 DEF ClaimStarts
  <2> QED
    BY <1>4, <2>1 DEF ClaimStep, ClaimResolved, ClaimTerminal, ClaimWaiting, ClaimInProgress,
                      ClaimBusy, ClaimCancelled
<1>5. ASSUME NEW v \in Worker, CompletionStep(v)
      PROVE  pc[w] = "executing" /\ claimed'[w] = claimed[w] /\ held'[w] = held[w]
  BY <1>5 DEF CompletionStep, CompleteCancelled, CompleteSuccess, CompleteRetry,
              CompleteFailure, WaitForApproval, CompletionLost, WaitRefused, NotHandled
<1>6. ASSUME NEW r \in Run, ClockStep(r)
      PROVE  pc[w] = "executing" /\ claimed'[w] = claimed[w] /\ held'[w] = held[w]
  BY <1>6 DEF ClockStep, LeaseLapses, LeaseExpires, LapseOf
<1>7. CASE FaultStep
  BY <1>7 DEF FaultStep, RenewLease, Crash, StepRaises, PublishUncommitted, PublishFails,
              HeartbeatFails, LapseOf, RedisLoss
<1>8. CASE UNCHANGED vars
  BY <1>8 DEF vars
<1> QED BY <1>1, <1>2, <1>3, <1>4, <1>5, <1>6, <1>7, <1>8 DEF Next, WorkerStep

\* Only a claim changes the number of a run's attempts.
LEMMA Attempts ==
  ASSUME TypeInv, [Next]_vars
  PROVE  UNCHANGED attempt \/ \E w \in Worker : ClaimStarts(w)
BY Moving DEF MovingStep, rowVars, runVars, CancelNow, ApprovalRefused, CreateRun,
   ApprovalGranted, RecoverExpired, ClaimTerminal, ClaimWaiting, ClaimBusy, ClaimCancelled,
   CompleteCancelled, CompleteSuccess, CompleteFailure, WaitForApproval, CompleteRetry

\* Attempts stay distinct: a claim takes a number nobody had.
LEMMA AttemptsStep ==
  TypeInv /\ AttemptsDistinct /\ [Next]_vars => AttemptsDistinct'
<1> SUFFICES ASSUME TypeInv, AttemptsDistinct, [Next]_vars PROVE AttemptsDistinct'
  OBVIOUS
<1>1. ASSUME NEW w \in Worker, pc[w] = "executing", held'[w] = held[w]
      PROVE  RunOf(w)' = RunOf(w) /\ RunOf(w) \in Run
  BY <1>1, KeepRun, HeldJob DEF JobsKeepRun, RunOf, JobOf, TypeInv, JobsKnown, Busy
<1>2. CASE \A w \in Worker : ~ClaimStarts(w)
  BY <1>1, <1>2, Executing, Attempts DEF AttemptsDistinct
<1>3. ASSUME NEW v \in Worker, ClaimStarts(v) PROVE AttemptsDistinct'
  <2>1. RunOf(v) \in Run /\ RunOf(v)' = RunOf(v)
    BY <1>3, HeldJob
       DEF ClaimStarts, Startable, Claimable, Busy, outboxVars, RunOf, JobOf
  <2>2. /\ attempt' = [attempt EXCEPT ![RunOf(v)] = @ + 1]
        /\ pc'[v] = "executing" /\ claimed'[v] = attempt[RunOf(v)] + 1
        /\ pc[v] # "executing"
    BY <1>3 DEF ClaimStarts, Startable, Claimable, TypeInv, TypeOK
  <2>3. ASSUME NEW w \in Worker, w # v, pc'[w] = "executing"
        PROVE  /\ pc[w] = "executing" /\ claimed'[w] = claimed[w]
               /\ RunOf(w)' = RunOf(w) /\ RunOf(w) \in Run
    BY <1>1, <1>3, <2>3 DEF ClaimStarts, TypeInv, TypeOK
  <2> QED BY <2>1, <2>2, <2>3 DEF AttemptsDistinct, TypeInv, TypeOK
<1> QED BY <1>2, <1>3

\* The execution fence compares attempts and receipts and no worker, and yet
\* at most one worker passes it for a run (execution_fence.py).
THEOREM AtMostOneExecutor == Spec => []OneExecutor
<1>1. Init => AttemptsDistinct
  BY DEF Init, AttemptsDistinct
<1>2. AttemptsDistinct => OneExecutor
  BY DEF AttemptsDistinct, OneExecutor, Fenced
<1> QED BY <1>1, <1>2, AttemptsStep, TypeCorrect, PTL DEF Spec

\* A run is started at most once more often than it was queued again; one that
\* was not created was not started.
AttemptsEarned ==
  \A r \in Run :
    /\ attempt[r] <= 1 + requeues[r]
    /\ status[r] = "queued" => attempt[r] <= requeues[r]
    /\ status[r] = "absent" => attempt[r] = 0

\* Every step keeps AttemptsEarned.
LEMMA EarnedStep == TypeInv /\ AttemptsEarned /\ [Next]_vars => AttemptsEarned'
<1> SUFFICES ASSUME TypeInv, AttemptsEarned, [Next]_vars PROVE AttemptsEarned'
  OBVIOUS
<1> USE DEF TypeInv, TypeOK, AttemptsEarned, runVars, Release, Requeue
<1>1. CASE UNCHANGED rowVars
  BY <1>1 DEF rowVars
<1>2. ASSUME NEW r \in Run, CancelNow(r) \/ ApprovalRefused(r) PROVE AttemptsEarned'
  BY <1>2 DEF CancelNow, ApprovalRefused
<1>3. ASSUME NEW r \in Run, NEW j \in Job, CreateRun(r, j) PROVE AttemptsEarned'
  BY <1>3 DEF CreateRun
<1>4. ASSUME NEW r \in Run, NEW j \in Job, ApprovalGranted(r, j) PROVE AttemptsEarned'
  BY <1>4 DEF ApprovalGranted
<1>5. ASSUME NEW w \in Worker, NEW r \in Run, NEW j \in Job, RecoverExpired(w, r, j)
      PROVE  AttemptsEarned'
  BY <1>5 DEF RecoverExpired
<1>6. ASSUME NEW w \in Worker, ClaimTerminal(w) \/ ClaimWaiting(w) \/ ClaimBusy(w)
      PROVE  AttemptsEarned'
  BY <1>6 DEF ClaimTerminal, ClaimWaiting, ClaimBusy
<1>7. ASSUME NEW w \in Worker, ClaimCancelled(w) PROVE AttemptsEarned'
  BY <1>7 DEF ClaimCancelled, RequeuedBefore
<1>8. ASSUME NEW w \in Worker, ClaimStarts(w) PROVE AttemptsEarned'
  <2>1. RunOf(w) \in Run /\ status[RunOf(w)] \in {"queued", "running"}
    BY <1>8, HeldJob DEF ClaimStarts, Startable, Claimable, Busy
  <2> QED BY <1>8, <2>1 DEF ClaimStarts, RequeuedBefore
<1>9. ASSUME NEW w \in Worker,
             CompleteCancelled(w) \/ CompleteSuccess(w) \/ CompleteFailure(w) \/ WaitForApproval(w)
      PROVE  AttemptsEarned'
  BY <1>9 DEF CompleteCancelled, CompleteSuccess, CompleteFailure, WaitForApproval
<1>10. ASSUME NEW w \in Worker, NEW j \in Job, CompleteRetry(w, j) PROVE AttemptsEarned'
  BY <1>10 DEF CompleteRetry, Completing, Owns
<1> QED BY <1>1, <1>2, <1>3, <1>4, <1>5, <1>6, <1>7, <1>8, <1>9, <1>10, Moving DEF MovingStep

\* Duplicate deliveries, orphan jobs and reclaimed entries start no run once
\* more than it was queued (claim tests the run and not only its receipt).
THEOREM AttemptsAreEarned == Spec => []NoSpuriousAttempt
<1>1. Init => AttemptsEarned
  BY DEF Init, AttemptsEarned
<1>2. TypeInv /\ AttemptsEarned => NoSpuriousAttempt
  BY DEF AttemptsEarned, NoSpuriousAttempt, TypeInv, TypeOK
<1> QED BY <1>1, <1>2, EarnedStep, TypeCorrect, PTL DEF Spec

-----------------------------------------------------------------------------
\* Jobs

\* A job nobody consumed stays, unless its run leaves the queue.
LEMMA JobKept ==
  ASSUME TypeInv, [Next]_vars, NEW r \in Run, NEW k \in Job,
         jobRun[k] = r, receipt[k] = "none", status[r] = "queued", status'[r] = "queued"
  PROVE  jobRun'[k] = r /\ receipt'[k] = "none"
<1>1. jobRun'[k] = r
  BY KeepRun, NoRunAssumption DEF JobsKeepRun, TypeInv, JobsKnown
<1>2. receipt'[k] = "none"
  <2> USE DEF TypeInv, TypeOK, rcptVars, runVars
  <2>1. CASE UNCHANGED rowVars
    BY <2>1 DEF rowVars
  <2>2. ASSUME NEW q \in Run, CancelNow(q) \/ ApprovalRefused(q) PROVE receipt'[k] = "none"
    BY <2>2 DEF CancelNow, ApprovalRefused
  <2>3. ASSUME NEW q \in Run, NEW j \in Job, CreateRun(q, j) \/ ApprovalGranted(q, j)
        PROVE  receipt'[k] = "none"
    BY <2>3 DEF CreateRun, ApprovalGranted
  <2>4. ASSUME NEW w \in Worker, NEW q \in Run, NEW j \in Job, RecoverExpired(w, q, j)
        PROVE  receipt'[k] = "none"
    BY <2>4 DEF RecoverExpired, Superseded
  <2>5. ASSUME NEW w \in Worker,
               ClaimTerminal(w) \/ ClaimWaiting(w) \/ ClaimBusy(w)
        PROVE  receipt'[k] = "none"
    BY <2>5 DEF ClaimTerminal, ClaimWaiting, ClaimBusy, Resolve, RunOf, Terminal
  <2>6. ASSUME NEW w \in Worker, ClaimCancelled(w) \/ ClaimStarts(w) PROVE receipt'[k] = "none"
    <3>1. JobOf(w) # k
      BY <2>6 DEF ClaimCancelled, ClaimStarts, Release, RunOf
    <3> QED BY <2>6, <3>1 DEF ClaimCancelled, ClaimStarts, ReceiptsBefore, Superseded
  <2>7. ASSUME NEW w \in Worker,
               \/ CompleteCancelled(w) \/ CompleteSuccess(w) \/ CompleteFailure(w)
               \/ WaitForApproval(w) \/ \E j \in Job : CompleteRetry(w, j)
        PROVE  receipt'[k] = "none"
    BY <2>7 DEF CompleteCancelled, CompleteSuccess, CompleteFailure, WaitForApproval,
                CompleteRetry, Completing, Owns, Resolve
  <2> QED BY <2>1, <2>2, <2>3, <2>4, <2>5, <2>6, <2>7, Moving DEF MovingStep
<1> QED BY <1>1, <1>2

\* What is queued now comes with a job.
LEMMA JobInserted ==
  ASSUME TypeInv, [Next]_vars, NEW r \in Run, status[r] # "queued", status'[r] = "queued"
  PROVE  \E j \in Job : jobRun'[j] = r /\ receipt'[j] = "none"
<1> USE DEF TypeInv, TypeOK, JobsKnown, Enqueue, Fresh, Release, Requeue, runVars, rcptVars
<1>1. ASSUME NEW q \in Run, NEW j \in Job, CreateRun(q, j) \/ ApprovalGranted(q, j)
      PROVE  \E k \in Job : jobRun'[k] = r /\ receipt'[k] = "none"
  BY <1>1 DEF CreateRun, ApprovalGranted
<1>2. ASSUME NEW w \in Worker, NEW q \in Run, NEW j \in Job, RecoverExpired(w, q, j)
      PROVE  \E k \in Job : jobRun'[k] = r /\ receipt'[k] = "none"
  BY <1>2 DEF RecoverExpired, Superseded
<1>3. ASSUME NEW w \in Worker, NEW j \in Job, CompleteRetry(w, j)
      PROVE  \E k \in Job : jobRun'[k] = r /\ receipt'[k] = "none"
  <2>1. outbox[JobOf(w)] # "absent"
    BY <1>3 DEF CompleteRetry, Completing, Busy
  <2> QED BY <1>3, <2>1 DEF CompleteRetry
<1>4. CASE UNCHANGED rowVars
  BY <1>4 DEF rowVars
<1>5. ASSUME NEW q \in Run, CancelNow(q) \/ ApprovalRefused(q) PROVE FALSE
  BY <1>5 DEF CancelNow, ApprovalRefused
<1>6. ASSUME NEW w \in Worker,
             \/ ClaimTerminal(w) \/ ClaimWaiting(w) \/ ClaimBusy(w) \/ ClaimCancelled(w)
             \/ ClaimStarts(w) \/ CompleteCancelled(w) \/ CompleteSuccess(w)
             \/ CompleteFailure(w) \/ WaitForApproval(w)
      PROVE  FALSE
  BY <1>6 DEF ClaimTerminal, ClaimWaiting, ClaimBusy, ClaimCancelled, ClaimStarts,
              CompleteCancelled, CompleteSuccess, CompleteFailure, WaitForApproval
<1> QED BY <1>1, <1>2, <1>3, <1>4, <1>5, <1>6, Moving DEF MovingStep

\* A queued run is never without a job no worker has consumed.
THEOREM QueuedRunsHaveJobs == Spec => []QueuedRunHasJob
<1>1. Init => QueuedRunHasJob
  BY DEF Init, QueuedRunHasJob
<1>2. TypeInv /\ QueuedRunHasJob /\ [Next]_vars => QueuedRunHasJob'
  BY JobKept, JobInserted DEF QueuedRunHasJob
<1> QED BY <1>1, <1>2, TypeCorrect, PTL DEF Spec

\* A resolved receipt keeps its status and its worker for ever: claim looks at
\* it first, a completion and recover_stale only touch processing ones.
THEOREM ReceiptsAreFinal == Spec => ReceiptsFinal
<1> DEFINE Kept == \A j \in Job : receipt[j] \notin {"none", "processing"} =>
                     receipt'[j] = receipt[j] /\ receiptWorker'[j] = receiptWorker[j]
<1>1. ASSUME TypeInv, [Next]_vars PROVE Kept
  <2> USE <1>1 DEF TypeInv, TypeOK, rcptVars, runVars
  <2>1. CASE UNCHANGED rowVars
    BY <2>1 DEF rowVars
  <2>2. ASSUME NEW r \in Run, CancelNow(r) \/ ApprovalRefused(r) PROVE Kept
    BY <2>2 DEF CancelNow, ApprovalRefused
  <2>3. ASSUME NEW r \in Run, NEW j \in Job, CreateRun(r, j) \/ ApprovalGranted(r, j) PROVE Kept
    BY <2>3 DEF CreateRun, ApprovalGranted
  <2>4. ASSUME NEW w \in Worker, NEW r \in Run, NEW j \in Job, RecoverExpired(w, r, j) PROVE Kept
    BY <2>4 DEF RecoverExpired, Superseded
  <2>5. ASSUME NEW w \in Worker, ClaimTerminal(w) \/ ClaimWaiting(w) \/ ClaimBusy(w)
        PROVE  Kept
    BY <2>5 DEF ClaimTerminal, ClaimWaiting, ClaimBusy, Claimable, Resolve
  <2>6. ASSUME NEW w \in Worker, ClaimCancelled(w) \/ ClaimStarts(w)
        PROVE  Kept
    <3>1. receipt[JobOf(w)] \in {"none", "processing"}
      BY <2>6 DEF ClaimCancelled, ClaimStarts, Startable, Claimable
    <3>2. \A q \in Run : /\ ReceiptsBefore(q) \in [Job -> Receipts]
                         /\ \A j \in Job : receipt[j] # "processing" =>
                              ReceiptsBefore(q)[j] = receipt[j]
      BY DEF ReceiptsBefore, Superseded, Receipts
    <3>3. RunOf(w) \in Run
      BY <2>6, HeldJob DEF ClaimCancelled, ClaimStarts, Startable, Claimable, Busy
    <3> QED BY <2>6, <3>1, <3>2, <3>3 DEF ClaimCancelled, ClaimStarts
  <2>7. ASSUME NEW w \in Worker, CompleteCancelled(w) PROVE Kept
    BY <2>7 DEF CompleteCancelled, Completing, Owns, Resolve
  <2>8. ASSUME NEW w \in Worker,
               \/ CompleteSuccess(w) \/ CompleteFailure(w)
               \/ WaitForApproval(w) \/ \E j \in Job : CompleteRetry(w, j)
        PROVE  Kept
    BY <2>8 DEF CompleteSuccess, CompleteFailure, WaitForApproval, CompleteRetry,
                Completing, Owns
  <2> QED BY <2>1, <2>2, <2>3, <2>4, <2>5, <2>6, <2>7, <2>8, Moving DEF MovingStep
<1> QED BY <1>1, TypeCorrect, PTL DEF Spec, ReceiptsFinal

-----------------------------------------------------------------------------
(***************************************************************************)
(* RunLifecycle implements RunContract: every step of the queue, the       *)
(* leases and the receipts is a step of the contract or leaves its         *)
(* variables alone.                                                        *)
(*                                                                         *)
(* Beyond the invariants above this needs one more: the lease owner of a   *)
(* run, while it executes that run, executes its latest attempt.  The      *)
(* completions compare the owner and the receipt, never the attempt;       *)
(* OwnerIsLatest is why that is enough.                                    *)
(***************************************************************************)
OwnerIsLatest ==
  \A w \in Worker :
    pc[w] = "executing" /\ owner[RunOf(w)] = w => claimed[w] = attempt[RunOf(w)]

ContractInv == TypeInv /\ AttemptsDistinct /\ OwnerIsLatest

\* A run gets an owner by a claim, and loses it otherwise.
LEMMA Owners ==
  ASSUME TypeInv, [Next]_vars, NEW r \in Run
  PROVE  owner'[r] \in {owner[r], NoWorker} \/ \E w \in Worker : ClaimStarts(w)
<1> USE DEF TypeInv, TypeOK, runVars, Release, Requeue
<1>1. CASE UNCHANGED rowVars
  BY <1>1 DEF rowVars
<1>2. CASE MovingStep
  BY <1>2 DEF MovingStep, CancelNow, ApprovalRefused, CreateRun, ApprovalGranted,
     RecoverExpired, ClaimTerminal, ClaimWaiting, ClaimBusy, ClaimCancelled,
     CompleteCancelled, CompleteSuccess, CompleteFailure, WaitForApproval, CompleteRetry
<1> QED BY <1>1, <1>2, Moving

\* Every step keeps OwnerIsLatest.
LEMMA OwnerIsLatestStep ==
  TypeInv /\ OwnerIsLatest /\ [Next]_vars => OwnerIsLatest'
<1> SUFFICES ASSUME TypeInv, OwnerIsLatest, [Next]_vars, NEW w \in Worker,
                    pc'[w] = "executing", owner'[RunOf(w)'] = w
             PROVE  claimed'[w] = attempt'[RunOf(w)']
  BY DEF OwnerIsLatest
<1>1. CASE ClaimStarts(w)
  <2>1. RunOf(w) \in Run /\ RunOf(w)' = RunOf(w)
    BY <1>1, HeldJob DEF ClaimStarts, Startable, Claimable, Busy, outboxVars, RunOf, JobOf
  <2> QED BY <1>1, <2>1 DEF ClaimStarts, TypeInv, TypeOK
<1>2. CASE ~ClaimStarts(w)
  <2>1. pc[w] = "executing" /\ claimed'[w] = claimed[w] /\ held'[w] = held[w]
    BY <1>2, Executing
  <2>2. RunOf(w)' = RunOf(w) /\ RunOf(w) \in Run
    BY <2>1, KeepRun, HeldJob DEF JobsKeepRun, RunOf, JobOf, TypeInv, JobsKnown, Busy
  <2>3. ASSUME NEW v \in Worker, ClaimStarts(v)
        PROVE  RunOf(v) # RunOf(w) /\ attempt'[RunOf(w)] = attempt[RunOf(w)]
                                   /\ owner'[RunOf(w)] = owner[RunOf(w)]
    BY <1>2, <2>2, <2>3 DEF ClaimStarts, TypeInv, TypeOK
  <2>4. owner[RunOf(w)] = w /\ attempt'[RunOf(w)] = attempt[RunOf(w)]
    BY <2>2, <2>3, Owners, Attempts, NoWorkerAssumption
  <2> QED BY <2>1, <2>2, <2>4 DEF OwnerIsLatest
<1> QED BY <1>1, <1>2

-----------------------------------------------------------------------------
\* How a step changes the tasks

Same(w) == pc'[w] = pc[w] /\ held'[w] = held[w] /\ claimed'[w] = claimed[w]

\* No worker enters or leaves execution.
Unmoved ==
  \A w \in Worker : Same(w) \/ (pc[w] # "executing" /\ pc'[w] # "executing")

\* A worker that stays where it is, or stays out of execution, keeps its task.
LEMMA TaskSame ==
  ASSUME TypeInv, [Next]_vars, NEW w \in Worker,
         Same(w) \/ (pc[w] # "executing" /\ pc'[w] # "executing")
  PROVE  task'[w] = task[w]
<1>1. CASE pc[w] # "executing" /\ pc'[w] # "executing"
  BY <1>1 DEF task
<1>2. CASE Same(w) /\ pc[w] = "executing"
  <2>1. RunOf(w)' = RunOf(w)
    BY <1>2, KeepRun, HeldJob DEF Same, JobsKeepRun, RunOf, JobOf, TypeInv, JobsKnown, Busy
  <2> QED BY <1>2, <2>1 DEF Same, task
<1> QED BY <1>1, <1>2 DEF Same

\* A step that moves no worker into or out of execution keeps all tasks.
LEMMA TasksSame ==
  ASSUME TypeInv, [Next]_vars, Unmoved
  PROVE  task' = task
<1>1. ASSUME NEW w \in Worker PROVE task'[w] = task[w]
  BY TaskSame DEF Unmoved, Same
<1> QED BY <1>1 DEF task

\* One worker leaves execution.
LEMMA TaskDropped ==
  ASSUME TypeInv, [Next]_vars, NEW w \in Worker, pc'[w] # "executing",
         \A v \in Worker \ {w} : Same(v)
  PROVE  task' = [task EXCEPT ![w] = Contract!NoTask]
<1>1. ASSUME NEW v \in Worker \ {w} PROVE task'[v] = task[v]
  BY TaskSame DEF Same
<1>2. task'[w] = Contract!NoTask
  BY DEF task, Contract!NoTask
<1> QED BY <1>1, <1>2 DEF task

\* A worker that executes has a task.
LEMMA TaskHeld ==
  ASSUME ContractInv, NEW w \in Worker, pc[w] = "executing"
  PROVE  /\ task[w] = [run |-> RunOf(w), attempt |-> claimed[w]]
         /\ task[w] # Contract!NoTask
<1>1. RunOf(w) \in Run /\ claimed[w] \in 1..attempt[RunOf(w)] /\ attempt[RunOf(w)] \in Nat
  BY HeldJob DEF ContractInv, AttemptsDistinct, TypeInv, TypeOK, Busy
<1>2. task[w] = [run |-> RunOf(w), attempt |-> claimed[w]]
  BY DEF task
<1>3. claimed[w] # 0
  BY <1>1
<1> QED BY <1>2, <1>3 DEF Contract!NoTask

-----------------------------------------------------------------------------
\* Every step is a step of the contract.

ContractStep == Contract!Next \/ UNCHANGED <<status, attempt, cancelReq, task>>

\* The users' transactions.
LEMMA UserImplements == ContractInv /\ [Next]_vars /\ UserStep => ContractStep
<1> SUFFICES ASSUME ContractInv, [Next]_vars, UserStep PROVE ContractStep
  OBVIOUS
<1> USE DEF ContractInv, TypeInv, TypeOK, workerVars, Same, Release, Requeue, ContractStep,
            Contract!Next
<1>0. Unmoved
  BY DEF Unmoved, UserStep, RequestCancel, CancelNow, ApprovalRefused, CreateRun, ApprovalGranted
<1>1. task' = task
  BY <1>0, TasksSame
<1>2. ASSUME NEW r \in Run, RequestCancel(r) PROVE ContractStep
  BY <1>1, <1>2 DEF RequestCancel, Contract!RequestCancel
<1>3. ASSUME NEW r \in Run, CancelNow(r) \/ ApprovalRefused(r) PROVE Contract!Cancel(r)
  BY <1>1, <1>3 DEF CancelNow, ApprovalRefused, Contract!Cancel
<1>4. ASSUME NEW r \in Run, NEW j \in Job, CreateRun(r, j) PROVE Contract!Submit(r)
  BY <1>1, <1>4 DEF CreateRun, Contract!Submit
<1>5. ASSUME NEW r \in Run, NEW j \in Job, ApprovalGranted(r, j) PROVE Contract!Requeue(r)
  BY <1>1, <1>5 DEF ApprovalGranted, Contract!Requeue
<1> QED BY <1>2, <1>3, <1>4, <1>5 DEF UserStep

\* Recovery, publication and delivery.
LEMMA LoopImplements ==
  ASSUME ContractInv, [Next]_vars, NEW w \in Worker, RecoveryStep(w) \/ DeliveryStep(w)
  PROVE  ContractStep
<1> USE DEF ContractInv, TypeInv, TypeOK, runVars, workerVars, Same, Release, Requeue,
            ContractStep, Contract!Next
<1>1. CASE DeliveryStep(w)
  <2>0. Unmoved
    BY <1>1 DEF Unmoved, DeliveryStep, Deliver, Reclaim, Ack
  <2>1. task' = task
    BY <2>0, TasksSame
  <2> QED BY <1>1, <2>1 DEF DeliveryStep, Deliver, Reclaim, Ack
<1>2. CASE RecoveryStep(w)
  <2>0. Unmoved
    BY <1>2 DEF Unmoved, RecoveryStep, RecoverExpired, RequeueOrphan, Publish
  <2>1. task' = task
    BY <2>0, TasksSame
  <2>2. ASSUME NEW r \in Run, NEW j \in Job, RecoverExpired(w, r, j) PROVE Contract!Requeue(r)
    BY <2>1, <2>2 DEF RecoverExpired, Contract!Requeue
  <2> QED BY <1>2, <2>1, <2>2 DEF RecoveryStep, RequeueOrphan, Publish
<1> QED BY <1>1, <1>2

\* The cases of claim.
LEMMA ClaimImplements ==
  ASSUME ContractInv, [Next]_vars, NEW w \in Worker, ClaimStep(w)
  PROVE  ContractStep
<1> USE DEF ContractInv, TypeInv, TypeOK, runVars, Same, Goto, ContractStep, Contract!Next
<1> PICK r \in Run : r = RunOf(w)
  BY HeldJob DEF ClaimStep, ClaimResolved, ClaimTerminal, ClaimWaiting, ClaimInProgress,
                 ClaimBusy, ClaimCancelled, ClaimStarts, Startable, Claimable, Busy
<1>1. CASE ClaimCancelled(w)
  <2>0. Unmoved
    BY <1>1 DEF Unmoved, ClaimCancelled, Startable, Claimable
  <2>1. task' = task
    BY <2>0, TasksSame
  <2>2. Contract!Cancel(r)
    BY <1>1, <2>1 DEF ClaimCancelled, Startable, Release, Contract!Cancel
  <2> QED BY <2>2
<1>2. CASE ClaimStarts(w)
  <2>1. pc[w] # "executing" /\ pc'[w] = "executing" /\ claimed'[w] = attempt[r] + 1
    BY <1>2 DEF ClaimStarts, Startable, Claimable
  <2>2. RunOf(w)' = r
    BY <1>2 DEF ClaimStarts, outboxVars, RunOf, JobOf
  <2>3. ASSUME NEW v \in Worker \ {w} PROVE task'[v] = task[v]
    BY <1>2, TaskSame DEF ClaimStarts
  <2>4. /\ task' = [task EXCEPT ![w] = [run |-> r, attempt |-> attempt[r] + 1]]
        /\ task[w] = Contract!NoTask
    BY <2>1, <2>2, <2>3 DEF task, Contract!NoTask
  <2>5. Contract!Start(w, r)
    BY <1>2, <2>4 DEF ClaimStarts, Startable, Contract!Start
  <2> QED BY <2>5
<1>3. CASE \/ ClaimResolved(w) \/ ClaimTerminal(w) \/ ClaimWaiting(w)
           \/ ClaimInProgress(w) \/ ClaimBusy(w)
  <2> USE DEF ClaimResolved, ClaimTerminal, ClaimWaiting, ClaimInProgress, ClaimBusy, Claimable
  <2>0. Unmoved
    BY <1>3 DEF Unmoved
  <2>1. task' = task
    BY <2>0, TasksSame
  <2> QED BY <1>3, <2>1
<1> QED BY <1>1, <1>2, <1>3 DEF ClaimStep

\* The completions.
LEMMA CompletionImplements ==
  ASSUME ContractInv, [Next]_vars, NEW w \in Worker, CompletionStep(w)
  PROVE  ContractStep
<1> USE DEF ContractInv, TypeInv, TypeOK, Same, ContractStep, Contract!Next
<1>1. pc[w] = "executing"
  BY DEF CompletionStep, CompleteCancelled, CompleteSuccess, CompleteRetry, CompleteFailure,
         WaitForApproval, CompletionLost, WaitRefused, Completing
<1> PICK r \in Run : r = RunOf(w)
  BY <1>1, HeldJob DEF Busy
<1>2. task' = [task EXCEPT ![w] = Contract!NoTask]
  BY TaskDropped
     DEF CompletionStep, CompleteCancelled, CompleteSuccess, CompleteRetry, CompleteFailure,
         WaitForApproval, CompletionLost, WaitRefused, NotHandled, Goto
<1>3. ASSUME Completing(w) PROVE Contract!Latest(w, r)
  BY <1>1, <1>3, TaskHeld DEF Completing, Owns, OwnerIsLatest, Contract!Latest
<1>4. CASE CompletionLost(w) \/ WaitRefused(w)
  <2>1. Contract!Abandon(w)
    BY <1>1, <1>2, <1>4, TaskHeld
       DEF CompletionLost, WaitRefused, NotHandled, runVars, Contract!Abandon
  <2> QED BY <2>1
<1> USE DEF Contract!Decide, Contract!Terminal, Release, Requeue
<1>5. CASE CompleteCancelled(w)
  <2>1. Contract!Decide(w, r, "cancelled")
    BY <1>2, <1>3, <1>5 DEF CompleteCancelled
  <2> QED BY <2>1
<1>6. CASE CompleteSuccess(w)
  <2>1. Contract!Decide(w, r, "succeeded")
    BY <1>2, <1>3, <1>6 DEF CompleteSuccess
  <2> QED BY <2>1
<1>7. CASE CompleteFailure(w)
  <2>1. Contract!Decide(w, r, "failed")
    BY <1>2, <1>3, <1>7 DEF CompleteFailure
  <2> QED BY <2>1
<1>8. ASSUME NEW j \in Job, CompleteRetry(w, j) PROVE ContractStep
  <2>1. Contract!Decide(w, r, "queued")
    BY <1>2, <1>3, <1>8 DEF CompleteRetry
  <2> QED BY <2>1
<1>9. CASE WaitForApproval(w)
  <2>1. Contract!Decide(w, r, "waiting_for_approval")
    BY <1>2, <1>3, <1>9 DEF WaitForApproval
  <2> QED BY <2>1
<1> QED BY <1>4, <1>5, <1>6, <1>7, <1>8, <1>9 DEF CompletionStep

\* Time and faults.
LEMMA FaultImplements ==
  ASSUME ContractInv, [Next]_vars, FaultStep \/ \E r \in Run : ClockStep(r)
  PROVE  ContractStep
<1> USE DEF ContractInv, TypeInv, TypeOK, runVars, workerVars, Same, ContractStep, Contract!Next
<1>1. ASSUME NEW w \in Worker, Crash(w) \/ StepRaises(w) PROVE ContractStep
  <2>1. CASE pc[w] = "executing"
    <3>1. task' = [task EXCEPT ![w] = Contract!NoTask]
      BY <1>1, <2>1, TaskDropped DEF Crash, StepRaises
    <3>2. Contract!Abandon(w)
      BY <1>1, <2>1, <3>1, TaskHeld DEF Crash, StepRaises, Contract!Abandon
    <3> QED BY <3>2
  <2>2. CASE pc[w] # "executing"
    <3>1. Unmoved
      BY <1>1, <2>2 DEF Unmoved, Crash, StepRaises
    <3> QED BY <1>1, <3>1, TasksSame DEF Crash, StepRaises
  <2> QED BY <2>1, <2>2
<1>2. ASSUME Unmoved, UNCHANGED <<status, attempt, cancelReq>> PROVE ContractStep
  BY <1>2, TasksSame
<1>3. ASSUME NEW w \in Worker, RenewLease(w) PROVE ContractStep
  BY <1>2, <1>3 DEF RenewLease, Unmoved
<1>4. ASSUME NEW w \in Worker, NEW j \in Job, NEW d \in BOOLEAN,
             PublishUncommitted(w, j) \/ PublishFails(w, j, d)
      PROVE  ContractStep
  BY <1>2, <1>4 DEF PublishUncommitted, PublishFails, Unmoved
<1>5. ASSUME NEW r \in Run, HeartbeatFails(r) \/ ClockStep(r) PROVE ContractStep
  BY <1>2, <1>5 DEF HeartbeatFails, ClockStep, LeaseLapses, LeaseExpires, LapseOf, Unmoved
<1>6. CASE RedisLoss
  BY <1>2, <1>6 DEF RedisLoss, Unmoved
<1> QED BY <1>1, <1>3, <1>4, <1>5, <1>6 DEF FaultStep

\* The queue, the leases, the receipts and the outbox implement the contract
\* of the run state machine (run_state.py against the trigger of migration 003).
THEOREM Implements == Spec => ImplementsContract
<1>1. Init => Contract!Init
  BY DEF Init, Contract!Init, task, Contract!NoTask
<1>2. Init => AttemptsDistinct /\ OwnerIsLatest
  BY DEF Init, AttemptsDistinct, OwnerIsLatest
<1>3. ContractInv /\ [Next]_vars => [Contract!Next]_Contract!vars
  <2> SUFFICES ASSUME ContractInv, [Next]_vars PROVE ContractStep
    BY DEF ContractStep, Contract!vars
  <2>1. CASE UNCHANGED vars
    <3>1. Unmoved
      BY <2>1 DEF vars, workerVars, Unmoved, Same
    <3> QED BY <2>1, <3>1, TasksSame DEF vars, runVars, ContractInv, ContractStep
  <2>2. ASSUME NEW w \in Worker, WorkerStep(w) PROVE ContractStep
    BY <2>2, LoopImplements, ClaimImplements, CompletionImplements DEF WorkerStep
  <2> QED
    BY <2>1, <2>2, UserImplements, FaultImplements DEF Next
<1>4. Spec => []ContractInv
  BY <1>2, TypeCorrect, AttemptsStep, OwnerIsLatestStep, PTL DEF Spec, ContractInv
<1> QED BY <1>1, <1>3, <1>4, PTL DEF Spec, ImplementsContract, Contract!Spec
=============================================================================
