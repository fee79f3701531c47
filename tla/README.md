# Nexora AgentOS: specifications, model checking and proofs

TLA+ modules of the control plane of Nexora AgentOS (`apps/api/src/nexora_api`, below `N/`), the
TLC configurations that check them on small instances, and TLAPS proofs of the properties that
matter most for every value of the constants. File and line references are in `PROJECT.json`.

## 1. The system

Nexora runs language-model agents for tenants ("workspaces"). A FastAPI process (`N/main.py` and
the routers) writes PostgreSQL; one or more worker processes (`N/worker_main.py`,
`N/worker_service.py`) do everything else. Redis carries job messages from the outbox to the
workers. There is no other shared state: **every interaction between processes is a PostgreSQL
transaction or a Redis command**, and every hard behaviour is an interleaving of those.

| component | state it keeps | operations | interacts with |
|---|---|---|---|
| run state machine (`run_state.py`, `execution_fence.py`) | `agent_runs`, `worker_job_receipts` | claim, renew, complete, wait, recover; the fence | outbox rows it inserts; executor and tools through the fence |
| outbox (`outbox.py`) | `job_outbox` | publish_batch | Redis `XADD` before its own commit |
| worker loop (`worker.py`) | Redis consumer group | read, reclaim, ack, heartbeat | all of the above, executor |
| run API (`agent_repository.py`) | the same tables | create_run, cancel_run | approvals and calls of the run |
| tool governance (`tool_repository.py`) | tools, policies, `tool_calls`, `tool_approvals` | prepare, mark, record, decide, expire, set policy | runs (park, requeue, cancel), outbox |
| MCP gateway (`mcp_gateway.py`) | none | invoke | tool governance, remote servers |
| durable executor (`executor.py`, `executor_store.py`) | `agent_model_steps`, retrieval snapshots, answer cache | load, save, restore | fence, ledger, gateway, providers |
| spend (`spend_repository.py`) | ledger, budgets, alerts, alert outbox | authorise, record, set budget | executor, judge, ingestion |
| alert delivery (`spend_alert_worker.py`) | alert outbox leases | claim, deliver, record | operator's webhook |
| evaluation judge (`evaluation_judge_worker.py`) | judge runs, case scores | claim, score, save, fail | ledger, providers |
| knowledge ingestion (`knowledge_worker.py`, `rag_repository.py`) | ingestion jobs, sources, chunks | enqueue, claim, embed, replace, delete a key | ledger, retrieval |
| agent catalog (`agent_catalog_repository.py`) | versions, releases, rollouts | publish, release, roll out, roll back | tenant agents read the offer |
| tenant agents (`tenant_agent_repository.py`) | pins, history, bindings, status | install, update, move, roll back, bind, sweep | catalog, connections, runs |
| integrations (`integration_repository.py`, `connector_mcp.py`) | connections, credentials, authorization states | connect, rotate, authorize, test, disconnect, provision | tools, agents, runs, providers |
| OIDC keys, rate limit | process caches | refresh, count | every request |

### What is hard, and what makes each part correct

- **Run state machine, outbox, worker loop.** Jobs are delivered at least once, late, twice and to
  the wrong worker; leases run out under a working executor; processes die between any two
  transactions; Redis can lose the stream. Correct means: one executor per run, one attempt per
  reason to start one, nothing a late worker does counts, and a run that was asked for settles.
- **Tool governance.** An approval is opened by a worker, decided by a person, expired by a sweeper
  and invalidated by an administrator, while the run is parked, recovered, taken over or cancelled.
  Correct means: call, approval and run stay in step, a forced tool never starts unapproved, a
  stale answer is never recorded, and no wait is for ever.
- **Spend.** Many transactions add to one sum under one budget row that can change, or that is not there yet. Correct means:
  charged once, no crossing missed or invented, a bounded overshoot.
- **Alert delivery.** A lease without renewal around a slow call. Correct means: attempts counted
  once, outcomes final, every alert delivered or given up.
- **Executor journal.** Attempts overlap, die between a paid answer and its insert, and resume from what
  earlier attempts stored, while tools, knowledge and the shared answer cache change. Correct means: each
  run has an exactly-once log of responses that all answer one snapshot of evidence, what is generated
  for it is charged once, and a crash loses one paid response at most.
- **Evaluation judge.** One case per claim; workers stall, die and are redeployed with another model
  between claims, and losses are counted both by who fails and by who finds the lease expired. Correct
  means: each claim ends as one score or one strike, scores compare like with like, a job ends.
- **Knowledge ingestion.** A worker embeds outside any transaction and then writes the source under a lease that may
  be gone, while others take the job over, newer and older versions of the key are ingested, and the key is deleted.
  Correct means: a job publishes once or not at all, one version of a key is current, what is stored was paid for, and
  a deletion catches what it found.
- **Tenant agents and catalog.** People, a scheduler and platform administrators move versions of the same agent by
  transactions that overlap, and each version may require other integrations. Correct means: the history is one chain
  that ends in the pin, what is active is bound and can run, and an automatic agent reaches what it is offered.
- **Integrations.** Tests and calls wait for a provider inside a transaction and may write a refreshed credential
  there. Correct means: a reference never dangles, nothing secret outlives its connection, and a call uses the
  connection its run was queued with.
- **OIDC keys, rate limit** (not modelled). A stale cache is refreshed once; a window admits no
  more than its limit.

Every hazard with its line, and the properties that watch it, is in `PROJECT.json` under `hazards`.

## 2. The modules

| module | what it is | source |
|---|---|---|
| `RunContract` | what the run state machine promises, without queue, lease or receipt | `run_state.py`, trigger of migration 003 |
| `RunLifecycle` | runs, receipts, outbox, Redis stream, workers, clock and faults | `run_state.py`, `outbox.py`, `worker.py`, `agent_repository.py`, `execution_fence.py` |
| `RunLifecycleProofs` | TLAPS proofs about it, and that it implements `RunContract` | |
| `ToolGovernance` | calls, approvals, policies, contracts, approvers, sweeper, gateway | `tool_repository.py`, `mcp_gateway.py`, `executor.py` |
| `ToolGovernanceProofs` | TLAPS proofs about it | |
| `SpendContract` | charges and budgets in one step each | `spend_repository.py` |
| `SpendLedger` | the same, statement by statement | `spend_repository.py`, `spend.py` |
| `AlertDelivery` | the alert outbox and its notifiers | `spend_alert_worker.py` |
| `SpendProofs` | TLAPS proofs about both | |
| `JournalContract` | per run, an exactly-once log of responses, without attempts or workers | `executor.py`, `executor_store.py` |
| `ExecutorJournal` | snapshot, journal, answer caches and charges under overlapping attempts | `executor.py`, `executor_store.py`, migrations 006, 010, 019, 020 |
| `ExecutorJournalProofs` | TLAPS proofs about it | |
| `JudgeContract` | a judge job without workers or leases | `evaluation_judge_worker.py`, trigger of migration 011 |
| `EvaluationJudge` | judge jobs, their leases, workers of several configurations | `evaluation_judge_worker.py`, `evaluation_judge_repository.py` |
| `EvaluationJudgeProofs` | TLAPS proofs about it | |
| `KnowledgeContract` | what a requester may expect of a source key | `knowledge.py`, `rag_repository.py` |
| `KnowledgeIngestion` | ingestion jobs, their workers, sources and deletions, statement by statement | `knowledge_worker.py`, `rag_repository.py`, migrations 005, 007 |
| `KnowledgeIngestionProofs` | TLAPS proofs about it | |
| `AgentCatalog` | versions, releases, rollouts, the offer of a channel | `agent_catalog_repository.py`, `agent_catalog.py` |
| `TenantAgents` | installed agents and the scheduler, over `AgentCatalog` | `tenant_agent_repository.py`, `worker_service.py` |
| `TenantAgentsProofs` | TLAPS proofs about both | |
| `Connections` | connections, the vault, tools, bindings, and runs that use them | `integration_repository.py`, `connector_mcp.py`, `tenant_agent_repository.py` |
| `ConnectionsProofs` | TLAPS proofs about it | |
| `MCToolGovernance`, `MCSpendLedger`, `MCExecutorJournal`, `MCEvaluationJudge`, `MCKnowledgeIngestion`, `MCTenantAgents`, `MCConnections` | symmetry sets and constant values for TLC | |

`RunLifecycle` implements `RunContract`; `ToolGovernance` takes the run of `RunContract` for granted
and implements it as well, so what is proved of the queue is assumed by the tools and not modelled
twice. `ExecutorJournal` takes its run from `RunContract` in the same way and implements
`JournalContract`. `SpendLedger` implements `SpendContract`, `EvaluationJudge` implements `JudgeContract`, `KnowledgeIngestion` implements
`KnowledgeContract`. `TenantAgents` extends `AgentCatalog`; `Connections` has the part of a tenant agent and of a run
that a connection sees (a binding; check, snapshot and insert of `create_run`; the calls).

### State and actions against the code

**RunLifecycle.** `status, attempt, cancelReq, owner, lease` are columns of `agent_runs`;
`jobRun, outbox, failures` are `job_outbox`; `receipt, receiptWorker` are `worker_job_receipts`;
`stream, pending, copies` are the Redis stream and its pending-entries list; `pc, held, claimed` are
what a worker process keeps in memory. One action per branch of a transaction: `Claim...` are the
returns of `RunStateStore.claim`, `Complete...` and `WaitForApproval` its completions,
`RecoverExpired` and `RequeueOrphan` the two loops of `recover_stale`, `Publish...` the fates of a row
in `publish_batch`, `Deliver`, `Reclaim` and `Ack` the Redis commands of the worker loop.

- A transaction is one step because it locks the run row it decides about before it reads it.
  `recover_stale` and `publish_batch` take batches; they are modelled row by row, since each row is
  locked with `SKIP LOCKED` and decided alone.
- `now()` is the start of a transaction and a transaction may wait for locks. A lease is therefore
  `live`, `lapsed` (live to transactions that began before, expired to those that began after) or
  `expired`, so renewal, completion and recovery may disagree exactly as they can in PostgreSQL.
- A claim, a completion or an acknowledgement may raise; the worker then backs off and goes on while the lease it may hold
  is live (`StepRaises`, a counted fault like a crash).
- Retry delays, heartbeat period and idle times are left out: whatever may happen later may happen
  at any later moment.
- An approval here only parks, resumes or cancels a run.

**ToolGovernance.** `call, contract` are `tool_calls`, `approval, due` are `tool_approvals` and whether
`expires_at` has passed, `policy, version` the tool's policy and contract hash, `member` the
requester's membership; `phase, at` are where the executor is in its list of calls. The ten
`Prepare...` actions are the branches of `prepare_call` in their order; `MarkRunning`, `Perform`,
`RecordSuccess` and `RecordFailure` are the steps of `gateway.invoke` between which other processes
run; `Approve`, `Reject`, `Invalidate` are the outcomes of `decide_approval`; `ExpireApproval` is one
row of the sweeper; `SetPolicy`, `SetContract` and `Leave` can happen at any moment.

- The calls a run makes are fixed and each has a tool of its own: the journal makes a retried run
  ask for the same calls in the same order with the same arguments.
- Argument and result validation are nondeterministic failures.
- A branch of `prepare_call` that no execution reaches (membership lost after `executable_run` has
  already checked and locked it) has no action.
- `Leave` stands for the workspace component, which is not modelled otherwise.

**SpendLedger.** `ledger`, `budget` and `alerts` are the committed rows of one workspace and one month;
`lock` is the holder of the budget row; per process, `entry`, `draft` and `raised` are the rows its open
transaction wrote. Here a transaction is *not* one step: `evaluate_budget` reads budget and sum in two
statements outside the paying transaction, and `raise_threshold_alerts` locks, aggregates and inserts.
Each statement is an action under READ COMMITTED; `Commit` publishes, `Abort` drops. A payer stands for
the executor, the judge, ingestion or a retrieval. `ceiling` is a history variable.

- Two rows separate transactions, both held to the end. The first is the `workspaces` row: `set_budget` begins with
  `scoped`, which locks it `FOR UPDATE` (`Scope`, `Scoping`), and a row of the ledger that is inserted has its foreign key
  checked, which takes it `FOR KEY SHARE` (`Record`, `Charging`). So an admin overlaps neither a charge nor another admin,
  and whichever of a charge and the first budget comes second sees the other. Charges do overlap each other, since
  `KEY SHARE` is compatible with itself; between them there is only the second row, the budget's (`lock`), if there is one.
- Other requests lock the `workspaces` row too. That delays what is modelled and forbids some overlaps of charges (of a
  retrieval through the API, say); the model allows them.
- Left out: the roll-over of the month (a transaction that began in the old month is evaluated against it), prices,
  the read-only listings, the budget history table.

**AlertDelivery.** `status, attempts, owner, lease` are `workspace_spend_alert_outbox`; `job, base,
outcome` are what a notifier remembers between its claim and its outcome. `_claim`, `_deliver`, `_succeed`
and `_fail` are an action each. The lease may run out under a post (`LeaseOutlasted`), because nothing
renews it and no check relates `worker_lease_seconds` to the timeout of the webhook.

**ExecutorJournal.** `steps` is `agent_model_steps`; `snapshot` and `context` are `agent_run_retrievals` with
its chunks and `agent_run_retrieval_context`; `cache` is `workspace_answer_cache`; `ledger` the source keys
charged; `exec` is what `_execute` holds in its local variables, with `stage` for where it is. Each
transaction of `ExecutorStore` is an action, and the stages between them are where other attempts act.
`calls` is a history of the responses a provider gave. `status, attempt, cancelReq, task` are those of
`RunContract`.

- The fence is `executable_run` as the contract sees it: latest attempt, running, no cancellation. A fence
  that fails for another reason (lease, membership), a denied budget, a provider error, a limit on the
  context: all end the execution, and `Finish` and `Abandon` may do so at every stage.
- One provider decision, agent and profile; prices and a retriever are configured. A key of the answer
  cache is then the question and the evidence, a scope key the evidence. The semantic search returns the
  nearest answer; the model any one above the threshold.
- `Retrieve` is the charge of the query and the search after it: nothing a run reads lies in between.
- The tool calls of a step are one action (`UseTools`); `ToolGovernance` has what happens in it.
- The cleanup trigger is part of each action that ends a run.
- A worker that stalls after its last fence may still send a request for a step another attempt has stored
  (`Generate` has no fence); its response is discarded by `Save`. ADR 0009 claims no more.

**EvaluationJudge.** `status, attempts, pin, owner, lease` are columns of `eval_judge_runs`; `score` is
`eval_judge_case_scores`, each score with the configuration of the worker that made it; `job, case, stage`
are what `process_once` has in hand. `claims` is a history. `_claim` is one transaction of two statements,
the bulk expiry and the take: `Claim` is both, `ExpireOnly` the first when no job is due. The lease has the
three states of `RunLifecycle`. `SaveCase`, `Fail` and `Dropped` are the transactions that begin with
`_owned`; `Break` is any exception between them.

- Refusals before the provider call (membership, budget, size), errors of the call and invalid answers are
  the choice of `Break`: what matters is whether the failure may be retried.
- `_finish_if_complete` has no effect in any execution: the save of the last case ends the job in the same
  transaction, so whoever finds no case left does not hold the job (`FreshHolder` in the proofs).
- Contents of prompts and scores, `quality_milli` and the read API are left out.
- A job that was pinned waits as long as no worker of its configuration runs; the code has no way out of
  that, and the fairness below assumes there is one.

**KnowledgeIngestion.** `status, attempts, owner, live` are columns of `knowledge_ingestion_jobs` (`live`: the lease has
not expired); `sources` is `rag_sources` with its chunks, each row with the job whose content it has; `charged` the
ledger's rows for source ids; `stage, work, again` what `process_once` holds; `deleting, locked` the transaction of
`delete_source`. A job is its idempotency key: what it asks for is fixed by the first request.

- `index_source` and `delete_source` lock the rows of jobs they have read and keep them to the end of the transaction;
  these locks are the guards of the other steps. `delete_source` reads the jobs of the key with a lock (`DeleteCheck`),
  and its UPDATE then sees what was committed since (`Deletion`): a job enqueued in between is cancelled as well, also
  one that was claimed in between.
- A source that exists keeps its id, so a replay of the same version with another text is not charged again
  (ADR 0025 says so, and that a crash between embedding and commit pays twice).
- Two jobs that insert the same version at once meet the unique index; the loser fails and is retried.

**AgentCatalog, TenantAgents.** A version is its place in semantic order; `release, rollouts, listed` are the catalog as
one workspace sees it and `Offered` is `offered_version`. `status, reason, pin, channel, mode, bound` are columns of
`tenant_agents` and its bindings, `events` its version history, `cursor` the scheduler's place. Operations lock the row
first and are one step, except that the timestamp of an event is the start of its transaction, which may have waited
(`Begin`): `rollback` orders by that timestamp. `rollback_rollout` looks for what served before in commit order (`Earlier`), in the
code by `created_at`; `Offered` is one step and two statements in the code. A move or rollback that waited for the
agent's row while the pin moved ends in a 404 there (the locked join is checked again) and may succeed here. `Sweep` is one batch of `apply_automatic_updates`; `SKIP LOCKED` is its
choice of `skipped`. A restarted worker begins with `cursor` None. The deployment's runtime version does not change.

**Connections.** `status, ref, config, creds, states` are `tenant_integrations`, `integration_credentials` and
`integration_oauth_states`; `tool` the workspace tool of a service, `after` the requests that have committed and not yet
called the provisioner; `stage, snapshot` a run between the check of `create_run` and its insert; `use` what a session
does inside a transaction that waits for a provider. Its writes are published at its end, its row locks are the guards
of others: `Refresh` inserts the new credential, `LockRow` updates the reference, `FinishTest` or `FinishCall` commits,
`Abort` drops all of it.

**What requests may overlap.** Every request of the API, and `index_source`, begins with `scoped` and holds the `workspaces`
row to the end of its transaction, through calls of providers too; so the requests of one workspace are serialised,
and an insert with a foreign key to `workspaces` waits for them. Only `SpendLedger` has that row, because
`CrossingsRaised` depends on it where there is no budget. `KnowledgeIngestion`, `Connections` and `TenantAgents` let requests
overlap each other and the writers as far as their finer locks do. That is more than the code does: what holds there holds in the
code, and rests on fewer locks than it takes. What the extra overlaps show is not reported as a divergence. The overlaps that
are real in these modules are those with the workers: claims, heartbeats, failures and embedding; the calls of runs, with
the refreshes in them; the scheduler of automatic updates.

## 3. Runs

| run | what it asks | result |
|---|---|---|
| `run` | one run, two workers, one fault: are run, receipt, outbox and queue consistent, do duplicates start nothing, is every step one of `RunContract`, does the run end or park and a cancellation happen? | holds |
| `tool` | two calls, two workers, approvers, sweeper and administrators at once: do run, call and approval stay in step, does every wait end if nobody decides? | holds |
| `tool_expiry` | "Rejecting or expiring an approval cancels the run" (ADR 0006) | **violated** |
| `journal` | overlapping attempts, changing tools and knowledge, answers of other runs: inserts, lost calls, memory, evidence, the log | holds |
| `judge` | two jobs, three workers, two configurations: claims accounted, scores of one configuration, every job ends | holds |
| `spend` | overlapping charges and budgets, the first budget of a workspace included: crossings, overshoot, the contract | holds |
| `alert_delivery` | outcomes and termination under dying and slow notifiers | holds |
| `knowledge` | three jobs of a key, two workers, a deletion and a fault: one current source, published once, charged; every job ends | holds |
| `agents` | a catalog in motion, requests that overlap and the scheduler: history, bindings, runtime, automatic updates | holds |
| `agent_pause` | "A pause someone asked for is a decision, so it is never undone" (`_settle_status`) | **violated** |
| `connections` | tests, refreshes, authorizations and calls against rotation and removal: the vault, the calls of a run, its snapshot | holds |

Every property of a passing run has a mutant: an operator beside the definition it replaces, changed
as a plausible bug would, under which TLC finds the property violated.

### The divergences

- **`tool_expiry`.** `prepare_call` commits the pending approval before `wait_for_approval` parks the run.
  If the worker is lost in between, recovery puts the running run back in the queue; an approval that
  then expires cancels the call and leaves the run queued. It is claimed again and *fails* on the closed
  call instead of being cancelled.
- **`agent_pause`.** `_settle_status` knows a person's pause by `paused_reason = 'operator'`, but overwrites the reason
  with `not_ready` as soon as a required binding is missing. Pause, clear a binding, set it again: the agent is active.

Smaller ones, seen while modelling and stated by no run:

- A post that outlasts its lease is sent again while under way (nothing renews the lease, `spend_alert_worker.py:169`);
  ADR 0032 says that two workers cannot deliver the same notification concurrently.
- `rollback` of an agent takes the event with the latest timestamp, which is the start of its transaction: after two
  overlapping moves it may return to another version than the one before the last change. `rollback_rollout` of a
  rollout that replaced another restores what that one had, and on a channel with another active rollout it fails on the
  unique index. A workspace outside a rollout's percentage may be offered a newer version that is not rolled out at all.
- Switching a connection off does not pause the agents that are bound to it (ADR 0044 says it does): they fail at their
  next call. A call that began before and refreshes its token makes a disabled connection `connected` again. (A test could
  in the model; in the code it holds the `workspaces` row, so switching off waits for it.)
- Two overlapping refreshes of calls leave one credential that nothing refers to, until the connection is removed;
  `VaultConsistent` is stated with that exception. A failed token exchange rolls back the consumption of its
  authorization state, and an error of a call rolls back the refreshed token with it.
- A crash between `connect` and the sync of its tools leaves them missing, one after `disconnect` leaves them enabled.

### Bounds, and why they are enough

- Two workers are enough for every race of a holder with one that takes over; the fence and the
  receipts compare a worker with one other at most. That runs sharing the queue and the
  workers do not disturb each other is not checked but proved, for any number of runs (section 4).
- `MaxJobs` (4): creation, one retry or recovery, one orphan or resumption, one more. When the bound
  is reached no further row is inserted; there is one more row than the single fault and the bounded parks
  can use up.
- `MaxFaults` (1; several faults are left to the proofs) counts crashes, steps that raise, lost commits, lost streams, dead letters and stalls.
  Duplicated entries, reclaims and late answers need none of them.
- `MaxRunAttempts = 2` and `MaxPublishAttempts = 2` put every run at its limit. `MaxParks` and
  `MaxLosses` stop approvals and losses after that many attempts, so that the graph is finite.
- Two contract versions, one of them forced, are what a change of contract needs.
- Three source keys with costs 1 and 2 under a limit of 2 reach the limit, exceed it by two calls in
  flight and replay a key. The month begins with a budget or
  without. One admin is enough: two cannot be in a transaction at once, since `scoped` locks the `workspaces` row.
- Three delivery attempts (5 in the code) leave room for a retry between a stale answer and the last.
- `ExecutorJournal`: two steps and two attempts are a replayed step followed by a new one; a limit of two
  tokens is met exactly and exceeded; one chunk gives two sets of evidence. Answers
  of one other run, put into the cache at any moment, are what a second run could contribute.
- `EvaluationJudge`: two attempts (3 in the code) are one retry and the last; two workers of one
  configuration are a holder and one that takes over, the third has another configuration; of the two jobs
  one has a baseline, and one claim can strike the one and take the other. Nothing is bounded besides: every
  loss of a worker costs the job an attempt.
- `KnowledgeIngestion`: three jobs of one key are a version, a newer one and the first again, so that each may be the
  earlier, the later and the overtaken one; two attempts are one retry and the last; one crash or stall.
- `TenantAgents`: three versions, of which the second needs an integration and the third cannot run here; three
  catalog changes suffice for a version, its rollout and its withdrawal. With one agent and batches of one every sweep
  ends at a batch boundary and a skipped row is the whole batch. (`NumAgents = 2` with two changes, two rollouts and one
  request passes as well, but has no rollout that restores an earlier one.)
- `Connections`: a service with a key and one with an authorization flow, one connection of each; two sessions are a
  use and another that overtakes it; three credentials are a first, a rotation and a refresh.

The theorems below hold without any of these bounds being small.

### Fairness

- `RunLifecycle`: weak fairness of each worker's own steps, because `WorkerRuntime.run` loops until it is
  stopped and backs off after an exception instead of ending; and of the clock, by which a lease nobody
  renews runs out. A worker that is processing renews its lease, otherwise that is a counted fault.
  Requesters, approvers and faults owe nothing. A crash leaves at least one worker, as the deployment does.
- `ToolGovernance`: weak fairness of time (an approval falls due) and of the sweeper. Nobody must decide.
- `AlertDelivery`: weak fairness of the notifiers (the loop again, and a post ends by its timeout), of the
  claim of each alert (`ORDER BY available_at` passes none over for ever) and of the expiry of leases
  whose holder is gone.
- `EvaluationJudge`: weak fairness of polling and of the steps of `process_once` (the loop again; provider
  calls end by their timeout) and of the clock. Crashes and heartbeats owe nothing, and need no bound.
- `KnowledgeIngestion`: weak fairness of each worker's steps (the loop again; embedding and statements end by their
  timeouts), of the expiry of leases and of an open deletion. Crashes and stalls are counted faults; a failure that can
  be retried is not, and ends at the attempt limit.
- `TenantAgents`: weak fairness of the scheduler, which sweeps in `WorkerRuntime.run`, and of the end of a request. It is
  fair to the sweep and not to any choice of rows: that a row locked by a request is skipped cannot last, because the
  request ends.
- `Connections` has no liveness property: everything in it is somebody's choice.
- `SpendLedger` and `ExecutorJournal` have no liveness property: what the first does is the choice of a
  caller, and that an execution ends is part of `RunLifecycle`.

## 4. Proofs

All for any number of processes and rows, from the named assumptions on the constants only
(`BoundsAssumption`: bounds are naturals, some positive; `NoWorkerAssumption`, `NoRunAssumption`,
`NoneAssumption`, `ProcessAssumption`, `SnapshotAssumption`: the values for "none" are not elements; `BudgetAssumption`: what
the validators of `spend.py` and the CHECKs of migrations 012 and 013 admit; `CostAssumption`: costs are naturals, and there are
finitely many of them and of payers, since a bound of "one dearest call of each payer" is asked for; `LimitAssumption`: the limits
on steps and tokens are positive, as `ExecutionProfile` demands; `ContractsAssumption`, `IngestionAssumption`, `CatalogAssumption`,
`AgentsAssumption`, `ConnectionsAssumption` and the others of that kind: the types of the constants, and that a version declares what it requires).

**RunLifecycleProofs.** `TypeInv` is `TypeOK` with `JobsKnown`: a message, a receipt or a worker never names
an unused job. On it rest: `HeldInv`, the per-run form of `OwnerHoldsReceipt`, which is inductive by itself
once every step is known to change the receipts of one run only (`Moving`, `KeepRun`); `AttemptsDistinct`,
two executors of a run have claimed different attempts, none later than the run's; `AttemptsEarned`,
which counts requeues; and the pair `JobKept`, `JobInserted` for `QueuedRunHasJob`. `OneExecutor` follows
from `AttemptsDistinct` since the fence asks for the run's latest attempt. `ReceiptsFinal` is an action
property, from `OwnerHolds`.

Refinement: the contract's `task` is a worker's run and attempt while it executes. The step that needs more than the
invariants above is a completion: the code compares lease owner and receipt and never the attempt, and `OwnerIsLatest`
(the lease owner that executes its run executes its latest attempt) is why that is enough.

**ToolGovernanceProofs.** `Orderly` is what the checked invariants say of one call, and that the calls before it have
succeeded; with `Steady`, the same of the call a worker is at, a run has one open call at most, which is why it never
waits for two approvals. `Distinct` and `Marked` (no two workers execute one attempt; who performs a call for the latest
attempt is the last that marked it) give `ResultOfLastStart`. `CallMove` lists the eight things a step can do to a call:
each preserves `Orderly` and is a transition the triggers accept. `Awaited` is by action. The refinement of
`RunContract` is the identity on its variables; a worker's part is its `Finish`.

**SpendProofs**, the ledger. No assumption is made on the budget the month begins with. `OneScoped`: an admin's transaction
overlaps neither a charge nor another admin's. `StagedOnce`: one uncharged key per open charge. `LockHeld`: from its evaluation
to its end a charge holds the budget row, unless there is no budget; an admin holds it from its write on. From these `EvaluationCurrent`: what a transaction found
reached is still what it will publish. Only its own kind can disturb it; of two charges, one waits for the budget row of the
other, and without a budget neither reaches anything and none can appear while they are open. A commit is then a step of
`SpendContract` with all its alerts, or a stutter, and `CrossingsRaised` is inductive with the rest.

`OvershootInv` is the bound with the calls in flight counted as if they were charged:
while a limit is in force, the ledger and the dearest call of every payer between its evaluation and its end stay below
the ceiling and one such call of each payer. A payer that passes the evaluation has seen a sum below the limit or an older one
of a higher limit, which the ceiling remembers; a commit moves its call from the second part to the first.
The sum is a recursive fold over a finite set. That it adds one charge for one entry more (`SumRestricted`, `ConsumedFacts`) is
induction over data, made without the induction theorems: if the fold failed for some subset there would be a smallest one
(`SmallestSubset`, from the well-foundedness of strict inclusion among finite sets), and unfolding the recursion once refutes it.

**SpendProofs**, the delivery (`AlertDelivery` names its definitions so that one module can extend it and `SpendLedger`). `HolderCurrent`: while a notifier owns the row it claimed, nobody has counted an
attempt since. `OutcomeFinal` follows from what an outcome may write (`Recorded`).

**ExecutorJournalProofs.** `AttemptsDistinct` again: no two workers execute one attempt, so at most one passes
the fence of a run (`OneFenced`), and who passes it after a step passed it before or has just claimed the
run (`FenceKept`). The rows of a run are therefore changed by nobody else between the load and the insert
of the worker whose insert counts: `NoConflict` is inductive with that. `OneLostCallPerAttempt` needs
`LiveCalls`: a response that is not in the journal belongs to an attempt that is over, or is the one its
worker is about to save. `ContextWhileOpen` is inductive by itself: evidence is written behind the fence and
the trigger acts in the statement that closes the run.

`MemoryMatchesJournal` follows from `MemoryInv`: the steps of a run are numbered without gaps (`Numbered`); the stage of a worker
bounds its step and its tokens, whether or not it is still the one that counts (`Sober`); and whoever passes the fence has seen
the whole journal of its run, in which every step before its own called a tool (`View`): nobody else stores for that run, so what
it loaded is still what is there. Its token total is a sum over the journal, with the same smallest-subset argument as the
ledger's.

`ImplementsTheLog`: a saved response is `Generate` of the contract, an answer restored from a cache `Reuse`, the insert of the
snapshot `Ground`, the end of a run `Close`, all else a stutter. That the step inserted is the next one and within the limits is
`View`; that an answer may be reused needs `CacheKnown`: what the shared cache offers is in some journal, or of another run.

**EvaluationJudgeProofs.** `FreshHolder`: whatever a worker missed while it stalled, if it still owns the
lease then the case in its hand is the first one without a score, because only `_claim` makes an owner. With
it a save adds exactly one score (`Saving`), hence `ClaimsAccounted`, and is a `Score` of the contract; the
strikes of one bulk expiry are one `Strike` of each job (`Striking`), since the contract lets jobs step
together. `TypeOK` needs `OpenHasMore`: an open job has attempts and its last case left.

**KnowledgeIngestionProofs.** `IInv` says what a stage of a worker knows: who is writing owns its job and holds its
row, so that a commit is the only publication of the job; the jobs a deletion has locked are open and nobody is writing
them; and a source is named for a job that succeeded, so a new id is never one that is stored. `Written` and `Retired` are what `index_source` makes of a table of sources; that they keep one
current source of a key and one of a version is proved of them alone. A commit is `Publish` of the contract, the two
statements of a deletion are `Doom` and `Delete`, everything else is a stutter, a `Request` or a `Drop`.
`AttemptsBounded` needs that who fails a job owns it, so that only a loss can cost an attempt beyond the limit.

**TenantAgentsProofs.** The chain of events is inductive together with its numbering and with the fact that all its
versions can run, from which a rollback, which does not look, inherits `PinIsRunnable`. `ActiveIsBound` is inductive
because every operation that changes pin or bindings settles the status in the same transaction.

**ConnectionsProofs.** A session that waits for a provider keeps rows as they are by its locks, and the strengthening says which:
`Sessions` (a connection being tested or called exists and has no open authorization; one whose authorization completes is in no
other session; a standard call belongs to a queued run), `Runs` (between its check and its insert a run's agent is bound to the
connection of its snapshot, and nobody is writing that connection) and `IdsOnce` (a credential id, also one
inserted and not yet committed, is used once). Most steps are calm, i.e. leave the vault alone (`CalmKeeps`); a rotation, an insert of a refresh, a
commit and a removal have a lemma each. `VaultConsistent`, `CallsAsQueued` and `QueuedAsConnected` follow. The exception for
overlapping refreshes stays in the statement: it is what the code does.

**Only model-checked.** Every safety property of a passing run is proved. Liveness (`RunsSettle`, `CancelsHappen`,
`WaitsEnd`, `AlertsResolve`, the two `JobsEnd`, `AutomaticFollowsOffer`) is left to TLC, because fairness and ENABLED are beyond
the prover. Of the properties expected to fail nothing is proved.

## 5. Not modelled

Components with their reasons are in `PROJECT.json`. In short: cryptography, token verification, ranking
and embedding are libraries or numerical; the console and the release scripts have no state of their own;
migrations enter through the triggers and constraints the models rely on. Lock order between
transactions needs a model of row locks of its own. Cycles are possible: `cancel_run` locks workspace and membership and
then the run, the executor's fence the run and then the membership and, by the foreign keys of what it inserts, the workspace;
the sweep of automatic updates locks agents and then, by the events it inserts, the workspace, a request the workspace and then
the agent. PostgreSQL ends such a cycle by aborting one transaction, which the models allow (`StepRaises`, `Abort`, a batch that does not happen). Of the components
that are modelled in part: forks, policy defaults and display names of tenant agents; publication of connector
definitions, expiry of an authorization state, uniqueness of accounts, the aliases of tools in a run, and the tools of
tasks and browser; chunking, access lists and ranking of knowledge.

## 6. Plan

1. Run state machine, outbox, worker loop: done, proved.
2. Tool governance: done, proved.
3. Spend ledger and alert delivery: done, proved but for the delivery's liveness.
4. Executor journal: done, proved.
5. Evaluation judge: done, proved.
6. Knowledge ingestion: done, proved.
7. Catalog and tenant agents: done, proved but for the scheduler's liveness.
8. Connections: done, proved.
9. `LockOrder`: the row locks of claim, renew, complete, prepare, decide and sweep, of `scoped` and of foreign keys, in the
   order the code takes them; which of the cycles of section 5 can close.
10. Evaluations, tasks, key cache and rate limit: small, and mostly one-statement transactions.
11. The ledger and the delivery of its alerts as one system: the row an alert inserts is the one a notifier claims.
