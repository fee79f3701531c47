---------------------------- MODULE ToolGovernance ----------------------------
(***************************************************************************)
(* Governed tool calls of a run (tool_repository.py, mcp_gateway.py): the  *)
(* durable call and approval rows, the policy and contract of each tool,   *)
(* the approvers, the sweeper of expired approvals, and workers that       *)
(* prepare, mark, perform and record one call after the other.             *)
(*                                                                         *)
(* The run itself is the one of RunContract, which RunLifecycle shows the  *)
(* queue, the leases and the receipts to implement: a worker "passes the   *)
(* fence" when it executes the latest attempt of a running run.  Leases    *)
(* are left out, so here a worker that lost its lease passes the fence     *)
(* until another process takes note; the code refuses it earlier.          *)
(*                                                                         *)
(* The journal makes a retried run ask for the same calls in the same      *)
(* order with the same arguments, so a call is named by its run and its    *)
(* place in that order (the call_key step:i:tool:j).                       *)
(***************************************************************************)
EXTENDS Naturals, FiniteSets

CONSTANTS
  Run,
  Worker,
  NumKeys,          \* calls a run makes; each uses a tool of its own
  Contracts,        \* bound: the contracts, <<tool, number>>, tools may be registered with
  Forced,           \* contracts of a side-effect class in _FORCE_APPROVAL
  MaxRunAttempts,   \* run_state.MAX_RUN_ATTEMPTS
  MaxLosses         \* bound: attempts after which no worker loses its run

Key  == 1..NumKeys
Call == Run \X Key

ASSUME BoundsAssumption ==
  /\ NumKeys \in Nat \ {0}
  /\ MaxRunAttempts \in Nat \ {0}
  /\ MaxLosses \in Nat
ASSUME ContractsAssumption ==
  /\ Contracts \subseteq Key \X Nat
  /\ Key \X {0} \subseteq Contracts
ASSUME ForcedAssumption == Forced \subseteq Contracts

VARIABLES
  status, attempt, cancelReq, task,   \* the run, as in RunContract
  phase, at,                          \* where a worker is, and at which call
  policy, version,                    \* tool_policies and the tool's contract
  member,                             \* the requester may still run agents
  call, contract,                     \* tool_calls: status, contract hash
  approval, due,                      \* tool_approvals: status, expires_at <= now
  markedBy, resultBy                  \* history: attempt that started the call,
                                      \* attempt whose result it holds

runVars   == <<status, attempt, cancelReq>>
taskVars  == <<task, phase, at>>
adminVars == <<policy, version, member>>
callVars  == <<call, contract, markedBy, resultBy>>
apprVars  == <<approval, due>>
vars == <<runVars, taskVars, adminVars, callVars, apprVars>>

Contract == INSTANCE RunContract

Terminal   == Contract!Terminal
NoTask     == Contract!NoTask
CallStatus == {"absent", "planned", "pending_approval", "approved", "running",
               "succeeded", "failed", "denied", "cancelled"}
Active     == {"planned", "pending_approval", "approved", "running"}
Closed     == {"failed", "denied", "cancelled"}
Approvals  == {"none", "pending", "approved", "rejected", "expired", "cancelled"}
Decision   == {"allow", "require_approval", "deny"}
Verdict    == {"success", "retry", "failure", "park"}
Phase      == {"idle", "prepare", "mark", "remote", "ok", "retryable", "fatal"} \cup Verdict

TypeOK ==
  /\ Contract!TypeOK
  /\ phase \in [Worker -> Phase]
  /\ at \in [Worker -> 0..NumKeys]
  /\ policy \in [Key -> Decision]
  /\ version \in [Key -> Nat]
  /\ \A k \in Key : <<k, version[k]>> \in Contracts
  /\ member \in [Run -> BOOLEAN]
  /\ call \in [Call -> CallStatus]
  /\ contract \in [Call -> Nat]
  /\ approval \in [Call -> Approvals]
  /\ due \in [Call -> BOOLEAN]
  /\ markedBy \in [Call -> Nat]
  /\ resultBy \in [Call -> Nat]

Init ==
  /\ Contract!Init
  /\ phase = [w \in Worker |-> "idle"]
  /\ at = [w \in Worker |-> 0]
  /\ policy \in [Key -> Decision]
  /\ version = [k \in Key |-> 0]
  /\ member = [r \in Run |-> TRUE]
  /\ call = [c \in Call |-> "absent"]
  /\ contract = [c \in Call |-> 0]
  /\ approval = [c \in Call |-> "none"]
  /\ due = [c \in Call |-> FALSE]
  /\ markedBy = [c \in Call |-> 0]
  /\ resultBy = [c \in Call |-> 0]

-----------------------------------------------------------------------------
\* The call a worker is at, and its tool
RunOf(w)  == task[w].run
CallOf(w) == <<RunOf(w), at[w]>>
CallsOf(r) == {r} \X Key

\* Mutant of Effective: the administrator's policy is taken as it is.
EffectiveAsConfigured(k) == policy[k]

\* _effective_policy; a disabled tool is a denied one
Effective(k) ==
  IF policy[k] = "allow" /\ <<k, version[k]>> \in Forced
    THEN "require_approval" ELSE policy[k]

\* executable_run
Latest(w) ==
  /\ status[RunOf(w)] = "running"
  /\ attempt[RunOf(w)] = task[w].attempt

\* Mutant of Fence: a requested cancellation passes it.
FenceUncancelled(w) == Latest(w) /\ member[RunOf(w)]

Fence(w) == Latest(w) /\ ~cancelReq[RunOf(w)] /\ member[RunOf(w)]

Current(w) == contract[CallOf(w)] = version[at[w]]
Approved(w) == approval[CallOf(w)] = "approved"

Goto(w, p) == phase' = [phase EXCEPT ![w] = p] /\ UNCHANGED <<task, at>>

SetCall(c, s) == call' = [call EXCEPT ![c] = s]

\* _create_approval: one approval per call (UNIQUE tool_call_id)
NewApproval(c) ==
  /\ approval[c] = "none"
  /\ approval' = [approval EXCEPT ![c] = "pending"]
  /\ UNCHANGED due

-----------------------------------------------------------------------------
\* Runs and attempts (RunLifecycle shows how the queue gets a run here)

Submit(r) ==
  /\ Contract!Submit(r)
  /\ UNCHANGED <<phase, at, adminVars, callVars, apprVars>>

\* claim: of a queued run, or of one whose worker is lost
StartAttempt(w, r) ==
  /\ status[r] = "running" => attempt[r] < MaxLosses
  /\ Contract!Start(w, r)
  /\ phase' = [phase EXCEPT ![w] = "prepare"]
  /\ at' = [at EXCEPT ![w] = 1]
  /\ UNCHANGED <<adminVars, callVars, apprVars>>

\* claim of a queued run that was asked to stop while it ran
StartCancelled(r) ==
  /\ status[r] = "queued"
  /\ cancelReq[r]
  /\ Contract!Cancel(r)
  /\ UNCHANGED <<phase, at, adminVars, callVars, apprVars>>

\* recover_stale: nothing in tool_calls or tool_approvals changes
RecoverRun(r) ==
  /\ status[r] = "running"
  /\ attempt[r] < MaxLosses
  /\ Contract!Requeue(r)
  /\ UNCHANGED <<phase, at, adminVars, callVars, apprVars>>

Idle(w) ==
  /\ task' = [task EXCEPT ![w] = NoTask]
  /\ phase' = [phase EXCEPT ![w] = "idle"]
  /\ at' = [at EXCEPT ![w] = 0]

\* The process dies, or its completion finds the run taken from it.
Abandon(w) ==
  /\ task[w] # NoTask
  /\ Idle(w)
  /\ UNCHANGED <<runVars, adminVars, callVars, apprVars>>

-----------------------------------------------------------------------------
\* prepare_call: fence, lock run, tool, call and approval, decide

Preparing(w) == phase[w] = "prepare" /\ Fence(w)

\* ToolContractError("execution_fenced") or "requester_not_authorized": the
\* executor makes it a terminal error.  (_denied_plan is never reached: the
\* fence has refused the requester before.)
PrepareFenced(w) ==
  /\ phase[w] = "prepare"
  /\ ~Fence(w)
  /\ Goto(w, "failure")
  /\ UNCHANGED <<runVars, adminVars, callVars, apprVars>>

Advance(w) ==
  /\ IF at[w] = NumKeys
       THEN phase' = [phase EXCEPT ![w] = "success"] /\ UNCHANGED at
       ELSE phase' = [phase EXCEPT ![w] = "prepare"] /\ at' = [at EXCEPT ![w] = @ + 1]
  /\ UNCHANGED task

\* The call succeeded in an earlier attempt: its stored result is replayed.
PrepareReplay(w) ==
  /\ Preparing(w)
  /\ call[CallOf(w)] = "succeeded"
  /\ Advance(w)
  /\ UNCHANGED <<runVars, adminVars, callVars, apprVars>>

\* Mutant of PrepareContractChanged: the pending approval survives its call.
PrepareContractChangedOnly(w) ==
  LET c == CallOf(w) IN
  /\ Preparing(w)
  /\ call[c] \notin {"absent", "succeeded"}
  /\ ~Current(w)
  /\ SetCall(c, IF call[c] \in Active THEN "cancelled" ELSE call[c])
  /\ Goto(w, "failure")
  /\ UNCHANGED <<runVars, adminVars, contract, markedBy, resultBy, apprVars>>

\* The tool was registered anew since the call was planned.
PrepareContractChanged(w) ==
  LET c == CallOf(w) IN
  /\ Preparing(w)
  /\ call[c] \notin {"absent", "succeeded"}
  /\ ~Current(w)
  /\ approval' = [approval EXCEPT ![c] = IF @ = "pending" THEN "cancelled" ELSE @]
  /\ SetCall(c, IF call[c] \in Active THEN "cancelled" ELSE call[c])
  /\ Goto(w, "failure")
  /\ UNCHANGED <<runVars, adminVars, contract, markedBy, resultBy, due>>

Existing(w) == Preparing(w) /\ Current(w) /\ call[CallOf(w)] \in Active \cup Closed

PrepareClosed(w) ==
  /\ Existing(w)
  /\ call[CallOf(w)] \in Closed
  /\ Goto(w, "failure")
  /\ UNCHANGED <<runVars, adminVars, callVars, apprVars>>

Reusable(w) == Existing(w) /\ call[CallOf(w)] \in Active

\* A still undecided approval is waited for, whatever the policy is by now.
PreparePending(w) ==
  /\ Reusable(w)
  /\ approval[CallOf(w)] = "pending"
  /\ Goto(w, "park")
  /\ UNCHANGED <<runVars, adminVars, callVars, apprVars>>

\* Mutant of PrepareDenied: the trigger's missing edges are forgotten.
PrepareDeniedAlways(w) ==
  LET c == CallOf(w) IN
  /\ Reusable(w)
  /\ approval[c] # "pending"
  /\ Effective(at[w]) = "deny"
  /\ SetCall(c, "denied")
  /\ Goto(w, "failure")
  /\ UNCHANGED <<runVars, adminVars, contract, markedBy, resultBy, apprVars>>

PrepareDenied(w) ==
  LET c == CallOf(w) IN
  /\ Reusable(w)
  /\ approval[c] # "pending"
  /\ Effective(at[w]) = "deny"
  /\ SetCall(c, IF call[c] \in {"approved", "running"} THEN "cancelled" ELSE "denied")
  /\ Goto(w, "failure")
  /\ UNCHANGED <<runVars, adminVars, contract, markedBy, resultBy, apprVars>>

\* Approval became necessary after the call was started without one.
PrepareTooLate(w) ==
  /\ Reusable(w)
  /\ approval[CallOf(w)] \notin {"pending", "approved"}
  /\ Effective(at[w]) = "require_approval"
  /\ call[CallOf(w)] # "planned"
  /\ Goto(w, "failure")
  /\ UNCHANGED <<runVars, adminVars, callVars, apprVars>>

PrepareApproval(w) ==
  /\ Reusable(w)
  /\ Effective(at[w]) = "require_approval"
  /\ call[CallOf(w)] = "planned"
  /\ NewApproval(CallOf(w))
  /\ SetCall(CallOf(w), "pending_approval")
  /\ Goto(w, "park")
  /\ UNCHANGED <<runVars, adminVars, contract, markedBy, resultBy>>

PrepareAgain(w) ==
  /\ Reusable(w)
  /\ approval[CallOf(w)] # "pending"
  /\ \/ Effective(at[w]) = "allow"
     \/ Effective(at[w]) = "require_approval" /\ Approved(w)
  /\ Goto(w, "mark")
  /\ UNCHANGED <<runVars, adminVars, callVars, apprVars>>

\* The first time: the call row is inserted with the tool's present contract.
PrepareNew(w) ==
  LET c == CallOf(w)
      e == Effective(at[w])
  IN
  /\ Preparing(w)
  /\ call[c] = "absent"
  /\ contract' = [contract EXCEPT ![c] = version[at[w]]]
  /\ \/ e = "deny" /\ SetCall(c, "denied") /\ Goto(w, "failure") /\ UNCHANGED apprVars
     \/ /\ e = "require_approval"
        /\ SetCall(c, "pending_approval")
        /\ NewApproval(c)
        /\ Goto(w, "park")
     \/ e = "allow" /\ SetCall(c, "planned") /\ Goto(w, "mark") /\ UNCHANGED apprVars
  /\ UNCHANGED <<runVars, adminVars, markedBy, resultBy>>

-----------------------------------------------------------------------------
\* _invoke after an "execute" plan: poll, mark, perform, record

CancelSeen(w) ==
  /\ phase[w] = "mark"
  /\ cancelReq[RunOf(w)] \/ status[RunOf(w)] = "cancelled"
  /\ Goto(w, "failure")
  /\ UNCHANGED <<runVars, adminVars, callVars, apprVars>>

\* What mark_running checks again under its own locks
Markable(w) ==
  /\ Fence(w)
  /\ Current(w)
  /\ Effective(at[w]) # "deny"
  /\ Effective(at[w]) = "require_approval" => Approved(w)
  /\ call[CallOf(w)] \in {"planned", "approved", "running"}

MarkRunning(w) ==
  /\ phase[w] = "mark"
  /\ Markable(w)
  /\ SetCall(CallOf(w), "running")
  /\ markedBy' = [markedBy EXCEPT ![CallOf(w)] = task[w].attempt]
  /\ Goto(w, "remote")
  /\ UNCHANGED <<runVars, adminVars, contract, resultBy, apprVars>>

MarkRefused(w) ==
  /\ phase[w] = "mark"
  /\ ~Markable(w)
  /\ Goto(w, "failure")
  /\ UNCHANGED <<runVars, adminVars, callVars, apprVars>>

\* The adapter answers, fails, times out or is missing.  The remote system may
\* have acted in every case.
Perform(w, outcome) ==
  /\ phase[w] = "remote"
  /\ Goto(w, outcome)
  /\ UNCHANGED <<runVars, adminVars, callVars, apprVars>>

\* Mutant of RecordSuccess: any answer of a running call is recorded.
RecordSuccessUnfenced(w) ==
  /\ phase[w] = "ok"
  /\ call[CallOf(w)] = "running"
  /\ SetCall(CallOf(w), "succeeded")
  /\ resultBy' = [resultBy EXCEPT ![CallOf(w)] = task[w].attempt]
  /\ Advance(w)
  /\ UNCHANGED <<runVars, adminVars, contract, markedBy, apprVars>>

\* complete_success of the call
RecordSuccess(w) ==
  /\ phase[w] = "ok"
  /\ Fence(w)
  /\ call[CallOf(w)] = "running"
  /\ SetCall(CallOf(w), "succeeded")
  /\ resultBy' = [resultBy EXCEPT ![CallOf(w)] = task[w].attempt]
  /\ Advance(w)
  /\ UNCHANGED <<runVars, adminVars, contract, markedBy, apprVars>>

\* complete_failure of the call; one that is no longer running stays as it is
RecordFailure(w) ==
  LET c == CallOf(w)
      again == phase[w] = "retryable"
  IN
  /\ phase[w] \in {"retryable", "fatal"}
  /\ Fence(w)
  /\ SetCall(c, IF call[c] # "running" THEN call[c]
                ELSE IF ~again THEN "failed"
                ELSE IF Approved(w) THEN "approved" ELSE "planned")
  /\ Goto(w, IF again THEN "retry" ELSE "failure")
  /\ UNCHANGED <<runVars, adminVars, contract, markedBy, resultBy, apprVars>>

\* The fence raises in either completion, which the executor makes a terminal
\* error; tool_call_fenced, of a call that is no longer running, is retried.
RecordFenced(w) ==
  /\ \/ phase[w] \in {"ok", "retryable", "fatal"} /\ ~Fence(w)
     \/ phase[w] = "ok" /\ call[CallOf(w)] # "running"
  /\ Goto(w, IF Fence(w) THEN "retry" ELSE "failure")
  /\ UNCHANGED <<runVars, adminVars, callVars, apprVars>>

-----------------------------------------------------------------------------
\* process_once: the executor's verdict becomes the run's state if the worker
\* still owns the run (RunLifecycle: Complete..., WaitForApproval).

\* The executor failed before it reached a tool: a provider, a budget, a limit.
ExecutorFails(w, verdict) ==
  /\ phase[w] = "prepare"
  /\ Goto(w, verdict)
  /\ UNCHANGED <<runVars, adminVars, callVars, apprVars>>

\* Mutant of Outcome: the executor's verdict wins over a cancellation.
OutcomeUncancelled(w) ==
  LET v == phase[w] IN
  IF v = "success" THEN "succeeded"
  ELSE IF v = "park" THEN "waiting_for_approval"
  ELSE IF v = "retry" /\ attempt[RunOf(w)] < MaxRunAttempts THEN "queued"
  ELSE "failed"

\* What the completing transaction makes of the run
Outcome(w) ==
  LET v == phase[w] IN
  IF cancelReq[RunOf(w)] THEN "cancelled"
  ELSE IF v = "success" THEN "succeeded"
  ELSE IF v = "park" THEN "waiting_for_approval"
  ELSE IF v = "retry" /\ attempt[RunOf(w)] < MaxRunAttempts THEN "queued"
  ELSE "failed"

Finish(w) ==
  /\ phase[w] \in Verdict
  /\ Latest(w)
  /\ phase[w] = "park" /\ ~cancelReq[RunOf(w)] => approval[CallOf(w)] = "pending" /\ ~due[CallOf(w)]
  /\ status' = [status EXCEPT ![RunOf(w)] = Outcome(w)]
  /\ Idle(w)
  /\ UNCHANGED <<attempt, cancelReq, adminVars, callVars, apprVars>>

-----------------------------------------------------------------------------
\* Requesters, approvers, administrators and the sweeper

\* cancel_run: approvals and calls first, then the run
CancelRun(r) ==
  /\ status[r] \in {"queued", "running", "waiting_for_approval"}
  /\ approval' = [c \in Call |-> IF c \in CallsOf(r) /\ approval[c] = "pending"
                                   THEN "cancelled" ELSE approval[c]]
  /\ call' = [c \in Call |->
                IF c \in CallsOf(r) /\ call[c] \in {"planned", "pending_approval", "approved"}
                  THEN "cancelled" ELSE call[c]]
  /\ cancelReq' = [cancelReq EXCEPT ![r] = TRUE]
  /\ status' = [status EXCEPT ![r] = IF @ = "running" THEN @ ELSE "cancelled"]
  /\ UNCHANGED <<attempt, taskVars, adminVars, contract, markedBy, resultBy, due>>

\* Mutant of CloseApproval: only a running run is cancelled.
CloseApprovalRunning(c, as) ==
  /\ approval[c] = "pending"
  /\ approval' = [approval EXCEPT ![c] = as]
  /\ SetCall(c, IF call[c] \in Active THEN "cancelled" ELSE call[c])
  /\ status' = [status EXCEPT ![c[1]] = IF @ = "running" THEN "cancelled" ELSE @]
  /\ UNCHANGED <<attempt, cancelReq, taskVars, adminVars, contract, markedBy, resultBy, due>>

\* _cancel_approval: the approval, its call, and the run if it runs or waits
CloseApproval(c, as) ==
  /\ approval[c] = "pending"
  /\ approval' = [approval EXCEPT ![c] = as]
  /\ SetCall(c, IF call[c] \in Active THEN "cancelled" ELSE call[c])
  /\ status' = [status EXCEPT ![c[1]] =
                  IF @ \in {"running", "waiting_for_approval"} THEN "cancelled" ELSE @]
  /\ UNCHANGED <<attempt, cancelReq, taskVars, adminVars, contract, markedBy, resultBy, due>>

\* Mutant of ExpireApproval: the sweep joins the requester's membership.
ExpireApprovalOfMember(c) == due[c] /\ member[c[1]] /\ CloseApproval(c, "expired")

\* expire_due of the worker loop, _expire_due of the approval list, and
\* decide_approval of an approval past its time
ExpireApproval(c) == due[c] /\ CloseApproval(c, "expired")

\* decide_approval sees an approval in time and a waiting run
Decidable(c) ==
  /\ approval[c] = "pending"
  /\ ~due[c]
  /\ status[c[1]] = "waiting_for_approval"

Reject(c) ==
  /\ Decidable(c)
  /\ approval' = [approval EXCEPT ![c] = "rejected"]
  /\ SetCall(c, "denied")
  /\ status' = [status EXCEPT ![c[1]] = "cancelled"]
  /\ UNCHANGED <<attempt, cancelReq, taskVars, adminVars, contract, markedBy, resultBy, due>>

\* What an approver agrees to must still hold: contract, requester, policy.
StillValid(c) ==
  contract[c] = version[c[2]] /\ member[c[1]] /\ Effective(c[2]) # "deny"

Invalidate(c) == Decidable(c) /\ ~StillValid(c) /\ CloseApproval(c, "cancelled")

Approve(c) ==
  /\ Decidable(c)
  /\ StillValid(c)
  /\ approval' = [approval EXCEPT ![c] = "approved"]
  /\ SetCall(c, "approved")
  /\ status' = [status EXCEPT ![c[1]] = "queued"]
  /\ UNCHANGED <<attempt, cancelReq, taskVars, adminVars, contract, markedBy, resultBy, due>>

ApprovalFallsDue(c) ==
  /\ approval[c] = "pending"
  /\ ~due[c]
  /\ due' = [due EXCEPT ![c] = TRUE]
  /\ UNCHANGED <<runVars, taskVars, adminVars, callVars, approval>>

\* set_policy, and upsert_tool that enables or disables
SetPolicy(k, d) ==
  /\ policy' = [policy EXCEPT ![k] = d]
  /\ UNCHANGED <<runVars, taskVars, version, member, callVars, apprVars>>

\* upsert_tool with another contract, or with an earlier one again
SetContract(k, v) ==
  /\ version' = [version EXCEPT ![k] = v]
  /\ UNCHANGED <<runVars, taskVars, policy, member, callVars, apprVars>>

\* The requester leaves the workspace.
Leave(r) ==
  /\ member' = [member EXCEPT ![r] = FALSE]
  /\ UNCHANGED <<runVars, taskVars, policy, version, callVars, apprVars>>

-----------------------------------------------------------------------------
RunStep ==
  \/ \E r \in Run : Submit(r) \/ RecoverRun(r) \/ StartCancelled(r) \/ CancelRun(r)
  \/ \E w \in Worker, r \in Run : StartAttempt(w, r)
  \/ \E w \in Worker : Abandon(w)

PrepareStep(w) ==
  \/ PrepareFenced(w)
  \/ PrepareReplay(w)
  \/ PrepareContractChanged(w)
  \/ PrepareClosed(w)
  \/ PreparePending(w)
  \/ PrepareDenied(w)
  \/ PrepareTooLate(w)
  \/ PrepareApproval(w)
  \/ PrepareAgain(w)
  \/ PrepareNew(w)

InvokeStep(w) ==
  \/ CancelSeen(w)
  \/ MarkRunning(w)
  \/ MarkRefused(w)
  \/ \E o \in {"ok", "retryable", "fatal"} : Perform(w, o)
  \/ RecordSuccess(w)
  \/ RecordFailure(w)
  \/ RecordFenced(w)
  \/ \E v \in {"retry", "failure"} : ExecutorFails(w, v)
  \/ Finish(w)

ApproverStep ==
  \E c \in Call : Reject(c) \/ Approve(c) \/ Invalidate(c)

SweepStep == \E c \in Call : ExpireApproval(c)

AdminStep ==
  \/ \E k \in Key, d \in Decision : SetPolicy(k, d)
  \/ \E c \in Contracts : SetContract(c[1], c[2])
  \/ \E r \in Run : Leave(r)

Next ==
  \/ RunStep
  \/ \E w \in Worker : PrepareStep(w) \/ InvokeStep(w)
  \/ ApproverStep
  \/ SweepStep
  \/ \E c \in Call : ApprovalFallsDue(c)
  \/ AdminStep

Spec == Init /\ [][Next]_vars

\* Time passes and the worker loop sweeps; nobody has to decide.
Fairness ==
  \A c \in Call : WF_vars(ApprovalFallsDue(c)) /\ WF_vars(ExpireApproval(c))

FairSpec == Spec /\ Fairness

-----------------------------------------------------------------------------
\* Properties

(* A run that waits, waits for exactly one approval somebody can still      *)
(* decide or the sweeper can still expire (wait_for_approval,               *)
(* decide_approval, cancel_run and the contract check of prepare_call all   *)
(* close approvals).  And a run somebody wants cancelled has none: nobody   *)
(* may decide it any more, so one opened after the cancellation would stay. *)
ApprovalMatchesRun ==
  \A r \in Run :
    LET pending == {c \in CallsOf(r) : approval[c] = "pending"} IN
    /\ status[r] = "waiting_for_approval" => \E c \in CallsOf(r) : pending = {c}
    /\ cancelReq[r] => pending = {}

(* The call and its approval move in step although five functions write     *)
(* them: a pending approval belongs to a call that waits for it, and only   *)
(* an approved one to a call that was let through.                          *)
ApprovalMatchesCall ==
  \A c \in Call :
    /\ call[c] = "pending_approval" <=> approval[c] = "pending"
    /\ call[c] = "approved" => approval[c] = "approved"
    /\ approval[c] \in {"rejected", "expired", "cancelled"} => call[c] \in {"denied", "cancelled"}

(* "Destructive and external-communication tools are always upgraded to     *)
(* require_approval": whatever the policy was and became, crashes, retries  *)
(* and re-registrations included, such a call never started unapproved.     *)
ForcedNeedsApproval ==
  \A c \in Call : <<c[2], contract[c]>> \in Forced /\ markedBy[c] > 0 =>
    approval[c] = "approved"

(* The result a call holds is the one of the attempt that started it last:  *)
(* a worker whose run was taken over cannot record a late answer.           *)
ResultOfLastStart ==
  \A c \in Call : call[c] = "succeeded" => resultBy[c] = markedBy[c]

(* No transaction attempts a transition the triggers of migration 004       *)
(* reject, which would fail it for ever (the sweeper among them).           *)
CallEdge(from, to) ==
  \/ from = to
  \/ from = "absent"
  \/ from = "planned" /\ to \in {"pending_approval", "running", "denied", "cancelled"}
  \/ from = "pending_approval" /\ to \in {"approved", "denied", "cancelled"}
  \/ from = "approved" /\ to \in {"running", "cancelled"}
  \/ from = "running" /\ to \in {"planned", "approved", "succeeded", "failed", "cancelled"}
NoIllegalTransition ==
  [][\A c \in Call :
       /\ CallEdge(call[c], call'[c])
       /\ approval'[c] # approval[c] => approval[c] \in {"none", "pending"}]_vars

(* The tools, approvals and their sweeper implement the contract of the run *)
(* state machine: none of them moves a run on its own authority.            *)
ImplementsContract == Contract!Spec

(* Every wait ends, even when nobody decides.                               *)
WaitsEnd ==
  \A r \in Run :
    status[r] = "waiting_for_approval" ~> status[r] # "waiting_for_approval"

(* ADR 0006: "Rejecting or expiring an approval cancels the run."           *)
ExpiryCancelsRun ==
  \A c \in Call : approval[c] \in {"rejected", "expired"} => status[c[1]] = "cancelled"
=============================================================================
