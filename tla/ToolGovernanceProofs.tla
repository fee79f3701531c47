------------------------- MODULE ToolGovernanceProofs -------------------------
(***************************************************************************)
(* Proofs about ToolGovernance, for any runs, workers, calls, contracts    *)
(* and bounds.                                                             *)
(*                                                                         *)
(* IInv adds to the checked invariants where workers are: before the call  *)
(* a worker is at, all calls of its run have succeeded (so that a run has  *)
(* one open call at most), no two workers execute one attempt, and whoever *)
(* performs a call for the latest attempt is the last that marked it.      *)
(***************************************************************************)
EXTENDS ToolGovernance, TLAPS

Steady(w) ==
  /\ task[w] = NoTask <=> phase[w] = "idle"
  /\ phase[w] # "idle" =>
       /\ task[w] \in Contract!Task /\ task[w].attempt \in 1 .. attempt[RunOf(w)]
       /\ at[w] \in Key
       /\ \A i \in Key : i < at[w] => call[<<RunOf(w), i>>] = "succeeded"

Distinct(v, w) ==
  v # w /\ phase[v] # "idle" /\ phase[w] # "idle" /\ RunOf(v) = RunOf(w)
    => task[v].attempt # task[w].attempt

Performing == {"remote", "ok", "retryable", "fatal"}

Marked(w) ==
  phase[w] \in Performing /\ attempt[RunOf(w)] = task[w].attempt
    => markedBy[CallOf(w)] = task[w].attempt

Workers ==
  /\ \A w \in Worker : Steady(w) /\ Marked(w)
  /\ \A v, w \in Worker : Distinct(v, w)

\* One call: what ApprovalMatchesCall, ForcedNeedsApproval and ResultOfLastStart
\* say of it, and that it was planned after those before it had succeeded.
Orderly(c) ==
  /\ call[c] = "absent" => approval[c] = "none" /\ markedBy[c] = 0
  /\ call[c] # "absent" => \A i \in Key : i < c[2] => call[<<c[1], i>>] = "succeeded"
  /\ call[c] = "pending_approval" <=> approval[c] = "pending"
  /\ call[c] = "approved" => approval[c] = "approved"
  /\ approval[c] \in {"rejected", "expired", "cancelled"} => call[c] \in {"denied", "cancelled"}
  /\ <<c[2], contract[c]>> \in Forced /\ markedBy[c] > 0 => approval[c] = "approved"
  /\ call[c] = "succeeded" => resultBy[c] = markedBy[c]

Calls == \A c \in Call : Orderly(c)

\* One run: whoever waits has somebody to wait for, and nobody can decide about
\* a run that is being cancelled.
Awaited(r) ==
  /\ status[r] = "waiting_for_approval" => \E c \in CallsOf(r) : approval[c] = "pending"
  /\ cancelReq[r] => \A c \in CallsOf(r) : approval[c] # "pending"

Runs == \A r \in Run : Awaited(r)

IInv == TypeOK /\ Workers /\ Calls /\ Runs

-----------------------------------------------------------------------------
\* Steps that change neither run nor call nor approval

\* A worker goes on without having performed anything.
Turns(w) ==
  \/ PrepareFenced(w) \/ PrepareClosed(w) \/ PreparePending(w) \/ PrepareTooLate(w)
  \/ PrepareAgain(w) \/ CancelSeen(w) \/ MarkRefused(w) \/ RecordFenced(w)
  \/ \E v \in {"retry", "failure"} : ExecutorFails(w, v)

Turned(w) ==
  /\ phase[w] # "idle"
  /\ \E p \in Phase \ ({"idle"} \cup Performing) : phase' = [phase EXCEPT ![w] = p]
  /\ UNCHANGED <<task, at, runVars, adminVars, callVars, apprVars>>

LEMMA Turning ==
  ASSUME NEW w \in Worker, Turns(w)
  PROVE  Turned(w)
BY DEF Turns, Turned, PrepareFenced, PrepareClosed, PreparePending, PrepareTooLate, PrepareAgain,
       CancelSeen, MarkRefused, RecordFenced, ExecutorFails, Existing, Reusable, Preparing, Goto,
       Phase, Verdict, Performing

\* Administrators and time
Outside ==
  \/ \E k \in Key, d \in Decision : SetPolicy(k, d)
  \/ \E c \in Contracts : SetContract(c[1], c[2])
  \/ \E r \in Run : Leave(r)
  \/ \E c \in Call : ApprovalFallsDue(c)

LEMMA OutsideKeeps ==
  ASSUME Outside
  PROVE  UNCHANGED <<runVars, taskVars, callVars, approval>>
BY DEF Outside, SetPolicy, SetContract, Leave, ApprovalFallsDue, apprVars

\* The steps there are
LEMMA Steps ==
  ASSUME [Next]_vars
  PROVE  \/ \E r \in Run : Submit(r) \/ RecoverRun(r) \/ StartCancelled(r) \/ CancelRun(r)
         \/ \E w \in Worker, r \in Run : StartAttempt(w, r)
         \/ \E w \in Worker : Abandon(w) \/ Finish(w) \/ Turns(w)
         \/ \E w \in Worker, o \in {"ok", "retryable", "fatal"} : Perform(w, o)
         \/ \E w \in Worker : PrepareReplay(w) \/ RecordSuccess(w)
         \/ \E w \in Worker : PrepareContractChanged(w) \/ PrepareDenied(w)
                              \/ PrepareApproval(w) \/ PrepareNew(w)
         \/ \E w \in Worker : MarkRunning(w) \/ RecordFailure(w)
         \/ \E c \in Call : Reject(c) \/ Approve(c) \/ Invalidate(c) \/ ExpireApproval(c)
         \/ Outside
         \/ UNCHANGED vars
BY DEF Next, RunStep, PrepareStep, InvokeStep, ApproverStep, SweepStep, AdminStep, Turns, Outside

\* The call a worker is at is a call.
LEMMA AtCall ==
  ASSUME TypeOK, NEW w \in Worker, Steady(w), phase[w] # "idle"
  PROVE  RunOf(w) \in Run /\ at[w] \in Key /\ CallOf(w) \in Call
BY DEF Steady, RunOf, CallOf, Call, Contract!Task

-----------------------------------------------------------------------------
\* Types

LEMMA TypeStep ==
  ASSUME TypeOK, Workers, [Next]_vars
  PROVE  TypeOK'
<1> USE BoundsAssumption
    DEF TypeOK, Contract!TypeOK, runVars, taskVars, adminVars, callVars, apprVars
<1>0. \A w \in Worker : phase[w] # "idle" => RunOf(w) \in Run /\ at[w] \in Key /\ CallOf(w) \in Call
  BY AtCall DEF Workers
<1>1. ASSUME NEW r \in Run, Submit(r) \/ RecoverRun(r) \/ StartCancelled(r) PROVE TypeOK'
  BY <1>1 DEF Submit, RecoverRun, StartCancelled, Contract!Submit, Contract!Requeue,
     Contract!Cancel, Contract!RunStatus, Contract!Terminal
<1>2. ASSUME NEW r \in Run, CancelRun(r) PROVE TypeOK'
  <2>1. call' \in [Call -> CallStatus] /\ approval' \in [Call -> Approvals]
    BY <1>2 DEF CancelRun, CallStatus, Approvals
  <2>2. status' \in [Run -> Contract!RunStatus] /\ cancelReq' \in [Run -> BOOLEAN]
    BY <1>2 DEF CancelRun, Contract!RunStatus, Contract!Terminal
  <2> QED BY <1>2, <2>1, <2>2 DEF CancelRun
<1>3. ASSUME NEW w \in Worker, NEW r \in Run, StartAttempt(w, r) PROVE TypeOK'
  <2>1. [run |-> r, attempt |-> attempt[r] + 1] \in Contract!Task
    BY DEF Contract!Task
  <2>2. task' \in [Worker -> Contract!Task \cup {Contract!NoTask}] /\ attempt' \in [Run -> Nat]
    BY <1>3, <2>1 DEF StartAttempt, Contract!Start
  <2>3. status' \in [Run -> Contract!RunStatus]
    BY <1>3 DEF StartAttempt, Contract!Start, Contract!RunStatus
  <2>4. phase' \in [Worker -> Phase] /\ at' \in [Worker -> 0 .. NumKeys]
    BY <1>3 DEF StartAttempt, Phase
  <2>5. cancelReq' = cancelReq
    BY <1>3 DEF StartAttempt, Contract!Start
  <2> QED BY <1>3, <2>2, <2>3, <2>4, <2>5 DEF StartAttempt
<1>4. ASSUME NEW w \in Worker, Abandon(w) PROVE TypeOK'
  BY <1>4 DEF Abandon, Idle, NoTask, Phase
<1>5. ASSUME NEW w \in Worker, Finish(w) PROVE TypeOK'
  <2>1. Outcome(w) \in Contract!RunStatus
    BY DEF Outcome, Contract!RunStatus, Contract!Terminal
  <2>2. status' \in [Run -> Contract!RunStatus] /\ attempt' = attempt /\ cancelReq' = cancelReq
    BY <1>5, <2>1 DEF Finish
  <2>3. /\ task' \in [Worker -> Contract!Task \cup {Contract!NoTask}]
        /\ phase' \in [Worker -> Phase] /\ at' \in [Worker -> 0 .. NumKeys]
    BY <1>5 DEF Finish, Idle, NoTask, Phase
  <2> QED BY <1>5, <2>2, <2>3 DEF Finish
<1>6. ASSUME NEW w \in Worker, Turns(w) PROVE TypeOK'
  BY <1>6, Turning DEF Turned
<1>7. ASSUME NEW w \in Worker, NEW o \in {"ok", "retryable", "fatal"}, Perform(w, o) PROVE TypeOK'
  BY <1>7 DEF Perform, Goto, Phase
<1>8. ASSUME NEW w \in Worker, Advance(w), phase[w] # "idle"
      PROVE  phase' \in [Worker -> Phase] /\ at' \in [Worker -> 0 .. NumKeys] /\ task' = task
  <2>1. CASE at[w] = NumKeys
    BY <1>8, <2>1 DEF Advance, Phase, Verdict
  <2>2. CASE at[w] # NumKeys
    <3>1. at[w] + 1 \in 0 .. NumKeys
      BY <1>0, <1>8, <2>2 DEF Key
    <3>2. /\ at' = [at EXCEPT ![w] = at[w] + 1] /\ phase' = [phase EXCEPT ![w] = "prepare"]
          /\ task' = task
      BY <1>8, <2>2 DEF Advance
    <3> QED BY <3>1, <3>2 DEF Phase
  <2> QED BY <2>1, <2>2
<1>9. ASSUME NEW w \in Worker, PrepareReplay(w) PROVE TypeOK'
  BY <1>8, <1>9 DEF PrepareReplay, Preparing
<1>10. ASSUME NEW w \in Worker, RecordSuccess(w) PROVE TypeOK'
  <2>1. task[w].attempt \in Nat
    BY <1>10 DEF RecordSuccess, Workers, Steady, Contract!Task
  <2> QED BY <1>8, <1>10, <2>1 DEF RecordSuccess, SetCall, CallStatus
<1>11. ASSUME NEW w \in Worker, PrepareContractChanged(w) PROVE TypeOK'
  BY <1>11 DEF PrepareContractChanged, SetCall, Goto, CallStatus, Approvals, Phase, Verdict
<1>12. ASSUME NEW w \in Worker, PrepareDenied(w) PROVE TypeOK'
  BY <1>12 DEF PrepareDenied, SetCall, Goto, CallStatus, Phase, Verdict
<1>13. ASSUME NEW w \in Worker, PrepareApproval(w) PROVE TypeOK'
  BY <1>13 DEF PrepareApproval, NewApproval, SetCall, Goto, CallStatus, Approvals, Phase, Verdict
<1>14. ASSUME NEW w \in Worker, PrepareNew(w) PROVE TypeOK'
  BY <1>0, <1>14 DEF PrepareNew, Preparing, NewApproval, SetCall, Goto, CallStatus, Approvals,
     Phase, Verdict
<1>15. ASSUME NEW w \in Worker, MarkRunning(w) PROVE TypeOK'
  <2>1. task[w].attempt \in Nat
    BY <1>15 DEF MarkRunning, Workers, Steady, Contract!Task
  <2> QED BY <1>15, <2>1 DEF MarkRunning, SetCall, Goto, CallStatus, Phase
<1>16. ASSUME NEW w \in Worker, RecordFailure(w) PROVE TypeOK'
  BY <1>0, <1>16 DEF RecordFailure, SetCall, Goto, CallStatus, Phase, Verdict
<1>17. ASSUME NEW c \in Call, NEW as \in {"cancelled", "expired"}, CloseApproval(c, as) PROVE TypeOK'
  BY <1>17 DEF CloseApproval, SetCall, CallStatus, Approvals, Contract!RunStatus, Contract!Terminal
<1>18. ASSUME NEW c \in Call, Reject(c) \/ Approve(c) PROVE TypeOK'
  <2>1. /\ call' \in [Call -> CallStatus] /\ approval' \in [Call -> Approvals]
        /\ status' \in [Run -> Contract!RunStatus]
    <3>1. ASSUME Reject(c) PROVE <2>1!:
      BY <3>1 DEF Reject, SetCall, CallStatus, Approvals, Contract!RunStatus, Contract!Terminal
    <3>2. ASSUME Approve(c) PROVE <2>1!:
      BY <3>2 DEF Approve, SetCall, CallStatus, Approvals, Contract!RunStatus, Contract!Terminal
    <3> QED BY <1>18, <3>1, <3>2
  <2> QED BY <1>18, <2>1 DEF Reject, Approve
<1>19. ASSUME Outside PROVE TypeOK'
  <2>1. ASSUME NEW k \in Key, NEW d \in Decision, SetPolicy(k, d) PROVE TypeOK'
    BY <2>1 DEF SetPolicy
  <2>2. ASSUME NEW c \in Contracts, SetContract(c[1], c[2]) PROVE TypeOK'
    <3>1. c[1] \in Key /\ c[2] \in Nat /\ c = <<c[1], c[2]>>
      BY ContractsAssumption
    <3>2. version' \in [Key -> Nat] /\ \A k \in Key : <<k, version'[k]>> \in Contracts
      BY <2>2, <3>1 DEF SetContract
    <3> QED BY <2>2, <3>2 DEF SetContract
  <2>3. ASSUME NEW r \in Run, Leave(r) PROVE TypeOK'
    BY <2>3 DEF Leave
  <2>4. ASSUME NEW c \in Call, ApprovalFallsDue(c) PROVE TypeOK'
    BY <2>4 DEF ApprovalFallsDue
  <2> QED BY <1>19, <2>1, <2>2, <2>3, <2>4 DEF Outside
<1>20. ASSUME UNCHANGED vars PROVE TypeOK'
  BY <1>20 DEF vars
<1> QED
  BY <1>1, <1>2, <1>3, <1>4, <1>5, <1>6, <1>7, <1>9, <1>10, <1>11, <1>12, <1>13, <1>14, <1>15,
     <1>16, <1>17, <1>18, <1>19, <1>20, Steps DEF Invalidate, ExpireApproval

-----------------------------------------------------------------------------
\* What a step may make of a call

Kept(c) == contract'[c] = contract[c] /\ markedBy'[c] = markedBy[c] /\ resultBy'[c] = resultBy[c]

Same(c) == call'[c] = call[c] /\ approval'[c] = approval[c] /\ Kept(c)

Opened(c) ==
  /\ call[c] = "absent" /\ call'[c] \in {"planned", "pending_approval", "denied"}
  /\ approval'[c] = IF call'[c] = "pending_approval" THEN "pending" ELSE approval[c]
  /\ \A i \in Key : i < c[2] => call[<<c[1], i>>] = "succeeded"
  /\ markedBy'[c] = markedBy[c] /\ resultBy'[c] = resultBy[c]

Asked(c) ==
  /\ call[c] = "planned" /\ call'[c] = "pending_approval"
  /\ approval[c] = "none" /\ approval'[c] = "pending"
  /\ Kept(c)

Granted(c) ==
  /\ call[c] = "pending_approval" /\ call'[c] = "approved"
  /\ approval[c] = "pending" /\ approval'[c] = "approved"
  /\ Kept(c)

Ended(c) ==
  /\ call[c] \in Active
  /\ call'[c] \in {"denied", "cancelled"}
  /\ call[c] \in {"approved", "running"} => call'[c] = "cancelled"
  /\ IF approval[c] = "pending" THEN approval'[c] \in {"rejected", "expired", "cancelled"}
                                ELSE approval'[c] = approval[c]
  /\ Kept(c)

Started(c) ==
  /\ call[c] \in {"planned", "approved", "running"} /\ call'[c] = "running"
  /\ <<c[2], contract[c]>> \in Forced => approval[c] = "approved"
  /\ approval'[c] = approval[c] /\ contract'[c] = contract[c] /\ resultBy'[c] = resultBy[c]

Done(c) ==
  /\ call[c] = "running" /\ call'[c] = "succeeded"
  /\ resultBy'[c] = markedBy[c]
  /\ approval'[c] = approval[c] /\ contract'[c] = contract[c] /\ markedBy'[c] = markedBy[c]

Undone(c) ==
  /\ call[c] = "running" /\ call'[c] \in {"planned", "approved", "failed"}
  /\ call'[c] = "approved" => approval[c] = "approved"
  /\ approval'[c] = approval[c] /\ Kept(c)

CallMove(c) ==
  \/ Same(c) \/ Opened(c) \/ Asked(c) \/ Granted(c) \/ Ended(c) \/ Started(c) \/ Done(c)
  \/ Undone(c)

LEMMA CallMoves ==
  ASSUME IInv, [Next]_vars, NEW c \in Call
  PROVE  CallMove(c)
<1> USE DEF CallMove, Kept, callVars, apprVars
<1>0. /\ call \in [Call -> CallStatus] /\ approval \in [Call -> Approvals]
      /\ contract \in [Call -> Nat] /\ markedBy \in [Call -> Nat] /\ resultBy \in [Call -> Nat]
      /\ Orderly(c)
      /\ \A w \in Worker : phase[w] # "idle" => RunOf(w) \in Run /\ at[w] \in Key /\ CallOf(w) \in Call
      /\ \A w \in Worker : Steady(w) /\ Marked(w)
  BY AtCall DEF IInv, TypeOK, Workers, Calls
<1>1. ASSUME UNCHANGED <<callVars, approval>> PROVE CallMove(c)
  BY <1>1 DEF Same
<1>2. ASSUME NEW r \in Run, CancelRun(r) PROVE CallMove(c)
  <2>1. CASE c \in CallsOf(r) /\ call[c] \in {"planned", "pending_approval", "approved"}
    BY <1>0, <1>2, <2>1 DEF CancelRun, Ended, Active
  <2>2. CASE ~(c \in CallsOf(r) /\ call[c] \in {"planned", "pending_approval", "approved"})
    BY <1>0, <1>2, <2>2 DEF CancelRun, Same, Orderly
  <2> QED BY <2>1, <2>2
<1>3. ASSUME NEW w \in Worker, PrepareContractChanged(w) PROVE CallMove(c)
  <2>1. CASE c = CallOf(w) /\ call[c] \in Active
    BY <1>0, <1>3, <2>1 DEF PrepareContractChanged, SetCall, Ended
  <2>2. CASE c = CallOf(w) /\ call[c] \notin Active
    BY <1>0, <1>3, <2>2 DEF PrepareContractChanged, SetCall, Same, Orderly, Active
  <2>3. CASE c # CallOf(w)
    BY <1>0, <1>3, <2>3 DEF PrepareContractChanged, SetCall, Same
  <2> QED BY <2>1, <2>2, <2>3
<1>4. ASSUME NEW w \in Worker, PrepareDenied(w) PROVE CallMove(c)
  <2>1. CASE c = CallOf(w)
    BY <1>0, <1>4, <2>1 DEF PrepareDenied, Reusable, SetCall, Ended, Active
  <2>2. CASE c # CallOf(w)
    BY <1>0, <1>4, <2>2 DEF PrepareDenied, SetCall, Same
  <2> QED BY <2>1, <2>2
<1>5. ASSUME NEW w \in Worker, PrepareApproval(w) PROVE CallMove(c)
  <2>1. CASE c = CallOf(w)
    BY <1>0, <1>5, <2>1 DEF PrepareApproval, NewApproval, SetCall, Asked
  <2>2. CASE c # CallOf(w)
    BY <1>0, <1>5, <2>2 DEF PrepareApproval, NewApproval, SetCall, Same
  <2> QED BY <2>1, <2>2
<1>6. ASSUME NEW w \in Worker, PrepareNew(w) PROVE CallMove(c)
  <2>1. CASE c = CallOf(w)
    <3>1. \A i \in Key : i < c[2] => call[<<c[1], i>>] = "succeeded"
      BY <1>0, <1>6, <2>1 DEF PrepareNew, Preparing, Steady, CallOf
    <3>2. /\ call[c] = "absent" /\ call'[c] \in {"planned", "pending_approval", "denied"}
          /\ approval'[c] = IF call'[c] = "pending_approval" THEN "pending" ELSE approval[c]
          /\ markedBy'[c] = markedBy[c] /\ resultBy'[c] = resultBy[c]
      BY <1>0, <1>6, <2>1 DEF PrepareNew, NewApproval, SetCall
    <3> QED BY <3>1, <3>2 DEF Opened
  <2>2. CASE c # CallOf(w)
    BY <1>0, <1>6, <2>2 DEF PrepareNew, NewApproval, SetCall, Same
  <2> QED BY <2>1, <2>2
<1>7. ASSUME NEW w \in Worker, MarkRunning(w) PROVE CallMove(c)
  <2>1. CASE c = CallOf(w)
    <3>1. policy[at[w]] \in Decision /\ c[2] = at[w]
      BY <1>0, <1>7, <2>1 DEF MarkRunning, CallOf, IInv, TypeOK
    <3>2. <<c[2], contract[c]>> \in Forced => approval[c] = "approved"
      BY <1>7, <2>1, <3>1 DEF MarkRunning, Markable, Current, Effective, Approved, Decision
    <3> QED BY <1>0, <1>7, <2>1, <3>2 DEF MarkRunning, Markable, SetCall, Started
  <2>2. CASE c # CallOf(w)
    BY <1>0, <1>7, <2>2 DEF MarkRunning, SetCall, Same
  <2> QED BY <2>1, <2>2
<1>8. ASSUME NEW w \in Worker, RecordSuccess(w) PROVE CallMove(c)
  <2>1. CASE c = CallOf(w)
    <3>1. markedBy[c] = task[w].attempt
      BY <1>0, <1>8, <2>1 DEF RecordSuccess, Fence, Latest, Marked, Performing
    <3> QED BY <1>0, <1>8, <2>1, <3>1 DEF RecordSuccess, SetCall, Done
  <2>2. CASE c # CallOf(w)
    BY <1>0, <1>8, <2>2 DEF RecordSuccess, SetCall, Same
  <2> QED BY <2>1, <2>2
<1>9. ASSUME NEW w \in Worker, RecordFailure(w) PROVE CallMove(c)
  <2>1. CASE c = CallOf(w) /\ call[c] = "running"
    BY <1>0, <1>9, <2>1 DEF RecordFailure, SetCall, Undone, Approved
  <2>2. CASE c # CallOf(w) \/ call[c] # "running"
    BY <1>0, <1>9, <2>2 DEF RecordFailure, SetCall, Same
  <2> QED BY <2>1, <2>2
<1>10. ASSUME NEW d \in Call, NEW as \in {"cancelled", "expired"}, CloseApproval(d, as)
       PROVE  CallMove(c)
  <2>1. CASE c = d
    BY <1>0, <1>10, <2>1 DEF CloseApproval, SetCall, Orderly, Ended, Active
  <2>2. CASE c # d
    BY <1>0, <1>10, <2>2 DEF CloseApproval, SetCall, Same
  <2> QED BY <2>1, <2>2
<1>11. ASSUME NEW d \in Call, Reject(d) \/ Approve(d) PROVE CallMove(c)
  <2>1. CASE c = d /\ Reject(d)
    BY <1>0, <2>1 DEF Reject, Decidable, SetCall, Orderly, Ended, Active
  <2>2. CASE c = d /\ Approve(d)
    BY <1>0, <2>2 DEF Approve, Decidable, SetCall, Orderly, Granted
  <2>3. CASE c # d
    BY <1>0, <1>11, <2>3 DEF Reject, Approve, SetCall, Same
  <2> QED BY <1>11, <2>1, <2>2, <2>3
<1>12. ASSUME \/ \E r \in Run : Submit(r) \/ RecoverRun(r) \/ StartCancelled(r)
              \/ \E w \in Worker, r \in Run : StartAttempt(w, r)
              \/ \E w \in Worker : Abandon(w) \/ Finish(w) \/ Turns(w) \/ PrepareReplay(w)
              \/ \E w \in Worker, o \in {"ok", "retryable", "fatal"} : Perform(w, o)
              \/ Outside
              \/ UNCHANGED vars
       PROVE  UNCHANGED <<callVars, approval>>
  BY <1>12, Turning, OutsideKeeps
  DEF Submit, RecoverRun, StartCancelled, StartAttempt, Abandon, Finish, Turned, PrepareReplay,
      Perform, vars
<1> QED
  BY <1>1, <1>2, <1>3, <1>4, <1>5, <1>6, <1>7, <1>8, <1>9, <1>10, <1>11, <1>12, Steps
  DEF Invalidate, ExpireApproval

\* A call that succeeded stays so.
LEMMA SuccessStays ==
  ASSUME IInv, [Next]_vars, NEW c \in Call, call[c] = "succeeded"
  PROVE  call'[c] = "succeeded"
BY CallMoves DEF CallMove, Same, Opened, Asked, Granted, Ended, Started, Done, Undone, Active

LEMMA CallsStep ==
  ASSUME IInv, [Next]_vars
  PROVE  Calls'
<1> SUFFICES ASSUME NEW c \in Call PROVE Orderly(c)'
  BY DEF Calls
<1>0. /\ Orderly(c) /\ c[1] \in Run /\ c[2] \in Key
      /\ call[c] \in CallStatus /\ approval[c] \in Approvals
  BY DEF IInv, Calls, TypeOK, Call
<1>1. \A i \in Key : call[<<c[1], i>>] = "succeeded" => call'[<<c[1], i>>] = "succeeded"
  BY <1>0, SuccessStays DEF Call
<1>2. CASE Same(c)
  BY <1>0, <1>1, <1>2 DEF Same, Kept, Orderly
<1>3. CASE Opened(c)
  BY <1>0, <1>1, <1>3 DEF Opened, Orderly
<1>4. CASE Asked(c)
  BY <1>0, <1>1, <1>4 DEF Asked, Kept, Orderly
<1>5. CASE Granted(c)
  BY <1>0, <1>1, <1>5 DEF Granted, Kept, Orderly
<1>6. CASE Ended(c)
  BY <1>0, <1>1, <1>6 DEF Ended, Kept, Orderly, Active
<1>7. CASE Started(c)
  BY <1>0, <1>1, <1>7 DEF Started, Orderly
<1>8. CASE Done(c)
  BY <1>0, <1>1, <1>8 DEF Done, Orderly
<1>9. CASE Undone(c)
  BY <1>0, <1>1, <1>9 DEF Undone, Kept, Orderly
<1> QED BY <1>2, <1>3, <1>4, <1>5, <1>6, <1>7, <1>8, <1>9, CallMoves DEF CallMove

-----------------------------------------------------------------------------
\* What a step may make of a worker

Still(w) == task'[w] = task[w] /\ phase'[w] = phase[w] /\ at'[w] = at[w]

Began(w) ==
  \E r \in Run :
    /\ task[w] = NoTask
    /\ task'[w] = [run |-> r, attempt |-> attempt[r] + 1]
    /\ attempt'[r] = attempt[r] + 1
    /\ phase'[w] = "prepare" /\ at'[w] = 1
    /\ \A v \in Worker : v # w => Still(v)

Stopped(w) == task'[w] = NoTask /\ phase'[w] = "idle"

WentOn(w) ==
  /\ phase[w] # "idle" /\ phase'[w] # "idle"
  /\ task'[w] = task[w] /\ at'[w] = at[w]
  /\ phase'[w] \in Performing =>
       phase[w] \in Performing \/ markedBy'[CallOf(w)] = task[w].attempt

Advanced(w) ==
  /\ phase[w] # "idle" /\ phase'[w] \in {"prepare", "success"}
  /\ task'[w] = task[w]
  /\ call'[CallOf(w)] = "succeeded"
  /\ at'[w] \in {at[w], at[w] + 1} /\ at'[w] \in Key

WorkerMove(w) == Still(w) \/ Began(w) \/ Stopped(w) \/ WentOn(w) \/ Advanced(w)

LEMMA Advancing ==
  ASSUME TypeOK, NEW w \in Worker, Steady(w), phase[w] # "idle", Advance(w),
         call'[CallOf(w)] = "succeeded"
  PROVE  Advanced(w)
<1>1. at[w] \in 1 .. NumKeys /\ NumKeys \in Nat
  BY BoundsAssumption DEF Steady, Key
<1>2. CASE at[w] = NumKeys
  BY <1>1, <1>2 DEF Advance, Advanced, TypeOK, Key
<1>3. CASE at[w] # NumKeys
  <2>1. at' = [at EXCEPT ![w] = at[w] + 1] /\ phase' = [phase EXCEPT ![w] = "prepare"] /\ task' = task
    BY <1>3 DEF Advance
  <2>2. at[w] + 1 \in Key
    BY <1>1, <1>3 DEF Key
  <2> QED BY <2>1, <2>2 DEF Advanced, TypeOK
<1> QED BY <1>2, <1>3

LEMMA WorkerMoves ==
  ASSUME IInv, [Next]_vars, NEW w \in Worker
  PROVE  WorkerMove(w)
<1> USE DEF WorkerMove
<1>0. /\ task \in [Worker -> Contract!Task \cup {Contract!NoTask}]
      /\ phase \in [Worker -> Phase] /\ at \in [Worker -> 0 .. NumKeys]
      /\ attempt \in [Run -> Nat] /\ markedBy \in [Call -> Nat] /\ call \in [Call -> CallStatus]
      /\ TypeOK /\ \A v \in Worker : Steady(v)
      /\ \A v \in Worker : phase[v] # "idle" => CallOf(v) \in Call
  BY AtCall DEF IInv, TypeOK, Contract!TypeOK, Workers
<1>1. ASSUME UNCHANGED taskVars PROVE WorkerMove(w)
  BY <1>1 DEF taskVars, Still
<1>2. ASSUME NEW v \in Worker, NEW r \in Run, StartAttempt(v, r) PROVE WorkerMove(w)
  <2>1. /\ task[v] = NoTask /\ task' = [task EXCEPT ![v] = [run |-> r, attempt |-> attempt[r] + 1]]
        /\ attempt' = [attempt EXCEPT ![r] = attempt[r] + 1]
        /\ phase' = [phase EXCEPT ![v] = "prepare"] /\ at' = [at EXCEPT ![v] = 1]
    BY <1>2 DEF StartAttempt, Contract!Start, NoTask
  <2> QED BY <1>0, <2>1 DEF Began, Still
<1>3. ASSUME NEW v \in Worker, Abandon(v) \/ Finish(v) PROVE WorkerMove(w)
  BY <1>0, <1>3 DEF Abandon, Finish, Idle, Stopped, Still
<1>4. ASSUME NEW v \in Worker, Turns(v) PROVE WorkerMove(w)
  BY <1>0, <1>4, Turning DEF Turned, WentOn, Still
<1>5. ASSUME NEW v \in Worker, NEW o \in {"ok", "retryable", "fatal"}, Perform(v, o)
      PROVE  WorkerMove(w)
  BY <1>0, <1>5 DEF Perform, Goto, Performing, WentOn, Still
<1>6. ASSUME NEW v \in Worker, PrepareReplay(v) PROVE WorkerMove(w)
  <2>1. Advance(v) /\ call'[CallOf(v)] = "succeeded" /\ phase[v] # "idle"
    BY <1>6 DEF PrepareReplay, Preparing, callVars
  <2>2. v = w => Advanced(w)
    BY <1>0, <2>1, Advancing
  <2>3. v # w => Still(w)
    BY <1>0, <2>1 DEF Advance, Still
  <2> QED BY <2>2, <2>3
<1>7. ASSUME NEW v \in Worker, RecordSuccess(v) PROVE WorkerMove(w)
  <2>1. Advance(v) /\ call'[CallOf(v)] = "succeeded" /\ phase[v] # "idle"
    BY <1>0, <1>7 DEF RecordSuccess, SetCall
  <2>2. v = w => Advanced(w)
    BY <1>0, <2>1, Advancing
  <2>3. v # w => Still(w)
    BY <1>0, <2>1 DEF Advance, Still
  <2> QED BY <2>2, <2>3
<1>8. ASSUME NEW v \in Worker, PrepareContractChanged(v) \/ PrepareDenied(v) PROVE WorkerMove(w)
  BY <1>0, <1>8 DEF PrepareContractChanged, PrepareDenied, Reusable, Existing, Preparing, Goto,
     Performing, WentOn, Still
<1>9. ASSUME NEW v \in Worker, PrepareApproval(v) \/ PrepareNew(v) PROVE WorkerMove(w)
  BY <1>0, <1>9 DEF PrepareApproval, PrepareNew, Reusable, Existing, Preparing, Goto,
     Performing, WentOn, Still
<1>10. ASSUME NEW v \in Worker, MarkRunning(v) PROVE WorkerMove(w)
  BY <1>0, <1>10 DEF MarkRunning, Goto, WentOn, Still
<1>11. ASSUME NEW v \in Worker, RecordFailure(v) PROVE WorkerMove(w)
  BY <1>0, <1>11 DEF RecordFailure, Goto, Performing, WentOn, Still
<1>12. ASSUME \/ \E r \in Run : Submit(r) \/ RecoverRun(r) \/ StartCancelled(r) \/ CancelRun(r)
              \/ \E c \in Call : Reject(c) \/ Approve(c) \/ Invalidate(c) \/ ExpireApproval(c)
              \/ Outside
              \/ UNCHANGED vars
       PROVE  UNCHANGED taskVars
  BY <1>12, OutsideKeeps
  DEF Submit, RecoverRun, StartCancelled, CancelRun, Reject, Approve, Invalidate, ExpireApproval,
      CloseApproval, Contract!Submit, Contract!Requeue, Contract!Cancel, vars, taskVars
<1> QED
  BY <1>1, <1>2, <1>3, <1>4, <1>5, <1>6, <1>7, <1>8, <1>9, <1>10, <1>11, <1>12, Steps

\* Attempts are only ever added, and only the latest marks a call.
LEMMA Attempts ==
  ASSUME IInv, [Next]_vars
  PROVE  /\ \A r \in Run : attempt'[r] \in Nat /\ attempt'[r] >= attempt[r]
         /\ \A c \in Call :
              markedBy'[c] = markedBy[c]
              \/ \E v \in Worker : c = CallOf(v) /\ phase[v] # "idle" /\ Latest(v)
                                   /\ markedBy'[c] = task[v].attempt
<1>1. attempt \in [Run -> Nat] /\ markedBy \in [Call -> Nat]
  BY DEF IInv, TypeOK, Contract!TypeOK
<1>2. UNCHANGED attempt \/ \E w \in Worker, r \in Run : StartAttempt(w, r)
  BY OutsideKeeps, Steps, Turning
  DEF Submit, RecoverRun, StartCancelled, CancelRun, Abandon, Finish, Turned, Perform,
      PrepareReplay, RecordSuccess, PrepareContractChanged, PrepareDenied, PrepareApproval,
      PrepareNew, MarkRunning, RecordFailure, Reject, Approve, Invalidate, ExpireApproval,
      CloseApproval, Contract!Submit, Contract!Requeue, Contract!Cancel, runVars, vars
<1>3. \A r \in Run : attempt'[r] \in Nat /\ attempt'[r] >= attempt[r]
  BY <1>1, <1>2 DEF StartAttempt, Contract!Start
<1>4. UNCHANGED markedBy \/ \E w \in Worker : MarkRunning(w)
  BY OutsideKeeps, Steps, Turning
  DEF Submit, RecoverRun, StartCancelled, CancelRun, Abandon, Finish, Turned, Perform,
      StartAttempt, PrepareReplay, RecordSuccess, PrepareContractChanged, PrepareDenied,
      PrepareApproval, PrepareNew, RecordFailure, Reject, Approve, Invalidate, ExpireApproval,
      CloseApproval, callVars, vars
<1>5. ASSUME NEW w \in Worker, MarkRunning(w)
      PROVE  phase[w] # "idle" /\ Latest(w)
             /\ markedBy' = [markedBy EXCEPT ![CallOf(w)] = task[w].attempt]
  BY <1>5 DEF MarkRunning, Markable, Fence
<1> QED BY <1>1, <1>3, <1>4, <1>5

LEMMA SteadyStep ==
  ASSUME IInv, [Next]_vars, NEW w \in Worker
  PROVE  Steady(w)'
<1>0. /\ Steady(w) /\ WorkerMove(w)
      /\ \A r \in Run : attempt[r] \in Nat /\ attempt'[r] \in Nat /\ attempt'[r] >= attempt[r]
      /\ NumKeys \in Nat /\ NumKeys >= 1
  BY WorkerMoves, Attempts, BoundsAssumption DEF IInv, Workers, TypeOK, Contract!TypeOK
<1>1. ASSUME NEW r \in Run, NEW i \in Key, call[<<r, i>>] = "succeeded"
      PROVE  call'[<<r, i>>] = "succeeded"
  BY <1>1, SuccessStays DEF Call
<1>2. CASE Still(w)
  <2>1. phase[w] # "idle" => RunOf(w) \in Run /\ RunOf(w)' = RunOf(w)
    BY <1>0, <1>2 DEF Steady, Still, RunOf, Contract!Task
  <2> QED BY <1>0, <1>1, <1>2, <2>1 DEF Still, Steady
<1>3. CASE Began(w)
  <2>1. PICK r \in Run :
          /\ task'[w] = [run |-> r, attempt |-> attempt[r] + 1]
          /\ attempt'[r] = attempt[r] + 1 /\ phase'[w] = "prepare" /\ at'[w] = 1
    BY <1>3 DEF Began
  <2>2. /\ task'[w] \in Contract!Task /\ RunOf(w)' = r /\ task'[w].attempt = attempt[r] + 1
        /\ task'[w] # NoTask
    BY <1>0, <2>1 DEF Contract!Task, RunOf, NoTask, Contract!NoTask
  <2>3. at'[w] \in Key /\ \A i \in Key : ~(i < at'[w])
    BY <1>0, <2>1 DEF Key
  <2> QED BY <1>0, <2>1, <2>2, <2>3 DEF Steady
<1>4. CASE Stopped(w)
  BY <1>4 DEF Stopped, Steady, NoTask
<1>5. CASE WentOn(w)
  <2>1. RunOf(w) \in Run /\ RunOf(w)' = RunOf(w)
    BY <1>0, <1>5 DEF Steady, WentOn, RunOf, Contract!Task
  <2> QED BY <1>0, <1>1, <1>5, <2>1 DEF WentOn, Steady, NoTask
<1>6. CASE Advanced(w)
  <2>1. RunOf(w) \in Run /\ RunOf(w)' = RunOf(w) /\ at[w] \in Nat
    BY <1>0, <1>6 DEF Steady, Advanced, RunOf, Contract!Task, Key
  <2>2. \A i \in Key : i < at'[w] => call'[<<RunOf(w), i>>] = "succeeded"
    <3> SUFFICES ASSUME NEW i \in Key, i < at'[w] PROVE call'[<<RunOf(w), i>>] = "succeeded"
      OBVIOUS
    <3>1. CASE i = at[w]
      BY <1>6, <3>1 DEF Advanced, CallOf
    <3>2. CASE i # at[w]
      <4>1. i < at[w]
        BY <1>6, <2>1, <3>2 DEF Advanced, Key
      <4> QED BY <1>0, <1>1, <1>6, <2>1, <4>1 DEF Steady, Advanced
    <3> QED BY <3>1, <3>2
  <2> QED BY <1>0, <1>6, <2>1, <2>2 DEF Advanced, Steady, NoTask
<1> QED BY <1>0, <1>2, <1>3, <1>4, <1>5, <1>6 DEF WorkerMove

\* Whoever performs a call for the latest attempt has marked it last: nobody
\* else executes that attempt.
LEMMA MarkedStep ==
  ASSUME IInv, [Next]_vars, NEW w \in Worker
  PROVE  Marked(w)'
<1> SUFFICES ASSUME phase'[w] \in Performing, attempt'[RunOf(w)'] = task'[w].attempt
             PROVE  markedBy'[CallOf(w)'] = task'[w].attempt
  BY DEF Marked
<1>1. /\ Steady(w) /\ Marked(w) /\ WorkerMove(w)
      /\ \A r \in Run : attempt[r] \in Nat /\ attempt'[r] \in Nat /\ attempt'[r] >= attempt[r]
  BY WorkerMoves, Attempts DEF IInv, Workers, TypeOK, Contract!TypeOK
<1>2. phase'[w] \notin {"idle", "prepare", "success"}
  BY DEF Performing
<1>3. Still(w) \/ WentOn(w)
  BY <1>1, <1>2 DEF WorkerMove, Began, Stopped, Advanced
<1>4. /\ phase[w] # "idle" /\ task'[w] = task[w]
      /\ RunOf(w)' = RunOf(w) /\ CallOf(w)' = CallOf(w)
  BY <1>2, <1>3 DEF Still, WentOn, RunOf, CallOf
<1>5. RunOf(w) \in Run /\ CallOf(w) \in Call
  BY <1>1, <1>4, AtCall DEF IInv
<1>6. task[w].attempt \in Nat /\ attempt[RunOf(w)] = task[w].attempt
  BY <1>1, <1>4, <1>5 DEF Steady
<1>7. CASE phase[w] \notin Performing
  BY <1>3, <1>4, <1>7 DEF Still, WentOn
<1>8. CASE phase[w] \in Performing
  <2>1. markedBy[CallOf(w)] = task[w].attempt
    BY <1>1, <1>6, <1>8 DEF Marked
  <2>2. CASE markedBy'[CallOf(w)] = markedBy[CallOf(w)]
    BY <1>4, <2>1, <2>2
  <2>3. ASSUME NEW v \in Worker, CallOf(w) = CallOf(v), Latest(v),
               markedBy'[CallOf(w)] = task[v].attempt
        PROVE  markedBy'[CallOf(w)] = task[w].attempt
    BY <1>6, <2>3 DEF CallOf, Latest
  <2> QED BY <1>4, <1>5, <2>2, <2>3, Attempts
<1> QED BY <1>7, <1>8

LEMMA DistinctStep ==
  ASSUME IInv, [Next]_vars, NEW v \in Worker, NEW w \in Worker
  PROVE  Distinct(v, w)'
<1> SUFFICES ASSUME v # w, phase'[v] # "idle", phase'[w] # "idle", RunOf(v)' = RunOf(w)'
             PROVE  task'[v].attempt # task'[w].attempt
  BY DEF Distinct
<1>1. /\ Distinct(v, w) /\ \A u \in Worker : Steady(u) /\ WorkerMove(u)
      /\ \A r \in Run : attempt[r] \in Nat /\ attempt'[r] \in Nat
  BY WorkerMoves, Attempts DEF IInv, Workers, TypeOK, Contract!TypeOK
<1>2. ASSUME NEW u \in Worker, NEW x \in Worker, u # x, Began(u), phase'[x] # "idle",
             RunOf(u)' = RunOf(x)'
      PROVE  task'[u].attempt # task'[x].attempt
  <2>1. PICK r \in Run : /\ task'[u] = [run |-> r, attempt |-> attempt[r] + 1]
                         /\ \A y \in Worker : y # u => Still(y)
    BY <1>2 DEF Began
  <2>2. Still(x) /\ RunOf(x) = r /\ phase[x] # "idle"
    BY <1>2, <2>1 DEF Still, RunOf
  <2>3. task[x].attempt \in 1 .. attempt[r]
    BY <1>1, <2>2 DEF Steady
  <2> QED BY <1>1, <2>1, <2>2, <2>3 DEF Still
<1>3. CASE Began(v) \/ Began(w)
  BY <1>2, <1>3
<1>4. CASE ~Began(v) /\ ~Began(w)
  <2>1. ASSUME NEW u \in Worker, ~Began(u), phase'[u] # "idle"
        PROVE  phase[u] # "idle" /\ task'[u] = task[u] /\ RunOf(u)' = RunOf(u)
    BY <1>1, <2>1 DEF WorkerMove, Still, Stopped, WentOn, Advanced, RunOf
  <2>2. phase[v] # "idle" /\ task'[v] = task[v] /\ RunOf(v)' = RunOf(v)
    BY <1>4, <2>1
  <2>3. phase[w] # "idle" /\ task'[w] = task[w] /\ RunOf(w)' = RunOf(w)
    BY <1>4, <2>1
  <2> QED BY <1>1, <2>2, <2>3 DEF Distinct
<1> QED BY <1>3, <1>4

LEMMA WorkersStep ==
  ASSUME IInv, [Next]_vars
  PROVE  Workers'
BY SteadyStep, MarkedStep, DistinctStep DEF Workers

-----------------------------------------------------------------------------
\* Runs that wait, and runs that are being cancelled

LEMMA RunsStep ==
  ASSUME IInv, [Next]_vars
  PROVE  Runs'
<1> SUFFICES ASSUME NEW r \in Run PROVE Awaited(r)'
  BY DEF Runs
<1>0. /\ Awaited(r) /\ CallsOf(r) \subseteq Call /\ \A c \in CallsOf(r) : c[1] = r
      /\ status \in [Run -> Contract!RunStatus] /\ cancelReq \in [Run -> BOOLEAN]
      /\ approval \in [Call -> Approvals] /\ TypeOK
      /\ \A c \in Call : c[1] \in Run /\ c \in CallsOf(c[1])
      /\ \A w \in Worker : phase[w] # "idle" => RunOf(w) \in Run /\ CallOf(w) \in CallsOf(RunOf(w))
  BY AtCall DEF IInv, TypeOK, Contract!TypeOK, Workers, Runs, CallsOf, CallOf, Call
<1>1. ASSUME UNCHANGED <<status, cancelReq, approval>> PROVE Awaited(r)'
  BY <1>0, <1>1 DEF Awaited
<1>2. ASSUME UNCHANGED approval, NEW q \in Run, NEW s, s # "waiting_for_approval",
             status' = [status EXCEPT ![q] = s], cancelReq' = cancelReq
      PROVE  Awaited(r)'
  BY <1>0, <1>2 DEF Awaited
<1>3. ASSUME NEW q \in Run, Submit(q) \/ RecoverRun(q) \/ StartCancelled(q) PROVE Awaited(r)'
  <2>1. CASE Submit(q)
    BY <1>2, <2>1 DEF Submit, Contract!Submit, apprVars
  <2>2. CASE RecoverRun(q)
    BY <1>2, <2>2 DEF RecoverRun, Contract!Requeue, apprVars
  <2>3. CASE StartCancelled(q)
    <3>1. /\ approval' = approval /\ status' = [status EXCEPT ![q] = "cancelled"]
          /\ cancelReq[q] /\ \E asked \in {cancelReq[q], TRUE} : cancelReq' = [cancelReq EXCEPT ![q] = asked]
      BY <2>3 DEF StartCancelled, Contract!Cancel, apprVars
    <3>2. cancelReq'[r] = cancelReq[r]
      BY <1>0, <3>1
    <3> QED BY <1>0, <3>1, <3>2 DEF Awaited
  <2> QED BY <1>3, <2>1, <2>2, <2>3
<1>4. ASSUME NEW w \in Worker, NEW q \in Run, StartAttempt(w, q) PROVE Awaited(r)'
  BY <1>2, <1>4 DEF StartAttempt, Contract!Start, apprVars
<1>5. ASSUME NEW q \in Run, CancelRun(q) PROVE Awaited(r)'
  <2>1. /\ q = r => /\ status'[r] # "waiting_for_approval"
                    /\ \A c \in CallsOf(r) : approval'[c] # "pending"
        /\ q # r => /\ status'[r] = status[r] /\ cancelReq'[r] = cancelReq[r]
                    /\ \A c \in CallsOf(r) : approval'[c] = approval[c]
    BY <1>0, <1>5 DEF CancelRun, CallsOf
  <2> QED BY <1>0, <2>1 DEF Awaited
<1>6. ASSUME NEW w \in Worker, Finish(w) PROVE Awaited(r)'
  <2>1. /\ phase[w] # "idle" /\ cancelReq' = cancelReq /\ approval' = approval
        /\ status' = [status EXCEPT ![RunOf(w)] = Outcome(w)]
        /\ phase[w] = "park" /\ ~cancelReq[RunOf(w)] => approval[CallOf(w)] = "pending"
    BY <1>6 DEF Finish, Verdict, apprVars
  <2>2. Outcome(w) = "waiting_for_approval" => phase[w] = "park" /\ ~cancelReq[RunOf(w)]
    BY DEF Outcome
  <2> QED BY <1>0, <2>1, <2>2 DEF Awaited
<1>7. ASSUME NEW w \in Worker, PrepareContractChanged(w) PROVE Awaited(r)'
  <2>1. /\ phase[w] # "idle" /\ status[RunOf(w)] = "running"
        /\ status' = status /\ cancelReq' = cancelReq
        /\ approval' = [approval EXCEPT ![CallOf(w)] =
                          IF approval[CallOf(w)] = "pending" THEN "cancelled" ELSE approval[CallOf(w)]]
    BY <1>7 DEF PrepareContractChanged, Preparing, Fence, Latest, runVars
  <2>2. \A c \in CallsOf(r) : approval'[c] = "pending" => approval[c] = "pending"
    BY <1>0, <2>1
  <2>3. CASE r = RunOf(w)
    BY <1>0, <2>1, <2>2, <2>3 DEF Awaited
  <2>4. CASE r # RunOf(w)
    <3>1. \A c \in CallsOf(r) : approval'[c] = approval[c]
      <4>1. CallOf(w) \notin CallsOf(r)
        BY <1>0, <2>4 DEF CallOf
      <4> QED BY <1>0, <2>1, <4>1
    <3> QED BY <1>0, <2>1, <3>1 DEF Awaited
  <2> QED BY <2>3, <2>4
<1>8. ASSUME NEW w \in Worker, PrepareApproval(w) \/ PrepareNew(w) PROVE Awaited(r)'
  <2>1. /\ phase[w] # "idle" /\ ~cancelReq[RunOf(w)]
        /\ status' = status /\ cancelReq' = cancelReq
        /\ approval' = approval \/ approval' = [approval EXCEPT ![CallOf(w)] = "pending"]
    BY <1>8 DEF PrepareApproval, PrepareNew, Reusable, Existing, Preparing, Fence, NewApproval,
       runVars, apprVars
  <2>2. \A c \in CallsOf(r) : approval[c] = "pending" => approval'[c] = "pending"
    BY <1>0, <2>1
  <2>3. CASE r = RunOf(w)
    BY <1>0, <2>1, <2>2, <2>3 DEF Awaited
  <2>4. CASE r # RunOf(w)
    <3>1. \A c \in CallsOf(r) : approval'[c] = approval[c]
      <4>1. CallOf(w) \notin CallsOf(r)
        BY <1>0, <2>4 DEF CallOf
      <4> QED BY <1>0, <2>1, <4>1
    <3> QED BY <1>0, <2>1, <3>1 DEF Awaited
  <2> QED BY <2>3, <2>4
<1>9. ASSUME NEW c \in Call, NEW as \in {"rejected", "expired", "cancelled", "approved"}, NEW s,
             s # "waiting_for_approval",
             approval' = [approval EXCEPT ![c] = as], status' = [status EXCEPT ![c[1]] = s],
             cancelReq' = cancelReq
      PROVE  Awaited(r)'
  BY <1>0, <1>9 DEF Awaited
<1>10. ASSUME NEW c \in Call, NEW as \in {"expired", "cancelled"}, CloseApproval(c, as)
       PROVE  Awaited(r)'
  <2>1. CASE status[c[1]] \in {"running", "waiting_for_approval"}
    BY <1>9, <1>10, <2>1 DEF CloseApproval
  <2>2. CASE status[c[1]] \notin {"running", "waiting_for_approval"}
    <3>1. /\ status' = [status EXCEPT ![c[1]] = status[c[1]]] /\ status[c[1]] # "waiting_for_approval"
          /\ approval' = [approval EXCEPT ![c] = as] /\ cancelReq' = cancelReq
      BY <1>10, <2>2 DEF CloseApproval
    <3> QED BY <1>9, <3>1
  <2> QED BY <2>1, <2>2
<1>11. ASSUME NEW c \in Call, Reject(c) \/ Approve(c) PROVE Awaited(r)'
  <2>1. CASE Reject(c)
    <3>1. /\ status' = [status EXCEPT ![c[1]] = "cancelled"] /\ cancelReq' = cancelReq
          /\ approval' = [approval EXCEPT ![c] = "rejected"]
      BY <2>1 DEF Reject
    <3> QED BY <1>9, <3>1
  <2>2. CASE Approve(c)
    <3>1. /\ status' = [status EXCEPT ![c[1]] = "queued"] /\ cancelReq' = cancelReq
          /\ approval' = [approval EXCEPT ![c] = "approved"]
      BY <2>2 DEF Approve
    <3> QED BY <1>9, <3>1
  <2> QED BY <1>11, <2>1, <2>2
<1>12. ASSUME \/ \E w \in Worker : \/ Abandon(w) \/ Turns(w) \/ PrepareReplay(w) \/ RecordSuccess(w)
                                   \/ PrepareDenied(w) \/ MarkRunning(w) \/ RecordFailure(w)
                                   \/ \E o \in {"ok", "retryable", "fatal"} : Perform(w, o)
              \/ Outside
              \/ UNCHANGED vars
       PROVE  UNCHANGED <<status, cancelReq, approval>>
  BY <1>12, OutsideKeeps, Turning
  DEF Abandon, Turned, PrepareReplay, RecordSuccess, PrepareDenied, MarkRunning, RecordFailure,
      Perform, vars, runVars, apprVars
<1> QED
  BY <1>1, <1>3, <1>4, <1>5, <1>6, <1>7, <1>8, <1>10, <1>11, <1>12, Steps
  DEF Invalidate, ExpireApproval

-----------------------------------------------------------------------------
LEMMA InitInv == Init => IInv
<1> SUFFICES ASSUME Init PROVE IInv
  OBVIOUS
<1>1. Contract!TypeOK
  BY DEF Init, Contract!Init, Contract!TypeOK, Contract!RunStatus
<1>2. TypeOK
  BY <1>1, BoundsAssumption, ContractsAssumption
  DEF Init, TypeOK, Phase, Decision, CallStatus, Approvals
<1>3. Workers
  BY <1>2 DEF Init, Contract!Init, Workers, Steady, Marked, Distinct, Performing, NoTask
<1>4. Calls
  BY DEF Init, Calls, Orderly
<1>5. Runs
  BY DEF Init, Contract!Init, Runs, Awaited, CallsOf
<1> QED BY <1>2, <1>3, <1>4, <1>5 DEF IInv

(* The invariant behind the following theorems holds in every reachable     *)
(* state of the calls, approvals, workers and runs.                         *)
THEOREM Invariance == Spec => []IInv
<1>1. IInv /\ [Next]_vars => IInv'
  BY TypeStep, WorkersStep, CallsStep, RunsStep DEF IInv
<1> QED BY <1>1, InitInv, PTL DEF Spec

(* Every column and every position of a worker keeps its type.              *)
THEOREM TypeSafe == Spec => []TypeOK
<1>1. IInv => TypeOK
  BY DEF IInv
<1> QED BY <1>1, Invariance, PTL

(* A run that waits has exactly one undecided approval, one that is being   *)
(* cancelled has none.                                                      *)
THEOREM WaitingHasOneApproval == Spec => []ApprovalMatchesRun
<1>1. ASSUME IInv, NEW r \in Run, NEW c \in CallsOf(r), NEW d \in CallsOf(r),
             approval[c] = "pending", approval[d] = "pending"
      PROVE  c = d
  <2>1. /\ c \in Call /\ d \in Call /\ c[2] \in Key /\ d[2] \in Key
        /\ c = <<r, c[2]>> /\ d = <<r, d[2]>>
    BY DEF CallsOf, Call
  <2>2. /\ call[c] = "pending_approval" /\ call[d] = "pending_approval"
        /\ \A i \in Key : i < c[2] \/ i < d[2] => call[<<r, i>>] = "succeeded"
    <3>1. Orderly(c) /\ Orderly(d) /\ c[1] = r /\ d[1] = r
      BY <1>1, <2>1 DEF IInv, Calls
    <3>2. call[c] = "pending_approval" /\ call[d] = "pending_approval"
      BY <1>1, <3>1 DEF Orderly
    <3>3. ASSUME NEW e \in {c, d}, NEW i \in Key, i < e[2] PROVE call[<<r, i>>] = "succeeded"
      BY <3>1, <3>2, <3>3 DEF Orderly
    <3> QED BY <3>2, <3>3
  <2>3. ~(c[2] < d[2]) /\ ~(d[2] < c[2])
    BY <2>1, <2>2
  <2>4. c[2] = d[2]
    BY <2>1, <2>3 DEF Key
  <2> QED BY <2>1, <2>4
<1>2. IInv => ApprovalMatchesRun
  <2> SUFFICES ASSUME IInv, NEW r \in Run
               PROVE  LET pending == {c \in CallsOf(r) : approval[c] = "pending"} IN
                      /\ status[r] = "waiting_for_approval" => \E c \in CallsOf(r) : pending = {c}
                      /\ cancelReq[r] => pending = {}
    BY DEF ApprovalMatchesRun
  <2>1. Awaited(r)
    BY DEF IInv, Runs
  <2>2. ASSUME status[r] = "waiting_for_approval"
        PROVE  \E c \in CallsOf(r) : {d \in CallsOf(r) : approval[d] = "pending"} = {c}
    <3>1. PICK c \in CallsOf(r) : approval[c] = "pending"
      BY <2>1, <2>2 DEF Awaited
    <3>2. {d \in CallsOf(r) : approval[d] = "pending"} = {c}
      BY <1>1, <3>1
    <3> QED BY <3>2
  <2> QED BY <2>1, <2>2 DEF Awaited
<1> QED BY <1>2, Invariance, PTL

(* A call and its approval move in step.                                    *)
THEOREM CallAndApprovalAgree == Spec => []ApprovalMatchesCall
<1>1. IInv => ApprovalMatchesCall
  BY DEF IInv, Calls, Orderly, ApprovalMatchesCall
<1> QED BY <1>1, Invariance, PTL

(* No call of a tool that needs an approval ever started without one.       *)
THEOREM ForcedIsApproved == Spec => []ForcedNeedsApproval
<1>1. IInv => ForcedNeedsApproval
  BY DEF IInv, Calls, Orderly, ForcedNeedsApproval
<1> QED BY <1>1, Invariance, PTL

(* No late answer becomes the result of a call.                             *)
THEOREM NoLateResult == Spec => []ResultOfLastStart
<1>1. IInv => ResultOfLastStart
  BY DEF IInv, Calls, Orderly, ResultOfLastStart
<1> QED BY <1>1, Invariance, PTL

(* The triggers of migration 004 never reject a transaction.                *)
THEOREM TriggersNeverFire == Spec => NoIllegalTransition
<1>1. ASSUME IInv, [Next]_vars, NEW c \in Call
      PROVE  /\ CallEdge(call[c], call'[c])
             /\ approval'[c] # approval[c] => approval[c] \in {"none", "pending"}
  <2>1. CallMove(c) /\ Orderly(c)
    BY <1>1, CallMoves DEF IInv, Calls
  <2> QED
    BY <2>1 DEF CallMove, Same, Opened, Asked, Granted, Ended, Started, Done, Undone, Orderly,
       CallEdge, Active
<1>2. IInv /\ [Next]_vars =>
        [\A c \in Call : /\ CallEdge(call[c], call'[c])
                         /\ approval'[c] # approval[c] => approval[c] \in {"none", "pending"}]_vars
  BY <1>1
<1> QED BY <1>2, Invariance, PTL DEF Spec, NoIllegalTransition

(* Workers, approvers, the sweeper and administrators move a run only as    *)
(* the run state machine promises.                                          *)
THEOREM Implements == Spec => ImplementsContract
<1>1. Init => Contract!Init
  BY DEF Init
<1>2. ASSUME IInv, [Next]_vars
      PROVE  Contract!Next \/ UNCHANGED <<status, attempt, cancelReq, task>>
  <2> USE DEF Contract!Next
  <2>0. /\ status \in [Run -> Contract!RunStatus] /\ cancelReq \in [Run -> BOOLEAN]
        /\ \A w \in Worker : phase[w] # "idle" =>
             /\ RunOf(w) \in Run
             /\ task[w] = [run |-> RunOf(w), attempt |-> task[w].attempt]
        /\ \A c \in Call : c[1] \in Run
    BY <1>2, AtCall DEF IInv, TypeOK, Contract!TypeOK, Workers, Steady, Contract!Task, RunOf, Call
  <2>1. ASSUME NEW r \in Run, Submit(r) \/ RecoverRun(r) \/ StartCancelled(r) PROVE Contract!Next
    BY <2>1 DEF Submit, RecoverRun, StartCancelled
  <2>2. ASSUME NEW r \in Run, CancelRun(r) PROVE Contract!Next
    <3>1. CASE status[r] = "running"
      <4>1. Contract!RequestCancel(r)
        BY <2>0, <2>2, <3>1 DEF CancelRun, Contract!RequestCancel, taskVars
      <4> QED BY <4>1
    <3>2. CASE status[r] # "running"
      <4>1. Contract!Cancel(r)
        BY <2>0, <2>2, <3>2 DEF CancelRun, Contract!Cancel, taskVars
      <4> QED BY <4>1
    <3> QED BY <3>1, <3>2
  <2>3. ASSUME NEW w \in Worker, NEW r \in Run, StartAttempt(w, r) PROVE Contract!Next
    BY <2>3 DEF StartAttempt
  <2>4. ASSUME NEW w \in Worker, Abandon(w) PROVE Contract!Next
    <3>1. Contract!Abandon(w)
      BY <2>4 DEF Abandon, Idle, Contract!Abandon, NoTask, runVars
    <3> QED BY <3>1
  <2>5. ASSUME NEW w \in Worker, Finish(w) PROVE Contract!Next
    <3>1. phase[w] # "idle" /\ Latest(w)
      BY <2>5 DEF Finish, Verdict
    <3>2. Contract!Latest(w, RunOf(w))
      BY <2>0, <3>1 DEF Latest, Contract!Latest
    <3>3. /\ Outcome(w) \in Contract!Terminal \cup {"queued", "waiting_for_approval"}
          /\ Outcome(w) = "cancelled" <=> cancelReq[RunOf(w)]
      BY DEF Outcome, Contract!Terminal
    <3>4. Contract!Decide(w, RunOf(w), Outcome(w))
      BY <2>5, <3>2, <3>3 DEF Finish, Idle, NoTask, Contract!Decide
    <3> QED BY <2>0, <3>1, <3>3, <3>4
  <2>6. ASSUME NEW c \in Call, NEW as, CloseApproval(c, as)
        PROVE  Contract!Next \/ UNCHANGED <<status, attempt, cancelReq, task>>
    <3>1. CASE status[c[1]] \in {"running", "waiting_for_approval"}
      <4>1. Contract!Cancel(c[1])
        BY <2>0, <2>6, <3>1 DEF CloseApproval, Contract!Cancel, taskVars
      <4> QED BY <2>0, <4>1
    <3>2. CASE status[c[1]] \notin {"running", "waiting_for_approval"}
      BY <2>0, <2>6, <3>2 DEF CloseApproval, taskVars
    <3> QED BY <3>1, <3>2
  <2>7. ASSUME NEW c \in Call, Reject(c) PROVE Contract!Next
    <3>1. Contract!Cancel(c[1])
      BY <2>0, <2>7 DEF Reject, Decidable, Contract!Cancel, taskVars
    <3> QED BY <2>0, <3>1
  <2>8. ASSUME NEW c \in Call, Approve(c) PROVE Contract!Next
    <3>1. Contract!Requeue(c[1])
      BY <2>8 DEF Approve, Decidable, Contract!Requeue, taskVars
    <3> QED BY <2>0, <3>1
  <2>9. ASSUME \/ \E w \in Worker : \/ Turns(w) \/ PrepareReplay(w) \/ RecordSuccess(w)
                                    \/ PrepareContractChanged(w) \/ PrepareDenied(w)
                                    \/ PrepareApproval(w) \/ PrepareNew(w)
                                    \/ MarkRunning(w) \/ RecordFailure(w)
                                    \/ \E o \in {"ok", "retryable", "fatal"} : Perform(w, o)
               \/ Outside
               \/ UNCHANGED vars
        PROVE  UNCHANGED <<status, attempt, cancelReq, task>>
    BY <2>9, OutsideKeeps, Turning
    DEF Turned, PrepareReplay, RecordSuccess, PrepareContractChanged, PrepareDenied,
        PrepareApproval, PrepareNew, MarkRunning, RecordFailure, Perform, Advance, Goto,
        vars, runVars, taskVars
  <2> QED
    BY <1>2, <2>1, <2>2, <2>3, <2>4, <2>5, <2>6, <2>7, <2>8, <2>9, Steps
    DEF Invalidate, ExpireApproval
<1>3. IInv /\ [Next]_vars => [Contract!Next]_(Contract!vars)
  BY <1>2 DEF Contract!vars
<1> QED BY <1>1, <1>3, Invariance, PTL DEF Spec, ImplementsContract, Contract!Spec
=============================================================================
