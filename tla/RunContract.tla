------------------------------ MODULE RunContract ------------------------------
(***************************************************************************)
(* What the run state machine promises, with no queue, no lease, no        *)
(* receipt and no outbox in sight:                                         *)
(*                                                                         *)
(*   - a run moves only along the edges the database trigger accepts, and  *)
(*     a terminal run never moves again;                                   *)
(*   - every start is a new attempt, numbered one higher than the last;    *)
(*   - the outcome of a run is written by the worker that executes its     *)
(*     latest attempt and by nobody else;                                  *)
(*   - once its cancellation was requested, a run is neither started nor   *)
(*     given another outcome than "cancelled".                             *)
(*                                                                         *)
(* RunLifecycle implements this specification.                             *)
(***************************************************************************)
EXTENDS Naturals

CONSTANTS
  Run,        \* runs, named by their requester and idempotency key
  Worker      \* worker processes

VARIABLES
  status,     \* agent_runs.status, or "absent" before the run is created
  attempt,    \* agent_runs.attempt_count
  cancelReq,  \* agent_runs.cancel_requested_at IS NOT NULL
  task        \* what a worker is executing: a run and the attempt it claimed

vars == <<status, attempt, cancelReq, task>>

Terminal  == {"succeeded", "failed", "cancelled"}
RunStatus == {"absent", "queued", "running", "waiting_for_approval"} \cup Terminal
NoTask    == [run |-> "none", attempt |-> 0]
Task      == [run : Run, attempt : Nat]

TypeOK ==
  /\ status \in [Run -> RunStatus]
  /\ attempt \in [Run -> Nat]
  /\ cancelReq \in [Run -> BOOLEAN]
  /\ task \in [Worker -> Task \cup {NoTask}]

Init ==
  /\ status = [r \in Run |-> "absent"]
  /\ attempt = [r \in Run |-> 0]
  /\ cancelReq = [r \in Run |-> FALSE]
  /\ task = [w \in Worker |-> NoTask]

-----------------------------------------------------------------------------
\* The worker executes the latest attempt of a run that is still running.
Latest(w, r) ==
  /\ status[r] = "running"
  /\ task[w] = [run |-> r, attempt |-> attempt[r]]

Submit(r) ==
  /\ status[r] = "absent"
  /\ status' = [status EXCEPT ![r] = "queued"]
  /\ UNCHANGED <<attempt, cancelReq, task>>

\* A free worker starts the next attempt of a queued run, or takes a running
\* one over from a worker that lost it.
Start(w, r) ==
  /\ task[w] = NoTask
  /\ status[r] \in {"queued", "running"}
  /\ ~cancelReq[r]
  /\ status' = [status EXCEPT ![r] = "running"]
  /\ attempt' = [attempt EXCEPT ![r] = @ + 1]
  /\ task' = [task EXCEPT ![w] = [run |-> r, attempt |-> attempt[r] + 1]]
  /\ UNCHANGED cancelReq

\* The executor of the latest attempt decides: it finishes the run, asks for
\* a retry or parks it behind an approval.
Decide(w, r, outcome) ==
  /\ Latest(w, r)
  /\ outcome = "cancelled" <=> cancelReq[r]
  /\ status' = [status EXCEPT ![r] = outcome]
  /\ task' = [task EXCEPT ![w] = NoTask]
  /\ UNCHANGED <<attempt, cancelReq>>

\* A worker gives its task up, or dies, without any effect on the run.
Abandon(w) ==
  /\ task[w] # NoTask
  /\ task' = [task EXCEPT ![w] = NoTask]
  /\ UNCHANGED <<status, attempt, cancelReq>>

\* A running run whose worker is lost, or one whose approval was granted,
\* goes back to the queue.
Requeue(r) ==
  /\ status[r] \in {"running", "waiting_for_approval"}
  /\ status' = [status EXCEPT ![r] = "queued"]
  /\ UNCHANGED <<attempt, cancelReq, task>>

RequestCancel(r) ==
  /\ status[r] = "running"
  /\ cancelReq' = [cancelReq EXCEPT ![r] = TRUE]
  /\ UNCHANGED <<status, attempt, task>>

\* Any live run can be cancelled: by its requester, by an approval that was
\* refused, or by the worker that finds the request of an earlier attempt.
Cancel(r) ==
  /\ status[r] \in {"queued", "running", "waiting_for_approval"}
  /\ status' = [status EXCEPT ![r] = "cancelled"]
  /\ \E asked \in {cancelReq[r], TRUE} :
       cancelReq' = [cancelReq EXCEPT ![r] = asked]
  /\ UNCHANGED <<attempt, task>>

Next ==
  \/ \E r \in Run : Submit(r) \/ Requeue(r) \/ RequestCancel(r) \/ Cancel(r)
  \/ \E w \in Worker : Abandon(w)
  \/ \E w \in Worker, r \in Run :
       \/ Start(w, r)
       \/ \E outcome \in Terminal \cup {"queued", "waiting_for_approval"} :
            Decide(w, r, outcome)

Spec == Init /\ [][Next]_vars
=============================================================================
