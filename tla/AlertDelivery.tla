----------------------------- MODULE AlertDelivery -----------------------------
(***************************************************************************)
(* Delivery of spend alerts (spend_alert_worker.py, migration 014): the    *)
(* rows of workspace_spend_alert_outbox and the notifiers that post them   *)
(* to the operator's webhook.                                              *)
(*                                                                         *)
(* A notifier claims a row under a lease, posts it outside any             *)
(* transaction and records the outcome.  Nothing renews the lease and      *)
(* nothing relates its length to the timeout of the post, so a post may    *)
(* outlast it and be answered when another notifier holds the row.         *)
(* Each transaction touches one row it locks at once, hence is one step.   *)
(* available_at is abstracted away: a row that backs off may be claimed    *)
(* at any later time.                                                      *)
(***************************************************************************)
EXTENDS Naturals

CONSTANTS
  OutboxAlert,          \* alerts, each with its outbox row
  NoAlert,              \* a notifier with nothing in hand
  Notifier,             \* notifier processes, by worker_id
  NoNotifier,           \* lease_owner IS NULL
  MaxDeliveryAttempts,  \* MAX_DELIVERY_ATTEMPTS
  MaxFaults             \* bound: dead processes, and posts that outlast a lease

ASSUME BoundsAssumption ==
  MaxDeliveryAttempts \in Nat \ {0} /\ MaxFaults \in Nat
ASSUME NoneAssumption == NoNotifier \notin Notifier /\ NoAlert \notin OutboxAlert

VARIABLES
  status,    \* "queued"; delivered_at set: "delivered"; dead_lettered_at: "abandoned"
  attempts,  \* attempts
  owner,     \* lease_owner
  lease,     \* lease_expires_at: "none", "live" or "expired"
  job,       \* the row a notifier claimed
  base,      \* the attempts it read when it claimed it
  outcome,   \* "posting", or how its post ended; "none" without a job
  posts,     \* history: answers and failures of the posts of an alert
  refused,   \* history: the receiver refused the alert for good
  accepted,  \* history: the receiver accepted the alert
  faults     \* faults so far

rowVars == <<status, attempts, owner, lease>>
notifierVars == <<job, base, outcome>>
history == <<posts, refused, accepted>>
deliveryVars == <<rowVars, notifierVars, history, faults>>

\* What _deliver ends with: a 2xx status, AlertDeliveryError that may be
\* retried (timeout, transport error, 408, 425, 429, 5xx, or any other
\* exception), and one that may not (a redirect, another status, an oversized
\* body).
Answer == {"ok", "retryable", "refused"}

DeliveryInit ==
  /\ status = [a \in OutboxAlert |-> "queued"]
  /\ attempts = [a \in OutboxAlert |-> 0]
  /\ owner = [a \in OutboxAlert |-> NoNotifier]
  /\ lease = [a \in OutboxAlert |-> "none"]
  /\ job = [n \in Notifier |-> NoAlert]
  /\ base = [n \in Notifier |-> 0]
  /\ outcome = [n \in Notifier |-> "none"]
  /\ posts = [a \in OutboxAlert |-> 0]
  /\ refused = [a \in OutboxAlert |-> FALSE]
  /\ accepted = [a \in OutboxAlert |-> FALSE]
  /\ faults = 0

-----------------------------------------------------------------------------
\* Mutant of Claim: a row whose lease ran out is not taken over.
ClaimUnleased(n, a) ==
  /\ job[n] = NoAlert
  /\ status[a] = "queued"
  /\ lease[a] = "none"
  /\ owner' = [owner EXCEPT ![a] = n]
  /\ lease' = [lease EXCEPT ![a] = "live"]
  /\ job' = [job EXCEPT ![n] = a]
  /\ base' = [base EXCEPT ![n] = attempts[a]]
  /\ outcome' = [outcome EXCEPT ![n] = "posting"]
  /\ UNCHANGED <<status, attempts, history, faults>>

\* SELECT ... FOR UPDATE SKIP LOCKED and the UPDATE that takes the lease.
Claim(n, a) ==
  /\ job[n] = NoAlert
  /\ status[a] = "queued"
  /\ lease[a] \in {"none", "expired"}
  /\ owner' = [owner EXCEPT ![a] = n]
  /\ lease' = [lease EXCEPT ![a] = "live"]
  /\ job' = [job EXCEPT ![n] = a]
  /\ base' = [base EXCEPT ![n] = attempts[a]]
  /\ outcome' = [outcome EXCEPT ![n] = "posting"]
  /\ UNCHANGED <<status, attempts, history, faults>>

\* The post ends.  A receiver may have accepted what the notifier sees fail:
\* a timeout after it acted, or a body over the bound behind a 2xx status.
Post(n, answer, taken) ==
  /\ outcome[n] = "posting"
  /\ answer = "ok" => taken
  /\ outcome' = [outcome EXCEPT ![n] = answer]
  /\ posts' = [posts EXCEPT ![job[n]] = @ + 1]
  /\ refused' = [refused EXCEPT ![job[n]] = @ \/ answer = "refused"]
  /\ accepted' = [accepted EXCEPT ![job[n]] = @ \/ taken]
  /\ UNCHANGED <<rowVars, job, base, faults>>

\* Mutants of Owns: the outcome is written without asking for the owner, and
\* by alert_id alone.
OwnsOpen(n) == status[job[n]] = "queued"
OwnsAlways(n) == TRUE

\* The WHERE clause of every outcome: the row is open and this notifier is its
\* owner.  That the lease is still live is not asked.
Owns(n) == status[job[n]] = "queued" /\ owner[job[n]] = n

Free(n) ==
  /\ job' = [job EXCEPT ![n] = NoAlert]
  /\ outcome' = [outcome EXCEPT ![n] = "none"]
  /\ base' = [base EXCEPT ![n] = 0]

\* The UPDATE clears the lease and gives the row its new status and attempts.
Close(a, newStatus, newAttempts) ==
  /\ status' = [status EXCEPT ![a] = newStatus]
  /\ attempts' = [attempts EXCEPT ![a] = newAttempts]
  /\ owner' = [owner EXCEPT ![a] = NoNotifier]
  /\ lease' = [lease EXCEPT ![a] = "none"]

Succeed(n) ==
  /\ outcome[n] = "ok"
  /\ IF Owns(n) THEN Close(job[n], "delivered", attempts[job[n]] + 1)
                ELSE UNCHANGED rowVars
  /\ Free(n)
  /\ UNCHANGED <<history, faults>>

\* Mutant of Fail: the attempt in hand is counted twice before it is compared
\* with the bound.
FailTooEarly(n) ==
  /\ outcome[n] \in {"retryable", "refused"}
  /\ LET abandoned == outcome[n] = "refused" \/ base[n] + 2 >= MaxDeliveryAttempts
     IN IF Owns(n)
          THEN Close(job[n], IF abandoned THEN "abandoned" ELSE "queued", base[n] + 1)
          ELSE UNCHANGED rowVars
  /\ Free(n)
  /\ UNCHANGED <<history, faults>>

\* _fail counts from the attempts the claim read.
Fail(n) ==
  /\ outcome[n] \in {"retryable", "refused"}
  /\ LET abandoned == outcome[n] = "refused" \/ base[n] + 1 >= MaxDeliveryAttempts
     IN IF Owns(n)
          THEN Close(job[n], IF abandoned THEN "abandoned" ELSE "queued", base[n] + 1)
          ELSE UNCHANGED rowVars
  /\ Free(n)
  /\ UNCHANGED <<history, faults>>

\* The process dies or is cancelled, or the transaction that records the
\* outcome fails: the row keeps its lease.
Crash(n) ==
  /\ job[n] # NoAlert
  /\ faults < MaxFaults
  /\ faults' = faults + 1
  /\ Free(n)
  /\ UNCHANGED <<rowVars, history>>

\* The lease of a notifier that is gone, or has moved on, runs out.
LeaseExpires(a) ==
  /\ lease[a] = "live"
  /\ job[owner[a]] # a
  /\ lease' = [lease EXCEPT ![a] = "expired"]
  /\ UNCHANGED <<status, attempts, owner, notifierVars, history, faults>>

\* A lease runs out under a post, or the recording of its outcome, that takes
\* longer.
LeaseOutlasted(a) ==
  /\ lease[a] = "live"
  /\ job[owner[a]] = a
  /\ faults < MaxFaults
  /\ faults' = faults + 1
  /\ lease' = [lease EXCEPT ![a] = "expired"]
  /\ UNCHANGED <<status, attempts, owner, notifierVars, history>>

-----------------------------------------------------------------------------
Deliver(n) ==
  \/ \E answer \in Answer, taken \in BOOLEAN : Post(n, answer, taken)
  \/ Succeed(n)
  \/ Fail(n)

DeliveryNext ==
  \/ \E n \in Notifier : (\E a \in OutboxAlert : Claim(n, a)) \/ Deliver(n) \/ Crash(n)
  \/ \E a \in OutboxAlert : LeaseExpires(a) \/ LeaseOutlasted(a)

DeliverySpec == DeliveryInit /\ [][DeliveryNext]_deliveryVars

\* WorkerRuntime.run calls process_once for ever and SELECT takes the oldest
\* row first, so no row is passed over for ever; a post ends by its timeout;
\* the clock runs.  Faults owe nothing.
Fairness ==
  /\ \A n \in Notifier : WF_deliveryVars(Deliver(n))
  /\ \A a \in OutboxAlert : WF_deliveryVars(\E n \in Notifier : Claim(n, a))
  /\ \A a \in OutboxAlert : WF_deliveryVars(LeaseExpires(a))

FairSpec == DeliverySpec /\ Fairness

-----------------------------------------------------------------------------
\* Properties

\* The rows and notifiers have their types; a row has an owner exactly while it
\* has a lease (the CHECK of migration 014), and only an open row has one.
DeliveryTypeOK ==
  /\ status \in [OutboxAlert -> {"queued", "delivered", "abandoned"}]
  /\ attempts \in [OutboxAlert -> 0 .. MaxDeliveryAttempts]
  /\ owner \in [OutboxAlert -> Notifier \cup {NoNotifier}]
  /\ lease \in [OutboxAlert -> {"none", "live", "expired"}]
  /\ job \in [Notifier -> OutboxAlert \cup {NoAlert}]
  /\ base \in [Notifier -> 0 .. MaxDeliveryAttempts - 1]
  /\ outcome \in [Notifier -> Answer \cup {"none", "posting"}]
  /\ posts \in [OutboxAlert -> Nat]
  /\ refused \in [OutboxAlert -> BOOLEAN]
  /\ accepted \in [OutboxAlert -> BOOLEAN]
  /\ faults \in 0 .. MaxFaults
  /\ \A n \in Notifier : outcome[n] = "none" <=> job[n] = NoAlert
  /\ \A a \in OutboxAlert : /\ owner[a] = NoNotifier <=> lease[a] = "none"
                            /\ status[a] # "queued" => owner[a] = NoNotifier

\* _succeed and _fail (spend_alert_worker.py:231-270): late answers of
\* notifiers that lost the row do not make the counter lose an attempt, nor
\* count more than were made, and an open row always has an attempt left.
AttemptsEarned ==
  \A a \in OutboxAlert :
    /\ attempts[a] <= posts[a]
    /\ status[a] = "queued" => attempts[a] < MaxDeliveryAttempts

\* ADR 0032:57-66: an alert is given up for one of two reasons only, a final
\* refusal or the last attempt, and is delivered only if it was accepted.
ClosedForCause ==
  \A a \in OutboxAlert :
    /\ status[a] = "abandoned" => refused[a] \/ attempts[a] = MaxDeliveryAttempts
    /\ status[a] = "delivered" => accepted[a]

\* ADR 0032:66-68, the trigger of migration 014: delivered and abandoned are
\* terminal, whoever still holds an old claim; and a late _fail, which counts
\* from what its claim read, never takes the counter of a row back.
OutcomeFinal ==
  [][\A a \in OutboxAlert :
       /\ attempts'[a] >= attempts[a]
       /\ status[a] # "queued" =>
            status'[a] = status[a] /\ attempts'[a] = attempts[a]]_deliveryVars

\* spend_alert_worker.py:1-9: an alert is retried a bounded number of times
\* and then abandoned, never for ever.
AlertsResolve == \A a \in OutboxAlert : <>(status[a] # "queued")
=============================================================================
