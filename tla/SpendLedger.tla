------------------------------ MODULE SpendLedger ------------------------------
(***************************************************************************)
(* Workspace spend: the ledger of priced calls, the budget and the alerts  *)
(* of its thresholds (spend.py, spend_repository.py, migrations 012-014),  *)
(* for one workspace and one accounting month.                             *)
(*                                                                         *)
(* A payer is anything that pays for a provider call: the durable          *)
(* executor, a judge worker, an ingestion worker, a retrieval.  It asks    *)
(* evaluate_budget before the call and records the call with record_spend  *)
(* in the transaction of the work it paid for.  An admin sets the budget.  *)
(*                                                                         *)
(* The transactions are modelled statement by statement under READ         *)
(* COMMITTED: what a transaction has written is staged, visible to its own *)
(* statements only, and published by Commit or dropped by Abort.  Two      *)
(* rows keep them apart.  An admin's request holds the workspaces row FOR  *)
(* UPDATE, and a charge holds it FOR KEY SHARE through its foreign key, so *)
(* an admin overlaps neither a charge nor another admin; two charges       *)
(* overlap, and only the budget row, if there is one, separates them.      *)
(***************************************************************************)
EXTENDS Integers, FiniteSets, FiniteSetsExt

CONSTANTS
  Payer,           \* processes that make priced calls
  Admin,           \* requests of owners and admins to PUT /spend/budget
  Nobody,          \* nobody holds the budget row
  Source,          \* the source keys of priced units of work
  NoSource,        \* a process that has no unit of work in hand
  Cost,            \* what a call may cost, in micros
  Budget,          \* the budgets an admin may set, [limit, enforce, thresholds]
  NoBudget,        \* the workspace has no budget row
  InitialBudgets   \* the budgets the month may begin with

Process == Payer \cup Admin

ASSUME ProcessAssumption == Payer \cap Admin = {} /\ Nobody \notin Process
ASSUME BudgetAssumption ==
  /\ \A b \in Budget : b.limit \in Nat /\ b.enforce \in BOOLEAN
                       /\ b.thresholds \subseteq 1 .. 100
  /\ NoBudget \notin Budget /\ InitialBudgets \subseteq Budget \cup {NoBudget}
\* cost_micros is a BIGINT, and there are finitely many processes.
ASSUME CostAssumption == Cost \subseteq Nat /\ IsFiniteSet(Cost) /\ IsFiniteSet(Payer)

VARIABLES
  ledger,     \* committed workspace_spend_records: [source, cost]
  budget,     \* committed row of workspace_spend_budgets, or NoBudget
  alerts,     \* committed workspace_spend_alerts: [threshold, limit, consumed]
  lock,       \* who holds the budget row FOR NO KEY UPDATE
  pc,         \* where each process is
  seen,       \* the budget load_budget returned to it
  unit,       \* the source key of the work in hand
  entry,      \* the ledger row its transaction inserted: {} or a singleton
  draft,      \* the budget row its transaction wrote, or NoBudget
  wanted,     \* the thresholds its evaluation found reached, as alerts
  raised,     \* the alert rows its transaction inserted
  ceiling     \* history: the highest limit a call was authorised under,
              \* or Unlimited once one was authorised under none

tables  == <<ledger, budget, alerts>>
staging == <<entry, draft, wanted, raised>>
vars == <<ledger, budget, alerts, lock, pc, seen, unit, entry, draft, wanted,
          raised, ceiling>>

Contract == INSTANCE SpendContract
Consumed(entries) == Contract!Consumed(entries)

Unlimited == -1
Entry == [source : Source, cost : Cost]
Alert == [threshold : 1 .. 100, limit : Nat,
          consumed : { Consumed(entries) : entries \in SUBSET Entry }]
InTransaction == {"scoped", "locking", "evaluating", "inserting", "committing"}

Init ==
  /\ ledger = {}
  /\ budget \in InitialBudgets
  /\ alerts = Contract!Fresh(Contract!Reached(ledger, budget), {})
  /\ lock = Nobody
  /\ pc = [p \in Process |-> "idle"]
  /\ seen = [p \in Process |-> NoBudget]
  /\ unit = [p \in Process |-> NoSource]
  /\ entry = [p \in Process |-> {}]
  /\ draft = [p \in Process |-> NoBudget]
  /\ wanted = [p \in Process |-> {}]
  /\ raised = [p \in Process |-> {}]
  /\ ceiling = 0

-----------------------------------------------------------------------------
\* Who holds the workspaces row; the two modes exclude each other, both are
\* held to the end of the transaction.

\* FOR UPDATE, one at a time.
Scoping == { a \in Admin : pc[a] \in InTransaction }

\* FOR KEY SHARE, any number at once.
Charging == { p \in Payer : entry[p] # {} }

-----------------------------------------------------------------------------
\* What the statements of a transaction see

SeenLedger(p) == ledger \cup entry[p]
SeenBudget(p) == IF draft[p] = NoBudget THEN budget ELSE draft[p]

\* Mutant of Allowed: a call may start when the limit has just been reached.
AllowedAtLimit(b, consumed) == b = NoBudget \/ consumed <= b.limit \/ ~b.enforce

\* budget_decision.
Allowed(b, consumed) == b = NoBudget \/ consumed < b.limit \/ ~b.enforce

\* The decision puts a ceiling on the call only by comparing it with the limit.
CeilingAfter(b) ==
  IF ceiling = Unlimited \/ b = NoBudget \/ ~b.enforce THEN Unlimited
  ELSE IF ceiling > b.limit THEN ceiling ELSE b.limit

-----------------------------------------------------------------------------
\* A payer

\* The first statement of evaluate_budget, for a unit of work that is new or
\* that a lost worker began before.
ReadBudget(p, s) ==
  /\ pc[p] = "idle"
  /\ unit' = [unit EXCEPT ![p] = s]
  /\ seen' = [seen EXCEPT ![p] = budget]
  /\ pc' = [pc EXCEPT ![p] = "deciding"]
  /\ UNCHANGED <<tables, lock, staging, ceiling>>

\* Its second statement sums what has been committed by then.  The call goes
\* out, or SpendLimitExceeded ends the work.
Decide(p) ==
  /\ pc[p] = "deciding"
  /\ IF Allowed(seen[p], Consumed(ledger))
       THEN /\ pc' = [pc EXCEPT ![p] = "calling"]
            /\ ceiling' = CeilingAfter(seen[p])
            /\ UNCHANGED unit
       ELSE /\ pc' = [pc EXCEPT ![p] = "idle"]
            /\ unit' = [unit EXCEPT ![p] = NoSource]
            /\ UNCHANGED ceiling
  /\ UNCHANGED <<tables, lock, seen, staging>>

\* The provider fails, or the process dies before anything is written.
CallFails(p) ==
  /\ pc[p] = "calling"
  /\ pc' = [pc EXCEPT ![p] = "idle"]
  /\ unit' = [unit EXCEPT ![p] = NoSource]
  /\ UNCHANGED <<tables, lock, seen, staging, ceiling>>

\* Mutant of Record: the key is not unique, so a replay charges again.
RecordAgain(p, cost) ==
  /\ pc[p] = "calling"
  /\ Scoping = {}
  /\ pc' = [pc EXCEPT ![p] = "locking"]
  /\ entry' = [entry EXCEPT ![p] = {[source |-> unit[p], cost |-> cost]}]
  /\ UNCHANGED <<tables, lock, seen, unit, draft, wanted, raised, ceiling>>

\* Mutant of Record: the record does not reference its workspace.
RecordUnreferenced(p, cost) ==
  /\ pc[p] = "calling"
  /\ \A q \in Process \ {p} : ~Contract!Charged(entry[q], unit[p])
  /\ IF Contract!Charged(ledger, unit[p])
       THEN /\ pc' = [pc EXCEPT ![p] = "committing"]
            /\ UNCHANGED entry
       ELSE /\ pc' = [pc EXCEPT ![p] = "locking"]
            /\ entry' = [entry EXCEPT ![p] = {[source |-> unit[p], cost |-> cost]}]
  /\ UNCHANGED <<tables, lock, seen, unit, draft, wanted, raised, ceiling>>

\* INSERT ... ON CONFLICT (workspace_id, source_key) DO NOTHING waits for
\* another transaction that has inserted the key.  A unit that is already
\* charged is neither charged nor evaluated again.  A row that is inserted has
\* its foreign key checked, which waits for an admin; the step is the end of
\* that wait, and a lock timeout before it is CallFails.
Record(p, cost) ==
  /\ pc[p] = "calling"
  /\ \A q \in Process \ {p} : ~Contract!Charged(entry[q], unit[p])
  /\ IF Contract!Charged(ledger, unit[p])
       THEN /\ pc' = [pc EXCEPT ![p] = "committing"]
            /\ UNCHANGED entry
       ELSE /\ Scoping = {}
            /\ pc' = [pc EXCEPT ![p] = "locking"]
            /\ entry' = [entry EXCEPT ![p] = {[source |-> unit[p], cost |-> cost]}]
  /\ UNCHANGED <<tables, lock, seen, unit, draft, wanted, raised, ceiling>>

-----------------------------------------------------------------------------
\* An admin

\* Mutant of Scope: the role is read without a lock on the workspace.
ScopeUnlocked(a) ==
  /\ pc[a] = "idle"
  /\ pc' = [pc EXCEPT ![a] = "scoped"]
  /\ UNCHANGED <<tables, lock, seen, unit, staging, ceiling>>

\* set_budget begins with scoped: SELECT ... FOR UPDATE of the workspaces row.
Scope(a) ==
  /\ pc[a] = "idle"
  /\ Scoping = {} /\ Charging = {}
  /\ pc' = [pc EXCEPT ![a] = "scoped"]
  /\ UNCHANGED <<tables, lock, seen, unit, staging, ceiling>>

\* Its INSERT ... ON CONFLICT DO UPDATE takes the budget row, whether it
\* updates it or inserts it.
WriteBudget(a, b) ==
  /\ pc[a] = "scoped"
  /\ lock = Nobody
  /\ lock' = a
  /\ draft' = [draft EXCEPT ![a] = b]
  /\ pc' = [pc EXCEPT ![a] = "locking"]
  /\ UNCHANGED <<tables, seen, unit, entry, wanted, raised, ceiling>>

-----------------------------------------------------------------------------
\* raise_threshold_alerts

\* Mutant of LockBudget: the row is read but not locked.
LockBudgetNot(p) ==
  /\ pc[p] = "locking"
  /\ pc' = [pc EXCEPT ![p] = "evaluating"]
  /\ UNCHANGED <<tables, lock, seen, unit, staging, ceiling>>

\* SELECT ... FOR NO KEY UPDATE: waits for a row that is held, and finds none
\* to lock in a workspace without a budget, where charges are not serialised.
LockBudget(p) ==
  /\ pc[p] = "locking"
  /\ IF SeenBudget(p) = NoBudget
       THEN UNCHANGED lock
       ELSE lock \in {Nobody, p} /\ lock' = p
  /\ pc' = [pc EXCEPT ![p] = "evaluating"]
  /\ UNCHANGED <<tables, seen, unit, staging, ceiling>>

\* The aggregate is a statement of its own, with a snapshot of its own.
Evaluate(p) ==
  /\ pc[p] = "evaluating"
  /\ wanted' = [wanted EXCEPT ![p] = Contract!Reached(SeenLedger(p), SeenBudget(p))]
  /\ pc' = [pc EXCEPT ![p] = "inserting"]
  /\ UNCHANGED <<tables, lock, seen, unit, entry, draft, raised, ceiling>>

\* Mutant of Insert: alerts are written on a connection of their own.
InsertAtOnce(p) ==
  /\ pc[p] = "inserting"
  /\ alerts' = alerts \cup Contract!Fresh(wanted[p], alerts)
  /\ pc' = [pc EXCEPT ![p] = "committing"]
  /\ UNCHANGED <<ledger, budget, lock, seen, unit, staging, ceiling>>

\* Its INSERT ... ON CONFLICT DO NOTHING waits for other transactions that
\* have inserted one of the thresholds and then skips those.
Insert(p) ==
  /\ pc[p] = "inserting"
  /\ \A q \in Process \ {p} :
       Contract!Fresh(wanted[p], raised[q]) = wanted[p]
  /\ raised' = [raised EXCEPT ![p] = Contract!Fresh(wanted[p], alerts)]
  /\ pc' = [pc EXCEPT ![p] = "committing"]
  /\ UNCHANGED <<tables, lock, seen, unit, entry, draft, wanted, ceiling>>

-----------------------------------------------------------------------------
\* How a transaction ends

EndOfTransaction(p) ==
  /\ pc' = [pc EXCEPT ![p] = "idle"]
  /\ lock' = IF lock = p THEN Nobody ELSE lock
  /\ unit' = [unit EXCEPT ![p] = NoSource]
  /\ entry' = [entry EXCEPT ![p] = {}]
  /\ draft' = [draft EXCEPT ![p] = NoBudget]
  /\ wanted' = [wanted EXCEPT ![p] = {}]
  /\ raised' = [raised EXCEPT ![p] = {}]
  /\ UNCHANGED <<seen, ceiling>>

Commit(p) ==
  /\ pc[p] = "committing"
  /\ ledger' = SeenLedger(p)
  /\ budget' = SeenBudget(p)
  /\ alerts' = alerts \cup raised[p]
  /\ EndOfTransaction(p)

\* A lock or statement timeout, an admin who lacks the permission, a write of
\* the paid work that is refused (a lost fence), or the death of the process.
Abort(p) ==
  /\ pc[p] \in InTransaction
  /\ UNCHANGED tables
  /\ EndOfTransaction(p)

-----------------------------------------------------------------------------
Next ==
  \/ \E p \in Payer :
       \/ \E s \in Source : ReadBudget(p, s)
       \/ Decide(p)
       \/ CallFails(p)
       \/ \E cost \in Cost : Record(p, cost)
  \/ \E a \in Admin :
       \/ Scope(a)
       \/ \E b \in Budget : WriteBudget(a, b)
  \/ \E p \in Process :
       LockBudget(p) \/ Evaluate(p) \/ Insert(p) \/ Commit(p) \/ Abort(p)

Spec == Init /\ [][Next]_vars

-----------------------------------------------------------------------------
\* Properties

\* Everything has its type; a process outside a transaction holds no lock and
\* has staged nothing, so that an aborted or finished transaction of
\* spend_repository.py leaves nothing behind.
TypeOK ==
  /\ ledger \subseteq Entry
  /\ budget \in Budget \cup {NoBudget}
  /\ alerts \subseteq Alert
  /\ lock \in { p \in Process : pc[p] \in InTransaction } \cup {Nobody}
  /\ pc \in [Process -> {"idle", "deciding", "calling"} \cup InTransaction]
  /\ seen \in [Process -> Budget \cup {NoBudget}]
  /\ unit \in [Process -> Source \cup {NoSource}]
  /\ entry \in [Process -> SUBSET Entry]
  /\ draft \in [Process -> Budget \cup {NoBudget}]
  /\ wanted \in [Process -> SUBSET Alert]
  /\ raised \in [Process -> SUBSET Alert]
  /\ ceiling \in Nat \cup {Unlimited}
  /\ \A p \in Process : pc[p] \in {"deciding", "calling"} => unit[p] \in Source
  /\ \A p \in Process : pc[p] \notin InTransaction =>
       entry[p] = {} /\ draft[p] = NoBudget /\ wanted[p] = {} /\ raised[p] = {}

\* ADR 0027:38 and the comment at spend_repository.py:102-107: a spend row
\* cannot commit without its crossing being considered.  Whatever transactions
\* of payers and admins overlap, every threshold the committed ledger reaches
\* under the committed budget has its alert.
CrossingsRaised ==
  Contract!Fresh(Contract!Reached(ledger, budget), alerts) = {}

\* evaluate_budget's docstring (spend_repository.py:142-148): calls in flight
\* may overshoot a limit together, by no more than one call of each payer,
\* even when admins raise and lower the limit meanwhile.
Overshoot ==
  \/ ceiling = Unlimited
  \/ ledger = {}
  \/ Consumed(ledger) < ceiling + Cardinality(Payer) * Max(Cost)

\* record_spend and set_budget, statement by statement and with any overlap,
\* abort or replay, do what the contract does in one step.
ImplementsContract == Contract!Spec
=============================================================================
