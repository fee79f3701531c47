----------------------------- MODULE SpendContract -----------------------------
(***************************************************************************)
(* What the spend ledger of a workspace promises, for one accounting       *)
(* month and with no transaction, no lock and no retry in sight: a unit    *)
(* of work is charged at most once, a charge or a new budget raises every  *)
(* threshold it reaches in the very step that records it, a threshold is   *)
(* raised at most once, and an alert states what was true at that moment.  *)
(*                                                                         *)
(* SpendLedger implements this specification.                              *)
(***************************************************************************)
EXTENDS Integers, FiniteSets, FiniteSetsExt

CONSTANTS
  Source,          \* the source keys of priced units of work
  Cost,            \* what a call may cost, in micros
  Budget,          \* the budgets an owner may set, [limit, enforce, thresholds]
  NoBudget,        \* the workspace has no budget row
  InitialBudgets   \* the budgets the month may begin with

VARIABLES
  ledger,   \* workspace_spend_records of the month: [source, cost]
  budget,   \* the row of workspace_spend_budgets, or NoBudget
  alerts    \* workspace_spend_alerts of the month: [threshold, limit, consumed]

vars == <<ledger, budget, alerts>>

\* The sum of the month's cost_micros.
Consumed(entries) == MapThenSumSet(LAMBDA e : e.cost, entries)

Charged(entries, source) == \E e \in entries : e.source = source

\* The alerts a budget asks for once the given entries are recorded.
Reached(entries, b) ==
  IF b = NoBudget THEN {}
  ELSE { [threshold |-> t, limit |-> b.limit, consumed |-> Consumed(entries)] :
           t \in { u \in b.thresholds : Consumed(entries) * 100 >= u * b.limit } }

\* Alerts whose threshold has not been raised yet.
Fresh(candidates, raised) ==
  { a \in candidates : \A old \in raised : old.threshold # a.threshold }

-----------------------------------------------------------------------------
Init ==
  /\ ledger = {}
  /\ budget \in InitialBudgets
  /\ alerts = Fresh(Reached(ledger, budget), {})

Charge(source, cost) ==
  /\ ~Charged(ledger, source)
  /\ ledger' = ledger \cup {[source |-> source, cost |-> cost]}
  /\ alerts' = alerts \cup Fresh(Reached(ledger', budget), alerts)
  /\ UNCHANGED budget

SetBudget(b) ==
  /\ budget' = b
  /\ alerts' = alerts \cup Fresh(Reached(ledger, b), alerts)
  /\ UNCHANGED ledger

Next ==
  \/ \E source \in Source, cost \in Cost : Charge(source, cost)
  \/ \E b \in Budget : SetBudget(b)

Spec == Init /\ [][Next]_vars
=============================================================================
