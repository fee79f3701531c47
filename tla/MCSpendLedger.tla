----------------------------- MODULE MCSpendLedger -----------------------------
(* Small instances of SpendLedger for TLC. *)
EXTENDS SpendLedger, TLC

B(limit, enforce, thresholds) ==
  [limit |-> limit, enforce |-> enforce, thresholds |-> thresholds]

\* A limit, and a tighter one with another threshold that only monitors.
Two == B(2, TRUE, {50, 100})
Watch == B(1, FALSE, {80, 100})

Budgets == {Two, Watch}
Initial == {NoBudget, Two}
Costs == {1, 2}

Symmetry == Permutations(Payer) \cup Permutations(Source)
=============================================================================
