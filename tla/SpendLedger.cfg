\* Two payers and an admin who sets the first budget of the workspace, tightens,
\* loosens and no longer enforces it.
SPECIFICATION Spec
CONSTANTS
  Payer = {p1, p2}
  Admin = {a1}
  Nobody = Nobody
  Source = {s1, s2, s3}
  NoSource = NoSource
  Cost <- Costs
  Budget <- Budgets
  NoBudget = NoBudget
  InitialBudgets <- Initial
SYMMETRY Symmetry
INVARIANTS CrossingsRaised Overshoot
PROPERTIES ImplementsContract
CHECK_DEADLOCK FALSE
