\* A draw whose source_ref carries a foreign benefit: the settlement loop
\* learns of the conflict while the reconciliation asks for the state.
SPECIFICATION Spec
CONSTANTS
  w1 = w1
  w2 = w2
  r1 = r1
  o1 = o1
  o2 = o2
  loyalty = loyalty
  content = content
  Grants = {1}
  Budgets <- MCPool
  BudgetOf <- MCPoolOf
  Amount <- MCAmount
  HardCap <- MCPoolCap
  ContentGrants = {}
  Foreign = {1}
  Settlers = {w1}
  Reconcilers = {r1}
  Operators = {}
  BatchSize = 1
  MaxAttempts = 1
  AttemptCeiling = 2
  FaultKinds = {}
  MaxFaults = 0
INVARIANTS
  RejectedNeverBooked
CHECK_DEADLOCK FALSE
