\* One read of the grant fails; nothing is wrong at new-api.
SPECIFICATION Spec
CONSTANTS
  w1 = w1
  w2 = w2
  r1 = r1
  o1 = o1
  o2 = o2
  loyalty = loyalty
  content = content
  Grants = {1}
  Budgets <- MCPool
  BudgetOf <- MCPoolOf
  Amount <- MCAmount
  HardCap <- MCPoolCap
  ContentGrants = {}
  Foreign = {}
  Settlers = {w1}
  Reconcilers = {r1}
  Operators = {}
  BatchSize = 1
  MaxAttempts = 2
  AttemptCeiling = 3
  FaultKinds = {"load"}
  MaxFaults = 1
INVARIANTS
  ConflictHasEvidence
CHECK_DEADLOCK FALSE
