\* The lifecycle of a grant as seen from outside; no source_ref is taken.  Two
\* operators retry dead rows and reverse awards at the same time, on grants that
\* fit into their pool only one after the other.
SPECIFICATION Spec
CONSTANTS
  w1 = w1
  w2 = w2
  r1 = r1
  o1 = o1
  o2 = o2
  loyalty = loyalty
  content = content
  Grants = {1, 2}
  Budgets <- MCOnePool
  BudgetOf <- MCOnePoolOf
  Amount <- MCAmount
  HardCap <- MCOnePoolCap
  ContentGrants = {1}
  Foreign = {}
  Settlers = {w1}
  Reconcilers = {r1}
  Operators = {o1, o2}
  BatchSize = 2
  MaxAttempts = 1
  AttemptCeiling = 2
  FaultKinds <- AllFaults
  MaxFaults = 1
SYMMETRY Symmetric
INVARIANTS
  HardCapRespected
  OneHolderPerClaim
PROPERTIES
  ImplementsLifecycle
CHECK_DEADLOCK FALSE
