\* Three requests for a new and for a historical action under two keys,
\* while the rule changes.
SPECIFICATION Spec
CONSTANTS
  q1 = q1
  q2 = q2
  q3 = q3
  a1 = a1
  h1 = h1
  k1 = k1
  k2 = k2
  o1 = o1
  o2 = o2
  Requests = {q1, q2, q3}
  Actions = {a1, h1}
  Keys = {k1, k2}
  Historical = {h1}
  LegacyKey <- MCLegacyKey
  Operators = {o1}
  MaxRules = 2
  Lots = {}
  Validity = 1
  PeriodTickets = 3
  PeriodEnd = 1
  MaxTime = 0
  Prizes <- MCPrizes
  Cap <- MCRich
  MayDisable = TRUE
SYMMETRY Symmetric
INVARIANTS
  OneGrantPerAction
  AnswersAgree
CHECK_DEADLOCK FALSE
