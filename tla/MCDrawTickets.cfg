\* Two draws with tickets of the periodic activity and of the forum, while
\* two operators publish rules, tickets expire and the activity is closed.
SPECIFICATION Spec
CONSTANTS
  q1 = q1
  q2 = q2
  q3 = q3
  a1 = a1
  h1 = h1
  k1 = k1
  k2 = k2
  o1 = o1
  o2 = o2
  Requests = {q1, q2}
  Actions = {a1, h1}
  Keys = {k1, k2}
  Historical = {}
  LegacyKey <- MCLegacyKey
  Operators = {o1, o2}
  MaxRules = 3
  Lots = {1}
  Validity = 1
  PeriodTickets = 1
  PeriodEnd = 2
  MaxTime = 2
  Prizes <- MCPrizes
  Cap <- MCCap
  MayDisable = FALSE
SYMMETRY Symmetric
INVARIANTS
  TicketsAddUp
  DrawsAreTimely
  PublicationsChain
PROPERTIES
  DrawnUnderCurrentRule
  OddsStand
CHECK_DEADLOCK FALSE
