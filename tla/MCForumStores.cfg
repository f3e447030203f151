SPECIFICATION Spec
CONSTANTS
  Owner <- MCOwner
  Voters = {"b"}
  Collectors = {"c1", "c2"}
  RuleSets <- MCRuleSets
  AdminRequests <- MCAdminRequests
  MinVoter = 1
  PairLimit = 1
  LevelStep = 2
  GrowthPage = 2
  LastDay = 1
  MaxFacts = 2
  MaxMoves = 2
  Chatters = {"a", "b", "c"}
  Owner1 = "a"
  Guest = "b"
  Says <- MCSays
  Moderators = {"b"}
  Seats = 2
  MaxSends = 2
  ChatPage = 1
  Readers = {"b"}
  CopyLimit = 2
  Asks <- MCAsks
  Opening <- MCOpening
  LastHour = 1
  Entries <- MCEntries
  MaxVersion = 5
  MaxSwings = 1
  Members = {"m1", "m2"}
  PulseIds = {"X", "Y"}
  BadIds = {"bad"}
  Tickets <- MCTickets
  Callbacks = {"c1", "c2"}
  Installers = {"p1"}
  TicketTTL = 2
  FlowTTL = 2
  LastTick = 2
  MaxRows = 2
  MaxFlows = 2
INVARIANTS
  ExperienceIsEarned
  ConversationsAreSound
  RegistrationsAreSound
  PublicIsApproved
  IdentityHolds
CHECK_DEADLOCK FALSE
