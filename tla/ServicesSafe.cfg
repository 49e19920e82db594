SPECIFICATION ServicesSpec
CONSTANTS
  a1 = a1  a2 = a2
  Drains = {a1, a2}
  Devices = {a1, a2}
  Users = {b1, b2}
  MaxAttempts = 2
  MaxRegs = 4
  Submitters = {b1, b2}
  Jobs = {c1, c2}
  MaxTokens = 2
  IssueLimit = 1
  MaxLeases = 3
  MaxTries = 2
  MaxVersion = 2
  Requests = {a1, a2}
  MaxMonth = 2
  Alert = 2
  Review = 3
  Budgets = {5}
  Estimates = {2}
  Costs = {1, 3}
SYMMETRY Symmetry
INVARIANTS
  PushesAreDue
  LinksAreSingle
  UsageIsCharged
PROPERTIES
  JudgedAndSentAsDue
CHECK_DEADLOCK FALSE
