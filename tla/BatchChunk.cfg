SPECIFICATION Spec
CHECK_DEADLOCK FALSE
CONSTANTS
  Items <- Three
  After <- Pair
  Uses <- LastNamesFirst
  NoItem = NoItem
  Workers = {w1, w2}
  NoWorker = NoWorker
  w1 = w1
  w2 = w2
  A = A
  B = B
  Windows = {A}
  WindowOf <- OneWindow
  MaxAttempts = 2
  ClaimLimit = 2
  Width = 2
  StreakLimit = 2
  Outcomes = {"TRANSIENT", "REFUSED", "TIMEOUT", "RATE_LIMIT"}
  Suspends = FALSE
  MaxCommands = 1
  MaxCrashes = 0
  MaxHiccups = 0
INVARIANTS
  DependencyOrder
  OneEffectPerApproval
  UnresolvedIsLate
