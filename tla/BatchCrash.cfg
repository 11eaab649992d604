SPECIFICATION Spec
CHECK_DEADLOCK FALSE
CONSTANTS
  Items <- Two
  After <- Pair
  Uses <- LastNamesFirst
  NoItem = NoItem
  Workers = {w1, w2}
  NoWorker = NoWorker
  w1 = w1
  w2 = w2
  A = A
  B = B
  Windows = {A, B}
  WindowOf <- TwoWindows
  MaxAttempts = 1
  ClaimLimit = 2
  Width = 2
  StreakLimit = 2
  Outcomes = {"RATE_LIMIT", "TIMEOUT"}
  Suspends = FALSE
  MaxCommands = 2
  MaxCrashes = 1
  MaxHiccups = 0
INVARIANTS
  HeldIsOwned
  ClosedIsTrue
  TypeOK
  CountersCover
PROPERTIES
  KeepsPromise
  DoneIsFinal
  ClosedIsFinal
