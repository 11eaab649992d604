SPECIFICATION Spec
CHECK_DEADLOCK FALSE
CONSTANTS
  Items <- One
  After <- NoEdges
  Uses <- NoRefs
  NoItem = NoItem
  Workers = {w1, w2}
  NoWorker = NoWorker
  w1 = w1
  w2 = w2
  A = A
  B = B
  Windows = {A}
  WindowOf <- OneWindow
  MaxAttempts = 2
  ClaimLimit = 2
  Width = 2
  StreakLimit = 2
  Outcomes = {"TIMEOUT"}
  Suspends = FALSE
  MaxCommands = 2
  MaxCrashes = 0
  MaxHiccups = 0
PROPERTIES
  NoRerunOfTimedOut
