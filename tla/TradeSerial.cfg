CONSTANTS
  d1 = d1
  d2 = d2
  d3 = d3
  Docs = {d1, d2, d3}
  NoDoc = NoDoc
  Mixes <- Triples
  Users = {u1}
  Main = Main
  Branch = Branch
  HasDefault = TRUE
  Allow = {}
  CreditLimit = 2
  LeaveDays = 2
  MaxQty = 2
  MaxOps = 5
  OpeningCash = 1
SPECIFICATION Spec
CHECK_DEADLOCK FALSE
INVARIANTS  OncePerDocument  LeavesWithinEntitlement
PROPERTIES NothingIsOverdrawn PostedEntryStands ClosedPeriodIsLocked
