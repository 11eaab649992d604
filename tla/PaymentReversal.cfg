CONSTANTS
  d1 = d1
  d2 = d2
  d3 = d3
  Docs = {d1, d2, d3}
  NoDoc = NoDoc
  Mixes <- PaymentAlone
  Users = {u1}
  Main = Main
  Branch = Branch
  HasDefault = TRUE
  Allow = {}
  CreditLimit = 2
  LeaveDays = 2
  MaxQty = 2
  MaxOps = 3
  OpeningCash = 1
SPECIFICATION Spec
CHECK_DEADLOCK FALSE
INVARIANT ReversalUndoesPayment
