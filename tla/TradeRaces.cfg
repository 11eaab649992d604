CONSTANTS
  d1 = d1
  d2 = d2
  d3 = d3
  Docs = {d1, d2, d3}
  NoDoc = NoDoc
  Mixes <- AllPairs
  Users = {u1, u2}
  Main = Main
  Branch = Branch
  HasDefault = TRUE
  Allow = {"overlimit"}
  CreditLimit = 2
  LeaveDays = 2
  MaxQty = 2
  MaxOps = 3
  OpeningCash = 1
SPECIFICATION Spec
SYMMETRY Sessions
INVARIANTS TypeOK    OneInvoicePerOffer
PROPERTY NoSaleJoinsClosedShift
CHECK_DEADLOCK FALSE
