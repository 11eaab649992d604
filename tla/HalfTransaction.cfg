CONSTANTS
  a = a
  b = b
  Flows = {a, b}
  Statements = 2
  MaxTimeouts = 0
  MaxChoices = 0
  MaxReloads = 0
SPECIFICATION Spec
SYMMETRY Twins
INVARIANT TransactionsAreWhole
CHECK_DEADLOCK FALSE
