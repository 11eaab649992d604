CONSTANTS
  a = a
  b = b
  Flows = {a, b}
  Statements = 2
  MaxTimeouts = 1
  MaxChoices = 1
  MaxReloads = 1
SPECIFICATION Spec
SYMMETRY Twins
INVARIANTS AllOrNone AnswerIsTrue NothingLeftOpen
PROPERTY RoutesWhileSettled
CHECK_DEADLOCK FALSE
