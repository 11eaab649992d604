CONSTANTS
  look = look
  post = post
  again = again
  batch = batch
  payment = payment
  rows = rows
  l1 = l1
  l2 = l2
  Lanes = {l1, l2}
  Calls = {look, post, again}
  Reads = {look}
  Batches = {post, again}
  Keys = {payment, rows}
  Key <- MCKey
  WriteRetryLimit = 1
  MaxIterations = 2
  MaxCorrections = 1
  MaxSends = 2
  MaxMishaps = 1
SYMMETRY Twins
SPECIFICATION Spec
INVARIANTS EffectsAreApproved RequestsAreWhole NoForeignTurn Answerable BusyHasALane
PROPERTY NoSecondOffer
CHECK_DEADLOCK FALSE
