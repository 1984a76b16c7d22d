SPECIFICATION MCSpec
CONSTANTS
  a = a
  b = b
  Chain = {a, b}
  Order <- MCOrder
  Weight = {0, 1}
  Amount = {5}
  MinSplit = 1
  Allowance = {0, 5}
  MaxRuns = 2
CHECK_DEADLOCK FALSE
INVARIANTS
  TypeOK
  SplitsAddUp
  SendsInOrder
PROPERTIES
  GivenUpIsOver
  RecordSettles
