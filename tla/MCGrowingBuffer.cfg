SPECIFICATION GBFairSpec
CONSTANTS
  Apis = {"readlink", "query", "module", "enum", "c99", "old"}
  Lengths = {1, 2, 3, 4, 5, 8, 9}
  FixedSizes = {4, 8}
  FirstSize = 2
  MaxSize = 16
INVARIANTS HeapResultWhole BlocksSound FailsForCause
PROPERTY CallsReturn
CHECK_DEADLOCK FALSE
