SPECIFICATION Spec
CONSTANTS
  Thread = {main, console}
  Main = main
  Id = {a, b}
  Threshold = {0, 8}
  SerialRange = 3
  MaxMessages = 4
  MaxResets = 1
  MaxIndent = 2
  NULL = NULL
INVARIANTS SerialsContinuous ScopesNested PassCountsSuccessive
CHECK_DEADLOCK FALSE
