SPECIFICATION Spec
CONSTANTS
  Thread = {main}
  Main = main
  Id = {a}
  Threshold = {0, 8}
  SerialRange = 4
  MaxMessages = 4
  MaxResets = 1
  MaxIndent = 2
  NULL = NULL
INVARIANTS CheckpointsUsable
CHECK_DEADLOCK FALSE
