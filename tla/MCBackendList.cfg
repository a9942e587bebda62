SPECIFICATION FairSpec
CONSTANTS
  Node = {n1, n2, n3}
  File = {f1, f2}
  Std = {stdout}
  User = {u1}
  Custom = {cb}
  CallbackCalls = {"register", "removeOther", "removeSelf"}
  NULL = NULL
INVARIANTS WellFormed FilesOwned UseExplained
PROPERTIES RefinesRegistry ShutdownEmpties
CHECK_DEADLOCK FALSE
