SPECIFICATION FairSpec
CONSTANTS
  Caller = {a, b}
  Bases = {4, 16}
  DWORD = 16
  STILL_ACTIVE = 3
  MaxOutside = 1
INVARIANTS SuspensionsBalanced HandlesClosed ReportExplained NameGoneReported
PROPERTY InjectReturns
CHECK_DEADLOCK FALSE
