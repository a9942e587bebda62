SPECIFICATION Spec
CONSTANTS
  Systems = {"linux", "windows"}
  MaxLoads = 3
  MaxLogs = 3
INVARIANTS ScriptsBesideProgram HeardOnce FaultExplained
CHECK_DEADLOCK FALSE
