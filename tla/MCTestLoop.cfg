SPECIFICATION FairSpec
CONSTANTS
  Systems = {"linux", "windows"}
  Timeouts = {0, 3}
  WaitTicks = 2
  StartTimes = {0, 100}
  MaxElapsed = 5
  MaxLines = 2
INVARIANT FaultExplained
PROPERTIES QuitStops InterruptStops TimeoutEnds
CHECK_DEADLOCK FALSE
