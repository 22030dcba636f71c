SPECIFICATION FairSpec
CONSTANTS
  Simulated = FALSE
  Positions = 3
  Total = 2
  StopTicks = 2
  Delay = 1
  MaxCommands = 2
INVARIANTS MarkersOK
PROPERTIES RunIsGivenItsTime MotorComesToRest ReportCatchesUp
