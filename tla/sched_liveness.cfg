SPECIFICATION FairSpec
CONSTANTS
  backup = backup
  sweep = sweep
  Jobs <- JobOrder
  Parent <- Follows
  Schedules <- SelfStarting
  Operators = {}
  Loop = loop
  EditsDuringRuns = FALSE
  MaxIncidents = 2
PROPERTY TimerFires
PROPERTY StartupFires
CHECK_DEADLOCK FALSE
