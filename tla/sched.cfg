SPECIFICATION Spec
CONSTANTS
  backup = backup
  sweep = sweep
  Jobs <- JobOrder
  Parent <- Follows
  Schedules <- AllKinds
  Operators = {o1}
  Loop = loop
  EditsDuringRuns = FALSE
  MaxIncidents = 1
INVARIANT OneRunAtATime
INVARIANT ClaimsAreLive
INVARIANT RunsInOrder
INVARIANT NextRunFollowsRow
