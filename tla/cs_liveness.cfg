SPECIFICATION FairSpec
CONSTANTS
  Games = {g1}
  Hashes = {h1}
  SnapIds = {s1, s2}
  Handlers = {c1}
  Jobs = {j1}
  Operations <- LivenessOps
  MaxVersion = 2
  MaxFailures = 1
  AutoDeleteChoices = {TRUE}
PROPERTY OrphanRowsFreed
PROPERTY StalePendingSwept
PROPERTY RequestsEnd
CHECK_DEADLOCK FALSE
