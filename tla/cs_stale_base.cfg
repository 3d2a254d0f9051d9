SPECIFICATION Spec
CONSTANTS
  Games = {g1}
  Hashes = {h1}
  SnapIds = {s1, s2}
  Handlers = {c1}
  Jobs = {}
  Operations <- SyncOps
  MaxVersion = 2
  MaxFailures = 0
  AutoDeleteChoices = {TRUE, FALSE}
SYMMETRY Interchangeable
PROPERTY CommitReplacesItsBase
CHECK_DEADLOCK FALSE
