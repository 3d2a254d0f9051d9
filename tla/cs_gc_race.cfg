SPECIFICATION Spec
CONSTANTS
  Games = {g1}
  Hashes = {h1}
  SnapIds = {s1, s2}
  Handlers = {c1, c2}
  Jobs = {}
  Operations <- DeleteOps
  MaxVersion = 2
  MaxFailures = 0
  AutoDeleteChoices = {TRUE}
SYMMETRY Interchangeable
INVARIANT Restorable
CHECK_DEADLOCK FALSE
