SPECIFICATION Spec
CONSTANTS
  Games = {g1}
  Hashes = {h1}
  SnapIds = {s1, s2, s3}
  Handlers = {c1, c2}
  Jobs = {}
  Operations <- RaceOps
  MaxVersion = 3
  MaxFailures = 1
  AutoDeleteChoices = {TRUE, FALSE}
SYMMETRY Interchangeable
INVARIANT OneCurrentPerGame
INVARIANT ServedWholeOrGone
PROPERTY StatusOrder
PROPERTY ImplementsHistory
CHECK_DEADLOCK FALSE
