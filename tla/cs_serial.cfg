SPECIFICATION Spec
CONSTANTS
  Games = {g1, g2}
  Hashes = {h1, h2}
  SnapIds = {s1, s2}
  Handlers = {c1}
  Jobs = {c1}
  Operations <- AllOps
  MaxVersion = 2
  MaxFailures = 1
  AutoDeleteChoices = {TRUE, FALSE}
SYMMETRY Interchangeable
INVARIANT TypeOK
INVARIANT Restorable
INVARIANT WholeBarringDeaths
CHECK_DEADLOCK FALSE
