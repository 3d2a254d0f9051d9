SPECIFICATION Spec
CONSTANTS
  saveA = saveA
  saveB = saveB
  blobC = blobC
  BlobKeys = {blobC}
  SaveKeys = {saveA, saveB}
  Size <- Sizes
  Declared <- Claims
  Slack = 1
  Quota = 2
  Refresh = 1
  Puts = {p1, p2}
  Inodes = {i1, i2, i3}
  SameKeyTwice = FALSE
  MaxFailures = 1
SYMMETRY Interchangeable
INVARIANT FinalIsWhole
INVARIANT SavesWithinQuota
INVARIANT StreamsShareQuota
INVARIANT EntriesAreLive
PROPERTY ImplementsStore
CHECK_DEADLOCK FALSE
