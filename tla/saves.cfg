SPECIFICATION MCSpec
CONSTANTS
  Saves = {i1, i2, i3}
  Slots <- OneSlot
  SlotOf <- InOneSlot
  Requests = {q1, q2}
  Artifacts = {i1, i2, i3}
  Games = {"game"}
  GameOf <- OfOneGame
  Friends = {"bob"}
  Limit = 1
  Components = {"emulation", "backups"}
  Excusable = {"overlap", "superseded", "early"}
SYMMETRY Symmetry
INVARIANT OneInUsePerSlot
INVARIANT SlotKeepsASave
INVARIANT OverLimitOnlyByRacing
INVARIANT SharedIsDownloadable
CHECK_DEADLOCK FALSE
