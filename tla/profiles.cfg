SPECIFICATION MCSpec
CONSTANTS
  Pictures = {shot}
  Members = {a1, a2}
  Workers = {q1, q2}
  HourlyLimit = 1
  Shots = {a1, a2}
  ClientOf <- Itself
  Games = {"game"}
  Upper <- Spelled
  Payloads <- SyncPayloads
  Copies <- Stores
  LinkSets <- Linkings
  Catalogue <- Catalogues
  UnlockRows <- StoredRows
  Library = {"placed", "unplaced"}
  ShopOf <- Shops
  Imported = {"placed"}
  MaxDelta = 1
  MaxRecorded = 2
  RecentGames = 1
SYMMETRY Symmetry
INVARIANT UnlocksKept
INVARIANT OneCapturePerUnlock
INVARIANT FiledStaysFiled
INVARIANT DecisionsStand
INVARIANT CombinedIsWhole
INVARIANT PlayedInHidingStaysHidden
CHECK_DEADLOCK FALSE
