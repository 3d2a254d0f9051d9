SPECIFICATION MCSpec
CONSTANTS
  Callers = {w1, w2}
  k1 = k1
  k2 = k2
  c1 = c1
  c2 = c2
  c3 = c3
  u1 = u1
  Refresh = 1
  IdleWindow = 3
  LongAgo = 4
  MaxAttempts = 3
  Lockout = 3
  MissWindow = 3
  Keys = {k1, k2}
  CopyNames = {c1, c2, c3}
  UploadNames = {u1}
  KEEP = 1
  MaxChanges = 2
  FAILURE_LIMIT = 3
  Day = 4
  Hour = 2
  MinGap = 2
  MonthLengths <- Months
  Offered <- Timers
  Delays = {0, 1, 3, 30, 170}
SYMMETRY Symmetry
INVARIANT BlockedIsOut
INVARIANT AnnouncedOnce
INVARIANT GuessesBounded
INVARIANT PictureIsThere
INVARIANT RestoreIsReversible
INVARIANT SwitchedOffAfterARun
INVARIANT RunsKeepTheirStep
CHECK_DEADLOCK FALSE
