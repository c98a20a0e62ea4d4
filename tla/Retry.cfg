SPECIFICATION Spec
CONSTANTS
  Interval = 2
  InitialBackoff = 1
  MaxBackoff = 6
  MaxShift = 3
  MaxCount = 4
  MaxRetryAfter = 7
  MaxAsked = 8
  MaxStreak = 6
INVARIANTS TypeOK RetryAfterHonoured NeverSpins BackoffFollowsOutage
CHECK_DEADLOCK FALSE
