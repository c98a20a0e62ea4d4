SPECIFICATION ProviderSpec
CONSTANTS
  P = 3
  Timeout = 4
  MaxDelay = 2
  MaxCutoff = 5
  MaxLag = 2
  MaxResponse = 2
INVARIANTS TypeOK Timely FastProviderWins AcceptsExactlyPublic
CHECK_DEADLOCK FALSE
