SPECIFICATION FairSpec
CONSTANTS
  MaxRetryAfter = 3
  MaxPages = 2
  PageSize = 2
  MaxBody = 1
  MaxPageNumber = 4
  MaxEntries = 4
  MaxEdits = 1
INVARIANTS TypeOK LookupTruthful RecheckCatchesShift
PROPERTIES FailureFollowsAnswer LookupEnds
CHECK_DEADLOCK FALSE
