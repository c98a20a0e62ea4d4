SPECIFICATION FairSpec
CONSTANTS
  CustomPath = TRUE
  MaxRelease = 2
  MaxRuns = 2
  MaxFaults = 2
INVARIANTS RunsWhatIsInstalled RunsOnlyGoodSets Recoverable RollbackRestores GroupOutlivesSecrets
PROPERTIES DowngradesOnlyBlindly ServiceReturns
CHECK_DEADLOCK FALSE
