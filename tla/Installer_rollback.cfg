SPECIFICATION Spec
CONSTANTS
  CustomPath = FALSE
  MaxRelease = 1
  MaxRuns = 1
  MaxFaults = 2
INVARIANT NewSecretsRemoved
CHECK_DEADLOCK FALSE
