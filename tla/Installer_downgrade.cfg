SPECIFICATION Spec
CONSTANTS
  CustomPath = FALSE
  MaxRelease = 2
  MaxRuns = 3
  MaxFaults = 2
PROPERTIES NeverOlder
CHECK_DEADLOCK FALSE
