SPECIFICATION Spec
CONSTANTS
  MaxName = 5
  MaxLabel = 2
  IdLength = 2
  MaxRecords = 2
  MaxProviders = 2
  MaxBytes = 1
  MaxSwaps = 1
  Modes <- Rights
  Configs <- SomeConfigs
  Texts <- TokenTexts
INVARIANTS InputsTrusted TokenConfined WholeInput OneLockPerResource AcceptedMeansUsable
CHECK_DEADLOCK FALSE
