SPECIFICATION Spec
CONSTANTS
  N = 3
  KeyOf <- ThreeKeys
  IdOf <- TwoZones
  Creates <- AllButFirst
  CheckTimeout = 6
  RequestTimeout = 2
  Margin = 1
INVARIANTS InTime VerifiedMeansWritable SuccessCoversRecords ProofsNotRepeated
CHECK_DEADLOCK FALSE
