SPECIFICATION Spec
CONSTANTS
  N = 2
  KeyOf <- OneKey
  IdOf <- OneZone
  Creates = {}
  CheckTimeout = 6
  RequestTimeout = 2
  Margin = 1
INVARIANT OneProbePerZone
CHECK_DEADLOCK FALSE
