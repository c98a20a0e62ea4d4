SPECIFICATION FairSpec
CONSTANTS
  z1 = z1
  a1 = a1
  a2 = a2
  N = 2
  Zone = {z1}
  ZoneOf <- OneZone
  ExplicitId <- FirstExplicit
  FamilyOf <- FirstIsV6
  Creates = {2}
  Addr = {a1, a2}
  Slow = {1}
  Broken = {"v6"}
  LateApply = TRUE
  MaxFaults = 1
  MaxChanges = 1
INVARIANTS SuccessMeansSynced NoDuplicates
PROPERTIES MutationsBounded Converges Quiesces StopHonoured
