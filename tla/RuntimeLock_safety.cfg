SPECIFICATION FairSpec
CONSTANTS
  p1 = p1
  p2 = p2
  p3 = p3
  r1 = r1
  r2 = r2
  r3 = r3
  r4 = r4
  svc = svc
  dev = dev
  Proc <- MCProc
  Record <- MCRecord
  User <- MCUser
  Managed <- MCManaged
  HashOf <- MCHashOf
  ServiceUser = svc
CONSTANTS
  UserOf <- OneDeveloper
  MaxFaults = 2
INVARIANTS TypeOK GuardsExclude NoCircularRefusal
PROPERTIES ImplementsOwnership SomeoneGetsThrough
