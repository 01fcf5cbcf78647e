SPECIFICATION FairSpec
CONSTANTS
  l1 = l1
  l2 = l2
  l3 = l3
  t1 = t1
  t2 = t2
  None = None
  Lanes = {l1, l2, l3}
  Unnamed = l1
  Targets = {t1, t2}
  MaxLanes = 1
  MaxActive = 2
  MaxQueued = 1
  MaxBytes = 4
  MaxRequests = 3
CHECK_DEADLOCK FALSE
INVARIANTS
  OriginOnly
  
PROPERTIES
  ParentKept
  Answered
