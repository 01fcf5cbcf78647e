SPECIFICATION FairSpec
CONSTANTS
  Devices = {d1, d2}
  Creator = d1
  Recs = {r1, r2}
  None = None
  Restored = {}
  Lockers = {}
  CloudKit = FALSE
  MaxEdits = 2
  MaxSnaps = 6
  MaxFaults = 0
CHECK_DEADLOCK FALSE
PROPERTIES
  Convergence
