SPECIFICATION Spec
CONSTANTS
  Devices = {d1, d2}
  Creator = d1
  Recs = {r1, r2}
  None = None
  Restored = {d1}
  Lockers = {}
  CloudKit = FALSE
  MaxEdits = 2
  MaxSnaps = 4
  MaxFaults = 1
SYMMETRY Symmetry
CHECK_DEADLOCK FALSE
INVARIANTS
  NoSilentLoss
