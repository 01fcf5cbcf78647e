SPECIFICATION Spec
CONSTANTS
  Devices = {d1, d2}
  Creator = d1
  Recs = {r1}
  None = None
  Restored = {d1}
  Lockers = {d1, d2}
  CloudKit = FALSE
  MaxEdits = 2
  MaxSnaps = 3
  MaxFaults = 1
SYMMETRY Symmetry
CHECK_DEADLOCK FALSE
INVARIANTS
  NoSilentLoss
PROPERTIES
  NeverUndone
