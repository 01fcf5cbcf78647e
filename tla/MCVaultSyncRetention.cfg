SPECIFICATION Spec
CONSTANTS
  Devices = {d1, d2}
  Creator = d1
  Recs = {r1}
  None = None
  Restored = {d1, d2}
  Lockers = {d1, d2}
  CloudKit = TRUE
  MaxEdits = 2
  MaxSnaps = 4
  MaxFaults = 0
SYMMETRY Symmetry
CHECK_DEADLOCK FALSE
INVARIANTS
  TypeOK
  NoSilentLoss
PROPERTIES
  NewestStays
