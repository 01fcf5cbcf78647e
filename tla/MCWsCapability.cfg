SPECIFICATION FairSpec
CONSTANTS
  None = None
  Unset = Unset
  MaxAttempts = 2
  StoppedProbes = FALSE
  MaxEdits = 2
  MaxRestarts = 1
  MaxFaults = 2
CHECK_DEADLOCK FALSE
PROPERTIES
  Justified
  Follows
  EvidenceSettles
