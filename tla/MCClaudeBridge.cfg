SPECIFICATION Spec

CONSTANTS
  None = None
  MaxRuns = 2
  Room = 1
  Eager = FALSE
  MaxTurns = 3
  MaxCalls = 1
  MaxAnswers = 2

INVARIANTS   Served
 
CHECK_DEADLOCK FALSE
