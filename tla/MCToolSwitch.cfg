SPECIFICATION Spec
CONSTANTS
  a1 = a1
  a2 = a2
  Managed = {a1, a2}
  Original = Original
  Active = Active
  Gateway = Gateway
  Absent = Absent
  NoTx = NoTx
  MaxGen = 1
  MaxEdits = 1
  MaxOps = 2
  Racing = FALSE
  RollbackWhilePending = FALSE
SYMMETRY Symmetry
INVARIANTS
  
  
  RecoveryNeverRefused
PROPERTIES
  
  IsAtomicSwitch
