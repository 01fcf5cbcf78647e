SPECIFICATION LiveSpec
CONSTANTS
  Records = {r1, r2}
  Audits = {a1}
  Keys = {k1, k2, k3}
  Passwords = {w1, w2}
  Values = {v1}
  Absent = Absent
  Tombstone = Tombstone
  NoSnapshot = NoSnapshot
  Locked = Locked
  NoPassword = NoPassword
  RecoverWhileUnlocked = FALSE
PROPERTIES
  IsAtomic
  JournalDrains
INVARIANTS
  JournalInv
  WholeWhenReady
  ReplayNeverRefused
  OldOrNewPasswordOpens
