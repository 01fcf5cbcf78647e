SPECIFICATION FairSpec
CONSTANTS
  t1 = t1
  t2 = t2
  p1 = p1
  q1 = q1
  q2 = q2
  s1 = s1
  None = None
  Targets = {t1}
  Providers = {p1}
  ProviderOf <- OneProvider
  Requests = {q1, q2}
  Sessions = {s1}
  SessionOf <- OneSession
  Replaceable = {}
  Limits = {0, 1}
  FailureThreshold = 1
  Cooldown = 1
  MaxCooldown = 2
  MaxReopen = 1
  Window = 1
  RetryAfter = {1}
  MaxAttempts = 1
  Rounds = 2
  Hold = FALSE
PROPERTIES
  EveryRequestEnds
  Recovers
  LimitHolds
INVARIANTS
  ProbeExclusive
  SlotsExact
  BoundIsUsable
