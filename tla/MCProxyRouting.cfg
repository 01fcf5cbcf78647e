SPECIFICATION Spec
CONSTANTS
  t1 = t1
  t2 = t2
  p1 = p1
  q1 = q1
  q2 = q2
  s1 = s1
  None = None
  Targets = {t1, t2}
  Providers = {p1}
  ProviderOf <- OneProvider
  Requests = {q1, q2}
  Sessions = {s1}
  SessionOf <- OneSession
  Replaceable = {t1, t2}
  Limits = {0}
  FailureThreshold = 1
  Cooldown = 1
  MaxCooldown = 1
  MaxReopen = 0
  Window = 1
  RetryAfter = {1}
  MaxAttempts = 2
  Rounds = 1
  Hold = TRUE
SYMMETRY Symmetry
INVARIANTS
  RoutingInv
PROPERTIES
  NeverReplayed
