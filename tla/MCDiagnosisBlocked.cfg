\* Three CRITICAL alerts within the query, where the fingerprint of a4 raises: every pass
\* stops at it.
CONSTANTS
  a1 = a1
  a2 = a2
  a3 = a3
  a4 = a4
  n1 = n1
  n2 = n2
  f1 = f1
  f2 = f2
  f3 = f3
  AutoCaller = AutoCaller
  r1 = r1
  Alerts = {a1, a3, a4}
  Nodes = {n1, n2}
  Fingerprints = {f1, f3}
  NodeOf <- MCNodeOf
  FingerprintOf <- MCFingerprintOf
  Critical = {a1, a3, a4}
  FallbackAlerts = {}
  FallbackConf <- MCFallbackConf
  Unhashable = {a4}
  Requests = {r1}
  MaxAlerts = 3
  MaxDiagnoses = 3
  QueryLimit = 3
  ResultCacheTtl = 1
  FailedRetryCooldown = 1
  RateCooldown = 2
  LoopInterval = 1
  MaxBackoff = 2
  FailureCap = 2
  StartTime = 2
  MaxTime = 4
  MaxCalls = 12
  MaxInvalid = 1
  MaxManual = 0
SPECIFICATION FairSpec
PROPERTY CriticalAttempted
\* The clock, the calls and the requests are bounded.
CHECK_DEADLOCK FALSE
