\* Safety of the diagnosis pipeline: cache, index, limiter, loop and requests; a ring of two results.
CONSTANTS
  a1 = a1
  a2 = a2
  a3 = a3
  a4 = a4
  n1 = n1
  n2 = n2
  f1 = f1
  f2 = f2
  f3 = f3
  AutoCaller = AutoCaller
  r1 = r1
  Alerts = {a1, a2}
  Nodes = {n1}
  Fingerprints = {f1, f2}
  NodeOf <- MCNodeOf
  FingerprintOf <- MCFingerprintOf
  Critical = {a1, a2}
  FallbackAlerts = {a2}
  FallbackConf <- MCFallbackConf
  Unhashable = {}
  Requests = {r1}
  MaxAlerts = 1
  MaxDiagnoses = 2
  QueryLimit = 2
  ResultCacheTtl = 1
  FailedRetryCooldown = 1
  RateCooldown = 1
  LoopInterval = 0
  MaxBackoff = 2
  FailureCap = 0
  StartTime = 0
  MaxTime = 2
  MaxCalls = 3
  MaxInvalid = 3
  MaxManual = 1
SPECIFICATION Spec
INVARIANTS TypeOK CacheSound StoredOnce PaidCallsSpaced RefusalsJustified IndexAgrees RetriesSpaced
\* The clock, the calls and the requests are bounded.
CHECK_DEADLOCK FALSE
