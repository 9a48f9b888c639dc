\* Three jobs, of which the registry keeps two; histories of four samples, alert rings of four, two DiLoCo workers.
CONSTANTS
  j1 = j1
  j2 = j2
  j3 = j3
  NoJob = NoJob
  Jobs = {j1, j2, j3}
  MaxJobs = 2
  Patches <- MCPatches
  n1 = n1
  n2 = n2
  DetNodes = {n1}
  Kinds = {"zscore", "plateau", "regression"}
  Readings <- MCReadings
  BufferSize = 4
  ZWindows <- MCZWindows
  ZMinSamples = 3
  ZThreshold = 2
  PlateauWindow = 2
  PlateauBase = 2
  Warmup = 1
  PlateauSlope = 1
  RegBaseline = 2
  RegRecent = 2
  RegRatio = 70
  DetCooldown = 2
  InNodes = {n1, n2}
  InSteps = {0, 1}
  MaxEmitted = 2
  CoNodes = {n1, n2}
  RingCap = 4
  QueryCap = 3
  Window = 1
  CoMaxDelay = 1
  MeanTps = {1, 4}
  Straggling = 80
  Workers = {n1, n2}
  Reporting = {n1}
  DiReadings <- MCDiReadings
  MaxOuter = 2
  DiBuffer = 4
  Divergence = 2
  MinSyncs = 2
  SpikeFactor = 2
  Norms = {1, 9}
  DiThreshold = 3
SPECIFICATION MCSpec
INVARIANTS TypesOK KeepsNewest NotSilenced BrokenReportedOnce AlertedOnce
PROPERTIES ImplementsThrottle CorrelationExact DivergenceGenuine
