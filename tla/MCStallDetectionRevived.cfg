\* The same instance; the owner of a job may declare it completed at any time.
CONSTANTS
  n1 = n1
  j1 = j1
  j2 = j2
  NoJob = NoJob
  Jobs = {j1, j2}
  Nodes = {n1}
  Steps = {0, 1}
  SampleJobs = {j1}
  MaxJobs = 1
  Patches <- MCPatches
  MaxDelay = 0
  MinSamples = 2
  WarnAfter = 2
  Cooldown = 1
  NodeFresh = 1
SPECIFICATION Spec
PROPERTY FinishedJobsSilent
