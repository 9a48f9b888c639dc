\* A duration as long as the ring reaches back, one sample per unit of time.
CONSTANTS
  p1 = p1
  n1 = n1
  n2 = n2
  j1 = j1
  j2 = j2
  None = None
  PolicyIds = {p1}
  Nodes = {n1}
  Jobs = {j1}
  Configs <- MCLongConfigs
  Patches <- MCPatches
  Sources = {"training"}
  RingSize = 3
  CustomCap = 3
  Minute = 1
  DefaultMinutes = 1
  MaxDelay = 1
  SampleRate = 1
  MaxSamples = 4
  MaxTime = 3
SPECIFICATION Spec
INVARIANTS SustainedReported
