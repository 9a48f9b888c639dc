\* One policy id, two jobs on one node, samples of three sources, two of a time; a third
\* sample pushes one out of a ring of two.
CONSTANTS
  p1 = p1
  n1 = n1
  n2 = n2
  j1 = j1
  j2 = j2
  None = None
  PolicyIds = {p1}
  Nodes = {n1}
  Jobs = {j1, j2}
  Configs <- MCConfigs
  Patches <- MCPatches
  Sources = {"training", "custom", "gpu"}
  RingSize = 2
  CustomCap = 2
  Minute = 1
  DefaultMinutes = 1
  MaxDelay = 1
  SampleRate = 2
  MaxSamples = 3
  MaxTime = 2
SPECIFICATION Spec
INVARIANTS TypeOK FiringsSpaced CooldownsAgree 
 
