\* Liveness: two workers, three pods, one resource, no symmetry.
CONSTANTS
  Pods = {p1, p2, p3}
  NoPod = NoPod
  MaxPods = 2
  MaxConcurrentPods = 2
  Resources <- MCCpuOnly
  MaxIncrease <- MCCpuBudget
  Deltas <- MCCpuIncreases
SPECIFICATION FairSpec
PROPERTIES
  Termination
