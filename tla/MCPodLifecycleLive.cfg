\* Two policies, no fault, nobody else writes the pod.
CONSTANTS
  Levels <- MCThreeLevels
  Policies = {"calm", "wary"}
  Nobody = "nobody"
  Cooldown <- MCCooldown
  Window <- MCWindow
  MaxAge = 2
  MaxExternal = 0
  MaxFaults = 0
  Faults = {}
SPECIFICATION FairSpec
PROPERTIES
  Converges
