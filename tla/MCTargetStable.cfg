\* One policy, no fault at all.
CONSTANTS
  Levels <- MCLevels
  Policies = {"wary"}
  Nobody = "nobody"
  Cooldown <- MCCooldown
  Window <- MCWindow
  MaxAge = 2
  MaxExternal = 0
  MaxFaults = 0
  Faults = {}
SPECIFICATION Spec
PROPERTIES
  TargetStable
