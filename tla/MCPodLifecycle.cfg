\* Two policies, lost patches and answers, crashes, a lagging cache, a foreign
\* write or a recreation.
CONSTANTS
  Levels <- MCThreeLevels
  Policies = {"calm", "wary"}
  Nobody = "nobody"
  Cooldown <- MCCooldown
  Window <- MCWindow
  MaxAge = 2
  MaxExternal = 1
  MaxFaults = 2
  Faults = {"patch", "lost", "crash", "stale"}
SPECIFICATION Spec
INVARIANTS
  TypeOK
PROPERTIES
  CooldownWithoutFaults
  NoOtherTarget
  NeverOnFirstSight
  NeverBlocked
