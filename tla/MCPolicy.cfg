\* Two containers and an init container, every kind of policy.
CONSTANTS
  Containers = {1, 2}
  Inits = {0}
  Step <- MCStep
  Policies <- MCAnyPolicy
  Pods <- MCPods
  Usages <- MCUsages
SPECIFICATION Spec
INVARIANTS
  TypeOK
  NeverRefused
  UpOnlyTwice
PROPERTIES
  QoSKept
  WithinBounds
  RaisedCoversTarget
  UpOnlySettles
