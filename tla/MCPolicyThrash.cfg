\* One container, allowDownscale.
CONSTANTS
  Containers = {1}
  Inits = {}
  Step <- MCStep
  Policies <- MCDownscale
  Pods <- MCPods
  Usages <- MCUsages
SPECIFICATION Spec
PROPERTIES
  NoThrash
