SPECIFICATION Spec
CONSTANTS
  None = None
  near = near
  far = far
  conf1 = conf1
  conf2 = conf2
  Networks <- MCNetworks
  Reachable <- MCReachable
  ApConfs <- MCApConfs
  N = 2
  Devices <- SavedDevice
  RadioFailures <- NoFailures
  MaxChanges = 1
  MaxDrops = 0
  MaxFailures = 0
CHECK_DEADLOCK FALSE
INVARIANT ConnectedNamesLink
