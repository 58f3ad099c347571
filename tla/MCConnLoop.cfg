SPECIFICATION Spec
CONSTANTS
  None = None
  near = near
  far = far
  conf1 = conf1
  conf2 = conf2
  Networks <- MCNetworks
  Reachable <- MCReachable
  ApConfs <- MCApConfs
  N = 2
  Devices <- MCDevices
  RadioFailures <- AllFailures
  MaxChanges = 3
  MaxDrops = 1
  MaxFailures = 1
CHECK_DEADLOCK FALSE
INVARIANT TypeOK
INVARIANT ApFollowsConfig
INVARIANT StaDisabledMeansQuiet
INVARIANT NeverSleepsInVain
PROPERTY EventuallyConnected
PROPERTY RequestTried
