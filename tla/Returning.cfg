CONSTANTS
  c1 = c1
  c2 = c2
  c3 = c3
  None = None
  Self = "self"
  Owner = {"self", "other"}
  Body <- MCBody3
  Setting <- OneSetting
  Key <- MCKey
  Spec <- MCSpec
  BuildDesired <- MCBuildDesired
  InitialCluster <- MCInitialCluster
  MayFollow <- AnyOrder
  EtagSent = {TRUE}
  Faults = {"fetch", "crash", "signal"}
  MaxBackoff = 3
SPECIFICATION ControllerSpec
INVARIANT TagNamesDigest
PROPERTY EveryPollMirrors
PROPERTY Converges
PROPERTY ShutdownStops
PROPERTY FetchBackoffSaturates
