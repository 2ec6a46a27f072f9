CONSTANTS
  c1 = c1
  c2 = c2
  c3 = c3
  None = None
  Self = "self"
  Owner = {"self", "other"}
  Body <- MCBody2
  Setting <- OneSetting
  Key <- MCKey
  Spec <- MCSpec
  BuildDesired <- MCBuildDesired
  InitialCluster <- MCInitialCluster
  MayFollow <- AnyOrder
  EtagSent = {TRUE}
  Faults = {"delete"}
  MaxBackoff = 1
SPECIFICATION ControllerSpec
PROPERTY Converges
