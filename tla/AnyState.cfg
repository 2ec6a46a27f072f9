CONSTANTS
  c1 = c1
  c2 = c2
  c3 = c3
  None = None
  Self = "self"
  Owner = {"self", "other"}
  Body <- MCBody2
  Setting <- NoTcp
  Key <- MCKey
  Spec <- MCSpec
  BuildDesired <- MCBuildDesired
  InitialCluster <- MCInitialCluster
  MayFollow <- AnyOrder
  EtagSent = {TRUE, FALSE}
  Faults = {"apply", "list", "delete", "drift", "crash"}
  MaxBackoff = 1
SPECIFICATION ControllerSpec
PROPERTY FreshBodyConverges
PROPERTY WantedKeepCover
PROPERTY Progress
