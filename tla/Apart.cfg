CONSTANTS
  c1 = c1
  c2 = c2
  None = None
  Self1 = "one"
  Self2 = "two"
  Owner = {"one", "two"}
  Body <- MCBody
  Setting <- MCSetting
  Key <- MCKey
  Spec <- MCSpec
  BuildDesired1 <- MCBuildDesired1
  BuildDesired2 <- MCBuildDesired2
  InitialCluster <- MCInitialCluster
  MayFollow <- MCMayFollow
  EtagSent = {TRUE}
  Faults = {"apply"}
  MaxBackoff = 1
SPECIFICATION TwoSpec
PROPERTY NoTrampling
PROPERTY FirstSuccessMirrors
