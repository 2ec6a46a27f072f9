CONSTANTS
  c1 = c1
  c2 = c2
  c3 = c3
  None = None
  Self = "self"
  Owner = {"self", "other"}
  Body <- MCBody2
  Setting <- ManySettings
  Key <- MCKey
  Spec <- MCSpec
  BuildDesired <- MCBuildDesired
  InitialCluster <- MCInitialCluster
  MayFollow <- AnyOrder
  EtagSent = {TRUE, FALSE}
  Faults = {"fetch", "apply", "crash"}
  MaxBackoff = 3
SPECIFICATION ControllerSpec
INVARIANT TypeOK
INVARIANT NoDanglingRoute
INVARIANT ReadyMeansReconciled
 
PROPERTY SuccessMirrors
PROPERTY CoverNeverLost
PROPERTY ForeignUntouched
PROPERTY ImplementsPublisher
