CONSTANTS
  Order <- MCOrder
  Config <- MCConfig
  Upgraders = {u1, u2}
  MaxMigrations = 1
  MaxEvents = 3
SPECIFICATION DeploymentSpec
SYMMETRY UpgraderSymmetry
INVARIANTS
    SavedProxiesRun
    NoNeedlessDeployments
    StrandedBounded
    DoneCallsReachTheBook
    PendingIsExplained
CHECK_DEADLOCK FALSE
