CONSTANTS
  Order <- MCOrder
  Config <- MCConfig
  Upgraders = {u1}
  MaxMigrations = 2
  MaxEvents = 1
SPECIFICATION DeploymentSpec
INVARIANTS
    DoneIsConfigured
CHECK_DEADLOCK FALSE
