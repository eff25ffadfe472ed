SPECIFICATION FleetSpec
CONSTANTS
  h1 = h1
  h2 = h2
  h3 = h3
  ann = ann
  ben = ben
  None = None
  Hosts = {h1, h2, h3}
  Owner <- Users
  MaxBots = 3
  PortStart = 1
  Rounds = {1, 2}
  Threshold = 2
  Worlds <- Environments
INVARIANT BotsShareNothing
PROPERTY CleanupRemovesOrphans
PROPERTY UnhealthyIsEarned
PROPERTY HealthConverges
CHECK_DEADLOCK FALSE
