SPECIFICATION FairSpec
CONSTANTS
  k1 = k1
  k2 = k2
  a = a
  b = b
  None = None
  MaxAttempts = 2
  Keys = {k1, k2}
  Priorities = {1}
  Reqs = {r1, r2}
  Routings = {a, b}
  Configs <- AllConfigs
  Worlds <- AllWorlds
PROPERTY FailoverEnds
INVARIANT IndexInRange
INVARIANT EachTargetOncePerRound
