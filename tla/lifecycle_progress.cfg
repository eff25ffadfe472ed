SPECIFICATION FairSpec
CONSTANTS
  b1 = b1
  b2 = b2
  b3 = b3
  k1 = k1
  k2 = k2
  r1 = r1
  r2 = r2
  Keys = {k1, k2}
  KeyOf <- SameHostname
  None = None
  Bots = {b1}
  Cids = {c1, c2}
  Reqs = {r1, r2}
  Worlds <- LivenessWorlds
PROPERTY StartingResolves
PROPERTY PollingConverges
CHECK_DEADLOCK FALSE
