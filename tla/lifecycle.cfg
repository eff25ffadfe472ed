SPECIFICATION Spec
CONSTANTS
  b1 = b1
  b2 = b2
  b3 = b3
  k1 = k1
  k2 = k2
  r1 = r1
  r2 = r2
  Keys = {k1, k2}
  KeyOf <- SameHostname
  None = None
  Bots = {b1, b2, b3}
  Cids = {c1, c2}
  Reqs = {r1, r2}
  Worlds <- SafetyWorlds
INVARIANT ReconciledRunningIsReal
INVARIANT NoContainerAfterDelete
INVARIANT NoStartFailsAlone
INVARIANT RecordedContainerIsOwn
SYMMETRY ReqSymmetry
CHECK_DEADLOCK FALSE
