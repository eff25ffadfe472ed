SPECIFICATION FairSpec
CONSTANTS
  Configs <- MCConfigs
  Settings <- MCSettings
  Standard = std
  Models <- MCModels
  Score <- MCScore
  Alike <- MCAlike
  Keys <- MCKeys
  Offer <- MCOffer
  MinScore <- MCMinScore
  Reqs = {r1, r2}
  Calls = {c1}
  None = None
  Worlds <- MCWorlds
  cheap = cheap
  small = small
  good = good
  best = best
  mine = mine
  yours = yours
  k1 = k1
  k2 = k2
  k3 = k3
  r1 = r1
  r2 = r2
  c1 = c1
INVARIANT ClassifierBelongs
INVARIANT HarderGetsStronger
PROPERTY RoutingConverges
