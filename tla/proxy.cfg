SPECIFICATION PipelineSpec
CONSTANTS
  b1 = b1
  b2 = b2
  k1 = k1
  k2 = k2
  k3 = k3
  t1 = t1
  t2 = t2
  tag = tag
  Keys = {k1, k2, k3}
  KeyFor <- FirstKey
  None = None
  RealKey = RealKey
  Bots = {b1, b2}
  Tokens = {t1, t2, t3, t4}
  Reqs = {r1, r2}
  Calls = {c1, c2}
  Vendor <- TwoVendors
  Tag <- NoTags
  BotTags <- JustTag
  Limit <- Limits
  Warning <- Warnings
  Wrap = 2
  Worlds <- AllWorlds
INVARIANT TokensFollowBots
 
INVARIANT ZeroTrustHolds
INVARIANT KeysTakeTurns
INVARIANT LimitIsReported
INVARIANT ForwardedIsLogged
PROPERTY TokensAreLeases
SYMMETRY Symmetry
CHECK_DEADLOCK FALSE
