SPECIFICATION FairSpec
CONSTANTS
  None = None
  Startup = Startup
  MaxRetries = 2
  c1 = c1
  c2 = c2
  Clients = {i1, i2, i3}
  Sockets = {w1, w2, w3}
  Reqs = {r1, r2}
  Channels = {c1, c2}
  Worlds <- AllWorlds
PROPERTY StartupSettles
INVARIANT SocketsAreTrue
PROPERTY DeletedBotCloses
PROPERTY LinesHold
CHECK_DEADLOCK FALSE
