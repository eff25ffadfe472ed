SPECIFICATION FairSpec
CONSTANTS
  MaxText = 2
  MaxPackets = 3
  MaxRetries = 2
  BufferSize = 3
  None = None
  Worlds <- AllWorlds
INVARIANT SocketsFollowBreaks
INVARIANT AudioArrivesOnce
INVARIANT EndIsShown
INVARIANT SeenSurvivesRestart
PROPERTY SessionsLeave
CHECK_DEADLOCK FALSE
