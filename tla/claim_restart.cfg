SPECIFICATION Spec
CONSTANTS
  MaxText = 2
  MaxPackets = 3
  MaxRetries = 2
  BufferSize = 3
  None = None
  Worlds <- SessionWorlds
PROPERTY RestartKeepsSession
CHECK_DEADLOCK FALSE
