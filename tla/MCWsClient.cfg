SPECIFICATION FairSpec
CONSTANTS
  Socket = {s1, s2}
  NoSocket = NoSocket
  MaxAttempts = 1
  KeepsAlive = TRUE
  RestartInCatch = FALSE
INVARIANTS NoLeakedConnection StoppedIsQuiet HeartbeatWhileOpen NeverStranded
PROPERTIES ReopenIsAReconnect EventuallyConnected
