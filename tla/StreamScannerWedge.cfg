SPECIFICATION FairSpec
CONSTANTS
  Scanner = TRUE
  Producers = {"informer"}
  SendCap = 1
  EventsCap = 1
  ReplayEvents = 1
  MaxSessions = 2
  MaxResyncs = 0
  MaxHandshakeErrors = 0
  MaxBreaks = 1
  MaxRotations = 0
  MaxInbound = 0
  MaxPings = 0
  MaxProduced = 1
CHECK_DEADLOCK FALSE
PROPERTY ConnectedSessionEnds
