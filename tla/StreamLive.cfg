SPECIFICATION FairSpec
CONSTANTS
  Scanner = FALSE
  Producers = {"informer"}
  SendCap = 1
  EventsCap = 1
  ReplayEvents = 1
  MaxSessions = 2
  MaxResyncs = 0
  MaxHandshakeErrors = 1
  MaxBreaks = 1
  MaxRotations = 0
  MaxInbound = 2
  MaxPings = 0
  MaxProduced = 1
CHECK_DEADLOCK FALSE
INVARIANT InboundKept
PROPERTIES ConnectedSessionEnds SendReturns
