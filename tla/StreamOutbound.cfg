SPECIFICATION Spec
CONSTANTS
  Scanner = TRUE
  Producers = {"informer"}
  SendCap = 1
  EventsCap = 1
  ReplayEvents = 1
  MaxSessions = 3
  MaxResyncs = 1
  MaxHandshakeErrors = 0
  MaxBreaks = 1
  MaxRotations = 1
  MaxInbound = 0
  MaxPings = 1
  MaxProduced = 1
CHECK_DEADLOCK FALSE
INVARIANTS TypeOK NumbersAccounted SentOnce OneLiveSession
PROPERTY ImplementsUplink
