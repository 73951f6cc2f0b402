SPECIFICATION FairSpec
CONSTANTS
  Ids = {c1}
  None = None
  Kinds <- Spdy
  QueueCap = 1
  SendCap = 2
  MaxBytes = 2
  HubCap = 1
  MaxSessions = 2
CHECK_DEADLOCK FALSE
PROPERTY TeardownEnds
