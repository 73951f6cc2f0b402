SPECIFICATION FairSpec
CONSTANTS
  Objects = {o1}
  Contents <- MCContents
  Gone = Gone
  NoSum = NoSum
  Unknown = Unknown
  Capacity = 2
  SessionIds = {s1, s2}
  MaxChanges = 3
  MaxBreaks = 2
  MaxRestarts = 1
CHECK_DEADLOCK FALSE
INVARIANTS DedupeSound SettledIsKnown
PROPERTY ChangesReported
