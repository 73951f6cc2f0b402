SPECIFICATION Spec
CONSTANTS
  c1 = c1
  c2 = c2
  c3 = c3
  NoId = NoId
  NoEvent = NoEvent
  Pods = {p1, p2}
  CommandIds = {c1, c2, c3}
  Events <- MCCommands
  Registered <- MCRegistered
  JournalEnabled = TRUE
  MaxCrashes = 0
  MaxApiFaults = 1
  MaxHandlerErrors = 0
  MaxLosses = 0
  MaxDuplicates = 0
  MaxDisconnects = 0
  MaxJournalEntries = 2
  EventsCap = 1
CHECK_DEADLOCK FALSE
SYMMETRY OverlapSymmetry
INVARIANT JournalBounded
PROPERTY JournalGrows
