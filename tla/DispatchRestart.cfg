SPECIFICATION FairSpec
CONSTANTS
  c1 = c1
  c2 = c2
  c3 = c3
  NoId = NoId
  NoEvent = NoEvent
  Pods = {p1}
  CommandIds = {c1, c2}
  Events <- MCEvents
  Registered <- MCRegistered
  JournalEnabled = TRUE
  MaxCrashes = 1
  MaxApiFaults = 1
  MaxHandlerErrors = 1
  MaxLosses = 1
  MaxDuplicates = 1
  MaxDisconnects = 1
  MaxJournalEntries = 2
  EventsCap = 1
CHECK_DEADLOCK FALSE
INVARIANTS ExecutesOnce FailClosed ReplyIsRecorded IdempotentUntilApiFails
PROPERTY RoutedAnswered
