SPECIFICATION FairSpec
CONSTANTS
  Pods = {p1, p2}
  Tokens = {t1, t2}
  None = None
  Partial = Partial
  Grace = 2
  MaxFaults = 1
  MaxCrashes = 1
CHECK_DEADLOCK FALSE
INVARIANTS RunsArePersisted ReadinessFollows
PROPERTY EveryPodRuns
