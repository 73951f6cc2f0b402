SPECIFICATION FairSpec
CONSTANTS
  r1 = r1
  r2 = r2
  f1 = f1
  f2 = f2
  x1 = x1
  x2 = x2
  o1 = o1
  o2 = o2
  s1 = s1
  s2 = s2
  None = None
  Pods = {p1, p2}
  Commands <- MCCommands
  Workloads <- MCWorkloads
  MaxTrouble = 2
  Repos = {r1, r2}
  Paths = {f1, f2}
  Contents = {x1, x2}
  Convention = r1
  SystemNamespace = "system"
  JournalNamespace = "system"
  Granted = {"system"}
  Objects = {o1, o2}
  Specs = {s1, s2}
  Docs = 2
  ServerDoc = 1
  Setups <- MCSetups
CHECK_DEADLOCK FALSE
INVARIANTS NoLostFiles OnlyBoundRepos RebindSurvives ActsAsUserOnce
PROPERTIES AppliedIsTrue TenantUntouched EveryCommandConcludes
