SPECIFICATION Spec
CONSTANTS
  n1 = n1
  n2 = n2
  r1 = r1
  r2 = r2
  Namespaces = {n1, n2}
  Releases = {r1, r2}
  NamespaceOf <- MCNamespaceOf
  Capacity = 1
  SessionIds = {s1}
  MaxRevision = 2
  MaxHelm = 3
  MaxBreaks = 1
  MaxRestarts = 1
SYMMETRY ReleaseSymmetry
CHECK_DEADLOCK FALSE
INVARIANTS SnapshotFollowsHelm DiscoveriesReported
