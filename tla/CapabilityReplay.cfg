SPECIFICATION FairSpec
CONSTANTS
  Crds = {"crd"}
  Providers = {"provider"}
  CrdContents <- CrdForms
  ProviderContents <- ProviderForms
  Gone = Gone
  SizeOf <- Sizes
  MaxBatchBytes = 3
  MaxBatch = 2
  MergedCap = 1
  Capacity = 1
  SessionIds = {"s1"}
  MaxChanges = 1
  MaxFaults = 1
CHECK_DEADLOCK FALSE
INVARIANTS SnapshotFollowsCluster ChunksFit
PROPERTIES StaysInSync ReplayRepairs CatalogConverges
