\* Crashes between any two commits, restarts, policy changes and revalidation.
SPECIFICATION Spec
CONSTANTS
  MaxRetained = 2
  MaxLineageRecords = 4
  MaxMemberEntries = 4
  MaxWalkNodes = 8
  MaxWalkDepth = 8
  Topologies <- MCOneTopology
  Policies <- MCTwoPolicies
  Claims <- MCSplits
  Requests = {"revalidate"}
  IoOutcomes = {TRUE}
  Durations = {0}
  TickSteps = {2}
  TickModulus = 16
  Validity = 1
  MaxPartitions = 3
  MaxFences = 4
  MaxIsolations = 1
  MaxEpoch = 3
  MaxTick = 2
  MaxAttempts = 1
  MaxGenerations = 3
INVARIANTS
  InterruptedStaysCapped
  GrantsDurable
  CoveredStoreLoads
PROPERTIES
  SingleAuthority
  AuthorityNeverReissued
  EpochNeverReused
CHECK_DEADLOCK FALSE
