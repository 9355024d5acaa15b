\* Is the evidence of a merge fresh when the merge is committed?
SPECIFICATION Spec
CONSTANTS
  MaxRetained = 2
  MaxLineageRecords = 8
  MaxMemberEntries = 24
  MaxWalkNodes = 8
  MaxWalkDepth = 8
  Topologies <- MCOneTopology
  Policies <- MCMajority
  Claims <- MCMerges
  Requests = {"merge"}
  IoOutcomes = {TRUE}
  Durations = {0}
  TickSteps = {2}
  TickModulus = 16
  Validity = 1
  MaxPartitions = 3
  MaxFences = 4
  MaxIsolations = 1
  MaxEpoch = 2
  MaxTick = 4
  MaxAttempts = 1
  MaxGenerations = 4
PROPERTY
  MergeNeedsFreshEvidence
CHECK_DEADLOCK FALSE
