\* Does an interruption outlive a second restart?
SPECIFICATION HistorySpec
CONSTANTS
  MaxRetained = 2
  MaxLineageRecords = 8
  MaxMemberEntries = 24
  MaxWalkNodes = 8
  MaxWalkDepth = 8
  Topologies <- MCOneTopology
  Policies <- MCMajority
  Claims <- MCJoined
  Requests = {"revalidate"}
  IoOutcomes = {TRUE}
  Durations = {0}
  TickSteps = {2}
  TickModulus = 16
  Validity = 1
  MaxPartitions = 3
  MaxFences = 4
  MaxIsolations = 1
  MaxEpoch = 4
  MaxTick = 0
  MaxAttempts = 1
  MaxGenerations = 2
PROPERTY
  CappedUntilRevalidated
CHECK_DEADLOCK FALSE
