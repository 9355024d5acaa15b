\* Does a restart accept every store the runtime wrote?
SPECIFICATION Spec
CONSTANTS
  MaxRetained = 2
  MaxLineageRecords = 8
  MaxMemberEntries = 24
  MaxWalkNodes = 8
  MaxWalkDepth = 8
  Topologies <- MCOneTopology
  Policies <- MCMajority
  Claims <- MCSplits
  Requests = {}
  IoOutcomes = {TRUE}
  Durations = {0}
  TickSteps = {2}
  TickModulus = 16
  Validity = 1
  MaxPartitions = 3
  MaxFences = 4
  MaxIsolations = 1
  MaxEpoch = 4
  MaxTick = 2
  MaxAttempts = 0
  MaxGenerations = 3
INVARIANT
  NeverRefusesOwnStore
CHECK_DEADLOCK FALSE
