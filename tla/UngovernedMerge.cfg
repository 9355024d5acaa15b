\* Does a component set that spans two lineages wait for a merge?
SPECIFICATION Spec
CONSTANTS
  MaxRetained = 2
  MaxLineageRecords = 8
  MaxMemberEntries = 24
  MaxWalkNodes = 8
  MaxWalkDepth = 8
  Topologies <- MCOneTopology
  Policies <- MCMajority
  Claims <- MCShifts
  Requests = {"merge"}
  IoOutcomes = {TRUE}
  Durations = {0}
  TickSteps = {2}
  TickModulus = 16
  Validity = 1
  MaxPartitions = 3
  MaxFences = 4
  MaxIsolations = 1
  MaxEpoch = 2
  MaxTick = 2
  MaxAttempts = 1
  MaxGenerations = 3
PROPERTY
  MergeIsGoverned
CHECK_DEADLOCK FALSE
