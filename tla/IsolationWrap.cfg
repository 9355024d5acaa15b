\* An isolation whose duration wraps the clock.
SPECIFICATION Spec
CONSTANTS
  MaxRetained = 2
  MaxLineageRecords = 5
  MaxMemberEntries = 24
  MaxWalkNodes = 8
  MaxWalkDepth = 8
  Topologies <- MCTwoTopologies
  Policies <- MCMajority
  Claims <- MCLeaves
  Requests = {"isolate"}
  IoOutcomes = {TRUE}
  Durations = {2, 7}
  TickSteps = {2}
  TickModulus = 8
  Validity = 1
  MaxPartitions = 3
  MaxFences = 2
  MaxIsolations = 1
  MaxEpoch = 2
  MaxTick = 2
  MaxAttempts = 2
  MaxGenerations = 4
PROPERTY IsolationTakesEffect
CHECK_DEADLOCK FALSE
