\* Is the clock durable?
SPECIFICATION Spec
CONSTANTS
  MaxRetained = 2
  MaxLineageRecords = 8
  MaxMemberEntries = 24
  MaxWalkNodes = 8
  MaxWalkDepth = 8
  Topologies <- MCOneTopology
  Policies <- MCMajority
  Claims <- MCJoined
  Requests = {}
  IoOutcomes = {TRUE}
  Durations = {0}
  TickSteps = {2}
  TickModulus = 16
  Validity = 1
  MaxPartitions = 3
  MaxFences = 4
  MaxIsolations = 1
  MaxEpoch = 3
  MaxTick = 2
  MaxAttempts = 0
  MaxGenerations = 1
INVARIANT
  ClockNeverRegresses
CHECK_DEADLOCK FALSE
