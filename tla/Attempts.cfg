\* Is the floor of the attempt sequences durable?
SPECIFICATION Spec
CONSTANTS
  MaxRetained = 2
  MaxLineageRecords = 8
  MaxMemberEntries = 24
  MaxWalkNodes = 8
  MaxWalkDepth = 8
  Topologies <- MCOneTopology
  Policies <- MCMajority
  Claims <- MCJoined
  Requests = {"retire"}
  IoOutcomes = {TRUE}
  Durations = {0}
  TickSteps = {2}
  TickModulus = 16
  Validity = 1
  MaxPartitions = 3
  MaxFences = 4
  MaxIsolations = 1
  MaxEpoch = 3
  MaxTick = 0
  MaxAttempts = 1
  MaxGenerations = 1
PROPERTY
  AttemptNeverReplayed
CHECK_DEADLOCK FALSE
