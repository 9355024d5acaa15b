\* Acknowledgements and verified effects across assessments, a policy change,
\* an interruption and crashes.
SPECIFICATION ApplicationSpec
CONSTANTS
  MaxRetained = 1
  MaxLineageRecords = 4
  MaxMemberEntries = 24
  MaxWalkNodes = 8
  MaxWalkDepth = 8
  Topologies <- MCOneTopology
  Policies <- MCTwoPolicies
  Claims <- MCJoined
  Requests = {"revalidate"}
  IoOutcomes = {TRUE}
  Durations = {0}
  TickSteps = {}
  TickModulus = 16
  Validity = 1
  MaxPartitions = 3
  MaxFences = 4
  MaxIsolations = 1
  MaxEpoch = 3
  MaxTick = 0
  MaxAttempts = 1
  MaxGenerations = 3
  ReportAttempts = {first, second}
  Reports <- MCReports
  MaxRecords = 2
INVARIANTS
  VerifiedIsJustified
PROPERTIES
  ApplicationNeverRegresses
  RestartInterrupts
SYMMETRY MCSymmetry
CHECK_DEADLOCK FALSE
