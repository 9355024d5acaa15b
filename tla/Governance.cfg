\* Merges, isolations, retirements and revalidations while a component leaves
\* the roster and lineages split and rejoin.
SPECIFICATION Spec
CONSTANTS
  MaxRetained = 2
  MaxLineageRecords = 5
  MaxMemberEntries = 8
  MaxWalkNodes = 8
  MaxWalkDepth = 8
  Topologies <- MCTwoTopologies
  Policies <- MCMajority
  Claims <- MCLeaves
  Requests = {"merge", "isolate", "clear", "retire", "revalidate"}
  IoOutcomes = {TRUE}
  Durations = {0, 2}
  TickSteps = {2}
  TickModulus = 16
  Validity = 1
  MaxPartitions = 3
  MaxFences = 2
  MaxIsolations = 1
  MaxEpoch = 2
  MaxTick = 2
  MaxAttempts = 2
  MaxGenerations = 4
INVARIANTS
  LiveLineagesDisjoint
PROPERTIES
  PrimaryJustified
  EndedOnDiskStaysEnded
CHECK_DEADLOCK FALSE
