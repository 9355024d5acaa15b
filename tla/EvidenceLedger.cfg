\* The ledger: a publisher that restarts, two topologies, a small table.
SPECIFICATION Spec
CONSTANTS
  MaxRetained = 3
  Topologies <- MCTwoRosters
  MaxAge = 4
  Claims <- MCOneClaim
  Publishers = {p1}
  Incarnations = {1, 2}
  MaxSequence = 2
  MaxTick = 1
INVARIANTS
  PublisherOrder
  NeverAcceptedTwice
CHECK_DEADLOCK FALSE
