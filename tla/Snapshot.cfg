\* The snapshot: every pair of claims, fresh and stale, of three components.
SPECIFICATION Spec
CONSTANTS
  MaxRetained = 2
  Topologies <- MCOneRoster
  MaxAge = 4
  Claims <- MCManyClaims
  Publishers = {p1}
  Incarnations = {1}
  MaxSequence = 2
  MaxTick = 3
INVARIANTS
  CountersExact
  ConfirmedExact
  HonestEvidenceIsSound
CHECK_DEADLOCK FALSE
