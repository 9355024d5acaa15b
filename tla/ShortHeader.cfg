\* Was nothing acknowledged from a store whose journal has no whole header?
SPECIFICATION Spec
CONSTANTS
  Faults = {}
  MaxJournalRecords = 4
  MaxSequence = 4
  MaxPieces = 6
INVARIANT
  RefusedStoreIsEmpty
CHECK_DEADLOCK FALSE
