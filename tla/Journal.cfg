\* Appends, compactions and kills at any step while every write succeeds.
SPECIFICATION Spec
CONSTANTS
  Faults = {}
  MaxJournalRecords = 5
  MaxSequence = 6
  MaxPieces = 8
INVARIANTS
  RefusalHasCause
  TornOnlyLast
PROPERTY
  ImplementsLog
CHECK_DEADLOCK FALSE
