\* Kills at any step, failed header writes and syncs, and more records than a
\* snapshot may hold.
SPECIFICATION Spec
CONSTANTS
  Faults = {"header", "sync"}
  MaxJournalRecords = 3
  MaxSequence = 4
  MaxPieces = 7
INVARIANTS
  NoSilentLoss
CHECK_DEADLOCK FALSE
