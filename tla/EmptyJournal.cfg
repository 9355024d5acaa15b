\* Is an empty journal given a header before the first record?
SPECIFICATION Spec
CONSTANTS
  Faults = {}
  MaxJournalRecords = 4
  MaxSequence = 4
  MaxPieces = 6
INVARIANT
  NoHeaderlessRecords
CHECK_DEADLOCK FALSE
