\* Two invocations at a time or one after the other, a coordinator that dies
\* and restarts once, a host that reboots once.
SPECIFICATION Spec
CONSTANTS
  MaxHistory = 2
  MaxBoots = 2
  p1 = p1
  p2 = p2
  Processes <- MCProcesses
  Commands <- MCCommands
  NamedEpochs = {0, 2}
  PublishCount = 2
  MaxReboots = 1
INVARIANTS
  DecisionIdsNeverReused
  SequencesAdvance
  LineageExplained
PROPERTIES
  ExitCodesAreTrue
  LaterAttemptAdvances
  EveryProcessExits
CHECK_DEADLOCK FALSE
