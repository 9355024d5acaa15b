\* A client and a peer of any behaviour, each on a connection of its own.
SPECIFICATION FairSpec
CONSTANTS
  Sessions = {c1, c2}
  Raw = {c2}
  Nobody = nobody
  MaxSequence = 2
  MaxInFlight = 2
INVARIANTS
  ReplyAnswersRequest
  ViewsAreCurrent
  ExecutedOnce
PROPERTY
  ExchangeReturns
CHECK_DEADLOCK FALSE
