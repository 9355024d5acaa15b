SPECIFICATION Spec
CONSTANTS
  Connections = {c1, c2, c3}
  Stoppers = {s1, s2}
  Acceptor = acceptor
  MaxSessions = 2
INVARIANT
  JoinedByOne
