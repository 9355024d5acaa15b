\* Topologies as a caller may list them.
SPECIFICATION Spec
CONSTANTS
  Base = 14
  BinaryBytes = 2
  DigestBytes = 2
  IdLength = 4
  Alphanumeric = {1, 2, 3}
  Separators = {4}
  Digest <- MCDigest
  WriterLimits <- MCLimits
  ReaderLimits <- MCLimits
  DefaultLimits <- MCLimits
  Subjects <- MCSubjects
  ScopePrefix <- MCPrefix
  PolicySchema = 1
  Values <- MCUnordered
  Specimens <- MCSpecimens
  Glitches = {0, 1, 2, 3, 4, 13}
INVARIANTS
  CommittedReloads
