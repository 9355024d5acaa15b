\* An assessment that grants authority to every partition, under limits with fewer
\* fences than partitions, as in the default limits.
SPECIFICATION Spec
CONSTANTS
  Base = 14
  BinaryBytes = 2
  DigestBytes = 2
  IdLength = 4
  Alphanumeric = {1, 2, 3}
  Separators = {4}
  Digest <- MCDigest
  WriterLimits <- MCLimits
  ReaderLimits <- MCLimits
  DefaultLimits <- MCLimits
  Subjects <- MCSubjects
  ScopePrefix <- MCPrefix
  PolicySchema = 1
  Values <- MCGranted
  Specimens <- MCSpecimens
  Glitches = {0, 1, 2, 3, 4, 13}
INVARIANTS
  CommittedReloads
