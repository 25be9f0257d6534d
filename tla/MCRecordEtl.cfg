\* Two runs over one dataset, on different directories and flags, under fairness.
SPECIFICATION FairSpec
CONSTANTS
  None = None
  Absent = Absent
  Torn = Torn
  Prefixes <- MCPrefixes
  Dates <- MCDates
  Hashes <- MCHashes
  I64Max <- MCI64Max
  Inputs <- MCInputs
  Transfers = {TRUE, FALSE}
  Verifies = {TRUE, FALSE}
  ThreadCounts = {0, 2, 3}
  MaxRuns = 2
INVARIANTS
  TypeOK
  WrittenIsOneChain
  ErrorNamesFirstFile
  DaysAreWrittenInOrder
PROPERTIES
  RunEnds
\* The bound on runs is reached.
CHECK_DEADLOCK FALSE
