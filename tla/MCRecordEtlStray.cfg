\* A file that is not named after a time.
SPECIFICATION Spec
CONSTANTS
  None = None
  Absent = Absent
  Torn = Torn
  Prefixes <- MCPrefixes
  Dates <- MCDates
  Hashes <- MCHashes
  I64Max <- MCI64Max
  Inputs <- StrayInputs
  Transfers = {TRUE, FALSE}
  Verifies = {TRUE, FALSE}
  ThreadCounts = {0, 2, 3}
  MaxRuns = 1
INVARIANTS
  StrayNamesFail
\* The bound on runs is reached.
CHECK_DEADLOCK FALSE
