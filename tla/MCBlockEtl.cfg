\* Two runs over one dataset.
SPECIFICATION Spec
CONSTANTS
  Absent = Absent
  Torn = Torn
  Days <- MCDays
  Roots <- MCRoots
  Ids <- MCRoots
  U64Max <- MCU64Max
  Inputs <- MCInputs
  Transfers = {TRUE, FALSE}
  Verifies = {TRUE, FALSE}
  ThreadCounts = {0, 2, 3}
  MaxRuns = 2
INVARIANTS
  NothingIsWrittenUnverified
  ErrorNamesFirstFile
  RowsLandOnTheirDay
\* The bound on runs is reached.
CHECK_DEADLOCK FALSE
