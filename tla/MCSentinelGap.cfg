\* The bucket, two blocks missing in front of a block that is there.
SPECIFICATION Spec
CONSTANTS
  None = None
  Absent = Absent
  Empty = Empty
  Partial = Partial
  Top = 3
  Streams <- GapStreams
  Root <- MCRoot
  Bytes <- MCBytes
  BlockProofs = TRUE
  ProbeStep = 4
  FetchBatch = 2
  U64Max = 99
  Secrets = {TRUE, FALSE}
  LocalModes = {FALSE}
  InitBlocks = {0}
  MaxBlocks = {9}
  Queued = {}
  Skew = 0
  MaxExpired = 0
  MaxEdits = 0
  MaxFaults = 0
INVARIANTS
  CaughtUpMeansNothingNewer
