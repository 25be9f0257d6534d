\* Every job that was started, run to its end: it verifies what it could and
\* announces the first block it could not, or something interfered; in a
\* directory, holes or not, the highest name is the newest block.
SPECIFICATION FairSpec
CONSTANTS
  None = None
  Absent = Absent
  Empty = Empty
  Partial = Partial
  Top = 2
  Streams <- LiveStreams
  Root <- MCRoot
  Bytes <- MCBytes
  BlockProofs = TRUE
  ProbeStep = 2
  FetchBatch = 2
  U64Max = 99
  Secrets = {TRUE, FALSE}
  LocalModes = {TRUE, FALSE}
  InitBlocks = {None, 0}
  MaxBlocks = {2}
  Queued = {}
  Skew = 1
  MaxExpired = 0
  MaxEdits = 0
  MaxFaults = 1
INVARIANTS
  LocalCaughtUpIsCaughtUp
PROPERTIES
  EveryJobEnds
  JobVerifies
  JobAnnounces
