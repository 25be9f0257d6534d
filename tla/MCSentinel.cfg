\* Every interleaving of one job after another with the bucket, faults and
\* one hand edit; on one of the streams jobs wait for one another, too.
SPECIFICATION Spec
CONSTANTS
  None = None
  Absent = Absent
  Empty = Empty
  Partial = Partial
  Top = 3
  Streams <- SafetyStreams
  Root <- MCRoot
  Bytes <- MCBytes
  BlockProofs = TRUE
  ProbeStep = 2
  FetchBatch = 2
  U64Max = 99
  Secrets = {TRUE, FALSE}
  LocalModes = {FALSE}
  InitBlocks = {None, 0}
  MaxBlocks = {0, 3}
  Queued <- QueueStreams
  Skew = 1
  MaxExpired = 1
  MaxEdits = 1
  MaxFaults = 1
INVARIANTS
  TypeOK
  StateIsEarned
  TotalIsExact
  LoudFailureKeepsWork
  NoFalseAlarm
  NewestCoversPrefix
PROPERTIES
  ImplementsVerifiedPrefix
