\* Every block of at most ten items, both passes.
SPECIFICATION Spec
CONSTANTS
  None = None
  Kinds <- MCKinds
  Footers <- MCFooters
  Signatures = {"schnorr", "wraps"}
  UsizeBits = 4
  MaxItems = 10
  MaxPlain = 4
  MaxPublications = 2
INVARIANTS
  TypeOK
  StreamIsBatch
  WitnessReachesRoot
  WitnessIsForOneItem
  PassesAgree
  BootstrapIsFirstPublication
\* The bound on the items of a block is reached.
CHECK_DEADLOCK FALSE
