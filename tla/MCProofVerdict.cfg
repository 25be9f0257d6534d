\* Files put together from parts of two networks' blocks, in every command.
SPECIFICATION VerdictsSpec
CONSTANTS
  None = None
  Garbage = Garbage
  Unopened = Unopened
  BadKey = BadKey
  m = m
  n = n
  Nets = {m, n}
  Heights = {0, 1, 2, 3}
  EpochOf <- MCEpochOf
  SettledFrom = 2
  Book <- MCBook
  LedgerId <- MCLedgerId
  Total <- MCTotal
  LedgerLength = 2
  BitvectorLength = 3
  U128 = 16
  Materials <- MCMaterials
  Givens <- MCGivens
  Recomputed <- MCRecomputed
  P = 29
  Parties = 4
  Omega = 12
  Tau = 3
  G0 = 2
  H0 = 5
  HMsg = 7
  Committees <- MCCommittees
  Claims <- MCClaims
INVARIANTS
  TypeOK
  ValidIsAnchored
  GenuineVerifies
  InfoIsEveryHints
  IdentitiesDecideTheClaim
\* A run of a command ends.
CHECK_DEADLOCK FALSE
