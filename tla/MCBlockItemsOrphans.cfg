\* Orphan results wherever a child or a preceding transaction may be.
SPECIFICATION Spec
CONSTANTS
  None = None
  Numbers <- MCNumbers
  Rounds <- MCRounds
  OrphanPlaces = {"following", "preceding", "afterSignature"}
  MaxSigned = 5
  MaxResults = 5
  MaxRounds = 1
INVARIANTS
  OrphansAreUnknown
\* The bounds on the items of a block are reached.
CHECK_DEADLOCK FALSE
