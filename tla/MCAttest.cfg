\* Every book of at most four nodes in at most two pages, or from a file.
SPECIFICATION Spec
CONSTANTS
  k = k
  l = l
  Files <- MCFiles
  Nodes <- MCNodes
  Pages <- MCPages
  BookFiles <- MCBookFiles
  Given <- MCGiven
  Keys = {k, l, BadKey}
  BadKey = BadKey
  NoKey = NoKey
  NoAccount = NoAccount
  None = None
  MaxPages = 2
INVARIANTS
  TypeOK
  AttestedIsAThird
  EveryNodeOnce
  VerifyAgreesWithReport
\* A run ends.
CHECK_DEADLOCK FALSE
