\* Orphan results only where no signed transaction is waiting.
SPECIFICATION ParsersSpec
CONSTANTS
  None = None
  Numbers <- MCNumbers
  Rounds <- MCRounds
  OrphanPlaces = {"following"}
  MaxSigned = 5
  MaxResults = 5
  MaxRounds = 1
  GroupBits = 3
  IntBits = 5
  KeyBits = 4
  TypeBits = 2
  KnownFields <- MCKnownFields
  FieldNumbers <- MCFieldNumbers
  RareNumbers <- MCRareNumbers
  FieldPayloads <- MCFieldPayloads
  MaxBytes = 10
  MaxOdd = 2
  Absent = Absent
  RecordNames <- MCRecordNames
  BlockNames <- MCBlockNames
  RecordTypes <- MCRecordTypes
  BlockTypes <- MCBlockTypes
  Codes <- MCCodes
  Types <- MCTypes
  Ids <- MCIds
  Times <- MCTimes
  Movements <- MCMovements
  SecondsPerDay = 3
  Back = 30000
  Ahead = 30000
INVARIANTS
  TypeOK
  RowsHaveTheirOwnBody
  ScanIsWhatWasWritten
  ScanAgreesWithDecoder
  RowsAgree
  SecondsFallOnTheirDay
\* The bounds on the items, the bytes and the days are reached.
CHECK_DEADLOCK FALSE
