\* The names as the two trees of definitions have them.
SPECIFICATION ParsersSpec
CONSTANTS
  None = None
  Numbers <- MCNumbers
  Rounds <- MCRounds
  OrphanPlaces = {"following"}
  MaxSigned = 1
  MaxResults = 1
  MaxRounds = 1
  GroupBits = 3
  IntBits = 5
  KeyBits = 4
  TypeBits = 2
  KnownFields <- MCKnownFields
  FieldNumbers <- MCFieldNumbers
  RareNumbers <- MCRareNumbers
  FieldPayloads <- MCFieldPayloads
  MaxBytes = 4
  MaxOdd = 2
  Absent = Absent
  RecordNames <- MCRecordNames
  BlockNames <- MCBlockNames
  RecordTypes <- MCRecordTypes
  BlockTypes <- MCBlockTypes
  Codes <- MCCodes
  Types <- MCTypes
  Ids <- MCIds
  Times <- MCTimes
  Movements <- MCMovements
  SecondsPerDay = 3
  Back = 3
  Ahead = 3
INVARIANT
  SameNameInBothEras
CHECK_DEADLOCK FALSE
