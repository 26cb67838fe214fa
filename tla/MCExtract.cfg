CONSTANTS
  MaxLen = 6
  Texts <- MCTexts
  Openers = {"[", "{"}
  Parse <- ParseValue
SPECIFICATION FairSpec
INVARIANTS ValuesInOrder NothingMissed
PROPERTY ScanEnds
