SPECIFICATION Spec
CONSTANTS
  DIGIT = DIGIT
  PAD = PAD
  SPACE = SPACE
  INVALID = INVALID
  Texts <- MCTexts
  MaxLength = 8
INVARIANTS
  ChunksDecodeAsOne
  CompleteGroupsAreDecoded
