SPECIFICATION Spec
CONSTANTS
  Char <- MCChar
  QUOTE = QUOTE
  BACKSLASH = BACKSLASH
  SEMICOLON = SEMICOLON
  EQUALS = EQUALS
  SP = SP
  UPPER = UPPER
  LOWER = LOWER
  MaxLength = 6
CHECK_DEADLOCK FALSE
INVARIANTS
  QuotedTextIsRead
  PlainTextIsKept
  NoEscapeIsLost
