CONSTANTS
  upper = upper  lower = lower  dash = dash  space = space  high = high
  None = None
  Byte <- Bytes
  HighBytes = {high}
  Alphanumeric = {upper, lower}
  Lower <- LowerOf
  Arguments <- ArgumentLists
  Characters <- CharacterSet
  AsciiTexts <- BytesToFour
  WcicuTexts <- CharactersToFour
  FoldBuffer = 2
SPECIFICATION Spec
INVARIANTS TokensOfTheText
PROPERTIES RefusalEndsAscii
CHECK_DEADLOCK FALSE
