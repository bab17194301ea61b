CONSTANTS
  Char <- MCChar
  Inputs <- AllTexts
  Lower <- MCLower
  Upper <- MCUpper
  Digit <- MCDigit
  HexLetter <- MCHexLetter
  Blank <- MCBlank
  Gah <- MCGah
  Punct <- MCPunct
  Printable <- MCPrintable
  Keywords <- MCKeywords
  Booleans <- MCBooleans
  DigitValue <- MCDigitValue
  MaxValue <- MCMaxValue
SPECIFICATION FairSpec
INVARIANTS TypeOK CallMark ReservedWords Lossless ErrorPlace
PROPERTY Terminates

\* tokenize_all returns: the run ends.
CHECK_DEADLOCK FALSE
