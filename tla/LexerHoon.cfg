CONSTANTS
  Char <- MCChar
  Inputs <- MixedTexts
  Lower <- MCLower
  Upper <- MCUpper
  Digit <- MCDigit
  HexLetter <- MCHexLetter
  Blank <- MCBlank
  Gah <- MCGah
  Punct <- MCPunct
  Printable <- MCPrintable
  Keywords <- MCKeywords
  Booleans <- MCBooleans
  DigitValue <- MCDigitValue
  MaxValue <- MCMaxValue
SPECIFICATION AgreedSpec
PROPERTY HoonSpec

\* tokenize_all returns: the run ends.
CHECK_DEADLOCK FALSE
