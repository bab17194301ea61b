CONSTANTS
  Numeral <- MCNumeral
  Char <- MCChar
  Arguments <- MCArguments
  Bodies <- MCBodies
  Inputs <- MCInputs
  SourceExt = {"hoon", "jock", "txt"}
  Hoon = "hoon"
  MaxLength = 3
SPECIFICATION JockcSpec
INVARIANTS TypeOK LibsByStem PrefixKept SubstitutedMiddle
PROPERTIES HandsOver Ends

\* The command returns, or the program it runs never ends.
CHECK_DEADLOCK FALSE
