SPECIFICATION FairSpec
CONSTANTS
  Name <- MCName
  Type <- MCType
  Number <- MCNumber
  Text <- MCText
  Programs <- MCPrograms
  Inputs <- MCInputs
INVARIANTS TypeOK Nested ReadsBack NothingLost
PROPERTIES Descends Returns
CHECK_DEADLOCK FALSE
