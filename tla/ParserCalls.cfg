SPECIFICATION FairSpec
CONSTANTS
  Name <- MCName
  Type <- MCType
  Number <- MCNumber
  Text <- MCText
  Programs <- MisreadPrograms
  Inputs <- Written
INVARIANT ReadsBack
CHECK_DEADLOCK FALSE
