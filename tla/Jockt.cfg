CONSTANTS
  a = a
  b = b
  t = t
  Name <- MCName
  Text <- MCText
  NumJocks = 3
  NumTests = 2
  MaxIndex = 3
  MaxRuns = 2
SPECIFICATION FairSpec
INVARIANTS TypeOK LibsOfOneRun
PROPERTIES RunsEnd Answered

\* The host may stop for good.
CHECK_DEADLOCK FALSE
