CONSTANTS
  a = a
  b = b
  zero = zero
  one = one
  Name <- MCName
  Value <- MCValue
  Core = Core
  AxisLimit = 16
  MaxDepth = 3
  MaxNested = 1
  MaxFuncs = 2
  RecPath <- MCPath
  RecTypeAtPath <- MCTypeAtPath
  RecFindName <- MCFindName
  RecFindBuc <- MCFindBuc
  RecFollowLimbs <- MCFollowLimbs
  RecUnify <- MCUnify
  RecSlot <- MCSlot
  RecHax <- MCHax
  RecTar <- MCTar
SYMMETRY Symmetries
SPECIFICATION Spec
INVARIANT TypeOK
PROPERTY ImplementsEnvironment

\* A program ends with its answer.
CHECK_DEADLOCK FALSE
