SPECIFICATION Spec
CONSTANTS
  RecSlot <- MCSlot
  RecHax <- MCHax
  RecTar <- MCTar
  RecPath <- MCPath
  RecTypeAtPath <- MCTypeAtPath
  RecFindName <- MCFindName
  RecFindBuc <- MCFindBuc
  RecFollowLimbs <- MCFollowLimbs
  RecUnify <- MCUnify
  RecHasError <- MCHasError
  RecAutoconsTree <- MCAutoconsTree
  RecDefault <- MCDefault
  RecResolveWing <- MCResolveWing
  RecHuntType <- MCHuntType
  RecListNoun <- MCListNoun
  RecSetNoun <- MCSetNoun
  RecMint <- MCMint
  RecHuntValue <- MCHuntValue
  RecIsData <- MCIsData
  RecFieldPath <- MCFieldPath
  RecPart <- MCPart
  RecWithPart <- MCWithPart
  RecFieldsPath <- MCFieldsPath
  RecDefaultValue <- MCDefaultValue
  RecMeans <- MCMeans
  RecIsNoun <- MCIsNoun
  RecClosed <- MCClosed
  RecNotALoop <- MCNotALoop
  RecHasType <- MCHasType
  RecKeepsTypes <- MCKeepsTypes
  Name <- MCName
  Expr <- MCExpr
  Size <- MCSize
  Nest <- MCNest
  AxisBits = 16
  ClassNames = {"Point"}
  Slog = 99
  Sources <- InlineSources
  Parsed <- InlineParsed
  Fuel = 8
INVARIANT Computes
CHECK_DEADLOCK FALSE
