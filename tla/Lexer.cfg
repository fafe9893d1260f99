SPECIFICATION Spec
CONSTANTS
  Codes <- MCCodes
  Keywords <- MCKeywords
  MaxText = 4
  MaxErrors = 3
  MaxTokens = 13
  Columns = 64
INVARIANTS LexTypeOK OverreadReported PositionFollowsCursor
PROPERTIES MaximalMunch LexingEnds
CHECK_DEADLOCK FALSE
