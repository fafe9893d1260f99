SPECIFICATION Spec
CONSTANTS
  Codes <- MCCodes
  Keywords <- MCKeywords
  MaxText = 4
  MaxErrors = 3
  MaxTokens = 13
  Columns = 64
INVARIANT OnlyCommentsIgnored
CHECK_DEADLOCK FALSE
