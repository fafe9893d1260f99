SPECIFICATION SemFairSpec
CONSTANTS
  Modulus <- MCModulus
  FloatUnit = 4
  Names <- MCNames
  Programs <- JudgedPrograms
  Nodes <- JudgedNodes
  NodeData <- JudgedData
  MaxVars = 9
  MaxTypes = 15
  MaxErrors = 4
INVARIANTS SemTypeOK LexicalScoping TypesResolve ArgumentsMatch
PROPERTIES Decides
CHECK_DEADLOCK FALSE
