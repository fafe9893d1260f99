SPECIFICATION Spec
CONSTANTS
  Modulus <- MCModulus
  FloatUnit = 4
  Names <- MCNames
  Programs <- CasePrograms
  Nodes <- CaseNodes
  NodeData <- CaseData
  MaxVars = 9
  MaxDefers = 3
  MaxDepth = 20
  FnBase = 1000
INVARIANTS TypeOK SlotsSuffice DefersFromText
PROPERTIES TypesKept
CHECK_DEADLOCK FALSE
