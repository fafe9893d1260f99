SPECIFICATION Spec
CONSTANTS
  Modulus <- MCModulus
  FloatUnit = 4
  Names <- MCNames
  Programs <- ContestedPrograms
  Nodes <- ContestedNodes
  NodeData <- ContestedData
  MaxVars = 9
  MaxDefers = 3
  MaxDepth = 20
  FnBase = 1000
INVARIANT BreakHonoured
CHECK_DEADLOCK FALSE
