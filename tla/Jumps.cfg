SPECIFICATION FairSpec
CONSTANTS
  Modulus <- MCModulus
  FloatUnit = 4
  Names <- MCNames
  Programs <- JumpPrograms
  Nodes <- JumpNodes
  NodeData <- JumpData
  MaxVars = 16
  MaxDefers = 4
  MaxDepth = 20
  FnBase = 1000
INVARIANTS ScopeDiscipline CallIsolation
PROPERTIES AgreesWithReference CallersUntouched DefersKept Terminates
CHECK_DEADLOCK FALSE
