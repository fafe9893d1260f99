SPECIFICATION PipelineSpec
CONSTANTS
  Modulus <- MCModulus
  FloatUnit = 4
  Names <- MCNames
  Programs <- StagedPrograms
  Nodes <- StagedNodes
  NodeData <- StagedData
  MaxVars = 9
  MaxTypes = 15
  MaxErrors = 4
  MaxDefers = 3
  MaxDepth = 20
  FnBase = 1000
INVARIANT CarefulProgramsRun
PROPERTIES InterpretsProgram TypesHandedOver
CHECK_DEADLOCK FALSE
