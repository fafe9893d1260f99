SPECIFICATION Spec
CONSTANTS
  Sources <- MCSources
  ArraySize = 2
  MaxNodes = 13
  MaxArrays = 6
INVARIANTS ParserTypeOK MemoryAccounted StaysInBounds ReadToTheEnd
PROPERTIES Spelled Conforms AsReference ParsingEnds
CHECK_DEADLOCK FALSE
