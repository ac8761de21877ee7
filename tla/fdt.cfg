CONSTANTS
  NodeNames <- MCNodeNames
  Parts <- MCParts
  PropNames <- MCPropNames
  StringProps <- MCStringProps
  Bytes <- MCBytes
  ValueSize = 3
  BlockSize = 6
SPECIFICATION FdtSpec
INVARIANTS
  RenderIsTheTree
  PropertiesSurvive
  FormatIsReversible
CHECK_DEADLOCK FALSE
