SPECIFICATION LockSpec
CONSTANTS
  Resource <- MCResource
  Tool <- MCTool
  Node <- MCNode
  Unit <- EditUnits
  Members <- MCMembers
  Batch <- MCBatch
  ToolOf <- MCToolOf
  Declared <- MCDeclared
  NoTool = NoTool
INVARIANT
  NeverPanics
CHECK_DEADLOCK FALSE
