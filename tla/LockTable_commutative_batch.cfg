SPECIFICATION LockSpec
CONSTANTS
  Resource <- MCResource
  Tool <- MCTool
  Node <- MCNode
  Unit <- CommutativeUnits
  Members <- MCMembers
  Batch <- MCBatch
  ToolOf <- MCToolOf
  Declared <- MCDeclared
  NoTool = NoTool
INVARIANT
  BatchesMirrorEffectRules
