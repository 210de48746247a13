SPECIFICATION LockSpec
CONSTANTS
  Resource <- MCResource
  Tool <- MCTool
  Node <- MCNode
  Unit <- AllUnits
  Members <- MCMembers
  Batch <- MCBatch
  ToolOf <- MCToolOf
  Declared <- MCDeclared
  NoTool = NoTool
INVARIANTS
  TableMatchesHolders
  EffectExclusion
  MirrorsEffectRules
CHECK_DEADLOCK FALSE
