SPECIFICATION Spec
CONSTANTS
  Resource <- MCResource
  Tool <- MCTool
  NoTool = NoTool
  NoLimit = NoLimit
  Node <- SingleNode
  Unit = {1, 2, 3, 4, 5}
  Members <- SingleMembers
  Batch <- MCBatch
  ToolOf <- SingleToolOf
  Declared <- SingleDeclared
  Deps <- SingleDeps
  DataDeps <- SingleDataDeps
  OutputRefs = {"sum", "sh"}
  Cost <- SingleCost
  SerialPosition <- SinglePosition
  ToolLimit <- SingleLimit
  Configs <- SingleConfigs
  MaxOdd = 0
  Preparations <- MCPreparations
INVARIANT
  CancelledMeansIncomplete
