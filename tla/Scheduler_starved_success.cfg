SPECIFICATION Spec
CONSTANTS
  Resource <- MCResource
  Tool <- MCTool
  NoTool = NoTool
  NoLimit = NoLimit
  Node <- StarvedNode
  Unit = {1, 2, 3, 4}
  Members <- StarvedMembers
  Batch <- MCBatch
  ToolOf <- StarvedToolOf
  Declared <- StarvedDeclared
  Deps <- StarvedDeps
  DataDeps <- StarvedDataDeps
  OutputRefs = {"use"}
  Cost <- StarvedCost
  SerialPosition <- MCPosition
  ToolLimit <- StarvedLimit
  Configs <- StarvedConfigs
  MaxOdd = 2
  Preparations <- MCPreparations
INVARIANT
  SuccessMeansComplete
