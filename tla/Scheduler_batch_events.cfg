SPECIFICATION Spec
CONSTANTS
  Resource <- MCResource
  Tool <- MCTool
  NoTool = NoTool
  NoLimit = NoLimit
  Node <- PlainNode
  Unit = {1, 2, 3, 4, 5}
  Members <- PlainMembers
  Batch <- MCBatch
  ToolOf <- PlainToolOf
  Declared <- PlainDeclared
  Deps <- PlainDataDeps
  DataDeps <- PlainDataDeps
  OutputRefs = {"use"}
  Cost <- PlainCost
  SerialPosition <- MCPosition
  ToolLimit <- NoToolLimit
  Configs <- PlainConfigs
  MaxOdd = 1
  Preparations <- MCPreparations
INVARIANT
  OneTerminalEvent
