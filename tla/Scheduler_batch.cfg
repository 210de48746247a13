SPECIFICATION Spec
CONSTANTS
  Resource <- MCResource
  Tool <- MCTool
  NoTool = NoTool
  NoLimit = NoLimit
  Node <- BatchNode
  Unit = {1, 2, 3, 4, 5, 6, 7}
  Members <- BatchMembers
  Batch <- MCBatch
  ToolOf <- BatchToolOf
  Declared <- BatchDeclared
  Deps <- BatchDeps
  DataDeps <- BatchDataDeps
  OutputRefs = {"use"}
  Cost <- BatchCost
  SerialPosition <- MCPosition
  ToolLimit <- BatchLimit
  Configs <- BatchConfigs
  MaxOdd = 2
  Preparations <- BatchPreparations
INVARIANTS
  SafetyNetIdle
  NoUnitLostOrDoubled
  WritesInvalidated
PROPERTIES
  ImplementsLockTable
  Termination
