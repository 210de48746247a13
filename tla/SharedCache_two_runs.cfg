SPECIFICATION Spec
CONSTANTS
  Resource <- MCResource
  Tool <- MCTool
  Node <- TwoRunNode
  ToolOf <- MCToolOf
  Declared <- MCDeclared
  Touched <- MCTouched
  RunOf <- TwoRuns
  Key <- MCKey
  KeyOf <- MCKeyOf
  NoKey = NoKey
  NoEntry = NoEntry
  Unguarded = {}
  LateFailures = FALSE
INVARIANT
  Coherent
CHECK_DEADLOCK FALSE
