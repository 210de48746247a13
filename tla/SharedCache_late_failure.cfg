SPECIFICATION Spec
CONSTANTS
  Resource <- MCResource
  Tool <- MCTool
  Node <- TwoRunNode
  ToolOf <- MCToolOf
  Declared <- MCDeclared
  Touched <- MCTouched
  RunOf <- OneRun
  Key <- MCKey
  KeyOf <- MCKeyOf
  NoKey = NoKey
  NoEntry = NoEntry
  Unguarded = {}
  LateFailures = TRUE
INVARIANT
  FreshReads
CHECK_DEADLOCK FALSE
