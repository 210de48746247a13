SPECIFICATION Spec
CONSTANTS
  Resource <- MCResource
  Tool <- MCTool
  Node <- OneRunNode
  ToolOf <- MCToolOf
  Declared <- MCDeclared
  Touched <- MCTouched
  RunOf <- OneRun
  Key <- MCKey
  KeyOf <- MCKeyOf
  NoKey = NoKey
  NoEntry = NoEntry
  Unguarded = {"join_ref"}
  LateFailures = FALSE
INVARIANTS
  Coherent
  FreshReads
CHECK_DEADLOCK FALSE
