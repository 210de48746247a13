SPECIFICATION Spec
CONSTANTS
  Resource <- MCResource
  Tool <- MCTool
  Node <- TemplateNode
  ToolOf <- MCToolOf
  Declared <- MCDeclared
  Touched <- MCTouched
  RunOf <- OneRun
  Key <- MCKey
  KeyOf <- MCKeyOf
  NoKey = NoKey
  NoEntry = NoEntry
  Unguarded = {}
  LateFailures = FALSE
INVARIANT
  NeverPreWrite
CHECK_DEADLOCK FALSE
