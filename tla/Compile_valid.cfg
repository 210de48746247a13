SPECIFICATION PlannerSpec
CONSTANTS
  None = None
  Resource <- MCResource
  Tool <- MCTool
  Sources = {}
  EachId = 4
  ReduceId = 5
  Requests <- MCRequests
  InvalidId = {9}
  Adapter <- MCAdapter
  Capabilities <- MCCapabilities
  AdapterCapabilities <- MCAdapterCapabilities
  BadSchema = {"old"}
INVARIANT
  ValidPlansCompile
