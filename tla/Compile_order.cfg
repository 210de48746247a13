SPECIFICATION PlannerSpec
CONSTANTS
  None = None
  Resource <- MCResource
  Tool <- MCTool
  Sources = {}
  EachId = 4
  ReduceId = 5
  Requests <- MCSmallRequests
  InvalidId = {9}
  Adapter <- MCAdapter
  Capabilities <- MCCapabilities
  AdapterCapabilities <- MCAdapterCapabilities
  BadSchema = {"old"}
INVARIANT
  OrderKept
