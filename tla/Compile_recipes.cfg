SPECIFICATION PlannerSpec
CONSTANTS
  None = None
  Resource <- MCResource
  Tool <- MCTool
  Sources <- MCRecipes
  EachId = 4
  ReduceId = 5
  Requests = {}
  InvalidId = {9}
  Adapter <- MCAdapter
  Capabilities <- MCCapabilities
  AdapterCapabilities <- MCAdapterCapabilities
  BadSchema = {"old"}
INVARIANTS
  PipelineSequential
  LoweredIsValid
  NoParamLeft
