SPECIFICATION PlannerSpec
CONSTANTS
  None = None
  Resource <- MCResource
  Tool <- MCTool
  Sources <- MCSources
  EachId = 4
  ReduceId = 5
  Requests <- MCRequests
  InvalidId = {9}
  Adapter <- MCAdapter
  Capabilities <- MCCapabilities
  AdapterCapabilities <- MCAdapterCapabilities
  BadSchema = {"old"}
INVARIANTS
  AdmitsIsPairwise
  LayersSound
  VerdictRight
  SameMeaning
  KeptIsClosed
  UnitsSchedulable
  ReportHonest
  LoweredOrder
