SPECIFICATION ClientSpec
CONSTANTS
  c1 = c1
  c2 = c2
  Caller <- MCCaller
  Nobody = Nobody
  Nothing = Nothing
  NoCall = NoCall
  Proc = {1, 2}
  MaxId = 5
  Capacity = 1
  MaxFaults = 1
  Reads = TRUE
  Workloads <- MCWorkloads
INVARIANT
  DeadFailsPending
