SPECIFICATION TaskSpec
CONSTANTS
  c1 = c1
  c2 = c2
  c3 = c3
  e1 = e1
  e2 = e2
  e3 = e3
  e4 = e4
  k1 = k1
  k2 = k2
  Caller <- MCCaller
  Entry <- MCEntry
  Key <- MCKey
  KeyOf <- MCKeyOf
  Lock = {l1, l2, l3}
  NoSlot = NoSlot
  Nothing = Nothing
  NoEntry = NoEntry
  NoKey = NoKey
  None = None
  MaxLost = 1
  Workloads <- MCWorkloads
  Errors <- MCErrors
INVARIANTS
  OneExecution
  EffectsBounded
  AnswersMatch
  OneResultEach
PROPERTIES
  ImplementsSingleFlight
  TasksEnd
