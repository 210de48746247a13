SPECIFICATION Spec
CONSTANTS
  Caller = {c1, c2, c3}
  Key = {k1, k2}
  Lock = {l1, l2, l3, l4, l5}
  NoSlot = NoSlot
  Nothing = Nothing
  MaxLost = 1
INVARIANTS
  FlightTypeOK
  SlotsMatchCallers
  OneExecution
PROPERTY
  EveryCallerServed
