SPECIFICATION Spec
CONSTANTS
  Key = {k1, k2, k3}
  Resource = {r1, r2}
  NoKey = NoKey
  NoEntry = NoEntry
  Configured <- MCConfigured
  MaxClock = 5
INVARIANTS
  IndexesAgree
  NoStaleEntry
PROPERTIES
  EvictsOldest
  InsertEnds
