SPECIFICATION FairGateSpec
CONSTANTS
  c1 = c1
  c2 = c2
  c3 = c3
  c4 = c4
  global = global
  provider = provider
  Callers <- MCCallers
  Keys <- MCKeys
  MaxLimit = 2
INVARIANTS
  GateTypeOK
  SlotsConserved
  QueueIsWaiters
  WaiterHasHolder
PROPERTIES
  GrowsBelowLimit
  HandOffInOrder
  GateWaitersServed
