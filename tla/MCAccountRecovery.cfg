SPECIFICATION Spec
CONSTANTS
  r1 = r1
  r2 = r2
  r3 = r3
  opus = opus
  haiku = haiku
  ALL = ALL
  NoOne = NoOne
  Models <- MCModels
  Requests <- MCRequests
  ModelOf <- MCModelOf
  Cooldowns <- MCCooldowns
  Before <- MCBefore
  LeaseMs = 3
  MaxTime = 5
SYMMETRY Twins
INVARIANTS
  TypeOK
  AccountProbesAlone
  NoOrphanLease
  FreshRowsProbeAlone
PROPERTIES
  CooldownKept
CHECK_DEADLOCK FALSE
