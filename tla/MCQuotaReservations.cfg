SPECIFICATION Spec
CONSTANTS
  r1 = r1
  r2 = r2
  session = session
  weekly = weekly
  Requests <- MCRequests
  Resources <- MCResources
  Plan <- MCPlan
  Limit = 1
  ResetAt <- MCResetAt
  LeaseMs = 2
  FreshnessMs = 2
  RetentionMs = 2
  Skew = 1
  MaxTime = 4
INVARIANTS
  TypeOK
  WithinQuota
  NeverOverstates
PROPERTIES
  TerminalIsFinal
CHECK_DEADLOCK FALSE
