SPECIFICATION FairSpec
CONSTANTS
  r1 = r1
  r2 = r2
  r3 = r3
  r4 = r4
  c1 = c1
  c2 = c2
  NoOne = NoOne
  Refreshes <- MCRefreshes
  Connections <- MCConnections
  ConnOf <- MCConnOf
  Proactive <- MCProactive
  MaxLogins = 1
PROPERTIES
  Ends
CHECK_DEADLOCK FALSE
