SPECIFICATION Spec
CONSTANTS
  c1 = c1
  c2 = c2
  c3 = c3
  c4 = c4
  glm = glm
  kimi = kimi
  Nobody = Nobody
  Calls <- MCCalls
  Accounts <- MCAccounts
  Limit <- MCLimit
  StatedCaps = {1}
  Window = 2
  MaxTime = 2
SYMMETRY Alike
INVARIANTS
  OneSelection
  WindowKept
  TurnHasOwner
CHECK_DEADLOCK FALSE
