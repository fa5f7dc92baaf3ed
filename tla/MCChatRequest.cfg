SPECIFICATION Spec
CONSTANTS
  a1 = a1
  a2 = a2
  NoOne = NoOne
  Accounts <- MCAccounts
  MaxSends = 3
SYMMETRY Alike
INVARIANTS
  NothingOutstanding
  UpstreamIsCovered
  OneTicketAtATime
  CommitsAnswerOnly
CHECK_DEADLOCK FALSE
